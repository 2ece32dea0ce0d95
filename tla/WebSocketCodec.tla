--------------------------- MODULE WebSocketCodec ---------------------------
(***************************************************************************)
(* What a WebSockSender writes (tuio/TUIO/WebSockSender.cpp): the frame    *)
(* around a packet, and the accept key of the handshake, which is the      *)
(* base64 text of the SHA-1 digest of the client's key and a constant.     *)
(*                                                                         *)
(* Bytes are numbers.  A 32-bit word is the set of its bits that are one,  *)
(* so that its operators are those of sets.  A letter of base64 is its     *)
(* place in encodeLookup.                                                  *)
(***************************************************************************)
EXTENDS Integers, Sequences

RECURSIVE sendAll(_, _), Extended(_), Rounds(_, _), Digest(_, _, _)

-----------------------------------------------------------------------------
(***************************************************************************)
(* The frame.                                                              *)
(***************************************************************************)
BigEndian(n, bytes) == [i \in 1..bytes |-> IF bytes - i > 3 THEN 0 ELSE (n \div 256^(bytes - i)) % 256]

\* FIN, binary frame; the length in 7, 16 or 64 bits, of which an int fills the last 32.
Header(len) ==
  <<130>> \o CASE len <= 125 -> <<len>>
               [] len > 125 /\ len <= 65535 -> <<126>> \o BigEndian(len, 2)
               [] OTHER -> <<127>> \o BigEndian(len, 8)

\* What reaches the socket when send() takes these numbers of bytes in turn, or what is left
\* if that is less, and whether it is all.
sendAll(data, takes) ==
  IF data = <<>> THEN [sent |-> <<>>, ok |-> TRUE]
  ELSE IF takes = <<>> \/ Head(takes) <= 0 THEN [sent |-> <<>>, ok |-> FALSE]
  ELSE LET n == IF Head(takes) < Len(data) THEN Head(takes) ELSE Len(data)
           rest == sendAll(SubSeq(data, n + 1, Len(data)), Tail(takes))
       IN  [rest EXCEPT !.sent = SubSeq(data, 1, n) \o @]

\* One client's turn: the header, then the packet; the connection is shut down after a failure.
Frame(data, headerTakes, takes) ==
  LET first == sendAll(Header(Len(data)), headerTakes)
      second == IF first.ok THEN sendAll(data, takes) ELSE [sent |-> <<>>, ok |-> FALSE]
  IN  [sent |-> first.sent \o second.sent, shut |-> ~second.ok]

-----------------------------------------------------------------------------
(***************************************************************************)
(* sha1.                                                                   *)
(***************************************************************************)
Bit == 0..31
Word(high, low) == {i \in Bit : ((IF i < 16 THEN low ELSE high) \div 2^(i % 16)) % 2 = 1}
Not(a) == Bit \ a
Xor(a, b) == (a \cup b) \ (a \cap b)
ROL(a, n) == {(i + n) % 32 : i \in a}
ROR(a, n) == ROL(a, 32 - n)

\* Modulo 2^32: a carry comes from a place where both are one, over places where one is.
Plus(a, b) ==
  LET both == a \cap b
      one == a \cup b
      carry == {i \in Bit : \E j \in both : j < i /\ \A k \in (j + 1)..(i - 1) : k \in one}
  IN  Xor(Xor(a, b), carry)

\* A block of the message at offset i with its padding, as 16 words.
Block(msg, i) ==
  LET remaining == Len(msg) - i
      byte(k) == IF k < remaining THEN msg[i + k + 1] ELSE IF k = remaining THEN 128 ELSE 0
      word(j) == Word(byte(4*j) * 256 + byte(4*j + 1), byte(4*j + 2) * 256 + byte(4*j + 3))
      bits == Word((Len(msg) * 8) \div 65536, (Len(msg) * 8) % 65536)
  IN  [j \in 1..16 |-> IF j = 16 /\ remaining < 56 THEN bits ELSE word(j - 1)]

\* The schedule of 80 words.
Extended(w) ==
  LET n == Len(w) + 1 IN
  IF n > 80 THEN w
  ELSE Extended(Append(w, ROL(Xor(Xor(w[n - 3], w[n - 8]), Xor(w[n - 14], w[n - 16])), 1)))

Mix(j, b, c, d) ==
  CASE j < 20 -> Plus((b \cap c) \cup (Not(b) \cap d), Word(\h5a82, \h7999))
    [] j >= 20 /\ j < 40 -> Plus(Xor(Xor(b, c), d), Word(\h6ed9, \heba1))
    [] j >= 40 /\ j < 60 -> Plus((b \cap c) \cup (b \cap d) \cup (c \cap d), Word(\h8f1b, \hbcdc))
    [] OTHER -> Plus(Xor(Xor(b, c), d), Word(\hca62, \hc1d6))

\* The values of a to e after each round so far; the last of them after 80.
Rounds(w, past) ==
  LET j == Len(past) - 1
      h == past[j + 1]
      temp == Plus(Plus(Mix(j, h[2], h[3], h[4]), ROL(h[1], 5)), Plus(h[5], w[j + 1]))
  IN  IF j = 80 THEN h ELSE Rounds(w, Append(past, <<temp, h[1], ROR(h[2], 2), h[3], h[4]>>))

Digest(msg, i, h) ==
  IF i >= Len(msg) + 9 THEN h
  ELSE LET r == Rounds(Extended(Block(msg, i)), <<h>>)
       IN  Digest(msg, i + 64, <<Plus(h[1], r[1]), Plus(h[2], r[2]), Plus(h[3], r[3]),
                                 Plus(h[4], r[4]), Plus(h[5], r[5])>>)

H0 == <<Word(\h6745, \h2301), Word(\hefcd, \hab89), Word(\h98ba, \hdcfe),
        Word(\h1032, \h5476), Word(\hc3d2, \he1f0)>>

\* A byte of a word, the highest first.
ByteOf(w, k) == LET in(i) == IF (24 - 8*k) + i \in w THEN 2^i ELSE 0
                IN  in(0) + in(1) + in(2) + in(3) + in(4) + in(5) + in(6) + in(7)

sha1(msg) == LET h == Digest(msg, 0, H0) IN [n \in 1..20 |-> ByteOf(h[(n + 3) \div 4], (n - 1) % 4)]

-----------------------------------------------------------------------------
(***************************************************************************)
(* base64 and the accept key.                                              *)
(***************************************************************************)
Pad == 64

Letter(temp, shift) == (temp \div 2^shift) % 64

\* Three bytes are four letters; one or two that are left over are padded.
base64(bytes) ==
  LET at(i) == IF i <= Len(bytes) THEN bytes[i] ELSE 0
      temp(idx) == at(3*idx + 1) * 65536 + at(3*idx + 2) * 256 + at(3*idx + 3)
      letter(n) == Letter(temp(n \div 4), 18 - 6 * (n % 4))
      whole == 4 * (Len(bytes) \div 3)
      left == Len(bytes) % 3
  IN  [n \in 1..(whole + IF left > 0 THEN 4 ELSE 0) |->
         IF n > whole + left + 1 THEN Pad ELSE letter(n - 1)]

\* 258EAFA5-E914-47DA-95CA-C5AB0DC85B11
Guid == <<50, 53, 56, 69, 65, 70, 65, 53, 45, 69, 57, 49, 52, 45, 52, 55, 68, 65, 45, 57, 53, 67,
          65, 45, 67, 53, 65, 66, 48, 68, 67, 56, 53, 66, 49, 49>>

AcceptKey(key) == base64(sha1(key \o Guid))
=============================================================================
