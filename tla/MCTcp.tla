-------------------------------- MODULE MCTcp --------------------------------
(***************************************************************************)
(* Instance of TcpSender for TLC, and WebSocketCodec and FlashSender on    *)
(* chosen inputs.                                                          *)
(***************************************************************************)
EXTENDS TcpSender, WebSocketCodec

MCFd == 1 .. Cardinality(Peer) + 1

-----------------------------------------------------------------------------
\* What a receiver makes of a header (RFC 6455): where the payload begins, and its length.
BigEndianValue(bytes) ==
  LET last == Len(bytes)
      byte(k) == IF last - k >= 1 THEN bytes[last - k] * 256^k ELSE 0
  IN  byte(0) + byte(1) + byte(2) + (IF last > 3 THEN bytes[last - 3] ELSE 0) * 256^3
Received(frame) ==
  LET extended == IF frame[2] = 126 THEN 2 ELSE IF frame[2] = 127 THEN 8 ELSE 0 IN
  [at |-> 3 + extended,
   len |-> IF extended = 0 THEN frame[2] ELSE BigEndianValue(SubSeq(frame, 3, 2 + extended))]

\* A receiver reads back the length of every frame, on both sides of each border between two
\* forms of the header, and the largest int.
ASSUME HeadersReadBack ==
  \A len \in (0..300) \cup {32767, 65534, 65535, 65536, 65537, 16777216, 2147483647} :
    LET h == Header(len) IN /\ h[1] = 130 /\ h[2] < 128 /\ \A i \in DOMAIN h : h[i] \in 0..255
                            /\ Received(h) = [at |-> Len(h) + 1, len |-> len]

\* However send() cuts a frame, a client has the header and then the packet, whole or up to a
\* point, and a connection with a part of a frame is shut down.
ASSUME FramesWholeOrShut ==
  \A data \in {<<7>>, <<7, 8>>, <<7, 8, 9>>} :
    \A takes1, takes2 \in UNION {[1..n -> 0..3] : n \in 0..3} :
      LET whole == Header(Len(data)) \o data
          f == Frame(data, takes1, takes2)
      IN  /\ f.sent = SubSeq(whole, 1, Len(f.sent))
          /\ f.shut <=> f.sent # whole

\* base64 keeps every bit, six to a letter, and its length is a multiple of four.
ASSUME Base64KeepsBits ==
  \A bytes \in UNION {[1..n -> {0, 1, 63, 64, 170, 255}] : n \in 0..4} :
    LET text == base64(bytes)
        letters == SelectSeq(text, LAMBDA l : l # Pad)
        in(i) == (bytes[((i - 1) \div 8) + 1] \div 2^(7 - ((i - 1) % 8))) % 2
        out(i) == (letters[((i - 1) \div 6) + 1] \div 2^(5 - ((i - 1) % 6))) % 2
    IN  /\ Len(text) % 4 = 0 /\ Len(text) - Len(letters) <= 2
        /\ \A i \in 1 .. 8 * Len(bytes) : in(i) = out(i)
        /\ \A i \in 8 * Len(bytes) + 1 .. 6 * Len(letters) : out(i) = 0

\* The digests of no byte and of 55, 56 and 64 times "a": the padding fits its block, needs one
\* more, or fills one of its own.
ASSUME DigestsKnown ==
  LET a(n) == [i \in 1..n |-> 97] IN
  /\ sha1(a(0)) = <<218, 57, 163, 238, 94, 107, 75, 13, 50, 85, 191, 239, 149, 96, 24, 144, 175, 216, 7, 9>>
  /\ sha1(a(55)) = <<193, 200, 187, 220, 34, 121, 110, 40, 192, 225, 81, 99, 210, 8, 153, 182, 86, 33, 214, 90>>
  /\ sha1(a(56)) = <<194, 219, 51, 15, 96, 131, 133, 76, 153, 212, 181, 191, 182, 232, 242, 159, 32, 27, 230, 153>>
  /\ sha1(a(64)) = <<0, 152, 186, 130, 75, 92, 22, 66, 123, 215, 161, 18, 42, 90, 68, 42, 37, 236, 100, 77>>

\* The example of RFC 6455: dGhlIHNhbXBsZSBub25jZQ== is accepted with
\* s3pPLMBiTxaQ9kYGzzhZRbK+xOo=.
ASSUME AcceptKeyOfTheRfc ==
  AcceptKey(<<100, 71, 104, 108, 73, 72, 78, 104, 98, 88, 66, 115, 90, 83, 66, 117, 98, 50, 53, 106,
              90, 81, 61, 61>>)
    = <<44, 55, 41, 15, 11, 12, 1, 34, 19, 49, 26, 16, 61, 36, 24, 6, 51, 51, 33, 25, 17, 27, 10, 62,
        49, 14, 40, Pad>>

-----------------------------------------------------------------------------
F == INSTANCE FlashSender WITH NameMax <- 4, BufferSize <- 40976, Million <- 8000

\* What a player reads (AMF): an integer, a string and the bytes at the end, from position p.
AmfInteger(m, p) ==
  LET low(i) == m[p + i] % 128 IN
  CASE m[p] < 128 -> [value |-> m[p], next |-> p + 1]
    [] m[p] >= 128 /\ m[p + 1] < 128 -> [value |-> low(0) * 128 + m[p + 1], next |-> p + 2]
    [] m[p] >= 128 /\ m[p + 1] >= 128 /\ m[p + 2] < 128 ->
         [value |-> low(0) * 16384 + low(1) * 128 + m[p + 2], next |-> p + 3]
    [] OTHER -> [value |-> low(0) * 4194304 + low(1) * 32768 + low(2) * 256 + m[p + 3], next |-> p + 4]
AmfString(m, p) ==
  LET len == m[p + 1] * 256 + m[p + 2]
  IN  [value |-> SubSeq(m, p + 3, p + 2 + len), next |-> p + 3 + len]
AmfBytes(m, p) ==
  LET n == AmfInteger(m, p + 1)
  IN  [value |-> SubSeq(m, n.next, n.next + n.value \div 2 - 1), next |-> n.next + n.value \div 2]

\* Every integer of 29 bits reads back, on both sides of each border between two lengths.
ASSUME AmfIntegersReadBack ==
  \A v \in (0..300) \cup {16383, 16384, 16385, 2097151, 2097152, 4194303, 4194304, 81953, 268435455,
                         268435456, 536870911} :
    LET w == F!TFLCSWriteAMF3Integer(v) IN /\ \A i \in DOMAIN w : w[i] \in 0..255
                                           /\ AmfInteger(w, 1) = [value |-> v, next |-> Len(w) + 1]

Strings == {<<>>, <<95>>, <<95, 79, 115>>, <<95, 79, 115, 99>>}
Packets == {[i \in 1..n |-> i % 256] : n \in {1, 2, 63, 64, 65}}

\* A player reads the names and the packet of a message that is written, and its size; the name
\* is the sender's, but one of full length runs into the method.
ASSUME MessagesReadBack ==
  \A name \in Strings, method \in {s \in Strings : Len(s) < 4}, bytes \in Packets :
    LET listener == F!ListenerName(name, method)
        m == F!sendOscPacket(TRUE, <<listener>>, name, method, bytes, 1000)
        to == AmfString(m, 17)
        protocol == AmfString(m, to.next)
        call == AmfString(m, protocol.next + 31)
        data == AmfBytes(m, call.next)
    IN  /\ to.value = listener /\ protocol.value = F!ProtocolName
        /\ call.value = method /\ data.value = bytes /\ data.next = Len(m) + 1
        /\ SubSeq(m, 13, 16) = F!LittleEndian(Len(m) - 16)
        /\ (listener = name) <=> (Len(name) < 4 \/ method = <<>>)

\* With the default names a message ends before the list of listeners, at 40976, if the packet has
\* at most 40879 bytes; the largest packets that are accepted run into the list.
ASSUME ListenersNotOverwritten ==
  \A n \in {1, 40000, 40878, 40879, 40880, 40976} :
    LET names == Len(F!EnvelopeNames([i \in 1..14 |-> 95], [i \in 1..14 |-> 114]))
        end == 16 + names + 1 + Len(F!TFLCSWriteAMF3Integer(2*n + 1)) + n
    IN  end <= 40976 <=> n <= 40879

\* Nobody is sent to without a connection, without a listener or with an empty packet; and a
\* listener whose name only begins like the sender's counts as one.
ASSUME NobodyListens ==
  LET send(up, listeners, bytes) == F!sendOscPacket(up, listeners, <<95, 79>>, <<95>>, bytes, 0) IN
  /\ send(FALSE, <<<<95, 79>>>>, <<1>>) = <<>> /\ send(TRUE, <<>>, <<1>>) = <<>>
  /\ send(TRUE, <<<<95>>, <<79>>, <<95>>>>, <<1>>) = <<>> /\ send(TRUE, <<<<95, 79>>>>, <<>>) = <<>>
  /\ send(TRUE, <<<<95, 79, 80>>>>, <<1>>) # <<>>
  /\ F!TFLCSGetConnectedConnectionNames(<<<<1>>, <<2>>, <<3>>, <<4>>, <<5>>, <<6>>>>) = <<<<1>>, <<4>>>>

\* A connect that fails at any call gives back what it has but a segment, and is open if it succeeds; the key
\* is the same whether the segment exists or is made by this side.
ASSUME ConnectsWholly ==
  /\ \A fails \in {F!PosixCalls[k] : k \in 1..4} \cup {"none"} :
       LET c == F!TFLCSConnect(<<95>>, <<95>>, fails) IN
       /\ (c.connection <=> fails = "none") /\ (c.open <=> fails = "none")
       /\ (~c.connection => c.held \subseteq {"shmget"}) /\ (c.errno = "Success" <=> c.connection)
  /\ F!TFLCSConnect(<<1, 2, 3, 4, 5>>, <<>>, "none").held = {}
  /\ F!TFLCSGuessShmemKey(<<7>>, {}) = F!TFLCSGuessShmemKey(<<7>>, {7})

\* On Windows a connection is open after the first try in which no call fails; a try that fails
\* later than its first call loses handles to the next one.
ASSUME TriesAgain ==
  \A f1, f2 \in {F!WindowsCalls[k] : k \in 1..3} \cup {"none"} :
    LET c == F!TFLCSDelayedConnect(F!TFLCSDelayedConnect(F!Unopened, f1), f2) IN
    /\ (c.open <=> "none" \in {f1, f2})
    /\ (F!Replaced(c) # {}) <=> (f1 \in {"OpenFileMapping", "MapViewOfFile"} /\ f2 # "OpenMutex")

\* The tick count is the time since the start in milliseconds, rounded down, for clocks whose
\* microseconds are less than a second.
ASSUME TicksAddUp ==
  \A s1 \in 1..3, s2 \in 0..1, u1 \in {0, 1, 3999, 4000, 7999}, u2 \in {0, 1, 3999, 4000, 7999} :
    s1 > s2 => F!TFLCSGetTickCount([sec |-> s1, usec |-> u1], [sec |-> s2, usec |-> u2])
                 = ((s1 - s2) * 8000 + u1 - u2) \div 8
=============================================================================
