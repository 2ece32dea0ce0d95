------------------------------ MODULE OscProof ------------------------------
(***************************************************************************)
(* Proofs about oscpack, for a buffer of any size, any addresses and       *)
(* arguments, any sockets and timers.  The stream: a packet stays in its   *)
(* buffer, the pointer finds back through the open elements, and a message *)
(* is read as it was written.  The multiplexer: a break is never slept     *)
(* over, and no socket is forgotten.                                       *)
(***************************************************************************)
EXTENDS OscMessage, SocketMultiplexerWin32, DataLemmas

(***************************************************************************)
(* Bytes and strings.                                                      *)
(***************************************************************************)
\* The bytes d are in memory m from offset p.
Holds(m, p, d) == \A j \in 1 .. Len(d) : m[p + j - 1] = d[j]

LEMMA Digits ==
  ASSUME NEW n \in Nat, n \div 16777216 < 256
  PROVE  (n \div 16777216) * 16777216 + ((n \div 65536) % 256) * 65536 + ((n \div 256) % 256) * 256 + (n % 256) = n
<1> DEFINE a == n \div 256
           b == n \div 65536
           c == n \div 16777216
<1>1. n = 256 * a + (n % 256) /\ a \in Nat
  OBVIOUS
<1>2. a = 256 * (a \div 256) + (a % 256) /\ a \div 256 \in Nat
  BY <1>1
<1>3. a \div 256 = b /\ b \in Nat
  OBVIOUS
<1>4. b = 256 * (b \div 256) + (b % 256) /\ b \div 256 \in Nat
  BY <1>3
<1>5. b \div 256 = c /\ c \in Nat
  OBVIOUS
<1> QED
  BY <1>1, <1>2, <1>3, <1>4, <1>5

LEMMA FunSeq ==
  ASSUME NEW n \in Nat, NEW S, NEW f \in [1 .. n -> S]
  PROVE  f \in Seq(S)
<1>1. \A i \in 1 .. n : f[i] \in S
  OBVIOUS
<1>2. [i \in 1 .. n |-> f[i]] \in Seq(S)
  BY <1>1, IsASeq
<1>3. f = [i \in 1 .. n |-> f[i]]
  OBVIOUS
<1> QED
  BY <1>2, <1>3

LEMMA ValuesIn ==
  ASSUME NEW S, NEW T, NEW s \in Seq(T), \A i \in 1 .. Len(s) : s[i] \in S
  PROVE  s \in Seq(S)
<1>1. Len(s) \in Nat /\ s = [i \in 1 .. Len(s) |-> s[i]]
  BY LenProperties
<1>2. [i \in 1 .. Len(s) |-> s[i]] \in Seq(S)
  BY <1>1, IsASeq
<1> QED
  BY <1>1, <1>2

Digit3(n) == (n \div 16777216) % 256
Digit2(n) == (n \div 65536) % 256
Digit1(n) == (n \div 256) % 256
Digit0(n) == n % 256
LEMMA Int32Is ==
  ASSUME NEW n \in Nat
  PROVE  /\ Int32(n) \in Seq(Nat) /\ Len(Int32(n)) = 4
         /\ Int32(n)[1] = Digit3(n) /\ Int32(n)[2] = Digit2(n)
         /\ Int32(n)[3] = Digit1(n) /\ Int32(n)[4] = Digit0(n)
<1>1. /\ Int32(n)[1] = (n \div 256^(4 - 1)) % 256
      /\ Int32(n)[2] = (n \div 256^(4 - 2)) % 256
      /\ Int32(n)[3] = (n \div 256^(4 - 3)) % 256
      /\ Int32(n)[4] = (n \div 256^(4 - 4)) % 256
  BY DEF Int32
<1>2. 256^(4 - 1) = 16777216 /\ 256^(4 - 2) = 65536 /\ 256^(4 - 3) = 256 /\ 256^(4 - 4) = 1
  OBVIOUS
<1>3. (n \div 16777216) % 256 \in Nat /\ (n \div 65536) % 256 \in Nat /\ (n \div 256) % 256 \in Nat /\ n % 256 \in Nat
  OBVIOUS
<1>4. \A i \in 1 .. 4 : Int32(n)[i] \in Nat
  BY <1>1, <1>2, <1>3, SMT
<1>5. Len(Int32(n)) = 4
  BY DEF Int32
<1>6. Int32(n) \in Seq(Nat)
  <2>1. Int32(n) \in Seq(Int)
    BY DEF Int32
  <2>2. \A i \in 1 .. Len(Int32(n)) : Int32(n)[i] \in Nat
    BY <1>4, <1>5
  <2> QED
    BY <2>1, <2>2, ValuesIn
<1>7. /\ Int32(n)[1] = Digit3(n) /\ Int32(n)[2] = Digit2(n)
      /\ Int32(n)[3] = Digit1(n) /\ Int32(n)[4] = Digit0(n)
  BY <1>1, <1>2, SMT DEF Digit0, Digit1, Digit2, Digit3
<1> QED
  BY <1>5, <1>6, <1>7

\* Four bytes that were written from a number are that number.
LEMMA NumberIs ==
  ASSUME NEW m, NEW p \in Int, NEW n \in Nat, Is32(n), Holds(m, p, Int32(n))
  PROVE  Number(m, p) = n
<1>1. Len(Int32(n)) = 4
  BY Int32Is
<1>2. \A j \in 1 .. 4 : m[p + j - 1] = Int32(n)[j]
  BY <1>1 DEF Holds
<1>3. /\ m[p] = Int32(n)[1] /\ m[p + 1] = Int32(n)[2]
      /\ m[p + 2] = Int32(n)[3] /\ m[p + 3] = Int32(n)[4]
  <2>1. p + 1 - 1 = p /\ p + 2 - 1 = p + 1 /\ p + 3 - 1 = p + 2 /\ p + 4 - 1 = p + 3
    OBVIOUS
  <2>2. 1 \in 1 .. 4 /\ 2 \in 1 .. 4 /\ 3 \in 1 .. 4 /\ 4 \in 1 .. 4
    OBVIOUS
  <2> QED
    BY <1>2, <2>1, <2>2
<1>4. m[p] = Digit3(n) /\ m[p + 1] = Digit2(n) /\ m[p + 2] = Digit1(n) /\ m[p + 3] = Digit0(n)
  BY <1>3, Int32Is
<1>5. Digit3(n) * 16777216 + Digit2(n) * 65536 + Digit1(n) * 256 + Digit0(n) = n
  <2>1. n \div 16777216 < 256
    BY SMT DEF Is32
  <2>2. (n \div 16777216) % 256 = n \div 16777216
    BY <2>1, SMT
  <2> QED
    BY <2>1, <2>2, Digits, SMT DEF Digit0, Digit1, Digit2, Digit3
<1>6. 256^3 = 16777216 /\ 256^2 = 65536
  BY SMT
<1>7. Number(m, p) = Digit3(n) * 16777216 + Digit2(n) * 65536 + Digit1(n) * 256 + Digit0(n)
  BY <1>4, <1>6, SMT DEF Number
<1> QED
  BY <1>5, <1>7, SMT

LEMMA PutIs ==
  ASSUME NEW m, NEW at \in Int, NEW d, Len(d) \in Nat
  PROVE  /\ DOMAIN Put(m, at, d) = DOMAIN m
         /\ \A i \in DOMAIN m : i \in at .. at + Len(d) - 1 => Put(m, at, d)[i] = d[i - at + 1]
         /\ \A i \in DOMAIN m : i \notin at .. at + Len(d) - 1 => Put(m, at, d)[i] = m[i]
  BY DEF Put

LEMMA PutHolds ==
  ASSUME NEW m, NEW at \in Int, NEW d, Len(d) \in Nat, at .. at + Len(d) - 1 \subseteq DOMAIN m
  PROVE  Holds(Put(m, at, d), at, d)
<1> SUFFICES ASSUME NEW j \in 1 .. Len(d) PROVE Put(m, at, d)[at + j - 1] = d[j]
  BY DEF Holds
<1>1. at + j - 1 \in at .. at + Len(d) - 1 /\ (at + j - 1) - at + 1 = j
  OBVIOUS
<1> QED
  BY <1>1, PutIs

\* Bytes that are not written stay.
LEMMA HoldsStill ==
  ASSUME NEW m, NEW k, NEW p \in Int, NEW d, Len(d) \in Nat, Holds(m, p, d),
         \A i \in p .. p + Len(d) - 1 : k[i] = m[i]
  PROVE  Holds(k, p, d)
<1> SUFFICES ASSUME NEW j \in 1 .. Len(d) PROVE k[p + j - 1] = d[j]
  BY DEF Holds
<1>1. p + j - 1 \in p .. p + Len(d) - 1
  OBVIOUS
<1> QED
  BY <1>1 DEF Holds

LEMMA RoundUp4Is ==
  ASSUME NEW n \in Nat
  PROVE  RoundUp4(n) \in Nat /\ n <= RoundUp4(n) /\ RoundUp4(n) < n + 4 /\ RoundUp4(n) % 4 = 0
  BY DEF RoundUp4

LEMMA PaddedIs ==
  ASSUME NEW s \in Seq(1..255)
  PROVE  /\ Padded(s) \in Seq(Nat) /\ Len(Padded(s)) = RoundUp4(Len(s) + 1)
         /\ Len(s) \in Nat /\ Len(s) < Len(Padded(s)) /\ Len(Padded(s)) <= Len(s) + 4
         /\ Len(Padded(s)) % 4 = 0
         /\ \A j \in 1 .. Len(s) : Padded(s)[j] = s[j]
         /\ \A j \in Len(s) + 1 .. Len(Padded(s)) : Padded(s)[j] = Nul
<1> DEFINE zeros == [i \in 1 .. RoundUp4(Len(s) + 1) - Len(s) |-> Nul]
<1>1. Len(s) \in Nat /\ Len(s) + 1 \in Nat /\ s \in Seq(Nat)
  <2>1. 1..255 \subseteq Nat
    OBVIOUS
  <2>2. s \in Seq(Nat)
    BY <2>1, SeqMonotonic, Zenon
  <2>3. Len(s) \in Nat
    BY <2>2, LenProperties
  <2> QED
    BY <2>2, <2>3
<1>2. /\ RoundUp4(Len(s) + 1) \in Nat /\ Len(s) + 1 <= RoundUp4(Len(s) + 1)
      /\ RoundUp4(Len(s) + 1) < Len(s) + 1 + 4 /\ RoundUp4(Len(s) + 1) % 4 = 0
  BY <1>1, RoundUp4Is
<1>3. /\ zeros \in Seq(Nat) /\ Len(zeros) = RoundUp4(Len(s) + 1) - Len(s)
      /\ \A j \in 1 .. RoundUp4(Len(s) + 1) - Len(s) : zeros[j] = Nul
  BY <1>1, <1>2 DEF Nul
<1>4. Padded(s) = s \o zeros
  BY DEF Padded
<1> HIDE DEF zeros
<1>5. /\ s \o zeros \in Seq(Nat) /\ Len(s \o zeros) = Len(s) + Len(zeros)
      /\ \A i \in 1 .. Len(s) + Len(zeros) :
           (s \o zeros)[i] = IF i <= Len(s) THEN s[i] ELSE zeros[i - Len(s)]
  BY <1>1, <1>3, ConcatProperties
<1>6. Len(Padded(s)) = RoundUp4(Len(s) + 1)
  BY <1>1, <1>2, <1>3, <1>4, <1>5
<1>7. \A j \in 1 .. Len(s) : Padded(s)[j] = s[j]
  BY <1>1, <1>2, <1>3, <1>4, <1>5
<1>8. \A j \in Len(s) + 1 .. Len(Padded(s)) : Padded(s)[j] = Nul
  <2> TAKE j \in Len(s) + 1 .. Len(Padded(s))
  <2>1. j \in 1 .. Len(s) + Len(zeros) /\ ~(j <= Len(s)) /\ j - Len(s) \in 1 .. RoundUp4(Len(s) + 1) - Len(s)
    BY <1>1, <1>2, <1>3, <1>6
  <2> QED
    BY <1>3, <1>4, <1>5, <2>1
<1>9. Padded(s) \in Seq(Nat)
  BY <1>4, <1>5
<1> QED
  BY <1>1, <1>2, <1>6, <1>7, <1>8, <1>9

\* The least of some naturals.
LEMMA LeastIs ==
  ASSUME NEW S, S \subseteq Nat, NEW x \in S, \A y \in S : x <= y
  PROVE  Min(S) = x
<1>1. \A z \in S : (\A y \in S : z <= y) => z = x
  OBVIOUS
<1> QED
  BY <1>1 DEF Min

\* The reader finds the end of a string that the stream wrote.
LEMMA StringEndIs ==
  ASSUME NEW m, NEW p \in Nat, NEW e \in Nat, NEW s \in Seq(1..255),
         Holds(m, p, Padded(s)), p + Len(Padded(s)) <= e
  PROVE  StringEnd(m, p, e) = p + Len(Padded(s))
<1> DEFINE n == Len(s)
           k == Len(Padded(s))
           zeros == {q \in p + 3 .. e - 1 : (q - p) % 4 = 3 /\ m[q] = Nul}
<1>1. n \in Nat /\ k \in Nat /\ n < k /\ k <= n + 4 /\ k % 4 = 0
  BY PaddedIs
<1>0. n = Len(s) /\ k = Len(Padded(s))
  OBVIOUS
<1> HIDE DEF n, k, zeros
<1>2. \A q \in p .. p + n - 1 : m[q] \in 1 .. 255
  <2> TAKE q \in p .. p + n - 1
  <2> DEFINE j == q - p + 1
  <2>1. j \in 1 .. n /\ j \in 1 .. k /\ p + j - 1 = q
    BY <1>1
  <2> HIDE DEF j
  <2>2. m[p + j - 1] = Padded(s)[j]
    BY <1>0, <2>1 DEF Holds
  <2>3. j \in 1 .. Len(s)
    BY <1>0, <2>1
  <2>4. s[j] \in 1 .. 255 /\ Padded(s)[j] = s[j]
    BY <2>3, ElementOfSeq, PaddedIs
  <2> QED
    BY <2>1, <2>2, <2>4
<1>3. \A q \in p + n .. p + k - 1 : m[q] = Nul
  <2> TAKE q \in p + n .. p + k - 1
  <2>1. q - p + 1 \in n + 1 .. k /\ q - p + 1 \in 1 .. k /\ p + (q - p + 1) - 1 = q
    BY <1>1
  <2>2. m[q] = Padded(s)[q - p + 1]
    BY <1>0, <2>1 DEF Holds
  <2> QED
    BY <1>0, <2>1, <2>2, PaddedIs
<1>4. p < e /\ ~(p >= e)
  BY <1>0, <1>1
<1>7. 0 \notin 1 .. 255
  OBVIOUS
<1>5. CASE n = 0
  <2>1. k = 4 /\ m[p] = Nul
    BY <1>1, <1>3, <1>5
  <2> QED
    BY <1>0, <1>4, <2>1 DEF StringEnd
<1>6. CASE n # 0
  <2>1. m[p] # Nul
    <3>1. p \in p .. p + n - 1
      BY <1>1, <1>6
    <3> QED
      BY <1>2, <1>7, <3>1 DEF Nul
  <2>2. p + k - 1 \in zeros
    <3>1. p + k - 1 \in p + 3 .. e - 1 /\ ((p + k - 1) - p) % 4 = 3
      <4>1. k >= 4 /\ p + k <= e
        BY <1>0, <1>1, <1>6
      <4>2. p + k - 1 \in p + 3 .. e - 1
        BY <1>1, <4>1
      <4>3. (p + k - 1) - p = k - 1 /\ (k - 1) % 4 = 3
        BY <1>1, <4>1
      <4> QED
        BY <4>2, <4>3
    <3>2. m[p + k - 1] = Nul
      BY <1>1, <1>3
    <3> QED
      BY <3>1, <3>2 DEF zeros
  <2>3. \A q \in zeros : p + k - 1 <= q
    <3> SUFFICES ASSUME NEW q \in p + 3 .. e - 1, (q - p) % 4 = 3, m[q] = Nul, q < p + k - 1
                 PROVE  FALSE
      BY <1>1 DEF zeros
    <3>1. q <= p + k - 1 - 4
      BY <1>1
    <3>2. q \in p .. p + n - 1
      BY <1>1, <3>1
    <3> QED
      BY <1>2, <1>7, <3>2 DEF Nul
  <2>4. zeros \subseteq Nat
    BY DEF zeros
  <2>5. StringEnd(m, p, e) = IF zeros = {} THEN None ELSE Min(zeros) + 1
    BY <1>4, <2>1 DEF StringEnd, zeros
  <2>6. Min(zeros) = p + k - 1
    BY <2>2, <2>3, <2>4, LeastIs
  <2> QED
    BY <1>0, <1>1, <2>2, <2>5, <2>6
<1> QED
  BY <1>5, <1>6

\* And the string is what was written.
LEMMA TextIs ==
  ASSUME NEW m, NEW p \in Nat, NEW s \in Seq(1..255),
         Holds(m, p, Padded(s)), p + Len(Padded(s)) <= Capacity, Capacity \in Nat
  PROVE  Text(m, p) = s
<1> DEFINE n == Len(s)
           k == Len(Padded(s))
           ends == {q \in p .. Capacity : q = Capacity \/ m[q] = Nul}
<1>1. n \in Nat /\ k \in Nat /\ n < k /\ s \in [1 .. n -> 1..255]
  BY PaddedIs, LenProperties
<1>2. \A j \in 1 .. n : m[p + j - 1] = s[j]
  <2> TAKE j \in 1 .. n
  <2>1. j \in 1 .. k
    BY <1>1
  <2> QED
    BY <2>1, PaddedIs DEF Holds
<1>3. m[p + n] = Nul
  <2>1. n + 1 \in 1 .. k /\ p + (n + 1) - 1 = p + n /\ n + 1 \in n + 1 .. k
    BY <1>1
  <2>2. m[p + (n + 1) - 1] = Padded(s)[n + 1]
    BY <2>1 DEF Holds
  <2> QED
    BY <2>1, <2>2, PaddedIs
<1> HIDE DEF n
<1>4. p + n \in ends
  BY <1>1, <1>3
<1>5. \A q \in ends : p + n <= q
  <2> SUFFICES ASSUME NEW q \in p .. Capacity, q = Capacity \/ m[q] = Nul, q < p + n PROVE FALSE
    BY <1>1
  <2>1. q # Capacity
    BY <1>1
  <2>2. q - p + 1 \in 1 .. n /\ p + (q - p + 1) - 1 = q
    BY <1>1
  <2>3. m[q] = s[q - p + 1]
    BY <1>2, <2>2
  <2>4. s[q - p + 1] \in 1..255
    BY <1>1, <2>2
  <2>5. 0 \notin 1 .. 255
    OBVIOUS
  <2> QED
    BY <2>1, <2>3, <2>4, <2>5 DEF Nul
<1>6. ends \subseteq Nat
  OBVIOUS
<1>7. Text(m, p) = Bytes(m, p, Min(ends))
  BY DEF Text
<1> HIDE DEF ends
<1>8. Min(ends) = p + n
  BY <1>4, <1>5, <1>6, LeastIs
<1>9. Bytes(m, p, p + n) = [i \in 1 .. n |-> m[p + i - 1]]
  <2> DEFINE x == (p + n) - p
  <2>1. x = n
    BY <1>1
  <2>2. Bytes(m, p, p + n) = [i \in 1 .. x |-> m[p + i - 1]]
    BY DEF Bytes
  <2> HIDE DEF x
  <2> QED
    BY <2>1, <2>2
<1>10. [i \in 1 .. n |-> m[p + i - 1]] = s
  BY <1>1, <1>2
<1> QED
  BY <1>7, <1>8, <1>9, <1>10

-----------------------------------------------------------------------------
(***************************************************************************)
(* An argument.                                                            *)
(***************************************************************************)
LEMMA Joined ==
  ASSUME NEW s \in Seq(Nat), NEW t \in Seq(Nat)
  PROVE  s \o t \in Seq(Nat) /\ Len(s \o t) = Len(s) + Len(t)
  BY ConcatProperties

LEMMA HoldsParts ==
  ASSUME NEW m, NEW p \in Int, NEW s \in Seq(Nat), NEW t \in Seq(Nat)
  PROVE  /\ s \o t \in Seq(Nat) /\ Len(s \o t) = Len(s) + Len(t)
         /\ Len(s) \in Nat /\ Len(t) \in Nat
         /\ Holds(m, p, s \o t) => Holds(m, p, s) /\ Holds(m, p + Len(s), t)
<1>1. /\ s \o t \in Seq(Nat) /\ Len(s \o t) = Len(s) + Len(t)
      /\ \A i \in 1 .. Len(s) + Len(t) : (s \o t)[i] = IF i <= Len(s) THEN s[i] ELSE t[i - Len(s)]
  BY ConcatProperties
<1>2. Len(s) \in Nat /\ Len(t) \in Nat
  BY LenProperties
<1>3. ASSUME Holds(m, p, s \o t) PROVE Holds(m, p, s)
  <2> SUFFICES ASSUME NEW j \in 1 .. Len(s) PROVE m[p + j - 1] = s[j]
    BY DEF Holds
  <2>1. j \in 1 .. Len(s) + Len(t) /\ j <= Len(s)
    BY <1>2
  <2> QED
    BY <1>1, <1>3, <2>1 DEF Holds
<1>4. ASSUME Holds(m, p, s \o t) PROVE Holds(m, p + Len(s), t)
  <2> SUFFICES ASSUME NEW j \in 1 .. Len(t) PROVE m[(p + Len(s)) + j - 1] = t[j]
    BY DEF Holds
  <2> DEFINE i == Len(s) + j
  <2>1. i \in 1 .. Len(s) + Len(t) /\ ~(i <= Len(s)) /\ i - Len(s) = j
    BY <1>2
  <2>2. (p + Len(s)) + j - 1 = p + i - 1
    BY <1>2
  <2> HIDE DEF i
  <2>3. m[p + i - 1] = (s \o t)[i]
    BY <1>1, <1>4, <2>1 DEF Holds
  <2> QED
    BY <1>1, <2>1, <2>2, <2>3
<1> QED
  BY <1>1, <1>2, <1>3, <1>4

Marks == {ArrayBegin, ArrayEnd}
\* The arguments a caller can write.
Item ==
  [tag : Flags \cup Marks, value : {<<>>}] \cup [tag : Words, value : {<<n>> : n \in Numbers}]
    \cup [tag : Longs, value : {<<0, n>> : n \in Numbers}] \cup [tag : Texts \cup {Blob}, value : Strings]
Zeros(s) == [i \in 1 .. RoundUp4(Len(s)) - Len(s) |-> Nul]
BlobData(s) == Int32(Len(s)) \o s \o Zeros(s)
\* And their bytes.
Data(a) == CASE a.tag \in Words -> Int32(a.value[1])
             [] a.tag \in Longs -> Int64(a.value[2])
             [] a.tag \in Texts -> Padded(a.value)
             [] a.tag = Blob -> BlobData(a.value)
             [] OTHER -> <<>>

Kind(a, F, W, L, T, B) ==
  /\ (a.tag \in Flags \cup Marks) = F /\ (a.tag \in Words) = W /\ (a.tag \in Longs) = L
  /\ (a.tag \in Texts) = T /\ (a.tag = Blob) = B

LEMMA Kinds ==
  ASSUME NEW t
  PROVE  /\ t \in Flags \cup Marks => t \notin Words /\ t \notin Longs /\ t \notin Texts /\ t # Blob
         /\ t \in Words => t \notin Flags \cup Marks /\ t \notin Longs /\ t \notin Texts /\ t # Blob
         /\ t \in Longs => t \notin Flags \cup Marks /\ t \notin Words /\ t \notin Texts /\ t # Blob
         /\ t \in Texts => t \notin Flags \cup Marks /\ t \notin Longs /\ t \notin Words /\ t # Blob
         /\ t = Blob => t \notin Flags \cup Marks /\ t \notin Longs /\ t \notin Words /\ t \notin Texts
  BY SMT DEF Flags, Marks, Words, Longs, Texts, Blob, ArrayBegin, ArrayEnd

LEMMA BlobIs ==
  ASSUME NEW s \in Seq(1..255)
  PROVE  /\ BlobData(s) \in Seq(Nat) /\ Len(BlobData(s)) = 4 + RoundUp4(Len(s))
         /\ Len(s) \in Nat /\ RoundUp4(Len(s)) \in Nat /\ Len(s) <= RoundUp4(Len(s))
         /\ RoundUp4(Len(s)) % 4 = 0 /\ s \in Seq(Nat) /\ Zeros(s) \in Seq(Nat)
<1>1. 1..255 \subseteq Nat
  OBVIOUS
<1>2. s \in Seq(Nat)
  BY <1>1, SeqMonotonic, Zenon
<1>3. Len(s) \in Nat
  BY <1>2, LenProperties
<1>4. /\ RoundUp4(Len(s)) \in Nat /\ Len(s) <= RoundUp4(Len(s)) /\ RoundUp4(Len(s)) % 4 = 0
      /\ RoundUp4(Len(s)) - Len(s) \in Nat
  <2>1. /\ RoundUp4(Len(s)) \in Nat /\ Len(s) <= RoundUp4(Len(s)) /\ RoundUp4(Len(s)) % 4 = 0
    BY <1>3, RoundUp4Is
  <2> QED
    BY <1>3, <2>1
<1>5. Zeros(s) \in Seq(Nat) /\ Len(Zeros(s)) = RoundUp4(Len(s)) - Len(s)
  BY <1>4 DEF Zeros, Nul
<1>6. Int32(Len(s)) \in Seq(Nat) /\ Len(Int32(Len(s))) = 4
  BY <1>3, Int32Is
<1>7. Int32(Len(s)) \o s \in Seq(Nat) /\ Len(Int32(Len(s)) \o s) = 4 + Len(s)
  <2> DEFINE c == Int32(Len(s))
  <2>1. c \in Seq(Nat) /\ Len(c) = 4
    BY <1>6
  <2> HIDE DEF c
  <2>2. c \o s \in Seq(Nat) /\ Len(c \o s) = Len(c) + Len(s)
    BY <1>2, <2>1, Joined
  <2>3. Len(c \o s) = 4 + Len(s)
    BY <2>1, <2>2
  <2> QED
    BY <2>2, <2>3 DEF c
<1>8. /\ (Int32(Len(s)) \o s) \o Zeros(s) \in Seq(Nat)
      /\ Len((Int32(Len(s)) \o s) \o Zeros(s)) = 4 + Len(s) + Len(Zeros(s))
  <2> DEFINE u == Int32(Len(s)) \o s
             z == Zeros(s)
  <2>1. u \in Seq(Nat) /\ z \in Seq(Nat) /\ Len(u) = 4 + Len(s)
    BY <1>5, <1>7
  <2> HIDE DEF u, z
  <2>2. u \o z \in Seq(Nat) /\ Len(u \o z) = Len(u) + Len(z)
    BY <2>1, Joined
  <2>3. Len(u \o z) = 4 + Len(s) + Len(z)
    BY <2>1, <2>2
  <2> QED
    BY <2>2, <2>3 DEF u, z
<1>9. BlobData(s) = (Int32(Len(s)) \o s) \o Zeros(s)
  BY DEF BlobData
<1> QED
  BY <1>2, <1>3, <1>4, <1>5, <1>8, <1>9

LEMMA LongIs ==
  ASSUME NEW n \in Nat
  PROVE  /\ Int64(n) \in Seq(Nat) /\ Len(Int64(n)) = 8
         /\ \A m : \A p \in Int : Holds(m, p, Int64(n)) =>
              /\ m[p] = 0 /\ m[p + 1] = 0 /\ m[p + 2] = 0 /\ m[p + 3] = 0
              /\ Holds(m, p + 4, Int32(n))
<1> DEFINE z == <<0, 0, 0, 0>>
<1>1. z \in Seq(Nat) /\ Len(z) = 4 /\ z[1] = 0 /\ z[2] = 0 /\ z[3] = 0 /\ z[4] = 0
  OBVIOUS
<1>2. Int32(n) \in Seq(Nat) /\ Len(Int32(n)) = 4
  BY Int32Is
<1>3. Int64(n) = z \o Int32(n)
  BY DEF Int64
<1> DEFINE c == Int32(n)
<1> HIDE DEF z, c
<1>6. z \o c \in Seq(Nat) /\ Len(z \o c) = 8 /\ Int64(n) = z \o c /\ c \in Seq(Nat)
  <2>1. c \in Seq(Nat) /\ Len(c) = 4
    BY <1>2 DEF c
  <2>2. z \o c \in Seq(Nat) /\ Len(z \o c) = Len(z) + Len(c)
    BY <1>1, <2>1, ConcatProperties
  <2> QED
    BY <1>1, <1>3, <2>1, <2>2 DEF c
<1>4. Int64(n) \in Seq(Nat) /\ Len(Int64(n)) = 8
  BY <1>6
<1>5. ASSUME NEW m, NEW p \in Int, Holds(m, p, Int64(n))
      PROVE  /\ m[p] = 0 /\ m[p + 1] = 0 /\ m[p + 2] = 0 /\ m[p + 3] = 0
             /\ Holds(m, p + 4, Int32(n))
  <2>1. Holds(m, p, z) /\ Holds(m, p + 4, Int32(n))
    <3>1. Holds(m, p, z \o c)
      BY <1>5, <1>6
    <3>2. Holds(m, p, z) /\ Holds(m, p + Len(z), c)
      BY <1>1, <1>6, <3>1, HoldsParts
    <3> QED
      BY <1>1, <3>2 DEF c
  <2>2. \A j \in 1 .. 4 : m[p + j - 1] = z[j]
    BY <1>1, <2>1 DEF Holds
  <2>3. p + 1 - 1 = p /\ p + 2 - 1 = p + 1 /\ p + 3 - 1 = p + 2 /\ p + 4 - 1 = p + 3
    OBVIOUS
  <2>4. 1 \in 1 .. 4 /\ 2 \in 1 .. 4 /\ 3 \in 1 .. 4 /\ 4 \in 1 .. 4
    OBVIOUS
  <2>5. m[p] = 0 /\ m[p + 1] = 0 /\ m[p + 2] = 0 /\ m[p + 3] = 0
    BY <1>1, <2>2, <2>3, <2>4
  <2> QED
    BY <2>1, <2>5
<1> QED
  BY <1>4, <1>5

\* The kinds of arguments and the bytes of each.
LEMMA DataIs ==
  ASSUME NEW a \in Item
  PROVE  /\ Data(a) \in Seq(Nat) /\ Len(Data(a)) \in Nat /\ Len(Data(a)) % 4 = 0
         /\ a = [tag |-> a.tag, value |-> a.value]
         /\ \/ a.tag \in Flags \cup Marks /\ a.value = <<>> /\ Data(a) = <<>>
            \/ a.tag \in Words /\ \E n \in Numbers : a.value = <<n>> /\ Data(a) = Int32(n)
            \/ a.tag \in Longs /\ \E n \in Numbers : a.value = <<0, n>> /\ Data(a) = Int64(n)
            \/ a.tag \in Texts /\ a.value \in Strings /\ Data(a) = Padded(a.value)
            \/ a.tag = Blob /\ a.value \in Strings /\ Data(a) = BlobData(a.value)
<1>0. Numbers \subseteq Nat /\ Strings \subseteq Seq(1..255)
  BY StreamAssumption
<1>1. a = [tag |-> a.tag, value |-> a.value]
  BY DEF Item
<1>2. CASE a.tag \in Flags \cup Marks
  <2>1. a.value = <<>>
    BY <1>2, Kinds DEF Item
  <2>2. Data(a) = <<>>
    BY <1>2, Kinds DEF Data
  <2>3. <<>> \in Seq(Nat) /\ Len(<<>>) = 0
    BY EmptySeq
  <2> QED
    BY <1>1, <1>2, <2>1, <2>2, <2>3
<1>3. CASE a.tag \in Words
  <2>1. PICK n \in Numbers : a.value = <<n>>
    BY <1>3, Kinds DEF Item
  <2>2. Data(a) = Int32(n)
    BY <1>3, <2>1, Kinds DEF Data
  <2>3. Int32(n) \in Seq(Nat) /\ Len(Int32(n)) = 4
    BY <1>0, <2>1, Int32Is
  <2> QED
    BY <1>1, <1>3, <2>1, <2>2, <2>3
<1>4. CASE a.tag \in Longs
  <2>1. PICK n \in Numbers : a.value = <<0, n>>
    BY <1>4, Kinds DEF Item
  <2>2. Data(a) = Int64(n)
    BY <1>4, <2>1, Kinds DEF Data
  <2>3. Int64(n) \in Seq(Nat) /\ Len(Int64(n)) = 8
    BY <1>0, <2>1, LongIs
  <2> QED
    BY <1>1, <1>4, <2>1, <2>2, <2>3
<1>5. CASE a.tag \in Texts
  <2>1. a.value \in Strings
    BY <1>5, Kinds DEF Item
  <2>2. Data(a) = Padded(a.value)
    BY <1>5, Kinds DEF Data
  <2>3. Padded(a.value) \in Seq(Nat) /\ Len(Padded(a.value)) % 4 = 0 /\ Len(Padded(a.value)) \in Nat
    BY <1>0, <2>1, PaddedIs, LenProperties
  <2> QED
    BY <1>1, <1>5, <2>1, <2>2, <2>3
<1>6. CASE a.tag = Blob
  <2>1. a.value \in Strings
    BY <1>6, Kinds DEF Item
  <2>2. Data(a) = BlobData(a.value)
    BY <1>6, Kinds DEF Data
  <2>3. /\ BlobData(a.value) \in Seq(Nat) /\ Len(BlobData(a.value)) = 4 + RoundUp4(Len(a.value))
        /\ RoundUp4(Len(a.value)) \in Nat /\ RoundUp4(Len(a.value)) % 4 = 0
    BY <1>0, <2>1, BlobIs
  <2>4. Len(BlobData(a.value)) \in Nat /\ Len(BlobData(a.value)) % 4 = 0
    BY <2>3
  <2> QED
    BY <1>1, <1>6, <2>1, <2>2, <2>3, <2>4
<1> QED
  BY <1>2, <1>3, <1>4, <1>5, <1>6 DEF Item

LEMMA Is32Below ==
  ASSUME NEW n \in Nat, NEW c \in Nat, n <= c, Is32(c)
  PROVE  Is32(n)
<1>1. 256^3 = 16777216
  BY SMT
<1> QED
  BY <1>1, SMT DEF Is32

\* An argument is checked, walked over and read as what was written.
LEMMA ItemIsRead ==
  ASSUME NEW a \in Item, NEW m, NEW p \in Nat, NEW e \in Nat,
         Holds(m, p, Data(a)), p + Len(Data(a)) <= e, e <= Capacity
  PROVE  /\ Checked(m, a.tag, p, e) = p + Len(Data(a))
         /\ Advance(m, a.tag, p) = p + Len(Data(a))
         /\ Value(m, a.tag, p) = a.value
<1>0. /\ Numbers \subseteq Nat /\ Strings \subseteq Seq(1..255) /\ Capacity \in Nat
      /\ Is32(Capacity) /\ \A n \in Numbers : Is32(n)
  BY StreamAssumption, WidthAssumption
<1> DEFINE t == a.tag
<1>2. CASE t \in Flags \cup Marks
  <2>1. Checked(m, t, p, e) = p
    BY <1>2, Kinds DEF Checked, Marks
  <2>2. Advance(m, t, p) = p
    BY <1>2, Kinds DEF Advance
  <2>3. Value(m, t, p) = <<>>
    BY <1>2, Kinds DEF Value
  <2>4. a.value = <<>> /\ Len(Data(a)) = 0
    BY <1>2, DataIs, Kinds, EmptySeq
  <2> QED
    BY <2>1, <2>2, <2>3, <2>4
<1>3. CASE t \in Words
  <2>1. PICK n \in Numbers : a.value = <<n>> /\ Data(a) = Int32(n)
    BY <1>3, DataIs, Kinds
  <2>2. Len(Data(a)) = 4 /\ Number(m, p) = n
    <3>1. n \in Nat /\ Is32(n) /\ Holds(m, p, Int32(n)) /\ p \in Int
      BY <1>0, <2>1
    <3>2. Len(Int32(n)) = 4
      BY <3>1, Int32Is
    <3>3. Number(m, p) = n
      BY <3>1, NumberIs
    <3> QED
      BY <2>1, <3>2, <3>3
  <2>3. t \notin Flags \cup {ArrayBegin, ArrayEnd}
    BY <1>3, Kinds DEF Marks
  <2>4. Checked(m, t, p, e) = p + 4
    <3>1. Checked(m, t, p, e) = IF p + 4 > e THEN None ELSE p + 4
      BY <1>3, <2>3, Kinds DEF Checked
    <3> QED
      BY <2>2, <3>1
  <2>5. Advance(m, t, p) = p + 4
    BY <1>3, Kinds DEF Advance
  <2>6. Value(m, t, p) = <<Number(m, p)>>
    BY <1>3, Kinds DEF Value, AsInt32, ToUInt32
  <2> QED
    BY <2>1, <2>2, <2>4, <2>5, <2>6
<1>4. CASE t \in Longs
  <2>1. PICK n \in Numbers : a.value = <<0, n>> /\ Data(a) = Int64(n)
    BY <1>4, DataIs, Kinds
  <2>2. /\ m[p] = 0 /\ m[p + 1] = 0 /\ m[p + 2] = 0 /\ m[p + 3] = 0
        /\ Holds(m, p + 4, Int32(n)) /\ Len(Data(a)) = 8
    BY <1>0, <2>1, LongIs
  <2>3. Number(m, p + 4) = n
    BY <1>0, <2>2, NumberIs
  <2>4. Number(m, p) = 0
    <3>1. 256^3 = 16777216 /\ 256^2 = 65536
      BY SMT
    <3> QED
      BY <2>2, <3>1, SMT DEF Number
  <2>5. t \notin Flags \cup {ArrayBegin, ArrayEnd}
    BY <1>4, Kinds DEF Marks
  <2>6. Checked(m, t, p, e) = p + 8
    <3>1. Checked(m, t, p, e) = IF p + 8 > e THEN None ELSE p + 8
      BY <1>4, <2>5, Kinds DEF Checked
    <3> QED
      BY <2>2, <3>1
  <2>7. Advance(m, t, p) = p + 8
    BY <1>4, Kinds DEF Advance
  <2>8. Value(m, t, p) = <<Number(m, p), Number(m, p + 4)>>
    BY <1>4, Kinds DEF Value, AsInt64, ToUInt32
  <2> QED
    BY <2>1, <2>2, <2>3, <2>4, <2>6, <2>7, <2>8
<1>5. CASE t \in Texts
  <2>1. a.value \in Strings /\ Data(a) = Padded(a.value)
    BY <1>5, DataIs, Kinds
  <2>2. t \notin Flags \cup {ArrayBegin, ArrayEnd}
    BY <1>5, Kinds DEF Marks
  <2>3. Checked(m, t, p, e) = StringEnd(m, p, e)
    BY <1>5, <2>2, Kinds DEF Checked
  <2>4. Advance(m, t, p) = StringEnd(m, p, Capacity)
    BY <1>5, Kinds DEF Advance
  <2>5. Value(m, t, p) = Text(m, p)
    BY <1>5, Kinds DEF Value
  <2>6. Len(Data(a)) \in Nat
    BY DataIs
  <2>7. p + Len(Padded(a.value)) <= Capacity /\ a.value \in Seq(1..255)
    BY <1>0, <2>1, <2>6
  <2>8. StringEnd(m, p, e) = p + Len(Padded(a.value)) /\ StringEnd(m, p, Capacity) = p + Len(Padded(a.value))
    BY <1>0, <2>1, <2>7, StringEndIs
  <2>9. Text(m, p) = a.value
    BY <1>0, <2>1, <2>7, TextIs
  <2> QED
    BY <2>1, <2>3, <2>4, <2>5, <2>8, <2>9
<1>6. CASE t = Blob
  <2> DEFINE s == a.value
             n == Len(s)
  <2>1. s \in Strings /\ Data(a) = BlobData(s)
    BY <1>6, DataIs, Kinds
  <2>2. /\ Len(Data(a)) = 4 + RoundUp4(n) /\ n \in Nat /\ RoundUp4(n) \in Nat /\ n <= RoundUp4(n)
        /\ s \in Seq(Nat) /\ Zeros(s) \in Seq(Nat) /\ s \in Seq(1..255)
    BY <1>0, <2>1, BlobIs
  <2>3. Int32(n) \in Seq(Nat) /\ Len(Int32(n)) = 4
    BY <2>2, Int32Is
  <2>4. BlobData(s) = (Int32(n) \o s) \o Zeros(s)
    BY DEF BlobData
  <2> HIDE DEF n
  <2>5. Holds(m, p, Int32(n)) /\ Holds(m, p + 4, s)
    <3> DEFINE c == Int32(n)
               z == Zeros(s)
    <3>1. c \in Seq(Nat) /\ Len(c) = 4 /\ z \in Seq(Nat) /\ Holds(m, p, (c \o s) \o z)
      BY <2>1, <2>2, <2>3, <2>4
    <3> HIDE DEF c, z, s
    <3>2. c \o s \in Seq(Nat)
      BY <2>2, <3>1, HoldsParts
    <3> DEFINE d == c \o s
    <3>3. Holds(m, p, d)
      <4>1. d \in Seq(Nat) /\ Holds(m, p, d \o z)
        BY <3>1, <3>2
      <4> HIDE DEF d
      <4> QED
        BY <3>1, <4>1, HoldsParts
    <3>4. Holds(m, p, c) /\ Holds(m, p + Len(c), s)
      <4>1. s \in Seq(Nat) /\ Holds(m, p, c \o s) /\ p \in Int
        BY <2>2, <3>3
      <4> HIDE DEF d
      <4> QED
        BY <3>1, <4>1, HoldsParts
    <3> QED
      BY <3>1, <3>4 DEF c
  <2>6. Number(m, p) = n
    <3>1. n <= Capacity
      BY <1>0, <2>2
    <3>2. Is32(n)
      BY <1>0, <2>2, <3>1, Is32Below
    <3> QED
      BY <2>2, <2>5, <3>2, NumberIs
  <2>7. t \notin Flags \cup {ArrayBegin, ArrayEnd}
    BY <1>6, Kinds DEF Marks
  <2>8. Checked(m, t, p, e) = p + 4 + RoundUp4(Number(m, p)) /\ Advance(m, t, p) = p + 4 + RoundUp4(Number(m, p))
    BY <1>6, <2>7, Kinds DEF Checked, Advance, ToUInt32
  <2>9. Value(m, t, p) = Bytes(m, p + 4, p + 4 + Number(m, p))
    BY <1>6, Kinds DEF Value, AsBlob, ToUInt32
  <2>10. Bytes(m, p + 4, p + 4 + n) = s
    <3> DEFINE x == (p + 4 + n) - (p + 4)
               q == p + 4
    <3>1. x = n /\ q \in Nat
      BY <2>2
    <3>2. Bytes(m, p + 4, p + 4 + n) = [i \in 1 .. x |-> m[q + i - 1]]
      BY DEF Bytes
    <3> HIDE DEF x, q
    <3>3. \A i \in 1 .. n : m[q + i - 1] = s[i]
      BY <2>5 DEF Holds, n, q
    <3>4. s = [i \in 1 .. n |-> s[i]]
      BY <2>2, LenProperties DEF n
    <3>5. [i \in 1 .. n |-> m[q + i - 1]] = [i \in 1 .. n |-> s[i]]
      BY <3>3
    <3> QED
      BY <3>1, <3>2, <3>4, <3>5
  <2> QED
    BY <2>1, <2>2, <2>6, <2>8, <2>9, <2>10
<1> QED
  BY <1>2, <1>3, <1>4, <1>5, <1>6, DataIs

-----------------------------------------------------------------------------
(***************************************************************************)
(* A message.                                                              *)
(***************************************************************************)
\* The arguments one behind the other, from offset p to offset e; the first k end at at[k].
Laid(at, m, items, p, e) ==
  /\ at \in [0 .. Len(items) -> Nat] /\ at[0] = p /\ at[Len(items)] = e
  /\ \A k \in 0 .. Len(items) : p <= at[k] /\ at[k] <= e
  /\ \A k \in 1 .. Len(items) :
       at[k] = at[k - 1] + Len(Data(items[k])) /\ Holds(m, at[k - 1], Data(items[k]))

TagsIn(items) == [i \in DOMAIN items |-> items[i].tag]
TagText(items) == <<Comma>> \o TagsIn(items)

LEMMA TagsAre ==
  ASSUME NEW items \in Seq(Item)
  PROVE  /\ Len(items) \in Nat /\ DOMAIN items = 1 .. Len(items)
         /\ TagsIn(items) \in Seq(1..255) /\ Len(TagsIn(items)) = Len(items)
         /\ \A i \in 1 .. Len(items) : TagsIn(items)[i] = items[i].tag
         /\ TagText(items) \in Seq(1..255) /\ Len(TagText(items)) = Len(items) + 1
         /\ TagText(items)[1] = Comma /\ Tail(TagText(items)) = TagsIn(items)
         /\ \A i \in 1 .. Len(items) : TagText(items)[i + 1] = items[i].tag
<1> DEFINE n == Len(items)
           T == TagsIn(items)
           c == <<Comma>>
<1>1. n \in Nat /\ DOMAIN items = 1 .. n /\ \A i \in 1 .. n : items[i] \in Item
  BY LenProperties, ElementOfSeq
<1>2. \A a \in Item : a.tag \in 1..255
  <2> SUFFICES ASSUME NEW a \in Item PROVE a.tag \in 1..255
    OBVIOUS
  <2>1. a.tag \in Flags \cup Marks \cup Words \cup Longs \cup Texts \cup {Blob}
    BY DataIs
  <2> QED
    BY <2>1, SMT DEF Flags, Marks, Words, Longs, Texts, Blob, ArrayBegin, ArrayEnd
<1>3. T = [i \in 1 .. n |-> items[i].tag]
  BY <1>1 DEF TagsIn
<1>4. \A i \in 1 .. n : items[i].tag \in 1..255
  BY <1>1, <1>2
<1> HIDE DEF n
<1>5. T \in Seq(1..255) /\ Len(T) = n
  <2>1. [i \in 1 .. n |-> items[i].tag] \in Seq(1..255)
    <3> DEFINE f == [i \in 1 .. n |-> items[i].tag]
    <3>1. f \in [1 .. n -> 1..255]
      BY <1>4
    <3> HIDE DEF f
    <3>2. f \in Seq(1..255)
      BY <1>1, <3>1, FunSeq
    <3> QED
      BY <3>2 DEF f
  <2>2. Len([i \in 1 .. n |-> items[i].tag]) = n
    BY <1>1
  <2> QED
    BY <1>3, <2>1, <2>2
<1>6. \A i \in 1 .. n : T[i] = items[i].tag
  BY <1>3
<1>7. c \in Seq(1..255) /\ Len(c) = 1 /\ c[1] = Comma
  BY SMT DEF Comma
<1>8. TagText(items) = c \o T
  BY DEF TagText
<1> HIDE DEF T, c
<1>9. /\ c \o T \in Seq(1..255) /\ Len(c \o T) = Len(c) + Len(T)
      /\ \A i \in 1 .. Len(c) + Len(T) : (c \o T)[i] = IF i <= Len(c) THEN c[i] ELSE T[i - Len(c)]
  <2>1. c \in Seq(1..255) /\ T \in Seq(1..255)
    BY <1>5, <1>7
  <2> QED
    BY <2>1, ConcatProperties
<1>10. Len(c \o T) = n + 1 /\ (c \o T)[1] = Comma
  <2>1. 1 \in 1 .. Len(c) + Len(T) /\ 1 <= Len(c)
    BY <1>1, <1>5, <1>7
  <2>2. (c \o T)[1] = c[1]
    BY <1>9, <2>1
  <2>3. Len(c \o T) = n + 1
    BY <1>1, <1>5, <1>7, <1>9
  <2> QED
    BY <1>7, <2>2, <2>3
<1>11. \A i \in 1 .. n : (c \o T)[i + 1] = T[i]
  <2> TAKE i \in 1 .. n
  <2>1. i + 1 \in 1 .. Len(c) + Len(T) /\ ~(i + 1 <= Len(c)) /\ i + 1 - Len(c) = i
    BY <1>1, <1>5, <1>7
  <2> QED
    BY <1>9, <2>1
<1>12. Tail(c \o T) = T
  <2> DEFINE u == c \o T
  <2>1. u \in Seq(1..255) /\ Len(u) = n + 1
    BY <1>9, <1>10
  <2>2. u # <<>>
    BY <1>1, <2>1
  <2> HIDE DEF u
  <2>3. /\ Tail(u) \in Seq(1..255) /\ Len(Tail(u)) = Len(u) - 1
        /\ \A i \in 1 .. Len(Tail(u)) : Tail(u)[i] = u[i + 1]
    BY <2>1, <2>2, HeadTailProperties
  <2>4. Len(Tail(u)) = Len(T)
    BY <1>1, <1>5, <2>1, <2>3
  <2>5. \A i \in 1 .. Len(Tail(u)) : Tail(u)[i] = T[i]
    BY <1>5, <1>11, <2>3, <2>4 DEF u
  <2>6. Tail(u) = T
    BY <1>5, <2>3, <2>4, <2>5, SeqEqual
  <2> QED
    BY <2>6 DEF u
<1> QED
  BY <1>1, <1>5, <1>6, <1>8, <1>9, <1>10, <1>11, <1>12 DEF T, n

\* Both ways over the arguments find where they are, and what they are.
Found(at, m, items, p, e) ==
  /\ \A i \in 0 .. Len(items) : CheckedEnds(m, TagsIn(items), p, e)[i] = at[i]
  /\ \A i \in 0 .. Len(items) : WalkedEnds(m, TagsIn(items), p)[i] = at[i]
  /\ \A i \in 1 .. Len(items) : Value(m, items[i].tag, at[i - 1]) = items[i].value
LEMMA WalksAre ==
  ASSUME NEW m, NEW items \in Seq(Item), NEW p \in Nat, NEW e \in Nat, e <= Capacity,
         NEW at, Laid(at, m, items, p, e)
  PROVE  Found(at, m, items, p, e)
<1> DEFINE n == Len(items)
           T == TagsIn(items)
<1>1. /\ n \in Nat /\ DOMAIN items = 1 .. n /\ \A i \in 1 .. n : T[i] = items[i].tag /\ items[i] \in Item
  BY TagsAre, ElementOfSeq
<1>2. Len(T) = n
  BY TagsAre
<1>3. /\ at \in [0 .. n -> Nat] /\ at[0] = p
      /\ \A k \in 0 .. n : at[k] <= e
      /\ \A k \in 1 .. n : at[k] = at[k - 1] + Len(Data(items[k])) /\ Holds(m, at[k - 1], Data(items[k]))
  BY DEF Laid
<1> HIDE DEF n, T
<1>4. ASSUME NEW i \in 1 .. n
      PROVE  /\ at[i - 1] \in Nat /\ at[i - 1] # None
             /\ Checked(m, T[i], at[i - 1], e) = at[i]
             /\ Advance(m, T[i], at[i - 1]) = at[i]
             /\ Value(m, T[i], at[i - 1]) = items[i].value
  <2>1. i - 1 \in 0 .. n /\ i \in 0 .. n
    BY <1>1
  <2>2. at[i - 1] \in Nat /\ at[i] <= e
    BY <1>3, <2>1
  <2>3. at[i] = at[i - 1] + Len(Data(items[i])) /\ Holds(m, at[i - 1], Data(items[i]))
    BY <1>3
  <2>4. items[i] \in Item /\ T[i] = items[i].tag
    BY <1>1
  <2> DEFINE a == items[i]
             q == at[i - 1]
  <2>5. a \in Item /\ q \in Nat /\ Holds(m, q, Data(a)) /\ q + Len(Data(a)) <= e
    BY <2>2, <2>3, <2>4
  <2> HIDE DEF a, q
  <2>6. /\ Checked(m, a.tag, q, e) = q + Len(Data(a))
        /\ Advance(m, a.tag, q) = q + Len(Data(a))
        /\ Value(m, a.tag, q) = a.value
    BY <2>5, ItemIsRead
  <2> QED
    BY <2>2, <2>3, <2>4, <2>6 DEF a, q, None
<1>5. \A i \in 0 .. n : CheckedEnds(m, T, p, e)[i] = at[i]
  <2> DEFINE Body(f) == [i \in 0 .. n |->
               IF i = 0 THEN p ELSE IF f[i - 1] = None THEN None ELSE Checked(m, T[i], f[i - 1], e)]
             ends == CHOOSE f : f = Body(f)
  <2>1. CheckedEnds(m, T, p, e) = ends
    BY <1>2 DEF CheckedEnds
  <2>2. at = Body(at)
    <3>1. at[0] = p /\ \A i \in 1 .. n : at[i] = IF at[i - 1] = None THEN None ELSE Checked(m, T[i], at[i - 1], e)
      BY <1>3, <1>4
    <3>2. \A i \in 0 .. n : i # 0 => i \in 1 .. n
      BY <1>1
    <3>3. at = [i \in 0 .. n |-> at[i]]
      BY <1>3
    <3>4. \A i \in 0 .. n : at[i] = IF i = 0 THEN p ELSE IF at[i - 1] = None THEN None ELSE Checked(m, T[i], at[i - 1], e)
      BY <3>1, <3>2
    <3> QED
      BY <3>3, <3>4
  <2>3. ends = Body(ends)
    <3> HIDE DEF Body
    <3> QED
      BY <2>2
  <2> HIDE DEF ends
  <2>4. ends[0] = at[0]
    BY <1>1, <1>3, <2>3
  <2>5. ASSUME NEW i \in 1 .. n, ends[i - 1] = at[i - 1] PROVE ends[i] = at[i]
    <3>1. i \in 0 .. n /\ i # 0
      BY <1>1
    <3>2. ends[i] = IF ends[i - 1] = None THEN None ELSE Checked(m, T[i], ends[i - 1], e)
      BY <2>3, <3>1
    <3> QED
      BY <1>4, <2>5, <3>2
  <2> HIDE DEF Body
  <2>6. \A i \in 0 .. n : ends[i] = at[i]
    <3> DEFINE A == {i \in 0 .. n : ends[i] = at[i]}
    <3>1. 0 \in A
      BY <1>1, <2>4
    <3>2. \A i \in 1 .. n : i - 1 \in A => i \in A
      BY <2>5
    <3> HIDE DEF A
    <3>3. 0 .. n \subseteq A
      BY <1>1, <3>1, <3>2, Induction
    <3> QED
      BY <3>3 DEF A
  <2> QED
    BY <2>1, <2>6
<1>6. \A i \in 0 .. n : WalkedEnds(m, T, p)[i] = at[i]
  <2> DEFINE Body(f) == [i \in 0 .. n |-> IF i = 0 THEN p ELSE Advance(m, T[i], f[i - 1])]
             ends == CHOOSE f : f = Body(f)
  <2>1. WalkedEnds(m, T, p) = ends
    BY <1>2 DEF WalkedEnds
  <2>2. at = Body(at)
    <3>1. at[0] = p /\ \A i \in 1 .. n : at[i] = Advance(m, T[i], at[i - 1])
      BY <1>3, <1>4
    <3>2. \A i \in 0 .. n : i # 0 => i \in 1 .. n
      BY <1>1
    <3>3. at = [i \in 0 .. n |-> at[i]]
      BY <1>3
    <3>4. \A i \in 0 .. n : at[i] = IF i = 0 THEN p ELSE Advance(m, T[i], at[i - 1])
      BY <3>1, <3>2
    <3> QED
      BY <3>3, <3>4
  <2>3. ends = Body(ends)
    <3> HIDE DEF Body
    <3> QED
      BY <2>2
  <2> HIDE DEF ends
  <2>4. ends[0] = at[0]
    BY <1>1, <1>3, <2>3
  <2>5. ASSUME NEW i \in 1 .. n, ends[i - 1] = at[i - 1] PROVE ends[i] = at[i]
    <3>1. i \in 0 .. n /\ i # 0
      BY <1>1
    <3>2. ends[i] = Advance(m, T[i], ends[i - 1])
      BY <2>3, <3>1
    <3> QED
      BY <1>4, <2>5, <3>2
  <2> HIDE DEF Body
  <2>6. \A i \in 0 .. n : ends[i] = at[i]
    <3> DEFINE A == {i \in 0 .. n : ends[i] = at[i]}
    <3>1. 0 \in A
      BY <1>1, <2>4
    <3>2. \A i \in 1 .. n : i - 1 \in A => i \in A
      BY <2>5
    <3> HIDE DEF A
    <3>3. 0 .. n \subseteq A
      BY <1>1, <3>1, <3>2, Induction
    <3> QED
      BY <3>3 DEF A
  <2> QED
    BY <2>1, <2>6
<1>7. \A i \in 1 .. n : Value(m, items[i].tag, at[i - 1]) = items[i].value
  <2> TAKE i \in 1 .. n
  <2>1. T[i] = items[i].tag
    BY <1>1
  <2> QED
    BY <1>4, <2>1
<1> QED
  BY <1>5, <1>6, <1>7 DEF n, T, Found

MarksOf(items, g) == Cardinality({i \in DOMAIN items : items[i].tag = g})

\* A message with an address, its tags and its arguments is read as these.
LEMMA MessageIsRead ==
  ASSUME NEW m, NEW p \in Nat, NEW a \in Seq(1..255), NEW items \in Seq(Item),
         NEW c \in Nat, NEW q \in Nat, NEW e \in Nat, e <= Capacity, (e - p) % 4 = 0,
         Holds(m, p, Padded(a)), c = p + Len(Padded(a)),
         Holds(m, c, Padded(TagText(items))), q = c + Len(Padded(TagText(items))), q <= e,
         \E at : Laid(at, m, items, q, e),
         MarksOf(items, ArrayBegin) = MarksOf(items, ArrayEnd)
  PROVE  MessageInit(m, p, e) /\ Text(m, p) = a /\ Arguments(m, p, e) = items
<1> DEFINE n == Len(items)
           T == TagsIn(items)
           s == TagText(items)
<1>0. Capacity \in Nat
  BY StreamAssumption
<1>1. /\ n \in Nat /\ DOMAIN items = 1 .. n /\ T \in Seq(1..255) /\ Len(T) = n
      /\ \A i \in 1 .. n : T[i] = items[i].tag
      /\ s \in Seq(1..255) /\ Len(s) = n + 1 /\ s[1] = Comma /\ Tail(s) = T
      /\ \A i \in 1 .. n : s[i + 1] = items[i].tag
  BY TagsAre
<1>2. /\ Len(Padded(a)) \in Nat /\ Len(Padded(a)) > 0 /\ Len(Padded(s)) \in Nat /\ n + 1 < Len(Padded(s))
      /\ \A j \in 1 .. n + 1 : Padded(s)[j] = s[j]
      /\ \A j \in n + 2 .. Len(Padded(s)) : Padded(s)[j] = Nul
  <2>1. /\ Len(Padded(a)) \in Nat /\ Len(a) < Len(Padded(a)) /\ Len(a) \in Nat
    BY PaddedIs, LenProperties
  <2>2. /\ Len(Padded(s)) \in Nat /\ Len(s) < Len(Padded(s)) /\ \A j \in 1 .. Len(s) : Padded(s)[j] = s[j]
        /\ \A j \in Len(s) + 1 .. Len(Padded(s)) : Padded(s)[j] = Nul
    BY <1>1, PaddedIs, LenProperties
  <2>3. Len(s) + 1 = n + 2 /\ Len(s) = n + 1
    BY <1>1
  <2> HIDE DEF s, n
  <2> QED
    BY <2>1, <2>2, <2>3
<1> HIDE DEF n, T, s
<1>3. Holds(m, c, Padded(s)) /\ q = c + Len(Padded(s))
  BY DEF s
<1>4. StringEnd(m, p, e) = c /\ Text(m, p) = a /\ p < c /\ c < e
  <2>1. p + Len(Padded(a)) <= e /\ p + Len(Padded(a)) <= Capacity /\ p < c /\ c < e
    BY <1>0, <1>1, <1>2, <1>3
  <2> QED
    BY <1>0, <2>1, StringEndIs, TextIs
<1>5. StringEnd(m, c, e) = q /\ Text(m, c) = s
  <2>1. c + Len(Padded(s)) <= e /\ c + Len(Padded(s)) <= Capacity
    BY <1>0, <1>2, <1>3
  <2> QED
    BY <1>0, <1>1, <1>3, <2>1, StringEndIs, TextIs
<1>6. m[c] = Comma /\ m[c + 1] = IF n = 0 THEN Nul ELSE items[1].tag
  <2>1. 1 \in 1 .. Len(Padded(s)) /\ 2 \in 1 .. Len(Padded(s)) /\ c + 1 - 1 = c /\ c + 2 - 1 = c + 1 /\ 1 \in 1 .. n + 1
    BY <1>1, <1>2
  <2>2. m[c] = Padded(s)[1] /\ m[c + 1] = Padded(s)[2]
    BY <1>3, <2>1 DEF Holds
  <2>3. Padded(s)[1] = Comma
    BY <1>1, <1>2, <2>1
  <2>4. CASE n = 0
    <3>1. 2 \in n + 2 .. Len(Padded(s))
      BY <1>2, <2>4
    <3> QED
      BY <1>2, <2>2, <2>3, <2>4, <3>1
  <2>5. CASE n # 0
    <3>1. 2 \in 1 .. n + 1 /\ 1 \in 1 .. n /\ 1 + 1 = 2
      BY <1>1, <2>5
    <3>2. Padded(s)[2] = items[1].tag
      BY <1>1, <1>2, <3>1
    <3> QED
      BY <2>2, <2>3, <2>5, <3>2
  <2> QED
    BY <2>4, <2>5
<1>7. n # 0 => m[c + 1] # Nul
  <2> SUFFICES ASSUME n # 0 PROVE m[c + 1] # Nul
    OBVIOUS
  <2>1. 1 \in 1 .. n
    BY <1>1
  <2>2. T[1] \in 1..255
    BY <1>1, <2>1, ElementOfSeq
  <2>3. m[c + 1] \in 1..255
    BY <1>1, <1>6, <2>1, <2>2
  <2>4. 0 \notin 1..255
    OBVIOUS
  <2> QED
    BY <2>3, <2>4 DEF Nul
<1>8. ArgumentsStart(m, p, e) = q /\ TagsOf(m, p, e) = T
  BY <1>1, <1>4, <1>5 DEF ArgumentsStart, TagsOf
<1>9. PICK at : Laid(at, m, items, q, e)
  OBVIOUS
<1>10. /\ \A i \in 0 .. n : CheckedEnds(m, T, q, e)[i] = at[i]
       /\ \A i \in 0 .. n : WalkedEnds(m, T, q)[i] = at[i]
       /\ \A i \in 1 .. n : Value(m, items[i].tag, at[i - 1]) = items[i].value
  <2>1. items \in Seq(Item) /\ q \in Nat /\ e \in Nat /\ e <= Capacity /\ Laid(at, m, items, q, e)
    BY <1>9
  <2>2. /\ \A i \in 0 .. Len(items) : CheckedEnds(m, TagsIn(items), q, e)[i] = at[i]
        /\ \A i \in 0 .. Len(items) : WalkedEnds(m, TagsIn(items), q)[i] = at[i]
        /\ \A i \in 1 .. Len(items) : Value(m, items[i].tag, at[i - 1]) = items[i].value
    <3>1. Found(at, m, items, q, e)
      BY <2>1, WalksAre
    <3> QED
      BY <3>1 DEF Found
  <2> QED
    BY <2>2 DEF n, T
<1>11. MessageInit(m, p, e)
  <2>1. e > p /\ c # None /\ q # None
    BY <1>4 DEF None
  <2>2. CheckedEnds(m, T, q, e)[Len(T)] # None
    <3>1. n \in 0 .. n /\ at[n] = e
      BY <1>1, <1>9 DEF Laid, n
    <3> QED
      BY <1>1, <1>10, <3>1 DEF None
  <2>3. \A g : {i \in DOMAIN T : T[i] = g} = {i \in DOMAIN items : items[i].tag = g}
    <3>1. DOMAIN T = DOMAIN items
      BY <1>1 DEF T, TagsIn
    <3> QED
      BY <1>1, <3>1
  <2>4. Cardinality({i \in DOMAIN T : T[i] = ArrayBegin}) = Cardinality({i \in DOMAIN T : T[i] = ArrayEnd})
    BY <2>3 DEF MarksOf
  <2> QED
    BY <1>4, <1>6, <1>8, <2>1, <2>2, <2>4 DEF MessageInit
<1>12. Arguments(m, p, e) = items
  <2>1. CASE n = 0
    <3>1. Arguments(m, p, e) = <<>>
      BY <1>4, <1>6, <2>1 DEF Arguments
    <3>2. items = <<>>
      BY <2>1, EmptySeq DEF n
    <3> QED
      BY <3>1, <3>2
  <2>2. CASE n # 0
    <3> DEFINE ends == WalkedEnds(m, T, q)
    <3>1. Arguments(m, p, e) = [i \in DOMAIN T |-> [tag |-> T[i], value |-> Value(m, T[i], ends[i - 1])]]
      <4>1. ~(StringEnd(m, p, e) = e \/ m[StringEnd(m, p, e) + 1] = Nul)
        <5>1. c # e
          BY <1>4
        <5> QED
          BY <1>4, <1>7, <2>2, <5>1
      <4>2. /\ TagsOf(m, p, e) = T /\ ArgumentsStart(m, p, e) = q
        BY <1>8
      <4> QED
        BY <4>1, <4>2, Zenon DEF Arguments
    <3>2. DOMAIN T = 1 .. n
      BY <1>1 DEF T, TagsIn
    <3>3. \A i \in 1 .. n : [tag |-> T[i], value |-> Value(m, T[i], ends[i - 1])] = items[i]
      <4> TAKE i \in 1 .. n
      <4>1. i - 1 \in 0 .. n
        BY <1>1
      <4>2. items[i] \in Item
        BY ElementOfSeq DEF n
      <4>3. items[i] = [tag |-> items[i].tag, value |-> items[i].value]
        BY <4>2, DataIs
      <4> QED
        BY <1>1, <1>10, <4>1, <4>3
    <3>4. items = [i \in 1 .. n |-> items[i]]
      BY LenProperties DEF n
    <3> HIDE DEF ends
    <3> QED
      BY <3>1, <3>2, <3>3, <3>4
  <2> QED
    BY <2>1, <2>2
<1> QED
  BY <1>4, <1>11, <1>12

\* How long what a stream writes is.
LEMMA HeadersAre ==
  /\ BundleTag \o Int64(1) \in Seq(Nat) /\ Len(BundleTag \o Int64(1)) = 16
  /\ \A a \in Addresses : Padded(a) \in Seq(Nat) /\ Len(Padded(a)) \in Nat /\ Len(Padded(a)) > 0
<1>1. BundleTag \in Seq(Nat) /\ Len(BundleTag) = 8
  BY DEF BundleTag, Nul
<1>2. Int64(1) \in Seq(Nat) /\ Len(Int64(1)) = 8
  BY LongIs
<1>3. BundleTag \o Int64(1) \in Seq(Nat) /\ Len(BundleTag \o Int64(1)) = 16
  <2> DEFINE b == BundleTag
             t == Int64(1)
  <2>1. b \in Seq(Nat) /\ t \in Seq(Nat) /\ Len(b) = 8 /\ Len(t) = 8
    BY <1>1, <1>2
  <2> HIDE DEF b, t
  <2>2. b \o t \in Seq(Nat) /\ Len(b \o t) = Len(b) + Len(t)
    BY <2>1, Joined
  <2>3. Len(b \o t) = 16
    BY <2>1, <2>2
  <2> QED
    BY <2>2, <2>3 DEF b, t
<1>4. ASSUME NEW a \in Addresses PROVE Padded(a) \in Seq(Nat) /\ Len(Padded(a)) \in Nat /\ Len(Padded(a)) > 0
  <2>1. a \in Seq(1..255)
    BY StreamAssumption
  <2>2. Padded(a) \in Seq(Nat) /\ Len(a) \in Nat /\ Len(a) < Len(Padded(a))
    BY <2>1, PaddedIs
  <2>3. Len(Padded(a)) \in Nat
    BY <2>2, LenProperties
  <2> QED
    BY <2>2, <2>3
<1> QED
  BY <1>3, <1>4

\* An argument is added.
LEMMA Additions ==
  AddFlag \/ AddWord \/ AddLong \/ AddText \/ AddBlob \/ AddArrayMark
    => \E a \in Item : Add(a.tag, a.value, Data(a))
<1>0. Numbers \subseteq Nat /\ Strings \subseteq Seq(1..255)
  BY StreamAssumption
<1>1. ASSUME NEW t \in Flags \cup Marks, Add(t, <<>>, <<>>)
      PROVE  \E a \in Item : Add(a.tag, a.value, Data(a))
  <2> DEFINE a == [tag |-> t, value |-> <<>>]
  <2>1. a \in Item /\ a.tag = t /\ a.value = <<>>
    BY DEF Item
  <2> HIDE DEF a
  <2>2. Data(a) = <<>>
    BY <2>1, Kinds DEF Data
  <2> QED
    BY <1>1, <2>1, <2>2
<1>2. CASE AddFlag
  BY <1>1, <1>2 DEF AddFlag
<1>3. CASE AddArrayMark
  BY <1>1, <1>3 DEF AddArrayMark, Marks
<1>4. CASE AddWord
  <2>1. PICK t \in Tags \cap Words, n \in Numbers : Add(t, <<n>>, Int32(n))
    BY <1>4 DEF AddWord
  <2> DEFINE a == [tag |-> t, value |-> <<n>>]
  <2>2. a \in Item /\ a.tag = t /\ a.value = <<n>> /\ a.value[1] = n
    BY <2>1 DEF Item
  <2> HIDE DEF a
  <2>3. Data(a) = Int32(n)
    BY <2>1, <2>2, Kinds DEF Data
  <2> QED
    BY <2>1, <2>2, <2>3
<1>5. CASE AddLong
  <2>1. PICK t \in Tags \cap Longs, n \in Numbers : Add(t, <<0, n>>, Int64(n))
    BY <1>5 DEF AddLong
  <2> DEFINE a == [tag |-> t, value |-> <<0, n>>]
  <2>2. a \in Item /\ a.tag = t /\ a.value = <<0, n>> /\ a.value[2] = n
    BY <2>1 DEF Item
  <2> HIDE DEF a
  <2>3. Data(a) = Int64(n)
    BY <2>1, <2>2, Kinds DEF Data
  <2> QED
    BY <2>1, <2>2, <2>3
<1>6. CASE AddText
  <2>1. PICK t \in Tags \cap Texts, s \in Strings : Add(t, s, Padded(s))
    BY <1>6 DEF AddText
  <2> DEFINE a == [tag |-> t, value |-> s]
  <2>2. a \in Item /\ a.tag = t /\ a.value = s
    BY <2>1 DEF Item
  <2> HIDE DEF a
  <2>3. Data(a) = Padded(s)
    BY <2>1, <2>2, Kinds DEF Data
  <2> QED
    BY <2>1, <2>2, <2>3
<1>7. CASE AddBlob
  <2>1. PICK s \in Strings : Add(Blob, s, BlobData(s))
    BY <1>7 DEF AddBlob, BlobData, Zeros
  <2> DEFINE a == [tag |-> Blob, value |-> s]
  <2>2. a \in Item /\ a.tag = Blob /\ a.value = s
    BY <2>1 DEF Item
  <2> HIDE DEF a
  <2>3. Data(a) = BlobData(s)
    BY <2>1, <2>2, Kinds DEF Data
  <2> QED
    BY <2>1, <2>2, <2>3
<1> QED
  BY <1>2, <1>3, <1>4, <1>5, <1>6, <1>7

-----------------------------------------------------------------------------
(***************************************************************************)
(* The stream in its buffer.                                               *)
(***************************************************************************)
\* Between two messages there are no tags, and the next element begins behind what is
\* written; in a message the address is written and the arguments follow it.
StreamInv ==
  /\ cursor \in Nat /\ args \in Nat /\ tagsAt \in Nat /\ inMessage \in BOOLEAN
  /\ cursor <= args /\ tagsAt <= Capacity
  /\ ~inMessage => tagsAt = Capacity /\ cursor = args
  /\ DOMAIN mem = 0 .. Capacity - 1
  /\ InBuffer

LEMMA PutKeeps ==
  ASSUME NEW m, NEW at, NEW data
  PROVE  DOMAIN Put(m, at, data) = DOMAIN m
  BY DEF Put

\* A new element of a packet, none of whose messages is open.
LEMMA BeginKeeps ==
  ASSUME StreamInv, ~inMessage, NEW address, NEW header, Len(header) \in Nat,
         BeginElement(address, header), tagsAt' = Capacity, inMessage' \in BOOLEAN,
         Size + SlotSize + Len(header) + (IF inMessage' THEN 4 ELSE 0) <= Capacity
  PROVE  StreamInv'
<1>1. /\ cursor \in Nat /\ args = cursor /\ tagsAt = Capacity /\ Capacity \in Nat
      /\ Size = args /\ DOMAIN mem = 0 .. Capacity - 1
  BY StreamAssumption DEF StreamInv, Size
<1>2. SlotSize \in {0, 4}
  BY DEF SlotSize
<1>3. /\ cursor' = cursor + SlotSize + Len(header) /\ args' = cursor + SlotSize + Len(header)
      /\ DOMAIN mem' = DOMAIN mem
  BY PutKeeps DEF BeginElement
<1>4. Size' = args' + (IF inMessage' THEN RoundUp4(Capacity - Capacity + 2) ELSE 0)
  BY DEF Size, TagCount
<1>5. RoundUp4(Capacity - Capacity + 2) = 4
  BY <1>1 DEF RoundUp4
<1>6. args' \in Nat /\ cursor' = args' /\ Size' <= Capacity /\ args' <= Capacity
  BY <1>1, <1>2, <1>3, <1>4, <1>5
<1> QED
  BY <1>1, <1>3, <1>6 DEF StreamInv, InBuffer

\* An argument: the tag that Fits has counted is there, and a byte between at least.
LEMMA AddKeeps ==
  ASSUME StreamInv, NEW tag, NEW value, NEW data, Len(data) \in Nat, Add(tag, value, data)
  PROVE  StreamInv'
<1> DEFINE n == Len(data)
           c == TagCount
<1>1. /\ cursor \in Nat /\ args \in Nat /\ tagsAt \in Nat /\ cursor <= args
      /\ tagsAt <= Capacity /\ Capacity \in Nat /\ DOMAIN mem = 0 .. Capacity - 1
  BY StreamAssumption DEF StreamInv
<1>2. /\ inMessage /\ inMessage' = inMessage /\ cursor' = cursor
      /\ args' = args + n /\ tagsAt' = tagsAt - 1
      /\ args + n + RoundUp4(c + 3) <= Capacity
  BY DEF Add, Fits
<1>3. DOMAIN mem' = DOMAIN mem
  BY PutKeeps DEF Add
<1>4. c \in Nat /\ c = Capacity - tagsAt /\ n \in Nat /\ c + 3 \in Nat
  BY <1>1 DEF TagCount
<1>5. Size' = args' + RoundUp4(Capacity - (tagsAt - 1) + 2)
  BY <1>2 DEF Size, TagCount
<1>6. Capacity - (tagsAt - 1) + 2 = c + 3
  BY <1>1, <1>4
<1> HIDE DEF n, c
<1>7. RoundUp4(c + 3) \in Nat /\ c + 3 <= RoundUp4(c + 3)
  BY <1>4, RoundUp4Is
<1>8. Size' <= Capacity /\ args' <= tagsAt' /\ args' \in Nat /\ tagsAt' \in Nat
  BY <1>1, <1>2, <1>4, <1>5, <1>6, <1>7
<1> QED
  BY <1>1, <1>2, <1>3, <1>8 DEF StreamInv, InBuffer

LEMMA EndKeeps ==
  ASSUME StreamInv, NEW m, NEW end \in Nat, DOMAIN m = DOMAIN mem, EndElement(m, end),
         end <= Capacity, args' = end, tagsAt' = Capacity, ~inMessage', inMessage' \in BOOLEAN
  PROVE  StreamInv'
<1>1. cursor' = end /\ DOMAIN mem' = DOMAIN mem /\ Capacity \in Nat
  BY StreamAssumption, PutKeeps DEF EndElement
<1>2. Size' = args'
  <2>1. Size' = args' + 0
    BY DEF Size
  <2> QED
    BY <2>1
<1> QED
  BY <1>1, <1>2 DEF StreamInv, InBuffer

LEMMA StreamStep == StreamInv /\ [StreamNext]_streamVars => StreamInv'
<1> SUFFICES ASSUME StreamInv, [StreamNext]_streamVars PROVE StreamInv'
  OBVIOUS
<1>0. /\ Capacity \in Nat /\ Numbers \subseteq Nat
      /\ Addresses \subseteq Seq(1..255) /\ Strings \subseteq Seq(1..255)
  BY StreamAssumption
<1>1. CASE BeginBundle
  <2>1. Len(BundleTag \o Int64(1)) = 16
    BY HeadersAre
  <2> DEFINE header == BundleTag \o Int64(1)
  <2>2. /\ ~inMessage /\ inMessage' = inMessage /\ tagsAt' = tagsAt
        /\ Size + SlotSize + 16 <= Capacity /\ BeginElement(BundleTag, header)
    BY <1>1 DEF BeginBundle
  <2>3. /\ tagsAt' = Capacity /\ ~inMessage' /\ inMessage' \in BOOLEAN
        /\ args \in Nat /\ Size = args /\ SlotSize \in {0, 4}
    BY <2>2 DEF StreamInv, Size, SlotSize
  <2>4. Len(header) = 16
    BY <2>1
  <2> HIDE DEF header
  <2>5. Size + SlotSize + Len(header) + (IF inMessage' THEN 4 ELSE 0) <= Capacity
    BY <1>0, <2>2, <2>3, <2>4
  <2>6. Len(header) \in Nat
    BY <2>4
  <2> QED
    BY <2>2, <2>3, <2>5, <2>6, BeginKeeps
<1>2. CASE EndBundle
  <2>1. /\ EndElement(mem, cursor) /\ args' = args /\ tagsAt' = tagsAt
        /\ ~inMessage /\ inMessage' = inMessage
    BY <1>2 DEF EndBundle
  <2>2. /\ cursor \in Nat /\ cursor <= Capacity /\ args = cursor /\ tagsAt = Capacity
        /\ inMessage \in BOOLEAN
    BY <2>1 DEF StreamInv, InBuffer
  <2> QED
    BY <2>1, <2>2, EndKeeps
<1>3. CASE BeginMessage
  <2>1. PICK a \in Addresses : /\ Size + SlotSize + RoundUp4(Len(a) + 1) + 4 <= Capacity
                               /\ BeginElement(a, Padded(a))
    BY <1>3 DEF BeginMessage
  <2>2. ~inMessage /\ tagsAt' = Capacity /\ inMessage' = TRUE
    BY <1>3 DEF BeginMessage
  <2>3. a \in Seq(1..255) /\ Len(Padded(a)) = RoundUp4(Len(a) + 1)
    BY <1>0, PaddedIs
  <2>4. Len(Padded(a)) \in Nat
    BY HeadersAre
  <2>5. Size + SlotSize + Len(Padded(a)) + (IF inMessage' THEN 4 ELSE 0) <= Capacity
    BY <2>1, <2>2, <2>3
  <2> QED
    BY <2>1, <2>2, <2>4, <2>5, BeginKeeps
<1>4. CASE EndMessage
  <2> DEFINE end == args + RoundUp4(TagCount + 2)
  <2>1. /\ inMessage /\ EndElement(Tagged, end) /\ args' = end
        /\ tagsAt' = Capacity /\ inMessage' = FALSE
    BY <1>4 DEF EndMessage
  <2>2. end = Size /\ end <= Capacity
    BY <2>1 DEF StreamInv, InBuffer, Size
  <2>3. args \in Nat /\ TagCount + 2 \in Nat
    BY <1>0 DEF StreamInv, TagCount
  <2>4. end \in Nat
    BY <2>3, RoundUp4Is
  <2>5. DOMAIN Tagged = DOMAIN mem
    BY PutKeeps DEF Tagged, Moved
  <2> HIDE DEF end
  <2> QED
    BY <2>1, <2>2, <2>4, <2>5, EndKeeps
<1>5. CASE Clear
  <2>1. /\ cursor' = 0 /\ args' = 0 /\ tagsAt' = Capacity /\ ~inMessage' /\ inMessage' \in BOOLEAN
        /\ mem' = mem
    BY <1>5 DEF Clear
  <2>2. Size' = 0
    BY <2>1 DEF Size
  <2> QED
    BY <1>0, <2>1, <2>2 DEF StreamInv, InBuffer
<1>6. CASE AddFlag \/ AddWord \/ AddLong \/ AddText \/ AddBlob \/ AddArrayMark
  <2>1. PICK a \in Item : Add(a.tag, a.value, Data(a))
    BY <1>6, Additions
  <2>2. Len(Data(a)) \in Nat
    BY DataIs
  <2> DEFINE data == Data(a)
  <2>3. Len(data) \in Nat /\ Add(a.tag, a.value, data)
    BY <2>1, <2>2
  <2> HIDE DEF data
  <2> QED
    BY <2>3, AddKeeps
<1>7. CASE UNCHANGED streamVars
  BY <1>7 DEF streamVars, StreamInv, InBuffer, Size, TagCount
<1> QED
  BY <1>1, <1>2, <1>3, <1>4, <1>5, <1>6, <1>7 DEF StreamNext

LEMMA StreamInitially == StreamInit => StreamInv
<1> SUFFICES ASSUME StreamInit PROVE StreamInv
  OBVIOUS
<1>1. Capacity \in Nat
  BY StreamAssumption
<1>2. /\ cursor = 0 /\ args = 0 /\ tagsAt = Capacity /\ ~inMessage /\ inMessage \in BOOLEAN
      /\ DOMAIN mem = 0 .. Capacity - 1
  BY DEF StreamInit
<1>3. Size = 0
  BY <1>2 DEF Size
<1> QED
  BY <1>1, <1>2, <1>3 DEF StreamInv, InBuffer

\* Where the stream is in its buffer.
THEOREM StreamInvAlways == StreamSpec => []StreamInv
<1>1. StreamInit => StreamInv
  BY StreamInitially
<1> QED
  BY <1>1, StreamStep, PTL DEF StreamSpec

\* The checks made when an element begins and when an argument is added are enough: a
\* packet never outgrows its buffer, although the end of a message checks nothing, and the
\* arguments of a message never reach its tags.
THEOREM InBufferAlways == StreamSpec => []InBuffer
<1>1. StreamInv => InBuffer
  BY DEF StreamInv
<1> QED
  BY <1>1, StreamInvAlways, PTL

-----------------------------------------------------------------------------
(***************************************************************************)
(* The slots of the open elements.                                         *)
(***************************************************************************)
\* Slots s below offset c: the outermost element has none of its own, each other slot is
\* inside the element around it and holds the way back.
Chain(m, s, c) ==
  /\ s \in Seq(Nat) /\ (s # <<>> => s[1] = 0 /\ c > 0)
  /\ \A k \in 2 .. Len(s) : 0 < s[k] /\ s[k] + 4 <= c /\ Number(m, s[k]) = s[k - 1]
  /\ \A k \in 2 .. Len(s), j \in 2 .. Len(s) : j < k => s[j] + 4 <= s[k]

SameBelow(m, k, c) == \A i \in 0 .. c - 1 : k[i] = m[i]

LEMMA FrontIs ==
  ASSUME NEW S, NEW s \in Seq(S), s # <<>>
  PROVE  /\ Len(s) \in Nat \ {0} /\ SubSeq(s, 1, Len(s) - 1) \in Seq(S)
         /\ Len(SubSeq(s, 1, Len(s) - 1)) = Len(s) - 1
         /\ \A i \in 1 .. Len(s) - 1 : SubSeq(s, 1, Len(s) - 1)[i] = s[i]
<1> DEFINE n == Len(s)
           t == SubSeq(s, 1, n - 1)
<1>1. n \in Nat \ {0}
  BY LenProperties, EmptySeq
<1>2. n - 1 \in Int /\ 1 \in Int /\ \A i \in 1 .. n - 1 : s[i] \in S
  BY <1>1, ElementOfSeq
<1> DEFINE l == n - 1
<1>3. /\ SubSeq(s, 1, l) \in Seq(S)
      /\ Len(SubSeq(s, 1, l)) = IF 1 <= l THEN (l - 1) + 1 ELSE 0
      /\ \A i \in 1 .. (l - 1) + 1 : SubSeq(s, 1, l)[i] = s[(1 + i) - 1]
  <2> HIDE DEF l
  <2>1. l \in Int /\ \A i \in 1 .. l : s[i] \in S
    BY <1>2 DEF l
  <2> QED
    BY <2>1, SubSeqProperties
<1>4. l \in Nat /\ (l - 1) + 1 = l /\ (IF 1 <= l THEN (l - 1) + 1 ELSE 0) = l
  <2>1. l \in Nat
    BY <1>1
  <2> HIDE DEF l
  <2>2. (l - 1) + 1 = l
    BY <2>1
  <2>3. 1 <= l \/ l = 0
    BY <2>1
  <2> QED
    BY <2>1, <2>2, <2>3
<1>5. t \in Seq(S) /\ Len(t) = l
  BY <1>3, <1>4
<1>6. \A i \in 1 .. l : t[i] = s[i]
  <2> TAKE i \in 1 .. l
  <2>1. i \in 1 .. (l - 1) + 1 /\ (1 + i) - 1 = i
    BY <1>4
  <2> QED
    BY <1>3, <2>1
<1> QED
  BY <1>1, <1>5, <1>6

LEMMA NumberSame ==
  ASSUME NEW m, NEW k, NEW c \in Nat, SameBelow(m, k, c), NEW p \in Nat, p + 4 <= c
  PROVE  Number(k, p) = Number(m, p)
<1>1. p \in 0 .. c - 1 /\ p + 1 \in 0 .. c - 1 /\ p + 2 \in 0 .. c - 1 /\ p + 3 \in 0 .. c - 1
  OBVIOUS
<1>2. k[p] = m[p] /\ k[p + 1] = m[p + 1] /\ k[p + 2] = m[p + 2] /\ k[p + 3] = m[p + 3]
  BY <1>1 DEF SameBelow
<1> QED
  BY <1>2, Zenon DEF Number

LEMMA ChainStill ==
  ASSUME NEW m, NEW k, NEW s, NEW c \in Nat, NEW d \in Nat, c <= d, Chain(m, s, c), SameBelow(m, k, c)
  PROVE  Chain(k, s, d)
<1>1. /\ s \in Seq(Nat) /\ Len(s) \in Nat /\ (s # <<>> => s[1] = 0 /\ c > 0)
      /\ \A j \in 1 .. Len(s) : s[j] \in Nat
  BY LenProperties, ElementOfSeq DEF Chain
<1>2. ASSUME NEW j \in 2 .. Len(s) PROVE 0 < s[j] /\ s[j] + 4 <= d /\ Number(k, s[j]) = s[j - 1]
  <2>1. s[j] \in Nat /\ 0 < s[j] /\ s[j] + 4 <= c /\ Number(m, s[j]) = s[j - 1]
    <3>1. j \in 1 .. Len(s)
      BY <1>1
    <3> QED
      BY <1>1, <3>1 DEF Chain
  <2>2. Number(k, s[j]) = Number(m, s[j])
    BY <2>1, NumberSame
  <2>3. s[j] + 4 <= d
    BY <2>1
  <2> QED
    BY <2>1, <2>2, <2>3
<1> QED
  BY <1>1, <1>2 DEF Chain

LEMMA ChainGrows ==
  ASSUME NEW m, NEW k, NEW s, NEW c \in Nat, NEW d \in Nat, c + 4 <= d, Chain(m, s, c), s # <<>>,
         SameBelow(m, k, c), Number(k, c) = s[Len(s)]
  PROVE  Chain(k, Append(s, c), d)
<1> DEFINE n == Len(s)
           t == Append(s, c)
<1>1. /\ s \in Seq(Nat) /\ n \in Nat /\ n > 0 /\ s[1] = 0 /\ c > 0
      /\ \A j \in 1 .. n : s[j] \in Nat
  <2>1. s \in Seq(Nat) /\ s[1] = 0 /\ c > 0
    BY DEF Chain
  <2>2. n \in Nat /\ \A j \in 1 .. n : s[j] \in Nat
    BY <2>1, LenProperties, ElementOfSeq
  <2>3. n # 0
    BY <2>1, EmptySeq
  <2> QED
    BY <2>1, <2>2, <2>3
<1>2. /\ t \in Seq(Nat) /\ Len(t) = n + 1 /\ t[n + 1] = c
      /\ \A j \in 1 .. n : t[j] = s[j]
  BY <1>1, AppendProperties
<1>3. \A j \in 2 .. n : 0 < s[j] /\ s[j] + 4 <= c /\ Number(m, s[j]) = s[j - 1]
  BY DEF Chain
<1>4. Number(k, c) = s[n]
  OBVIOUS
<1>5. \A i \in 2 .. n, j \in 2 .. n : j < i => s[j] + 4 <= s[i]
  BY DEF Chain
<1> HIDE DEF n, t
<1>6. t # <<>> /\ t[1] = 0 /\ d > 0
  <2>1. 1 \in 1 .. n
    BY <1>1
  <2> QED
    BY <1>1, <1>2, <2>1, EmptySeq
<1>7. ASSUME NEW j \in 2 .. n + 1 PROVE 0 < t[j] /\ t[j] + 4 <= d /\ Number(k, t[j]) = t[j - 1]
  <2>1. CASE j = n + 1
    <3>1. t[j] = c /\ j - 1 = n /\ n \in 1 .. n
      BY <1>1, <1>2, <2>1
    <3>2. t[j - 1] = s[n]
      BY <1>2, <3>1
    <3> QED
      BY <1>1, <1>4, <3>1, <3>2
  <2>2. CASE j # n + 1
    <3>1. j \in 2 .. n /\ j \in 1 .. n /\ j - 1 \in 1 .. n
      BY <1>1, <2>2
    <3>2. t[j] = s[j] /\ t[j - 1] = s[j - 1] /\ s[j] \in Nat
      BY <1>1, <1>2, <3>1
    <3>3. 0 < s[j] /\ s[j] + 4 <= c /\ Number(m, s[j]) = s[j - 1]
      BY <1>3, <3>1
    <3>4. Number(k, s[j]) = Number(m, s[j])
      BY <3>2, <3>3, NumberSame
    <3>5. s[j] + 4 <= d
      BY <3>2, <3>3
    <3> QED
      BY <3>2, <3>3, <3>4, <3>5
  <2> QED
    BY <2>1, <2>2
<1>8. ASSUME NEW i \in 2 .. n + 1, NEW j \in 2 .. n + 1, j < i PROVE t[j] + 4 <= t[i]
  <2>1. j \in 2 .. n /\ j \in 1 .. n
    BY <1>1, <1>8
  <2>2. CASE i = n + 1
    BY <1>2, <1>3, <2>1, <2>2
  <2>3. CASE i # n + 1
    <3>1. i \in 2 .. n /\ i \in 1 .. n
      BY <1>1, <2>3
    <3> QED
      BY <1>2, <1>5, <1>8, <2>1, <3>1
  <2> QED
    BY <2>2, <2>3
<1> QED
  BY <1>2, <1>6, <1>7, <1>8 DEF Chain, t

LEMMA ChainEnds ==
  ASSUME NEW m, NEW k, NEW s, NEW c \in Nat, NEW d \in Nat, c <= d, Chain(m, s, c), s # <<>>,
         SameBelow(m, k, s[Len(s)])
  PROVE  Chain(k, SubSeq(s, 1, Len(s) - 1), d)
<1> DEFINE n == Len(s)
           t == SubSeq(s, 1, n - 1)
<1>1. /\ s \in Seq(Nat) /\ n \in Nat /\ n > 0 /\ s[1] = 0 /\ c > 0
      /\ \A j \in 1 .. n : s[j] \in Nat
  <2>1. s \in Seq(Nat) /\ s[1] = 0 /\ c > 0
    BY DEF Chain
  <2>2. n \in Nat /\ \A j \in 1 .. n : s[j] \in Nat
    BY <2>1, LenProperties, ElementOfSeq
  <2>3. n # 0
    BY <2>1, EmptySeq
  <2> QED
    BY <2>1, <2>2, <2>3
<1>2. t \in Seq(Nat) /\ Len(t) = n - 1 /\ \A j \in 1 .. n - 1 : t[j] = s[j]
  BY <1>1, FrontIs
<1>3. \A j \in 2 .. n : 0 < s[j] /\ s[j] + 4 <= c /\ Number(m, s[j]) = s[j - 1]
  BY DEF Chain
<1>5. \A i \in 2 .. n, j \in 2 .. n : j < i => s[j] + 4 <= s[i]
  BY DEF Chain
<1>4. SameBelow(m, k, s[n])
  OBVIOUS
<1> HIDE DEF n, t
<1>6. t # <<>> => t[1] = 0 /\ d > 0
  <2> SUFFICES ASSUME t # <<>> PROVE t[1] = 0 /\ d > 0
    OBVIOUS
  <2>1. Len(t) # 0
    BY <1>2, EmptySeq
  <2>2. 1 \in 1 .. n - 1
    BY <1>1, <1>2, <2>1
  <2> QED
    BY <1>1, <1>2, <2>2
<1>7. ASSUME NEW j \in 2 .. n - 1 PROVE 0 < t[j] /\ t[j] + 4 <= d /\ Number(k, t[j]) = t[j - 1]
  <2>1. j \in 2 .. n /\ j \in 1 .. n /\ j \in 1 .. n - 1 /\ j - 1 \in 1 .. n - 1 /\ j < n /\ n \in 2 .. n /\ n \in 1 .. n
    BY <1>1
  <2>2. t[j] = s[j] /\ t[j - 1] = s[j - 1] /\ s[j] \in Nat /\ s[n] \in Nat
    BY <1>1, <1>2, <2>1
  <2>3. 0 < s[j] /\ s[j] + 4 <= c /\ Number(m, s[j]) = s[j - 1] /\ s[j] + 4 <= s[n]
    BY <1>3, <1>5, <2>1
  <2>4. Number(k, s[j]) = Number(m, s[j])
    BY <1>4, <2>2, <2>3, NumberSame
  <2>5. s[j] + 4 <= d
    BY <2>2, <2>3
  <2> QED
    BY <2>2, <2>3, <2>4, <2>5
<1>8. ASSUME NEW i \in 2 .. n - 1, NEW j \in 2 .. n - 1, j < i PROVE t[j] + 4 <= t[i]
  <2>1. j \in 2 .. n /\ j \in 1 .. n - 1 /\ i \in 2 .. n /\ i \in 1 .. n - 1
    BY <1>1
  <2> QED
    BY <1>2, <1>5, <1>8, <2>1
<1> QED
  BY <1>2, <1>6, <1>7, <1>8 DEF Chain, t, n

\* Writing from c on changes nothing below it.
LEMMA PutBelow ==
  ASSUME NEW m, NEW k, NEW c \in Nat, SameBelow(m, k, c), DOMAIN m = DOMAIN k, NEW at \in Nat, c <= at,
         NEW d, Len(d) \in Nat, 0 .. c - 1 \subseteq DOMAIN k
  PROVE  SameBelow(m, Put(k, at, d), c) /\ DOMAIN Put(k, at, d) = DOMAIN m
<1>1. \A i \in 0 .. c - 1 : i \in DOMAIN k /\ i \notin at .. at + Len(d) - 1
  OBVIOUS
<1>2. \A i \in 0 .. c - 1 : Put(k, at, d)[i] = k[i]
  BY <1>1, PutIs
<1> QED
  BY <1>2, PutIs DEF SameBelow

-----------------------------------------------------------------------------
(***************************************************************************)
(* The open message.                                                       *)
(***************************************************************************)
\* The argument with number k.
LaidAt(at, m, items, p, e, k) ==
  /\ at[k - 1] \in Nat /\ p <= at[k - 1] /\ at[k] <= e /\ Len(Data(items[k])) \in Nat
  /\ at[k] = at[k - 1] + Len(Data(items[k])) /\ Holds(m, at[k - 1], Data(items[k]))

LEMMA FoursAdd ==
  ASSUME NEW x \in Int, NEW y \in Int, x % 4 = 0, y % 4 = 0
  PROVE  (x + y) % 4 = 0
<1>1. x = 4 * (x \div 4) /\ y = 4 * (y \div 4) /\ x \div 4 \in Int /\ y \div 4 \in Int
  OBVIOUS
<1>2. x + y = 4 * ((x \div 4) + (y \div 4))
  BY <1>1
<1> QED
  BY <1>1, <1>2

LEMMA LaidIs ==
  ASSUME NEW at, NEW m, NEW items \in Seq(Item), NEW p \in Nat, NEW e \in Nat, Laid(at, m, items, p, e),
         NEW k \in 1 .. Len(items)
  PROVE  LaidAt(at, m, items, p, e, k)
<1>1. Len(items) \in Nat /\ items[k] \in Item
  BY LenProperties, ElementOfSeq
<1>2. k - 1 \in 0 .. Len(items) /\ k \in 0 .. Len(items)
  BY <1>1
<1>3. at[k - 1] \in Nat /\ at[k] \in Nat /\ p <= at[k - 1] /\ at[k] <= e /\ p <= at[k]
  BY <1>2 DEF Laid
<1>4. at[k] = at[k - 1] + Len(Data(items[k])) /\ Holds(m, at[k - 1], Data(items[k]))
  BY DEF Laid
<1>5. Len(Data(items[k])) \in Nat
  BY <1>1, DataIs
<1> QED
  BY <1>3, <1>4, <1>5 DEF LaidAt

\* The arguments stay where nothing is written.
LEMMA LaidStill ==
  ASSUME NEW at, NEW m, NEW h, NEW items \in Seq(Item), NEW p \in Nat, NEW e \in Nat, Laid(at, m, items, p, e),
         \A i \in p .. e - 1 : h[i] = m[i]
  PROVE  Laid(at, h, items, p, e)
<1>1. ASSUME NEW k \in 1 .. Len(items) PROVE Holds(h, at[k - 1], Data(items[k]))
  <2>0. LaidAt(at, m, items, p, e, k)
    BY LaidIs
  <2> DEFINE q == at[k - 1]
             d == Data(items[k])
  <2>1. q \in Nat /\ p <= q /\ Len(d) \in Nat /\ q + Len(d) <= e /\ Holds(m, q, d)
    BY <2>0 DEF LaidAt
  <2> HIDE DEF q, d
  <2>2. \A i \in q .. q + Len(d) - 1 : h[i] = m[i]
    BY <2>1
  <2>3. Holds(h, q, d)
    BY <2>1, <2>2, HoldsStill
  <2> QED
    BY <2>3 DEF q, d
<1> QED
  BY <1>1 DEF Laid

\* They are where they have been moved to.
LEMMA LaidMoves ==
  ASSUME NEW at, NEW m, NEW h, NEW items \in Seq(Item), NEW p \in Nat, NEW e \in Nat, Laid(at, m, items, p, e),
         NEW r \in Nat, \A i \in p .. e - 1 : h[i + r] = m[i]
  PROVE  \E to : Laid(to, h, items, p + r, e + r)
<1> DEFINE n == Len(items)
           to == [k \in 0 .. n |-> at[k] + r]
<1>1. n \in Nat /\ 0 \in 0 .. n /\ n \in 0 .. n
  BY LenProperties
<1>2. /\ at \in [0 .. n -> Nat] /\ at[0] = p /\ at[n] = e
      /\ \A k \in 0 .. n : p <= at[k] /\ at[k] <= e
  BY DEF Laid
<1>3. ASSUME NEW k \in 1 .. n
      PROVE  to[k] = to[k - 1] + Len(Data(items[k])) /\ Holds(h, to[k - 1], Data(items[k]))
  <2>0. LaidAt(at, m, items, p, e, k)
    BY LaidIs
  <2> DEFINE q == at[k - 1]
             d == Data(items[k])
  <2>1. q \in Nat /\ p <= q /\ Len(d) \in Nat /\ q + Len(d) <= e /\ Holds(m, q, d) /\ at[k] = q + Len(d)
    BY <2>0 DEF LaidAt
  <2>2. to[k] = at[k] + r /\ to[k - 1] = q + r
    <3>1. k \in 0 .. n /\ k - 1 \in 0 .. n
      BY <1>1
    <3> QED
      BY <3>1
  <2> HIDE DEF q, d, to
  <2>3. Holds(h, q + r, d)
    <3> SUFFICES ASSUME NEW j \in 1 .. Len(d) PROVE h[(q + r) + j - 1] = d[j]
      BY DEF Holds
    <3>1. q + j - 1 \in p .. e - 1 /\ (q + j - 1) + r = (q + r) + j - 1
      BY <2>1
    <3>2. m[q + j - 1] = d[j]
      BY <2>1 DEF Holds
    <3> QED
      BY <3>1, <3>2
  <2>4. to[k] = to[k - 1] + Len(d)
    BY <2>1, <2>2
  <2> QED
    BY <2>2, <2>3, <2>4 DEF d
<1>4. to \in [0 .. n -> Nat] /\ to[0] = p + r /\ to[n] = e + r
  BY <1>1, <1>2
<1>5. \A k \in 0 .. n : p + r <= to[k] /\ to[k] <= e + r
  <2> TAKE k \in 0 .. n
  <2>1. at[k] \in Nat /\ p <= at[k] /\ at[k] <= e /\ to[k] = at[k] + r
    BY <1>2
  <2> HIDE DEF to
  <2> QED
    BY <2>1
<1> HIDE DEF to
<1>6. Laid(to, h, items, p + r, e + r)
  BY <1>3, <1>4, <1>5 DEF Laid, n
<1> QED
  BY <1>6

\* Another argument behind them.
LEMMA LaidGrows ==
  ASSUME NEW at, NEW m, NEW items \in Seq(Item), NEW p \in Nat, NEW e \in Nat, Laid(at, m, items, p, e), p <= e,
         NEW x \in Item, Holds(m, e, Data(x))
  PROVE  \E to : Laid(to, m, Append(items, x), p, e + Len(Data(x)))
<1> DEFINE n == Len(items)
           l == Len(Data(x))
           all == Append(items, x)
           to == [k \in 0 .. n + 1 |-> IF k = n + 1 THEN e + l ELSE at[k]]
<1>1. n \in Nat /\ 0 \in 0 .. n + 1 /\ n + 1 \in 0 .. n + 1 /\ 0 # n + 1 /\ n \in 0 .. n + 1 /\ n # n + 1 /\ 0 \in 0 .. n
  <2>1. n \in Nat
    BY LenProperties
  <2> HIDE DEF n
  <2> QED
    BY <2>1
<1>2. /\ at \in [0 .. n -> Nat] /\ at[0] = p /\ at[n] = e
      /\ \A k \in 0 .. n : p <= at[k] /\ at[k] <= e
      /\ \A k \in 1 .. n : at[k] = at[k - 1] + Len(Data(items[k])) /\ Holds(m, at[k - 1], Data(items[k]))
  BY DEF Laid
<1>3. /\ all \in Seq(Item) /\ Len(all) = n + 1 /\ all[n + 1] = x
      /\ \A k \in 1 .. n : all[k] = items[k]
  BY AppendProperties
<1>4. l \in Nat
  BY DataIs
<1> HIDE DEF n, l, all
<1>5. to[0] = p /\ to[n] = e /\ to[n + 1] = e + l /\ \A k \in 0 .. n : to[k] = at[k]
  <2>1. \A k \in 0 .. n : k \in 0 .. n + 1 /\ k # n + 1
    BY <1>1
  <2> QED
    BY <1>1, <1>2, <2>1
<1>6. to \in [0 .. n + 1 -> Nat]
  <2>1. \A k \in 0 .. n + 1 : k # n + 1 => k \in 0 .. n
    BY <1>1
  <2>2. e + l \in Nat
    BY <1>4
  <2> QED
    BY <1>2, <2>1, <2>2
<1> HIDE DEF to
<1>7. \A k \in 0 .. n + 1 : p <= to[k] /\ to[k] <= e + l
  <2> TAKE k \in 0 .. n + 1
  <2>1. CASE k = n + 1
    BY <1>4, <1>5, <2>1
  <2>2. CASE k # n + 1
    <3>1. k \in 0 .. n
      BY <1>1, <2>2
    <3>2. to[k] = at[k] /\ at[k] \in Nat /\ p <= at[k] /\ at[k] <= e
      BY <1>2, <1>5, <3>1
    <3> QED
      BY <1>4, <3>2
  <2> QED
    BY <2>1, <2>2
<1>8. ASSUME NEW k \in 1 .. n + 1
      PROVE  to[k] = to[k - 1] + Len(Data(all[k])) /\ Holds(m, to[k - 1], Data(all[k]))
  <2>1. CASE k = n + 1
    <3>1. k - 1 = n /\ all[k] = x
      BY <1>1, <1>3, <2>1
    <3> QED
      BY <1>5, <2>1, <3>1 DEF l
  <2>2. CASE k # n + 1
    <3>1. k \in 1 .. n /\ k \in 0 .. n /\ k - 1 \in 0 .. n
      BY <1>1, <2>2
    <3> QED
      BY <1>2, <1>3, <1>5, <3>1
  <2> QED
    BY <2>1, <2>2
<1>9. Laid(to, m, all, p, e + l)
  BY <1>3, <1>5, <1>6, <1>7, <1>8 DEF Laid
<1> QED
  BY <1>9 DEF l, all

\* Address a is at offset p, the arguments from c to e, the tags backwards at the end.
Written(m, p, c, e, a, items) ==
  /\ a \in Addresses /\ items \in Seq(Item) /\ p \in Nat
  /\ Holds(m, p, Padded(a)) /\ c = p + Len(Padded(a)) /\ (e - c) % 4 = 0
  /\ \E at : Laid(at, m, items, c, e)
  /\ \A i \in 1 .. Len(items) : m[Capacity - i] = items[i].tag

\* The elements that are open and their slots.
SlotsInv ==
  /\ (\E S : stack \in Seq(S)) /\ Len(slots) = Len(stack)
  /\ Chain(mem, slots, cursor) /\ SlotsNest
  /\ inMessage => stack # <<>>
\* The message that is open, behind its slot.
MessageInv == inMessage =>
  LET w == stack[Len(stack)]
      start == cursor - Len(Padded(w.address)) IN
  /\ w = [address |-> w.address, items |-> w.items] /\ TagCount = Len(w.items)
  /\ Written(mem, start, cursor, args, w.address, w.items)
  /\ slot # 0 => slot + 4 <= start

LEMMA NothingWritten ==
  ASSUME NEW m, NEW p \in Nat, NEW a \in Addresses, Holds(m, p, Padded(a)), NEW c, c = p + Len(Padded(a))
  PROVE  Written(m, p, c, c, a, <<>>)
<1>1. c \in Nat
  BY HeadersAre
<1> DEFINE at == [k \in 0 .. 0 |-> c]
<1>2. <<>> \in Seq(Item) /\ Len(<<>>) = 0
  BY EmptySeq
<1>3. at \in [0 .. 0 -> Nat] /\ at[0] = c /\ \A k \in 0 .. 0 : at[k] = c
  BY <1>1
<1> HIDE DEF at
<1>4. \A k : k \notin 1 .. 0
  OBVIOUS
<1> DEFINE none == <<>>
<1>5. Laid(at, m, none, c, c)
  <2>1. none \in Seq(Item) /\ Len(none) = 0
    BY <1>2
  <2> HIDE DEF none
  <2>2. \A k \in 0 .. 0 : c <= at[k] /\ at[k] <= c
    BY <1>1, <1>3
  <2> QED
    BY <1>3, <1>4, <2>1, <2>2 DEF Laid
<1>6. (c - c) % 4 = 0
  BY <1>1
<1> QED
  BY <1>2, <1>4, <1>5, <1>6 DEF Written

\* A word or more is written, and a tag before the other tags.
LEMMA MoreWritten ==
  ASSUME NEW m, NEW h, NEW p, NEW c \in Nat, NEW e \in Nat, NEW a, NEW items, Written(m, p, c, e, a, items),
         c <= e, NEW x \in Item, e + Len(Data(x)) < Capacity - Len(items),
         SameBelow(m, h, e), Holds(h, e, Data(x)), h[Capacity - Len(items) - 1] = x.tag,
         \A i \in Capacity - Len(items) .. Capacity - 1 : h[i] = m[i]
  PROVE  Written(h, p, c, e + Len(Data(x)), a, Append(items, x))
<1> DEFINE n == Len(items)
           l == Len(Data(x))
           all == Append(items, x)
<1>1. /\ items \in Seq(Item) /\ n \in Nat /\ l \in Nat /\ l % 4 = 0 /\ Capacity \in Nat /\ a \in Addresses /\ p \in Nat
      /\ c = p + Len(Padded(a)) /\ (e - c) % 4 = 0 /\ Holds(m, p, Padded(a))
      /\ \A i \in 1 .. n : m[Capacity - i] = items[i].tag
  BY LenProperties, DataIs, StreamAssumption DEF Written
<1>2. /\ all \in Seq(Item) /\ Len(all) = n + 1 /\ all[n + 1] = x
      /\ \A k \in 1 .. n : all[k] = items[k]
  BY <1>1, AppendProperties
<1>3. PICK at : Laid(at, m, items, c, e)
  BY DEF Written
<1> HIDE DEF n, l, all
<1>4. Laid(at, h, items, c, e)
  <2>1. \A i \in c .. e - 1 : h[i] = m[i]
    BY DEF SameBelow
  <2> QED
    BY <1>1, <1>3, <2>1, LaidStill
<1>5. \E to : Laid(to, h, all, c, e + l)
  BY <1>1, <1>4, LaidGrows DEF all, l
<1>6. Holds(h, p, Padded(a))
  <2> DEFINE d == Padded(a)
  <2>1. Len(d) \in Nat /\ p + Len(d) = c
    BY <1>1, HeadersAre
  <2>2. Holds(m, p, d)
    BY <1>1
  <2> HIDE DEF d
  <2>3. \A i \in p .. p + Len(d) - 1 : h[i] = m[i]
    BY <1>1, <2>1 DEF SameBelow
  <2>4. Holds(h, p, d)
    BY <1>1, <2>1, <2>2, <2>3, HoldsStill
  <2> QED
    BY <2>4 DEF d
<1>0. n \in Nat /\ l \in Nat /\ Capacity \in Nat
  BY <1>1
<1>7. ((e + l) - c) % 4 = 0
  <2> DEFINE y == e - c
  <2>1. y \in Int /\ y % 4 = 0 /\ l % 4 = 0 /\ (e + l) - c = y + l
    BY <1>0, <1>1
  <2> HIDE DEF y
  <2>2. (y + l) % 4 = 0
    BY <1>0, <2>1, FoursAdd
  <2> QED
    BY <2>1, <2>2
<1>8. ASSUME NEW i \in 1 .. n + 1 PROVE h[Capacity - i] = all[i].tag
  <2>1. CASE i = n + 1
    <3>1. Capacity - i = (Capacity - n) - 1
      BY <1>1, <2>1
    <3>2. h[(Capacity - n) - 1] = x.tag
      BY DEF n
    <3> QED
      BY <1>2, <2>1, <3>1, <3>2
  <2>2. CASE i # n + 1
    <3>1. i \in 1 .. n
      BY <1>0, <2>2
    <3>3. Capacity - i \in Capacity - n .. Capacity - 1
      BY <1>0, <3>1
    <3>2. h[Capacity - i] = m[Capacity - i]
      BY <3>3 DEF n
    <3> QED
      BY <1>1, <1>2, <3>1, <3>2
  <2> QED
    BY <2>1, <2>2
<1>9. Written(h, p, c, e + l, a, all)
  BY <1>1, <1>2, <1>5, <1>6, <1>7, <1>8 DEF Written
<1> QED
  BY <1>9 DEF l, all

\* What an argument changes in the buffer.
LEMMA AddMemory ==
  ASSUME StreamInv, NEW tag, NEW value, NEW data, Len(data) \in Nat, Add(tag, value, data)
  PROVE  /\ SameBelow(mem, mem', args) /\ Holds(mem', args, data) /\ mem'[tagsAt - 1] = tag
         /\ \A i \in tagsAt .. Capacity - 1 : mem'[i] = mem[i]
         /\ args + Len(data) < tagsAt /\ args' = args + Len(data) /\ tagsAt' = tagsAt - 1
<1> DEFINE l == Len(data)
           t == tagsAt - 1
           one == <<tag>>
           g == Put(mem, t, one)
           h == Put(g, args, data)
<1>1. /\ args \in Nat /\ tagsAt \in Nat /\ Capacity \in Nat /\ tagsAt <= Capacity
      /\ DOMAIN mem = 0 .. Capacity - 1 /\ TagCount = Capacity - tagsAt
  BY StreamAssumption DEF StreamInv, TagCount
<1>2. args + l + RoundUp4(TagCount + 3) <= Capacity /\ args' = args + l /\ tagsAt' = t /\ mem' = h
  BY DEF Add, Fits
<1>3. l \in Nat /\ Len(one) = 1 /\ one[1] = tag
  OBVIOUS
<1> HIDE DEF l, one
<1>4. args + l < t /\ t \in Nat /\ t < Capacity
  <2>1. TagCount + 3 \in Nat
    BY <1>1
  <2>2. RoundUp4(TagCount + 3) \in Nat /\ TagCount + 3 <= RoundUp4(TagCount + 3)
    BY <2>1, RoundUp4Is
  <2> QED
    BY <1>1, <1>2, <1>3, <2>1, <2>2
<1> HIDE DEF t
<1>5. /\ DOMAIN g = 0 .. Capacity - 1 /\ g[t] = tag
      /\ \A i \in 0 .. Capacity - 1 : i # t => g[i] = mem[i]
  <2>1. /\ DOMAIN g = DOMAIN mem
        /\ \A i \in DOMAIN mem : i \in t .. t + Len(one) - 1 => g[i] = one[i - t + 1]
        /\ \A i \in DOMAIN mem : i \notin t .. t + Len(one) - 1 => g[i] = mem[i]
    <3>1. t \in Int /\ Len(one) \in Nat
      BY <1>3, <1>4
    <3> QED
      BY <3>1, PutIs
  <2>2. t \in DOMAIN mem /\ t \in t .. t + Len(one) - 1 /\ t - t + 1 = 1
    BY <1>1, <1>3, <1>4
  <2>3. \A i : i \in t .. t + Len(one) - 1 => i = t
    BY <1>3, <1>4
  <2> QED
    BY <1>1, <1>3, <2>1, <2>2, <2>3
<1> HIDE DEF g
<1>6. /\ \A i \in 0 .. Capacity - 1 : i \notin args .. args + l - 1 => h[i] = g[i]
      /\ Holds(h, args, data)
  <2>1. args .. args + l - 1 \subseteq DOMAIN g
    BY <1>1, <1>3, <1>4, <1>5
  <2>2. Holds(h, args, data)
    BY <1>1, <1>3, <2>1, PutHolds DEF l
  <2>3. \A i \in DOMAIN g : i \notin args .. args + l - 1 => h[i] = g[i]
    BY <1>1, <1>3, PutIs DEF l
  <2> QED
    BY <1>5, <2>2, <2>3
<1> HIDE DEF h
<1>7. \A i \in 0 .. Capacity - 1 : i # t /\ i \notin args .. args + l - 1 => h[i] = mem[i]
  BY <1>5, <1>6
<1>8. SameBelow(mem, h, args)
  <2> SUFFICES ASSUME NEW i \in 0 .. args - 1 PROVE h[i] = mem[i]
    BY DEF SameBelow
  <2>1. i \in 0 .. Capacity - 1 /\ i # t /\ i \notin args .. args + l - 1
    BY <1>1, <1>3, <1>4
  <2> QED
    BY <1>7, <2>1
<1>9. h[t] = tag
  <2>1. t \in 0 .. Capacity - 1 /\ t \notin args .. args + l - 1
    BY <1>1, <1>3, <1>4
  <2> QED
    BY <1>5, <1>6, <2>1
<1>10. \A i \in tagsAt .. Capacity - 1 : h[i] = mem[i]
  <2> TAKE i \in tagsAt .. Capacity - 1
  <2>1. i \in 0 .. Capacity - 1 /\ i # t /\ i \notin args .. args + l - 1
    BY <1>1, <1>3, <1>4 DEF t
  <2> QED
    BY <1>7, <2>1
<1>11. args + l < tagsAt
  BY <1>1, <1>3, <1>4 DEF t
<1> QED
  BY <1>2, <1>6, <1>8, <1>9, <1>10, <1>11 DEF t, l

\* What a new element changes in the buffer.
LEMMA BeginMemory ==
  ASSUME StreamInv, ~inMessage, SlotsInv, NEW address, NEW header, Len(header) \in Nat, Len(header) > 0,
         BeginElement(address, header), Size + SlotSize + Len(header) <= Capacity
  PROVE  /\ Holds(mem', cursor + SlotSize, header) /\ cursor' = cursor + SlotSize + Len(header)
         /\ args' = cursor'
         /\ slot # None => /\ slot \in Nat /\ SlotSize = 4
                           /\ SameBelow(mem, mem', cursor) /\ Number(mem', cursor) = slot
<1> DEFINE l == Len(header)
           start == cursor + SlotSize
           m == IF slot = None THEN mem ELSE Put(mem, cursor, SavedSlot)
           h == Put(m, start, header)
<1>1. /\ cursor \in Nat /\ Capacity \in Nat /\ Size = cursor /\ DOMAIN mem = 0 .. Capacity - 1
      /\ SlotSize \in {0, 4} /\ (slot # None => SlotSize = 4)
  BY StreamAssumption DEF StreamInv, Size, SlotSize
<1>2. cursor' = start + l /\ args' = start + l /\ mem' = h
  BY DEF BeginElement
<1>3. l \in Nat /\ l > 0 /\ cursor + SlotSize + l <= Capacity
  BY <1>1
<1>4. slot # None => slot \in Nat /\ slot <= cursor
  <2> SUFFICES ASSUME slot # None PROVE slot \in Nat /\ slot <= cursor
    OBVIOUS
  <2>1. slots # <<>> /\ slot = slots[Len(slots)] /\ slots \in Seq(Nat)
    BY DEF SlotsInv, SlotsNest, Chain
  <2>2. Len(slots) \in Nat /\ Len(slots) # 0
    BY <2>1, LenProperties, EmptySeq
  <2>3. Len(slots) \in 1 .. Len(slots)
    BY <2>2
  <2>4. slot \in Nat
    BY <2>1, <2>3, ElementOfSeq
  <2>5. CASE Len(slots) = 1
    <3>1. slot = 0
      BY <2>1, <2>5 DEF SlotsInv, Chain
    <3> QED
      BY <1>1, <2>4, <3>1
  <2>6. CASE Len(slots) # 1
    <3>1. Len(slots) \in 2 .. Len(slots)
      <4> DEFINE k == Len(slots)
      <4>1. k \in Nat /\ k # 0 /\ k # 1
        BY <2>2, <2>6
      <4> HIDE DEF k
      <4>2. k \in 2 .. k
        BY <4>1
      <4> QED
        BY <4>2 DEF k
    <3>2. slots[Len(slots)] + 4 <= cursor
      BY <3>1 DEF SlotsInv, Chain
    <3> QED
      BY <1>1, <2>1, <2>4, <3>2
  <2> QED
    BY <2>5, <2>6
<1> HIDE DEF l
<1>5. start \in Nat /\ start .. start + l - 1 \subseteq 0 .. Capacity - 1 /\ cursor <= start
  BY <1>1, <1>3
<1> HIDE DEF start, m
<1>6. DOMAIN m = 0 .. Capacity - 1
  BY <1>1, PutKeeps DEF m
<1>7. Holds(h, start, header)
  <2>1. start .. start + Len(header) - 1 \subseteq DOMAIN m /\ start \in Int
    BY <1>5, <1>6 DEF l
  <2> QED
    BY <2>1, PutHolds
<1>8. ASSUME slot # None PROVE SameBelow(mem, h, cursor) /\ Number(h, cursor) = slot
  <2>1. slot \in Nat /\ slot <= cursor /\ start = cursor + 4 /\ m = Put(mem, cursor, Int32(slot))
    BY <1>1, <1>4, <1>8 DEF start, m, SavedSlot
  <2> DEFINE four == Int32(slot)
  <2>2. Len(four) = 4 /\ m = Put(mem, cursor, four) /\ Len(four) \in Nat
    BY <2>1, Int32Is
  <2> HIDE DEF four
  <2>3. cursor .. cursor + Len(four) - 1 \subseteq DOMAIN mem /\ cursor \in Int
    <3>1. cursor + 4 <= Capacity
      BY <1>1, <1>3, <1>8
    <3> QED
      BY <1>1, <2>2, <3>1
  <2>4. Holds(m, cursor, four)
    BY <2>2, <2>3, PutHolds
  <2>5. \A i \in 0 .. Capacity - 1 : i \notin cursor .. cursor + Len(four) - 1 => m[i] = mem[i]
    <3>1. \A i \in DOMAIN mem : i \notin cursor .. cursor + Len(four) - 1 => Put(mem, cursor, four)[i] = mem[i]
      BY <2>2, <2>3, PutIs
    <3> QED
      BY <1>1, <2>2, <3>1
  <2>6. \A i \in 0 .. start - 1 : h[i] = m[i]
    <3> TAKE i \in 0 .. start - 1
    <3>1. i \in DOMAIN m /\ i \notin start .. start + l - 1
      BY <1>3, <1>5, <1>6, <1>1, <2>1
    <3> QED
      BY <1>3, <1>5, <3>1, PutIs DEF l
  <2> HIDE DEF h
  <2>7. SameBelow(mem, h, cursor)
    <3> SUFFICES ASSUME NEW i \in 0 .. cursor - 1 PROVE h[i] = mem[i]
      BY DEF SameBelow
    <3>1. i \in 0 .. start - 1 /\ i \in 0 .. Capacity - 1 /\ i \notin cursor .. cursor + Len(four) - 1
      BY <1>1, <1>3, <2>1, <2>2
    <3> QED
      BY <2>5, <2>6, <3>1
  <2>8. Holds(h, cursor, four)
    <3>1. \A i \in cursor .. cursor + Len(four) - 1 : h[i] = m[i]
      BY <1>1, <2>1, <2>2, <2>6
    <3> QED
      BY <2>2, <2>3, <2>4, <3>1, HoldsStill
  <2>9. Is32(slot)
    <3>1. slot <= Capacity
      BY <1>1, <1>3, <2>1
    <3> QED
      BY <1>1, <2>1, <3>1, WidthAssumption, Is32Below
  <2>10. Number(h, cursor) = slot
    BY <1>1, <2>1, <2>8, <2>9, NumberIs DEF four
  <2> QED
    BY <2>7, <2>10
<1> HIDE DEF h
<1> QED
  BY <1>1, <1>2, <1>4, <1>7, <1>8 DEF start, l

\* A sequence with something else in one place.
LEMMA ExceptIs ==
  ASSUME NEW s, \E S : s \in Seq(S), NEW i \in 1 .. Len(s), NEW v
  PROVE  /\ \E S : [s EXCEPT ![i] = v] \in Seq(S)
         /\ Len([s EXCEPT ![i] = v]) = Len(s) /\ [s EXCEPT ![i] = v][i] = v
<1>1. PICK S : s \in Seq(S)
  OBVIOUS
<1> DEFINE T == S \cup {v}
<1>2. s \in Seq(T)
  <2>1. S \subseteq T
    OBVIOUS
  <2> HIDE DEF T
  <2> QED
    BY <1>1, <2>1, SeqMonotonic, Zenon
<1>3. v \in T
  OBVIOUS
<1> HIDE DEF T
<1>4. /\ [s EXCEPT ![i] = v] \in Seq(T) /\ Len([s EXCEPT ![i] = v]) = Len(s)
      /\ \A j \in 1 .. Len(s) : [s EXCEPT ![i] = v][j] = IF j = i THEN v ELSE s[j]
  BY <1>2, <1>3, ExceptSeq
<1> QED
  BY <1>4

LEMMA AppendIs ==
  ASSUME NEW s, \E S : s \in Seq(S), NEW v
  PROVE  /\ \E S : Append(s, v) \in Seq(S)
         /\ Len(s) \in Nat /\ Len(Append(s, v)) = Len(s) + 1 /\ Append(s, v)[Len(s) + 1] = v
         /\ Append(s, v) # <<>>
<1>1. PICK S : s \in Seq(S)
  OBVIOUS
<1> DEFINE T == S \cup {v}
<1>2. s \in Seq(T)
  <2>1. S \subseteq T
    OBVIOUS
  <2> HIDE DEF T
  <2> QED
    BY <1>1, <2>1, SeqMonotonic, Zenon
<1>3. v \in T
  OBVIOUS
<1> HIDE DEF T
<1>4. /\ Append(s, v) \in Seq(T) /\ Len(Append(s, v)) = Len(s) + 1 /\ Append(s, v)[Len(s) + 1] = v
      /\ Append(s, v) # <<>>
  BY <1>2, <1>3, AppendProperties
<1>5. Len(s) \in Nat
  BY <1>2, LenProperties
<1> QED
  BY <1>4, <1>5

\* The innermost slot.
LEMMA SlotIs ==
  ASSUME SlotsInv, slot # None
  PROVE  /\ slots \in Seq(Nat) /\ slots # <<>> /\ Len(slots) \in Nat \ {0} /\ slot = slots[Len(slots)] /\ slot \in Nat
         /\ \/ Len(slots) = 1 /\ slot = 0
            \/ Len(slots) # 1 /\ Len(slots) \in 2 .. Len(slots) /\ slot > 0 /\ slot + 4 <= cursor
               /\ Number(mem, slot) = slots[Len(slots) - 1]
<1> DEFINE k == Len(slots)
<1>1. slots # <<>> /\ slot = slots[k] /\ slots \in Seq(Nat)
  BY DEF SlotsInv, SlotsNest, Chain
<1>2. k \in Nat /\ k # 0
  BY <1>1, LenProperties, EmptySeq
<1>0. /\ (slots # <<>> => slots[1] = 0)
      /\ \A j \in 2 .. k : 0 < slots[j] /\ slots[j] + 4 <= cursor /\ Number(mem, slots[j]) = slots[j - 1]
  BY DEF SlotsInv, Chain
<1> HIDE DEF k
<1>3. k \in 1 .. k /\ (k # 1 => k \in 2 .. k)
  BY <1>2
<1>4. slot \in Nat
  BY <1>1, <1>3, ElementOfSeq DEF k
<1>5. k = 1 => slot = 0
  BY <1>0, <1>1
<1>6. k # 1 => slot > 0 /\ slot + 4 <= cursor /\ Number(mem, slot) = slots[k - 1]
  BY <1>0, <1>1, <1>3, <1>4
<1> QED
  BY <1>1, <1>2, <1>3, <1>4, <1>5, <1>6 DEF k

LEMMA SlotsBegin ==
  ASSUME StreamInv, ~inMessage, SlotsInv, NEW address, NEW header, Len(header) \in Nat, Len(header) > 0,
         BeginElement(address, header), Size + SlotSize + Len(header) <= Capacity
  PROVE  SlotsInv'
<1>1. /\ cursor' = cursor + SlotSize + Len(header)
      /\ slot # None => /\ slot \in Nat /\ SlotSize = 4
                        /\ SameBelow(mem, mem', cursor) /\ Number(mem', cursor) = slot
  BY BeginMemory
<1>2. cursor \in Nat /\ SlotSize \in {0, 4}
  BY DEF StreamInv, SlotSize
<1> DEFINE c == cursor'
<1>3. c \in Nat /\ c > 0 /\ (SlotSize = 4 => cursor + 4 <= c)
  BY <1>1, <1>2
<1> DEFINE e == [address |-> address, items |-> <<>>]
<1>4. /\ stack' = Append(stack, e) /\ slots' = Append(slots, IF slot = None THEN 0 ELSE cursor)
      /\ slot' = IF slot = None THEN 0 ELSE cursor
  BY DEF BeginElement
<1> HIDE DEF e
<1>5. /\ \E S : stack' \in Seq(S)
      /\ Len(stack) \in Nat /\ Len(stack') = Len(stack) + 1 /\ stack' # <<>>
  BY <1>4, AppendIs DEF SlotsInv
<1> HIDE DEF c
<1>6. slots \in Seq(Nat) /\ Len(slots) = Len(stack)
  BY DEF SlotsInv, Chain
<1>7. (slot = None <=> slots = <<>>)
  BY SlotIs DEF SlotsInv, SlotsNest, Chain, None
<1> DEFINE v == IF slot = None THEN 0 ELSE cursor
<1>8. v \in Nat
  BY <1>2
<1> HIDE DEF v
<1>9. slots' = Append(slots, v) /\ slot' = v
  BY <1>4 DEF v
<1>10. slots' # <<>> /\ Len(slots') = Len(slots) + 1 /\ slots'[Len(slots) + 1] = v /\ slots' \in Seq(Nat)
  BY <1>6, <1>8, <1>9, AppendProperties
<1>11. SlotsNest'
  BY <1>9, <1>10 DEF SlotsNest
<1>12. Chain(mem', slots', c)
  <2>1. CASE slot = None
    <3>1. Len(slots) = 0 /\ v = 0
      BY <1>7, <2>1, EmptySeq DEF v
    <3> DEFINE s == slots'
    <3>2. s \in Seq(Nat) /\ Len(s) = 1 /\ s[1] = 0
      BY <1>10, <3>1
    <3> HIDE DEF s
    <3>3. \A k : k \notin 2 .. Len(s)
      BY <3>2
    <3>4. Chain(mem', s, c)
      BY <1>3, <3>2, <3>3 DEF Chain
    <3> QED
      BY <3>4 DEF s
  <2>2. CASE slot # None
    <3>1. slots # <<>> /\ slots[Len(slots)] = slot /\ Chain(mem, slots, cursor)
      BY <2>2, SlotIs DEF SlotsInv
    <3>2. SameBelow(mem, mem', cursor) /\ Number(mem', cursor) = slots[Len(slots)] /\ cursor + 4 <= c
      BY <1>1, <1>3, <2>2, <3>1
    <3>3. slots' = Append(slots, cursor)
      BY <1>4, <2>2
    <3> QED
      BY <1>2, <1>3, <3>1, <3>2, <3>3, ChainGrows
  <2> QED
    BY <2>1, <2>2
<1> QED
  BY <1>5, <1>6, <1>10, <1>11, <1>12 DEF SlotsInv, c

LEMMA SlotsEnd ==
  ASSUME StreamInv, SlotsInv, slot # None, NEW m, NEW end \in Nat, cursor <= end, DOMAIN m = DOMAIN mem,
         SameBelow(mem, m, cursor), EndElement(m, end), ~inMessage'
  PROVE  SlotsInv'
<1> DEFINE n == Len(slots)
           c == cursor'
<1>1. /\ cursor \in Nat /\ slot \in Nat /\ n \in Nat \ {0} /\ slots \in Seq(Nat) /\ slots # <<>> /\ slot = slots[n]
      /\ cursor <= Capacity /\ Capacity \in Nat /\ DOMAIN mem = 0 .. Capacity - 1
  BY SlotIs, StreamAssumption DEF StreamInv, InBuffer
<1>2. /\ mem' = (IF slot = 0 THEN m ELSE Put(m, slot, Int32(end - slot - 4)))
      /\ slot' = (IF slot = 0 THEN None ELSE Number(m, slot)) /\ c = end
      /\ slots' = SubSeq(slots, 1, Len(stack) - 1) /\ Len(slots) = Len(stack)
      /\ stack' = IF Len(stack) = 1 THEN <<>>
                  ELSE [SubSeq(stack, 1, Len(stack) - 1) EXCEPT ![Len(stack) - 1].items = Append(@, stack[Len(stack)])]
  BY DEF EndElement, SlotsInv
<1> HIDE DEF c
<1>3. /\ SubSeq(slots, 1, n - 1) \in Seq(Nat) /\ Len(SubSeq(slots, 1, n - 1)) = n - 1
      /\ \A i \in 1 .. n - 1 : SubSeq(slots, 1, n - 1)[i] = slots[i]
  BY <1>1, FrontIs
<1>4. SameBelow(mem, mem', slot)
  <2>1. CASE slot = 0
    BY <2>1 DEF SameBelow
  <2>2. CASE slot # 0
    <3> DEFINE d == Int32(end - slot - 4)
    <3>1. slot + 4 <= cursor
      BY <2>2, SlotIs
    <3>2. Len(d) = 4 /\ mem' = Put(m, slot, d)
      BY <1>2, <2>2 DEF Int32
    <3> HIDE DEF d
    <3>2a. cursor \in Nat /\ slot \in Nat /\ cursor <= Capacity /\ Capacity \in Nat
      BY <1>1
    <3>3. SameBelow(mem, m, slot)
      <4> SUFFICES ASSUME NEW i \in 0 .. slot - 1 PROVE m[i] = mem[i]
        BY DEF SameBelow
      <4>1. i \in 0 .. cursor - 1
        BY <3>1, <3>2a
      <4> QED
        BY <4>1 DEF SameBelow
    <3>4. 0 .. slot - 1 \subseteq DOMAIN m
      <4>1. DOMAIN m = 0 .. Capacity - 1
        BY <1>1
      <4> QED
        BY <3>1, <3>2a, <4>1
    <3>5. Len(d) \in Nat
      BY <3>2
    <3>6. SameBelow(mem, Put(m, slot, d), slot)
      <4>1. slot \in Nat /\ slot <= slot /\ DOMAIN mem = DOMAIN m
        BY <1>1
      <4> QED
        BY <3>3, <3>4, <3>5, <4>1, PutBelow, Zenon
    <3> QED
      BY <3>2, <3>6
  <2> QED
    BY <2>1, <2>2
<1>5. Chain(mem', SubSeq(slots, 1, Len(slots) - 1), end)
  BY <1>1, <1>4, ChainEnds DEF SlotsInv
<1>6. slots' = SubSeq(slots, 1, n - 1)
  BY <1>2
<1>7. SlotsNest'
  <2>1. CASE n = 1
    <3>1. slot = 0
      BY <2>1, SlotIs
    <3>2. slots' = <<>>
      BY <1>3, <1>6, <2>1, EmptySeq
    <3> QED
      BY <1>2, <3>1, <3>2 DEF SlotsNest
  <2>2. CASE n # 1
    <3>1. slot > 0 /\ slot + 4 <= cursor /\ Number(mem, slot) = slots[n - 1]
      BY <2>2, SlotIs
    <3>2. Number(m, slot) = Number(mem, slot)
      BY <1>1, <3>1, NumberSame
    <3>3. slot' = slots[n - 1]
      BY <1>1, <1>2, <3>1, <3>2
    <3>4. n - 1 \in 1 .. n - 1 /\ n - 1 # 0
      <4>1. n \in Nat /\ n # 0 /\ n # 1
        BY <1>1, <2>2
      <4> HIDE DEF n
      <4> QED
        BY <4>1
    <3>5. slots'[n - 1] = slots[n - 1] /\ Len(slots') = n - 1
      BY <1>3, <1>6, <3>4
    <3>6. slots' # <<>>
      BY <3>4, <3>5, EmptySeq
    <3> QED
      BY <3>3, <3>5, <3>6 DEF SlotsNest
  <2> QED
    BY <2>1, <2>2
<1>8. (\E S : stack' \in Seq(S)) /\ Len(stack') = n - 1
  <2>1. CASE n = 1
    <3>1. stack' = <<>> /\ n - 1 = 0
      BY <1>2, <2>1
    <3>2. <<>> \in Seq({}) /\ Len(<<>>) = 0
      BY EmptySeq
    <3> QED
      BY <3>1, <3>2
  <2>2. CASE n # 1
    <3>1. PICK S : stack \in Seq(S)
      BY DEF SlotsInv
    <3> DEFINE front == SubSeq(stack, 1, n - 1)
               v == [front[n - 1] EXCEPT !.items = Append(@, stack[n])]
    <3>2. stack # <<>> /\ Len(stack) = n
      BY <1>1, <1>2, EmptySeq
    <3>3. front \in Seq(S) /\ Len(front) = n - 1
      BY <3>1, <3>2, FrontIs
    <3>4. stack' = [front EXCEPT ![n - 1] = v]
      BY <1>2, <2>2, <3>2
    <3>5. n - 1 \in 1 .. n - 1
      <4>1. n \in Nat /\ n # 0 /\ n # 1
        BY <1>1, <2>2
      <4> HIDE DEF n
      <4> QED
        BY <4>1
    <3> HIDE DEF front, v
    <3>6. (\E T : [front EXCEPT ![n - 1] = v] \in Seq(T)) /\ Len([front EXCEPT ![n - 1] = v]) = Len(front)
      BY <3>3, <3>5, ExceptIs
    <3> QED
      BY <3>3, <3>4, <3>6
  <2> QED
    BY <2>1, <2>2
<1> QED
  BY <1>2, <1>3, <1>5, <1>6, <1>7, <1>8 DEF SlotsInv, c

LEMMA SlotsAdd ==
  ASSUME StreamInv, SlotsInv, NEW tag, NEW value, NEW data, Len(data) \in Nat, Add(tag, value, data)
  PROVE  SlotsInv'
<1>1. SameBelow(mem, mem', args) /\ cursor \in Nat /\ cursor <= args /\ args \in Nat
  BY AddMemory DEF StreamInv
<1>2. SameBelow(mem, mem', cursor)
  BY <1>1 DEF SameBelow
<1>3. UNCHANGED <<cursor, slot, slots, inMessage>> /\ inMessage
  BY DEF Add
<1>4. Chain(mem', slots', cursor')
  BY <1>1, <1>2, <1>3, ChainStill DEF SlotsInv
<1> DEFINE n == Len(stack)
           v == [stack[n] EXCEPT !.items = Append(@, [tag |-> tag, value |-> value])]
<1>5. stack' = [stack EXCEPT ![n] = v]
  BY DEF Add
<1>6. (\E S : stack \in Seq(S)) /\ stack # <<>>
  BY <1>3 DEF SlotsInv
<1>7. n \in 1 .. n
  BY <1>6, LenProperties, EmptySeq
<1> HIDE DEF v
<1>8. (\E S : stack' \in Seq(S)) /\ Len(stack') = n
  BY <1>5, <1>6, <1>7, ExceptIs
<1>9. stack' # <<>>
  BY <1>7, <1>8, EmptySeq
<1> QED
  BY <1>3, <1>4, <1>8, <1>9 DEF SlotsInv, SlotsNest

LEMMA MessageBegin ==
  ASSUME StreamInv, SlotsInv, BeginMessage
  PROVE  SlotsInv' /\ MessageInv'
<1>1. /\ ~inMessage /\ tagsAt' = Capacity /\ inMessage' = TRUE
  BY DEF BeginMessage
<1>2. PICK a \in Addresses : /\ Size + SlotSize + RoundUp4(Len(a) + 1) + 4 <= Capacity
                             /\ BeginElement(a, Padded(a))
  BY DEF BeginMessage
<1> DEFINE header == Padded(a)
           l == Len(header)
           start == cursor + SlotSize
           e == [address |-> a, items |-> <<>>]
<1>3. a \in Seq(1..255) /\ l = RoundUp4(Len(a) + 1) /\ l \in Nat /\ l > 0
  BY StreamAssumption, HeadersAre, PaddedIs
<1>4. /\ cursor \in Nat /\ Size = cursor /\ SlotSize \in {0, 4} /\ Capacity \in Nat
  BY <1>1, StreamAssumption DEF StreamInv, SlotSize, Size
<1>5. BeginElement(a, header) /\ Size + SlotSize + l <= Capacity
  <2>1. Size + SlotSize + l + 4 <= Capacity
    BY <1>2, <1>3
  <2> HIDE DEF l
  <2>2. Size + SlotSize + l <= Capacity
    BY <1>3, <1>4, <2>1
  <2> QED
    BY <1>2, <2>2
<1>6. header = Padded(a) /\ Len(header) = l
  OBVIOUS
<1> HIDE DEF header, l
<1>7. SlotsInv'
  BY <1>1, <1>3, <1>5, <1>6, SlotsBegin
<1>8. /\ Holds(mem', start, header) /\ cursor' = start + l /\ args' = cursor'
      /\ slot # None => SlotSize = 4
  BY <1>1, <1>3, <1>5, <1>6, BeginMemory
<1>9. /\ stack' = Append(stack, e) /\ slot' = IF slot = None THEN 0 ELSE cursor
  BY <1>5 DEF BeginElement
<1>10. start \in Nat /\ cursor' \in Nat /\ cursor' - l = start
  BY <1>3, <1>4, <1>8
<1>11. slot' # 0 => slot' + 4 <= start
  BY <1>4, <1>8, <1>9
<1> HIDE DEF start, e
<1>12. Len(stack') = Len(stack) + 1 /\ stack'[Len(stack) + 1] = e
  BY <1>9, AppendIs DEF SlotsInv
<1>13. e.address = a /\ e.items = <<>> /\ e = [address |-> e.address, items |-> e.items]
  BY DEF e
<1>14. Written(mem', start, cursor', args', a, <<>>)
  BY <1>6, <1>8, <1>10, NothingWritten
<1>15. TagCount' = 0 /\ Len(<<>>) = 0
  BY <1>1, <1>4, EmptySeq DEF TagCount
<1> DEFINE w == stack'[Len(stack')]
<1>16. w = e
  BY <1>12
<1> HIDE DEF w
<1>17. /\ w = [address |-> w.address, items |-> w.items] /\ TagCount' = Len(w.items)
       /\ cursor' - Len(Padded(w.address)) = start
       /\ Written(mem', start, cursor', args', w.address, w.items)
  BY <1>6, <1>10, <1>13, <1>14, <1>15, <1>16
<1>18. MessageInv'
  BY <1>11, <1>17 DEF MessageInv, w
<1> QED
  BY <1>7, <1>18

LEMMA MessageAdd ==
  ASSUME StreamInv, SlotsInv, MessageInv, NEW x \in Item, Add(x.tag, x.value, Data(x))
  PROVE  MessageInv'
<1> DEFINE n == Len(stack)
           w == stack[n]
           v == [stack[n] EXCEPT !.items = Append(@, [tag |-> x.tag, value |-> x.value])]
           l == Len(Data(x))
           start == cursor - Len(Padded(w.address))
<1>1. l \in Nat /\ x = [tag |-> x.tag, value |-> x.value]
  BY DataIs
<1>2. /\ SameBelow(mem, mem', args) /\ Holds(mem', args, Data(x)) /\ mem'[tagsAt - 1] = x.tag
      /\ \A i \in tagsAt .. Capacity - 1 : mem'[i] = mem[i]
      /\ args + l < tagsAt /\ args' = args + l /\ tagsAt' = tagsAt - 1
  BY <1>1, AddMemory
<1>3. inMessage /\ UNCHANGED <<cursor, slot, inMessage>> /\ stack' = [stack EXCEPT ![n] = v]
  BY DEF Add
<1>4. /\ w = [address |-> w.address, items |-> w.items] /\ TagCount = Len(w.items)
      /\ Written(mem, start, cursor, args, w.address, w.items)
      /\ slot # 0 => slot + 4 <= start
  BY <1>3 DEF MessageInv
<1>5. /\ cursor \in Nat /\ args \in Nat /\ cursor <= args /\ tagsAt \in Nat /\ Capacity \in Nat /\ tagsAt <= Capacity
  BY StreamAssumption DEF StreamInv
<1> DEFINE all == Append(w.items, x)
<1>6. v = [address |-> w.address, items |-> all]
  <2>1. \A a, i : [[address |-> a, items |-> i] EXCEPT !.items = Append(@, x)] = [address |-> a, items |-> Append(i, x)]
    OBVIOUS
  <2>2. v = [w EXCEPT !.items = Append(@, x)]
    BY <1>1
  <2> HIDE DEF w, v
  <2> QED
    BY <1>4, <2>1, <2>2
<1>7. Len(stack') = n /\ stack'[n] = v
  <2>1. (\E S : stack \in Seq(S)) /\ stack # <<>>
    BY <1>3 DEF SlotsInv
  <2>2. n \in 1 .. n
    BY <2>1, LenProperties, EmptySeq
  <2> HIDE DEF v
  <2> QED
    BY <1>3, <2>1, <2>2, ExceptIs
<1>8. Capacity - Len(w.items) = tagsAt /\ w.items \in Seq(Item)
  BY <1>4, <1>5 DEF TagCount, Written
<1>9. Len(all) = Len(w.items) + 1
  BY <1>8, AppendProperties
<1> HIDE DEF w, v, l, start, n, all
<1>10. Written(mem', start, cursor, args + l, w.address, all)
  <2>1. /\ args + Len(Data(x)) < Capacity - Len(w.items)
        /\ SameBelow(mem, mem', args) /\ Holds(mem', args, Data(x)) /\ mem'[Capacity - Len(w.items) - 1] = x.tag
        /\ \A i \in Capacity - Len(w.items) .. Capacity - 1 : mem'[i] = mem[i]
    BY <1>2, <1>8 DEF l
  <2> QED
    BY <1>4, <1>5, <2>1, MoreWritten DEF l, all
<1>11. TagCount' = Len(all)
  <2>1. TagCount' = Capacity - (tagsAt - 1) /\ Len(w.items) = Capacity - tagsAt
    BY <1>2, <1>4 DEF TagCount
  <2> QED
    BY <1>5, <1>9, <2>1
<1> DEFINE u == stack'[Len(stack')]
<1>12. u = v
  BY <1>7
<1> HIDE DEF u
<1>13. /\ u = [address |-> u.address, items |-> u.items] /\ TagCount' = Len(u.items)
       /\ u.address = w.address
       /\ Written(mem', start, cursor', args', u.address, u.items)
  BY <1>2, <1>3, <1>6, <1>10, <1>11, <1>12
<1>14. cursor' - Len(Padded(u.address)) = start /\ (slot' # 0 => slot' + 4 <= start)
  BY <1>3, <1>4, <1>13 DEF start
<1> QED
  BY <1>13, <1>14 DEF MessageInv, u

\* The end of a message puts the tags where the arguments were and the arguments behind them.
LEMMA TaggedIs ==
  ASSUME StreamInv, inMessage, NEW items \in Seq(Item), TagCount = Len(items),
         \A i \in 1 .. Len(items) : mem[Capacity - i] = items[i].tag
  PROVE  LET tags == Padded(TagText(items)) IN
         /\ Len(tags) \in Nat /\ Len(tags) = RoundUp4(TagCount + 2) /\ args + Len(tags) <= Capacity
         /\ DOMAIN Tagged = 0 .. Capacity - 1 /\ SameBelow(mem, Tagged, cursor)
         /\ Holds(Tagged, cursor, tags)
         /\ \A i \in cursor .. args - 1 : Tagged[i + Len(tags)] = mem[i]
<1> DEFINE tags == Padded(TagText(items))
           r == Len(tags)
           n == Len(items)
           moved == Bytes(mem, cursor, args)
           g == Put(mem, cursor + r, moved)
           h == Put(g, cursor, tags)
<1>1. /\ cursor \in Nat /\ args \in Nat /\ cursor <= args /\ Capacity \in Nat
      /\ DOMAIN mem = 0 .. Capacity - 1 /\ args + RoundUp4(TagCount + 2) <= Capacity
  BY StreamAssumption DEF StreamInv, InBuffer, Size
<1>2. /\ n \in Nat /\ TagText(items) \in Seq(1..255) /\ Len(TagText(items)) = n + 1
      /\ DOMAIN items = 1 .. n
  BY TagsAre
<1>3. r = RoundUp4(TagCount + 2) /\ r \in Nat
  <2>1. n + 1 + 1 = n + 2 /\ n + 2 \in Nat
    BY <1>2
  <2>2. r = RoundUp4(Len(TagText(items)) + 1)
    BY <1>2, PaddedIs
  <2>3. r = RoundUp4(n + 2)
    BY <1>2, <2>1, <2>2
  <2>4. RoundUp4(n + 2) \in Nat
    BY <2>1, RoundUp4Is
  <2> QED
    BY <2>3, <2>4
<1>4. TagString(mem) = tags
  <2>1. [i \in 1 .. TagCount |-> mem[Capacity - i]] = TagsIn(items)
    BY <1>2 DEF TagsIn
  <2> QED
    BY <2>1 DEF TagString, TagText
<1>5. Tagged = h
  BY <1>3, <1>4 DEF Tagged, Moved
<1>6. Len(moved) = args - cursor /\ \A j \in 1 .. args - cursor : moved[j] = mem[cursor + j - 1]
  BY <1>1 DEF Bytes
<1> HIDE DEF n, moved
<1>7. args - cursor \in Nat /\ args + r <= Capacity
  BY <1>1, <1>3
<1>8. r = Len(tags)
  OBVIOUS
<1> HIDE DEF tags, r
<1>9. /\ DOMAIN g = 0 .. Capacity - 1
      /\ \A i \in 0 .. Capacity - 1 : i \in cursor + r .. cursor + r + Len(moved) - 1 => g[i] = moved[i - (cursor + r) + 1]
      /\ \A i \in 0 .. Capacity - 1 : i \notin cursor + r .. cursor + r + Len(moved) - 1 => g[i] = mem[i]
  <2> DEFINE at == cursor + r
  <2>1. at \in Int /\ Len(moved) \in Nat
    BY <1>1, <1>3, <1>6, <1>7
  <2>2. g = Put(mem, at, moved)
    OBVIOUS
  <2> HIDE DEF at, g
  <2>3. /\ DOMAIN Put(mem, at, moved) = DOMAIN mem
        /\ \A i \in DOMAIN mem : i \in at .. at + Len(moved) - 1 => Put(mem, at, moved)[i] = moved[i - at + 1]
        /\ \A i \in DOMAIN mem : i \notin at .. at + Len(moved) - 1 => Put(mem, at, moved)[i] = mem[i]
    BY <2>1, PutIs
  <2> QED
    BY <1>1, <2>2, <2>3 DEF at
<1> HIDE DEF g
<1>10. /\ DOMAIN h = 0 .. Capacity - 1 /\ Holds(h, cursor, tags)
       /\ \A i \in 0 .. Capacity - 1 : i \notin cursor .. cursor + r - 1 => h[i] = g[i]
  <2>1. cursor \in Int /\ Len(tags) \in Nat
    BY <1>1, <1>3, <1>8
  <2>2. cursor .. cursor + Len(tags) - 1 \subseteq DOMAIN g
    BY <1>1, <1>3, <1>7, <1>8, <1>9
  <2>3. Holds(h, cursor, tags)
    BY <2>1, <2>2, PutHolds
  <2>4. /\ DOMAIN h = DOMAIN g
        /\ \A i \in DOMAIN g : i \notin cursor .. cursor + Len(tags) - 1 => h[i] = g[i]
    BY <2>1, PutIs
  <2> QED
    BY <1>8, <1>9, <2>3, <2>4
<1> HIDE DEF h
<1>11. SameBelow(mem, h, cursor)
  <2> SUFFICES ASSUME NEW i \in 0 .. cursor - 1 PROVE h[i] = mem[i]
    BY DEF SameBelow
  <2>1. i \in 0 .. Capacity - 1 /\ i \notin cursor .. cursor + r - 1
    BY <1>1, <1>3, <1>7
  <2>2. i \notin cursor + r .. cursor + r + Len(moved) - 1
    BY <1>1, <1>3
  <2> QED
    BY <1>9, <1>10, <2>1, <2>2
<1>12. ASSUME NEW i \in cursor .. args - 1 PROVE h[i + r] = mem[i]
  <2>0. /\ cursor \in Nat /\ args \in Nat /\ r \in Nat /\ Capacity \in Nat
        /\ args + r <= Capacity
    BY <1>1, <1>3, <1>7
  <2>1. i + r \in 0 .. Capacity - 1 /\ i + r \notin cursor .. cursor + r - 1
    BY <2>0
  <2>2. i + r \in cursor + r .. cursor + r + Len(moved) - 1
    <3>1. cursor + r + (args - cursor) - 1 = args + r - 1
      BY <2>0
    <3>2. i + r \in cursor + r .. args + r - 1
      BY <2>0
    <3> QED
      BY <1>6, <3>1, <3>2
  <2>3. (i + r) - (cursor + r) + 1 = i - cursor + 1 /\ i - cursor + 1 \in 1 .. args - cursor
        /\ cursor + (i - cursor + 1) - 1 = i
    BY <2>0
  <2>4. h[i + r] = moved[i - cursor + 1]
    BY <1>9, <1>10, <2>1, <2>2, <2>3
  <2>5. moved[i - cursor + 1] = mem[i]
    <3> DEFINE j == i - cursor + 1
    <3>1. j \in 1 .. args - cursor /\ cursor + j - 1 = i
      BY <2>3
    <3> HIDE DEF j
    <3>2. moved[j] = mem[cursor + j - 1]
      BY <1>6, <3>1
    <3>3. moved[j] = mem[i]
      BY <3>1, <3>2
    <3> QED
      BY <3>3 DEF j
  <2> QED
    BY <2>4, <2>5
<1>13. /\ Len(tags) \in Nat /\ Len(tags) = RoundUp4(TagCount + 2) /\ args + Len(tags) <= Capacity
       /\ DOMAIN Tagged = 0 .. Capacity - 1 /\ SameBelow(mem, Tagged, cursor)
       /\ Holds(Tagged, cursor, tags)
       /\ \A i \in cursor .. args - 1 : Tagged[i + Len(tags)] = mem[i]
  BY <1>3, <1>5, <1>7, <1>8, <1>10, <1>11, <1>12
<1> QED
  BY <1>13 DEF tags

LEMMA SlotInMessage ==
  ASSUME SlotsInv, inMessage
  PROVE  slot # None
<1>1. slots \in Seq(Nat) /\ stack # <<>> /\ Len(slots) = Len(stack) /\ (\E S : stack \in Seq(S)) /\ SlotsNest
  BY DEF SlotsInv, Chain
<1>2. Len(stack) \in Nat /\ Len(stack) # 0
  BY <1>1, LenProperties, EmptySeq
<1>3. slots # <<>> /\ Len(slots) \in 1 .. Len(slots)
  <2>1. Len(slots) \in Nat /\ Len(slots) # 0
    BY <1>1, <1>2
  <2> QED
    BY <2>1, EmptySeq
<1>4. slot = slots[Len(slots)] /\ slots[Len(slots)] \in Nat
  BY <1>1, <1>3, ElementOfSeq DEF SlotsNest
<1> QED
  BY <1>4 DEF None

\* What the end of a message leaves, in terms of the message that was open.
LEMMA MessageEnd ==
  ASSUME StreamInv, SlotsInv, MessageInv, EndMessage
  PROVE  LET w == stack[Len(stack)]
             start == cursor - Len(Padded(w.address)) IN
         /\ SlotsInv'
         /\ MessageInit(mem', start, cursor') /\ Text(mem', start) = w.address
         /\ Arguments(mem', start, cursor') = w.items
<1> DEFINE w == stack[Len(stack)]
           a == w.address
           items == w.items
           head == Padded(a)
           start == cursor - Len(head)
           tags == Padded(TagText(items))
           r == Len(tags)
           end == args + RoundUp4(TagCount + 2)
           h == mem'
<1>1. /\ inMessage /\ OpenArrays = 0 /\ EndElement(Tagged, end) /\ args' = end /\ inMessage' = FALSE
  BY DEF EndMessage
<1>2. /\ TagCount = Len(items) /\ Written(mem, start, cursor, args, a, items)
      /\ slot # 0 => slot + 4 <= start
  BY <1>1 DEF MessageInv
<1>3. /\ items \in Seq(Item) /\ a \in Addresses /\ start \in Nat /\ Holds(mem, start, head)
      /\ cursor = start + Len(head) /\ (args - cursor) % 4 = 0
      /\ \E at : Laid(at, mem, items, cursor, args)
      /\ \A i \in 1 .. Len(items) : mem[Capacity - i] = items[i].tag
  BY <1>2 DEF Written
<1>4. /\ cursor \in Nat /\ args \in Nat /\ cursor <= args /\ Capacity \in Nat
      /\ DOMAIN mem = 0 .. Capacity - 1
  BY StreamAssumption DEF StreamInv
<1>5. a \in Seq(1..255) /\ Len(head) \in Nat /\ Len(head) > 0 /\ Len(head) % 4 = 0
  BY <1>3, StreamAssumption, HeadersAre, PaddedIs
<1> HIDE DEF w
<1>6. /\ r \in Nat /\ r = RoundUp4(TagCount + 2) /\ args + r <= Capacity /\ r % 4 = 0
      /\ DOMAIN Tagged = 0 .. Capacity - 1 /\ SameBelow(mem, Tagged, cursor)
      /\ Holds(Tagged, cursor, tags)
      /\ \A i \in cursor .. args - 1 : Tagged[i + r] = mem[i]
  <2>1. /\ r \in Nat /\ r = RoundUp4(TagCount + 2) /\ args + r <= Capacity
        /\ DOMAIN Tagged = 0 .. Capacity - 1 /\ SameBelow(mem, Tagged, cursor)
        /\ Holds(Tagged, cursor, tags)
        /\ \A i \in cursor .. args - 1 : Tagged[i + r] = mem[i]
    BY <1>1, <1>2, <1>3, TaggedIs
  <2>2. TagCount + 2 \in Nat
    BY <1>2, <1>3, LenProperties
  <2>3. r % 4 = 0
    BY <2>1, <2>2, RoundUp4Is
  <2> QED
    BY <2>1, <2>3
<1>7. end = args + r /\ end \in Nat /\ cursor <= end /\ cursor' = end
  BY <1>1, <1>4, <1>6 DEF EndElement
<1>8. slot # None /\ slot \in Nat
  BY <1>1, SlotInMessage, SlotIs
<1>9. SlotsInv'
  BY <1>1, <1>4, <1>6, <1>7, <1>8, SlotsEnd
<1>10. \A i \in start .. Capacity - 1 : h[i] = Tagged[i]
  <2>1. CASE slot = 0
    BY <1>1, <2>1 DEF EndElement
  <2>2. CASE slot # 0
    <3> DEFINE d == Int32(end - slot - 4)
    <3>1. Len(d) = 4 /\ h = Put(Tagged, slot, d) /\ Len(d) \in Nat
      BY <1>1, <2>2 DEF EndElement, Int32
    <3> HIDE DEF d, h
    <3>2. \A i \in DOMAIN Tagged : i \notin slot .. slot + Len(d) - 1 => Put(Tagged, slot, d)[i] = Tagged[i]
      <4> DEFINE g == Tagged
                 at == slot
      <4>1. at \in Int /\ Len(d) \in Nat
        BY <1>8, <3>1
      <4> HIDE DEF g, at
      <4>2. \A i \in DOMAIN g : i \notin at .. at + Len(d) - 1 => Put(g, at, d)[i] = g[i]
        BY <4>1, PutIs
      <4> QED
        BY <4>2 DEF g, at
    <3>3. \A i \in start .. Capacity - 1 : i \in DOMAIN Tagged /\ i \notin slot .. slot + Len(d) - 1
      BY <1>2, <1>3, <1>4, <1>6, <1>8, <2>2, <3>1
    <3> QED
      BY <3>1, <3>2, <3>3
  <2> QED
    BY <2>1, <2>2
<1>11. items = w.items /\ a = w.address /\ head = Padded(a) /\ tags = Padded(TagText(items)) /\ r = Len(tags)
  OBVIOUS
<1> HIDE DEF h, items, a, head, tags, end, start, r
<1>18. /\ start \in Nat /\ cursor \in Nat /\ args \in Nat /\ Capacity \in Nat /\ Len(head) \in Nat /\ r \in Nat
       /\ Len(head) > 0 /\ cursor = start + Len(head) /\ cursor <= args /\ args + r <= Capacity
       /\ end = args + r /\ Len(tags) = r
  BY <1>3, <1>4, <1>5, <1>6, <1>7, <1>11
<1>12. Holds(h, start, head)
  <2>1. \A i \in start .. start + Len(head) - 1 : h[i] = mem[i]
    <3> TAKE i \in start .. start + Len(head) - 1
    <3>1. i \in start .. Capacity - 1 /\ i \in 0 .. cursor - 1
      BY <1>18
    <3> QED
      BY <1>6, <1>10, <3>1 DEF SameBelow
  <2> QED
    BY <1>3, <1>5, <2>1, HoldsStill
<1>13. Holds(h, cursor, tags)
  <2>1. \A i \in cursor .. cursor + Len(tags) - 1 : h[i] = Tagged[i]
    <3> TAKE i \in cursor .. cursor + Len(tags) - 1
    <3>1. i \in start .. Capacity - 1
      BY <1>18
    <3> QED
      BY <1>10, <3>1
  <2> QED
    BY <1>4, <1>6, <1>11, <2>1, HoldsStill
<1>14. \E at : Laid(at, h, items, cursor + r, end)
  <2>1. PICK at : Laid(at, mem, items, cursor, args)
    BY <1>3
  <2>2. \A i \in cursor .. args - 1 : h[i + r] = mem[i]
    <3> TAKE i \in cursor .. args - 1
    <3>1. i + r \in start .. Capacity - 1
      BY <1>18
    <3> QED
      BY <1>6, <1>10, <3>1
  <2>3. \E to : Laid(to, h, items, cursor + r, args + r)
    <3>1. items \in Seq(Item) /\ cursor \in Nat /\ args \in Nat /\ r \in Nat
      BY <1>3, <1>18
    <3> QED
      BY <2>1, <2>2, <3>1, LaidMoves
  <2> QED
    BY <1>7, <2>3
<1>15. (end - start) % 4 = 0
  <2> DEFINE x == args - cursor
             y == Len(head)
             xy == x + y
  <2>1. x \in Int /\ x % 4 = 0 /\ y \in Int /\ y % 4 = 0 /\ end - start = (x + y) + r
    <3>1. x \in Int /\ y \in Int /\ end - start = (x + y) + r
      BY <1>18
    <3> QED
      BY <1>3, <1>5, <3>1
  <2> HIDE DEF x, y
  <2>2. xy \in Int /\ xy % 4 = 0
    BY <2>1, FoursAdd
  <2> HIDE DEF xy
  <2>3. (xy + r) % 4 = 0
    <3>1. r \in Int /\ r % 4 = 0
      BY <1>6
    <3> QED
      BY <2>2, <3>1, FoursAdd
  <2> QED
    BY <2>1, <2>3 DEF xy
<1>16. MarksOf(items, ArrayBegin) = MarksOf(items, ArrayEnd)
  <2>1. OpenArrays = MarksOf(items, ArrayBegin) - MarksOf(items, ArrayEnd)
    BY <1>11 DEF OpenArrays, Count, MarksOf, w
  <2>2. \A g : MarksOf(items, g) \in Nat
    <3> TAKE g
    <3>1. DOMAIN items = 1 .. Len(items) /\ Len(items) \in Nat
      BY <1>3, LenProperties
    <3>2. IsFiniteSet(1 .. Len(items))
      BY <3>1, FS_Interval
    <3> DEFINE T == {i \in DOMAIN items : items[i].tag = g}
    <3>3. T \subseteq 1 .. Len(items)
      BY <3>1
    <3>4. IsFiniteSet(T)
      BY <3>2, <3>3, FS_Subset
    <3>5. Cardinality(T) \in Nat
      BY <3>4, FS_CardinalityType
    <3> QED
      BY <3>5 DEF MarksOf
  <2>3. MarksOf(items, ArrayBegin) \in Nat /\ MarksOf(items, ArrayEnd) \in Nat
    BY <2>2
  <2> QED
    BY <1>1, <2>1, <2>3
<1>17. MessageInit(h, start, end) /\ Text(h, start) = a /\ Arguments(h, start, end) = items
  <2> DEFINE q == cursor + r
  <2>1. /\ start \in Nat /\ a \in Seq(1..255) /\ items \in Seq(Item) /\ cursor \in Nat /\ q \in Nat /\ end \in Nat
        /\ end <= Capacity /\ q <= end
    <3>1. /\ start \in Nat /\ cursor \in Nat /\ q \in Nat /\ end \in Nat /\ end <= Capacity /\ q <= end
      BY <1>18
    <3> QED
      BY <1>3, <1>5, <3>1
  <2>2. /\ Holds(h, start, Padded(a)) /\ cursor = start + Len(Padded(a))
        /\ Holds(h, cursor, Padded(TagText(items))) /\ q = cursor + Len(Padded(TagText(items)))
        /\ \E at : Laid(at, h, items, q, end)
    BY <1>3, <1>11, <1>12, <1>13, <1>14
  <2> HIDE DEF q
  <2> QED
    BY <1>15, <1>16, <2>1, <2>2, MessageIsRead
<1> QED
  BY <1>7, <1>9, <1>17 DEF w, a, items, head, start, h

PacketInv == StreamInv /\ SlotsInv /\ MessageInv

LEMMA PacketStep == PacketInv /\ [StreamNext]_streamVars => PacketInv'
<1> SUFFICES ASSUME PacketInv, [StreamNext]_streamVars PROVE PacketInv'
  OBVIOUS
<1>0. StreamInv /\ SlotsInv /\ MessageInv /\ StreamInv'
  BY StreamStep DEF PacketInv
<1>1. CASE BeginBundle
  <2> DEFINE header == BundleTag \o Int64(1)
  <2>1. /\ ~inMessage /\ inMessage' = inMessage
        /\ Size + SlotSize + 16 <= Capacity /\ BeginElement(BundleTag, header) /\ Len(header) = 16
    BY <1>1, HeadersAre DEF BeginBundle
  <2> HIDE DEF header
  <2>2. Len(header) \in Nat /\ Len(header) > 0 /\ Size + SlotSize + Len(header) <= Capacity
    BY <2>1
  <2>3. SlotsInv'
    BY <1>0, <2>1, <2>2, SlotsBegin
  <2> QED
    BY <1>0, <2>1, <2>3 DEF PacketInv, MessageInv
<1>2. CASE EndBundle
  <2>1. /\ slot # None /\ ~inMessage /\ inMessage' = inMessage /\ EndElement(mem, cursor)
    BY <1>2 DEF EndBundle
  <2>2. cursor \in Nat /\ cursor <= cursor /\ SameBelow(mem, mem, cursor)
    BY <1>0 DEF StreamInv, SameBelow
  <2>3. SlotsInv'
    BY <1>0, <2>1, <2>2, SlotsEnd
  <2> QED
    BY <1>0, <2>1, <2>3 DEF PacketInv, MessageInv
<1>3. CASE BeginMessage
  BY <1>0, <1>3, MessageBegin DEF PacketInv
<1>4. CASE EndMessage
  <2>1. SlotsInv' /\ ~inMessage'
    BY <1>0, <1>4, MessageEnd DEF EndMessage
  <2> QED
    BY <1>0, <2>1 DEF PacketInv, MessageInv
<1>5. CASE Clear
  <2>1. /\ slots' = <<>> /\ stack' = <<>> /\ slot' = None /\ ~inMessage'
    BY <1>5 DEF Clear
  <2> DEFINE none == <<>>
  <2>2. none \in Seq(Nat) /\ Len(none) = 0 /\ none \in Seq({})
    BY EmptySeq
  <2>3. slots' = none /\ none = <<>>
    BY <2>1
  <2> HIDE DEF none
  <2>4. \A k : k \notin 2 .. Len(none)
    BY <2>2
  <2>5. Chain(mem', slots', cursor')
    BY <2>2, <2>3, <2>4 DEF Chain
  <2>6. SlotsInv'
    BY <2>1, <2>2, <2>3, <2>5 DEF SlotsInv, SlotsNest
  <2> QED
    BY <1>0, <2>1, <2>6 DEF PacketInv, MessageInv
<1>6. CASE AddFlag \/ AddWord \/ AddLong \/ AddText \/ AddBlob \/ AddArrayMark
  <2>1. PICK x \in Item : Add(x.tag, x.value, Data(x))
    BY <1>6, Additions
  <2>2. Len(Data(x)) \in Nat
    BY DataIs
  <2>3. SlotsInv'
    BY <1>0, <2>1, <2>2, SlotsAdd
  <2>4. MessageInv'
    BY <1>0, <2>1, MessageAdd
  <2> QED
    BY <1>0, <2>3, <2>4 DEF PacketInv
<1>7. CASE UNCHANGED streamVars
  <2>1. SlotsInv'
    BY <1>0, <1>7 DEF streamVars, SlotsInv, SlotsNest
  <2>2. MessageInv'
    BY <1>0, <1>7 DEF streamVars, MessageInv, TagCount
  <2> QED
    BY <1>0, <2>1, <2>2 DEF PacketInv
<1> QED
  BY <1>1, <1>2, <1>3, <1>4, <1>5, <1>6, <1>7 DEF StreamNext

\* The packet with its open elements, their slots, and the message that is open.
THEOREM PacketInvAlways == StreamSpec => []PacketInv
<1>1. StreamInit => PacketInv
  <2> SUFFICES ASSUME StreamInit PROVE PacketInv
    OBVIOUS
  <2>1. StreamInv
    BY StreamInitially
  <2>2. /\ slots = <<>> /\ stack = <<>> /\ slot = None /\ inMessage = FALSE
    BY DEF StreamInit
  <2> DEFINE none == <<>>
  <2>3. none \in Seq(Nat) /\ Len(none) = 0 /\ none \in Seq({}) /\ slots = none /\ none = <<>>
    BY <2>2, EmptySeq
  <2> HIDE DEF none
  <2>4. \A k : k \notin 2 .. Len(none)
    BY <2>3
  <2>5. Chain(mem, slots, cursor)
    BY <2>3, <2>4 DEF Chain
  <2>6. SlotsInv
    BY <2>2, <2>3, <2>5 DEF SlotsInv, SlotsNest
  <2> QED
    BY <2>1, <2>2, <2>6 DEF PacketInv, MessageInv
<1> QED
  BY <1>1, PacketStep, PTL DEF StreamSpec

\* However elements nest and end, the pointer comes back to the slot of the innermost one
\* that is open: no size overwrites a way back before it is taken.
THEOREM SlotsNestAlways == StreamSpec => []SlotsNest
<1>1. PacketInv => SlotsNest
  BY DEF PacketInv, SlotsInv
<1> QED
  BY <1>1, PacketInvAlways, PTL

\* What is read of a message that has just ended is what was written: its address, its tags
\* and its arguments, for any buffer, any addresses and any arguments.
THEOREM MessageReadAlways == StreamSpec => MessageRead
<1> DEFINE Read ==
      LET written == stack[Len(stack)]
          start == cursor - Len(Padded(written.address)) IN
      /\ MessageInit(mem', start, cursor')
      /\ Text(mem', start) = written.address
      /\ Arguments(mem', start, cursor') = written.items
<1>1. ASSUME PacketInv, StreamNext, MessageEnds PROVE EndMessage
  <2>1. inMessage /\ ~inMessage' /\ cursor' # 0
    BY <1>1 DEF MessageEnds
  <2> QED
    BY <1>1, <2>1 DEF StreamNext, BeginBundle, EndBundle, BeginMessage, Clear, AddFlag, AddWord, AddLong,
                      AddText, AddBlob, AddArrayMark, Add
<1>2. PacketInv /\ [StreamNext]_streamVars => [MessageEnds => Read]_streamVars
  <2> SUFFICES ASSUME PacketInv, StreamNext, MessageEnds PROVE Read
    OBVIOUS
  <2>1. EndMessage
    BY <1>1
  <2> QED
    BY <2>1, MessageEnd DEF PacketInv
<1> HIDE DEF Read
<1>3. StreamSpec => [][MessageEnds => Read]_streamVars
  BY <1>2, PacketInvAlways, PTL DEF StreamSpec
<1> QED
  BY <1>3 DEF MessageRead, Read

-----------------------------------------------------------------------------
(***************************************************************************)
(* The multiplexer.                                                        *)
(***************************************************************************)
Label == {"idle", "start", "top", "select", "selected", "sockets", "timers"}
PortType ==
  /\ port \in {"posix", "win32"} /\ pc \in Label
  /\ sockets \in Seq(Socket) /\ inbox \in [Socket -> Seq({"empty", "full"})]
  /\ break \in BOOLEAN /\ bytes \in Nat /\ caller \in {"none", "half"}
\* A pass reads what it has found, and on POSIX only what has a datagram: it never blocks.
Reading ==
  /\ tempfds \subseteq ToSet(sockets)
  /\ pc \notin {"selected", "sockets"} => tempfds = {}
  /\ port = "posix" => \A s \in tempfds : inbox[s] # <<>>
\* On Windows a socket with a datagram has set its event since it was read last, and an event
\* that was set is still set or its socket is to be read.
Events ==
  port = "win32" /\ Running =>
    /\ event \subseteq ToSet(sockets)
    /\ \A s \in ToSet(sockets) : inbox[s] # <<>> => s \in posted
    /\ ~break => posted \cap ToSet(sockets) \subseteq event \cup tempfds
PortInv == PortType /\ Reading /\ Events /\ NoLostWakeup

LEMMA Sockets ==
  ASSUME PortType
  PROVE  ToSet(sockets) \subseteq Socket /\ DOMAIN sockets = 1 .. Len(sockets) /\ Len(sockets) \in Nat
  BY DEF PortType, ToSet

LEMMA FirstIs ==
  ASSUME PortType, NEW set, set # {}, set \subseteq ToSet(sockets)
  PROVE  FirstOf(set) \in DOMAIN sockets /\ sockets[FirstOf(set)] \in set
<1> DEFINE S == {i \in DOMAIN sockets : sockets[i] \in set}
<1>1. S # {} /\ S \subseteq Nat
  BY Sockets DEF ToSet
<1>2. PICK i \in S : \A j \in S : i <= j
  <2> HIDE DEF S
  <2> QED
    BY <1>1, LeastNatural
<1>3. \A j \in 1 .. i - 1 : sockets[j] \notin set
  <2> SUFFICES ASSUME NEW j \in 1 .. i - 1, sockets[j] \in set PROVE FALSE
    OBVIOUS
  <2>1. i \in 1 .. Len(sockets) /\ Len(sockets) \in Nat
    BY Sockets
  <2>2. j \in 1 .. Len(sockets) /\ ~(i <= j)
    BY <2>1
  <2>3. j \in S
    BY <2>2, Sockets
  <2> QED
    BY <1>2, <2>2, <2>3
<1> QED
  BY <1>2, <1>3 DEF FirstOf

\* A step of the loop that reads nothing: it goes on, or a break ends the pass, or the loop ends.
LEMMA LoopGoesOn ==
  ASSUME PortInv, Running, UNCHANGED <<sockets, inbox, port, event, posted, bytes, caller>>,
         break' \in BOOLEAN, break => break', pc' \in Label, pc' = "select" => ~break',
         \/ pc' = "idle" /\ tempfds' = {}
         \/ pc' \notin {"idle", "start"} /\ tempfds' = tempfds
            /\ (tempfds = {} \/ pc' \in {"selected", "sockets"})
         \/ pc' \notin {"idle", "start"} /\ tempfds' = {} /\ break'
  PROVE  PortInv'
<1>1. PortType'
  BY DEF PortInv, PortType
<1>2. Reading'
  BY DEF PortInv, Reading, ToSet
<1>3. Events'
  <2>1. CASE pc' = "idle"
    BY <2>1 DEF Events, Running
  <2>2. CASE pc' # "idle"
    <3>1. Events /\ (break' \/ (~break /\ tempfds' = tempfds))
      BY <2>2 DEF PortInv
    <3> QED
      BY <3>1 DEF Events, ToSet, Running
  <2> QED
    BY <2>1, <2>2
<1>4. NoLostWakeup'
  BY DEF NoLostWakeup
<1> QED
  BY <1>1, <1>2, <1>3, <1>4 DEF PortInv

LEMMA PortStep == PortInv /\ [PortNext]_allVars => PortInv'
<1> SUFFICES ASSUME PortInv, [PortNext]_allVars PROVE PortInv'
  OBVIOUS
<1> USE DEF Label
<1>1. CASE Configure /\ NoEvent
  <2>1. /\ pc = "idle" /\ tempfds = {}
        /\ UNCHANGED <<pc, tempfds, break, bytes, caller, inbox, port>>
    BY <1>1 DEF Configure, NoEvent, portVars, loopVars, breakVars, PortInv, Reading
  <2>2. sockets' \in Seq(Socket)
    <3>1. ASSUME NEW s \in Socket, AttachSocketListener(s) PROVE sockets' \in Seq(Socket)
      BY <3>1 DEF AttachSocketListener, PortInv, PortType
    <3>2. ASSUME NEW s \in Socket, DetachSocketListener(s) PROVE sockets' \in Seq(Socket)
      <4>1. PICK i \in DOMAIN sockets : sockets' = RemoveAt(sockets, i)
        BY <3>2 DEF DetachSocketListener
      <4>2. sockets \in Seq(Socket) /\ DOMAIN sockets = 1 .. Len(sockets) /\ Len(sockets) \in Nat
        BY DEF PortInv, PortType
      <4>3. SubSeq(sockets, 1, i - 1) \in Seq(Socket) /\ SubSeq(sockets, i + 1, Len(sockets)) \in Seq(Socket)
        BY <4>2, SubSeqProperties
      <4> QED
        BY <4>1, <4>3 DEF RemoveAt
    <3> QED
      BY <1>1, <3>1, <3>2 DEF Configure, AttachPeriodicTimerListener, DetachPeriodicTimerListener,
                              PortInv, PortType
  <2> QED
    BY <2>1, <2>2 DEF PortInv, PortType, Reading, Events, NoLostWakeup, Running
<1>2. CASE (CallRun \/ RunUntilSigInt \/ Tick) /\ NoEvent
  BY <1>2 DEF CallRun, RunUntilSigInt, RunCalled, Tick, NoEvent, portVars, breakVars, listenerVars,
              sigVars, PortInv, PortType, Reading, Events, NoLostWakeup, Running, ToSet
<1>3. CASE (Top \/ Interrupted \/ SelectFails \/ Selected \/ SocketsServed \/ TimersServed) /\ NoEvent
  <2>1. /\ Running /\ UNCHANGED <<sockets, inbox, port, event, posted, bytes, caller, break>>
        /\ pc' \in Label /\ (pc' = "select" => ~break)
        /\ \/ pc' = "idle" /\ tempfds' = {}
           \/ pc' \notin {"idle", "start"} /\ tempfds' = tempfds
              /\ (tempfds = {} \/ pc' \in {"selected", "sockets"})
    BY <1>3 DEF Top, Interrupted, SelectFails, Selected, SocketsServed, TimersServed, ToTimers,
                Returns, Throws, Over, NoEvent, portVars, breakVars, listenerVars, PortInv, Reading,
                Running
  <2>2. break \in BOOLEAN
    BY DEF PortInv, PortType
  <2> QED
    BY <2>1, <2>2, LoopGoesOn
<1>4. CASE ServeTimer /\ NoEvent
  <2>1. /\ pc = "timers" /\ UNCHANGED <<sockets, inbox, port, event, posted, bytes, caller>>
        /\ break' = break \/ break' = TRUE
        /\ \/ pc' = "idle" /\ tempfds' = {}
           \/ pc' \in {"timers", "top"} /\ tempfds' = tempfds
    BY <1>4 DEF ServeTimer, Listener, Throws, Over, NoEvent, portVars, listenerVars
  <2>2. break \in BOOLEAN /\ Running /\ tempfds = {}
    BY <2>1 DEF PortInv, PortType, Reading, Running
  <2> QED
    BY <2>1, <2>2, LoopGoesOn
<1>5. CASE port = "posix" /\ Start /\ NoEvent
  BY <1>5 DEF Start,
              NoEvent, portVars, breakVars, listenerVars,
              sigVars, PortInv, PortType, Reading, Events, NoLostWakeup, Running, ToSet
<1>6. CASE port = "posix" /\ Select /\ NoEvent
  BY <1>6 DEF Select, Readable,
              NoEvent, portVars, breakVars, listenerVars,
              sigVars, PortInv, PortType, Reading, Events, NoLostWakeup, Running, ToSet
<1>7. CASE port = "posix" /\ (Break \/ InterruptSignalHandler) /\ NoEvent
  <2>1. /\ UNCHANGED <<pc, tempfds, sockets, inbox, port, event, posted>>
        /\ \/ break' = TRUE /\ caller' = "half" /\ bytes' = bytes
           \/ caller' = "none" /\ bytes' = bytes + 1 /\ break' = break
           \/ break' = TRUE /\ bytes' = bytes + 1 /\ caller' = caller
    BY <1>7 DEF Break, AsynchronousBreak, SetBreak, WriteByte, InterruptSignalHandler, NoEvent,
                portVars, listenerVars, loopVars
  <2>2. PortType'
    <3>1. break \in BOOLEAN /\ bytes \in Nat /\ caller \in {"none", "half"}
      BY DEF PortInv, PortType
    <3>2. break' \in BOOLEAN
      BY <2>1, <3>1
    <3>3. bytes' \in Nat /\ caller' \in {"none", "half"}
      BY <2>1, <3>1
    <3> QED
      BY <2>1, <3>2, <3>3 DEF PortInv, PortType
  <2>3. Reading' /\ NoLostWakeup'
    BY <2>1 DEF PortInv, PortType, Reading, NoLostWakeup, ToSet
  <2> QED
    BY <1>7, <2>1, <2>2, <2>3 DEF PortInv, Events
<1>8. CASE Arrive /\ UNCHANGED port /\ (port = "posix" \/ WinArrive)
  <2>1. PICK s \in Socket, d \in {"empty", "full"} : inbox' = [inbox EXCEPT ![s] = Append(@, d)]
    BY <1>8 DEF Arrive
  <2>2. UNCHANGED <<pc, tempfds, sockets, break, bytes, caller, port>>
    BY <1>8 DEF Arrive, loopVars, listenerVars, breakVars
  <2>3. inbox[s] \in Seq({"empty", "full"}) /\ Append(inbox[s], d) \in Seq({"empty", "full"})
    BY DEF PortInv, PortType
  <2>4. Append(inbox[s], d) # <<>> /\ Append(inbox[s], d) # inbox[s]
    <3>1. Len(Append(inbox[s], d)) = Len(inbox[s]) + 1 /\ Len(inbox[s]) \in Nat
      BY <2>3
    <3> QED
      BY <3>1, <2>3
  <2>5. PortType' /\ NoLostWakeup'
    BY <2>1, <2>2, <2>3 DEF PortInv, PortType, NoLostWakeup
  <2>6. \A r \in Socket : /\ inbox'[r] = IF r = s THEN Append(inbox[s], d) ELSE inbox[r]
    BY <2>1 DEF PortInv, PortType
  <2>7. Reading'
    BY <2>2, <2>4, <2>6, Sockets DEF PortInv, Reading, ToSet
  <2>8. Events'
    <3> SUFFICES ASSUME port = "win32", Running PROVE Events'
      BY <2>2 DEF Events, Running
    <3> DEFINE new == {r \in ToSet(sockets) \ posted : inbox'[r] # inbox[r]}
    <3>1. event' = event \cup new /\ posted' = posted \cup new
      BY <1>8 DEF WinArrive
    <3>2. \A r \in ToSet(sockets) : inbox'[r] # <<>> => r \in posted \/ r \in new
      BY <2>4, <2>6, Sockets DEF PortInv, Events
    <3>3. new \subseteq ToSet(sockets)
      OBVIOUS
    <3> HIDE DEF new
    <3>4. ToSet(sockets)' = ToSet(sockets)
      BY <2>2 DEF ToSet
    <3> QED
      BY <2>2, <3>1, <3>2, <3>3, <3>4 DEF PortInv, Events, Running
  <2> QED
    BY <2>5, <2>7, <2>8 DEF PortInv
<1>9. CASE port = "posix" /\ ServeSocket /\ NoEvent
  <2> DEFINE s == sockets[FirstOf(tempfds)]
  <2>1. s \in tempfds /\ s \in Socket /\ inbox[s] # <<>> /\ pc = "sockets"
    <3>1. tempfds # {} /\ tempfds \subseteq ToSet(sockets) /\ pc = "sockets"
      BY <1>9 DEF ServeSocket, PortInv, Reading
    <3>2. s \in tempfds
      BY <3>1, FirstIs DEF PortInv
    <3> QED
      BY <1>9, <3>1, <3>2, Sockets DEF PortInv, Reading
  <2>2. /\ UNCHANGED <<sockets, bytes, caller, port, event, posted>>
        /\ inbox' = [inbox EXCEPT ![s] = Tail(@)]
    BY <1>9 DEF ServeSocket, NoEvent, portVars, listenerVars
  <2>3. /\ break' = break \/ break' = TRUE
        /\ \/ tempfds' = tempfds \ {s} /\ pc' = pc
           \/ tempfds' = {} /\ pc' \in {"timers", "idle"}
    BY <1>9 DEF ServeSocket, Listener, ToTimers, Throws, Over
  <2> HIDE DEF s
  <2>4. inbox[s] \in Seq({"empty", "full"})
    BY <2>1 DEF PortInv, PortType
  <2>5. Tail(inbox[s]) \in Seq({"empty", "full"})
    BY <2>1, <2>4, HeadTailProperties
  <2>6. PortType' /\ NoLostWakeup'
    BY <2>1, <2>2, <2>3, <2>5 DEF PortInv, PortType, NoLostWakeup
  <2>7. \A r \in Socket : r # s => inbox'[r] = inbox[r]
    BY <2>2 DEF PortInv, PortType
  <2>8. Reading'
    BY <1>9, <2>1, <2>2, <2>3, <2>7, Sockets DEF PortInv, Reading, ToSet
  <2> QED
    BY <1>9, <2>2, <2>6, <2>8 DEF PortInv, Events
<1>10. CASE port = "win32" /\ WinStart
  BY <1>10 DEF WinStart, Start, Readable,
              NoEvent, portVars, breakVars, listenerVars, loopVars,
              sigVars, PortInv, PortType, Reading, Events, NoLostWakeup, Running, ToSet
<1>11. CASE port = "win32" /\ Wait
  <2>1. /\ pc = "select" /\ pc' = "selected" /\ tempfds = {} /\ Running /\ port = "win32"
        /\ UNCHANGED <<sockets, inbox, port, posted, break, caller>>
    BY <1>11 DEF Wait, PortInv, Reading, Running, listenerVars
  <2>2. CASE event # {}
    <3> DEFINE from == FirstOf(event)
    <3>1. event' = event \ {sockets[from]} /\ tempfds' = ReadFrom(from) /\ bytes' = bytes
      BY <1>11, <2>2 DEF Wait
    <3>2. from \in DOMAIN sockets
      BY <2>1, <2>2, FirstIs DEF PortInv, Events
    <3> HIDE DEF from
    <3>3. from \in 1 .. Len(sockets) /\ Len(sockets) \in Nat /\ DOMAIN sockets = 1 .. Len(sockets)
      BY <3>2, Sockets DEF PortInv
    <3>4. sockets[from] \in ReadFrom(from) /\ ReadFrom(from) \subseteq ToSet(sockets)
      BY <3>3 DEF ReadFrom, ToSet
    <3>5. PortType' /\ NoLostWakeup'
      BY <2>1, <3>1 DEF PortInv, PortType, NoLostWakeup
    <3>6. ToSet(sockets)' = ToSet(sockets)
      BY <2>1 DEF ToSet
    <3>7. Reading' /\ Events'
      BY <2>1, <3>1, <3>4, <3>6 DEF PortInv, Reading, Events, Running
    <3> QED
      BY <3>5, <3>7 DEF PortInv
  <2>3. CASE event = {}
    <3>1. event' = event /\ tempfds' = {} /\ bytes' = 0
      BY <1>11, <2>3 DEF Wait
    <3>2. PortType' /\ NoLostWakeup'
      BY <2>1, <3>1 DEF PortInv, PortType, NoLostWakeup
    <3>3. Reading' /\ Events'
      BY <2>1, <3>1 DEF PortInv, Reading, Events, Running, ToSet
    <3> QED
      BY <3>2, <3>3 DEF PortInv
  <2> QED
    BY <2>2, <2>3
<1>12. CASE port = "win32" /\ WinServeSocket
  <2> DEFINE s == sockets[FirstOf(tempfds)]
             rest == IF inbox[s] = <<>> THEN <<>> ELSE Tail(inbox[s])
             again == {r \in {s} : rest # <<>>}
  <2>1. s \in tempfds /\ s \in Socket /\ pc = "sockets" /\ s \in ToSet(sockets)
    <3>1. tempfds # {} /\ tempfds \subseteq ToSet(sockets) /\ pc = "sockets"
      BY <1>12 DEF WinServeSocket, PortInv, Reading
    <3> QED
      BY <3>1, FirstIs, Sockets DEF PortInv
  <2>2. /\ UNCHANGED <<sockets, bytes, caller, port>>
        /\ inbox' = [inbox EXCEPT ![s] = rest]
        /\ event' = event \cup again /\ posted' = (posted \ {s}) \cup again
    BY <1>12 DEF WinServeSocket, listenerVars
  <2>3. \/ tempfds' = tempfds \ {s} /\ pc' = pc /\ break' = break
        \/ tempfds' = {} /\ pc' = "timers" /\ break' = break /\ break
        \/ tempfds' = {} /\ pc' = "timers" /\ break' = TRUE
        \/ tempfds' = {} /\ pc' = "idle" /\ break' = break
    BY <1>12 DEF WinServeSocket, Listener, ToTimers, Throws, Over
  <2> HIDE DEF s
  <2>4. inbox[s] \in Seq({"empty", "full"})
    BY <2>1 DEF PortInv, PortType
  <2>5. rest \in Seq({"empty", "full"})
    BY <2>4, HeadTailProperties
  <2> HIDE DEF rest
  <2>6. PortType' /\ NoLostWakeup'
    BY <2>1, <2>2, <2>3, <2>5 DEF PortInv, PortType, NoLostWakeup
  <2>7. \A r \in Socket : inbox'[r] = IF r = s THEN rest ELSE inbox[r]
    BY <2>2 DEF PortInv, PortType
  <2>8. ToSet(sockets)' = ToSet(sockets) /\ ToSet(sockets) \subseteq Socket
    BY <2>2, Sockets DEF ToSet, PortInv
  <2>9. Reading'
    BY <1>12, <2>1, <2>2, <2>3, <2>8 DEF PortInv, Reading
  <2>10. \A r : r \in again <=> r = s /\ rest # <<>>
    OBVIOUS
  <2> HIDE DEF again
  <2>11. Events'
    <3> SUFFICES ASSUME Running' PROVE Events'
      BY DEF Events
    <3>1. /\ event \subseteq ToSet(sockets)
          /\ \A r \in ToSet(sockets) : inbox[r] # <<>> => r \in posted
          /\ ~break => posted \cap ToSet(sockets) \subseteq event \cup tempfds
      BY <1>12, <2>1 DEF PortInv, Events, Running
    <3>2. event' \subseteq ToSet(sockets)
      BY <2>1, <2>2, <2>10, <3>1
    <3>3. \A r \in ToSet(sockets) : inbox'[r] # <<>> => r \in posted'
      BY <2>2, <2>7, <2>8, <2>10, <3>1
    <3>4. break' \/ (~break /\ tempfds' = tempfds \ {s})
      BY <2>3 DEF Running, PortInv, PortType
    <3>5. ~break' => posted' \cap ToSet(sockets) \subseteq event' \cup tempfds'
      BY <2>2, <2>10, <3>1, <3>4
    <3> QED
      BY <2>8, <3>2, <3>3, <3>5 DEF Events
  <2> QED
    BY <2>6, <2>9, <2>11 DEF PortInv
<1>13. CASE port = "win32" /\ WinBreak
  <2>1. /\ UNCHANGED <<pc, tempfds, sockets, inbox, port, event, posted>>
        /\ \/ break' = TRUE /\ caller' = "half" /\ bytes' = bytes
           \/ caller' = "none" /\ bytes' = 1 /\ break' = break
    BY <1>13 DEF WinBreak, BreakSet, SetEvent, SetBreak, portVars, listenerVars, loopVars
  <2>2. PortType'
    <3>1. break \in BOOLEAN /\ bytes \in Nat /\ caller \in {"none", "half"}
      BY DEF PortInv, PortType
    <3>2. break' \in BOOLEAN
      BY <2>1, <3>1
    <3>3. bytes' \in Nat /\ caller' \in {"none", "half"}
      BY <2>1, <3>1
    <3> QED
      BY <2>1, <3>2, <3>3 DEF PortInv, PortType
  <2>3. Reading' /\ NoLostWakeup'
    BY <2>1 DEF PortInv, PortType, Reading, NoLostWakeup, ToSet
  <2>4. Events'
    BY <2>1 DEF PortInv, PortType, Events, ToSet, Running
  <2> QED
    BY <2>2, <2>3, <2>4 DEF PortInv
<1>15. CASE UNCHANGED allVars
  BY <1>15 DEF allVars, vars, portVars, breakVars, listenerVars, loopVars, PortInv, PortType, Reading, Events, NoLostWakeup, Running, ToSet
<1> QED
  BY <1>1, <1>2, <1>3, <1>4, <1>5, <1>6, <1>7, <1>8, <1>9, <1>10, <1>11, <1>12, <1>13, <1>15
     DEF PortNext, Next, Run, WinRun, WinArrive, NoEvent, portVars

\* Where the multiplexer is with its events and datagrams, on either port.
THEOREM PortInvAlways == PortSpec => []PortInv
<1>1. PortInit => PortInv
  <2> SUFFICES ASSUME PortInit PROVE PortInv
    OBVIOUS
  <2>1. /\ pc = "idle" /\ sockets = <<>> /\ break \in BOOLEAN /\ bytes = 0 /\ tempfds = {}
        /\ inbox = [s \in Socket |-> <<>>] /\ caller = "none" /\ port \in {"posix", "win32"}
    BY DEF PortInit, Init
  <2>2. PortType
    <3>1. <<>> \in Seq({"empty", "full"}) /\ <<>> \in Seq(Socket)
      BY EmptySeq
    <3> QED
      BY <2>1, <3>1 DEF PortType, Label
  <2> QED
    BY <2>1, <2>2 DEF PortInv, Reading, Events, NoLostWakeup, Running
<1> QED
  BY <1>1, PortStep, PTL DEF PortSpec

\* A thread that breaks the loop sets the flag before it writes the byte or sets the event, so
\* the loop is never asleep over a flag with nothing to wake it, on either port.
THEOREM NoLostWakeupAlways == PortSpec => []NoLostWakeup
<1>1. PortInv => NoLostWakeup
  BY DEF PortInv
<1> QED
  BY <1>1, PortInvAlways, PTL

\* However many sockets have set their events when a wait returns one of them, however a pass
\* ends and whatever comes in meanwhile: no socket with a datagram is left without its event.
THEOREM NoneOverlookedAlways == PortSpec => []NoneOverlooked
<1>1. PortInv => NoneOverlooked
  BY DEF PortInv, Events, NoneOverlooked
<1> QED
  BY <1>1, PortInvAlways, PTL
=============================================================================
