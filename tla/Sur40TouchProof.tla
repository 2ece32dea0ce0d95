--------------------------- MODULE Sur40TouchProof ---------------------------
(***************************************************************************)
(* Proofs about Sur40Touch, for any blobs, scans and sizes of packets, any *)
(* number of slots and any number of faults: a fault that the driver is    *)
(* told of costs two scans at most, and a scan that is read from its start *)
(* is framed and shown as a whole.                                         *)
(***************************************************************************)
EXTENDS Sur40Touch, DataLemmas

USE ContactAssumption, TouchSizes

Keys == Contact \cup {NoContact}
\* Blobs of the scan that are still to come; the contacts among those that have come.
Left == Len(scan) - sent * PerPacket
Come == {scan[i] : i \in 1 .. sent * PerPacket} \ Tag
\* The contacts this frame has reported.
Used(sl) == {sl[i].key : i \in {j \in Slot : sl[j].used}}

\* A contact has one slot, and a slot that this frame has not used holds what the frame
\* before has left.
SlotsInv(sl, before) ==
  /\ sl \in [Slot -> [key : Keys, used : BOOLEAN]]
  /\ \A i, j \in Slot : sl[i].key = sl[j].key => i = j \/ sl[i].key = NoContact
  /\ \A i \in Slot : IF sl[i].used THEN sl[i].key # NoContact
                                   ELSE sl[i].key \in before \cup {NoContact}

TouchType ==
  /\ scan \in Scans /\ sent \in Nat /\ sent < Packets(scan)
  /\ need_blobs \in Int /\ faults \in Nat /\ shown \subseteq Contact
  /\ running \in BOOLEAN /\ inStep \in BOOLEAN /\ begun \in BOOLEAN /\ lost \in BOOLEAN

\* Nobody reads: what follows is a fault that the driver knows of.
Resting == ~running => ~inStep /\ ~begun /\ ~lost
\* A scan read from its start: need_blobs counts what is left of it, and the slots in use
\* are those of its contacts that have come, all of them unless slots run short.
Framing ==
  inStep => /\ need_blobs = IF sent = 0 THEN -1 ELSE Left
            /\ Used(slots) \subseteq Come
            /\ Cardinality(Touches(scan) \cup shown) <= MaxContacts => Used(slots) = Come
\* After a fault that the driver knows of, every packet of the scan it hit ends a frame; if
\* that was the last packet, the next scan is counted right.
Recovering ==
  running /\ ~lost => IF begun THEN inStep
                      ELSE need_blobs \in {-1, Left} /\ (sent = 0 => need_blobs = -1)

TouchInv == TouchType /\ SlotsInv(slots, shown) /\ Resting /\ Framing /\ Recovering

-----------------------------------------------------------------------------
(***************************************************************************)
(* Scans and packets.                                                      *)
(***************************************************************************)
\* Rounding up: so many packets hold n blobs and one less do not.
LEMMA RoundUp ==
  ASSUME NEW n \in Nat \ {0}, NEW p \in Nat \ {0}
  PROVE  LET q == (n + p - 1) \div p
         IN  q \in Nat \ {0} /\ n <= q * p /\ (q - 1) * p < n
<1> DEFINE q == (n + p - 1) \div p
           r == (n + p - 1) % p
<1>1. q \in Int /\ r \in 0 .. p - 1 /\ n + p - 1 = p * q + r
  BY Z3
<1> HIDE DEF q, r
<1>2. p * q >= n /\ p * q < n + p
  BY <1>1
<1>3. q > 0
  BY <1>1, <1>2, Z3
<1>4. q * p = p * q /\ (q - 1) * p = p * q - p
  BY <1>1, Z3
<1>5. q \in Nat \ {0} /\ n <= q * p /\ (q - 1) * p < n
  BY <1>1, <1>2, <1>3, <1>4
<1> QED
  BY <1>5 DEF q

LEMMA ScanIs ==
  ASSUME NEW s \in Scans
  PROVE  /\ s \in Seq(Contact) /\ Len(s) \in Nat /\ IsInjective(s)
         /\ Packets(s) \in Nat \ {0}
         /\ Len(s) <= Packets(s) * PerPacket
         /\ \A k \in Nat : k > 0 /\ k < Packets(s) => k * PerPacket < Len(s)
<1>1. PICK n \in 0 .. MaxBlobs : s \in [1 .. n -> Contact]
  BY DEF Scans
<1>2. s \in Seq(Contact) /\ Len(s) \in Nat /\ IsInjective(s)
  BY <1>1 DEF Scans
<1>3. CASE s = <<>>
  BY <1>2, <1>3 DEF Packets
<1>4. CASE s # <<>>
  <2>1. Len(s) \in Nat \ {0} /\ Packets(s) = (Len(s) + PerPacket - 1) \div PerPacket
    BY <1>2, <1>4 DEF Packets
  <2> DEFINE q == Packets(s)
  <2>2. q \in Nat \ {0} /\ Len(s) <= q * PerPacket /\ (q - 1) * PerPacket < Len(s)
    BY <2>1, RoundUp
  <2> HIDE DEF q
  <2>3. ASSUME NEW k \in Nat, k < q PROVE k * PerPacket <= (q - 1) * PerPacket
    <3>1. k <= q - 1
      BY <2>2, <2>3
    <3> QED
      BY <2>2, <3>1, Z3
  <2>4. \A k \in Nat : k < q => k * PerPacket < Len(s)
    <3> SUFFICES ASSUME NEW k \in Nat, k < q PROVE k * PerPacket < Len(s)
      OBVIOUS
    <3>1. k * PerPacket \in Int /\ (q - 1) * PerPacket \in Int
      BY <2>2
    <3> QED
      BY <3>1, <2>1, <2>2, <2>3
  <2> QED
    BY <1>2, <2>2, <2>4 DEF q
<1> QED
  BY <1>3, <1>4

\* The packet that leaves next.
LEMMA PacketIs ==
  ASSUME TouchType
  PROVE  /\ sent * PerPacket \in Nat /\ Left \in Nat /\ (sent > 0 => Left > 0)
         /\ Len(scan) \in Nat /\ Count \in Nat
         /\ Blobs \in Seq(Keys) /\ Len(Blobs) \in Nat
         /\ \A i \in 1 .. Len(Blobs) :
              Blobs[i] = IF sent * PerPacket + i <= Len(scan)
                         THEN scan[sent * PerPacket + i] ELSE NoContact
         /\ LastPacket => Left <= PerPacket /\ Left <= Len(Blobs)
         /\ ~LastPacket => Left > PerPacket /\ Len(Blobs) = PerPacket
<1> DEFINE at == sent * PerPacket
           to == Smaller(Len(scan), at + PerPacket)
           part == SubSeq(scan, at + 1, to)
           m == IF Len(part) < MinBlobs THEN MinBlobs ELSE Len(part)
<1>1. /\ sent \in Nat /\ scan \in Seq(Contact) /\ Len(scan) \in Nat
      /\ Packets(scan) \in Nat \ {0} /\ sent < Packets(scan)
      /\ Len(scan) <= Packets(scan) * PerPacket
      /\ \A k \in Nat : k > 0 /\ k < Packets(scan) => k * PerPacket < Len(scan)
  BY ScanIs DEF TouchType
<1>2. at \in Nat /\ (sent + 1) * PerPacket = at + PerPacket /\ (sent = 0 => at = 0)
  BY <1>1, Z3
<1>3. /\ at <= Len(scan) /\ (sent > 0 => at < Len(scan))
      /\ LastPacket => Len(scan) <= at + PerPacket
      /\ ~LastPacket => at + PerPacket < Len(scan)
  <2>1. LastPacket => Packets(scan) * PerPacket = at + PerPacket
    BY <1>2 DEF LastPacket
  <2>2. ~LastPacket => sent + 1 < Packets(scan)
    BY <1>1 DEF LastPacket
  <2>3. sent > 0 => at < Len(scan)
    BY <1>1
  <2> HIDE DEF at
  <2>4. ~LastPacket => at + PerPacket < Len(scan)
    BY <1>1, <1>2, <2>2
  <2> QED
    BY <1>1, <1>2, <2>1, <2>3, <2>4
<1>4. Blobs = [i \in 1 .. Smaller(PerPacket, m) |-> IF i <= Len(part) THEN part[i] ELSE NoContact]
  BY <1>2 DEF Blobs
<1>5. Count \in Nat
  BY <1>1 DEF Count
<1>6. Left = Len(scan) - at
  BY DEF Left
<1> HIDE DEF at
<1>7. /\ to \in Nat /\ at <= to /\ to <= Len(scan) /\ to <= at + PerPacket
      /\ to = Len(scan) \/ to = at + PerPacket
  BY <1>1, <1>2, <1>3 DEF Smaller
<1>8. /\ part \in Seq(Contact) /\ Len(part) = to - at
      /\ \A i \in 1 .. to - at : part[i] = scan[at + i]
  <2> HIDE DEF to
  <2>1. part \in Seq(Contact)
    BY <1>1, <1>2, <1>7
  <2>2. part = [i \in 1 .. (to - (at + 1) + 1) |-> scan[i + (at + 1) - 1]]
    BY <1>1, <1>2, <1>7 DEF SubSeq
  <2>3. to - (at + 1) + 1 = to - at /\ \A i \in 1 .. to - at : i + (at + 1) - 1 = at + i
    BY <1>2, <1>7
  <2> QED
    BY SMTT(20), <2>1, <2>2, <2>3, <1>2, <1>7
<1> HIDE DEF part, to
<1>9. /\ m \in Nat /\ Len(part) <= m
      /\ Smaller(PerPacket, m) \in Nat /\ Smaller(PerPacket, m) <= PerPacket
      /\ Len(part) <= Smaller(PerPacket, m)
  BY <1>2, <1>7, <1>8 DEF Smaller
<1> HIDE DEF m
<1>10. /\ Blobs \in Seq(Keys) /\ Len(Blobs) = Smaller(PerPacket, m)
       /\ \A i \in 1 .. Len(Blobs) :
            Blobs[i] = IF i <= to - at THEN scan[at + i] ELSE NoContact
  <2>1. \A i \in 1 .. Smaller(PerPacket, m) :
          (IF i <= Len(part) THEN part[i] ELSE NoContact) \in Keys
    BY <1>8, <1>9 DEF Keys
  <2>2. Blobs \in [1 .. Smaller(PerPacket, m) -> Keys]
    BY <1>4, <2>1
  <2>3. Blobs \in Seq(Keys) /\ Len(Blobs) = Smaller(PerPacket, m)
    BY <1>9, <2>2
  <2> QED
    BY <1>4, <1>8, <1>9, <2>3, <1>2, <1>7
<1>11. \A i \in 1 .. Len(Blobs) : i <= to - at <=> at + i <= Len(scan)
  BY <1>1, <1>2, <1>7, <1>9, <1>10
<1>12. \A i \in 1 .. Len(Blobs) :
         Blobs[i] = IF at + i <= Len(scan) THEN scan[at + i] ELSE NoContact
  BY <1>10, <1>11
<1>13. /\ LastPacket => Left <= PerPacket /\ Left <= Len(Blobs)
       /\ ~LastPacket => Left > PerPacket /\ Len(Blobs) = PerPacket
  BY SMTT(20), <1>1, <1>2, <1>3, <1>6, <1>7, <1>8, <1>9, <1>10
<1> QED
  BY <1>1, <1>2, <1>3, <1>5, <1>6, <1>9, <1>10, <1>12, <1>13 DEF at

\* The contacts among the next n blobs of the scan.
Coming(n) == {scan[j] : j \in {k \in 1 .. Len(scan) : /\ sent * PerPacket < k
                                                      /\ k <= sent * PerPacket + n}} \ Tag

\* What the driver takes from it.
LEMMA TakenAre ==
  ASSUME TouchType, NEW n \in 0 .. Len(Blobs)
  PROVE  LET b == SubSeq(Blobs, 1, n)
         IN  /\ b \in Seq(Keys) /\ Touches(b) = Coming(n)
             /\ \A i, j \in 1 .. Len(b) : b[i] = b[j] => i = j \/ b[i] = NoContact
<1> DEFINE at == sent * PerPacket
           b == SubSeq(Blobs, 1, n)
<1>1. /\ at \in Nat /\ Len(scan) \in Nat /\ Blobs \in Seq(Keys) /\ Len(Blobs) \in Nat
      /\ \A i \in 1 .. Len(Blobs) :
           Blobs[i] = IF at + i <= Len(scan) THEN scan[at + i] ELSE NoContact
  BY PacketIs
<1> HIDE DEF at
<1>2. b \in Seq(Keys) /\ Len(b) = n /\ \A i \in 1 .. n : b[i] = Blobs[i]
  <2>1. b \in Seq(Keys)
    BY <1>1
  <2>2. b = [i \in 1 .. (n - 1 + 1) |-> Blobs[i + 1 - 1]]
    BY <1>1 DEF SubSeq
  <2>3. n - 1 + 1 = n /\ \A i \in 1 .. n : i + 1 - 1 = i
    OBVIOUS
  <2> QED
    BY <2>1, <2>2, <2>3
<1> HIDE DEF b
<1>3. \A i \in 1 .. n : b[i] = IF at + i <= Len(scan) THEN scan[at + i] ELSE NoContact
  <2>1. \A i \in 1 .. n : i \in 1 .. Len(Blobs)
    BY <1>1
  <2> QED
    BY <1>1, <1>2, <2>1, Zenon
<1>4. scan \in Seq(Contact) /\ \A i, j \in 1 .. Len(scan) : scan[i] = scan[j] => i = j
  <2>1. scan \in Seq(Contact) /\ IsInjective(scan)
    BY ScanIs DEF TouchType
  <2> QED
    BY <2>1, RangeIn
<1>5. \A i, j \in 1 .. Len(b) : b[i] = b[j] => i = j \/ b[i] = NoContact
  <2> SUFFICES ASSUME NEW i \in 1 .. n, NEW j \in 1 .. n, b[i] = b[j], b[i] # NoContact
               PROVE  i = j
    BY <1>2
  <2>1. at + i \in 1 .. Len(scan) /\ at + j \in 1 .. Len(scan) /\ scan[at + i] = scan[at + j]
    BY <1>1, <1>3
  <2> QED
    BY <2>1, <1>1, <1>4
<1>6. Range(b) = {b[i] : i \in 1 .. n}
  BY <1>2, RangeIn
<1>7. Touches(b) = Coming(n)
  <2>1. ASSUME NEW x \in Touches(b) PROVE x \in Coming(n)
    <3>1. PICK i \in 1 .. n : x = b[i]
      BY <1>6, <2>1 DEF Touches
    <3>2. x \notin Tag /\ x # NoContact
      BY <2>1 DEF Touches
    <3>3. at + i \in 1 .. Len(scan) /\ x = scan[at + i] /\ at < at + i /\ at + i <= at + n
      BY <1>1, <1>3, <3>1, <3>2
    <3> QED
      BY <3>2, <3>3 DEF Coming, at
  <2>2. ASSUME NEW x \in Coming(n) PROVE x \in Touches(b)
    <3>1. PICK k \in 1 .. Len(scan) : at < k /\ k <= at + n /\ x = scan[k] /\ x \notin Tag
      BY <2>2 DEF Coming, at
    <3>2. k - at \in 1 .. n /\ at + (k - at) = k
      BY <1>1, <3>1
    <3>3. x = b[k - at]
      BY <1>1, <1>3, <3>1, <3>2
    <3>4. x \in Contact
      BY <1>1, <1>4, <3>1
    <3> QED
      BY <1>6, <3>1, <3>2, <3>3, <3>4 DEF Touches
  <2> QED
    BY <2>1, <2>2
<1> QED
  BY <1>2, <1>5, <1>7 DEF b

-----------------------------------------------------------------------------
(***************************************************************************)
(* The slots.                                                              *)
(***************************************************************************)
\* The ranks in a set of numbers are 1 to its size.
LEMMA RankIs ==
  ASSUME NEW S, S \subseteq Nat, IsFiniteSet(S)
  PROVE  /\ Cardinality(S) \in Nat
         /\ \A n \in S : Rank(n, S) \in 1 .. Cardinality(S)
         /\ \A m, n \in S : Rank(m, S) = Rank(n, S) => m = n
         /\ \A r \in 1 .. Cardinality(S) : \E n \in S : Rank(n, S) = r
<1> DEFINE upto(n) == {m \in S : m <= n}
<1>1. \A n : IsFiniteSet(upto(n)) /\ Cardinality(upto(n)) \in Nat
             /\ Cardinality(upto(n)) <= Cardinality(S)
  <2> TAKE n
  <2>1. upto(n) \in SUBSET S
    OBVIOUS
  <2> HIDE DEF upto
  <2> QED
    BY <2>1, FS_Subset, FS_CardinalityType
<1>2. Cardinality(S) \in Nat
  BY FS_CardinalityType
<1>3. \A n \in S : Rank(n, S) \in 1 .. Cardinality(S)
  <2> TAKE n \in S
  <2>1. upto(n) # {}
    OBVIOUS
  <2>2. Rank(n, S) = Cardinality(upto(n))
    BY DEF Rank
  <2> HIDE DEF upto
  <2>3. Cardinality(upto(n)) # 0
    BY <1>1, <2>1, FS_EmptySet
  <2> QED
    BY <1>1, <1>2, <2>2, <2>3
<1>4. ASSUME NEW m \in S, NEW n \in S, m < n PROVE Rank(m, S) # Rank(n, S)
  <2>0. m \in Nat /\ n \in Nat /\ \A k \in S : k \in Nat
    OBVIOUS
  <2>00. n <= n /\ ~(n <= m) /\ \A k \in S : k <= m => k <= n
    BY <1>4, <2>0
  <2>1. upto(m) \in SUBSET upto(n) /\ n \in upto(n) /\ n \notin upto(m)
    BY <2>00, Zenon
  <2>2. Rank(m, S) = Cardinality(upto(m)) /\ Rank(n, S) = Cardinality(upto(n))
    BY DEF Rank
  <2> HIDE DEF upto
  <2> QED
    BY <1>1, <2>1, <2>2, FS_Subset
<1>5. \A m, n \in S : Rank(m, S) = Rank(n, S) => m = n
  <2> SUFFICES ASSUME NEW m \in S, NEW n \in S, m # n PROVE Rank(m, S) # Rank(n, S)
    OBVIOUS
  <2>1. m < n \/ n < m
    OBVIOUS
  <2> QED
    BY <1>4, <2>1
<1>6. \A r \in 1 .. Cardinality(S) : \E n \in S : Rank(n, S) = r
  <2> DEFINE f == [n \in S |-> Rank(n, S)]
             c == Cardinality(S)
  <2>1. f \in Injection(S, 1 .. c)
    <3>1. f \in [S -> 1 .. c]
      BY <1>3
    <3>2. \A m, n \in S : f[m] = f[n] => m = n
      BY <1>5
    <3> QED
      BY <3>1, <3>2 DEF Injection, IsInjective
  <2>2. \A n \in S : f[n] = Rank(n, S)
    OBVIOUS
  <2>3. IsFiniteSet(1 .. c) /\ Cardinality(1 .. c) = c
    BY <1>2, FS_Interval
  <2> HIDE DEF f, c
  <2>4. Cardinality(S) = Cardinality(1 .. c) <=> f \in Surjection(S, 1 .. c)
    BY <2>1, <2>3, FS_Injection
  <2>5. f \in Surjection(S, 1 .. c)
    BY <2>3, <2>4 DEF c
  <2>6. \A r \in 1 .. c : \E n \in S : f[n] = r
    BY <2>5 DEF Surjection
  <2> QED
    BY <2>2, <2>6 DEF c
<1> QED
  BY <1>2, <1>3, <1>5, <1>6

\* Slots that are not free are as many as contacts that are down.
LEMMA FreeSlots ==
  ASSUME NEW before, SlotsInv(slots, before)
  PROVE  LET free == {i \in Slot : slots[i].key = NoContact}
         IN  /\ free \subseteq Nat /\ IsFiniteSet(free) /\ IsFiniteSet(Down(slots))
             /\ Cardinality(free) \in Nat /\ Cardinality(Down(slots)) \in Nat
             /\ Cardinality(free) + Cardinality(Down(slots)) = MaxContacts
<1> DEFINE free == {i \in Slot : slots[i].key = NoContact}
           held == Slot \ free
           key == [i \in held |-> slots[i].key]
<1>1. IsFiniteSet(Slot) /\ Cardinality(Slot) = MaxContacts
  BY FS_Interval DEF Slot
<1>2. free \in SUBSET Slot /\ Slot \cap free = free /\ free \subseteq Nat
  BY DEF Slot
<1>3. key \in Bijection(held, Down(slots))
  <2>1. key \in [held -> Down(slots)]
    BY DEF Down
  <2>2. \A i, j \in held : key[i] = key[j] => i = j
    BY DEF SlotsInv
  <2>3. \A x \in Down(slots) : \E i \in held : key[i] = x
    BY DEF Down
  <2> HIDE DEF key, held
  <2> QED
    BY <2>1, <2>2, <2>3 DEF Bijection, Injection, Surjection, IsInjective
<1>4. /\ IsFiniteSet(free) /\ Cardinality(free) \in Nat
      /\ IsFiniteSet(held) /\ Cardinality(held) \in Nat
      /\ Cardinality(held) = MaxContacts - Cardinality(free)
  <2> HIDE DEF free
  <2> QED
    BY <1>1, <1>2, FS_Subset, FS_Difference, FS_CardinalityType
<1>5. IsFiniteSet(Down(slots)) /\ Cardinality(Down(slots)) = Cardinality(held)
  <2> HIDE DEF held, key
  <2>1. ExistsBijection(held, Down(slots))
    BY <1>3 DEF ExistsBijection
  <2> QED
    BY <1>4, <2>1, FS_Bijection
<1> HIDE DEF held, key
<1>6. Cardinality(free) + Cardinality(Down(slots)) = MaxContacts
  BY <1>4, <1>5
<1> QED
  BY <1>2, <1>4, <1>5, <1>6

\* What the blobs of a packet make of the slots.
LEMMA ReportsAre ==
  ASSUME NEW before, SlotsInv(slots, before), NEW b \in Seq(Keys),
         \A i, j \in 1 .. Len(b) : b[i] = b[j] => i = j \/ b[i] = NoContact
  PROVE  LET sl == ReportBlobs(b)
         IN  /\ SlotsInv(sl, before)
             /\ Used(slots) \subseteq Used(sl)
             /\ Used(sl) \subseteq Used(slots) \cup Touches(b)
             /\ Cardinality(Down(slots) \cup Touches(b)) <= MaxContacts
                  => Touches(b) \subseteq Used(sl)
<1> DEFINE t == Touches(b)
           free == {i \in Slot : slots[i].key = NoContact}
           new == {p \in DOMAIN b : b[p] \in t \ Down(slots)}
           for(i) == {p \in new : Rank(p, new) = Rank(i, free)}
           its(i) == CHOOSE p \in for(i) : TRUE
           sl == ReportBlobs(b)
<1>1. /\ t \subseteq Contact \ Tag /\ NoContact \notin t /\ IsFiniteSet(t)
      /\ Len(b) \in Nat /\ DOMAIN b = 1 .. Len(b)
      /\ \A x \in t : \E p \in 1 .. Len(b) : x = b[p]
  <2>1. Range(b) = {b[i] : i \in 1 .. Len(b)} /\ Range(b) \subseteq Keys
    BY RangeIn
  <2>2. t \in SUBSET Contact
    BY <2>1 DEF Touches, Keys
  <2>3. IsFiniteSet(t)
    <3> HIDE DEF t
    <3> QED
      BY <2>2, FS_Subset
  <2> QED
    BY <2>1, <2>2, <2>3 DEF Touches
<1>2. /\ free \subseteq Nat /\ IsFiniteSet(free) /\ Cardinality(free) \in Nat
      /\ IsFiniteSet(Down(slots)) /\ Cardinality(Down(slots)) \in Nat
      /\ Cardinality(free) + Cardinality(Down(slots)) = MaxContacts
  BY FreeSlots
<1>3. new \subseteq Nat /\ IsFiniteSet(new)
  <2>1. IsFiniteSet(1 .. Len(b)) /\ new \in SUBSET (1 .. Len(b))
    BY <1>1, FS_Interval
  <2> HIDE DEF new
  <2>2. IsFiniteSet(new)
    BY <2>1, FS_Subset
  <2> QED
    BY <1>1, <2>1, <2>2
<1>4. /\ \A p \in new : p \in 1 .. Len(b) /\ b[p] \in t /\ b[p] \notin Down(slots)
      /\ \A p \in 1 .. Len(b) : b[p] \in t \ Down(slots) => p \in new
      /\ \A p, q \in new : b[p] = b[q] => p = q
  BY <1>1
<1>5. \A i : for(i) # {} => its(i) \in new /\ Rank(its(i), new) = Rank(i, free)
  OBVIOUS
<1>6. /\ \A i, j \in free : Rank(i, free) = Rank(j, free) => i = j
      /\ \A r \in 1 .. Cardinality(free) : \E i \in free : Rank(i, free) = r
      /\ Cardinality(new) \in Nat
      /\ \A p \in new : Rank(p, new) \in 1 .. Cardinality(new)
      /\ \A p, q \in new : Rank(p, new) = Rank(q, new) => p = q
  <2> HIDE DEF free, new
  <2> QED
    BY <1>2, <1>3, RankIs
<1>7. sl = [i \in Slot |-> CASE slots[i].key \in t -> [key |-> slots[i].key, used |-> TRUE]
                             [] i \in free /\ for(i) # {} -> [key |-> b[its(i)], used |-> TRUE]
                             [] OTHER -> slots[i]]
  BY DEF ReportBlobs
<1>8. /\ slots \in [Slot -> [key : Keys, used : BOOLEAN]]
      /\ \A i \in Slot : slots[i] = [key |-> slots[i].key, used |-> slots[i].used]
      /\ \A i, j \in Slot : slots[i].key = slots[j].key => i = j \/ slots[i].key = NoContact
      /\ \A i \in Slot : IF slots[i].used THEN slots[i].key # NoContact
                                          ELSE slots[i].key \in before \cup {NoContact}
  BY DEF SlotsInv
<1>9. \A i \in Slot : i \in free <=> slots[i].key = NoContact
  OBVIOUS
<1>10. \A i \in Slot : slots[i].key # NoContact => slots[i].key \in Down(slots)
  BY DEF Down
<1>11. \A x \in Down(slots) : \E i \in Slot : slots[i].key = x
  BY DEF Down
<1>12. free \subseteq Slot
  OBVIOUS
<1> HIDE DEF t, free, new, for, its, sl
\* The slots one by one.
<1>13. ASSUME NEW i \in Slot
       PROVE  /\ slots[i].key \in t => sl[i] = [key |-> slots[i].key, used |-> TRUE]
              /\ i \in free /\ for(i) # {} => sl[i] = [key |-> b[its(i)], used |-> TRUE]
              /\ slots[i].key \notin t /\ ~(i \in free /\ for(i) # {}) => sl[i] = slots[i]
              /\ i \in free => slots[i].key \notin t
  <2>1. i \in free => slots[i].key \notin t
    BY <1>1, <1>9
  <2> QED
    BY <1>7, <2>1
\* Those that got a new contact, and those that keep theirs.
<1> DEFINE Gets(i) == i \in free /\ for(i) # {}
<1>14. ASSUME NEW i \in Slot, Gets(i)
       PROVE  /\ sl[i] \in [key : Keys, used : BOOLEAN]
              /\ sl[i].key = b[its(i)] /\ sl[i].used /\ sl[i].key \in t
              /\ sl[i].key \notin Down(slots)
  <2>1. sl[i] = [key |-> b[its(i)], used |-> TRUE]
    BY <1>13, <1>14
  <2>2. b[its(i)] \in t /\ b[its(i)] \notin Down(slots)
    BY <1>4, <1>5, <1>14
  <2> QED
    BY <2>1, <2>2, <1>1 DEF Keys
<1>15. ASSUME NEW i \in Slot, ~Gets(i)
       PROVE  /\ sl[i] \in [key : Keys, used : BOOLEAN]
              /\ sl[i].key = slots[i].key
              /\ sl[i].used <=> slots[i].used \/ slots[i].key \in t
  <2>1. CASE slots[i].key \in t
    <3>1. sl[i] = [key |-> slots[i].key, used |-> TRUE]
      BY <1>13, <2>1
    <3> QED
      BY <3>1, <2>1, <1>8
  <2>2. CASE slots[i].key \notin t
    <3>1. sl[i] = slots[i]
      BY <1>13, <1>15, <2>2
    <3> QED
      BY <3>1, <2>2, <1>8
  <2> QED
    BY <2>1, <2>2
<1> HIDE DEF Gets
<1>16. SlotsInv(sl, before)
  <2>1. sl \in [Slot -> [key : Keys, used : BOOLEAN]]
    <3>1. DOMAIN sl = Slot /\ sl = [i \in Slot |-> sl[i]]
      BY <1>7
    <3>2. \A i \in Slot : sl[i] \in [key : Keys, used : BOOLEAN]
      BY <1>14, <1>15
    <3> QED
      BY <3>1, <3>2
  <2>2. ASSUME NEW i \in Slot, NEW j \in Slot, sl[i].key = sl[j].key, sl[i].key # NoContact
        PROVE  i = j
    <3>1. CASE Gets(i) /\ Gets(j)
      <4>1. /\ its(i) \in new /\ its(j) \in new /\ i \in free /\ j \in free
            /\ Rank(its(i), new) = Rank(i, free) /\ Rank(its(j), new) = Rank(j, free)
        BY <1>5, <3>1 DEF Gets
      <4>2. b[its(i)] = b[its(j)]
        BY <1>14, <2>2, <3>1
      <4>3. its(i) = its(j)
        BY <1>4, <4>1, <4>2
      <4> QED
        BY <1>6, <4>1, <4>3
    <3>2. CASE ~Gets(i) /\ ~Gets(j)
      BY <1>8, <1>15, <2>2, <3>2
    <3>3. CASE Gets(i) /\ ~Gets(j)
      BY <1>10, <1>14, <1>15, <2>2, <3>3
    <3>4. CASE ~Gets(i) /\ Gets(j)
      BY <1>10, <1>14, <1>15, <2>2, <3>4
    <3> QED
      BY <3>1, <3>2, <3>3, <3>4
  <2>3. ASSUME NEW i \in Slot
        PROVE  IF sl[i].used THEN sl[i].key # NoContact ELSE sl[i].key \in before \cup {NoContact}
    <3>1. CASE Gets(i)
      BY <1>1, <1>14, <3>1
    <3>2. CASE ~Gets(i)
      BY <1>1, <1>8, <1>15, <3>2
    <3> QED
      BY <3>1, <3>2
  <2>4. \A i, j \in Slot : sl[i].key = sl[j].key => i = j \/ sl[i].key = NoContact
    BY <2>2
  <2> QED
    BY <2>1, <2>3, <2>4 DEF SlotsInv
<1>17. Used(slots) \subseteq Used(sl)
  <2> SUFFICES ASSUME NEW i \in Slot, slots[i].used PROVE slots[i].key \in Used(sl)
    BY DEF Used
  <2>1. ~Gets(i)
    BY <1>8, <1>9 DEF Gets
  <2>2. sl[i].key = slots[i].key /\ sl[i].used
    BY <1>15, <2>1
  <2> QED
    BY <2>2 DEF Used
<1>18. Used(sl) \subseteq Used(slots) \cup t
  <2> SUFFICES ASSUME NEW i \in Slot, sl[i].used PROVE sl[i].key \in Used(slots) \cup t
    BY DEF Used
  <2>1. CASE Gets(i)
    BY <1>14, <2>1
  <2>2. CASE ~Gets(i)
    <3>1. sl[i].key = slots[i].key /\ (slots[i].used \/ slots[i].key \in t)
      BY <1>15, <2>2
    <3> QED
      BY <3>1 DEF Used
  <2> QED
    BY <2>1, <2>2
<1>19. ASSUME Cardinality(Down(slots) \cup t) <= MaxContacts PROVE t \subseteq Used(sl)
  <2>1. Cardinality(new) <= Cardinality(free)
    <3> DEFINE fresh == t \ Down(slots)
               blob == [p \in new |-> b[p]]
    <3>1. blob \in Injection(new, fresh)
      <4>1. blob \in [new -> fresh]
        BY <1>4
      <4>2. \A p, q \in new : blob[p] = blob[q] => p = q
        BY <1>4
      <4> QED
        BY <4>1, <4>2 DEF Injection, IsInjective
    <3>2. Down(slots) \cup t = Down(slots) \cup fresh /\ Down(slots) \cap fresh = {}
      OBVIOUS
    <3>3. IsFiniteSet(fresh)
      BY <1>1, FS_Difference
    <3> HIDE DEF fresh, blob
    <3>4. Cardinality(new) <= Cardinality(fresh) /\ Cardinality(fresh) \in Nat
      BY <3>1, <3>3, FS_Injection, FS_CardinalityType
    <3> DEFINE down == Down(slots)
    <3>5. IsFiniteSet(down) /\ down \cup t = down \cup fresh /\ down \cap fresh = {}
      BY <1>2, <3>2
    <3>6. /\ Cardinality(down) \in Nat /\ Cardinality(down \cup t) <= MaxContacts
          /\ Cardinality(free) + Cardinality(down) = MaxContacts
      BY <1>2, <1>19
    <3> HIDE DEF down
    <3>7. Cardinality(down \cup fresh)
            = Cardinality(down) + Cardinality(fresh) - Cardinality(down \cap fresh)
      BY <3>3, <3>5, FS_Union
    <3>8. Cardinality(down \cap fresh) = 0
      BY <3>5, FS_EmptySet
    <3>9. Cardinality(down \cup fresh) <= MaxContacts
      BY <3>5, <3>6, Zenon
    <3> QED
      BY <1>2, <1>6, <3>4, <3>6, <3>7, <3>8, <3>9
  <2> SUFFICES ASSUME NEW x \in t PROVE x \in Used(sl)
    OBVIOUS
  <2>2. CASE x \in Down(slots)
    <3>1. PICK i \in Slot : slots[i].key = x
      BY <1>11, <2>2
    <3>2. sl[i] = [key |-> x, used |-> TRUE]
      BY <1>13, <3>1
    <3> QED
      BY <3>2 DEF Used
  <2>3. CASE x \notin Down(slots)
    <3>1. PICK p \in new : b[p] = x
      BY <1>1, <1>4, <2>3
    <3>2. Rank(p, new) \in 1 .. Cardinality(free)
      BY <1>2, <1>6, <2>1
    <3>3. PICK i \in free : Rank(i, free) = Rank(p, new)
      BY <1>6, <3>2
    <3>4. for(i) # {}
      BY <3>3 DEF for
    <3>5. its(i) = p
      BY <1>5, <1>6, <3>3, <3>4
    <3>6. i \in Slot /\ Gets(i)
      BY <1>12, <3>4 DEF Gets
    <3>7. sl[i].key = x /\ sl[i].used
      BY <1>14, <3>1, <3>5, <3>6
    <3> QED
      BY <3>6, <3>7 DEF Used
  <2> QED
    BY <2>2, <2>3
<1> QED
  BY <1>16, <1>17, <1>18, <1>19 DEF t, sl

\* The end of a frame.
LEMMA SyncIs ==
  ASSUME NEW sl, NEW before, SlotsInv(sl, before)
  PROVE  LET end == SyncFrame(sl)
         IN  /\ SlotsInv(end, Down(end)) /\ Used(end) = {}
             /\ Down(end) = Used(sl) /\ \A i \in Slot : ~end[i].used
<1> DEFINE end == SyncFrame(sl)
           kept(i) == IF sl[i].used THEN sl[i].key ELSE NoContact
<1>1. /\ sl \in [Slot -> [key : Keys, used : BOOLEAN]]
      /\ \A i \in Slot : sl[i].key \in Keys /\ kept(i) \in Keys
      /\ \A i, j \in Slot : sl[i].key = sl[j].key => i = j \/ sl[i].key = NoContact
      /\ \A i \in Slot : sl[i].used => sl[i].key # NoContact
  BY DEF SlotsInv, Keys
<1>2. end = [i \in Slot |-> [key |-> kept(i), used |-> FALSE]]
  BY DEF SyncFrame
<1>3. end \in [Slot -> [key : Keys, used : BOOLEAN]]
  <2>1. \A i \in Slot : [key |-> kept(i), used |-> FALSE] \in [key : Keys, used : BOOLEAN]
    BY <1>1
  <2> QED
    BY <1>2, <2>1
<1>4. \A i \in Slot : end[i].key = kept(i) /\ ~end[i].used
  BY <1>2
<1> HIDE DEF end
<1>5. \A i, j \in Slot : end[i].key = end[j].key => i = j \/ end[i].key = NoContact
  BY <1>1, <1>4
<1>6. \A i \in Slot : end[i].key \in Down(end) \cup {NoContact}
  BY DEF Down
<1>7. Used(end) = {}
  BY <1>4 DEF Used
<1>8. Down(end) = Used(sl)
  <2>1. ASSUME NEW x \in Down(end) PROVE x \in Used(sl)
    <3>1. PICK i \in Slot : end[i].key = x /\ x # NoContact
      BY <2>1 DEF Down
    <3>2. sl[i].used /\ sl[i].key = x
      BY <1>4, <3>1
    <3> QED
      BY <3>2 DEF Used
  <2>2. ASSUME NEW i \in Slot, sl[i].used PROVE sl[i].key \in Down(end)
    <3>1. end[i].key = sl[i].key /\ sl[i].key # NoContact
      BY <1>1, <1>4, <2>2
    <3> QED
      BY <3>1 DEF Down
  <2> QED
    BY <2>1, <2>2 DEF Used
<1> QED
  BY <1>3, <1>4, <1>5, <1>6, <1>7, <1>8 DEF SlotsInv, end

-----------------------------------------------------------------------------
(***************************************************************************)
(* A packet that arrives.                                                  *)
(***************************************************************************)
\* The contacts that have come, and those that come.
LEMMA ComingIs ==
  ASSUME TouchType
  PROVE  /\ Come \cup Coming(Left) = Touches(scan)
         /\ IsFiniteSet(Touches(scan) \cup shown)
         /\ \A n \in 0 .. Left : Coming(n) \subseteq Coming(Left)
         /\ \A n \in 0 .. Left :
              Come \cup Coming(n) = {scan[i] : i \in 1 .. sent * PerPacket + n} \ Tag
<1> DEFINE at == sent * PerPacket
<1>1. at \in Nat /\ Left \in Nat /\ Len(scan) \in Nat /\ Left = Len(scan) - at
  BY PacketIs DEF Left
<1>2. scan \in Seq(Contact) /\ Range(scan) = {scan[i] : i \in 1 .. Len(scan)}
  BY ScanIs, RangeIn DEF TouchType
<1>3. Coming(Left) = {scan[j] : j \in {k \in 1 .. Len(scan) : at < k /\ k <= at + Left}} \ Tag
  BY DEF Coming
<1>4. ASSUME NEW n \in 0 .. Left
      PROVE  /\ Coming(n) \subseteq Coming(Left)
             /\ Come \cup Coming(n) = {scan[i] : i \in 1 .. at + n} \ Tag
  <2> DEFINE next == {k \in 1 .. Len(scan) : at < k /\ k <= at + n}
  <2>1. n \in Nat /\ at + n <= Len(scan)
    BY <1>1
  <2>2. 1 .. at + n = (1 .. at) \cup next
    <3> HIDE DEF at
    <3> QED
      BY <1>1, <2>1
  <2>3. Coming(n) = {scan[j] : j \in next} \ Tag /\ Come = {scan[j] : j \in 1 .. at} \ Tag
    BY DEF Coming, Come
  <2>4. next \subseteq {k \in 1 .. Len(scan) : at < k /\ k <= at + Left}
    <3> HIDE DEF at
    <3> QED
      BY <1>1, <2>1
  <2> HIDE DEF at, next
  <2> QED
    BY <1>3, <2>2, <2>3, <2>4
<1>5. at + Left = Len(scan) /\ Left \in 0 .. Left
  <2> HIDE DEF at
  <2> QED
    BY <1>1
<1>6. Come \cup Coming(Left) = {scan[i] : i \in 1 .. Len(scan)} \ Tag
  BY <1>4, <1>5
<1>7. Touches(scan) \in SUBSET Contact /\ Come \cup Coming(Left) = Touches(scan)
  <2>1. \A i \in 1 .. Len(scan) : scan[i] \in Contact
    BY <1>2
  <2> QED
    BY <1>2, <1>6, <2>1 DEF Touches
<1>8. IsFiniteSet(Touches(scan) \cup shown)
  <2>1. Touches(scan) \cup shown \in SUBSET Contact
    BY <1>7 DEF TouchType
  <2> QED
    BY <2>1, FS_Subset
<1> QED
  BY <1>4, <1>7, <1>8

\* The device.
LEMMA SendKeeps ==
  ASSUME TouchType, Send \/ UNCHANGED devVars
  PROVE  /\ scan' \in Scans /\ sent' \in Nat /\ sent' < Packets(scan')
         /\ ~LastPacket /\ Send => scan' = scan /\ sent' = sent + 1 /\ Left' = Left - PerPacket
         /\ LastPacket /\ Send => sent' = 0
<1>1. sent \in Nat /\ scan \in Scans /\ Packets(scan) \in Nat \ {0} /\ sent < Packets(scan)
  BY ScanIs DEF TouchType
<1>2. CASE Send /\ LastPacket
  <2>1. scan' \in Scans /\ sent' = 0
    BY <1>2 DEF Send
  <2>2. Packets(scan') \in Nat \ {0}
    BY <2>1, ScanIs
  <2> QED
    BY <1>2, <2>1, <2>2
<1>3. CASE Send /\ ~LastPacket
  <2>1. scan' = scan /\ sent' = sent + 1
    BY <1>3 DEF Send
  <2>2. sent + 1 # Packets(scan)
    BY <1>3 DEF LastPacket
  <2>3. (sent + 1) * PerPacket = sent * PerPacket + PerPacket
    BY <1>1, Z3
  <2>4. Left' = Left - PerPacket
    <3>1. Left' = Len(scan) - (sent + 1) * PerPacket
      BY <2>1 DEF Left
    <3>2. Left = Len(scan) - sent * PerPacket /\ sent * PerPacket \in Nat /\ Len(scan) \in Nat
      BY PacketIs DEF Left
    <3> QED
      BY <2>3, <3>1, <3>2
  <2>5. sent + 1 \in Nat /\ sent + 1 < Packets(scan)
    BY <1>1, <2>2
  <2> QED
    BY <1>1, <1>3, <2>1, <2>4, <2>5
<1>4. CASE ~Send /\ UNCHANGED devVars
  BY <1>1, <1>4 DEF devVars
<1> QED
  BY <1>2, <1>3, <1>4

\* What a packet of a scan that is read from its start does.
Whole ==
  inStep => /\ need_blobs' = -1 <=> LastPacket
            /\ LastPacket =>
                 /\ shown' \subseteq Touches(scan)
                 /\ Cardinality(Touches(scan) \cup shown) <= MaxContacts
                      => shown' = Touches(scan)

LEMMA PacketHandled ==
  ASSUME TouchInv, TouchPacket
  PROVE  TouchInv' /\ Whole
<1> DEFINE need == IF need_blobs < 0 THEN Count ELSE need_blobs
           n    == Smaller(Len(Blobs), need)
           b    == SubSeq(Blobs, 1, n)
           sl   == ReportBlobs(b)
           left == need - n
<1>0. TouchType /\ SlotsInv(slots, shown) /\ Framing /\ Recovering
  BY DEF TouchInv
<1>1. /\ sent * PerPacket \in Nat /\ Left \in Nat /\ (sent > 0 => Left > 0)
      /\ Count = (IF sent = 0 THEN Left ELSE 0)
      /\ Len(Blobs) \in Nat
      /\ LastPacket => Left <= PerPacket /\ Left <= Len(Blobs)
      /\ ~LastPacket => Left > PerPacket /\ Len(Blobs) = PerPacket
  <2>1. Count = (IF sent = 0 THEN Left ELSE 0)
    <3>1. Len(scan) \in Nat /\ (sent = 0 => Left = Len(scan))
      BY <1>0, PacketIs DEF Left
    <3> QED
      BY <3>1 DEF Count
  <2> QED
    BY <1>0, <2>1, PacketIs
<1>2. need_blobs \in Int /\ sent \in Nat
  BY <1>0 DEF TouchType
<1>3. /\ need \in Nat /\ n \in 0 .. Len(Blobs) /\ n <= need /\ left \in Nat
      /\ need <= Len(Blobs) => n = need
      /\ Len(Blobs) <= need => n = Len(Blobs)
  BY <1>1, <1>2 DEF Smaller
<1>4. /\ running /\ Send /\ NewScan /\ running' = running /\ lost' = lost /\ faults' = faults
      /\ left <= 0 => slots' = SyncFrame(sl) /\ shown' = Down(slots') /\ need_blobs' = -1
      /\ ~(left <= 0) => slots' = sl /\ need_blobs' = left /\ shown' = shown
  BY DEF TouchPacket, FrameDone, NeedAfterFrame
<1>5. b \in Seq(Keys) /\ Touches(b) = Coming(n)
      /\ \A i, j \in 1 .. Len(b) : b[i] = b[j] => i = j \/ b[i] = NoContact
  BY <1>0, <1>3, TakenAre
<1>6. /\ SlotsInv(sl, shown)
      /\ Used(slots) \subseteq Used(sl)
      /\ Used(sl) \subseteq Used(slots) \cup Coming(n)
      /\ Cardinality(Down(slots) \cup Coming(n)) <= MaxContacts => Coming(n) \subseteq Used(sl)
  <2> HIDE DEF b
  <2> QED
    BY <1>0, <1>5, ReportsAre
<1>7. /\ Come \cup Coming(Left) = Touches(scan)
      /\ IsFiniteSet(Touches(scan) \cup shown)
      /\ \A m \in 0 .. Left : Coming(m) \subseteq Coming(Left)
      /\ \A m \in 0 .. Left :
           Come \cup Coming(m) = {scan[i] : i \in 1 .. sent * PerPacket + m} \ Tag
  BY <1>0, ComingIs
<1>8. /\ scan' \in Scans /\ sent' \in Nat /\ sent' < Packets(scan')
      /\ ~LastPacket => scan' = scan /\ sent' = sent + 1 /\ Left' = Left - PerPacket
      /\ LastPacket => sent' = 0
  BY <1>0, <1>4, SendKeeps
<1> HIDE DEF need, n, sl, left
\* Whoever counts what is left of the scan ends the frame with it.
<1>9. need = Left => /\ n \in 0 .. Left
                     /\ LastPacket => n = Left /\ left = 0
                     /\ ~LastPacket => n = PerPacket /\ left = Left - PerPacket /\ left > 0
  BY <1>1, <1>3 DEF left
<1>10. left <= 0 => /\ SlotsInv(slots', shown') /\ Used(slots') = {}
                    /\ shown' = Used(sl) /\ \A i \in Slot : ~slots'[i].used
  BY <1>4, <1>6, SyncIs
<1>11. left <= 0 <=> need_blobs' = -1
  BY <1>3, <1>4
\* As long as slots suffice for the scan and what was there before, none runs short.
<1>12. ASSUME inStep
       PROVE  /\ need = Left
              /\ Used(sl) \subseteq Come \cup Coming(n)
              /\ Cardinality(Touches(scan) \cup shown) <= MaxContacts
                   => Used(sl) = Come \cup Coming(n)
  <2>1. need = Left
    BY <1>0, <1>1, <1>12 DEF Framing, need
  <2>2. Used(slots) \subseteq Come
    BY <1>0, <1>12 DEF Framing
  <2>3. ASSUME Cardinality(Touches(scan) \cup shown) <= MaxContacts
        PROVE  Come \cup Coming(n) \subseteq Used(sl)
    <3>1. Used(slots) = Come
      BY <1>0, <1>12, <2>3 DEF Framing
    <3>2. Down(slots) \subseteq Used(slots) \cup shown
      <4>1. ASSUME NEW x \in Down(slots) PROVE x \in Used(slots) \cup shown
        <5>1. PICK i \in Slot : slots[i].key = x /\ x # NoContact
          BY <4>1 DEF Down
        <5>2. slots[i].used \/ x \in shown
          BY <1>0, <5>1 DEF SlotsInv
        <5> QED
          BY <5>1, <5>2 DEF Used
      <4> QED
        BY <4>1
    <3>3. Down(slots) \cup Coming(n) \in SUBSET (Touches(scan) \cup shown)
      BY <1>7, <1>9, <2>1, <3>1, <3>2
    <3>4. /\ Cardinality(Down(slots) \cup Coming(n)) <= Cardinality(Touches(scan) \cup shown)
          /\ Cardinality(Down(slots) \cup Coming(n)) \in Nat
          /\ Cardinality(Touches(scan) \cup shown) \in Nat
      BY <1>7, <3>3, FS_Subset, FS_CardinalityType
    <3>5. Coming(n) \subseteq Used(sl)
      BY <1>6, <2>3, <3>4
    <3> QED
      BY <1>6, <3>1, <3>5
  <2> QED
    BY <1>6, <2>1, <2>2, <2>3
<1>13. TouchType'
  <2>1. need_blobs' \in Int
    BY <1>3, <1>4
  <2>2. shown' \subseteq Contact
    <3>1. shown \subseteq Contact
      BY <1>0 DEF TouchType
    <3>2. \A i \in Slot : sl[i].key \in Keys /\ (sl[i].used => sl[i].key # NoContact)
      BY <1>6 DEF SlotsInv
    <3>3. Used(sl) \subseteq Contact
      BY <3>2 DEF Used, Keys
    <3> QED
      BY <1>3, <1>4, <1>10, <3>1, <3>3
  <2>3. inStep' \in BOOLEAN /\ begun' \in BOOLEAN
    BY <1>0, <1>4 DEF NewScan, TouchType
  <2> QED
    BY <1>0, <1>4, <1>8, <2>1, <2>2, <2>3 DEF TouchType
<1>14. SlotsInv(slots', shown')
  BY <1>4, <1>6, <1>10
<1>15. Framing'
  <2>1. CASE LastPacket
    <3> SUFFICES ASSUME inStep' PROVE /\ need_blobs' = -1 /\ sent' = 0
                                      /\ Used(slots') = {} /\ Come' = {}
      BY DEF Framing
    <3>1. need_blobs' = -1 /\ sent' = 0
      BY <1>4, <1>8, <2>1 DEF NewScan
    <3>2. Used(slots') = {}
      BY <1>10, <1>11, <3>1
    <3>3. Come' = {}
      <4>1. sent' * PerPacket = 0
        BY <3>1
      <4> QED
        BY <4>1 DEF Come
    <3> QED
      BY <3>1, <3>2, <3>3
  <2>2. CASE ~LastPacket
    <3> SUFFICES ASSUME inStep
                 PROVE  /\ need_blobs' = Left' /\ sent' # 0
                        /\ Used(slots') \subseteq Come'
                        /\ Cardinality(Touches(scan') \cup shown') <= MaxContacts
                             => Used(slots') = Come'
      BY <1>4, <2>2 DEF Framing, NewScan
    <3>1. need = Left /\ n = PerPacket /\ left = Left - PerPacket /\ left > 0
      BY <1>9, <1>12, <2>2
    <3>2. /\ need_blobs' = Left' /\ sent' = sent + 1 /\ scan' = scan
          /\ slots' = sl /\ shown' = shown
      BY <1>4, <1>8, <2>2, <3>1
    <3>3. Come' = Come \cup Coming(n)
      <4>1. (sent + 1) * PerPacket = sent * PerPacket + PerPacket
        BY <1>2, Z3
      <4>2. Come' = {scan[i] : i \in 1 .. sent * PerPacket + PerPacket} \ Tag
        BY <3>2, <4>1 DEF Come
      <4> QED
        BY <1>7, <1>9, <3>1, <4>2
    <3>4. Touches(scan') = Touches(scan)
      BY <3>2
    <3> QED
      BY <1>2, <1>12, <3>2, <3>3, <3>4
  <2> QED
    BY <2>1, <2>2
<1>16. Recovering'
  <2> SUFFICES ASSUME ~lost PROVE IF begun' THEN inStep'
                                  ELSE /\ need_blobs' \in {-1, Left'}
                                       /\ sent' = 0 => need_blobs' = -1
    BY <1>4 DEF Recovering
  <2>1. need = Left \/ (need = 0 /\ ~begun)
    <3>1. CASE begun
      BY <1>0, <1>4, <1>12, <3>1 DEF Recovering
    <3>2. CASE ~begun
      BY <1>0, <1>1, <1>4, <3>2 DEF Recovering, need
    <3> QED
      BY <3>1, <3>2
  <2>2. need = 0 => left = 0
    BY <1>3 DEF left
  <2>3. CASE LastPacket
    <3>1. left = 0
      BY <1>9, <2>1, <2>2, <2>3
    <3>2. need_blobs' = -1 /\ \A i \in Slot : ~slots'[i].used
      BY <1>10, <1>11, <3>1
    <3> QED
      BY <1>4, <2>3, <3>2 DEF NewScan
  <2>4. CASE ~LastPacket
    <3>1. inStep' = inStep /\ begun' = begun
      BY <1>0, <1>4, <2>4 DEF NewScan, TouchType
    <3>2. begun => inStep
      BY <1>0, <1>4 DEF Recovering
    <3>3. need_blobs' \in {-1, Left'}
      BY <1>4, <1>8, <1>9, <1>11, <2>1, <2>2, <2>4
    <3>4. sent' # 0
      BY <1>2, <1>8, <2>4
    <3> QED
      BY <3>1, <3>2, <3>3, <3>4
  <2> QED
    BY <2>3, <2>4
<1>17. Resting'
  BY <1>4 DEF Resting
<1>18. Whole
  <2> SUFFICES ASSUME inStep PROVE /\ need_blobs' = -1 <=> LastPacket
                                   /\ LastPacket =>
                                        /\ shown' \subseteq Touches(scan)
                                        /\ Cardinality(Touches(scan) \cup shown) <= MaxContacts
                                             => shown' = Touches(scan)
    BY DEF Whole
  <2>1. need_blobs' = -1 <=> LastPacket
    BY <1>3, <1>9, <1>11, <1>12
  <2>2. LastPacket => n = Left /\ shown' = Used(sl)
    BY <1>9, <1>10, <1>12
  <2> QED
    BY <1>7, <1>12, <2>1, <2>2
<1> QED
  BY <1>13, <1>14, <1>15, <1>16, <1>17, <1>18 DEF TouchInv

-----------------------------------------------------------------------------
LEMMA TouchInitially == Init => TouchInv
<1> SUFFICES ASSUME Init PROVE TouchInv
  OBVIOUS
<1>1. TouchType
  <2>1. Packets(scan) \in Nat \ {0} /\ scan \in Scans
    BY ScanIs DEF Init
  <2>2. scan \in Scans /\ sent \in Nat /\ sent < Packets(scan) /\ shown = {}
    BY <2>1 DEF Init
  <2>3. need_blobs \in Int /\ faults \in Nat
    BY DEF Init
  <2>4. running \in BOOLEAN /\ inStep \in BOOLEAN /\ begun \in BOOLEAN /\ lost \in BOOLEAN
    BY DEF Init
  <2> QED
    BY <2>2, <2>3, <2>4 DEF TouchType
<1>2. SlotsInv(slots, shown)
  BY DEF Init, SlotsInv, Keys
<1> QED
  BY <1>1, <1>2 DEF Init, TouchInv, Resting, Framing, Recovering

LEMMA TouchStep ==
  ASSUME TouchInv, [Next]_vars
  PROVE  TouchInv' /\ (running /\ UNCHANGED <<running, faults>> => Whole \/ UNCHANGED vars)
<1>1. CASE TouchPacket
  BY <1>1, PacketHandled
<1>2. ASSUME Send \/ UNCHANGED devVars
      PROVE scan' \in Scans /\ sent' \in Nat /\ sent' < Packets(scan')
  BY <1>2, SendKeeps DEF TouchInv
<1>3. TouchType /\ SlotsInv(slots, shown) /\ Resting
  BY DEF TouchInv
<1>4. faults \in Nat /\ faults + 1 # faults
  BY <1>3 DEF TouchType
<1>5. CASE TouchError
  <2>1. /\ faults' = faults + 1 /\ ~inStep' /\ ~begun' /\ ~lost' /\ need_blobs' = -1
        /\ inStep' \in BOOLEAN /\ begun' \in BOOLEAN /\ lost' \in BOOLEAN
        /\ running /\ UNCHANGED <<running, slots, shown>>
    BY <1>5 DEF TouchError, Fault, NeedAfterError
  <2>2. scan' \in Scans /\ sent' \in Nat /\ sent' < Packets(scan')
    BY <1>2, <1>5 DEF TouchError
  <2>3. TouchType'
    BY <1>3, <2>1, <2>2 DEF TouchType
  <2> QED
    BY <1>3, <1>4, <2>1, <2>3 DEF TouchInv, SlotsInv, Resting, Framing, Recovering
<1>6. CASE LosePacket
  <2>1. /\ faults' = faults + 1 /\ ~inStep' /\ ~begun' /\ lost'
        /\ inStep' \in BOOLEAN /\ begun' \in BOOLEAN /\ lost' \in BOOLEAN
        /\ running /\ UNCHANGED <<running, need_blobs, slots, shown>>
    BY <1>6 DEF LosePacket, Fault, drvVars
  <2>2. scan' \in Scans /\ sent' \in Nat /\ sent' < Packets(scan')
    BY <1>2, <1>6 DEF LosePacket
  <2>3. TouchType'
    BY <1>3, <2>1, <2>2 DEF TouchType
  <2> QED
    BY <1>3, <1>4, <2>1, <2>3 DEF TouchInv, SlotsInv, Resting, Framing, Recovering
<1>7. CASE TouchStop
  <2>1. /\ faults' = faults + 1 /\ ~inStep' /\ ~begun' /\ ~lost' /\ ~running' /\ running' \in BOOLEAN
        /\ inStep' \in BOOLEAN /\ begun' \in BOOLEAN /\ lost' \in BOOLEAN
        /\ UNCHANGED <<scan, sent, need_blobs, slots, shown>>
    BY <1>7 DEF TouchStop, Fault, devVars
  <2>2. scan' \in Scans /\ sent' \in Nat /\ sent' < Packets(scan') /\ shown' \subseteq Contact
    BY <1>3, <2>1 DEF TouchType
  <2>3. need_blobs' \in Int /\ faults' \in Nat /\ running' \in BOOLEAN
    BY <1>3, <2>1 DEF TouchType
  <2>4. TouchType'
    BY <2>1, <2>2, <2>3 DEF TouchType
  <2> QED
    BY <1>3, <1>4, <2>1, <2>4 DEF TouchInv, SlotsInv, Resting, Framing, Recovering
<1>8. CASE Unread
  <2>1. ~running /\ UNCHANGED <<running, need_blobs, slots, shown, inStep, begun, lost, faults>>
    BY <1>8 DEF Unread, drvVars, histVars
  <2>2. scan' \in Scans /\ sent' \in Nat /\ sent' < Packets(scan')
    BY <1>2, <1>8 DEF Unread
  <2>3. TouchType'
    BY <1>3, <2>1, <2>2 DEF TouchType
  <2> QED
    BY <1>3, <2>1, <2>3 DEF TouchInv, SlotsInv, Resting, Framing, Recovering
<1>9. CASE TouchStart
  <2>1. /\ ~running /\ running' \in BOOLEAN /\ need_blobs' = -1 /\ need_blobs' \in Int
        /\ UNCHANGED <<scan, sent, slots, shown, inStep, begun, lost, faults>>
    BY <1>9 DEF TouchStart, devVars, histVars
  <2>2. scan' \in Scans /\ sent' \in Nat /\ sent' < Packets(scan') /\ shown' \subseteq Contact
    BY <1>3, <2>1 DEF TouchType
  <2>3. faults' \in Nat /\ inStep' \in BOOLEAN /\ begun' \in BOOLEAN /\ lost' \in BOOLEAN
    BY <1>3, <2>1 DEF TouchType
  <2>4. TouchType'
    BY <2>1, <2>2, <2>3 DEF TouchType
  <2> QED
    BY <1>3, <2>1, <2>4 DEF TouchInv, SlotsInv, Resting, Framing, Recovering
<1>10. CASE UNCHANGED vars
  <2>1. UNCHANGED <<scan, sent, running, need_blobs, slots, shown, inStep, begun, lost, faults>>
    BY <1>10 DEF vars, devVars, drvVars, histVars
  <2>2. TouchType' /\ Come' = Come /\ Left' = Left /\ Touches(scan') = Touches(scan)
    BY <1>3, <2>1 DEF TouchType, Come, Left
  <2> QED
    BY <1>10, <2>1, <2>2 DEF TouchInv, SlotsInv, Resting, Framing, Recovering
<1> QED
  BY <1>1, <1>5, <1>6, <1>7, <1>8, <1>9, <1>10 DEF Next

\* The invariant of the frames: need_blobs counts what is left of a scan that is read from
\* its start, and the slots in use are those of its contacts.
THEOREM TouchInvAlways == Spec => []TouchInv
<1>1. TouchInv /\ [Next]_vars => TouchInv'
  BY TouchStep
<1> QED
  BY <1>1, TouchInitially, PTL DEF Spec

\* A failed URB or a stop of the pipeline costs the scan it hits and at most the next one:
\* resetting need_blobs is enough to be in step again, whatever the sizes of the scans.
THEOREM ErrorsCostTwoScansAlways == Spec => []ErrorsCostTwoScans
<1>1. TouchInv => ErrorsCostTwoScans
  BY DEF TouchInv, Recovering, ErrorsCostTwoScans
<1> QED
  BY <1>1, TouchInvAlways, PTL

\* A scan that is read from its start ends a frame with its last packet, not earlier, and then
\* the input device shows its touches and no others, unless slots run short.
THEOREM WholeScansAlways == Spec => WholeScans
<1> DEFINE Ends == inStep /\ running /\ UNCHANGED <<running, faults>> =>
                     /\ need_blobs' = -1 <=> LastPacket
                     /\ LastPacket =>
                          /\ shown' \subseteq Touches(scan)
                          /\ Cardinality(Touches(scan) \cup shown) <= MaxContacts
                               => shown' = Touches(scan)
<1>1. TouchInv /\ [Next]_vars => [Ends]_vars
  BY TouchStep DEF Whole
<1>2. Spec => [][Ends]_vars
  <2> HIDE DEF Ends
  <2> QED
    BY <1>1, TouchInvAlways, PTL DEF Spec
<1> QED
  BY <1>2 DEF WholeScans
=============================================================================
