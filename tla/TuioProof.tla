------------------------------ MODULE TuioProof ------------------------------
(***************************************************************************)
(* Proofs about TuioManager and TuioServer and the programs on top of      *)
(* them, for any contacts of any number, any scans, any size of packets    *)
(* and any number of faults and lost packets.                              *)
(*                                                                         *)
(* First what holds of every call, and what the proofs about programs need *)
(* of it: two contacts of a kind never have the same identifier, and no    *)
(* identifier is lost but to an external removal; which contacts a call    *)
(* may change, what the packets of a bundle hold, and what a delivery      *)
(* leaves at the receiver.                                                 *)
(*                                                                         *)
(* Then the application that calls in any order (TuioSource): the size of  *)
(* what is sent, and what a receiver shows that got a bundle whole.        *)
(*                                                                         *)
(* Last the daemon (Sur40Tuio): what a receiver shows after a frame and    *)
(* after the end, that the contacts are those of the scan, and that a call *)
(* returns one whole scan.                                                 *)
(***************************************************************************)
EXTENDS TuioSource, Sur40Tuio, DataLemmas

USE KindAssumption

IdType ==
  /\ live \subseteq Contact /\ loop \subseteq live
  /\ id \in [Numbers -> Int]
  /\ max \in [Numbered -> Int] /\ \A k \in Numbered : max[k] >= -1
  /\ DOMAIN free = Numbered

\* What the identifiers' properties are inductive with.
IdInv == IdType /\ IdsUnique /\ IdsPartition

LEMMA OfKind ==
  /\ Of("obj") = Object /\ Of("cur") = Cursor /\ Of("blb") = Blob
  /\ \A k \in Numbered : Of(k) \subseteq Numbers /\ Of(k) \cap Object = {}
  /\ \A k, l \in Numbered : k # l => Of(k) \cap Of(l) = {}
<1>1. Of("obj") = Object /\ Of("cur") = Cursor /\ Of("blb") = Blob
  BY DEF Of
<1> QED
  BY <1>1 DEF Numbered, Numbers

\* The identifiers of one kind.
UniqueOf(k) ==
  /\ \A c, d \in live \cap Of(k) : id[c] = id[d] => c = d
  /\ free[k] \cap Ids(k) = {}
  /\ free[k] \cup Ids(k) \subseteq 0 .. max[k]
PartitionOf(k) ==
  /\ free[k] \cup Ids(k) = 0 .. max[k]
  /\ max[k] >= 0 => max[k] \in Ids(k)

LEMMA ByKind ==
  /\ IdsUnique <=> \A k \in Numbered : UniqueOf(k)
  /\ IdsPartition <=> \A k \in Numbered \ leaked : PartitionOf(k)
  BY DEF IdsUnique, IdsPartition, UniqueOf, PartitionOf

\* Nothing happens to the contacts of a kind.
LEMMA OtherKind ==
  ASSUME IdInv, NEW k \in Numbered, live' \cap Of(k) = live \cap Of(k),
         \A c \in live \cap Of(k) : id'[c] = id[c],
         max'[k] = max[k], free'[k] = free[k]
  PROVE  /\ UniqueOf(k)'
         /\ k \notin leaked => PartitionOf(k)'
<1>1. Ids(k)' = Ids(k)
  BY DEF Ids
<1>2. UniqueOf(k) /\ (k \notin leaked => PartitionOf(k))
  BY ByKind DEF IdInv
<1> QED
  BY <1>1, <1>2 DEF UniqueOf, PartitionOf

\* A contact takes an identifier: a free one, or the one after the maximum.
LEMMA TakeIdKeeps ==
  ASSUME IdInv, NEW k \in Numbered, NEW c \in Of(k) \ live,
         live' = live \cup {c}, TakeId(k, c)
  PROVE  /\ UniqueOf(k)'
         /\ k \notin leaked => PartitionOf(k)'
         /\ id' \in [Numbers -> Int] /\ max' \in [Numbered -> Int]
         /\ \A l \in Numbered : max'[l] >= -1
         /\ DOMAIN free' = Numbered
<1> DEFINE S == live \cap Of(k)
           m == max[k]
           F == free[k]
           n == Cardinality(S)
<1>1. /\ UniqueOf(k) /\ (k \notin leaked => PartitionOf(k))
      /\ m \in Int /\ m >= -1 /\ c \in Numbers
  BY ByKind, OfKind DEF IdInv, IdType
<1>2. IsFiniteSet(S)
  BY FS_Subset DEF IdInv, IdType, Contact
<1>3. /\ \A x \in S : id[x] \in 0 .. m
      /\ \A x, y \in S : id[x] = id[y] => x = y
      /\ F \subseteq 0 .. m /\ F \cap Ids(k) = {}
      /\ Ids(k) = {id[x] : x \in S}
  BY <1>1 DEF UniqueOf, Ids
<1>4. n \in Nat /\ n <= m + 1 /\ (n = m + 1 => Ids(k) = 0 .. m)
  BY <1>1, <1>2, <1>3, Numbering
<1>5. PICK i \in NewIds(k) :
        /\ id' = [id EXCEPT ![c] = i]
        /\ max' = [max EXCEPT ![k] = IF @ < i THEN i ELSE @]
        /\ free' = [free EXCEPT ![k] = @ \ {i}]
  BY DEF TakeId
<1>6. i = m + 1 \/ i \in F
  <2>1. i \in IF n > m THEN {n} ELSE IF F # {} THEN F ELSE {m + 1}
    BY DEF NewIds
  <2> HIDE DEF n, m, F
  <2>2. n > m => n = m + 1
    BY <1>1, <1>4
  <2> QED
    BY <2>1, <2>2
<1>7. i \in Int /\ i >= 0 /\ i \notin Ids(k)
  BY <1>1, <1>3, <1>6
<1>8. Ids(k)' = Ids(k) \cup {i}
  <2>1. id'[c] = i /\ \A x \in S : id'[x] = id[x]
    BY <1>1, <1>5, OfKind DEF IdInv, IdType
  <2>2. (live \cap Of(k))' = S \cup {c}
    BY DEF Of
  <2> QED
    BY <2>1, <2>2 DEF Ids
<1>9. \A x, y \in (live \cap Of(k))' : id'[x] = id'[y] => x = y
  <2>1. id'[c] = i /\ \A x \in S : id'[x] = id[x] /\ id[x] # i
    BY <1>1, <1>3, <1>5, <1>7, OfKind DEF IdInv, IdType
  <2>2. (live \cap Of(k))' = S \cup {c}
    BY DEF Of
  <2> QED
    BY <1>3, <2>1, <2>2
<1>10. /\ i = m + 1 => max'[k] = m + 1 /\ free'[k] = F
       /\ i \in F => max'[k] = m /\ free'[k] = F \ {i}
  <2>1. max'[k] = (IF m < i THEN i ELSE m) /\ free'[k] = F \ {i}
    BY <1>5 DEF IdInv, IdType
  <2>2. i = m + 1 => i \notin F
    BY <1>1, <1>3
  <2>3. i \in F => ~(m < i)
    BY <1>1, <1>3
  <2> QED
    BY <1>1, <2>1, <2>2, <2>3
<1> HIDE DEF S, m, F, n
<1>11. UniqueOf(k)'
  <2>1. free'[k] \cap Ids(k)' = {}
    BY <1>1, <1>3, <1>6, <1>8, <1>10
  <2>2. free'[k] \cup Ids(k)' \subseteq 0 .. max'[k]
    <3>1. F \cup Ids(k) \subseteq 0 .. m
      BY ZenonT(40), <1>3
    <3> QED
      BY <1>1, <1>6, <1>8, <1>10, <3>1
  <2> QED
    BY <1>9, <2>1, <2>2 DEF UniqueOf
<1>12. ASSUME k \notin leaked PROVE PartitionOf(k)'
  <2>1. F \cup Ids(k) = 0 .. m /\ (m >= 0 => m \in Ids(k))
    BY <1>1, <1>12 DEF PartitionOf, F, m
  <2>2. free'[k] \cup Ids(k)' = 0 .. max'[k]
    BY <1>1, <1>3, <1>6, <1>8, <1>10, <2>1
  <2>3. max'[k] >= 0 => max'[k] \in Ids(k)'
    BY <1>1, <1>6, <1>8, <1>10, <2>1
  <2> QED
    BY <2>2, <2>3 DEF PartitionOf
<1>13. id' \in [Numbers -> Int] /\ max' \in [Numbered -> Int] /\ DOMAIN free' = Numbered
  BY <1>1, <1>5, <1>7 DEF IdInv, IdType
<1>14. \A l \in Numbered : max'[l] >= -1
  <2> TAKE l \in Numbered
  <2>1. max'[l] = IF l = k /\ m < i THEN i ELSE max[l]
    BY <1>5 DEF IdInv, IdType, m
  <2> QED
    BY <1>7, <2>1 DEF IdInv, IdType
<1> QED
  BY <1>11, <1>12, <1>13, <1>14

\* What is left of a kind when one of its contacts goes.
LEMMA IdsWithout ==
  ASSUME IdInv, NEW k \in Numbered, NEW c \in live \cap Of(k), live' = live \ {c},
         id' = [d \in Numbers |-> IF d = c THEN -1 ELSE id[d]]
  PROVE  /\ Ids(k)' = Ids(k) \ {id[c]}
         /\ Ids(k)' = {id[d] : d \in (live \cap Of(k)) \ {c}}
         /\ id[c] \in Ids(k) /\ id[c] \in 0 .. max[k]
         /\ \A x, y \in (live \cap Of(k))' : id'[x] = id'[y] => x = y
         /\ id' \in [Numbers -> Int]
<1> DEFINE S == live \cap Of(k)
<1>1. /\ \A x, y \in S : id[x] = id[y] => x = y
      /\ Ids(k) = {id[x] : x \in S} /\ Ids(k) \subseteq 0 .. max[k]
  BY ByKind DEF IdInv, UniqueOf, Ids
<1>2. (live \cap Of(k))' = S \ {c}
  BY DEF Of
<1>3. \A x \in S \ {c} : id'[x] = id[x]
  BY OfKind DEF IdInv, IdType
<1>4. Ids(k)' = {id[x] : x \in S \ {c}}
  BY <1>2, <1>3 DEF Ids
<1> HIDE DEF S
<1>5. c \in S
  BY DEF S
<1>6. Ids(k)' = Ids(k) \ {id[c]} /\ id[c] \in Ids(k) /\ id[c] \in 0 .. max[k]
  BY <1>1, <1>4, <1>5
<1>7. id' \in [Numbers -> Int]
  BY DEF IdInv, IdType
<1> QED
  BY <1>1, <1>2, <1>3, <1>4, <1>6, <1>7 DEF S

\* The identifier of a contact that goes is free again, or is dropped with all the free
\* ones above the new maximum.
LEMMA DropIdKeeps ==
  ASSUME IdInv, NEW k \in Numbered, NEW c \in live \cap Of(k), live' = live \ {c},
         id' = [d \in Numbers |-> IF d = c THEN -1 ELSE id[d]],
         DropId(k, c)
  PROVE  /\ UniqueOf(k)'
         /\ k \notin leaked \/ max'[k] = -1 => PartitionOf(k)'
         /\ id' \in [Numbers -> Int] /\ max' \in [Numbered -> Int]
         /\ \A l \in Numbered : max'[l] >= -1
         /\ DOMAIN free' = Numbered
<1> DEFINE m == max[k]
           F == free[k]
           i == id[c]
           J == Ids(k)
           K == Ids(k)'
           top == MaxOf({id[d] : d \in (live \cap Of(k)) \ {c}})
<1>1. /\ K = J \ {i} /\ i \in J /\ i \in 0 .. m /\ top = MaxOf(K)
      /\ \A x, y \in (live \cap Of(k))' : id'[x] = id'[y] => x = y
      /\ id' \in [Numbers -> Int]
  BY ZenonT(40), IdsWithout
<1>2. /\ J \subseteq 0 .. m /\ F \subseteq 0 .. m /\ F \cap J = {} /\ m \in Int /\ m >= -1
      /\ k \notin leaked => F \cup J = 0 .. m /\ (m >= 0 => m \in J)
  BY ByKind DEF IdInv, IdType, UniqueOf, PartitionOf
<1>3. /\ i = m => max' = [max EXCEPT ![k] = top]
                  /\ free' = [free EXCEPT ![k] = {x \in @ : x <= top}]
      /\ i # m => /\ max' = max
                  /\ free' = [free EXCEPT ![k] = IF i < m THEN @ \cup {i} ELSE @]
  BY DEF DropId
<1>4. /\ i = m => max'[k] = top /\ free'[k] = {x \in F : x <= top}
      /\ i # m => max'[k] = m /\ free'[k] = F \cup {i}
  <2>1. i # m => i < m
    BY <1>1, <1>2
  <2> QED
    BY <1>3, <2>1 DEF IdInv, IdType
<1>5. top \in Int /\ top >= -1 /\ (\A x \in K : x <= top) /\ (top >= 0 => top \in K) /\ top <= m
  <2> HIDE DEF J, K, m, i, top
  <2>1. CASE K = {}
    BY <1>1, <1>2, <2>1 DEF MaxOf
  <2>2. CASE K # {}
    <3>1. K \subseteq Int /\ \A x \in K : x <= m /\ x >= 0
      BY <1>1, <1>2
    <3>2. Max(K) \in K /\ \A x \in K : x <= Max(K)
      BY <1>2, <2>2, <3>1, MaxIs
    <3>3. top = Max(K)
      BY <1>1, <2>2 DEF MaxOf
    <3> DEFINE t == Max(K)
    <3> HIDE DEF t
    <3>4. t \in Int /\ t >= 0 /\ t <= m /\ t \in K /\ \A x \in K : x <= t
      BY <3>1, <3>2 DEF t
    <3> QED
      BY <3>3, <3>4 DEF t
  <2> QED
    BY <2>1, <2>2
<1>6. max' \in [Numbered -> Int] /\ DOMAIN free' = Numbered /\ \A l \in Numbered : max'[l] >= -1
  BY <1>3, <1>5 DEF IdInv, IdType
<1> HIDE DEF m, F, i, J, K, top
<1>7. free'[k] \cap K = {} /\ free'[k] \cup K \subseteq 0 .. max'[k]
  <2>1. CASE i = m
    <3>1. free'[k] = {x \in F : x <= top} /\ max'[k] = top
      BY <1>4, <2>1
    <3>2. F \cap K = {} /\ \A x \in F \cup K : x \in 0 .. m
      BY <1>1, <1>2
    <3>3. \A x \in K : x \in 0 .. top
      BY <1>5, <3>2
    <3>4. \A x \in F : x <= top => x \in 0 .. top
      BY <1>5, <3>2
    <3> QED
      BY <3>1, <3>2, <3>3, <3>4
  <2>2. CASE i # m
    BY <1>1, <1>2, <1>4, <2>2
  <2> QED
    BY <2>1, <2>2
<1>8. UniqueOf(k)'
  BY <1>1, <1>7 DEF UniqueOf, K
<1>9. k \notin leaked => PartitionOf(k)'
  <2> SUFFICES ASSUME F \cup J = 0 .. m, m >= 0 => m \in J
               PROVE  free'[k] \cup K = 0 .. max'[k] /\ (max'[k] >= 0 => max'[k] \in K)
    BY <1>2 DEF PartitionOf, K
  <2>1. CASE i = m
    <3>1. 0 .. top \subseteq free'[k] \cup K
      <4> SUFFICES ASSUME NEW x \in 0 .. top PROVE x \in free'[k] \cup K
        OBVIOUS
      <4>1. x \in 0 .. m /\ x <= top
        BY <1>2, <1>5
      <4>2. x = i => x \in K
        BY <1>2, <1>5, <2>1, <4>1
      <4> QED
        BY <1>1, <1>4, <2>1, <4>1, <4>2
    <3> QED
      BY <1>4, <1>5, <1>7, <2>1, <3>1
  <2>2. CASE i # m
    BY <1>1, <1>2, <1>4, <2>2
  <2> QED
    BY <2>1, <2>2
<1>10. max'[k] = -1 => PartitionOf(k)'
  BY <1>7 DEF PartitionOf, K
<1> QED
  BY <1>1, <1>6, <1>8, <1>9, <1>10

-----------------------------------------------------------------------------
(***************************************************************************)
(* The calls of the manager keep the invariant.                            *)
(***************************************************************************)
\* A step that no kind with identifiers notices.
LEMMA UnnumberedKeeps ==
  ASSUME IdInv, live' \cap Numbers = live \cap Numbers, live' \subseteq Contact,
         loop' \subseteq live', UNCHANGED <<id, max, free, leaked>>
  PROVE  IdInv'
<1>1. \A k \in Numbered : live' \cap Of(k) = live \cap Of(k)
  BY OfKind
<1>2. \A k \in Numbered : UniqueOf(k)' /\ (k \notin leaked => PartitionOf(k)')
  BY <1>1, OtherKind
<1>3. IdsUnique' /\ IdsPartition'
  BY <1>2 DEF IdsUnique, IdsPartition, UniqueOf, PartitionOf
<1> QED
  BY <1>3 DEF IdInv, IdType

\* A contact with an identifier joins.
LEMMA AddKeeps ==
  ASSUME IdInv, NEW k \in Numbered, NEW c \in Contact, Add(k, c), TakeId(k, c)
  PROVE  IdInv'
<1>1. /\ c \in Of(k) \ live /\ live' = live \cup {c} /\ leaked' = leaked
      /\ loop' = loop /\ loop = {}
  BY DEF Add
<1>2. /\ UniqueOf(k)' /\ (k \notin leaked => PartitionOf(k)')
      /\ id' \in [Numbers -> Int] /\ max' \in [Numbered -> Int]
      /\ (\A l \in Numbered : max'[l] >= -1) /\ DOMAIN free' = Numbered
  BY <1>1, TakeIdKeeps
<1>3. ASSUME NEW l \in Numbered, l # k
      PROVE  UniqueOf(l)' /\ (l \notin leaked => PartitionOf(l)')
  <2>1. c \notin Of(l)
    BY <1>1, <1>3, OfKind
  <2>2. live' \cap Of(l) = live \cap Of(l)
    BY <1>1, <2>1
  <2>3. /\ max'[l] = max[l] /\ free'[l] = free[l]
        /\ \A d \in live \cap Of(l) : id'[d] = id[d]
    BY <1>3, <2>1, OfKind DEF TakeId, IdInv, IdType
  <2> QED
    BY <2>2, <2>3, OtherKind
<1>4. IdsUnique' /\ IdsPartition'
  BY <1>1, <1>2, <1>3 DEF IdsUnique, IdsPartition, UniqueOf, PartitionOf
<1> QED
  BY <1>1, <1>2, <1>4 DEF IdInv, IdType

\* A contact with an identifier goes; an external removal keeps its identifier out of use.
LEMMA RemoveKeeps ==
  ASSUME IdInv, NEW k \in Numbered, NEW c \in Contact, Remove(k, c), loop' \subseteq live',
         \/ DropId(k, c) /\ Forget(k)
         \/ UNCHANGED <<max, free>> /\ leaked' = leaked \cup {k}
  PROVE  IdInv'
<1>1. /\ c \in live \cap Of(k) /\ live' = live \ {c}
      /\ id' = [d \in Numbers |-> IF d = c THEN -1 ELSE id[d]]
  BY DEF Remove
<1>2. /\ UniqueOf(k)' /\ (k \notin leaked' => PartitionOf(k)')
      /\ id' \in [Numbers -> Int] /\ max' \in [Numbered -> Int]
      /\ (\A l \in Numbered : max'[l] >= -1) /\ DOMAIN free' = Numbered
  <2>1. CASE DropId(k, c) /\ Forget(k)
    <3>1. k \notin leaked' => k \notin leaked \/ max'[k] = -1
      BY <2>1 DEF Forget
    <3> QED
      BY <1>1, <2>1, <3>1, DropIdKeeps
  <2>2. CASE UNCHANGED <<max, free>> /\ leaked' = leaked \cup {k}
    <3>1. /\ Ids(k)' = Ids(k) \ {id[c]} /\ id' \in [Numbers -> Int]
          /\ \A x, y \in (live \cap Of(k))' : id'[x] = id'[y] => x = y
      BY <1>1, IdsWithout
    <3>2. UniqueOf(k)
      BY ByKind DEF IdInv
    <3> QED
      BY <2>2, <3>1, <3>2 DEF UniqueOf, IdInv, IdType
  <2> QED
    BY <2>1, <2>2
<1>3. ASSUME NEW l \in Numbered, l # k
      PROVE  UniqueOf(l)' /\ (l \notin leaked' => PartitionOf(l)')
  <2>1. c \notin Of(l) /\ live' \cap Of(l) = live \cap Of(l)
    BY <1>1, <1>3, OfKind
  <2>2. \A d \in live \cap Of(l) : id'[d] = id[d]
    BY <1>1, <2>1, OfKind
  <2>3. max'[l] = max[l] /\ free'[l] = free[l]
    BY <1>3 DEF DropId, IdInv, IdType
  <2>4. l \notin leaked' => l \notin leaked
    BY <1>3 DEF Forget
  <2> QED
    BY <2>1, <2>2, <2>3, <2>4, OtherKind
<1>4. IdsUnique' /\ IdsPartition'
  BY <1>2, <1>3 DEF IdsUnique, IdsPartition, UniqueOf, PartitionOf
<1> QED
  BY <1>1, <1>2, <1>4 DEF IdInv, IdType

LEMMA RemoveTuioKeeps ==
  ASSUME IdInv, NEW c \in Contact, RemoveTuio(c), loop' \subseteq loop \ {c} \/ loop' = {}
  PROVE  IdInv'
<1>1. live' = live \ {c} /\ loop' \subseteq live'
  BY DEF RemoveTuio, RemoveTuioObject, RemoveTuioCursor, RemoveTuioBlob, Remove, IdInv, IdType
<1>2. CASE RemoveTuioObject(c)
  <2>1. c \notin Numbers
    BY <1>2, OfKind DEF RemoveTuioObject, Remove, Numbers
  <2>2. id' = id
    BY <1>2, <2>1 DEF RemoveTuioObject, Remove, IdInv, IdType
  <2>3. live' \cap Numbers = live \cap Numbers /\ live' \subseteq Contact
    BY <1>1, <2>1 DEF IdInv, IdType
  <2> QED
    BY <1>1, <1>2, <2>2, <2>3, UnnumberedKeeps DEF RemoveTuioObject
<1>3. CASE RemoveTuioCursor(c)
  BY <1>1, <1>3, RemoveKeeps DEF RemoveTuioCursor, Numbered
<1>4. CASE RemoveTuioBlob(c)
  BY <1>1, <1>4, RemoveKeeps DEF RemoveTuioBlob, Numbered
<1> QED
  BY <1>2, <1>3, <1>4 DEF RemoveTuio

LEMMA NextKeepsIds == IdInv /\ [Next]_mgrVars => IdInv'
<1> SUFFICES ASSUME IdInv, [Next]_mgrVars PROVE IdInv'
  OBVIOUS
<1>1. ASSUME UNCHANGED <<live, id, max, free, leaked>>, loop' \subseteq live PROVE IdInv'
  <2>1. live \subseteq Contact
    BY DEF IdInv, IdType
  <2> QED
    BY <1>1, <2>1, UnnumberedKeeps
<1>2. CASE UNCHANGED mgrVars
  BY <1>1, <1>2 DEF mgrVars, listVars, IdInv, IdType
<1>3. CASE InitFrame
  BY <1>1, <1>3 DEF InitFrame, IdInv, IdType
<1>4. ASSUME NEW c \in Contact, NEW k \in Kinds, Add(k, c), k = "obj" => UNCHANGED <<id, max, free>>,
             k # "obj" => TakeId(k, c)
      PROVE  IdInv'
  <2>1. CASE k = "obj"
    <3>1. /\ live' = live \cup {c} /\ loop' = {} /\ c \notin Numbers /\ UNCHANGED leaked
      BY <1>4, <2>1, OfKind DEF Add, Numbers
    <3>2. live' \cap Numbers = live \cap Numbers /\ live' \subseteq Contact
      BY <3>1 DEF IdInv, IdType
    <3> QED
      BY <1>4, <2>1, <3>1, <3>2, UnnumberedKeeps
  <2>2. CASE k # "obj"
    BY <1>4, <2>2, AddKeeps DEF Kinds, Numbered
  <2> QED
    BY <2>1, <2>2
<1>5. ASSUME NEW c \in Contact,
             \/ AddTuioObject(c) \/ AddTuioCursor(c) \/ AddTuioBlob(c)
             \/ AddExternalTuioObject(c) \/ AddExternalTuioCursor(c) \/ AddExternalTuioBlob(c)
      PROVE  IdInv'
  <2>1. /\ AddTuioObject(c) \/ AddExternalTuioObject(c) =>
             Add("obj", c) /\ UNCHANGED <<id, max, free>>
        /\ AddTuioCursor(c) \/ AddExternalTuioCursor(c) => Add("cur", c) /\ TakeId("cur", c)
        /\ AddTuioBlob(c) \/ AddExternalTuioBlob(c) => Add("blb", c) /\ TakeId("blb", c)
    BY DEF AddTuioObject, AddTuioCursor, AddTuioBlob, AddExternalTuioObject,
           AddExternalTuioCursor, AddExternalTuioBlob
  <2> QED
    BY <1>4, <1>5, <2>1 DEF Kinds
<1>6. ASSUME NEW c \in Contact,
             \/ UpdateTuioObject(c) \/ UpdateTuioCursor(c) \/ UpdateTuioBlob(c)
             \/ UpdateExternalTuioObject(c) \/ UpdateExternalTuioCursor(c)
             \/ UpdateExternalTuioBlob(c)
      PROVE  IdInv'
  <2>1. \E k \in Kinds : Update(k, c)
    BY <1>6 DEF UpdateTuioObject, UpdateTuioCursor, UpdateTuioBlob, UpdateExternalTuioObject,
                UpdateExternalTuioCursor, UpdateExternalTuioBlob, Kinds
  <2> QED
    BY <1>1, <2>1 DEF Update, IdInv, IdType
<1>7. ASSUME NEW c \in Contact, loop = {} /\ RemoveTuio(c) /\ UNCHANGED loop PROVE IdInv'
  BY <1>7, RemoveTuioKeeps
<1>8. ASSUME NEW c \in Contact,
             \/ RemoveExternalTuioObject(c) \/ RemoveExternalTuioCursor(c)
             \/ RemoveExternalTuioBlob(c)
      PROVE  IdInv'
  <2>1. loop' = {}
    BY <1>8 DEF RemoveExternalTuioObject, RemoveExternalTuioCursor, RemoveExternalTuioBlob,
                RemoveExternal
  <2>2. CASE RemoveExternalTuioObject(c)
    <3>1. RemoveTuioObject(c)
      BY <2>2 DEF RemoveExternalTuioObject, RemoveExternal, RemoveTuioObject
    <3> QED
      BY <2>1, <3>1, RemoveTuioKeeps DEF RemoveTuio
  <2>3. CASE RemoveExternalTuioCursor(c)
    BY <2>1, <2>3, RemoveKeeps DEF RemoveExternalTuioCursor, RemoveExternal, Numbered
  <2>4. CASE RemoveExternalTuioBlob(c)
    BY <2>1, <2>4, RemoveKeeps DEF RemoveExternalTuioBlob, RemoveExternal, Numbered
  <2> QED
    BY <1>8, <2>2, <2>3, <2>4
<1>9. ASSUME StopUntouchedMovingObjects \/ StopUntouchedMovingCursors
               \/ StopUntouchedMovingBlobs
      PROVE  IdInv'
  <2>1. UNCHANGED <<live, id, max, free, loop, leaked>>
    BY <1>9 DEF StopUntouchedMovingObjects, StopUntouchedMovingCursors,
                StopUntouchedMovingBlobs, StopUntouched
  <2> QED
    BY <1>1, <2>1 DEF IdInv, IdType
<1>10. ASSUME \/ RemoveUntouchedStoppedObjects \/ RemoveUntouchedStoppedCursors
              \/ RemoveUntouchedStoppedBlobs
              \/ ResetTuioObjects \/ ResetTuioCursors \/ ResetTuioBlobs
       PROVE  IdInv'
  <2>1. PICK S \in SUBSET live : StartLoop(S)
    BY <1>10 DEF RemoveUntouchedStoppedObjects, RemoveUntouchedStoppedCursors,
         RemoveUntouchedStoppedBlobs, ResetTuioObjects, ResetTuioCursors, ResetTuioBlobs,
         UntouchedStopped
  <2> QED
    BY <1>1, <2>1 DEF StartLoop
<1>11. CASE LoopStep
  BY <1>11, RemoveTuioKeeps DEF LoopStep, IdInv, IdType
<1> QED
  BY <1>2, <1>3, <1>5, <1>6, <1>7, <1>8, <1>9, <1>10, <1>11 DEF Next

LEMMA InitHasIds == Init => IdInv
<1> SUFFICES ASSUME Init PROVE IdInv
  OBVIOUS
<1>1. IdType
  BY DEF Init, IdType
<1>2. \A k \in Numbered : Ids(k) = {} /\ free[k] = {} /\ max[k] = -1
  BY DEF Init, Ids
<1>3. IdsUnique /\ IdsPartition
  BY <1>2 DEF Init, IdsUnique, IdsPartition
<1> QED
  BY <1>1, <1>3 DEF IdInv

\* Whatever calls add and remove cursors and blobs, external ones included: no two that
\* live have the same identifier, a free one is nobody's, and none below the maximum is
\* lost while no external removal loses one (addTuioCursor, removeTuioCursor).
THEOREM IdentifiersAlways == Spec => []Identifiers
<1>1. IdInv => Identifiers
  BY DEF IdInv, Identifiers
<1> QED
  BY <1>1, InitHasIds, NextKeepsIds, PTL DEF Spec

-----------------------------------------------------------------------------
(***************************************************************************)
(* The calls of the manager and the kinds of contacts.                     *)
(***************************************************************************)
LEMMA KindOf ==
  ASSUME NEW k \in Kinds
  PROVE  Of(k) \subseteq Contact /\ \A c \in Of(k) : Kind(c) = k
<1>1. Of(k) \subseteq Contact
  BY OfKind DEF Kinds, Contact
<1>2. ASSUME NEW c \in Of(k), NEW l \in Kinds, c \in Of(l) PROVE l = k
  BY <1>2, OfKind DEF Kinds
<1>3. ASSUME NEW c \in Of(k) PROVE Kind(c) = k
  BY <1>2 DEF Kind
<1> QED
  BY <1>1, <1>3

\* What a call does to the contacts of a kind, and to their motion, shows in upd.
Marked ==
  /\ DOMAIN motion' = Contact /\ live' \subseteq Contact
  /\ upd \subseteq upd'
  /\ \A k \in Kinds \ upd' : /\ live' \cap Of(k) = live \cap Of(k)
                             /\ \A c \in Of(k) : motion'[c] = motion[c]

LEMMA CallsMark ==
  ASSUME DOMAIN motion = Contact, live \subseteq Contact, Next
  PROVE  Marked
<1>1. ASSUME UNCHANGED <<live, motion, upd>> PROVE Marked
  BY <1>1 DEF Marked
<1>2. ASSUME NEW c \in Contact, NEW k \in Kinds, c \in Of(k), NEW r,
             live' = live \/ live' = live \cup {c} \/ live' = live \ {c},
             motion' = [motion EXCEPT ![c] = r], upd' = upd \cup {k}
      PROVE  Marked
  <2>1. ASSUME NEW l \in Kinds, l # k PROVE c \notin Of(l)
    BY <1>2, <2>1, KindOf
  <2>2. ASSUME NEW l \in Kinds \ upd'
        PROVE  live' \cap Of(l) = live \cap Of(l) /\ \A d \in Of(l) : motion'[d] = motion[d]
    <3>1. c \notin Of(l)
      BY <1>2, <2>1
    <3>2. \A d \in Of(l) : d \in Contact /\ d # c
      BY <3>1, KindOf
    <3> QED
      BY <1>2, <3>1, <3>2
  <2>3. DOMAIN motion' = Contact /\ live' \subseteq Contact
    BY <1>2
  <2> QED
    BY <1>2, <2>2, <2>3 DEF Marked
<1>3. ASSUME NEW c \in Contact, NEW k \in Kinds, Add(k, c) PROVE Marked
  <2>1. c \in Of(k) /\ live' = live \cup {c} /\ motion' = [motion EXCEPT ![c] = New]
        /\ upd' = upd \cup {k}
    BY <1>3 DEF Add
  <2> QED
    BY <1>2, <2>1
<1>4. ASSUME NEW c \in Contact, NEW k \in Kinds, Update(k, c) PROVE Marked
  <2>1. c \in Of(k) /\ live' = live /\ upd' = upd \cup {k}
    BY <1>4 DEF Update
  <2>2. PICK r \in Updated(c) : motion' = [motion EXCEPT ![c] = r]
    BY <1>4 DEF Update
  <2> QED
    BY <1>2, <2>1, <2>2
<1>5. ASSUME NEW c \in Contact, NEW k \in Kinds, Remove(k, c) PROVE Marked
  <2>1. c \in Of(k) /\ live' = live \ {c} /\ motion' = [motion EXCEPT ![c] = New]
        /\ upd' = upd \cup {k}
    BY <1>5 DEF Remove
  <2> QED
    BY <1>2, <2>1
<1>6. ASSUME NEW c \in Contact, RemoveTuio(c) PROVE Marked
  <2>1. \E k \in Kinds : Remove(k, c)
    BY <1>6 DEF RemoveTuio, RemoveTuioObject, RemoveTuioCursor, RemoveTuioBlob, Kinds
  <2> QED
    BY <1>5, <2>1
<1>7. ASSUME NEW ks, StopUntouched(ks) PROVE Marked
  <2> DEFINE S == {c \in live \ touched : Kind(c) \in ks /\ IsMoving(motion[c])}
  <2>1. /\ motion' = [c \in Contact |-> IF c \in S THEN Stopped(c) ELSE motion[c]]
        /\ upd' = upd \cup {Kind(c) : c \in S} /\ live' = live
    BY <1>7 DEF StopUntouched
  <2> HIDE DEF S
  <2>2. ASSUME NEW k \in Kinds \ upd', NEW c \in Of(k) PROVE motion'[c] = motion[c]
    <3>1. c \in Contact /\ Kind(c) = k
      BY KindOf
    <3>2. c \notin S
      BY <2>1, <3>1
    <3> QED
      BY <2>1, <3>1, <3>2
  <2>3. DOMAIN motion' = Contact /\ live' \subseteq Contact /\ upd \subseteq upd'
    BY <2>1
  <2> QED
    BY <2>1, <2>2, <2>3 DEF Marked
<1>8. ASSUME NEW c \in Contact,
             \/ AddTuioObject(c) \/ AddTuioCursor(c) \/ AddTuioBlob(c)
             \/ AddExternalTuioObject(c) \/ AddExternalTuioCursor(c) \/ AddExternalTuioBlob(c)
      PROVE  Marked
  <2>1. \E k \in Kinds : Add(k, c)
    BY <1>8 DEF AddTuioObject, AddTuioCursor, AddTuioBlob, AddExternalTuioObject,
                AddExternalTuioCursor, AddExternalTuioBlob, Kinds
  <2> QED
    BY <1>3, <2>1
<1>9. ASSUME NEW c \in Contact,
             \/ UpdateTuioObject(c) \/ UpdateTuioCursor(c) \/ UpdateTuioBlob(c)
             \/ UpdateExternalTuioObject(c) \/ UpdateExternalTuioCursor(c)
             \/ UpdateExternalTuioBlob(c)
      PROVE  Marked
  <2>1. \E k \in Kinds : Update(k, c)
    BY <1>9 DEF UpdateTuioObject, UpdateTuioCursor, UpdateTuioBlob, UpdateExternalTuioObject,
                UpdateExternalTuioCursor, UpdateExternalTuioBlob, Kinds
  <2> QED
    BY <1>4, <2>1
<1>10. ASSUME NEW c \in Contact,
              \/ RemoveExternalTuioObject(c) \/ RemoveExternalTuioCursor(c)
              \/ RemoveExternalTuioBlob(c)
       PROVE  Marked
  <2>1. \E k \in Kinds : Remove(k, c)
    BY <1>10 DEF RemoveExternalTuioObject, RemoveExternalTuioCursor, RemoveExternalTuioBlob,
                 RemoveExternal, Kinds
  <2> QED
    BY <1>5, <2>1
<1>11. ASSUME \/ RemoveUntouchedStoppedObjects \/ RemoveUntouchedStoppedCursors
              \/ RemoveUntouchedStoppedBlobs
              \/ ResetTuioObjects \/ ResetTuioCursors \/ ResetTuioBlobs
       PROVE  Marked
  <2>1. UNCHANGED <<live, motion, upd>>
    BY <1>11 DEF RemoveUntouchedStoppedObjects, RemoveUntouchedStoppedCursors,
         RemoveUntouchedStoppedBlobs, ResetTuioObjects, ResetTuioCursors, ResetTuioBlobs, StartLoop
  <2> QED
    BY <1>1, <2>1
<1>12. CASE LoopStep
  <2>1. PICK c \in loop : RemoveTuio(c)
    BY <1>12 DEF LoopStep
  <2>2. c \in Contact
    BY <2>1 DEF RemoveTuio, RemoveTuioObject, RemoveTuioCursor, RemoveTuioBlob, Remove
  <2> QED
    BY <1>6, <2>1, <2>2
<1>13. CASE StopUntouchedMovingObjects \/ StopUntouchedMovingCursors \/ StopUntouchedMovingBlobs
  <2> QED
    BY <1>7, <1>13 DEF StopUntouchedMovingObjects, StopUntouchedMovingCursors,
                       StopUntouchedMovingBlobs
<1>14. CASE InitFrame
  <2> QED
    BY <1>1, <1>14 DEF InitFrame
<1> QED
  BY <1>6, <1>8, <1>9, <1>10, <1>11, <1>12, <1>13, <1>14 DEF Next

-----------------------------------------------------------------------------
(***************************************************************************)
(* Packets and their delivery.                                             *)
(***************************************************************************)
LEMMA Sizes ==
  ASSUME NEW k \in Kinds
  PROVE  SetSize(k) \in Nat /\ RoomFor(k) \in Nat /\ SetSize(k) + FseqSize = RoomFor(k)
<1>1. FseqSize = 32 /\ CursorSet = 56 /\ ObjectSet = 76 /\ BlobSet = 84
  BY DEF FseqSize, CursorSet, ObjectSet, BlobSet, MessageSize, Address, Pad
<1> QED
  BY <1>1 DEF SetSize, RoomFor, Kinds

LEMMA StartSizes ==
  ASSUME NEW k \in Kinds, live \subseteq Contact
  PROVE  /\ IsFiniteSet(live \cap Of(k)) /\ StartSize(k) \in Int
         /\ StartSize(k) <= 16 + Source + AliveSize(Cardinality(Of(k)))
<1>1. IsFiniteSet(Of(k)) /\ IsFiniteSet(live \cap Of(k))
      /\ Cardinality(live \cap Of(k)) <= Cardinality(Of(k))
  <2>1. Of(k) \subseteq Contact /\ live \cap Of(k) \subseteq Of(k) /\ IsFiniteSet(Contact)
    BY KindOf DEF Contact
  <2> QED
    BY <2>1, FS_Subset
<1> DEFINE m == Cardinality(live \cap Of(k))
           n == Cardinality(Of(k))
<1>2. m \in Nat /\ n \in Nat /\ m <= n
  BY <1>1, FS_CardinalityType
<1> HIDE DEF m, n
<1>3. AliveSize(m) \in Int /\ AliveSize(m) <= AliveSize(n) /\ AliveSize(n) \in Int
  BY <1>2 DEF AliveSize, MessageSize, Pad, Address
<1>4. StartSize(k) = 16 + Source + AliveSize(m)
  BY DEF StartSize, m
<1> QED
  BY <1>1, <1>3, <1>4, ServerAssumption DEF n

\* The packets of a bundle hold the set messages of the contacts that are due, each packet
\* at least one or as many as leave room for one more and the frame number.
LEMMA PacketsAre ==
  ASSUME NEW k \in Kinds, live \subseteq Contact, NEW W
  PROVE  /\ DOMAIN Packets(k, W) # {}
         /\ UNION Range(Packets(k, W)) = live \cap Of(k) \cap W
         /\ \A i \in DOMAIN Packets(k, W) :
              LET n == Cardinality(Packets(k, W)[i])
              IN  n \in Nat /\ (n > 1 => SetSize(k) * (n - 1) <= Capacity - StartSize(k) - RoomFor(k))
<1> DEFINE S == live \cap Of(k)
           s == Listed(S)
           room == Capacity - StartSize(k) - RoomFor(k)
           p == Packets(k, W)
<1>1. IsFiniteSet(S) /\ room \in Int /\ SetSize(k) \in Nat
  BY Sizes, StartSizes, ServerAssumption
<1>2. s \in Seq(S) /\ Range(s) = S
  BY <1>1, ListedIs
<1>3. p = Packed(s, W, SetSize(k), room)
  BY DEF Packets
<1> HIDE DEF S, s, room, p
<1>4. p \in Seq(SUBSET S) /\ ArePackets(p, S \cap W, SetSize(k), room)
  BY <1>1, <1>2, <1>3, PackedIs
<1>5. Len(p) \in Nat /\ DOMAIN p = 1 .. Len(p) /\ p # <<>>
  BY <1>4, LenProperties DEF ArePackets
<1>6. Len(p) # 0
  BY <1>4, <1>5, EmptySeq
<1>7. DOMAIN p # {}
  <2>1. 1 \in 1 .. Len(p)
    BY <1>5, <1>6
  <2> QED
    BY <1>5, <2>1
<1>8. \A i \in DOMAIN p : Cardinality(p[i]) \in Nat
                          /\ (Cardinality(p[i]) > 1 => SetSize(k) * (Cardinality(p[i]) - 1) <= room)
  BY <1>4, <1>5, FS_CardinalityType DEF ArePackets
<1>9. UNION Range(p) = S \cap W
  BY <1>4 DEF ArePackets
<1> QED
  BY <1>7, <1>8, <1>9 DEF S, room, p

\* What a receiver has after a delivery in which no packet of a kind was lost, or nothing
\* of the kind was sent.
LEMMA Delivered ==
  ASSUME live \subseteq Contact, NEW sent, NEW lost, Deliver(sent, lost),
         NEW k \in Kinds, k \notin dirty'
  PROVE  /\ DOMAIN sent[k] # {} =>
              /\ shown' \cap Of(k) = live \cap Of(k)
              /\ UNION Range(sent[k]) \subseteq placed'
         /\ DOMAIN sent[k] = {} =>
              /\ k \notin dirty /\ shown' \cap Of(k) = shown \cap Of(k)
         /\ placed \cap shown' \subseteq placed'
<1> DEFINE all == UNION {{<<l, i>> : i \in DOMAIN sent[l]} : l \in Kinds}
           came == all \ lost
           ks == {x[1] : x \in came}
<1>1. /\ lost \subseteq all
      /\ shown' = {c \in Contact : IF Kind(c) \in ks THEN c \in live ELSE c \in shown}
      /\ placed' = (placed \cap shown') \cup UNION {sent[x[1]][x[2]] : x \in came}
      /\ dirty' = (dirty \ ks) \cup {x[1] : x \in lost}
  BY DEF Deliver
<1>2. ASSUME NEW i \in DOMAIN sent[k] PROVE <<k, i>> \in came
  <2>1. <<k, i>> \in all
    OBVIOUS
  <2>2. <<k, i>> \notin lost
    <3> SUFFICES ASSUME <<k, i>> \in lost PROVE FALSE
      OBVIOUS
    <3>1. <<k, i>>[1] \in {x[1] : x \in lost}
      OBVIOUS
    <3> HIDE DEF all, came, ks
    <3> QED
      BY <1>1, <3>1
  <2> QED
    BY <2>1, <2>2
<1>3. \A x \in all : x[1] \in Kinds /\ x[2] \in DOMAIN sent[x[1]]
  OBVIOUS
<1>4. k \in ks <=> DOMAIN sent[k] # {}
  <2>1. ASSUME NEW i \in DOMAIN sent[k] PROVE k \in ks
    <3>1. <<k, i>> \in came /\ <<k, i>>[1] = k
      BY <1>2
    <3> HIDE DEF came
    <3> QED
      BY <3>1
  <2>2. ASSUME k \in ks PROVE DOMAIN sent[k] # {}
    <3>1. PICK x \in came : x[1] = k
      BY <2>2
    <3>2. x \in all
      BY <3>1
    <3> HIDE DEF all, came, ks
    <3> QED
      BY <1>3, <3>1, <3>2
  <2> QED
    BY <2>1, <2>2
<1>5. UNION Range(sent[k]) \subseteq UNION {sent[x[1]][x[2]] : x \in came}
  <2> SUFFICES ASSUME NEW i \in DOMAIN sent[k]
               PROVE  sent[k][i] \in {sent[x[1]][x[2]] : x \in came}
    BY DEF Range
  <2>1. <<k, i>> \in came /\ <<k, i>>[1] = k /\ <<k, i>>[2] = i
    BY <1>2
  <2> HIDE DEF came
  <2> QED
    BY <2>1
<1> HIDE DEF all, came, ks
<1>6. \A c \in Of(k) : c \in Contact /\ Kind(c) = k
  BY KindOf
<1>7. k \in ks => shown' \cap Of(k) = live \cap Of(k)
  BY <1>1, <1>6
<1>8. k \notin ks => shown' \cap Of(k) = shown \cap Of(k)
  BY <1>1, <1>6
<1>9. k \notin ks => k \notin dirty
  BY <1>1
<1> QED
  BY <1>1, <1>4, <1>5, <1>7, <1>8, <1>9

-----------------------------------------------------------------------------
(***************************************************************************)
(* An application that calls in any order.                                 *)
(***************************************************************************)

\* A frame or a full update that is sent leaves the contacts alone, so the same holds of
\* every program that commits frames between its calls.
THEOREM SourceIdentifiers == SourceSpec => []Identifiers
<1>1. SourceInit => IdInv
  BY InitHasIds DEF SourceInit
<1>2. IdInv /\ [SourceNext]_sourceVars => IdInv'
  <2> SUFFICES ASSUME IdInv, [SourceNext]_sourceVars PROVE IdInv'
    OBVIOUS
  <2>1. CASE Commit
    <3>1. UNCHANGED <<live, id, max, free, loop, leaked>>
      BY <2>1 DEF Commit, CommitFrame
    <3> QED
      BY <3>1, UnnumberedKeeps DEF IdInv, IdType
  <2>2. [Next]_mgrVars \/ Commit
    BY DEF SourceNext, Manage, SendFullMessages, Restart, sourceVars
  <2> QED
    BY <2>1, <2>2, NextKeepsIds
<1>3. IdInv => Identifiers
  BY DEF IdInv, Identifiers
<1> QED
  BY <1>1, <1>2, <1>3, PTL DEF SourceSpec

-----------------------------------------------------------------------------
(***************************************************************************)
(* What is sent, and what a receiver makes of it.                          *)
(***************************************************************************)
LEMMA PacketFits ==
  ASSUME AliveFits, live \subseteq Contact, NEW k \in Kinds, NEW W,
         NEW i \in DOMAIN Packets(k, W)
  PROVE  PacketSize(k, Packets(k, W)[i]) <= Capacity
<1> DEFINE n == Cardinality(Packets(k, W)[i])
           size == SetSize(k)
           start == StartSize(k)
           room == RoomFor(k)
           alive == 16 + Source + AliveSize(Cardinality(Of(k)))
<1>1. /\ n \in Nat /\ size \in Nat /\ start \in Int /\ room \in Nat /\ start <= alive
      /\ alive + room <= Capacity /\ Capacity \in Nat
      /\ size + FseqSize = room /\ FseqSize \in Int
      /\ n > 1 => size * (n - 1) <= Capacity - start - room
  <2>1. FseqSize \in Int
    BY DEF FseqSize, MessageSize, Pad, Address
  <2> QED
    BY <2>1, PacketsAre, Sizes, StartSizes, ServerAssumption DEF AliveFits
<1>2. alive \in Int
  <2>1. IsFiniteSet(Of(k))
    BY KindOf, KindAssumption, FS_Subset DEF Contact
  <2>2. PICK m \in Nat : m = Cardinality(Of(k))
    BY <2>1, FS_CardinalityType
  <2> QED
    BY <2>2, ServerAssumption DEF AliveSize, MessageSize, Pad, Address
<1> HIDE DEF n, size, start, room, alive
<1>3. start + size * n + FseqSize <= Capacity
  <2>1. CASE n > 1
    <3> DEFINE m == n - 1
    <3>1. m \in Nat /\ n = m + 1
      BY <1>1, <2>1
    <3> HIDE DEF m
    <3>2. size * n = size * m + size /\ size * m \in Int
      BY <1>1, <3>1
    <3>3. size * m <= Capacity - start - room
      BY <1>1, <2>1, <3>1
    <3> QED
      BY <1>1, <3>2, <3>3
  <2>2. CASE n <= 1
    <3>1. n = 0 \/ n = 1
      BY <1>1, <2>2
    <3>2. size * n = 0 \/ size * n = size
      BY <1>1, <3>1
    <3> QED
      BY <1>1, <1>2, <3>2
  <2> QED
    BY <1>1, <2>1, <2>2
<1> QED
  BY <1>3 DEF PacketSize, n, size, start

\* Kinds that a call has changed are marked until the next frame.  All others are shown as
\* they are if none of their packets is missing, and where they are with full_update.
Kept(k) ==
  /\ shown \cap Of(k) = live \cap Of(k)
  /\ "full" \in opts => live \cap Of(k) \subseteq placed

SourceInv ==
  /\ live \subseteq Contact /\ DOMAIN motion = Contact
  /\ \A k \in Kinds \ (dirty \cup upd) : Kept(k)
  /\ PutRight

LEMMA SourceStep == SourceInv /\ [SourceNext]_sourceVars => SourceInv'
<1> SUFFICES ASSUME SourceInv, [SourceNext]_sourceVars PROVE SourceInv'
  OBVIOUS
<1>1. /\ live \subseteq Contact /\ DOMAIN motion = Contact
      /\ \A k \in Kinds \ (dirty \cup upd) : Kept(k)
  BY DEF SourceInv
<1>2. CASE UNCHANGED sourceVars
  BY <1>1, <1>2 DEF sourceVars, mgrVars, listVars, srvVars, rcvVars, SourceInv, PutRight, Kept
<1>3. CASE Manage
  <2>1. Marked
    BY <1>1, <1>3, CallsMark DEF Manage
  <2>3. /\ said' = "nothing" /\ shown' = shown /\ dirty' = dirty /\ opts' = opts
        /\ placed' = placed \ ({c \in Contact : motion'[c] # motion[c]}
                                 \cup {c \in touched' : Kind(c) \in upd'})
    BY <1>3 DEF Manage, srvVars
  <2>4. ASSUME NEW k \in Kinds \ (dirty' \cup upd') PROVE Kept(k)'
    <3>1. /\ live' \cap Of(k) = live \cap Of(k) /\ k \notin upd
          /\ \A c \in Of(k) : motion'[c] = motion[c] /\ Kind(c) = k
      BY <2>1, KindOf DEF Marked
    <3>2. Kept(k)
      BY <1>1, <2>3, <3>1
    <3>3. \A c \in Of(k) : c \in placed => c \in placed'
      BY <2>3, <3>1
    <3>4. Of(k)' = Of(k)
      BY DEF Of
    <3> QED
      BY <2>3, <3>1, <3>2, <3>3, <3>4 DEF Kept
  <2> QED
    BY <2>1, <2>3, <2>4 DEF SourceInv, Marked, PutRight
<1>4. CASE Commit
  <2>1. PICK due \in BOOLEAN : \E lost :
          Deliver([obj |-> FramePackets("obj", due), cur |-> FramePackets("cur", due),
                   blb |-> FramePackets("blb", due)], lost)
    BY <1>4 DEF Commit, CommitFrame
  <2> DEFINE sent == [obj |-> FramePackets("obj", due), cur |-> FramePackets("cur", due),
                      blb |-> FramePackets("blb", due)]
  <2>2. /\ upd' = {} /\ said' = "frame"
        /\ UNCHANGED <<live, motion, opts>>
    BY <1>4 DEF Commit, CommitFrame, srvVars
  <2>3. \A k \in Kinds : sent[k] = FramePackets(k, due)
    BY DEF Kinds
  <2> HIDE DEF sent
  <2>4. ASSUME NEW k \in Kinds \ dirty' PROVE Kept(k)'
    <3>1. /\ DOMAIN sent[k] # {} => /\ shown' \cap Of(k) = live \cap Of(k)
                                    /\ UNION Range(sent[k]) \subseteq placed'
          /\ DOMAIN sent[k] = {} => k \notin dirty /\ shown' \cap Of(k) = shown \cap Of(k)
          /\ placed \cap shown' \subseteq placed'
      BY <1>1, <2>1, Delivered DEF sent
    <3>2. CASE DOMAIN sent[k] = {}
      <4>1. k \notin upd
        BY <1>1, <2>3, <3>2, PacketsAre DEF FramePackets
      <4>2. Kept(k)
        BY <1>1, <3>1, <3>2, <4>1
      <4> QED
        BY <2>2, <3>1, <3>2, <4>2 DEF Kept, Of
    <3>3. CASE DOMAIN sent[k] # {}
      <4>1. "full" \in opts => sent[k] = Packets(k, live) \/ sent[k] = <<>>
        BY <2>3 DEF FramePackets
      <4>2. DOMAIN <<>> = {}
        OBVIOUS
      <4>3. "full" \in opts => live \cap Of(k) \subseteq placed'
        BY <1>1, <3>1, <3>3, <4>1, <4>2, PacketsAre
      <4> QED
        BY <2>2, <3>1, <3>3, <4>3 DEF Kept, Of
    <3> QED
      BY <3>2, <3>3
  <2>5. PutRight'
    BY <2>2, <2>4 DEF PutRight, Kept
  <2> QED
    BY <1>1, <2>2, <2>4, <2>5 DEF SourceInv
<1>5. CASE SendFullMessages
  <2>1. PICK lost :
          Deliver([obj |-> FullPackets("obj"), cur |-> FullPackets("cur"),
                   blb |-> FullPackets("blb")], lost)
    BY <1>5 DEF SendFullMessages
  <2> DEFINE sent == [obj |-> FullPackets("obj"), cur |-> FullPackets("cur"),
                      blb |-> FullPackets("blb")]
  <2>2. said' = "full" /\ UNCHANGED <<live, motion, opts, upd>>
    BY <1>5 DEF SendFullMessages, srvVars, mgrVars, listVars
  <2>3. \A k \in Kinds : sent[k] = Packets(k, live)
    BY DEF Kinds, FullPackets
  <2> HIDE DEF sent
  <2>4. ASSUME NEW k \in Kinds \ dirty'
        PROVE  shown' \cap Of(k) = live \cap Of(k) /\ live \cap Of(k) \subseteq placed'
    <3>1. DOMAIN sent[k] # {} /\ UNION Range(sent[k]) = live \cap Of(k) \cap live
      BY <1>1, <2>3, PacketsAre
    <3>2. shown' \cap Of(k) = live \cap Of(k) /\ UNION Range(sent[k]) \subseteq placed'
      BY <1>1, <2>1, <3>1, Delivered DEF sent
    <3> QED
      BY <3>1, <3>2
  <2>5. \A k \in Kinds \ dirty' : Kept(k)'
    BY <2>2, <2>4 DEF Kept, Of
  <2>6. PutRight'
    BY <2>2, <2>4 DEF PutRight, Of
  <2> QED
    BY <1>1, <2>2, <2>5, <2>6 DEF SourceInv
<1>6. CASE Restart
  BY <1>1, <1>6 DEF Restart, SourceInv, PutRight, mgrVars, listVars
<1> QED
  BY <1>2, <1>3, <1>4, <1>5, <1>6 DEF SourceNext

THEOREM SourceInvAlways == SourceSpec => []SourceInv
<1>1. SourceInit => SourceInv
  BY DEF SourceInit, Init, SourceInv, PutRight, Kept
<1> QED
  BY <1>1, SourceStep, PTL DEF SourceSpec

\* Whatever was lost before, and whatever calls were made: a receiver that gets all packets of
\* a kind's bundle shows the contacts that are there, and where they are if the bundle is a
\* full one (commitFrame with full_update, sendFullMessages).
THEOREM PutRightAlways == SourceSpec => []PutRight
<1>1. SourceInv => PutRight
  BY DEF SourceInv
<1> QED
  BY <1>1, SourceInvAlways, PTL

\* For any contacts: if the smallest transport takes the list of all and one set message, no
\* packet ever outgrows it, however many set messages a bundle has (the MESSAGE_SIZE constants).
THEOREM PacketsFitAlways ==
  ASSUME AliveFits
  PROVE  SourceSpec => []PacketsFit
<1>1. SourceInv => PacketsFit
  BY PacketFits DEF SourceInv, PacketsFit, FullPackets
<1> QED
  BY <1>1, SourceInvAlways, PTL

-----------------------------------------------------------------------------
(***************************************************************************)
(* The daemon.                                                             *)
(***************************************************************************)
Touches == Cursor \cup Object
Pcs == {"call", "read", "init", "blobs", "cursors", "objects", "objects2", "commit",
        "destroy", "remove", "remove2", "empty", "done"}

\* The daemon enables the profiles of cursors and objects: it has no blobs.
Shape ==
  /\ live \subseteq Touches /\ shown \subseteq Touches
  /\ motion \in [Contact -> Motion] /\ age \in [Object -> Nat]
  /\ profiles = {"obj", "cur"} /\ opts = {} /\ pc \in Pcs /\ need \in Int /\ faults \in Nat
  /\ scan \in Seq(Contact) /\ rest \in Seq(Contact)
  /\ got \in Seq(Contact) /\ todo \in Seq(Contact) /\ result.blobs \in Seq(Contact)

\* The contacts of the frame.
Seen == Range(result.blobs)

\* What n frames without a report have made of a tag: the first one that finds it moving
\* stops it, the second one finds that it has stopped, the third one removes it.
Slowed(n, c) ==
  /\ n >= 1 => ~motion[c].speed /\ ~motion[c].rspeed
  /\ n >= 2 => motion[c].state = "STOPPED"

\* Between two frames.
Idle ==
  pc \in {"call", "read", "init"} =>
    /\ upd = {}
    /\ \A k \in profiles \ dirty :
         shown \cap Of(k) = live \cap Of(k) /\ live \cap Of(k) \subseteq placed
    /\ \A c \in live \cap Object : age[c] <= 2 /\ Slowed(age[c], c)

\* In a frame: kinds that have changed are marked, all others are shown as they are.
Marking ==
  pc \in {"blobs", "cursors", "objects", "objects2", "commit"} =>
    /\ \A c \in touched : Kind(c) \in upd
    /\ \A k \in profiles \ (dirty \cup upd) : shown \cap Of(k) = live \cap Of(k)

\* While the blobs of the frame are added, touched are those that were.
Adding ==
  pc = "blobs" =>
    /\ touched \subseteq Seen /\ Range(todo) \subseteq Seen
    /\ Seen \cap Touches \subseteq (touched \cap live) \cup Range(todo)
    /\ \A c \in live \cap Object : age[c] <= 2 /\ Slowed(age[c], c)

\* Untouched cursors have been stopped and are removed; objects are as they were.
Removing ==
  pc \in {"cursors", "objects"} =>
    /\ touched \subseteq Seen /\ Seen \cap Touches \subseteq touched \cap live
    /\ \A c \in live \cap Cursor : c \in touched \/ (~IsMoving(motion[c]) /\ pc = "cursors")
    /\ \A c \in live \cap Object : IF c \in Seen THEN age[c] = 0
                                   ELSE age[c] \in 1 .. 3 /\ Slowed(age[c] - 1, c)

\* Objects that moved have been stopped, which touches them; the others are removed.
Ending ==
  pc \in {"objects2", "commit"} =>
    /\ Seen \cap Touches \subseteq touched \cap live
    /\ live \cap Cursor \subseteq Seen
    /\ \A c \in live \cap Object :
         IF c \in touched THEN age[c] <= 2 /\ Slowed(age[c], c)
         ELSE ~IsMoving(motion[c]) /\ pc = "objects2"

\* While a call is in step it has read a part of one scan, and the device has the others.
Reading ==
  pc = "read" /\ inStep =>
    IF need = -1 THEN got = <<>> /\ first
    ELSE need = Len(scan) /\ ~first /\ got \o rest = scan

DaemonInv ==
  Shape /\ Idle /\ Marking /\ Adding /\ Removing /\ Ending /\ Reading
    /\ ContactsAgree /\ EndsEmpty

-----------------------------------------------------------------------------
(***************************************************************************)
(* Contacts.                                                               *)
(***************************************************************************)
LEMMA Kinds3 ==
  /\ \A c \in Cursor : Kind(c) = "cur" /\ c \in Contact /\ c \notin Object
  /\ \A c \in Object : Kind(c) = "obj" /\ c \in Contact /\ c \notin Cursor
  /\ \A c \in Touches : c \in Contact /\ c \notin Blob
  /\ \A c \in Contact : c \in Touches \/ Kind(c) = "blb"
<1>1. \A k \in Kinds : \A c \in Of(k) : Kind(c) = k
  BY KindOf
<1>2. /\ \A c \in Cursor : Kind(c) = "cur"
      /\ \A c \in Object : Kind(c) = "obj"
      /\ \A c \in Blob : Kind(c) = "blb"
  BY <1>1, OfKind DEF Kinds
<1> QED
  BY <1>2, KindAssumption DEF Contact, Touches

LEMMA MovedIs ==
  ASSUME NEW r \in Motion, NEW m \in BOOLEAN
  PROVE  /\ Moved(r, m) # {}
         /\ \A q \in Moved(r, m) :
              /\ q \in Motion /\ q.speed = m /\ q.rspeed = r.rspeed
              /\ ~m /\ ~r.speed => q.state = "STOPPED"
<1> DEFINE st(a) == CASE a > 0 -> "ACCELERATING" [] a < 0 -> "DECELERATING" [] a = 0 -> "STOPPED"
<1>1. r.speed \in BOOLEAN /\ r.rspeed \in BOOLEAN
  BY DEF Motion
<1>2. /\ Accels(r.speed, m) \subseteq Int /\ Accels(r.speed, m) # {}
      /\ ~m /\ ~r.speed => Accels(r.speed, m) = {0}
  BY <1>1 DEF Accels
<1>3. \A a \in Int : st(a) \in States
  BY DEF States
<1>4. st(0) = "STOPPED"
  OBVIOUS
<1>5. Moved(r, m) = {[r EXCEPT !.speed = m, !.state = st(a)] : a \in Accels(r.speed, m)}
  BY DEF Moved
<1> HIDE DEF st
<1>6. Moved(r, m) # {}
  <2>1. PICK a \in Accels(r.speed, m) : TRUE
    BY <1>2
  <2>2. [r EXCEPT !.speed = m, !.state = st(a)] \in Moved(r, m)
    BY <1>5, Zenon
  <2> QED
    BY <2>2
<1>7. ASSUME NEW q \in Moved(r, m)
      PROVE  /\ q \in Motion /\ q.speed = m /\ q.rspeed = r.rspeed
             /\ ~m /\ ~r.speed => q.state = "STOPPED"
  <2>1. PICK a \in Accels(r.speed, m) : q = [r EXCEPT !.speed = m, !.state = st(a)]
    BY <1>5
  <2>2. q \in Motion /\ q.speed = m /\ q.rspeed = r.rspeed /\ q.state = st(a)
    BY <1>2, <1>3, <2>1 DEF Motion
  <2> QED
    BY <1>2, <1>4, <2>2
<1> QED
  BY <1>6, <1>7

LEMMA TurnedIs ==
  ASSUME NEW r \in Motion, NEW m \in BOOLEAN, NEW t \in BOOLEAN
  PROVE  /\ Turned(r, m, t) # {}
         /\ \A u \in Turned(r, m, t) :
              /\ u \in Motion /\ u.speed = m /\ u.rspeed = t
              /\ ~m /\ ~t /\ ~r.speed /\ ~r.rspeed => u.state = "STOPPED"
<1> DEFINE R == IF r.rspeed /\ t THEN BOOLEAN ELSE {r.rspeed # t}
           st(q, ra) == IF ra /\ q.state = "STOPPED" THEN "ROTATING" ELSE q.state
           turn(q, ra) == [q EXCEPT !.rspeed = t, !.state = st(q, ra)]
<1>1. r.rspeed \in BOOLEAN
  BY DEF Motion
<1>2. R # {} /\ R \subseteq BOOLEAN /\ (~t /\ ~r.rspeed => R = {FALSE})
  BY <1>1
<1>3. Turned(r, m, t) = {turn(q, ra) : q \in Moved(r, m), ra \in R}
  BY DEF Turned
<1>4. \A q \in Motion : \A ra \in BOOLEAN : st(q, ra) \in States
  BY DEF Motion, States
<1>5. \A q \in Motion : st(q, FALSE) = q.state
  OBVIOUS
<1> HIDE DEF R, st, turn
<1>6. Turned(r, m, t) # {}
  <2>1. PICK q \in Moved(r, m), ra \in R : TRUE
    BY <1>2, MovedIs
  <2>2. turn(q, ra) \in Turned(r, m, t)
    BY <1>3
  <2> QED
    BY <2>2
<1>7. ASSUME NEW u \in Turned(r, m, t)
      PROVE  /\ u \in Motion /\ u.speed = m /\ u.rspeed = t
             /\ ~m /\ ~t /\ ~r.speed /\ ~r.rspeed => u.state = "STOPPED"
  <2>1. PICK q \in Moved(r, m), ra \in R : u = turn(q, ra)
    BY <1>3
  <2>2. q \in Motion /\ q.speed = m /\ (~m /\ ~r.speed => q.state = "STOPPED")
    BY MovedIs
  <2>3. st(q, ra) \in States
    BY <1>2, <1>4, <2>2
  <2>4. u \in Motion /\ u.speed = m /\ u.rspeed = t /\ u.state = st(q, ra)
    BY <2>1, <2>2, <2>3 DEF Motion, turn
  <2> QED
    BY <1>2, <1>5, <2>2, <2>4
<1> QED
  BY <1>6, <1>7

\* An object that is stopped stands still; the second time it has stopped.
LEMMA StoppedIs ==
  ASSUME NEW c \in Object, motion[c] \in Motion
  PROVE  /\ Stopped(c) \in Motion /\ ~Stopped(c).speed /\ ~Stopped(c).rspeed
         /\ ~motion[c].speed /\ ~motion[c].rspeed => Stopped(c).state = "STOPPED"
<1>1. Stopped(c) \in Turned(motion[c], FALSE, FALSE)
  <2>1. Turned(motion[c], FALSE, FALSE) # {}
    BY TurnedIs
  <2>2. Stopped(c) = CHOOSE r \in Turned(motion[c], FALSE, FALSE) : TRUE
    BY Kinds3 DEF Stopped
  <2> QED
    BY <2>1, <2>2, Zenon
<1> QED
  BY <1>1, TurnedIs

LEMMA StoppedCursor ==
  ASSUME NEW c \in Cursor, motion[c] \in Motion
  PROVE  Stopped(c) \in Motion /\ ~IsMoving(Stopped(c))
<1>1. Stopped(c) = [motion[c] EXCEPT !.state = "IDLE"]
  BY DEF Stopped
<1>2. Stopped(c) \in Motion /\ Stopped(c).state = "IDLE"
  BY <1>1 DEF Motion, States
<1> QED
  BY <1>2 DEF IsMoving

LEMMA UpdatedIn ==
  ASSUME NEW c \in Contact, motion[c] \in Motion, NEW r \in Updated(c)
  PROVE  r \in Motion
<1>1. New \in Motion
  BY DEF New, Motion, States
<1>2. CASE c \in Cursor
  <2>1. PICK s \in {"ACCELERATING", "DECELERATING", "STOPPED"} : r = [New EXCEPT !.state = s]
    BY <1>2 DEF Updated
  <2>2. s \in States
    BY DEF States
  <2> QED
    BY <1>1, <2>1, <2>2 DEF Motion
<1>3. CASE c \notin Cursor
  <2>1. \E m \in BOOLEAN, t \in BOOLEAN : r \in Turned(motion[c], m, t)
    BY <1>3 DEF Updated
  <2> QED
    BY <2>1, TurnedIs
<1> QED
  BY <1>2, <1>3

\* A contact that is touched by Blob1: what the cases of the switch have in common.
LEMMA BlobStep ==
  ASSUME Shape, NEW c \in Contact, Blob1(c)
  PROVE  IF c \in Touches
         THEN /\ live' = live \cup {c} /\ touched' = touched \cup {c}
              /\ upd' = upd \cup {Kind(c)} \/ (c \in touched /\ UNCHANGED <<live, upd>>)
              /\ motion' = motion \/ \E r \in Motion : motion' = [motion EXCEPT ![c] = r]
         ELSE UNCHANGED mgrVars
<1>1. profiles = {"obj", "cur"} /\ motion[c] \in Motion
  BY DEF Shape
<1>2. CASE c \notin Touches
  BY <1>1, <1>2, Kinds3 DEF Blob1
<1>3. CASE c \in Touches
  <2>1. c \notin Blob /\ Kind(c) \in profiles
    BY <1>1, <1>3, Kinds3 DEF Touches
  <2>2. New \in Motion
    BY DEF New, Motion, States
  <2>3. ASSUME NEW k \in Kinds, Add(k, c), touched' = touched \cup {c}
        PROVE  /\ live' = live \cup {c} /\ upd' = upd \cup {Kind(c)}
               /\ \E r \in Motion : motion' = [motion EXCEPT ![c] = r]
    BY <2>2, <2>3, KindOf DEF Add
  <2>4. ASSUME NEW k \in Kinds, Update(k, c), touched' = touched \cup {c}
        PROVE  /\ live' = live \cup {c} /\ upd' = upd \cup {Kind(c)}
               /\ \E r \in Motion : motion' = [motion EXCEPT ![c] = r]
    <3>1. \A r \in Updated(c) : r \in Motion
      BY <1>1, UpdatedIn
    <3> QED
      BY <2>4, <3>1, KindOf DEF Update
  <2>5. CASE c \notin live
    <3>1. AddTuioCursor(c) \/ AddTuioObject(c) \/ AddTuioBlob(c)
      BY <2>1, <2>5 DEF Blob1
    <3>2. \E k \in Kinds : Add(k, c) /\ touched' = touched \cup {c}
      BY <3>1 DEF AddTuioCursor, AddTuioObject, AddTuioBlob, Kinds
    <3> QED
      BY <1>3, <2>3, <3>2
  <2>6. CASE c \in live /\ c \in touched /\ UNCHANGED mgrVars
    BY <1>3, <2>6 DEF mgrVars, listVars
  <2>7. CASE c \in live /\ (UpdateTuioCursor(c) \/ UpdateTuioObject(c) \/ UpdateTuioBlob(c))
    <3>1. \E k \in Kinds : Update(k, c) /\ touched' = touched \cup {c}
      BY <2>7 DEF UpdateTuioCursor, UpdateTuioObject, UpdateTuioBlob, Kinds
    <3> QED
      BY <1>3, <2>4, <3>1
  <2> QED
    BY <2>1, <2>5, <2>6, <2>7 DEF Blob1
<1> QED
  BY <1>2, <1>3

\* Removing an untouched contact of a kind.
LEMMA RemoveStep ==
  ASSUME Shape, NEW k \in Kinds, NEW c \in UntouchedStopped(k), RemoveTuio(c)
  PROVE  /\ c \in live \cap Of(k) /\ c \notin touched /\ live' = live \ {c}
         /\ upd' = upd \cup {k} /\ touched' = touched
         /\ motion' \in [Contact -> Motion]
         /\ \A d \in Contact \ {c} : motion'[d] = motion[d]
<1>1. c \in live \cap Of(k) /\ c \notin touched
  BY DEF UntouchedStopped
<1>2. PICK l \in Kinds : Remove(l, c)
  BY DEF RemoveTuio, RemoveTuioObject, RemoveTuioCursor, RemoveTuioBlob, Kinds
<1>3. l = k
  BY <1>1, <1>2, KindOf DEF Remove
<1>4. New \in Motion
  BY DEF New, Motion, States
<1>5. c \in Contact /\ motion \in [Contact -> Motion]
  BY <1>1, KindOf DEF Shape
<1>6. motion' = [motion EXCEPT ![c] = New]
  BY <1>2 DEF Remove
<1> QED
  BY <1>1, <1>2, <1>3, <1>4, <1>5, <1>6 DEF Remove

-----------------------------------------------------------------------------
(***************************************************************************)
(* Sequences of blobs.                                                     *)
(***************************************************************************)
LEMMA HeadAndTail ==
  ASSUME NEW S, NEW s \in Seq(S), s # <<>>
  PROVE  /\ Head(s) \in S /\ Tail(s) \in Seq(S)
         /\ Range(s) = {Head(s)} \cup Range(Tail(s))
<1> DEFINE t == Tail(s)
<1>1. /\ t \in Seq(S) /\ Len(t) = Len(s) - 1 /\ Len(s) \in Nat /\ Len(s) > 0
      /\ \A i \in 1 .. Len(t) : t[i] = s[i + 1]
      /\ Head(s) = s[1] /\ Head(s) \in S
  BY HeadTailProperties, LenProperties, EmptySeq
<1> HIDE DEF t
<1>2. Range(s) = {s[i] : i \in 1 .. Len(s)} /\ Range(t) = {t[i] : i \in 1 .. Len(t)}
  BY <1>1, RangeIn
<1>3. ASSUME NEW i \in 1 .. Len(s), i # 1 PROVE s[i] \in Range(t)
  <2>1. i - 1 \in 1 .. Len(t) /\ (i - 1) + 1 = i
    BY <1>1, <1>3
  <2>2. t[i - 1] = s[i]
    BY <1>1, <2>1
  <2> QED
    BY <1>2, <2>1, <2>2
<1>4. ASSUME NEW i \in 1 .. Len(t) PROVE t[i] \in Range(s)
  <2>1. i + 1 \in 1 .. Len(s) /\ t[i] = s[i + 1]
    BY <1>1
  <2> QED
    BY <1>2, <2>1
<1>5. Head(s) \in Range(s)
  <2>1. 1 \in 1 .. Len(s)
    BY <1>1
  <2> QED
    BY <1>1, <1>2, <2>1
<1>6. \A x \in Range(s) : x = Head(s) \/ x \in Range(t)
  BY <1>1, <1>2, <1>3
<1>7. \A x \in Range(t) : x \in Range(s)
  BY <1>2, <1>4
<1> QED
  BY <1>1, <1>5, <1>6, <1>7 DEF t

\* What a packet leaves of the blobs to send.
Left(r) == SubSeq(r, Len(Chunk(r)) + 1, Len(r))

LEMMA CutIs ==
  ASSUME NEW r \in Seq(Contact)
  PROVE  /\ Chunk(r) \in Seq(Contact) /\ Left(r) \in Seq(Contact)
         /\ Chunk(r) \o Left(r) = r
<1> DEFINE n == IF Len(r) < PerPacket THEN Len(r) ELSE PerPacket
<1>1. Len(r) \in Nat /\ n \in 0 .. Len(r)
  BY LenProperties, DaemonAssumption
<1>2. Chunk(r) = SubSeq(r, 1, n)
  BY DEF Chunk
<1> HIDE DEF n
<1>3. \A i \in 1 .. Len(r) : r[i] \in Contact
  BY LenProperties
<1>4. Chunk(r) \in Seq(Contact) /\ Len(Chunk(r)) = n
  BY <1>1, <1>2, <1>3, SubSeqProperties
<1>5. Left(r) = SubSeq(r, n + 1, Len(r))
  BY <1>4 DEF Left
<1>6. Left(r) \in Seq(Contact)
  BY <1>1, <1>3, <1>5, SubSeqProperties
<1>7. SubSeq(r, 1, n) \o SubSeq(r, n + 1, Len(r)) = SubSeq(r, 1, Len(r))
  <2>1. 1 \in 1 .. Len(r) + 1 /\ n \in 1 - 1 .. Len(r) /\ Len(r) \in n .. Len(r)
    BY <1>1
  <2> QED
    BY <2>1, ConcatAdjacentSubSeq
<1> QED
  BY <1>2, <1>4, <1>5, <1>6, <1>7, SubSeqFull

LEMMA FirstIs ==
  ASSUME NEW g \in Seq(Contact), NEW n \in Int
  PROVE  /\ SelectFirst(g, n) \in Seq(Contact)
         /\ n = Len(g) => SelectFirst(g, n) = g
<1> DEFINE m == IF n < Len(g) THEN n ELSE Len(g)
<1>1. Len(g) \in Nat /\ m \in Int /\ m <= Len(g)
  BY LenProperties
<1>2. SelectFirst(g, n) = SubSeq(g, 1, m)
  BY DEF SelectFirst
<1>3. n = Len(g) => m = Len(g)
  OBVIOUS
<1> HIDE DEF m
<1>4. \A i \in 1 .. m : g[i] \in Contact
  BY <1>1, LenProperties
<1>5. SubSeq(g, 1, m) \in Seq(Contact)
  BY <1>1, <1>4, SubSeqProperties
<1> QED
  BY <1>2, <1>3, <1>5, SubSeqFull

\* A scan that the device may be in, and a packet of it.
LEMMA ScanIs ==
  ASSUME Shape, NEW s \in Scans
  PROVE  /\ s \in Seq(Contact) /\ Rest(s) \in Seq(Contact) /\ Count(s) \in Nat
         /\ ~first => s = scan /\ Rest(s) = rest
         /\ first => Rest(s) = s /\ Count(s) = Len(s)
<1>1. CASE first
  <2>1. PICK S \in SUBSET Contact : s = Listed(S)
    BY <1>1 DEF Scans
  <2>2. IsFiniteSet(S)
    BY KindAssumption, FS_Subset DEF Contact
  <2>3. s \in Seq(S)
    BY <2>1, <2>2, ListedIs
  <2>4. s \in Seq(Contact)
    BY <2>3, SeqMonotonic
  <2> QED
    BY <1>1, <2>4, LenProperties DEF Rest, Count
<1>2. CASE ~first
  BY <1>2 DEF Scans, Rest, Count, Shape
<1> QED
  BY <1>1, <1>2

LEMMA SendIs ==
  ASSUME Shape, NEW s \in Scans, Send(s)
  PROVE  /\ rest' = Left(Rest(s)) /\ rest' \in Seq(Contact) /\ scan' \in Seq(Contact)
         /\ first' <=> rest' = <<>>
         /\ rest' # <<>> => scan' = s
<1>1. /\ rest' = Left(Rest(s)) /\ first' = (rest' = <<>>)
      /\ scan' = IF rest' = <<>> THEN <<>> ELSE s
  BY DEF Send, Left
<1>2. rest' \in Seq(Contact) /\ s \in Seq(Contact) /\ <<>> \in Seq(Contact)
  BY <1>1, ScanIs, CutIs, EmptySeq
<1> QED
  BY <1>1, <1>2

-----------------------------------------------------------------------------
(***************************************************************************)
(* Reading a scan.                                                         *)
(***************************************************************************)
LEMMA CallKeeps ==
  ASSUME DaemonInv, Call
  PROVE  DaemonInv'
<1>1. /\ pc = "call" /\ pc' = "read" /\ need' = -1 /\ got' = <<>> /\ inStep' = first
      /\ result' = Nothing
      /\ UNCHANGED <<live, motion, upd, shown, placed, dirty, profiles, opts, touched,
                     scan, rest, first, todo, age, faults>>
  BY DEF Call, server, mgrVars, listVars, srvVars, rcvVars, devVars
<1>2. <<>> \in Seq(Contact)
  BY EmptySeq
<1>3. Shape'
  BY <1>1, <1>2 DEF DaemonInv, Shape, Nothing, Pcs
<1>4. Idle'
  BY <1>1 DEF DaemonInv, Idle, Slowed
<1>5. Reading'
  BY <1>1 DEF Reading
<1> QED
  BY <1>1, <1>3, <1>4, <1>5 DEF DaemonInv, Marking, Adding, Removing, Ending, ContactsAgree, EndsEmpty

\* A call returns: with nothing to show there is no frame.
LEMMA ReturnKeeps ==
  ASSUME DaemonInv, pc = "read", NEW bs \in Seq(Contact), NEW whole, NEW s, Return(bs, whole, s),
         UNCHANGED server, UNCHANGED <<todo, running, inStep, age>>, faults' \in Nat,
         scan' \in Seq(Contact), rest' \in Seq(Contact)
  PROVE  DaemonInv'
<1>1. /\ result'.blobs = bs /\ need' = -1 /\ got' = <<>> /\ pc' \in {"call", "init"}
      /\ pc' = "call" => bs = <<>> /\ Cardinality(live \cap (Object \cup Cursor)) = 0
      /\ UNCHANGED <<live, motion, upd, shown, placed, dirty, profiles, opts, touched>>
  BY DEF Return, server, mgrVars, listVars, srvVars, rcvVars
<1>2. <<>> \in Seq(Contact)
  BY EmptySeq
<1>3. Shape'
  BY <1>1, <1>2 DEF DaemonInv, Shape, Pcs
<1>4. Idle'
  BY <1>1 DEF DaemonInv, Idle, Slowed
<1>5. ContactsAgree'
  <2> SUFFICES ASSUME pc' = "call" PROVE ContactsAgree'
    BY DEF ContactsAgree
  <2>1. IsFiniteSet(live \cap (Object \cup Cursor))
    BY KindAssumption, FS_Subset
  <2>2. live \cap (Object \cup Cursor) = {}
    BY <1>1, <2>1, FS_EmptySet
  <2>3. Range(result'.blobs) = {}
    BY <1>1, RangeEmpty
  <2> QED
    BY <1>1, <2>2, <2>3 DEF ContactsAgree
<1> QED
  BY <1>1, <1>3, <1>4, <1>5
  DEF DaemonInv, Marking, Adding, Removing, Ending, Reading, EndsEmpty

\* What a packet adds to what has been read, and what is left of the scan.
LEMMA PacketIs ==
  ASSUME DaemonInv, pc = "read", NEW s \in Scans, Send(s)
  PROVE  LET n == IF need = -1 THEN Count(s) ELSE need
             g == got \o Chunk(Rest(s))
         IN  /\ n \in Int /\ g \in Seq(Contact)
             /\ inStep => n = Len(s) /\ g \o rest' = s /\ s \in Seq(Contact)
<1>1. /\ Rest(s) \in Seq(Contact) /\ s \in Seq(Contact) /\ Count(s) \in Nat
      /\ ~first => s = scan /\ Rest(s) = rest
      /\ first => Rest(s) = s /\ Count(s) = Len(s)
  BY ScanIs DEF DaemonInv
<1>2. /\ Chunk(Rest(s)) \in Seq(Contact) /\ rest' \in Seq(Contact)
      /\ Chunk(Rest(s)) \o rest' = Rest(s)
  BY <1>1, CutIs, SendIs DEF DaemonInv
<1>3. got \in Seq(Contact) /\ need \in Int
  BY DEF DaemonInv, Shape
<1>4. got \o Chunk(Rest(s)) \in Seq(Contact)
  BY <1>2, <1>3, ConcatProperties
<1>5. (got \o Chunk(Rest(s))) \o rest' = got \o Rest(s)
  <2>1. (got \o Chunk(Rest(s))) \o rest' = got \o (Chunk(Rest(s)) \o rest')
    <3>1. Chunk(Rest(s)) \in Seq(Contact) /\ rest' \in Seq(Contact) /\ got \in Seq(Contact)
      BY <1>2, <1>3
    <3> QED
      BY <3>1, ConcatAssociative
  <2> QED
    BY <1>2, <2>1
<1>6. ASSUME inStep
      PROVE  (IF need = -1 THEN Count(s) ELSE need) = Len(s) /\ got \o Rest(s) = s
  <2>1. CASE need = -1
    <3>1. got = <<>> /\ first
      BY <1>6, <2>1 DEF DaemonInv, Reading
    <3> QED
      BY <1>1, <2>1, <3>1, ConcatEmptySeq
  <2>2. CASE need # -1
    <3>1. need = Len(scan) /\ ~first /\ got \o rest = scan
      BY <1>6, <2>2 DEF DaemonInv, Reading
    <3> QED
      BY <1>1, <2>2, <3>1
  <2> QED
    BY <2>1, <2>2
<1> QED
  BY <1>1, <1>3, <1>4, <1>5, <1>6

LEMMA ReadPacketKeeps ==
  ASSUME DaemonInv, ReadPacket
  PROVE  DaemonInv'
<1>1. PICK s \in Scans :
        LET n == IF need = -1 THEN Count(s) ELSE need
            g == got \o Chunk(Rest(s))
        IN  /\ Send(s)
            /\ IF Enough(g, n) THEN Return(SelectFirst(g, n), inStep, s)
               ELSE pc' = "read" /\ need' = n /\ got' = g /\ UNCHANGED result
  BY DEF ReadPacket
<1>2. /\ pc = "read" /\ UNCHANGED server /\ UNCHANGED <<todo, running, inStep, age, faults>>
      /\ faults \in Nat
  BY DEF ReadPacket, DaemonInv, Shape
<1> DEFINE n == IF need = -1 THEN Count(s) ELSE need
           g == got \o Chunk(Rest(s))
<1>3. n \in Int /\ g \in Seq(Contact) /\ (inStep => n = Len(s) /\ g \o rest' = s /\ s \in Seq(Contact))
  BY <1>1, <1>2, PacketIs
<1>4. /\ scan' \in Seq(Contact) /\ rest' \in Seq(Contact) /\ (first' <=> rest' = <<>>)
      /\ rest' # <<>> => scan' = s
  BY <1>1, SendIs DEF DaemonInv
<1>5. CASE Enough(g, n)
  <2>1. Return(SelectFirst(g, n), inStep, s)
    BY <1>1, <1>5
  <2>2. SelectFirst(g, n) \in Seq(Contact)
    BY <1>3, FirstIs
  <2> HIDE DEF n, g
  <2> QED
    BY <1>2, <1>4, <2>1, <2>2, ReturnKeeps
<1>6. CASE ~Enough(g, n)
  <2>1. pc' = "read" /\ need' = n /\ got' = g /\ UNCHANGED result
    BY <1>1, <1>6
  <2> HIDE DEF n, g
  <2>2. /\ UNCHANGED <<live, motion, upd, shown, placed, dirty, profiles, opts, touched, todo,
                       age, inStep, faults, pc>>
    BY <1>2, <2>1 DEF server, mgrVars, listVars, srvVars, rcvVars
  <2>3. Shape'
    BY <1>3, <1>4, <2>1, <2>2 DEF DaemonInv, Shape
  <2>4. Idle'
    BY <2>2 DEF DaemonInv, Idle, Slowed
  <2>5. ASSUME inStep PROVE need' # -1 /\ need' = Len(scan') /\ ~first' /\ got' \o rest' = scan'
    <3>1. Len(s) \in Nat /\ Len(g) < Len(s)
      BY <1>3, <1>6, <2>5, LenProperties DEF Enough
    <3>2. rest' # <<>>
      BY <1>3, <2>5, <3>1, ConcatEmptySeq
    <3>3. scan' = s /\ ~first'
      BY <1>4, <3>2
    <3>4. need' = Len(s) /\ got' \o rest' = s
      BY <1>3, <2>1, <2>5
    <3> QED
      BY <3>1, <3>3, <3>4
  <2>6. Reading'
    BY <2>2, <2>5 DEF Reading
  <2> QED
    BY <1>2, <2>1, <2>3, <2>4, <2>6
    DEF DaemonInv, Marking, Adding, Removing, Ending, ContactsAgree, EndsEmpty
<1> QED
  BY <1>5, <1>6

LEMMA ReadErrorKeeps ==
  ASSUME DaemonInv, ReadError
  PROVE  DaemonInv'
<1>1. /\ pc = "read" /\ faults' = faults + 1 /\ Return(<<>>, FALSE, <<>>)
      /\ UNCHANGED server /\ UNCHANGED <<todo, running, inStep, age>>
  BY DEF ReadError
<1>2. <<>> \in Seq(Contact) /\ faults' \in Nat
  BY <1>1, EmptySeq DEF DaemonInv, Shape
<1>3. scan' \in Seq(Contact) /\ rest' \in Seq(Contact)
  <2>1. ASSUME NEW s \in Scans, Send(s) PROVE scan' \in Seq(Contact) /\ rest' \in Seq(Contact)
    BY <2>1, SendIs DEF DaemonInv
  <2>2. ASSUME UNCHANGED devVars PROVE scan' \in Seq(Contact) /\ rest' \in Seq(Contact)
    BY <2>2 DEF DaemonInv, Shape, devVars
  <2> QED
    BY <2>1, <2>2 DEF ReadError
<1> QED
  BY <1>1, <1>2, <1>3, ReturnKeeps

LEMMA LosePacketKeeps ==
  ASSUME DaemonInv, LosePacket
  PROVE  DaemonInv'
<1>1. PICK s \in Scans : Send(s)
  BY DEF LosePacket
<1>2. /\ pc = "read" /\ faults' = faults + 1 /\ inStep' = (inStep /\ need = -1 /\ first')
      /\ UNCHANGED <<live, motion, upd, shown, placed, dirty, profiles, opts, touched, todo,
                     age, pc, need, got, result>>
  BY DEF LosePacket, server, mgrVars, listVars, srvVars, rcvVars, callVars
<1>3. Shape'
  BY <1>1, <1>2, SendIs DEF DaemonInv, Shape
<1>4. Idle'
  BY <1>2 DEF DaemonInv, Idle, Slowed
<1>5. Reading'
  BY <1>2 DEF DaemonInv, Reading
<1> QED
  BY <1>2, <1>3, <1>4, <1>5
  DEF DaemonInv, Marking, Adding, Removing, Ending, ContactsAgree, EndsEmpty

LEMMA StutterKeeps ==
  ASSUME DaemonInv, UNCHANGED <<mgrVars, srvVars, rcvVars, devVars, callVars, pc, todo, inStep, result,
                                age, faults>>
  PROVE  DaemonInv'
<1>1. UNCHANGED <<live, motion, upd, shown, placed, dirty, profiles, opts, touched, todo,
                  age, pc, need, got, result, scan, rest, first, inStep, faults>>
  BY DEF mgrVars, listVars, srvVars, rcvVars, callVars, devVars
<1>2. Shape' /\ Idle' /\ Marking' /\ Adding'
  BY <1>1 DEF DaemonInv, Shape, Idle, Marking, Adding, Slowed, Seen
<1>3. Removing' /\ Ending' /\ Reading' /\ ContactsAgree' /\ EndsEmpty'
  BY <1>1 DEF DaemonInv, Removing, Ending, Reading, ContactsAgree, EndsEmpty, Slowed, Seen
<1> QED
  BY <1>2, <1>3 DEF DaemonInv

-----------------------------------------------------------------------------
(***************************************************************************)
(* A frame.                                                                *)
(***************************************************************************)
LEMMA FrameInitKeeps ==
  ASSUME DaemonInv, FrameInit
  PROVE  DaemonInv'
<1>1. /\ pc = "init" /\ pc' = "blobs" /\ touched' = {} /\ todo' = result.blobs
      /\ UNCHANGED <<live, motion, upd, shown, dirty, profiles, opts, age, need, got, result,
                     scan, rest, faults>>
  BY DEF FrameInit, At, InitFrame, Displaced, Quietly, srvVars, devVars, callVars
<1>2. Shape'
  BY <1>1 DEF DaemonInv, Shape, Pcs
<1>3. Marking'
  BY <1>1 DEF DaemonInv, Idle, Marking
<1>4. Adding'
  BY <1>1 DEF DaemonInv, Idle, Adding, Seen, Slowed
<1> QED
  BY <1>1, <1>2, <1>3, <1>4 DEF DaemonInv, Idle, Removing, Ending, Reading, ContactsAgree, EndsEmpty

LEMMA FrameBlobKeeps ==
  ASSUME DaemonInv, FrameBlob
  PROVE  DaemonInv'
<1> DEFINE c == Head(todo)
<1>1. /\ pc = "blobs" /\ pc' = "blobs" /\ todo # <<>> /\ todo' = Tail(todo) /\ Blob1(c)
      /\ age' = [d \in Object |-> IF d = c THEN 0 ELSE age[d]]
      /\ UNCHANGED <<shown, dirty, profiles, opts, need, got, result, scan, rest, faults>>
  BY DEF FrameBlob, At, Displaced, Quietly, srvVars, devVars, callVars
<1>2. /\ c \in Contact /\ todo' \in Seq(Contact)
      /\ Range(todo) = {c} \cup Range(todo')
  BY <1>1, HeadAndTail DEF DaemonInv, Shape
<1>3. IF c \in Touches
      THEN /\ live' = live \cup {c} /\ touched' = touched \cup {c}
           /\ upd' = upd \cup {Kind(c)} \/ (c \in touched /\ UNCHANGED <<live, upd>>)
           /\ motion' = motion \/ \E r \in Motion : motion' = [motion EXCEPT ![c] = r]
      ELSE UNCHANGED mgrVars
  BY <1>1, <1>2, BlobStep DEF DaemonInv
<1> HIDE DEF c
<1>4. live \subseteq Touches /\ motion \in [Contact -> Motion] /\ profiles = {"obj", "cur"}
  BY DEF DaemonInv, Shape
<1>5. /\ live \subseteq live' /\ touched \subseteq touched' /\ upd \subseteq upd'
      /\ live' \subseteq Touches /\ live' \subseteq live \cup {c} /\ touched' \subseteq touched \cup {c}
      /\ c \in Touches => c \in live' /\ c \in touched'
      /\ motion' \in [Contact -> Motion] /\ \A d \in Contact \ {c} : motion'[d] = motion[d]
  BY <1>2, <1>3, <1>4 DEF mgrVars, listVars
<1>6. Shape'
  BY <1>1, <1>2, <1>5 DEF DaemonInv, Shape
<1>7. Adding'
  <2>1. /\ touched \subseteq Seen /\ Range(todo) \subseteq Seen
        /\ Seen \cap Touches \subseteq (touched \cap live) \cup Range(todo)
        /\ \A d \in live \cap Object : age[d] <= 2 /\ Slowed(age[d], d)
    BY <1>1 DEF DaemonInv, Adding
  <2>2. Seen' = Seen
    BY <1>1 DEF Seen
  <2>3. ASSUME NEW d \in live' \cap Object PROVE age'[d] <= 2 /\ Slowed(age[d], d)'
    <3>1. CASE d = c
      BY <1>1, <3>1 DEF Slowed
    <3>2. CASE d # c
      <4>1. d \in live \cap Object /\ age'[d] = age[d] /\ motion'[d] = motion[d]
        BY <1>1, <1>5, <2>3, <3>2, Kinds3
      <4> QED
        BY <2>1, <4>1 DEF Slowed
    <3> QED
      BY <3>1, <3>2
  <2>4. \A d \in live' \cap Object : age'[d] <= 2 /\ Slowed(age[d], d)'
    BY <2>3
  <2> QED
    BY <1>2, <1>5, <2>1, <2>2, <2>4 DEF Adding
<1>8. Marking'
  <2>1. /\ \A d \in touched : Kind(d) \in upd
        /\ \A k \in profiles \ (dirty \cup upd) : shown \cap Of(k) = live \cap Of(k)
    BY <1>1 DEF DaemonInv, Marking
  <2>2. \A d \in touched' : Kind(d) \in upd'
    BY <1>3, <2>1 DEF mgrVars, listVars
  <2>3. ASSUME NEW k \in profiles \ (dirty \cup upd') PROVE live' \cap Of(k) = live \cap Of(k)
    <3>1. CASE live' = live
      BY <3>1
    <3>2. CASE live' # live
      <4>1. c \in Touches /\ live' = live \cup {c} /\ Kind(c) \in upd'
        BY <1>3, <3>2 DEF mgrVars, listVars
      <4>2. k \in Kinds /\ Kind(c) # k
        BY <1>4, <2>3, <4>1 DEF Kinds
      <4>3. c \notin Of(k)
        BY <4>2, KindOf
      <4> QED
        BY <4>1, <4>3
    <3> QED
      BY <3>1, <3>2
  <2>4. \A k \in profiles \ (dirty \cup upd') : shown \cap Of(k) = live' \cap Of(k)
    BY <1>5, <2>1, <2>3
  <2> QED
    BY <1>1, <2>2, <2>4 DEF Marking
<1> QED
  BY <1>1, <1>6, <1>7, <1>8 DEF DaemonInv, Idle, Removing, Ending, Reading, ContactsAgree, EndsEmpty

LEMMA FrameStopCursorsKeeps ==
  ASSUME DaemonInv, FrameStopCursors
  PROVE  DaemonInv'
<1> DEFINE S == {c \in live \ touched : Kind(c) \in {"cur"} /\ IsMoving(motion[c])}
<1>1. /\ pc = "blobs" /\ pc' = "cursors" /\ todo = <<>>
      /\ motion' = [c \in Contact |-> IF c \in S THEN Stopped(c) ELSE motion[c]]
      /\ touched' = touched \cup (S \ Cursor) /\ upd' = upd \cup {Kind(c) : c \in S}
      /\ age' = [c \in Object |-> IF c \in Range(result.blobs) \/ c \notin live THEN 0 ELSE age[c] + 1]
      /\ UNCHANGED <<live, shown, dirty, profiles, opts, need, got, result, scan, rest, faults, todo>>
  BY DEF FrameStopCursors, At, StopUntouchedMovingCursors, StopUntouched, Displaced, Quietly,
         srvVars, devVars, callVars
<1>2. /\ live \subseteq Touches /\ motion \in [Contact -> Motion] /\ age \in [Object -> Nat]
  BY DEF DaemonInv, Shape
<1>3. \A c \in live : (Kind(c) = "cur" <=> c \in Cursor) /\ (c \in Cursor \/ c \in Object) /\ c \in Contact
  BY <1>2, Kinds3 DEF Touches
<1>4. S \subseteq Cursor /\ S \subseteq Contact
  BY <1>3
<1>5. \A c \in S : Stopped(c) \in Motion /\ ~IsMoving(Stopped(c))
  BY <1>2, <1>4, StoppedCursor
<1>6. \A c \in live \cap Cursor : c \in touched \/ c \in S \/ ~IsMoving(motion[c])
  BY <1>3
<1> HIDE DEF S
<1>7. touched' = touched /\ upd \subseteq upd'
  BY <1>1, <1>4
<1>8. Shape'
  <2>1. motion' \in [Contact -> Motion]
    BY <1>1, <1>2, <1>5
  <2>2. age' \in [Object -> Nat]
    BY <1>1, <1>2
  <2> QED
    BY <1>1, <2>1, <2>2 DEF DaemonInv, Shape, Pcs
<1>9. Marking'
  BY <1>1, <1>7 DEF DaemonInv, Marking
<1>10. Removing'
  <2>1. /\ touched \subseteq Seen /\ Seen \cap Touches \subseteq touched \cap live
        /\ \A d \in live \cap Object : age[d] <= 2 /\ Slowed(age[d], d)
    BY <1>1, RangeEmpty DEF DaemonInv, Adding
  <2>2. Seen' = Seen /\ Seen = Range(result.blobs)
    BY <1>1 DEF Seen
  <2>3. \A c \in live' \cap Cursor : c \in touched' \/ ~IsMoving(motion'[c])
    BY <1>1, <1>3, <1>5, <1>6, <1>7
  <2>4. ASSUME NEW c \in live' \cap Object, c \notin Seen
        PROVE  age'[c] \in 1 .. 3 /\ Slowed(age[c] - 1, c)'
    <3>1. age'[c] = age[c] + 1 /\ age[c] \in 0 .. 2 /\ Slowed(age[c], c)
      BY <1>1, <1>2, <2>1, <2>2, <2>4
    <3>2. motion'[c] = motion[c]
      BY <1>1, <1>4, <2>4, Kinds3
    <3>3. age'[c] - 1 = age[c]
      BY <3>1
    <3> QED
      BY <3>1, <3>2, <3>3 DEF Slowed
  <2>5. \A c \in live' \cap Object : c \in Seen => age'[c] = 0
    BY <1>1, <2>2
  <2> QED
    BY <1>1, <1>7, <2>1, <2>2, <2>3, <2>4, <2>5 DEF Removing
<1> QED
  BY <1>1, <1>8, <1>9, <1>10 DEF DaemonInv, Idle, Adding, Ending, Reading, ContactsAgree, EndsEmpty

\* One iteration of a loop that removes untouched contacts, or its end.
LEMMA LoopIs ==
  ASSUME Shape, NEW p, NEW q, NEW k \in {"obj", "cur"}, Loop(p, q, k)
  PROVE  /\ pc = p /\ live' \subseteq live /\ motion' \in [Contact -> Motion]
         /\ UNCHANGED <<todo, age, shown, dirty, profiles, opts, need, got, result, scan, rest,
                        faults, touched>>
         /\ \/ pc' = q /\ UntouchedStopped(k) = {} /\ UNCHANGED <<live, motion, upd>>
            \/ pc' = p /\ \E c \in live \cap Of(k) :
                 /\ c \notin touched /\ live' = live \ {c} /\ upd' = upd \cup {k}
                 /\ \A d \in Contact \ {c} : motion'[d] = motion[d]
<1>1. UNCHANGED <<todo, age, shown, dirty>>
  BY DEF Loop, Displaced, Quietly
<1>2. CASE UntouchedStopped(k) = {}
  <2>1. At(p, q, UNCHANGED mgrVars)
    BY <1>2 DEF Loop
  <2> QED
    BY <1>1, <1>2, <2>1 DEF At, srvVars, devVars, callVars, mgrVars, listVars, Shape
<1>3. CASE UntouchedStopped(k) # {}
  <2>1. At(p, p, \E c \in UntouchedStopped(k) : RemoveTuio(c) /\ UNCHANGED loop)
    BY <1>3 DEF Loop
  <2>2. /\ pc = p /\ pc' = p /\ \E c \in UntouchedStopped(k) : RemoveTuio(c)
        /\ UNCHANGED <<profiles, opts, need, got, result, scan, rest, faults>>
    BY <2>1 DEF At, srvVars, devVars, callVars
  <2>3. PICK c \in UntouchedStopped(k) : RemoveTuio(c)
    BY <2>2
  <2>4. k \in Kinds
    BY DEF Kinds
  <2>5. /\ c \in live \cap Of(k) /\ c \notin touched /\ live' = live \ {c}
        /\ upd' = upd \cup {k} /\ touched' = touched
        /\ motion' \in [Contact -> Motion]
        /\ \A d \in Contact \ {c} : motion'[d] = motion[d]
    BY <2>3, <2>4, RemoveStep
  <2> QED
    BY <1>1, <2>2, <2>5
<1> QED
  BY <1>2, <1>3

\* Such a loop marks the kind it removes contacts of.
LEMMA LoopMarks ==
  ASSUME Shape, Marking, NEW p, NEW q, NEW k \in {"obj", "cur"}, Loop(p, q, k),
         p \in {"cursors", "objects2"}
  PROVE  Marking'
<1>1. /\ \A c \in touched : Kind(c) \in upd
      /\ \A l \in profiles \ (dirty \cup upd) : shown \cap Of(l) = live \cap Of(l)
      /\ profiles = {"obj", "cur"}
  BY LoopIs DEF Shape, Marking
<1>2. UNCHANGED <<touched, shown, dirty, profiles>>
  BY LoopIs
<1>3. CASE UNCHANGED <<live, upd>>
  BY <1>1, <1>2, <1>3 DEF Marking
<1>4. ASSUME NEW c \in live \cap Of(k), live' = live \ {c}, upd' = upd \cup {k}
      PROVE  Marking'
  <2>1. ASSUME NEW l \in profiles \ (dirty \cup upd') PROVE c \notin Of(l)
    <3>1. k # l /\ k \in Kinds /\ l \in Kinds
      BY <1>1, <1>4, <2>1 DEF Kinds
    <3> QED
      BY <1>4, <3>1, KindOf
  <2>2. \A l \in profiles \ (dirty \cup upd') : shown \cap Of(l) = live' \cap Of(l)
    BY <1>1, <1>4, <2>1
  <2> QED
    BY <1>1, <1>2, <1>4, <2>2 DEF Marking
<1> QED
  BY <1>3, <1>4, LoopIs

LEMMA FrameRemoveCursorsKeeps ==
  ASSUME DaemonInv, FrameRemoveCursors
  PROVE  DaemonInv'
<1>1. Loop("cursors", "objects", "cur") /\ Shape /\ Marking
  BY DEF FrameRemoveCursors, DaemonInv
<1>2. /\ pc = "cursors" /\ pc' \in {"cursors", "objects"}
      /\ live' \subseteq live /\ motion' \in [Contact -> Motion]
      /\ UNCHANGED <<todo, age, shown, dirty, profiles, opts, need, got, result, scan, rest,
                     faults, touched>>
  BY <1>1, LoopIs
<1>3. \/ pc' = "objects" /\ UntouchedStopped("cur") = {} /\ UNCHANGED <<live, motion, upd>>
      \/ pc' = "cursors" /\ \E c \in live \cap Of("cur") :
           /\ c \notin touched /\ live' = live \ {c} /\ upd' = upd \cup {"cur"}
           /\ \A d \in Contact \ {c} : motion'[d] = motion[d]
  BY <1>1, LoopIs
<1>4. Shape'
  BY <1>1, <1>2 DEF Shape, Pcs
<1>5. Marking'
  BY <1>1, LoopMarks
<1>6. Removing'
  <2>1. /\ touched \subseteq Seen /\ Seen \cap Touches \subseteq touched \cap live
        /\ \A c \in live \cap Cursor : c \in touched \/ ~IsMoving(motion[c])
        /\ \A c \in live \cap Object : IF c \in Seen THEN age[c] = 0
                                       ELSE age[c] \in 1 .. 3 /\ Slowed(age[c] - 1, c)
    BY <1>2 DEF DaemonInv, Removing
  <2>2. Seen' = Seen
    BY <1>2 DEF Seen
  <2>3. CASE pc' = "objects" /\ UntouchedStopped("cur") = {} /\ UNCHANGED <<live, motion, upd>>
    <3>1. \A c \in live \cap Cursor : c \in touched
      BY <2>1, <2>3, OfKind DEF UntouchedStopped
    <3>2. \A c \in Object : Slowed(age[c] - 1, c)' <=> Slowed(age[c] - 1, c)
      BY <1>2, <2>3 DEF Slowed
    <3> QED
      BY <1>2, <2>1, <2>2, <2>3, <3>1, <3>2 DEF Removing
  <2>4. ASSUME pc' = "cursors", NEW c \in live \cap Of("cur"), c \notin touched, live' = live \ {c},
               \A d \in Contact \ {c} : motion'[d] = motion[d]
        PROVE  Removing'
    <3>1. c \in Cursor /\ c \notin Seen
      BY <2>1, <2>4, OfKind DEF Touches
    <3>2. \A d \in live' : d \in Contact /\ motion'[d] = motion[d]
      BY <1>1, <2>4, Kinds3 DEF Shape
    <3>3. \A d \in live' \cap Object : Slowed(age[d] - 1, d)' <=> Slowed(age[d] - 1, d)
      BY <1>2, <3>2 DEF Slowed
    <3>4. \A d \in live' \cap Cursor : d \in touched' \/ (~IsMoving(motion'[d]) /\ pc' = "cursors")
      BY <1>2, <2>1, <2>4, <3>2
    <3>5. \A d \in live' \cap Object : IF d \in Seen THEN age'[d] = 0
                                       ELSE age'[d] \in 1 .. 3 /\ Slowed(age[d] - 1, d)'
      BY <1>2, <2>1, <2>4, <3>3
    <3>6. Seen \cap Touches \subseteq touched' \cap live'
      BY <1>2, <2>1, <2>4, <3>1
    <3> QED
      BY <1>2, <2>1, <2>2, <3>4, <3>5, <3>6 DEF Removing
  <2> QED
    BY <1>3, <2>3, <2>4
<1> QED
  BY <1>2, <1>4, <1>5, <1>6 DEF DaemonInv, Idle, Adding, Ending, Reading, ContactsAgree, EndsEmpty

LEMMA FrameStopObjectsKeeps ==
  ASSUME DaemonInv, FrameStopObjects
  PROVE  DaemonInv'
<1> DEFINE S == {c \in live \ touched : Kind(c) \in {"obj"} /\ IsMoving(motion[c])}
<1>1. /\ pc = "objects" /\ pc' = "objects2"
      /\ motion' = [c \in Contact |-> IF c \in S THEN Stopped(c) ELSE motion[c]]
      /\ touched' = touched \cup (S \ Cursor) /\ upd' = upd \cup {Kind(c) : c \in S}
      /\ UNCHANGED <<live, shown, dirty, profiles, opts, need, got, result, scan, rest, faults, todo,
                     age>>
  BY DEF FrameStopObjects, At, StopUntouchedMovingObjects, StopUntouched, Displaced, Quietly,
         srvVars, devVars, callVars
<1>2. live \subseteq Touches /\ motion \in [Contact -> Motion] /\ age \in [Object -> Nat]
  BY DEF DaemonInv, Shape
<1>3. \A c \in live : (Kind(c) = "obj" <=> c \in Object) /\ (c \in Cursor \/ c \in Object) /\ c \in Contact
  BY <1>2, Kinds3 DEF Touches
<1>4. /\ S \subseteq Object /\ S \subseteq Contact /\ S \subseteq live /\ S \cap touched = {}
      /\ \A c \in S : Kind(c) = "obj" /\ IsMoving(motion[c])
  BY <1>3
<1>5. \A c \in live \cap Object : c \in touched \/ c \in S \/ ~IsMoving(motion[c])
  BY <1>3
<1> HIDE DEF S
<1>6. \A c \in S : /\ Stopped(c) \in Motion /\ ~Stopped(c).speed /\ ~Stopped(c).rspeed
                   /\ ~motion[c].speed /\ ~motion[c].rspeed => Stopped(c).state = "STOPPED"
  BY <1>2, <1>4, StoppedIs
<1>7. touched' = touched \cup S /\ upd \subseteq upd' /\ \A c \in S : Kind(c) \in upd'
  BY <1>1, <1>4, Kinds3
<1>8. Shape'
  <2>1. motion' \in [Contact -> Motion]
    BY <1>1, <1>2, <1>6
  <2> QED
    BY <1>1, <2>1 DEF DaemonInv, Shape, Pcs
<1>9. Marking'
  BY <1>1, <1>7 DEF DaemonInv, Marking
<1>10. Ending'
  <2>1. /\ touched \subseteq Seen /\ Seen \cap Touches \subseteq touched \cap live
        /\ \A c \in live \cap Cursor : c \in touched
        /\ \A c \in live \cap Object : IF c \in Seen THEN age[c] = 0
                                       ELSE age[c] \in 1 .. 3 /\ Slowed(age[c] - 1, c)
    BY <1>1 DEF DaemonInv, Removing
  <2>2. Seen' = Seen
    BY <1>1 DEF Seen
  <2>3. ASSUME NEW c \in live' \cap Object, c \in touched'
        PROVE  age'[c] <= 2 /\ Slowed(age[c], c)'
    <3>1. CASE c \in touched
      BY <1>1, <2>1, <2>3, <3>1 DEF Slowed
    <3>2. CASE c \in S
      <4>1. c \notin Seen /\ c \in Contact
        BY <1>4, <2>1, <3>2 DEF Touches
      <4>2. age[c] \in 1 .. 3 /\ Slowed(age[c] - 1, c) /\ motion[c].state # "STOPPED"
        BY <1>1, <1>4, <2>1, <2>3, <3>2, <4>1 DEF IsMoving
      <4>3. age[c] - 1 # 2
        BY <4>2 DEF Slowed
      <4>4. age[c] - 1 >= 1 => ~motion[c].speed /\ ~motion[c].rspeed
        BY <4>2 DEF Slowed
      <4>5. motion'[c] = Stopped(c) /\ age'[c] = age[c]
        BY <1>1, <3>2, <4>1
      <4> QED
        BY <1>6, <3>2, <4>2, <4>3, <4>4, <4>5 DEF Slowed
    <3> QED
      BY <1>7, <2>3, <3>1, <3>2
  <2>4. ASSUME NEW c \in live' \cap Object, c \notin touched'
        PROVE  ~IsMoving(motion'[c])
    BY <1>1, <1>2, <1>3, <1>5, <1>7, <2>4
  <2>5. live' \cap Cursor \subseteq Seen /\ Seen \cap Touches \subseteq touched' \cap live'
    BY <1>1, <1>7, <2>1
  <2> QED
    BY <1>1, <2>2, <2>3, <2>4, <2>5 DEF Ending
<1> QED
  BY <1>1, <1>8, <1>9, <1>10 DEF DaemonInv, Idle, Adding, Removing, Reading, ContactsAgree, EndsEmpty

LEMMA FrameRemoveObjectsKeeps ==
  ASSUME DaemonInv, FrameRemoveObjects
  PROVE  DaemonInv'
<1>1. Loop("objects2", "commit", "obj") /\ Shape /\ Marking
  BY DEF FrameRemoveObjects, DaemonInv
<1>2. /\ pc = "objects2" /\ pc' \in {"objects2", "commit"}
      /\ live' \subseteq live /\ motion' \in [Contact -> Motion]
      /\ UNCHANGED <<todo, age, shown, dirty, profiles, opts, need, got, result, scan, rest,
                     faults, touched>>
  BY <1>1, LoopIs
<1>3. \/ pc' = "commit" /\ UntouchedStopped("obj") = {} /\ UNCHANGED <<live, motion, upd>>
      \/ pc' = "objects2" /\ \E c \in live \cap Of("obj") :
           /\ c \notin touched /\ live' = live \ {c} /\ upd' = upd \cup {"obj"}
           /\ \A d \in Contact \ {c} : motion'[d] = motion[d]
  BY <1>1, LoopIs
<1>4. Shape'
  BY <1>1, <1>2 DEF Shape, Pcs
<1>5. Marking'
  BY <1>1, LoopMarks
<1>6. Ending'
  <2>1. /\ Seen \cap Touches \subseteq touched \cap live
        /\ live \cap Cursor \subseteq Seen
        /\ \A c \in live \cap Object :
             IF c \in touched THEN age[c] <= 2 /\ Slowed(age[c], c) ELSE ~IsMoving(motion[c])
    BY <1>2 DEF DaemonInv, Ending
  <2>2. Seen' = Seen
    BY <1>2 DEF Seen
  <2>3. CASE pc' = "commit" /\ UntouchedStopped("obj") = {} /\ UNCHANGED <<live, motion, upd>>
    <3>1. \A c \in live \cap Object : c \in touched
      BY <2>1, <2>3, OfKind DEF UntouchedStopped
    <3>2. \A c \in Object : Slowed(age[c], c)' <=> Slowed(age[c], c)
      BY <1>2, <2>3 DEF Slowed
    <3> QED
      BY <1>2, <2>1, <2>2, <2>3, <3>1, <3>2 DEF Ending
  <2>4. ASSUME pc' = "objects2", NEW c \in live \cap Of("obj"), c \notin touched, live' = live \ {c},
               \A d \in Contact \ {c} : motion'[d] = motion[d]
        PROVE  Ending'
    <3>1. \A d \in live' : d \in Contact /\ motion'[d] = motion[d]
      BY <1>1, <2>4, Kinds3 DEF Shape
    <3>2. \A d \in live' \cap Object : Slowed(age[d], d)' <=> Slowed(age[d], d)
      BY <1>2, <3>1 DEF Slowed
    <3>3. \A d \in live' \cap Object : IF d \in touched' THEN age'[d] <= 2 /\ Slowed(age[d], d)'
                                       ELSE ~IsMoving(motion'[d])
      BY <1>2, <2>1, <2>4, <3>1, <3>2
    <3>4. Seen \cap Touches \subseteq touched' \cap live' /\ live' \cap Cursor \subseteq Seen
      BY <1>2, <2>1, <2>4
    <3> QED
      BY <2>2, <2>4, <3>3, <3>4 DEF Ending
  <2> QED
    BY <1>3, <2>3, <2>4
<1> QED
  BY <1>2, <1>4, <1>5, <1>6 DEF DaemonInv, Idle, Adding, Removing, Reading, ContactsAgree, EndsEmpty

\* The frame that is sent has touched every contact, so that what is sent of a kind is all
\* that is alive of it.
LEMMA FrameCommitKeeps ==
  ASSUME DaemonInv, FrameCommit
  PROVE  DaemonInv'
<1>1. /\ pc = "commit" /\ pc' = "call" /\ CommitFrame
      /\ UNCHANGED <<todo, age, profiles, opts, need, got, result, scan, rest, faults>>
  BY DEF FrameCommit, At, srvVars, devVars, callVars
<1>2. /\ live \subseteq Touches /\ profiles = {"obj", "cur"} /\ opts = {} /\ live \subseteq Contact
      /\ shown \subseteq Touches
  BY Kinds3 DEF DaemonInv, Shape
<1>3. /\ upd' = {} /\ UNCHANGED <<live, motion, touched>>
  BY <1>1 DEF CommitFrame
<1>4. /\ \A c \in touched : Kind(c) \in upd
      /\ \A k \in profiles \ (dirty \cup upd) : shown \cap Of(k) = live \cap Of(k)
  BY <1>1 DEF DaemonInv, Marking
<1>5. /\ Seen \cap Touches \subseteq touched \cap live /\ live \cap Cursor \subseteq Seen
      /\ \A c \in live \cap Object : c \in touched /\ age[c] <= 2 /\ Slowed(age[c], c)
  BY <1>1 DEF DaemonInv, Ending
<1>6. live \subseteq touched
  BY <1>2, <1>5 DEF Touches
<1>7. PICK due \in BOOLEAN :
        LET sent == [obj |-> FramePackets("obj", due), cur |-> FramePackets("cur", due),
                     blb |-> FramePackets("blb", due)]
        IN  \E lost \in SUBSET UNION {{<<k, i>> : i \in DOMAIN sent[k]} : k \in Kinds} :
              Deliver(sent, lost)
  BY <1>1 DEF CommitFrame
<1> DEFINE sent == [obj |-> FramePackets("obj", due), cur |-> FramePackets("cur", due),
                    blb |-> FramePackets("blb", due)]
<1>8. \A k \in profiles : sent[k] = FramePackets(k, due)
  BY <1>2
<1>9. PICK lost : Deliver(sent, lost)
  BY <1>7
<1> HIDE DEF sent
<1>10. shown' \subseteq Touches
  <2>1. PICK ks : shown' = {c \in Contact : IF Kind(c) \in ks THEN c \in live ELSE c \in shown}
    BY <1>9 DEF Deliver
  <2> QED
    BY <1>2, <2>1
<1>11. ASSUME NEW k \in profiles \ dirty'
       PROVE  shown' \cap Of(k) = live \cap Of(k) /\ live \cap Of(k) \subseteq placed'
  <2>1. k \in Kinds /\ k \notin dirty' /\ \A c \in Of(k) : Kind(c) = k
    BY <1>2, <1>11, KindOf DEF Kinds
  <2>2. /\ DOMAIN sent[k] # {} =>
             /\ shown' \cap Of(k) = live \cap Of(k)
             /\ UNION Range(sent[k]) \subseteq placed'
        /\ DOMAIN sent[k] = {} =>
             /\ k \notin dirty /\ shown' \cap Of(k) = shown \cap Of(k)
    BY <1>2, <1>9, <2>1, Delivered
  <2>3. CASE k \in upd
    <3>1. sent[k] = Packets(k, touched)
      BY <1>2, <1>8, <1>11, <2>3 DEF FramePackets
    <3>2. DOMAIN Packets(k, touched) # {} /\ UNION Range(Packets(k, touched)) = live \cap Of(k) \cap touched
      BY <1>2, <2>1, PacketsAre
    <3> QED
      BY <1>6, <2>2, <3>1, <3>2
  <2>4. CASE k \notin upd
    <3>1. sent[k] = <<>>
      BY <1>2, <1>8, <1>11, <2>4 DEF FramePackets
    <3>2. DOMAIN sent[k] = {}
      BY <3>1
    <3>3. k \notin dirty /\ shown' \cap Of(k) = live \cap Of(k)
      BY <1>4, <1>11, <2>2, <2>4, <3>2
    <3>4. live \cap Of(k) = {}
      BY <1>4, <1>6, <2>1, <2>4
    <3> QED
      BY <3>3, <3>4
  <2> QED
    BY <2>3, <2>4
<1>12. Shape'
  BY <1>1, <1>2, <1>3, <1>10 DEF DaemonInv, Shape, Pcs
<1>13. Idle'
  <2>1. \A c \in live' \cap Object : age'[c] <= 2 /\ Slowed(age[c], c)'
    BY <1>1, <1>3, <1>5 DEF Slowed
  <2>2. \A k \in profiles' \ dirty' : shown' \cap Of(k) = live' \cap Of(k) /\ live' \cap Of(k) \subseteq placed'
    BY <1>1, <1>3, <1>11
  <2> QED
    BY <1>3, <2>1, <2>2 DEF Idle
<1>14. ContactsAgree'
  <2>1. live \cap Cursor = Seen \cap Cursor /\ Seen \cap Object \subseteq live
    BY <1>5 DEF Touches
  <2> QED
    BY <1>1, <1>3, <1>5, <2>1 DEF ContactsAgree, Seen
<1> QED
  BY <1>1, <1>12, <1>13, <1>14 DEF DaemonInv, Marking, Adding, Removing, Ending, Reading, EndsEmpty

-----------------------------------------------------------------------------
(***************************************************************************)
(* The end.                                                                *)
(***************************************************************************)
LEMMA DestroyStopKeeps ==
  ASSUME DaemonInv, DestroyStop
  PROVE  DaemonInv'
<1>1. /\ pc = "call" /\ pc' = "destroy"
      /\ motion' = [c \in Contact |-> IF c \in live /\ IsMoving(motion[c]) THEN Stopped(c) ELSE motion[c]]
      /\ UNCHANGED <<live, shown, dirty, profiles, opts, need, got, result, scan, rest, faults, todo,
                     age>>
  BY DEF DestroyStop, At, Displaced, Quietly, srvVars, devVars, callVars
<1>2. live \subseteq Touches /\ motion \in [Contact -> Motion]
  BY DEF DaemonInv, Shape
<1>3. \A c \in live : Stopped(c) \in Motion
  BY <1>2, Kinds3, StoppedIs, StoppedCursor DEF Touches
<1>4. motion' \in [Contact -> Motion]
  BY <1>1, <1>2, <1>3
<1>5. Shape'
  BY <1>1, <1>4 DEF DaemonInv, Shape, Pcs
<1> QED
  BY <1>1, <1>5
  DEF DaemonInv, Idle, Marking, Adding, Removing, Ending, Reading, ContactsAgree, EndsEmpty

LEMMA DestroyFrameKeeps ==
  ASSUME DaemonInv, DestroyFrame
  PROVE  DaemonInv'
<1>1. /\ pc' = "remove"
      /\ UNCHANGED <<live, motion, shown, dirty, profiles, opts, need, got, result, scan, rest,
                     faults, todo, age>>
  BY DEF DestroyFrame, At, InitFrame, Displaced, Quietly, srvVars, devVars, callVars
<1>2. Shape'
  BY <1>1 DEF DaemonInv, Shape, Pcs
<1> QED
  BY <1>1, <1>2
  DEF DaemonInv, Idle, Marking, Adding, Removing, Ending, Reading, ContactsAgree, EndsEmpty

LEMMA DestroyRemoveKeeps ==
  ASSUME DaemonInv, DestroyRemoveCursors \/ DestroyRemoveObjects
  PROVE  DaemonInv'
<1>1. /\ pc' \in {"remove", "remove2", "empty"}
      /\ live' \subseteq live /\ motion' \in [Contact -> Motion]
      /\ UNCHANGED <<todo, age, shown, dirty, profiles, opts, need, got, result, scan, rest, faults>>
  BY LoopIs DEF DestroyRemoveCursors, DestroyRemoveObjects, DaemonInv
<1>2. Shape'
  BY <1>1 DEF DaemonInv, Shape, Pcs
<1> QED
  BY <1>1, <1>2
  DEF DaemonInv, Idle, Marking, Adding, Removing, Ending, Reading, ContactsAgree, EndsEmpty

\* Only enabled kinds are ever shown, and the last bundle of each is empty.
LEMMA DestroySendKeeps ==
  ASSUME DaemonInv, DestroySend
  PROVE  DaemonInv'
<1>1. /\ pc' = "done" /\ SendEmpty
      /\ UNCHANGED <<live, motion, profiles, opts, need, got, result, scan, rest, faults, todo, age>>
  BY DEF DestroySend, At, srvVars, devVars, callVars, mgrVars, listVars
<1>2. PICK lost \in SUBSET profiles :
        /\ shown' = {c \in shown : Kind(c) \notin profiles \ lost}
        /\ dirty' = (dirty \ profiles) \cup lost
  BY <1>1 DEF SendEmpty
<1>3. shown \subseteq Touches /\ profiles = {"obj", "cur"}
  BY DEF DaemonInv, Shape
<1>4. \A c \in shown : Kind(c) \in profiles
  BY <1>3, Kinds3 DEF Touches
<1>5. EndsEmpty'
  BY <1>2, <1>4 DEF EndsEmpty
<1>6. Shape'
  BY <1>1, <1>2 DEF DaemonInv, Shape, Pcs
<1> QED
  BY <1>1, <1>5, <1>6 DEF DaemonInv, Idle, Marking, Adding, Removing, Ending, Reading, ContactsAgree

-----------------------------------------------------------------------------
(***************************************************************************)
(* What holds of the daemon.                                               *)
(***************************************************************************)
LEMMA TuioNextKeeps ==
  ASSUME DaemonInv, [TuioNext]_vars
  PROVE  DaemonInv'
<1>1. CASE Done \/ UNCHANGED vars
  BY <1>1, StutterKeeps DEF Done, vars
<1>2. CASE Terminate
  BY <1>2, StutterKeeps DEF Terminate, server
<1>3. CASE Call
  BY <1>3, CallKeeps
<1>4. CASE ReadPacket
  BY <1>4, ReadPacketKeeps
<1>5. CASE ReadError
  BY <1>5, ReadErrorKeeps
<1>6. CASE LosePacket
  BY <1>6, LosePacketKeeps
<1>7. CASE FrameInit
  BY <1>7, FrameInitKeeps
<1>8. CASE FrameBlob
  BY <1>8, FrameBlobKeeps
<1>9. CASE FrameStopCursors
  BY <1>9, FrameStopCursorsKeeps
<1>10. CASE FrameRemoveCursors
  BY <1>10, FrameRemoveCursorsKeeps
<1>11. CASE FrameStopObjects
  BY <1>11, FrameStopObjectsKeeps
<1>12. CASE FrameRemoveObjects
  BY <1>12, FrameRemoveObjectsKeeps
<1>13. CASE FrameCommit
  BY <1>13, FrameCommitKeeps
<1>14. CASE DestroyStop
  BY <1>14, DestroyStopKeeps
<1>15. CASE DestroyFrame
  BY <1>15, DestroyFrameKeeps
<1>16. CASE DestroyRemoveCursors \/ DestroyRemoveObjects
  BY <1>16, DestroyRemoveKeeps
<1>17. CASE DestroySend
  BY <1>17, DestroySendKeeps
<1> QED
  BY <1>1, <1>2, <1>3, <1>4, <1>5, <1>6, <1>7, <1>8, <1>9, <1>10, <1>11, <1>12, <1>13, <1>14,
     <1>15, <1>16, <1>17 DEF TuioNext, Daemon

LEMMA TuioInit == Init0 => DaemonInv
<1> SUFFICES ASSUME Init0 PROVE DaemonInv
  OBVIOUS
<1>1. /\ live = {} /\ motion = [c \in Contact |-> New] /\ upd = {} /\ shown = {} /\ pc = "call"
      /\ profiles = {"obj", "cur"} /\ opts = {} /\ need = -1 /\ faults = 0
      /\ scan = <<>> /\ rest = <<>> /\ got = <<>> /\ todo = <<>> /\ result.blobs = <<>>
      /\ age = [c \in Object |-> 0]
  BY DEF Init0, Init, Nothing
<1>2. New \in Motion
  BY DEF New, Motion, States
<1>3. <<>> \in Seq(Contact) /\ Range(<<>>) = {}
  BY EmptySeq, RangeEmpty
<1>4. Shape
  BY <1>1, <1>2, <1>3 DEF Shape, Pcs
<1> QED
  BY <1>1, <1>3, <1>4
  DEF DaemonInv, Idle, Marking, Adding, Removing, Ending, Reading, ContactsAgree, EndsEmpty

\* At every place of run(): which contacts are alive, touched, marked and shown, how three
\* frames without a report stop and remove a tag, and what a call in step has read.
THEOREM DaemonInvAlways == TuioSpec => []DaemonInv
<1>1. DaemonInv /\ [TuioNext]_vars => DaemonInv'
  BY TuioNextKeeps
<1> QED
  BY <1>1, TuioInit, PTL DEF TuioSpec

\* Between two frames a receiver to which nothing was lost shows the contacts of each kind
\* where they are: whatever was added, updated, stopped or removed since the frame before
\* was marked, and what is marked is sent with every contact of its kind.
THEOREM ReceiverInStepAlways == TuioSpec => []ReceiverInStep
<1>1. DaemonInv => ReceiverInStep
  BY DEF DaemonInv, Idle, ReceiverInStep
<1> QED
  BY <1>1, DaemonInvAlways, PTL

\* Once the daemon has ended, a receiver to which nothing was lost shows nothing, whatever
\* was moving when the signal came.
THEOREM EndsEmptyAlways == TuioSpec => []EndsEmpty
<1>1. DaemonInv => EndsEmpty
  BY DEF DaemonInv
<1> QED
  BY <1>1, DaemonInvAlways, PTL

\* After a frame the cursors are the touches of the scan, the tags of the scan are there, and
\* a tag that is no longer reported is there for two more frames at most.
THEOREM ContactsAgreeAlways == TuioSpec => []ContactsAgree
<1>1. DaemonInv => ContactsAgree
  BY DEF DaemonInv
<1> QED
  BY <1>1, DaemonInvAlways, PTL

\* The daemon removes contacts one at a time and none that are external.
DaemonIds == IdInv /\ loop = {} /\ leaked = {}

LEMMA StepKeepsIds ==
  ASSUME DaemonIds, [Next]_mgrVars, loop' = {}, leaked' \subseteq leaked
  PROVE  DaemonIds'
  BY NextKeepsIds DEF DaemonIds

LEMMA StillHasIds ==
  ASSUME DaemonIds, UNCHANGED <<live, id, max, free, loop, leaked>>
  PROVE  DaemonIds'
  BY UnnumberedKeeps DEF DaemonIds, IdInv, IdType

LEMMA AddingKeepsIds ==
  ASSUME DaemonIds, NEW c \in Contact, Blob1(c)
  PROVE  DaemonIds'
<1>1. [Next]_mgrVars
  BY DEF Blob1, Next
<1>2. loop' = loop /\ leaked' = leaked
  BY DEF Blob1, AddTuioCursor, AddTuioObject, AddTuioBlob, Add, UpdateTuioCursor, UpdateTuioObject,
         UpdateTuioBlob, Update, mgrVars, listVars
<1> QED
  BY <1>1, <1>2, StepKeepsIds DEF DaemonIds

LEMMA RemovingKeepsIds ==
  ASSUME DaemonIds, NEW p, NEW q, NEW k, Loop(p, q, k)
  PROVE  DaemonIds'
<1>1. CASE UNCHANGED mgrVars
  BY <1>1, StillHasIds DEF mgrVars, listVars
<1>2. ASSUME NEW c \in UntouchedStopped(k), RemoveTuio(c), UNCHANGED loop
      PROVE  DaemonIds'
  <2>1. c \in Contact
    BY <1>2 DEF DaemonIds, IdInv, IdType, UntouchedStopped
  <2>2. [Next]_mgrVars
    BY <1>2, <2>1 DEF Next, DaemonIds
  <2>3. leaked' \subseteq leaked
    BY <1>2 DEF RemoveTuio, RemoveTuioObject, RemoveTuioCursor, RemoveTuioBlob, Forget
  <2> QED
    BY <1>2, <2>2, <2>3, StepKeepsIds DEF DaemonIds
<1> QED
  BY <1>1, <1>2 DEF Loop, At

LEMMA TuioNextKeepsIds ==
  ASSUME DaemonInv, DaemonIds, [TuioNext]_vars
  PROVE  DaemonIds'
<1>1. CASE UNCHANGED <<live, id, max, free, loop, leaked>>
  BY <1>1, StillHasIds
<1>2. CASE Done \/ Terminate \/ Call \/ ReadPacket \/ ReadError \/ LosePacket \/ UNCHANGED vars
  BY <1>1, <1>2 DEF Done, Terminate, Call, ReadPacket, ReadError, LosePacket, vars, server, mgrVars, listVars
<1>3. CASE FrameInit \/ DestroyFrame
  BY <1>1, <1>3 DEF FrameInit, DestroyFrame, At, InitFrame
<1>4. CASE FrameBlob
  <2>1. Head(todo) \in Contact
    BY <1>4 DEF DaemonInv, Shape, FrameBlob
  <2> QED
    BY <1>4, <2>1, AddingKeepsIds DEF FrameBlob, At
<1>5. CASE FrameStopCursors \/ FrameStopObjects
  BY <1>1, <1>5 DEF FrameStopCursors, FrameStopObjects, At, StopUntouchedMovingCursors,
                    StopUntouchedMovingObjects, StopUntouched
<1>6. CASE FrameRemoveCursors \/ FrameRemoveObjects \/ DestroyRemoveCursors \/ DestroyRemoveObjects
  BY <1>6, RemovingKeepsIds
  DEF FrameRemoveCursors, FrameRemoveObjects, DestroyRemoveCursors, DestroyRemoveObjects
<1>7. CASE FrameCommit
  BY <1>1, <1>7 DEF FrameCommit, At, CommitFrame
<1>8. CASE DestroyStop
  BY <1>1, <1>8 DEF DestroyStop, At
<1>9. CASE DestroySend
  BY <1>1, <1>9 DEF DestroySend, At, mgrVars, listVars
<1> QED
  BY <1>2, <1>3, <1>4, <1>5, <1>6, <1>7, <1>8, <1>9 DEF TuioNext, Daemon

\* In the daemon, for however long it runs: two cursors never share the identifier that is
\* sent as theirs, and none is ever lost, since no contact there is external: up to the
\* largest one in use, all that are not in use are free to be used again.
THEOREM DaemonIdentifiers == TuioSpec => [](Identifiers /\ leaked = {})
<1>1. Init0 => DaemonIds
  BY InitHasIds DEF Init0, Init, DaemonIds
<1>2. DaemonInv /\ DaemonIds /\ [TuioNext]_vars => DaemonIds'
  BY TuioNextKeepsIds
<1>3. DaemonIds => Identifiers /\ leaked = {}
  BY DEF DaemonIds, IdInv, Identifiers
<1> QED
  BY <1>1, <1>2, <1>3, DaemonInvAlways, PTL DEF TuioSpec

\* A step that returns the blobs of a call in step.
ReturnsScan == pc = "read" /\ pc' # "read" /\ result'.whole /\ faults' = faults
                 => result'.blobs = result'.scan

LEMMA ReadReturnsScan ==
  ASSUME DaemonInv, [TuioNext]_vars
  PROVE  ReturnsScan
<1> SUFFICES ASSUME pc = "read", pc' # "read", result'.whole, faults' = faults
             PROVE  result'.blobs = result'.scan
  BY DEF ReturnsScan
<1>1. faults \in Nat /\ faults' # faults + 1
  BY DEF DaemonInv, Shape
<1>2. ~ReadError /\ ~LosePacket
  BY <1>1 DEF ReadError, LosePacket
<1>3. ReadPacket
  BY <1>2 DEF TuioNext, Daemon, Call, FrameInit, FrameBlob, FrameStopCursors, FrameRemoveCursors,
     FrameStopObjects, FrameRemoveObjects, FrameCommit, DestroyStop, DestroyFrame,
     DestroyRemoveCursors, DestroyRemoveObjects, DestroySend, Loop, At, Terminate, Done, vars
<1>4. PICK s \in Scans :
        LET n == IF need = -1 THEN Count(s) ELSE need
            g == got \o Chunk(Rest(s))
        IN  /\ Send(s)
            /\ IF Enough(g, n) THEN Return(SelectFirst(g, n), inStep, s)
               ELSE pc' = "read" /\ need' = n /\ got' = g /\ UNCHANGED result
  BY <1>3 DEF ReadPacket
<1> DEFINE n == IF need = -1 THEN Count(s) ELSE need
           g == got \o Chunk(Rest(s))
<1>5. Enough(g, n) /\ Return(SelectFirst(g, n), inStep, s)
  BY <1>4
<1>6. n \in Int /\ g \in Seq(Contact) /\ (inStep => n = Len(s) /\ g \o rest' = s /\ s \in Seq(Contact))
  BY <1>4, PacketIs
<1>7. rest' \in Seq(Contact)
  BY <1>4, SendIs DEF DaemonInv
<1> HIDE DEF n, g
<1>8. inStep /\ result' = [blobs |-> SelectFirst(g, n), whole |-> inStep, scan |-> s]
  BY <1>5 DEF Return
<1>9. Len(g) >= n
  BY <1>5 DEF Enough
<1>10. n = Len(g) /\ rest' = <<>>
  <2>1. Len(g \o rest') = Len(g) + Len(rest') /\ Len(g) \in Nat /\ Len(rest') \in Nat
    BY <1>6, <1>7, ConcatProperties, LenProperties
  <2>2. Len(g) + Len(rest') = n
    BY <1>6, <1>8, <2>1
  <2>3. Len(rest') = 0
    BY <1>6, <1>9, <2>1, <2>2
  <2> QED
    BY <1>7, <2>1, <2>2, <2>3, EmptySeq
<1>11. g = s
  BY <1>6, <1>8, <1>10, ConcatEmptySeq
<1>12. SelectFirst(g, n) = g
  BY <1>6, <1>10, FirstIs
<1> QED
  BY <1>8, <1>11, <1>12

\* A call of surface_get_blobs that begins between two scans, and during which no packet is
\* lost, returns all the blobs of one scan and no others, however many packets it takes.
THEOREM ScansWholeAlways == TuioSpec => ScansWhole
<1>1. DaemonInv /\ [TuioNext]_vars => ReturnsScan
  BY ReadReturnsScan
<1> QED
  BY <1>1, DaemonInvAlways, PTL DEF TuioSpec, ScansWhole, ReturnsScan
=============================================================================
