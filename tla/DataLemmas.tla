------------------------------ MODULE DataLemmas ------------------------------
(***************************************************************************)
(* What the proofs need to know about data.                                *)
(*                                                                         *)
(* Sequences in which no element occurs twice: how their range changes     *)
(* when an element is appended, taken from the front or the back, or       *)
(* removed.  Sets of numbers: that a set of naturals has a least element,  *)
(* which is induction for the provers, and what Max is.  Finite sets:      *)
(* that as many different numbers do not fit below a smaller one.          *)
(***************************************************************************)
EXTENDS Integers, Sequences, Functions, FiniteSetsExt, Packing, SequenceTheorems,
        FiniteSetTheorems, WellFoundedInduction, TLAPS

(***************************************************************************)
(* Numbers.                                                                *)
(***************************************************************************)
LEMMA LeastNatural ==
  ASSUME NEW S, S \subseteq Nat, S # {}
  PROVE  \E m \in S : \A n \in S : m <= n
<1> DEFINE R == OpToRel(<, Nat)
<1>1. IsWellFoundedOn(R, Nat)
  BY NatLessThanWellFounded
<1>2. \A x, y \in Nat : <<x, y>> \in R <=> x < y
  BY DEF OpToRel
<1> HIDE DEF R
<1>3. PICK m \in S : \A n \in S : <<n, m>> \notin R
  BY <1>1, WFMin
<1>4. \A n \in S : ~(n < m)
  BY <1>2, <1>3
<1> QED
  BY <1>4

\* The maximum of a set of integers that is bounded and not empty.
LEMMA MaxIs ==
  ASSUME NEW S, S \subseteq Int, S # {}, NEW b \in Int, \A x \in S : x <= b
  PROVE  Max(S) \in S /\ \A x \in S : x <= Max(S)
<1> DEFINE T == {b - x : x \in S}
<1>1. T \subseteq Nat
  <2> SUFFICES ASSUME NEW x \in S PROVE b - x \in Nat
    OBVIOUS
  <2> QED
    BY x \in Int /\ x <= b
<1>2. PICK t \in T : \A u \in T : t <= u
  <2>1. T # {}
    OBVIOUS
  <2> HIDE DEF T
  <2> QED
    BY <1>1, <2>1, LeastNatural
<1>3. PICK m \in S : t = b - m
  BY <1>2
<1>4. \A x \in S : m >= x
  <2> TAKE x \in S
  <2>1. b - m <= b - x
    BY <1>2, <1>3
  <2> QED
    BY <2>1
<1> QED
  BY <1>3, <1>4 DEF Max

\* A finite set whose members have different numbers from 0 to m has m + 1 members
\* at most, and then every number is taken.
LEMMA Numbering ==
  ASSUME NEW S, IsFiniteSet(S), NEW m \in Int, m >= -1, NEW f,
         \A x \in S : f[x] \in 0 .. m, \A x, y \in S : f[x] = f[y] => x = y
  PROVE  /\ Cardinality(S) \in Nat /\ Cardinality(S) <= m + 1
         /\ Cardinality(S) = m + 1 <=> {f[x] : x \in S} = 0 .. m
<1> DEFINE g == [x \in S |-> f[x]]
<1>1. g \in Injection(S, 0 .. m)
  BY DEF Injection, IsInjective
<1>2. IsFiniteSet(0 .. m) /\ Cardinality(0 .. m) = m + 1
  BY FS_Interval
<1>3. Cardinality(S) <= m + 1 /\ (Cardinality(S) = m + 1 <=> g \in Surjection(S, 0 .. m))
  BY <1>1, <1>2, FS_Injection
<1>4. g \in Surjection(S, 0 .. m) <=> {f[x] : x \in S} = 0 .. m
  <2>1. g \in [S -> 0 .. m]
    OBVIOUS
  <2>2. {f[x] : x \in S} \subseteq 0 .. m
    OBVIOUS
  <2>3. g \in Surjection(S, 0 .. m) <=> \A t \in 0 .. m : \E x \in S : g[x] = t
    BY <2>1 DEF Surjection
  <2>4. \A x \in S : g[x] = f[x]
    OBVIOUS
  <2> HIDE DEF g
  <2>5. (\A t \in 0 .. m : \E x \in S : g[x] = t) <=> 0 .. m \subseteq {f[x] : x \in S}
    BY <2>4
  <2> QED
    BY <2>2, <2>3, <2>5
<1> QED
  BY <1>3, <1>4, FS_CardinalityType

-----------------------------------------------------------------------------
(***************************************************************************)
(* Sequences.                                                              *)
(***************************************************************************)
LEMMA RangeEmpty == Range(<<>>) = {} /\ IsInjective(<<>>)
  BY DEF Range, IsInjective

LEMMA RangeIn ==
  ASSUME NEW S, NEW s \in Seq(S)
  PROVE  /\ Range(s) = {s[i] : i \in 1 .. Len(s)}
         /\ Range(s) \subseteq S
         /\ Range(s) = {} <=> s = <<>>
         /\ IsInjective(s) <=> \A i, j \in 1 .. Len(s) : s[i] = s[j] => i = j
<1>1. DOMAIN s = 1 .. Len(s) /\ Len(s) \in Nat
  BY LenProperties
<1>2. Range(s) = {} => s = <<>>
  <2> SUFFICES ASSUME s # <<>> PROVE s[1] \in Range(s)
    OBVIOUS
  <2>1. 1 \in DOMAIN s
    BY <1>1, EmptySeq
  <2> QED
    BY <2>1 DEF Range
<1>3. Range(s) \subseteq S /\ Range(s) = {s[i] : i \in 1 .. Len(s)}
  BY RangeOfSeq, RangeEquality
<1>4. IsInjective(s) <=> \A i, j \in 1 .. Len(s) : s[i] = s[j] => i = j
  BY <1>1 DEF IsInjective
<1> QED
  BY <1>2, <1>3, <1>4, RangeEmpty

LEMMA RangeAppend ==
  ASSUME NEW S, NEW s \in Seq(S), NEW e \in S
  PROVE  /\ Append(s, e) \in Seq(S) /\ Append(s, e) # <<>>
         /\ Range(Append(s, e)) = Range(s) \cup {e}
         /\ IsInjective(s) /\ e \notin Range(s) => IsInjective(Append(s, e))
<1> DEFINE t == Append(s, e)
<1>1. /\ t \in Seq(S) /\ t # <<>> /\ Len(t) = Len(s) + 1 /\ Len(s) \in Nat
      /\ \A i \in 1 .. Len(s) : t[i] = s[i]
      /\ t[Len(s) + 1] = e
  BY AppendProperties, LenProperties
<1> HIDE DEF t
<1>2. Range(t) = {t[i] : i \in 1 .. Len(t)} /\ Range(s) = {s[i] : i \in 1 .. Len(s)}
  BY <1>1, RangeIn
<1>3. Range(t) = Range(s) \cup {e}
  <2>1. ASSUME NEW x \in Range(t) PROVE x \in Range(s) \cup {e}
    <3>1. PICK i \in 1 .. Len(t) : x = t[i]
      BY <1>2
    <3>2. i \in 1 .. Len(s) \/ i = Len(s) + 1
      BY <1>1
    <3> QED
      BY <1>1, <1>2, <3>1, <3>2
  <2>2. ASSUME NEW x \in Range(s) \cup {e} PROVE x \in Range(t)
    <3>1. CASE x = e
      BY <1>1, <1>2, <3>1
    <3>2. CASE x \in Range(s)
      <4>1. PICK i \in 1 .. Len(s) : x = s[i]
        BY <1>2, <3>2
      <4>2. i \in 1 .. Len(t)
        BY <1>1
      <4> QED
        BY <1>1, <1>2, <4>1, <4>2
    <3> QED
      BY <2>2, <3>1, <3>2
  <2> QED
    BY <2>1, <2>2
<1>4. ASSUME IsInjective(s), e \notin Range(s) PROVE IsInjective(t)
  <2>1. \A i, j \in 1 .. Len(s) : s[i] = s[j] => i = j
    BY <1>4, RangeIn
  <2>2. \A i \in 1 .. Len(s) : s[i] # e
    BY <1>2, <1>4
  <2>3. \A i, j \in 1 .. Len(t) : t[i] = t[j] => i = j
    <3> SUFFICES ASSUME NEW i \in 1 .. Len(t), NEW j \in 1 .. Len(t), t[i] = t[j]
                 PROVE  i = j
      OBVIOUS
    <3>1. (i \in 1 .. Len(s) \/ i = Len(s) + 1) /\ (j \in 1 .. Len(s) \/ j = Len(s) + 1)
      BY <1>1
    <3> QED
      BY <1>1, <2>1, <2>2, <3>1
  <2> QED
    BY <1>1, <2>3, RangeIn
<1> QED
  BY <1>1, <1>3, <1>4 DEF t

LEMMA RangeTail ==
  ASSUME NEW S, NEW s \in Seq(S), s # <<>>, IsInjective(s)
  PROVE  /\ Head(s) \in Range(s) /\ Tail(s) \in Seq(S)
         /\ Range(Tail(s)) = Range(s) \ {Head(s)}
         /\ IsInjective(Tail(s))
<1> DEFINE t == Tail(s)
<1>1. /\ t \in Seq(S) /\ Len(t) = Len(s) - 1 /\ Len(s) \in Nat /\ Len(s) > 0
      /\ \A i \in 1 .. Len(t) : t[i] = s[i + 1]
      /\ Head(s) = s[1]
  BY HeadTailProperties, LenProperties, EmptySeq
<1> HIDE DEF t
<1>2. /\ Range(t) = {t[i] : i \in 1 .. Len(t)} /\ Range(s) = {s[i] : i \in 1 .. Len(s)}
      /\ \A i, j \in 1 .. Len(s) : s[i] = s[j] => i = j
  BY <1>1, RangeIn
<1>3. Range(t) = Range(s) \ {Head(s)}
  <2>1. ASSUME NEW x \in Range(t) PROVE x \in Range(s) \ {Head(s)}
    <3>1. PICK i \in 1 .. Len(t) : x = t[i]
      BY <1>2
    <3>2. i + 1 \in 1 .. Len(s) /\ i + 1 # 1 /\ 1 \in 1 .. Len(s)
      BY <1>1
    <3> QED
      BY <1>1, <1>2, <3>1, <3>2
  <2>2. ASSUME NEW x \in Range(s) \ {Head(s)} PROVE x \in Range(t)
    <3>1. PICK i \in 1 .. Len(s) : x = s[i]
      BY <1>2
    <3>2. i - 1 \in 1 .. Len(t) /\ (i - 1) + 1 = i
      BY <1>1, <2>2, <3>1
    <3>3. t[i - 1] = s[i]
      BY <1>1, <3>2
    <3> QED
      BY <1>2, <3>1, <3>2, <3>3
  <2> QED
    BY <2>1, <2>2
<1>4. IsInjective(t)
  <2>1. \A i, j \in 1 .. Len(t) : t[i] = t[j] => i = j
    <3> SUFFICES ASSUME NEW i \in 1 .. Len(t), NEW j \in 1 .. Len(t), t[i] = t[j]
                 PROVE  i = j
      OBVIOUS
    <3>1. i + 1 \in 1 .. Len(s) /\ j + 1 \in 1 .. Len(s)
      BY <1>1
    <3>2. i + 1 = j + 1
      BY <1>1, <1>2, <3>1
    <3> QED
      BY <3>2
  <2> QED
    BY <1>1, <2>1, RangeIn
<1>5. Head(s) \in Range(s)
  BY <1>1, <1>2
<1> QED
  BY <1>1, <1>3, <1>4, <1>5 DEF t

\* What is left of a sequence without its last element.
LEMMA RangeFront ==
  ASSUME NEW S, NEW s \in Seq(S), s # <<>>, IsInjective(s)
  PROVE  LET front == SubSeq(s, 1, Len(s) - 1)
             last  == s[Len(s)]
         IN  /\ front \in Seq(S) /\ IsInjective(front)
             /\ last \in Range(s) /\ Range(front) = Range(s) \ {last}
<1> DEFINE t == SubSeq(s, 1, Len(s) - 1)
           last == s[Len(s)]
<1>1. Len(s) \in Nat /\ Len(s) > 0 /\ Len(s) \in 1 .. Len(s)
  BY LenProperties, EmptySeq
<1>2. Len(s) - 1 \in Int /\ \A i \in 1 .. Len(s) - 1 : s[i] \in S
  BY <1>1, ElementOfSeq
<1>3. t \in Seq(S) /\ Len(t) = Len(s) - 1
  <2>1. /\ t \in Seq(S)
        /\ Len(t) = IF 1 <= Len(s) - 1 THEN (Len(s) - 1) - 1 + 1 ELSE 0
    BY <1>2, SubSeqProperties
  <2>2. CASE Len(s) = 1
    BY <2>1, <2>2
  <2>3. CASE Len(s) > 1
    BY <1>1, <2>1, <2>3
  <2>4. Len(s) = 1 \/ Len(s) > 1
    BY <1>1
  <2> QED
    BY <2>2, <2>3, <2>4
<1>4. \A i \in 1 .. Len(t) : t[i] = s[i]
  <2>1. \A i \in 1 .. (Len(s) - 1) - 1 + 1 : t[i] = s[1 + i - 1]
    BY <1>2, SubSeqProperties
  <2> QED
    BY <1>1, <1>3, <2>1
<1> HIDE DEF t
<1>5. /\ Range(t) = {t[i] : i \in 1 .. Len(t)} /\ Range(s) = {s[i] : i \in 1 .. Len(s)}
      /\ \A i, j \in 1 .. Len(s) : s[i] = s[j] => i = j
  BY <1>3, RangeIn
<1>6. Range(t) = Range(s) \ {last}
  <2>1. ASSUME NEW x \in Range(t) PROVE x \in Range(s) \ {last}
    <3>1. PICK i \in 1 .. Len(t) : x = t[i]
      BY <1>5
    <3>2. i \in 1 .. Len(s) /\ i # Len(s)
      BY <1>1, <1>3
    <3> QED
      BY <1>1, <1>4, <1>5, <3>1, <3>2
  <2>2. ASSUME NEW x \in Range(s) \ {last} PROVE x \in Range(t)
    <3>1. PICK i \in 1 .. Len(s) : x = s[i]
      BY <1>5
    <3>2. i \in 1 .. Len(t)
      BY <1>1, <1>3, <2>2, <3>1
    <3> QED
      BY <1>4, <1>5, <3>1, <3>2
  <2> QED
    BY <2>1, <2>2
<1>7. IsInjective(t)
  <2>1. \A i, j \in 1 .. Len(t) : t[i] = t[j] => i = j
    <3> SUFFICES ASSUME NEW i \in 1 .. Len(t), NEW j \in 1 .. Len(t), t[i] = t[j]
                 PROVE  i = j
      OBVIOUS
    <3>1. i \in 1 .. Len(s) /\ j \in 1 .. Len(s)
      BY <1>1, <1>3
    <3> QED
      BY <1>4, <1>5, <3>1
  <2> QED
    BY <1>3, <2>1, RangeIn
<1>8. last \in Range(s)
  BY <1>1, <1>5
<1> QED
  BY <1>3, <1>6, <1>7, <1>8 DEF t

\* What is left of a sequence without its i-th element, RemoveAt(s, i) of SequencesExt.
Without(s, i) == SubSeq(s, 1, i - 1) \o SubSeq(s, i + 1, Len(s))

LEMMA RangeRemove ==
  ASSUME NEW S, NEW s \in Seq(S), NEW i \in 1 .. Len(s), IsInjective(s)
  PROVE  /\ Without(s, i) \in Seq(S) /\ Len(Without(s, i)) = Len(s) - 1
         /\ \A j \in 1 .. Len(s) - 1 :
              Without(s, i)[j] = IF j < i THEN s[j] ELSE s[j + 1]
         /\ IsInjective(Without(s, i))
         /\ Range(Without(s, i)) = Range(s) \ {s[i]}
<1> DEFINE a == SubSeq(s, 1, i - 1)
           b == SubSeq(s, i + 1, Len(s))
           t == a \o b
<1>1. Len(s) \in Nat /\ i \in Nat /\ 1 <= i /\ i <= Len(s)
      /\ \A j \in 1 .. Len(s) : s[j] \in S
  BY LenProperties, ElementOfSeq
<1>2. a \in Seq(S) /\ Len(a) = i - 1 /\ \A j \in 1 .. i - 1 : a[j] = s[j]
  <2>1. i - 1 \in Int /\ \A j \in 1 .. i - 1 : s[j] \in S
    BY <1>1
  <2>2. /\ a \in Seq(S) /\ Len(a) = IF 1 <= i - 1 THEN (i - 1) - 1 + 1 ELSE 0
        /\ \A j \in 1 .. (i - 1) - 1 + 1 : a[j] = s[1 + j - 1]
    BY <2>1, SubSeqProperties
  <2> HIDE DEF a
  <2>3. i = 1 \/ i > 1
    BY <1>1
  <2> QED
    BY <1>1, <2>2, <2>3
<1>3. b \in Seq(S) /\ Len(b) = Len(s) - i /\ \A j \in 1 .. Len(s) - i : b[j] = s[i + j]
  <2>1. i + 1 \in Int /\ Len(s) \in Int /\ \A j \in i + 1 .. Len(s) : s[j] \in S
    BY <1>1
  <2>2. /\ b \in Seq(S) /\ Len(b) = IF i + 1 <= Len(s) THEN Len(s) - (i + 1) + 1 ELSE 0
        /\ \A j \in 1 .. Len(s) - (i + 1) + 1 : b[j] = s[(i + 1) + j - 1]
    BY <2>1, SubSeqProperties
  <2> HIDE DEF b
  <2>3. i = Len(s) \/ i + 1 <= Len(s)
    BY <1>1
  <2>4. Len(b) = Len(s) - i
    BY <1>1, <2>2, <2>3
  <2>5. \A j \in 1 .. Len(s) - i : j \in 1 .. Len(s) - (i + 1) + 1 /\ (i + 1) + j - 1 = i + j
    BY <1>1
  <2> QED
    BY <2>2, <2>4, <2>5
<1> HIDE DEF a, b
<1>4. /\ t \in Seq(S) /\ Len(t) = Len(a) + Len(b)
      /\ \A j \in 1 .. Len(a) + Len(b) : t[j] = IF j <= Len(a) THEN a[j] ELSE b[j - Len(a)]
  BY <1>2, <1>3, ConcatProperties
<1> HIDE DEF t
<1>5. Len(t) = Len(s) - 1
  BY <1>1, <1>2, <1>3, <1>4
<1>6. \A j \in 1 .. Len(t) : t[j] = IF j < i THEN s[j] ELSE s[j + 1]
  <2> SUFFICES ASSUME NEW j \in 1 .. Len(t) PROVE t[j] = IF j < i THEN s[j] ELSE s[j + 1]
    OBVIOUS
  <2>1. j \in 1 .. Len(a) + Len(b) /\ j \in Int
    BY <1>4
  <2>2. CASE j < i
    <3>1. j <= Len(a) /\ j \in 1 .. i - 1
      BY <1>1, <1>2, <2>1, <2>2
    <3> QED
      BY <1>2, <1>4, <2>1, <2>2, <3>1
  <2>3. CASE ~(j < i)
    <3>1. ~(j <= Len(a)) /\ j - Len(a) \in 1 .. Len(s) - i /\ i + (j - Len(a)) = j + 1
      BY <1>1, <1>2, <1>5, <2>1, <2>3
    <3>2. t[j] = b[j - Len(a)]
      BY <1>4, <2>1, <3>1
    <3>3. b[j - Len(a)] = s[i + (j - Len(a))]
      BY <1>3, <3>1
    <3> QED
      BY <2>3, <3>1, <3>2, <3>3
  <2> QED
    BY <2>2, <2>3
<1>7. /\ Range(t) = {t[j] : j \in 1 .. Len(t)} /\ Range(s) = {s[j] : j \in 1 .. Len(s)}
      /\ \A j, k \in 1 .. Len(s) : s[j] = s[k] => j = k
  BY <1>4, RangeIn
<1> DEFINE at(j) == IF j < i THEN j ELSE j + 1
<1>8. \A j \in 1 .. Len(t) : at(j) \in 1 .. Len(s) /\ at(j) # i /\ t[j] = s[at(j)]
  BY <1>1, <1>5, <1>6
<1>9. Range(t) = Range(s) \ {s[i]}
  <2>1. ASSUME NEW x \in Range(t) PROVE x \in Range(s) \ {s[i]}
    <3>1. PICK j \in 1 .. Len(t) : x = t[j]
      BY <1>7
    <3>2. at(j) \in 1 .. Len(s) /\ at(j) # i /\ x = s[at(j)]
      BY <1>8, <3>1
    <3> HIDE DEF at
    <3> QED
      BY <1>7, <3>2
  <2>2. ASSUME NEW x \in Range(s) \ {s[i]} PROVE x \in Range(t)
    <3>1. PICK j \in 1 .. Len(s) : x = s[j]
      BY <1>7
    <3>2. j # i /\ j \in Int
      BY <2>2, <3>1
    <3>3. CASE j < i
      <4>1. j \in 1 .. Len(t)
        BY <1>1, <1>5, <3>2, <3>3
      <4> QED
        BY <1>6, <1>7, <3>1, <3>3, <4>1
    <3>4. CASE j > i
      <4>1. j - 1 \in 1 .. Len(t) /\ ~(j - 1 < i) /\ (j - 1) + 1 = j
        BY <1>1, <1>5, <3>2, <3>4
      <4>2. t[j - 1] = s[(j - 1) + 1]
        BY <1>6, <4>1
      <4> QED
        BY <1>7, <3>1, <4>1, <4>2
    <3> QED
      BY <1>1, <3>2, <3>3, <3>4
  <2> QED
    BY <2>1, <2>2
<1>10. IsInjective(t)
  <2>1. \A j, k \in 1 .. Len(t) : t[j] = t[k] => j = k
    <3> SUFFICES ASSUME NEW j \in 1 .. Len(t), NEW k \in 1 .. Len(t), t[j] = t[k] PROVE j = k
      OBVIOUS
    <3>1. at(j) = at(k)
      BY <1>7, <1>8
    <3> QED
      BY <1>1, <3>1
  <2> QED
    BY <1>4, <2>1, RangeIn
<1>11. Without(s, i) = t
  BY DEF Without, t, a, b
<1> QED
  BY <1>4, <1>5, <1>6, <1>9, <1>10, <1>11

-----------------------------------------------------------------------------
(***************************************************************************)
(* Induction, for a set of numbers, and recursion, for a function whose    *)
(* next value comes from the last one.                                     *)
(***************************************************************************)
LEMMA Induction ==
  ASSUME NEW n \in Nat, NEW A, 0 \in A, \A i \in 1 .. n : i - 1 \in A => i \in A
  PROVE  0 .. n \subseteq A
<1> SUFFICES ASSUME (0 .. n) \ A # {} PROVE FALSE
  OBVIOUS
<1> DEFINE B == (0 .. n) \ A
<1>1. PICK m \in B : \A k \in B : m <= k
  <2>1. B \subseteq Nat /\ B # {}
    OBVIOUS
  <2> HIDE DEF B
  <2> QED
    BY <2>1, LeastNatural
<1>2. m \in 0 .. n /\ m \notin A /\ m # 0
  BY <1>1
<1>3. m - 1 \in 0 .. n /\ ~(m <= m - 1)
  BY <1>2
<1>4. m - 1 \in A
  BY <1>1, <1>3
<1> QED
  BY <1>2, <1>4

Recursive(f, n, a, step) == \A i \in 0 .. n : f[i] = IF i = 0 THEN a ELSE step[i][f[i - 1]]

LEMMA Recursion ==
  ASSUME NEW n \in Nat, NEW T, NEW a \in T, NEW step \in [1 .. n -> [T -> T]]
  PROVE  \E f \in [0 .. n -> T] : Recursive(f, n, a, step)
<1> DEFINE Rec(f, m) == Recursive(f, m, a, step)
           A == {m \in 0 .. n : \E f \in [0 .. m -> T] : Rec(f, m)}
<1>1. 0 \in A
  <2> DEFINE f == [i \in 0 .. 0 |-> a]
  <2>1. f \in [0 .. 0 -> T] /\ Rec(f, 0)
    BY DEF Recursive
  <2> HIDE DEF f, Rec
  <2> QED
    BY <2>1
<1>2. ASSUME NEW m \in 1 .. n, m - 1 \in A PROVE m \in A
  <2>1. PICK f \in [0 .. m - 1 -> T] : Rec(f, m - 1)
    BY <1>2
  <2> DEFINE g == [i \in 0 .. m |-> IF i = m THEN step[m][f[m - 1]] ELSE f[i]]
  <2>2. f[m - 1] \in T
    BY m - 1 \in 0 .. m - 1
  <2>3. g \in [0 .. m -> T]
    <3>1. step[m][f[m - 1]] \in T
      BY <2>2
    <3>2. \A i \in 0 .. m : i # m => i \in 0 .. m - 1
      OBVIOUS
    <3> QED
      BY <3>1, <3>2
  <2>4. Rec(g, m)
    <3> SUFFICES ASSUME NEW i \in 0 .. m
                 PROVE  g[i] = IF i = 0 THEN a ELSE step[i][g[i - 1]]
      BY DEF Recursive
    <3>1. CASE i = m
      <4>1. g[m - 1] = f[m - 1] /\ g[m] = step[m][f[m - 1]] /\ m # 0
        OBVIOUS
      <4> QED
        BY <3>1, <4>1
    <3>2. CASE i # m
      <4>1. i \in 0 .. m - 1 /\ (i # 0 => i - 1 \in 0 .. m /\ i - 1 # m)
        BY <3>2
      <4>2. g[i] = f[i] /\ (i # 0 => g[i - 1] = f[i - 1])
        BY <3>2, <4>1
      <4> QED
        BY <2>1, <4>1, <4>2 DEF Recursive
    <3> QED
      BY <3>1, <3>2
  <2> HIDE DEF g, Rec
  <2> QED
    BY <2>3, <2>4
<1> HIDE DEF Rec
<1>3. n \in A
  <2>1. 0 .. n \subseteq A
    <3> HIDE DEF A
    <3> QED
      BY <1>1, <1>2, Induction
  <2> QED
    BY <2>1
<1>4. PICK f \in [0 .. n -> T] : Rec(f, n)
  BY <1>3
<1> QED
  BY <1>4 DEF Rec

-----------------------------------------------------------------------------
(***************************************************************************)
(* Packing.                                                                *)
(***************************************************************************)
LEMMA ListedIs ==
  ASSUME NEW S, IsFiniteSet(S)
  PROVE  /\ Listed(S) \in Seq(S) /\ Len(Listed(S)) = Cardinality(S)
         /\ IsInjective(Listed(S)) /\ Range(Listed(S)) = S
<1> DEFINE n == Cardinality(S)
<1>1. n \in Nat
  BY FS_CardinalityType
<1>2. PICK f \in Bijection(1 .. n, S) : TRUE
  <2>1. PICK k \in Nat : ExistsBijection(1 .. k, S)
    BY FS_NatBijection
  <2>2. k = n
    BY <2>1, FS_CountingElements
  <2> QED
    BY <2>1, <2>2 DEF ExistsBijection
<1>3. f \in [1 .. n -> S] /\ \A i, j \in DOMAIN f : f[i] = f[j] => i = j
  BY <1>2 DEF Bijection, Injection, IsInjective
<1> DEFINE s == Listed(S)
<1>4. s \in [1 .. n -> S] /\ \A i, j \in DOMAIN s : s[i] = s[j] => i = j
  BY <1>3 DEF Listed
<1> HIDE DEF s
<1>5. s \in Seq(S) /\ Len(s) = n
  BY <1>1, <1>4, IsASeq
<1>6. s \in Injection(1 .. n, S)
  BY <1>4 DEF Injection, IsInjective
<1>7. s \in Surjection(1 .. n, S)
  BY <1>1, <1>6, FS_Injection, FS_Interval
<1> QED
  BY <1>4, <1>5, <1>7 DEF Surjection, Range, IsInjective, s

\* The step of Packed's recursion: x comes to the packets p.
PackedWith(p, x, W, size, room) ==
  LET q == IF size * Cardinality(p[Len(p)]) > room THEN Append(p, {}) ELSE p
  IN  IF x \in W THEN [q EXCEPT ![Len(q)] = @ \cup {x}] ELSE q

\* Packets p with the members of M, none of which outgrew its room.
ArePackets(p, M, size, room) ==
  /\ p # <<>> /\ UNION Range(p) = M
  /\ \A i \in 1 .. Len(p) :
       /\ IsFiniteSet(p[i])
       /\ Cardinality(p[i]) > 1 => size * (Cardinality(p[i]) - 1) <= room

LEMMA PackedStep ==
  ASSUME NEW S, NEW p \in Seq(SUBSET S), NEW x \in S, NEW M, NEW W,
         NEW size \in Nat, NEW room \in Int, ArePackets(p, M, size, room)
  PROVE  /\ PackedWith(p, x, W, size, room) \in Seq(SUBSET S)
         /\ ArePackets(PackedWith(p, x, W, size, room), M \cup ({x} \cap W), size, room)
<1> DEFINE q == IF size * Cardinality(p[Len(p)]) > room THEN Append(p, {}) ELSE p
           n == Len(q)
           r == PackedWith(p, x, W, size, room)
<1>1. Len(p) \in Nat /\ Len(p) >= 1 /\ \A i \in 1 .. Len(p) : p[i] \in SUBSET S
  BY LenProperties, EmptySeq, ElementOfSeq DEF ArePackets
<1>2. /\ q \in Seq(SUBSET S) /\ n \in Nat /\ n >= 1
      /\ UNION Range(q) = M
      /\ \A i \in 1 .. n : /\ IsFiniteSet(q[i])
                           /\ Cardinality(q[i]) > 1 => size * (Cardinality(q[i]) - 1) <= room
      /\ q[n] = {} \/ size * Cardinality(q[n]) <= room
  <2>1. CASE size * Cardinality(p[Len(p)]) > room
    <3>1. q = Append(p, {})
      BY <2>1
    <3>2. /\ q \in Seq(SUBSET S) /\ n = Len(p) + 1
          /\ \A i \in 1 .. Len(p) : q[i] = p[i]
          /\ q[n] = {}
      <4>1. {} \in SUBSET S
        OBVIOUS
      <4> HIDE DEF q
      <4> QED
        BY <3>1, <4>1, AppendProperties
    <3>3. Range(q) = Range(p) \cup {{}}
      <4> DEFINE none == {}
                 U == SUBSET S
      <4>1. none \in U /\ p \in Seq(U) /\ q = Append(p, none)
        BY <3>1
      <4> HIDE DEF q, none, U
      <4>2. Range(q) = Range(p) \cup {none}
        BY <4>1, RangeAppend
      <4> QED
        BY <4>2 DEF none
    <3> HIDE DEF q
    <3>4. UNION Range(q) = M
      BY <3>3 DEF ArePackets
    <3>5. \A i \in 1 .. n : i \in 1 .. Len(p) \/ i = n
      BY <1>1, <3>2
    <3>6. IsFiniteSet({}) /\ ~(Cardinality({}) > 1)
      BY FS_EmptySet
    <3>7. ASSUME NEW i \in 1 .. n
          PROVE  /\ IsFiniteSet(q[i])
                 /\ Cardinality(q[i]) > 1 => size * (Cardinality(q[i]) - 1) <= room
      BY <3>2, <3>5, <3>6 DEF ArePackets
    <3> QED
      BY <1>1, <3>2, <3>4, <3>7
  <2>2. CASE ~(size * Cardinality(p[Len(p)]) > room)
    <3>1. q = p
      BY <2>2
    <3>2. Len(p) \in 1 .. Len(p)
      BY <1>1
    <3>3. Cardinality(p[Len(p)]) \in Nat
      BY <3>2, FS_CardinalityType DEF ArePackets
    <3>4. size * Cardinality(p[Len(p)]) <= room
      <4> DEFINE a == Cardinality(p[Len(p)])
      <4> HIDE DEF a
      <4>1. a \in Nat /\ ~(size * a > room)
        BY <2>2, <3>3 DEF a
      <4>2. size * a \in Int
        BY <4>1
      <4>3. size * a <= room
        BY <4>1, <4>2
      <4> QED
        BY <4>3 DEF a
    <3> QED
      BY <1>1, <3>1, <3>4 DEF ArePackets
  <2> QED
    BY <2>1, <2>2
<1>3. r = IF x \in W THEN [q EXCEPT ![n] = q[n] \cup {x}] ELSE q
  BY DEF PackedWith
<1> HIDE DEF q, r, n
<1>4. CASE x \notin W
  <2>1. r = q /\ M \cup ({x} \cap W) = M /\ q # <<>>
    BY <1>2, <1>3, <1>4, EmptySeq DEF n
  <2> QED
    BY <1>2, <2>1 DEF ArePackets, r, n
<1>5. CASE x \in W
  <2> DEFINE e == q[n] \cup {x}
  <2>1. n \in 1 .. Len(q) /\ q[n] \in SUBSET S
    BY <1>2, ElementOfSeq DEF n
  <2>2. e \in SUBSET S
    BY <2>1
  <2>3. r = [q EXCEPT ![n] = e]
    BY <1>3, <1>5
  <2>4. /\ IsFiniteSet(q[n]) /\ Cardinality(q[n]) \in Nat
        /\ IsFiniteSet(e) /\ Cardinality(e) <= Cardinality(q[n]) + 1 /\ Cardinality(e) \in Nat
    <3>1. IsFiniteSet(q[n])
      BY <1>2, <2>1 DEF n
    <3>2. IsFiniteSet(e) /\ (Cardinality(e) = Cardinality(q[n]) \/ Cardinality(e) = Cardinality(q[n]) + 1)
      BY <3>1, FS_AddElement
    <3> HIDE DEF e
    <3>3. Cardinality(q[n]) \in Nat /\ Cardinality(e) \in Nat
      BY <3>1, <3>2, FS_CardinalityType
    <3> QED
      BY <3>1, <3>2, <3>3
  <2>5. Cardinality(e) > 1 => size * (Cardinality(e) - 1) <= room
    <3> SUFFICES ASSUME Cardinality(e) > 1 PROVE size * (Cardinality(e) - 1) <= room
      OBVIOUS
    <3> DEFINE a == Cardinality(q[n])
               b == Cardinality(e)
    <3>1. CASE q[n] = {}
      <4>1. a = 0
        BY <3>1, FS_EmptySet
      <4> HIDE DEF a, b
      <4>2. a \in Nat /\ b \in Nat /\ b <= a + 1 /\ b > 1
        BY <2>4 DEF a, b
      <4> QED
        BY <4>1, <4>2
    <3>2. CASE q[n] # {}
      <4> HIDE DEF e
      <4>1. size * a <= room /\ a \in Nat /\ b \in Nat /\ b <= a + 1
        BY <1>2, <2>4, <3>2
      <4> HIDE DEF a, b
      <4>2. b - 1 <= a /\ b - 1 \in Int
        BY <4>1
      <4> DEFINE c == b - 1
      <4> HIDE DEF c
      <4>3. c \in Int /\ c <= a
        BY <4>2 DEF c
      <4>4. size * c <= size * a
        <5>1. \A k \in Nat : k * c <= k * a
          BY <4>1, <4>3
        <5> QED
          BY <5>1
      <4>5. size * c <= room
        <5>1. size * c \in Int /\ size * a \in Int
          BY <4>1, <4>3
        <5> QED
          BY <4>1, <4>4, <5>1
      <4> QED
        BY <4>5 DEF c, b
    <3> QED
      BY <3>1, <3>2
  <2> HIDE DEF e
  <2>6. /\ r \in Seq(SUBSET S) /\ Len(r) = n
        /\ \A i \in 1 .. n : r[i] = IF i = n THEN e ELSE q[i]
    <3>1. q \in Seq(SUBSET S) /\ n = Len(q)
      BY <1>2 DEF n
    <3> QED
      BY <2>1, <2>2, <2>3, <3>1, ExceptSeq
  <2>7. \A i \in 1 .. n : /\ IsFiniteSet(r[i])
                          /\ Cardinality(r[i]) > 1 => size * (Cardinality(r[i]) - 1) <= room
    BY <1>2, <2>4, <2>5, <2>6
  <2>8. UNION Range(r) = M \cup {x}
    <3>1. Range(r) = {r[i] : i \in 1 .. n} /\ Range(q) = {q[i] : i \in 1 .. n}
      BY <1>2, <2>6, RangeIn DEF n
    <3>2. \A i \in 1 .. n : q[i] \subseteq r[i]
      BY <2>6 DEF e
    <3>3. r[n] = q[n] \cup {x} /\ n \in 1 .. n
      BY <2>1, <2>6 DEF e, n
    <3>4. (UNION Range(r)) \subseteq (UNION Range(q)) \cup {x}
      BY <2>6, <3>1, <3>3
    <3>5. (UNION Range(q)) \cup {x} \subseteq UNION Range(r)
      BY <3>1, <3>2, <3>3
    <3> QED
      BY <1>2, <3>4, <3>5
  <2>9. r # <<>> /\ {x} \cap W = {x}
    BY <1>2, <1>5, <2>6, EmptySeq
  <2> QED
    BY <2>6, <2>7, <2>8, <2>9 DEF ArePackets, r
<1> QED
  BY <1>4, <1>5

\* However a list is cut: its packets have exactly those of its contacts that are due, and
\* none has more than fits.
LEMMA PackedIs ==
  ASSUME NEW S, NEW s \in Seq(S), NEW W, NEW size \in Nat, NEW room \in Int
  PROVE  /\ Packed(s, W, size, room) \in Seq(SUBSET S)
         /\ ArePackets(Packed(s, W, size, room), Range(s) \cap W, size, room)
<1> DEFINE n == Len(s)
           Good(p, M) == p \in Seq(SUBSET S) /\ ArePackets(p, M, size, room)
           T == {p \in Seq(SUBSET S) : \E M : Good(p, M)}
           Upto(i) == {s[j] : j \in 1 .. i}
           first == << {} >>
           step == [i \in 1 .. n |-> [p \in T |-> PackedWith(p, s[i], W, size, room)]]
           Body(f) == [i \in 0 .. n |->
                         IF i = 0 THEN first ELSE PackedWith(f[i - 1], s[i], W, size, room)]
           pack == CHOOSE f : f = Body(f)
<1>1. n \in Nat /\ Range(s) = Upto(n) /\ \A i \in 1 .. n : s[i] \in S
  BY LenProperties, ElementOfSeq, RangeIn
<1>2. Packed(s, W, size, room) = pack[n]
  BY DEF Packed, PackedWith
<1>3. first \in T /\ Good(first, {})
  <2>1. first \in Seq(SUBSET S) /\ Len(first) = 1 /\ first[1] = {} /\ first # <<>>
    BY EmptySeq
  <2>2. Range(first) = {{}}
    <3>1. Range(first) = {first[j] : j \in 1 .. Len(first)}
      BY <2>1, RangeIn
    <3> HIDE DEF first
    <3>2. \A j : j \in 1 .. 1 <=> j = 1
      OBVIOUS
    <3> QED
      BY <2>1, <3>1, <3>2
  <2>3. IsFiniteSet({}) /\ ~(Cardinality({}) > 1)
    BY FS_EmptySet
  <2> HIDE DEF first
  <2>4. UNION Range(first) = {}
    BY <2>2
  <2>5. ArePackets(first, {}, size, room)
    <3>1. \A j \in 1 .. Len(first) : first[j] = {}
      <4>1. \A j \in 1 .. Len(first) : j = 1
        BY <2>1
      <4> QED
        BY <2>1, <4>1
    <3> QED
      BY <2>1, <2>3, <2>4, <3>1 DEF ArePackets
  <2> QED
    BY <2>1, <2>5
<1>4. ASSUME NEW p, NEW M, Good(p, M), NEW i \in 1 .. n
      PROVE  Good(PackedWith(p, s[i], W, size, room), M \cup ({s[i]} \cap W))
  BY <1>1, <1>4, PackedStep
<1> HIDE DEF Good, first
<1>5. step \in [1 .. n -> [T -> T]]
  <2>1. ASSUME NEW i \in 1 .. n, NEW p \in T PROVE PackedWith(p, s[i], W, size, room) \in T
    <3>1. PICK M : Good(p, M)
      OBVIOUS
    <3>2. Good(PackedWith(p, s[i], W, size, room), M \cup ({s[i]} \cap W))
      BY <1>4, <3>1
    <3> QED
      BY <3>2 DEF Good
  <2> HIDE DEF T, n
  <2> QED
    BY <2>1
<1>6. \E f : f = Body(f)
  <2>1. PICK f \in [0 .. n -> T] : Recursive(f, n, first, step)
    <3>1. n \in Nat /\ first \in T
      BY <1>1, <1>3
    <3> HIDE DEF T, step, n
    <3> QED
      BY <1>5, <3>1, Recursion
  <2>2. ASSUME NEW i \in 1 .. n
        PROVE  step[i][f[i - 1]] = PackedWith(f[i - 1], s[i], W, size, room)
    <3>1. i - 1 \in 0 .. n
      BY <1>1
    <3> HIDE DEF T
    <3> QED
      BY <3>1
  <2>3. f = Body(f)
    <3> HIDE DEF step
    <3>1. \A i \in 0 .. n : i # 0 => i \in 1 .. n
      BY <1>1
    <3> QED
      BY <2>1, <2>2, <3>1 DEF Recursive
  <2> QED
    BY <2>3
<1>7. pack = Body(pack)
  <2> HIDE DEF Body
  <2> QED
    BY <1>6
<1> HIDE DEF pack
<1> DEFINE A == {i \in 0 .. n : Good(pack[i], Upto(i) \cap W)}
<1>8. 0 \in A
  <2>1. pack[0] = first /\ Upto(0) \cap W = {}
    BY <1>1, <1>7
  <2>2. Good(pack[0], Upto(0) \cap W)
    BY <1>3, <2>1
  <2>3. 0 \in 0 .. n
    BY <1>1
  <2> QED
    BY <2>2, <2>3
<1>9. ASSUME NEW i \in 1 .. n, i - 1 \in A PROVE i \in A
  <2>1. pack[i] = PackedWith(pack[i - 1], s[i], W, size, room) /\ i \in 0 .. n
    BY <1>1, <1>7
  <2>2. Good(pack[i], (Upto(i - 1) \cap W) \cup ({s[i]} \cap W))
    <3>1. Good(pack[i - 1], Upto(i - 1) \cap W)
      BY <1>9
    <3>2. Good(PackedWith(pack[i - 1], s[i], W, size, room), (Upto(i - 1) \cap W) \cup ({s[i]} \cap W))
      <4> DEFINE M == Upto(i - 1) \cap W
      <4> HIDE DEF M, n
      <4> QED
        BY <1>4, <3>1 DEF M
    <3> QED
      BY <2>1, <3>2
  <2>3. Upto(i) = Upto(i - 1) \cup {s[i]}
    <3>1. \A j \in 1 .. i : j \in 1 .. i - 1 \/ j = i
      OBVIOUS
    <3>2. i \in 1 .. i /\ \A j \in 1 .. i - 1 : j \in 1 .. i
      OBVIOUS
    <3> QED
      BY <3>1, <3>2
  <2>4. (Upto(i - 1) \cap W) \cup ({s[i]} \cap W) = Upto(i) \cap W
    BY <2>3
  <2> HIDE DEF Upto
  <2> QED
    BY <2>1, <2>2, <2>4
<1>10. n \in A
  <2>1. 0 .. n \subseteq A
    <3> HIDE DEF A, n
    <3> QED
      BY <1>1, <1>8, <1>9, Induction
  <2>2. n \in 0 .. n
    BY <1>1
  <2> HIDE DEF A
  <2> QED
    BY <2>1, <2>2
<1> QED
  BY <1>1, <1>2, <1>10 DEF Good
=============================================================================
