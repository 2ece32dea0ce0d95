-------------------------------- MODULE MCOsc --------------------------------
(***************************************************************************)
(* Instance of OscPacket for TLC: an address that needs a word and one     *)
(* that needs two, a string of every length from 0 to 4.                   *)
(***************************************************************************)
EXTENDS OscPacket

MCAddresses == {<<47, 97>>, <<47, 97, 98, 99>>}
MCStrings == {<<>>, <<120, 121, 122>>, <<120, 121, 122, 44>>}

\* The type tags of a message that begins with an array: as many marks of both kinds, in order.
Marks(s, g) == Len(SelectSeq(s, LAMBDA t : t = g))
Open(s, j) == Marks(SubSeq(s, 1, j), ArrayBegin) - Marks(SubSeq(s, 1, j), ArrayEnd)
Nested(n) == {s \in [1 .. n -> {105, ArrayBegin, ArrayEnd}] :
                s[1] = ArrayBegin /\ Open(s, n) = 0 /\ \A j \in 1 .. n : Open(s, j) >= 0}
\* ComputeArrayItemCount is the number of plain arguments directly in the array; an array in
\* it, which its comment counts as one item (OscReceivedElements.h:277), is none.
ASSUME PlainItemsCounted ==
  \A n \in 1 .. 7 : \A s \in Nested(n) :
    LET end == Min({j \in 1 .. n : Open(s, j) = 0}) IN
    ItemCount(s, 1) = Cardinality({j \in 2 .. end : s[j] = 105 /\ Open(s, j) = 1})
=============================================================================
