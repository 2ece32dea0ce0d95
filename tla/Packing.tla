------------------------------- MODULE Packing -------------------------------
(***************************************************************************)
(* How commitFrame and sendFullMessages cut a list of contacts into        *)
(* packets (tuio/TUIO/TuioServer.cpp).                                     *)
(***************************************************************************)
EXTENDS Integers, Sequences, FiniteSets

\* The contacts of a kind, in the order of its list (any order does).
Listed(S) == CHOOSE s \in [1 .. Cardinality(S) -> S] : \A i, j \in DOMAIN s : s[i] = s[j] => i = j

\* The set messages of each packet, all of the same size: a new packet begins when there may
\* be no room for one more, whether the contact at hand gets one (it is in W) or not.
Packed(s, W, size, room) ==
  LET pack[i \in 0 .. Len(s)] ==
        IF i = 0 THEN <<{}>>
        ELSE LET p == pack[i - 1]
                 q == IF size * Cardinality(p[Len(p)]) > room THEN Append(p, {}) ELSE p
             IN IF s[i] \in W THEN [q EXCEPT ![Len(q)] = @ \cup {s[i]}] ELSE q
  IN pack[Len(s)]
=============================================================================
