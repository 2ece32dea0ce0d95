---------------------------- MODULE TuioContainer ----------------------------
(***************************************************************************)
(* The memory of contacts (tuio/TUIO/TuioContainer.cpp, TuioPoint.cpp and  *)
(* TuioBlob.cpp): each owns a list of the points it went through, points   *)
(* to the last but one of them, and owns filters it may be given.  Contacts*)
(* are copied and assigned; the copy must not share anything.              *)
(*                                                                         *)
(* An address is a small number, used again after delete.  A state is the  *)
(* addresses in use, whether something was deleted or read that was not,   *)
(* and the contacts: each 1 .. 2 or Gone.                                  *)
(***************************************************************************)
EXTENDS Integers, Sequences, FiniteSets

CONSTANTS MaxPath,  \* MAX_PATH_SIZE
          Memory    \* bound: the addresses

NULL == 0
Gone == [path |-> <<>>, lastPoint |-> NULL, filter |-> <<>>]
\* xposFilter, yposFilter, angleFilter, widthFilter and heightFilter.
NoFilter == <<NULL, NULL, NULL, NULL, NULL>>
Position == {1, 2}
Angle == {3}
Size == {4, 5}

Cells(c) == {c.path[k] : k \in DOMAIN c.path}
Filters(c) == {c.filter[f] : f \in DOMAIN c.filter} \ {NULL}
First(c) == c.path[1]
Back(c) == c.path[Len(c.path)]

\* The k-th address that new returns.
Fresh(s, k) == LET unused == (1..Memory) \ s.used
               IN  CHOOSE a \in unused : Cardinality({b \in unused : b < a}) = k - 1
Delete(s, S) == [s EXCEPT !.used = @ \ S, !.bad = @ \/ ~(S \subseteq s.used)]
\* c becomes contact i, and what it owns is in use.
Owned(s, i, c) == [s EXCEPT !.contact[i] = c, !.used = @ \cup Cells(c) \cup Filters(c)]

Construct(s, i) == Owned(s, i, [path |-> <<Fresh(s, 1)>>, lastPoint |-> Fresh(s, 1), filter |-> NoFilter])

\* Every update: the newest point is the last point, then the new one is added.
Update(s, i) ==
  LET c == s.contact[i]
      grown == Owned(s, i, [c EXCEPT !.path = Append(@, Fresh(s, 1)), !.lastPoint = Back(c)])
  IN  IF Len(c.path) < MaxPath THEN grown
      ELSE Delete([grown EXCEPT !.contact[i].path = Tail(@)], {First(c)})

\* The last point is at the same place as in the original, or the newest.
LastPoint(path, from) ==
  LET places == {k \in DOMAIN path \cap DOMAIN from.path : from.path[k] = from.lastPoint}
  IN  IF places # {} THEN path[CHOOSE k \in places : TRUE] ELSE path[Len(path)]

\* A filter of one's own for each filter of the original, which is read.
CopiedFilters(s, from, at) ==
  [f \in DOMAIN from.filter |-> IF from.filter[f] = NULL THEN NULL ELSE Fresh(s, at + f)]
Read(s, c) == [s EXCEPT !.bad = @ \/ ~(Filters(c) \subseteq s.used)]

\* The copy constructor makes j.
Copy(s, i, j) ==
  LET from == s.contact[i]
      path == [k \in DOMAIN from.path |-> Fresh(s, k)]
  IN  Owned(Read(s, from), j, [path |-> path, lastPoint |-> LastPoint(path, from),
                               filter |-> CopiedFilters(s, from, Len(path))])

\* What an assignment deletes: the filters, and the points the other list is shorter by.
Replaced(to, from) ==
  Filters(to) \cup {to.path[k] : k \in DOMAIN to.path \ DOMAIN from.path}

\* j = i, for two contacts.  The assigned list keeps the points it has room for.
Assign(s, i, j) ==
  LET from == s.contact[i]
      to == s.contact[j]
      left == Delete(Read(s, from), Replaced(to, from))
      path == [k \in DOMAIN from.path |-> IF k \in DOMAIN to.path THEN to.path[k] ELSE Fresh(left, k)]
  IN  IF i = j THEN s
      ELSE Owned(left, j, [path |-> path, lastPoint |-> LastPoint(path, from),
                           filter |-> CopiedFilters(left, from, Len(path))])

\* OneEuroFilter throws without a positive cutoff and beta.
Lawful(mcut, beta) == mcut > 0 /\ beta > 0

\* addPositionFilter, addAngleFilter and addSizeFilter.  When new throws, the old filter is
\* deleted already and its address stays.
AddFilter(s, i, group, lawful) ==
  LET old == s.contact[i].filter
      first == CHOOSE f \in group : \A g \in group : f <= g
      without == Delete(s, {old[f] : f \in IF lawful THEN group ELSE {first}} \ {NULL})
  IN  IF lawful
      THEN Owned(without, i, [s.contact[i] EXCEPT !.filter =
                                [f \in 1..5 |-> IF f \in group THEN Fresh(without, f) ELSE old[f]]])
      ELSE without

RemoveFilter(s, i, group) ==
  LET old == s.contact[i].filter IN
  [Delete(s, {old[f] : f \in group} \ {NULL})
     EXCEPT !.contact[i].filter = [f \in 1..5 |-> IF f \in group THEN NULL ELSE old[f]]]

Destroy(s, i) ==
  LET c == s.contact[i] IN [Delete(s, Cells(c) \cup Filters(c)) EXCEPT !.contact[i] = Gone]

Start == [used |-> {}, bad |-> FALSE, contact |-> <<Gone, Gone>>]

\* Any call of the application on one contact or from one to another, with filters of these
\* groups and parameters that are lawful or not.
After(s, groups, lawfuls) ==
  UNION { IF s.contact[i] = Gone THEN {Construct(s, i)}
          ELSE {Update(s, i), Destroy(s, i), Assign(s, i, i)}
               \cup {IF s.contact[j] = Gone THEN Copy(s, i, j) ELSE Assign(s, i, j) : j \in {3 - i}}
               \cup {AddFilter(s, i, g, l) : g \in groups, l \in lawfuls}
               \cup {RemoveFilter(s, i, g) : g \in groups} : i \in 1..2 }
=============================================================================
