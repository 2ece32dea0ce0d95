------------------------------ MODULE MCManager ------------------------------
(***************************************************************************)
(* Instance of TuioSource for TLC.  Contacts of different kinds share      *)
(* nothing but the loop, so the run looks at one kind at a time.  As to    *)
(* what is sent, external contacts are like others, and how a contact      *)
(* turned or got its identifier does not matter: once something was sent,  *)
(* it goes on with plain ones only.                                        *)
(***************************************************************************)
EXTENDS TuioSource, TLC

OneKind == \E k \in Kinds : live \subseteq Of(k) /\ upd \subseteq {k}
Options == opts \in {{}, {"full", "periodic"}}
Unsent == opts = {} /\ said = "nothing" /\ losses = 0 /\ shown = {}
Plain ==
  /\ live \cap Ext \cap Cursor = {} /\ leaked = {} /\ \A k \in Numbered : free[k] = {}
  /\ \A c \in live : ~motion[c].rspeed /\ motion[c].state # "DECELERATING" /\ (c \in Ext => motion[c] = New)
Bound == OneKind /\ Options /\ (Unsent \/ Plain)
Symmetry == Permutations(Cursor \ Ext)

\* The contacts of the run fit a packet, as PacketsFitAlways assumes.
ASSUME ContactsFit == AliveFits

-----------------------------------------------------------------------------
(***************************************************************************)
(* TuioTime and the memory of TuioContainer on bounded inputs.             *)
(***************************************************************************)
T == INSTANCE TuioTime WITH UsecSecond <- 4000
C == INSTANCE TuioContainer WITH MaxPath <- 2, Memory <- 24

Usecs == {0, 1, 3, 4, 1999, 2000, 3996, 3999}
Times == {T!Time(sec, usec) : sec \in 0..2, usec \in Usecs}
Micros == {-8001, -4000, -3999, -1} \cup {0, 1, 3999, 4000, 4001, 8001}
Value(t) == t.seconds * 4000 + t.micro_seconds
Carried(t) == t.micro_seconds \in 0..3999

\* Sums and differences of times have the right value with less than a second of microseconds,
\* also when the result is negative, so that times of equal value are equal; a difference that
\* is not negative has the right number of milliseconds.
ASSUME TimesAddUp ==
  \A t, u \in Times :
    /\ Value(T!PlusTime(t, u)) = Value(t) + Value(u) /\ Carried(T!PlusTime(t, u))
    /\ Value(T!MinusTime(t, u)) = Value(t) - Value(u) /\ Carried(T!MinusTime(t, u))
    /\ T!Equal(T!PlusTime(T!SessionTime(t, u), u), t)
    /\ Value(t) >= Value(u) => T!TotalMilliseconds(T!MinusTime(t, u)) = (Value(t) - Value(u)) \div 4

\* With microseconds to add or to subtract the value is right; but a sum is not carried, and
\* not equal to the same time computed otherwise.
ASSUME MicrosAddUp ==
  /\ \A t \in Times, us \in Micros : /\ Value(T!PlusMicros(t, us)) = Value(t) + us
                                      /\ Value(T!MinusMicros(t, us)) = Value(t) - us
  /\ \A t \in Times, us \in Micros : us >= 0 => Carried(T!MinusMicros(t, us))
  /\ ~T!Equal(T!PlusMicros(T!Time(0, 3999), 1), T!PlusTime(T!Time(0, 3999), T!Time(0, 1)))
  /\ \A ms \in 0..2500 : T!TotalMilliseconds(T!OfMilliseconds(ms)) = ms

\* What a contact owns is in use and nobody else's, its last point is on its own path, and
\* nothing in use is lost.
Sound(s) ==
  LET own(i) == C!Cells(s.contact[i]) \cup C!Filters(s.contact[i])
      live2 == {i \in 1..2 : s.contact[i] # C!Gone}
  IN  /\ ~s.bad /\ own(1) \cap own(2) = {} /\ own(1) \cup own(2) = s.used
      /\ \A i \in live2 :
           LET c == s.contact[i] IN
           /\ c.lastPoint \in C!Cells(c)
           /\ Cardinality(own(i)) = Len(c.path) + Cardinality({f \in 1..5 : c.filter[f] # C!NULL})

RECURSIVE Reached(_, _, _, _)
Reached(S, n, groups, lawfuls) ==
  IF n = 0 THEN S ELSE Reached(S \cup UNION {C!After(s, groups, lawfuls) : s \in S}, n - 1, groups, lawfuls)

\* So it is after any six calls on two contacts that are made, copied, assigned, updated and
\* destroyed, with filters that are added and removed.
ASSUME OwnMemory == \A s \in Reached({C!Start}, 6, {C!Position, C!Angle}, {TRUE}) : Sound(s)

\* The last point of a copy is at the place it has on the original's path.
ASSUME CopiesAlike ==
  \A s \in Reached({C!Start}, 4, {}, {TRUE}) :
    s.contact[1] # C!Gone /\ s.contact[2] = C!Gone =>
      LET t == C!Copy(s, 1, 2) IN
      \A k \in DOMAIN s.contact[1].path :
        s.contact[1].path[k] = s.contact[1].lastPoint <=> t.contact[2].path[k] = t.contact[2].lastPoint

\* A filter with a cutoff of zero in place of another one: addAngleFilter throws, and the
\* contact keeps, and deletes again, the filter it had.
ASSUME ThrowLeavesDangling ==
  /\ ~C!Lawful(0, 1)
  /\ LET s == C!AddFilter(C!AddFilter(C!Construct(C!Start, 1), 1, C!Angle, TRUE), 1, C!Angle, C!Lawful(0, 1))
     IN  ~Sound(s) /\ C!Destroy(s, 1).bad
=============================================================================
