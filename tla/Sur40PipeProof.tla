---------------------------- MODULE Sur40PipeProof ----------------------------
(***************************************************************************)
(* Proofs about Sur40Pipe for any number of touch URBs: the poison counts  *)
(* balance whichever calls meet, an unused or disconnected pipeline is     *)
(* quiet, and a used one keeps every URB queued.                           *)
(*                                                                         *)
(* The three follow from one inductive invariant, PipeInv, which says what *)
(* is true of each URB in the middle of the loops that start and stop the  *)
(* URBs, where the three properties say nothing.                           *)
(***************************************************************************)
EXTENDS Sur40Pipe, DataLemmas

\* Labels of a user who has pipe_lock, and of a disconnect that has it.
UserLocks == {"init", "start", "submit", "stop", "poison", "wait", "unlock"}
DiscLocks == {"stop", "unlock"}
DiscLabel == {"bound", "poison", "wait", "flag", "unreg_video", "unreg_input",
              "put", "stop", "unlock", "gone"}
After     == {"unreg_video", "unreg_input", "put", "stop", "unlock", "gone"}
Closed    == {"put", "stop", "unlock", "gone"}
Loops     == {"submit", "poison", "wait"}

TypeOK ==
  /\ epOn \in BOOLEAN /\ hdead \in BOOLEAN /\ disconnected \in BOOLEAN
  /\ reject \in [Urb -> Int] /\ queue \in Seq(Urb) /\ unlinked \subseteq Urb
  /\ hurb \in Urb \cup {NoUrb}
  /\ users \in Nat /\ nomem \in Nat
  /\ pipe_lock \in Thread \cup {NoOne}
  /\ holds \subseteq User /\ registered \subseteq User
  /\ pc \in [Thread -> Label] /\ tgt \in [Thread -> Urb]

\* An URB is in one place only, and only one that is queued can be cancelled.
Places ==
  /\ IsInjective(queue) /\ hurb \notin Queued
  /\ unlinked \subseteq Queued
  /\ hurb = NoUrb => ~hdead

\* The program counters tell who has the lock, how far the disconnect has come
\* and who holds the pipeline; nobody is counted while the lock is held.
Control ==
  /\ \A t \in User : pc[t] \in UserLocks <=> pipe_lock = t
  /\ pc["disc"] \in DiscLocks <=> pipe_lock = "disc"
  /\ pc["disc"] \in DiscLabel
  /\ \A t \in User : pc[t] \notin DiscLabel \ (UserLocks \cup {"put"})
  /\ epOn <=> pc["disc"] = "bound"
  /\ disconnected <=> pc["disc"] \in After
  /\ pc["input"] = "closed" <=> pc["disc"] \in Closed
  /\ \A t \in Thread : pc[t] \notin Loops => tgt[t] = 1

Holders ==
  /\ users = Cardinality(holds)
  /\ pipe_lock # NoOne => users = 0
  /\ \A t \in User : /\ pc[t] = "get" => t \notin holds
                     /\ pc[t] = "put" => t \in holds
  /\ pc["disc"] = "put" => "input" \in holds

Rests(u) == u \notin Queued /\ hurb # u

\* The users of the pipeline have this URB poisoned: the poison of the probe or
\* of the last sur40_touch_stop has not been taken back.
UserHolds(u) ==
  \/ pipe_lock = NoOne /\ users = 0
  \/ \E t \in User : /\ pipe_lock = t
                     /\ \/ pc[t] \in {"init", "start", "unlock"}
                        \/ pc[t] = "poison" /\ u < tgt[t]
                        \/ pc[t] = "wait" /\ u <= tgt[t]

\* A thread waits in usb_poison_urb for this URB.
WaitsFor(t, u) == pc[t] = "wait" /\ u = tgt[t]

Counts ==
  pc["disc"] = "bound" => \A u \in Urb : reject[u] = IF UserHolds(u) THEN 1 ELSE 0

Cleared ==
  ~disconnected =>
    \A u \in Urb : UserHolds(u) /\ (\A t \in User : ~WaitsFor(t, u)) => Rests(u)

\* The disconnect has poisoned the URB and waited for it.
DiscDone(u) ==
  \/ pc["disc"] \in {"poison", "wait"} /\ u < tgt["disc"]
  \/ pc["disc"] \in {"flag"} \cup After

ClearedByDisc == \A u \in Urb : DiscDone(u) => Rests(u)

\* sur40_touch_start has not come to these URBs yet.
Fresh == \A t \in User : pc[t] = "submit" => \A u \in Urb : u >= tgt[t] => Rests(u)

\* No URB of a used pipeline has been cancelled.
NoDead ==
  pc["disc"] = "bound" /\ (\A t \in User : pc[t] \notin {"poison", "wait"})
    => unlinked = {} /\ ~hdead

Going(u) == u \in Queued \/ hurb = u

\* The URBs that run: all while somebody holds the pipeline, those submitted so
\* far while sur40_touch_start runs.
Running ==
  pc["disc"] = "bound" /\ nomem = 0 =>
    /\ pipe_lock = NoOne /\ users > 0 => \A u \in Urb : Going(u)
    /\ \A t \in User : pc[t] = "submit" => \A u \in Urb : u < tgt[t] => Going(u)

PipeInv ==
  /\ TypeOK /\ Places /\ Control /\ Holders
  /\ Counts /\ Cleared /\ ClearedByDisc /\ Fresh /\ NoDead /\ Running

-----------------------------------------------------------------------------
(***************************************************************************)
(* The queue and the count of users.                                       *)
(***************************************************************************)
USE PipeAssumption
    DEF Urb, User, Thread, NoOne, NoUrb, Label, UserLocks, DiscLocks, DiscLabel, After,
        Closed, Loops

LEMMA QueuedIs == \A q : ToSet(q) = Range(q)
  BY DEF ToSet, Range

LEMMA TakenFromQueue ==
  ASSUME TypeOK, Places, NEW u, NEW i \in DOMAIN queue, queue[i] = u,
         queue' = RemoveAt(queue, i)
  PROVE  queue' \in Seq(Urb) /\ IsInjective(queue') /\ Queued' = Queued \ {u}
<1>1. Range(queue) = Queued /\ Range(queue') = Queued'
  BY QueuedIs DEF Queued
<1>2. i \in 1 .. Len(queue) /\ queue \in Seq(Urb) /\ IsInjective(queue)
  BY LenProperties DEF TypeOK, Places
<1>3. Without(queue, i) \in Seq(Urb) /\ IsInjective(Without(queue, i))
      /\ Range(Without(queue, i)) = Range(queue) \ {queue[i]}
  BY <1>2, RangeRemove
<1>4. queue' = Without(queue, i)
  BY DEF RemoveAt, Without
<1> QED
  BY <1>1, <1>3, <1>4
LEMMA AddedToQueue ==
  ASSUME TypeOK, Places, NEW u \in Urb, u \notin Queued, queue' = Append(queue, u)
  PROVE  queue' \in Seq(Urb) /\ IsInjective(queue') /\ Queued' = Queued \cup {u}
<1>1. Range(queue) = Queued /\ Range(queue') = Queued'
  BY QueuedIs DEF Queued
<1> QED
  BY <1>1, RangeAppend DEF TypeOK, Places

LEMMA QueuedInUrb == TypeOK => Queued \subseteq Urb
  BY QueuedIs, RangeIn DEF TypeOK, Queued

LEMMA HoldersCount ==
  ASSUME TypeOK, Holders
  PROVE  /\ \A t \in User : t \notin holds => Cardinality(holds \cup {t}) = users + 1
         /\ \A t \in User : t \in holds => users > 0 /\ Cardinality(holds \ {t}) = users - 1
<1>1. IsFiniteSet(User)
  <2>1. IsFiniteSet({"input"}) /\ IsFiniteSet({"video"})
    BY FS_Singleton
  <2>2. User = {"input"} \cup {"video"}
    OBVIOUS
  <2> QED
    BY <2>1, <2>2, FS_Union
<1>2. IsFiniteSet(holds)
  BY <1>1, FS_Subset DEF TypeOK
<1>3. \A t \in User : t \notin holds => Cardinality(holds \cup {t}) = users + 1
  BY <1>2, FS_AddElement DEF Holders
<1>4. ASSUME NEW t \in holds PROVE users > 0 /\ Cardinality(holds \ {t}) = users - 1
  <2>1. Cardinality(holds \ {t}) = users - 1 /\ IsFiniteSet(holds \ {t})
    BY <1>2, FS_RemoveElement DEF Holders
  <2>2. Cardinality(holds \ {t}) \in Nat
    BY <2>1, FS_CardinalityType
  <2> QED
    BY <2>1, <2>2 DEF TypeOK
<1> QED
  BY <1>3, <1>4

-----------------------------------------------------------------------------
(***************************************************************************)
(* The invariant is inductive: one lemma per operation.                    *)
(***************************************************************************)
\* The host controller gives back an URB that has its packet or is cancelled.
LEMMA GiveBackStep ==
  ASSUME PipeInv, NEW u \in Urb, GiveBack(u)
  PROVE  PipeInv'
<1> USE DEF PipeInv
<1>1. /\ queue' \in Seq(Urb) /\ IsInjective(queue') /\ Queued' = Queued \ {u}
      /\ u \in Queued
  <2>1. PICK i \in DOMAIN queue : queue[i] = u /\ queue' = RemoveAt(queue, i)
    BY DEF GiveBack
  <2>2. u \in Queued
    BY <2>1 DEF Queued, ToSet
  <2> QED
    BY <2>1, <2>2, TakenFromQueue
<1>2. /\ hurb = NoUrb /\ hurb' = u /\ unlinked' = unlinked \ {u}
      /\ hdead' = (u \in unlinked)
      /\ UNCHANGED <<epOn, reject, drvVars, coreVars, pc, tgt, nomem>>
  BY DEF GiveBack
<1>3. TypeOK'
  <2>1. hdead' \in BOOLEAN /\ hurb' \in Urb /\ unlinked' \subseteq Urb
    BY <1>2 DEF TypeOK
  <2> QED
    BY <1>1, <1>2, <2>1 DEF TypeOK, drvVars, coreVars
<1>4. Places'
  BY <1>1, <1>2 DEF Places, TypeOK
<1>5. Control' /\ Holders'
  BY <1>2 DEF Control, Holders, drvVars, coreVars
<1>6. Counts'
  BY <1>2 DEF Counts, UserHolds, drvVars
<1>7. \A v \in Urb : Rests(v) => Rests(v)'
  BY <1>1, <1>2 DEF Rests
<1>8. Cleared' /\ ClearedByDisc' /\ Fresh'
  BY <1>2, <1>7 DEF Cleared, UserHolds, WaitsFor, ClearedByDisc, DiscDone, Fresh, drvVars
<1>9. NoDead'
  BY <1>2 DEF NoDead
<1>10. \A v \in Urb : Going(v) => Going(v)'
  BY <1>1, <1>2 DEF Going
<1>11. Running'
  BY <1>2, <1>10 DEF Running, drvVars
<1> QED
  BY <1>3, <1>4, <1>5, <1>6, <1>8, <1>9, <1>11

LEMMA TouchCompleteStep ==
  ASSUME PipeInv, TouchComplete
  PROVE  PipeInv'
<1> USE DEF PipeInv
<1>1. /\ hurb \in Urb /\ hurb \notin Queued /\ hurb' = NoUrb /\ hdead' = FALSE
      /\ UNCHANGED <<epOn, reject, unlinked, drvVars, coreVars, pc, tgt>>
  BY DEF TouchComplete, TypeOK, Places
<1>2. \/ queue' = queue /\ (hdead \/ ~Accepted(hurb) \/ nomem' = nomem + 1)
         /\ nomem' \in {nomem, nomem + 1}
      \/ queue' = Append(queue, hurb) /\ ~hdead /\ Accepted(hurb) /\ nomem' = nomem
  BY DEF TouchComplete, SubmitOk, SubmitFails
<1>3. \/ queue' = queue /\ Queued' = Queued
      \/ /\ queue' \in Seq(Urb) /\ IsInjective(queue') /\ Queued' = Queued \cup {hurb}
  BY <1>1, <1>2, AddedToQueue DEF Queued
<1>4. TypeOK'
  <2>1. queue' \in Seq(Urb) /\ nomem' \in Nat /\ hurb' \in Urb \cup {NoUrb}
    BY <1>1, <1>2, <1>3 DEF TypeOK
  <2> QED
    BY <1>1, <2>1 DEF TypeOK, drvVars, coreVars
<1>5. Places'
  <2>1. NoUrb \notin Queued'
    BY <1>1, <1>3, QueuedInUrb DEF Places
  <2> QED
    BY <1>1, <1>3, <2>1 DEF Places
<1>6. Control' /\ Holders'
  BY <1>1 DEF Control, Holders, drvVars, coreVars
<1>7. Counts'
  BY <1>1 DEF Counts, UserHolds, drvVars
<1>8. \A v \in Urb : Rests(v) => Rests(v)'
  BY <1>1, <1>3 DEF Rests
<1>9. Cleared' /\ ClearedByDisc' /\ Fresh'
  BY <1>1, <1>8 DEF Cleared, UserHolds, WaitsFor, ClearedByDisc, DiscDone, Fresh, drvVars
<1>10. NoDead'
  BY <1>1 DEF NoDead
<1>11. ASSUME pc["disc"] = "bound", nomem' = 0,
              \/ pipe_lock = NoOne /\ users > 0
              \/ \E t \in User : pc[t] = "submit"
       PROVE  (\A v \in Urb : Going(v) => Going(v)') /\ nomem = 0
  \* The completed URB is submitted again: it is alive and not poisoned.
  <2>1. ~UserHolds(hurb) /\ (\A s \in User : pc[s] \notin {"poison", "wait"})
    BY <1>11 DEF UserHolds, Control
  <2>2. ~hdead /\ Accepted(hurb)
    BY <1>1, <1>11, <2>1 DEF NoDead, Counts, Control, Accepted
  <2>3. nomem = 0 /\ Queued' = Queued \cup {hurb}
    BY <1>1, <1>2, <1>3, <1>11, <2>2, AddedToQueue DEF TypeOK
  <2> QED
    BY <1>1, <2>3 DEF Going
<1>12. Running'
  BY <1>1, <1>11 DEF Running, drvVars
<1> QED
  BY <1>4, <1>5, <1>6, <1>7, <1>9, <1>10, <1>12

LEMMA PoisonStep ==
  ASSUME PipeInv, NEW t \in Thread, Poison(t)
  PROVE  PipeInv'
<1> USE DEF PipeInv
<1>1. Queued' = Queued
  BY DEF Poison, Refuse, Goto, drvVars, coreVars, HandlerFrame, Queued
<1>2. TypeOK'
  <2>1. pc' \in [Thread -> Label]
    BY DEF Poison, TypeOK, Refuse, Goto, drvVars, coreVars, HandlerFrame
  <2>2. reject' \in [Urb -> Int]
    BY DEF Poison, TypeOK, Refuse, Goto, drvVars, coreVars, HandlerFrame
  <2> QED
    BY <2>1, <2>2, <1>1 DEF Poison, TypeOK, drvVars, coreVars, HandlerFrame
<1>3. Places' /\ Holders'
  BY <1>1 DEF Poison, Places, Holders, TypeOK, Control, Refuse, Goto, drvVars,
       coreVars, HandlerFrame
<1>4. Control'
  BY <1>1 DEF Poison, Control, TypeOK, Refuse, Goto, drvVars, coreVars,
       HandlerFrame
<1>5. Counts'
  BY SMTT(20), <1>1 DEF Poison, Counts, TypeOK, Control, Refuse, Goto, drvVars,
       coreVars, HandlerFrame, UserHolds
<1>6. Cleared'
  BY <1>1 DEF Poison, Cleared, TypeOK, Control, Refuse, Goto, drvVars,
       coreVars, HandlerFrame, UserHolds, WaitsFor, Rests
<1>7. ClearedByDisc' /\ Fresh'
  BY <1>1 DEF Poison, ClearedByDisc, Fresh, TypeOK, Control, Refuse, Goto,
       drvVars, coreVars, HandlerFrame, DiscDone, Rests
<1>8. NoDead'
  BY <1>1 DEF Poison, NoDead, TypeOK, Control, Refuse, Goto, drvVars,
       coreVars, HandlerFrame
<1>9. Running'
  BY <1>1 DEF Poison, Running, TypeOK, Control, Refuse, Goto, drvVars,
       coreVars, HandlerFrame, Going
<1> QED
  BY <1>2, <1>3, <1>4, <1>5, <1>6, <1>7, <1>8, <1>9

LEMMA PoisonWaitStep ==
  ASSUME PipeInv, NEW t \in Thread, PoisonWait(t)
  PROVE  PipeInv'
<1> USE DEF PipeInv
<1> DEFINE n == tgt[t]
<1>1. n \in Urb /\ Rests(n) /\ pc[t] = "wait"
      /\ UNCHANGED <<usbVars, drvVars, coreVars, nomem, Queued>>
  BY DEF TypeOK, PoisonWait, GivenBack, Rests, NoUsb, usbVars, Queued
<1>2. \/ /\ n = NumUrbs /\ tgt' = [tgt EXCEPT ![t] = 1]
         /\ pc' = [pc EXCEPT ![t] = IF t = "disc" THEN "flag" ELSE "unlock"]
      \/ /\ n < NumUrbs /\ tgt' = [tgt EXCEPT ![t] = n + 1]
         /\ pc' = [pc EXCEPT ![t] = "poison"]
  BY <1>1 DEF PoisonWait, LastUrb, Goto, TypeOK
<1>3. pc' \in [Thread -> Label] /\ tgt' \in [Thread -> Urb]
  BY SMTT(20), <1>1, <1>2 DEF TypeOK
<1>4. TypeOK' /\ Places'
  BY <1>1, <1>3 DEF TypeOK, Places, usbVars, drvVars, coreVars
<1>5. Control'
  BY <1>1, <1>2 DEF TypeOK, Control, usbVars, drvVars
<1>6. Holders'
  BY SMTT(20), <1>1, <1>2 DEF TypeOK, Control, Holders, drvVars, coreVars
<1>7. \A u \in Urb : UserHolds(u)' <=> UserHolds(u)
  <2>1. CASE t = "disc"
    BY <1>1, <1>2, <2>1 DEF TypeOK, Control, UserHolds, drvVars
  <2>2. CASE t \in User
    <3>1. pipe_lock = t /\ pipe_lock' = t
      BY <1>1, <2>2 DEF Control, drvVars
    <3>2. \A u \in Urb : UserHolds(u) <=> u <= n
      BY <1>1, <2>2, <3>1 DEF UserHolds
    <3>3. \A u \in Urb : UserHolds(u)' <=> u <= n
      BY SMTT(20), <1>1, <1>2, <2>2, <3>1 DEF TypeOK, UserHolds
    <3> QED
      BY <3>2, <3>3
  <2> QED
    BY <2>1, <2>2
<1>8. Counts'
  BY <1>1, <1>2, <1>7 DEF TypeOK, Counts, usbVars
<1>9. Cleared'
  <2> SUFFICES ASSUME ~disconnected, NEW u \in Urb, UserHolds(u),
                      \A s \in User : ~WaitsFor(s, u)'
               PROVE  Rests(u)
    BY <1>1, <1>7 DEF Cleared, Rests, usbVars, drvVars
  <2>1. CASE u = n
    BY <1>1, <2>1
  <2>2. CASE u # n
    <3>1. \A s \in User : ~WaitsFor(s, u)
      BY <1>1, <1>2, <2>2 DEF TypeOK, WaitsFor
    <3> QED
      BY <3>1 DEF Cleared
  <2> QED
    BY <2>1, <2>2
<1>10. ClearedByDisc'
  <2> SUFFICES ASSUME NEW u \in Urb, DiscDone(u)' PROVE Rests(u)
    BY <1>1 DEF ClearedByDisc, Rests, usbVars
  <2>1. CASE t = "disc"
    <3>1. u <= n
      BY <1>1, <1>2, <2>1 DEF TypeOK, DiscDone
    <3>2. u = n \/ DiscDone(u)
      BY <1>1, <2>1, <3>1 DEF DiscDone
    <3> QED
      BY <1>1, <3>2 DEF ClearedByDisc
  <2>2. CASE t # "disc"
    <3>1. pc'["disc"] = pc["disc"] /\ tgt'["disc"] = tgt["disc"]
      BY <1>2, <2>2 DEF TypeOK
    <3> QED
      BY <3>1 DEF DiscDone, ClearedByDisc
  <2> QED
    BY <2>1, <2>2
<1>11. Fresh'
  BY <1>1, <1>2 DEF TypeOK, Fresh, Rests, usbVars
<1>12. NoDead'
  <2> SUFFICES ASSUME pc["disc"] = "bound", \A s \in User : pc'[s] \notin {"poison", "wait"}
               PROVE  unlinked = {} /\ ~hdead
    BY <1>1, <1>2 DEF TypeOK, NoDead, usbVars
  <2>1. t \in User /\ n = NumUrbs /\ pc' = [pc EXCEPT ![t] = "unlock"]
    BY <1>1, <1>2 DEF TypeOK
  <2>2. pipe_lock = t /\ pipe_lock' = t /\ ~disconnected'
    BY <1>1, <2>1 DEF Control, drvVars
  <2>3. \A u \in Urb : Rests(u)
    BY <1>1, <1>9, <2>1, <2>2 DEF TypeOK, Cleared, UserHolds, WaitsFor, Control, Rests, usbVars
  <2>4. Queued = {} /\ hurb = NoUrb
    BY <2>3, QueuedInUrb DEF TypeOK, Rests
  <2> QED
    BY <2>4 DEF Places
<1>13. Running'
  BY <1>1, <1>2 DEF TypeOK, Running, Going, usbVars, drvVars
<1> QED
  BY <1>4, <1>5, <1>6, <1>8, <1>9, <1>10, <1>11, <1>12, <1>13

LEMMA TouchStopStep ==
  ASSUME PipeInv, NEW t \in Thread, TouchStop(t)
  PROVE  PipeInv'
<1> USE DEF PipeInv
<1>1. Queued' = Queued
  BY DEF TouchStop, Goto, drvVars, coreVars, NoUsb, usbVars, Queued
<1>2. TypeOK'
  BY <1>1 DEF TouchStop, TypeOK, Goto, drvVars, coreVars, NoUsb, usbVars
<1>3. Places' /\ Holders'
  BY <1>1 DEF TouchStop, Places, Holders, TypeOK, Control, Goto, drvVars,
       coreVars, NoUsb, usbVars
<1>4. Control'
  BY <1>1 DEF TouchStop, Control, TypeOK, Goto, drvVars, coreVars, NoUsb,
       usbVars
<1>5. Counts'
  BY <1>1 DEF TouchStop, Counts, TypeOK, Control, Goto, drvVars, coreVars,
       NoUsb, UserHolds, usbVars
<1>6. Cleared'
  BY <1>1 DEF TouchStop, Cleared, TypeOK, Control, Goto, drvVars, coreVars,
       NoUsb, UserHolds, WaitsFor, Rests, usbVars
<1>7. ClearedByDisc' /\ Fresh'
  BY <1>1 DEF TouchStop, ClearedByDisc, Fresh, TypeOK, Control, Goto, drvVars,
       coreVars, NoUsb, DiscDone, Rests, usbVars
<1>8. NoDead'
  BY <1>1 DEF TouchStop, NoDead, TypeOK, Control, Goto, drvVars, coreVars,
       NoUsb, usbVars
<1>9. Running'
  BY <1>1 DEF TouchStop, Running, TypeOK, Control, Goto, drvVars, coreVars,
       NoUsb, Going, usbVars
<1> QED
  BY <1>2, <1>3, <1>4, <1>5, <1>6, <1>7, <1>8, <1>9

LEMMA UnlockStep ==
  ASSUME PipeInv, NEW t \in Thread, Unlock(t)
  PROVE  PipeInv'
<1> USE DEF PipeInv
<1>1. Queued' = Queued
  BY DEF Unlock, Goto, coreVars, NoUsb, usbVars, Queued
<1>2. TypeOK'
  BY <1>1 DEF Unlock, TypeOK, Goto, coreVars, NoUsb, usbVars
<1>3. Places' /\ Holders'
  BY <1>1 DEF Unlock, Places, Holders, TypeOK, Control, Goto, coreVars, NoUsb,
       usbVars
<1>4. Control'
  BY <1>1 DEF Unlock, Control, TypeOK, Goto, coreVars, NoUsb, usbVars
<1>5. Counts'
  BY <1>1 DEF Unlock, Counts, TypeOK, Control, Holders, Goto, coreVars, NoUsb,
       UserHolds, usbVars
<1>6. Cleared'
  BY <1>1 DEF Unlock, Cleared, TypeOK, Control, Goto, coreVars, NoUsb,
       UserHolds, WaitsFor, Rests, usbVars
<1>7. ClearedByDisc' /\ Fresh'
  BY <1>1 DEF Unlock, ClearedByDisc, Fresh, TypeOK, Control, Goto, coreVars,
       NoUsb, DiscDone, Rests, usbVars
<1>8. NoDead'
  BY <1>1 DEF Unlock, NoDead, TypeOK, Control, Goto, coreVars, NoUsb, usbVars
<1>9. Running'
  BY <1>1 DEF Unlock, Running, TypeOK, Control, Holders, Goto, coreVars,
       NoUsb, Going, usbVars
<1> QED
  BY <1>2, <1>3, <1>4, <1>5, <1>6, <1>7, <1>8, <1>9

LEMMA GetSharedStep ==
  ASSUME PipeInv, NEW t \in Thread, GetShared(t)
  PROVE  PipeInv'
<1> USE DEF PipeInv
<1>1. /\ t \in User /\ t \notin holds /\ pc[t] = "get" /\ users > 0
      /\ pipe_lock = NoOne /\ users' = users + 1 /\ holds' = holds \cup {t}
      /\ pc' = [pc EXCEPT ![t] = "idle"]
  BY DEF GetShared, Unlocked, Granted, Goto, Control, Holders
<1>2. UNCHANGED <<usbVars, pipe_lock, disconnected, registered, tgt, nomem, Queued>>
  BY DEF GetShared, Unlocked, NoUsb, usbVars, Queued
<1>3. Cardinality(holds') = users + 1
  BY <1>1, HoldersCount
<1>4. TypeOK' /\ Places' /\ Control'
  BY <1>1, <1>2 DEF TypeOK, Places, Control, usbVars
<1>5. Holders'
  BY <1>1, <1>2, <1>3 DEF TypeOK, Holders
<1>6. \A u \in Urb : ~UserHolds(u) /\ ~UserHolds(u)'
  BY <1>1, <1>2 DEF TypeOK, UserHolds
<1>7. Counts' /\ Cleared'
  BY <1>1, <1>2, <1>6 DEF TypeOK, Counts, Cleared, usbVars
<1>8. ClearedByDisc' /\ Fresh' /\ NoDead'
  BY <1>1, <1>2 DEF TypeOK, ClearedByDisc, DiscDone, Fresh, NoDead, Rests, usbVars
<1>9. Running'
  BY <1>1, <1>2 DEF TypeOK, Running, Going, usbVars
<1> QED
  BY <1>4, <1>5, <1>7, <1>8, <1>9

LEMMA GetFirstStep ==
  ASSUME PipeInv, NEW t \in Thread, GetFirst(t)
  PROVE  PipeInv'
<1> USE DEF PipeInv
<1>1. Queued' = Queued
  BY DEF GetFirst, Lock, Goto, coreVars, NoUsb, usbVars, Queued
<1>2. TypeOK'
  BY <1>1 DEF GetFirst, TypeOK, Lock, Goto, coreVars, NoUsb, usbVars
<1>3. Places' /\ Holders'
  BY <1>1 DEF GetFirst, Places, Holders, TypeOK, Control, Lock, Goto,
       coreVars, NoUsb, usbVars
<1>4. Control'
  BY <1>1 DEF GetFirst, Control, TypeOK, Lock, Goto, coreVars, NoUsb, usbVars
<1>5. Counts'
  BY <1>1 DEF GetFirst, Counts, TypeOK, Control, Lock, Goto, coreVars, NoUsb,
       UserHolds, usbVars
<1>6. Cleared'
  BY <1>1 DEF GetFirst, Cleared, TypeOK, Control, Lock, Goto, coreVars, NoUsb,
       UserHolds, WaitsFor, Rests, usbVars
<1>7. ClearedByDisc' /\ Fresh'
  BY <1>1 DEF GetFirst, ClearedByDisc, Fresh, TypeOK, Control, Lock, Goto,
       coreVars, NoUsb, DiscDone, Rests, usbVars
<1>8. NoDead'
  BY <1>1 DEF GetFirst, NoDead, TypeOK, Control, Lock, Goto, coreVars, NoUsb,
       usbVars
<1>9. Running'
  BY <1>1 DEF GetFirst, Running, TypeOK, Control, Lock, Goto, coreVars, NoUsb,
       Going, usbVars
<1> QED
  BY <1>2, <1>3, <1>4, <1>5, <1>6, <1>7, <1>8, <1>9

LEMMA DeviceInitStep ==
  ASSUME PipeInv, NEW t \in Thread, DeviceInit(t)
  PROVE  PipeInv'
<1> USE DEF PipeInv
<1>1. PICK next \in {"start", "unlock"} : pc' = [pc EXCEPT ![t] = next]
  BY DEF DeviceInit, Goto
<1>2. /\ t \in User /\ pc[t] = "init" /\ pipe_lock = t
      /\ UNCHANGED <<usbVars, drvVars, coreVars, tgt, nomem, Queued>>
  BY DEF DeviceInit, Control, NoUsb, usbVars, Queued
<1>3. TypeOK' /\ Places' /\ Holders'
  BY <1>1, <1>2 DEF TypeOK, Places, Holders, usbVars, drvVars, coreVars
<1>4. Control'
  BY <1>1, <1>2 DEF TypeOK, Control, usbVars, drvVars
<1>5. \A u \in Urb : UserHolds(u) /\ UserHolds(u)'
  BY <1>1, <1>2 DEF TypeOK, UserHolds, drvVars
<1>6. \A u \in Urb : (\A s \in User : ~WaitsFor(s, u)) /\ (Rests(u)' <=> Rests(u))
  BY <1>2 DEF Control, WaitsFor, Rests, usbVars
<1>7. Counts' /\ Cleared'
  BY <1>1, <1>2, <1>5, <1>6 DEF TypeOK, Counts, Cleared, usbVars, drvVars
<1>8. ClearedByDisc' /\ Fresh'
  BY <1>1, <1>2, <1>6 DEF TypeOK, ClearedByDisc, DiscDone, Fresh
<1>9. NoDead' /\ Running'
  BY <1>1, <1>2 DEF TypeOK, NoDead, Running, Going, usbVars, drvVars
<1> QED
  BY <1>3, <1>4, <1>7, <1>8, <1>9

LEMMA TouchStartStep ==
  ASSUME PipeInv, NEW t \in Thread, TouchStart(t)
  PROVE  PipeInv'
<1> USE DEF PipeInv
<1>1. /\ t \in User /\ pc[t] = "start" /\ pipe_lock = t /\ tgt[t] = 1
      /\ pc' = [pc EXCEPT ![t] = "submit"]
      /\ reject' = [u \in Urb |-> reject[u] - 1]
  BY DEF TouchStart, Goto, Control
<1>2. /\ UNCHANGED <<epOn, queue, unlinked, hurb, hdead, drvVars, coreVars, tgt, nomem>>
      /\ Queued' = Queued
  BY DEF TouchStart, HandlerFrame, Queued
<1>3. reject' \in [Urb -> Int]
  BY <1>1 DEF TypeOK
<1>4. TypeOK' /\ Places' /\ Holders'
  BY <1>1, <1>2, <1>3 DEF TypeOK, Places, Holders, drvVars, coreVars
<1>5. Control'
  BY <1>1, <1>2 DEF TypeOK, Control, drvVars, coreVars
<1>6. \A u \in Urb : UserHolds(u) /\ ~UserHolds(u)'
  BY <1>1, <1>2 DEF TypeOK, UserHolds, drvVars
<1>7. Counts' /\ Cleared'
  BY SMTT(20), <1>1, <1>2, <1>6 DEF TypeOK, Counts, Cleared, drvVars
<1>8. \A u \in Urb : Rests(u)
  BY <1>1, <1>6 DEF Control, Cleared, ClearedByDisc, DiscDone, WaitsFor
<1>9. ClearedByDisc' /\ Fresh'
  BY <1>1, <1>2, <1>8 DEF TypeOK, ClearedByDisc, Fresh, Rests
<1>10. NoDead' /\ Running'
  BY SMTT(20), <1>1, <1>2 DEF TypeOK, Control, NoDead, Running, drvVars
<1> QED
  BY <1>4, <1>5, <1>7, <1>9, <1>10

LEMMA TouchSubmitStep ==
  ASSUME PipeInv, NEW t \in Thread, TouchSubmit(t)
  PROVE  PipeInv'
<1> USE DEF PipeInv
<1> DEFINE n == tgt[t]
<1>1. /\ t \in User /\ pc[t] = "submit" /\ pipe_lock = t /\ n \in Urb
      /\ n \notin Queued /\ hurb # n /\ users = 0
      /\ UNCHANGED <<epOn, reject, unlinked, hurb, hdead, disconnected, registered>>
  BY DEF TouchSubmit, HandlerFrame, Control, TypeOK, Fresh, Rests, Holders
<1>2. \A u \in Urb : ~UserHolds(u)
  BY <1>1 DEF UserHolds
<1>3. SubmitOk(n) => queue' \in Seq(Urb) /\ IsInjective(queue') /\ Queued' = Queued \cup {n}
  BY <1>1, AddedToQueue DEF SubmitOk
<1>4. SubmitFails(n) => queue' = queue /\ Queued' = Queued
  BY DEF SubmitFails, Queued
<1>5. Places'
  BY <1>1, <1>3, <1>4 DEF TouchSubmit, Places
<1>6. CASE SubmitOk(n) /\ n = NumUrbs
  <2>1. /\ users' = users + 1 /\ holds' = holds \cup {t} /\ pipe_lock' = NoOne
        /\ pc' = [pc EXCEPT ![t] = "idle"] /\ tgt' = [tgt EXCEPT ![t] = 1]
        /\ nomem' = nomem
    BY <1>6 DEF TouchSubmit, SubmitOk, SubmitFails, LastSubmit, Granted, Goto
  <2>2. t \notin holds
    BY <1>1, FS_EmptySet, HoldersCount DEF Holders
  <2>3. Cardinality(holds') = users + 1
    BY <1>1, <2>1, <2>2, HoldersCount
  <2>4. pc' \in [Thread -> Label] /\ tgt' \in [Thread -> Urb]
    BY <1>1, <2>1 DEF TypeOK
  <2>5. TypeOK'
    BY <1>1, <1>3, <1>6, <2>1, <2>4 DEF TypeOK
  <2>6. Control' /\ Holders'
    BY <1>1, <2>1, <2>3 DEF TypeOK, Control, Holders
  <2>7. \A u \in Urb : ~UserHolds(u)'
    BY <1>1, <2>1 DEF UserHolds
  <2>8. Counts' /\ Cleared'
    BY <1>1, <1>2, <2>1, <2>7 DEF TypeOK, Counts, Cleared
  <2>9. ClearedByDisc' /\ Fresh' /\ NoDead'
    BY <1>1, <1>3, <1>6, <2>1 DEF TypeOK, Control, SubmitOk, Accepted, ClearedByDisc,
       DiscDone, Fresh, NoDead
  <2>10. Running'
    BY <1>1, <1>3, <1>6, <2>1 DEF TypeOK, Running, Control, Going
  <2> QED
    BY <1>5, <2>5, <2>6, <2>8, <2>9, <2>10
<1>7. CASE SubmitOk(n) /\ n < NumUrbs
  <2>1. /\ UNCHANGED <<users, pipe_lock, holds, pc>>
        /\ tgt' = [tgt EXCEPT ![t] = n + 1]
        /\ nomem' = nomem
    BY <1>7 DEF TouchSubmit, SubmitOk, SubmitFails, LastSubmit
  <2>2. tgt' \in [Thread -> Urb]
    BY SMTT(20), <1>1, <1>7, <2>1 DEF TypeOK
  <2>3. TypeOK' /\ Holders'
    BY <1>1, <1>3, <1>7, <2>1, <2>2 DEF TypeOK, Holders
  <2>9. Control'
    BY <1>1, <2>1 DEF TypeOK, Control
  <2>4. \A u \in Urb : ~UserHolds(u)'
    BY <1>1, <2>1 DEF UserHolds
  <2>5. Counts' /\ Cleared'
    BY <1>1, <1>2, <2>1, <2>4 DEF TypeOK, Counts, Cleared
  <2>6. ClearedByDisc' /\ NoDead'
    BY <1>1, <1>3, <1>7, <2>1 DEF TypeOK, Control, SubmitOk, Accepted, ClearedByDisc,
       DiscDone, NoDead
  <2>7. Fresh'
    <3> SUFFICES ASSUME NEW s \in User, pc[s] = "submit", NEW u \in Urb, u >= tgt'[s]
                 PROVE  u \notin Queued' /\ hurb' # u
      BY <2>1 DEF Fresh, Rests
    <3>1. s = t /\ u >= n + 1
      BY <1>1, <2>1 DEF TypeOK, Control
    <3>2. u # n /\ Rests(u)
      BY <1>1, <3>1 DEF Fresh
    <3> QED
      BY <1>1, <1>3, <1>7, <3>2 DEF Rests
  <2>8. Running'
    <3> SUFFICES ASSUME pc["disc"] = "bound", nomem = 0, NEW s \in User, pc[s] = "submit",
                        NEW u \in Urb, u < tgt'[s]
                 PROVE  Going(u)'
      BY <1>1, <2>1 DEF Running
    <3>1. s = t /\ tgt'[t] = n + 1
      BY <1>1, <2>1 DEF TypeOK, Control
    <3>2. u = n \/ u < n
      BY <1>1, <3>1
    <3>3. u = n \/ Going(u)
      BY <1>1, <3>2 DEF Running
    <3> QED
      BY <1>1, <1>3, <1>7, <3>3 DEF Going
  <2> QED
    BY <1>5, <2>3, <2>9, <2>5, <2>6, <2>7, <2>8
<1>8. CASE SubmitFails(n)
  <2>1. /\ UNCHANGED <<users, pipe_lock, holds, queue, Queued>>
        /\ pc' = [pc EXCEPT ![t] = "stop"] /\ tgt' = [tgt EXCEPT ![t] = 1]
        /\ nomem' \in {nomem, nomem + 1}
    BY <1>4, <1>8 DEF TouchSubmit, SubmitOk, SubmitFails, AfterFailure, Goto
  <2>2. pc' \in [Thread -> Label] /\ tgt' \in [Thread -> Urb]
    BY <1>1, <2>1 DEF TypeOK
  <2>3. TypeOK'
    <3>1. nomem' \in Nat
      BY <2>1 DEF TypeOK
    <3> QED
      BY <1>1, <2>1, <2>2, <3>1 DEF TypeOK
  <2>4. Control'
    BY <1>1, <2>1 DEF TypeOK, Control
  <2>9. Holders'
    BY <1>1, <2>1 DEF TypeOK, Holders
  <2>5. \A u \in Urb : ~UserHolds(u)'
    BY <1>1, <2>1 DEF TypeOK, UserHolds
  <2>6. Counts' /\ Cleared'
    BY <1>1, <1>2, <2>1, <2>5 DEF TypeOK, Counts, Cleared
  <2>7. ClearedByDisc' /\ Fresh' /\ NoDead'
    BY <1>1, <2>1 DEF TypeOK, Control, ClearedByDisc, DiscDone, Fresh, NoDead, Rests
  <2>8. Running'
    BY <1>1, <2>1 DEF TypeOK, Running, Control
  <2> QED
    BY <1>5, <2>3, <2>4, <2>9, <2>6, <2>7, <2>8
<1> QED
  <2>1. SubmitOk(n) \/ SubmitFails(n)
    BY DEF TouchSubmit
  <2>2. n = NumUrbs \/ n < NumUrbs
    BY <1>1
  <2> QED
    BY <1>6, <1>7, <1>8, <2>1, <2>2

\* Thread t, the process or the disconnect, puts back what user u holds.
LEMMA PutStep ==
  ASSUME PipeInv, NEW t \in Thread, NEW u \in User,
         u = IF t = "disc" THEN "input" ELSE t, Put(t, u)
  PROVE  PipeInv'
<1> USE DEF PipeInv
<1>1. /\ pc[t] = "put" /\ u \in holds /\ pipe_lock = NoOne
      /\ holds' = holds \ {u}
      /\ UNCHANGED <<usbVars, disconnected, registered, tgt, nomem, Queued>>
  BY DEF Put, Lock, Unlocked, Holders, NoUsb, usbVars, Queued
<1>2. \/ users = 1 /\ pipe_lock' = t /\ pc' = [pc EXCEPT ![t] = "stop"]
      \/ users > 1 /\ pipe_lock' = NoOne
         /\ pc' = [pc EXCEPT ![t] = IF t = "disc" THEN "gone" ELSE "idle"]
  BY SMTT(20), <1>1, HoldersCount DEF Put, Lock, Unlocked, Goto, TypeOK
<1>3. users' = users - 1 /\ users > 0 /\ Cardinality(holds') = users'
  <2>1. users > 0 /\ Cardinality(holds \ {u}) = users - 1
    BY <1>1, HoldersCount
  <2>2. users' = users - 1
    BY <2>1 DEF Put, TypeOK
  <2> QED
    BY <1>1, <2>1, <2>2
<1>4. TypeOK' /\ Places'
  BY <1>1, <1>2, <1>3 DEF TypeOK, Places, usbVars
<1>5. Control'
  BY <1>1, <1>2 DEF TypeOK, Control, usbVars
<1>6. Holders'
  <2>1. users' \in Nat /\ (pipe_lock' # NoOne => users' = 0)
    BY <1>2, <1>3 DEF TypeOK
  <2>2. \A v \in User : (pc'[v] = "get" => v \notin holds') /\ (pc'[v] = "put" => v \in holds')
    BY <1>1, <1>2 DEF TypeOK, Control, Holders
  <2>3. pc'["disc"] = "put" => "input" \in holds'
    BY <1>1, <1>2 DEF TypeOK, Control, Holders
  <2>4. users' = Cardinality(holds')
    BY <1>3
  <2> HIDE DEF PipeInv
  <2> QED
    BY <2>1, <2>2, <2>3, <2>4 DEF Holders
<1>7. \A v \in Urb : ~UserHolds(v) /\ ~UserHolds(v)'
  BY <1>1, <1>2, <1>3 DEF TypeOK, UserHolds
<1>8. Counts' /\ Cleared'
  BY <1>1, <1>2, <1>7 DEF TypeOK, Counts, Cleared, usbVars
<1>9. ClearedByDisc'
  BY <1>1, <1>2 DEF TypeOK, Control, ClearedByDisc, DiscDone, Rests, usbVars
<1>10. Fresh' /\ NoDead'
  BY <1>1, <1>2 DEF TypeOK, Fresh, NoDead, Rests, usbVars
<1>11. Running'
  BY <1>1, <1>2, <1>3 DEF TypeOK, Control, Running, Going, usbVars
<1> QED
  BY <1>4, <1>5, <1>6, <1>8, <1>9, <1>10, <1>11

LEMMA CallStep ==
  ASSUME PipeInv, NEW t \in User, Call(t)
  PROVE  PipeInv'
<1> USE DEF PipeInv
<1>1. PICK label \in {"get", "put"} :
        pc' = [pc EXCEPT ![t] = label] /\ (label = "put" <=> t \in holds)
  BY DEF Call, Goto
<1>2. pc[t] = "idle" /\ UNCHANGED <<usbVars, drvVars, coreVars, tgt, nomem, Queued>>
  BY DEF Call, NoUsb, usbVars, drvVars, coreVars, Queued
<1>3. TypeOK' /\ Places' /\ Control' /\ Holders'
  BY SMTT(20), <1>1, <1>2 DEF TypeOK, Places, Control, Holders, usbVars, drvVars, coreVars
<1>4. \A u \in Urb : UserHolds(u)' <=> UserHolds(u)
  BY <1>1, <1>2 DEF TypeOK, UserHolds, drvVars
<1>5. Counts' /\ Cleared'
  BY <1>1, <1>2, <1>4 DEF TypeOK, Counts, Cleared, WaitsFor, Rests, usbVars, drvVars
<1>6. ClearedByDisc' /\ Fresh' /\ NoDead'
  BY <1>1, <1>2 DEF TypeOK, ClearedByDisc, DiscDone, Fresh, NoDead, Rests, usbVars
<1>7. Running'
  BY <1>1, <1>2 DEF TypeOK, Running, Going, usbVars, drvVars
<1> QED
  BY <1>3, <1>5, <1>6, <1>7

LEMMA DisconnectBeginStep ==
  ASSUME PipeInv, DisconnectBegin
  PROVE  PipeInv'
<1> USE DEF PipeInv
<1>1. Queued' = Queued
  BY DEF DisconnectBegin, Goto, drvVars, coreVars, Queued
<1>2. TypeOK'
  <2>1. pc' \in [Thread -> Label]
    BY DEF DisconnectBegin, TypeOK, Goto, drvVars, coreVars
  <2>2. unlinked' \subseteq Urb
    BY QueuedIs, RangeIn DEF Queued, DisconnectBegin, TypeOK, Goto, drvVars, coreVars
  <2> QED
    BY <2>1, <2>2, <1>1 DEF DisconnectBegin, TypeOK, drvVars, coreVars
<1>3. Places' /\ Holders'
  BY <1>1 DEF DisconnectBegin, Places, Holders, TypeOK, Control, Goto,
       drvVars, coreVars
<1>4. Control'
  BY <1>1 DEF DisconnectBegin, Control, TypeOK, Goto, drvVars, coreVars
<1>5. Counts'
  BY <1>1 DEF DisconnectBegin, Counts, TypeOK, Control, Goto, drvVars,
       coreVars, UserHolds
<1>6. Cleared'
  BY <1>1 DEF DisconnectBegin, Cleared, TypeOK, Control, Goto, drvVars,
       coreVars, UserHolds, WaitsFor, Rests
<1>7. ClearedByDisc' /\ Fresh'
  BY <1>1 DEF DisconnectBegin, ClearedByDisc, Fresh, TypeOK, Control, Goto,
       drvVars, coreVars, DiscDone, Rests
<1>8. NoDead'
  BY <1>1 DEF DisconnectBegin, NoDead, TypeOK, Control, Goto, drvVars,
       coreVars
<1>9. Running'
  BY <1>1 DEF DisconnectBegin, Running, TypeOK, Control, Goto, drvVars,
       coreVars, Going
<1> QED
  BY <1>2, <1>3, <1>4, <1>5, <1>6, <1>7, <1>8, <1>9

LEMMA DisconnectFlagStep ==
  ASSUME PipeInv, DisconnectFlag
  PROVE  PipeInv'
<1> USE DEF PipeInv
<1>1. Queued' = Queued
  BY DEF DisconnectFlag, Goto, coreVars, NoUsb, usbVars, Queued
<1>2. TypeOK'
  BY <1>1 DEF DisconnectFlag, TypeOK, Goto, coreVars, NoUsb, usbVars
<1>3. Places' /\ Holders'
  BY <1>1 DEF DisconnectFlag, Places, Holders, TypeOK, Control, Goto,
       coreVars, NoUsb, usbVars
<1>4. Control'
  BY <1>1 DEF DisconnectFlag, Control, TypeOK, Goto, coreVars, NoUsb, usbVars
<1>5. Counts'
  BY <1>1 DEF DisconnectFlag, Counts, TypeOK, Control, Goto, coreVars, NoUsb,
       UserHolds, usbVars
<1>6. Cleared'
  BY <1>1 DEF DisconnectFlag, Cleared, TypeOK, Control, Goto, coreVars, NoUsb,
       UserHolds, WaitsFor, Rests, usbVars
<1>7. ClearedByDisc' /\ Fresh'
  BY <1>1 DEF DisconnectFlag, ClearedByDisc, Fresh, TypeOK, Control, Goto,
       coreVars, NoUsb, DiscDone, Rests, usbVars
<1>8. NoDead'
  BY <1>1 DEF DisconnectFlag, NoDead, TypeOK, Control, Goto, coreVars, NoUsb,
       usbVars
<1>9. Running'
  BY <1>1 DEF DisconnectFlag, Running, TypeOK, Control, Goto, coreVars, NoUsb,
       Going, usbVars
<1> QED
  BY <1>2, <1>3, <1>4, <1>5, <1>6, <1>7, <1>8, <1>9

LEMMA UnregisterVideoStep ==
  ASSUME PipeInv, UnregisterVideo
  PROVE  PipeInv'
<1> USE DEF PipeInv
<1>1. Queued' = Queued
  BY DEF UnregisterVideo, Goto, drvVars, NoUsb, usbVars, Queued
<1>2. TypeOK'
  BY <1>1 DEF UnregisterVideo, TypeOK, Goto, drvVars, NoUsb, usbVars
<1>3. Places' /\ Holders'
  BY <1>1 DEF UnregisterVideo, Places, Holders, TypeOK, Control, Goto,
       drvVars, NoUsb, usbVars
<1>4. Control'
  BY <1>1 DEF UnregisterVideo, Control, TypeOK, Goto, drvVars, NoUsb, usbVars
<1>5. Counts'
  BY <1>1 DEF UnregisterVideo, Counts, TypeOK, Control, Goto, drvVars, NoUsb,
       UserHolds, usbVars
<1>6. Cleared'
  BY <1>1 DEF UnregisterVideo, Cleared, TypeOK, Control, Goto, drvVars, NoUsb,
       UserHolds, WaitsFor, Rests, usbVars
<1>7. ClearedByDisc' /\ Fresh'
  BY <1>1 DEF UnregisterVideo, ClearedByDisc, Fresh, TypeOK, Control, Goto,
       drvVars, NoUsb, DiscDone, Rests, usbVars
<1>8. NoDead'
  BY <1>1 DEF UnregisterVideo, NoDead, TypeOK, Control, Goto, drvVars, NoUsb,
       usbVars
<1>9. Running'
  BY <1>1 DEF UnregisterVideo, Running, TypeOK, Control, Goto, drvVars, NoUsb,
       Going, usbVars
<1> QED
  BY <1>2, <1>3, <1>4, <1>5, <1>6, <1>7, <1>8, <1>9

LEMMA UnregisterInputStep ==
  ASSUME PipeInv, UnregisterInput
  PROVE  PipeInv'
<1> USE DEF PipeInv
<1>1. Queued' = Queued
  BY DEF UnregisterInput, drvVars, NoUsb, usbVars, Queued
<1>2. TypeOK'
  BY <1>1 DEF UnregisterInput, TypeOK, drvVars, NoUsb, usbVars
<1>3. Places' /\ Holders'
  BY <1>1 DEF UnregisterInput, Places, Holders, TypeOK, Control, drvVars,
       NoUsb, usbVars
<1>4. Control'
  BY <1>1 DEF UnregisterInput, Control, TypeOK, drvVars, NoUsb, usbVars
<1>5. Counts'
  BY <1>1 DEF UnregisterInput, Counts, TypeOK, Control, drvVars, NoUsb,
       UserHolds, usbVars
<1>6. Cleared'
  BY <1>1 DEF UnregisterInput, Cleared, TypeOK, Control, drvVars, NoUsb,
       UserHolds, WaitsFor, Rests, usbVars
<1>7. ClearedByDisc' /\ Fresh'
  BY <1>1 DEF UnregisterInput, ClearedByDisc, Fresh, TypeOK, Control, drvVars,
       NoUsb, DiscDone, Rests, usbVars
<1>8. NoDead'
  BY <1>1 DEF UnregisterInput, NoDead, TypeOK, Control, drvVars, NoUsb,
       usbVars
<1>9. Running'
  BY <1>1 DEF UnregisterInput, Running, TypeOK, Control, drvVars, NoUsb,
       Going, usbVars
<1> QED
  BY <1>2, <1>3, <1>4, <1>5, <1>6, <1>7, <1>8, <1>9

LEMMA StillStep ==
  ASSUME PipeInv, UNCHANGED vars
  PROVE  PipeInv'
<1> USE DEF PipeInv
<1>1. Queued' = Queued
  BY DEF vars, usbVars, drvVars, coreVars, Queued
<1>2. TypeOK'
  BY <1>1 DEF vars, TypeOK, usbVars, drvVars, coreVars
<1>3. Places' /\ Holders'
  BY <1>1 DEF vars, Places, Holders, TypeOK, Control, usbVars, drvVars,
       coreVars
<1>4. Control'
  BY <1>1 DEF vars, Control, TypeOK, usbVars, drvVars, coreVars
<1>5. Counts'
  BY <1>1 DEF vars, Counts, TypeOK, Control, usbVars, drvVars, coreVars,
       UserHolds
<1>6. Cleared'
  BY <1>1 DEF vars, Cleared, TypeOK, Control, usbVars, drvVars, coreVars,
       UserHolds, WaitsFor, Rests
<1>7. ClearedByDisc' /\ Fresh'
  BY <1>1 DEF vars, ClearedByDisc, Fresh, TypeOK, Control, usbVars, drvVars,
       coreVars, DiscDone, Rests
<1>8. NoDead'
  BY <1>1 DEF vars, NoDead, TypeOK, Control, usbVars, drvVars, coreVars
<1>9. Running'
  BY <1>1 DEF vars, Running, TypeOK, Control, usbVars, drvVars, coreVars,
       Going
<1> QED
  BY <1>2, <1>3, <1>4, <1>5, <1>6, <1>7, <1>8, <1>9

-----------------------------------------------------------------------------
LEMMA InitHolds == Init => PipeInv
<1> SUFFICES ASSUME Init PROVE PipeInv
  OBVIOUS
<1>1. Queued = {} /\ IsInjective(queue) /\ queue \in Seq(Urb)
  BY RangeEmpty, QueuedIs DEF Init, Queued
<1>2. Cardinality(holds) = 0
  BY FS_EmptySet DEF Init
<1>3. TypeOK
  <2>1. reject \in [Urb -> Int] /\ pc \in [Thread -> Label] /\ tgt \in [Thread -> Urb]
    BY DEF Init
  <2> QED
    BY <1>1, <2>1 DEF Init, TypeOK
<1>4. Places /\ Control /\ Holders
  BY <1>1, <1>2 DEF Init, Places, Control, Holders
<1>5. Counts /\ Cleared /\ ClearedByDisc
  BY <1>1 DEF Init, Counts, UserHolds, Cleared, Rests, ClearedByDisc, DiscDone
<1>6. Fresh /\ NoDead /\ Running
  BY DEF Init, Fresh, NoDead, Running
<1> QED
  BY <1>3, <1>4, <1>5, <1>6 DEF PipeInv

LEMMA NextPreserves == PipeInv /\ [Next]_vars => PipeInv'
<1> SUFFICES ASSUME PipeInv, [Next]_vars PROVE PipeInv'
  OBVIOUS
<1>1. ASSUME Received \/ Cancelled PROVE PipeInv'
  <2>1. CASE Received
    <3>1. Head(queue) \in Queued
      BY <2>1, QueuedIs, RangeTail DEF Received, Queued, PipeInv, TypeOK, Places
    <3> QED
      BY <2>1, <3>1, QueuedInUrb, GiveBackStep DEF Received, PipeInv
  <2>2. CASE Cancelled
    BY <2>2, GiveBackStep DEF Cancelled, PipeInv, TypeOK
  <2> QED
    BY <1>1, <2>1, <2>2
<1>2. ASSUME NEW t \in Thread, Enter(t) PROVE PipeInv'
  <2> DEFINE u == IF t = "disc" THEN "input" ELSE t
  <2>1. u \in User
    OBVIOUS
  <2> QED
    BY <1>2, <2>1, GetSharedStep, GetFirstStep, PutStep DEF Enter
<1>3. ASSUME NEW t \in Thread, Step(t) PROVE PipeInv'
  BY <1>3, PoisonStep, PoisonWaitStep, TouchStopStep, UnlockStep, DeviceInitStep,
     TouchStartStep, TouchSubmitStep DEF Step
<1>4. ASSUME NEW t \in User, Call(t) PROVE PipeInv'
  BY <1>4, CallStep
<1>5. ASSUME DisconnectBegin \/ DiscStep PROVE PipeInv'
  BY <1>5, DisconnectBeginStep, DisconnectFlagStep, UnregisterVideoStep,
     UnregisterInputStep DEF DiscStep
<1>6. ASSUME Detached \/ UNCHANGED vars PROVE PipeInv'
  BY <1>6, StillStep DEF Detached
<1> QED
  BY <1>1, <1>2, <1>3, <1>4, <1>5, <1>6, TouchCompleteStep DEF Next

\* The inductive invariant.
THEOREM PipeInvAlways == Spec => []PipeInv
  BY InitHolds, NextPreserves, PTL DEF Spec

-----------------------------------------------------------------------------
(***************************************************************************)
(* What the users of the pipeline rely on.                                 *)
(***************************************************************************)
\* Between any calls, whichever of them failed half way, the URBs are poisoned
\* once if nobody holds the pipeline and not at all if somebody does.
THEOREM BalancedAlways == Spec => []Balanced
<1>1. PipeInv => Balanced
  BY DEF PipeInv, TypeOK, Control, Holders, Counts, UserHolds, Balanced
<1> QED
  BY <1>1, PipeInvAlways, PTL

\* After the last put, a start that failed, or the disconnect's poisoning, no
\* touch URB is queued and no handler runs.
THEOREM TouchQuietAlways == Spec => []TouchQuiet
<1>1. ASSUME PipeInv, (pipe_lock = NoOne /\ users = 0) \/ disconnected
      PROVE  queue = <<>> /\ hurb = NoUrb
  <2>1. \A u \in Urb : Rests(u)
    <3>1. CASE disconnected
      BY <1>1, <3>1 DEF PipeInv, Control, ClearedByDisc, DiscDone
    <3>2. CASE ~disconnected /\ pipe_lock = NoOne /\ users = 0
      BY <1>1, <3>2 DEF PipeInv, Control, Cleared, UserHolds, WaitsFor
    <3> QED
      BY <1>1, <3>1, <3>2
  <2>2. hurb = NoUrb /\ Queued = {}
    BY <1>1, <2>1, QueuedInUrb DEF PipeInv, TypeOK, Rests
  <2> QED
    BY <1>1, <2>2, QueuedIs, RangeIn DEF Queued, PipeInv, TypeOK
<1> QED
  BY <1>1, PipeInvAlways, PTL DEF TouchQuiet

\* While the input device is open or video is streaming, every touch URB is
\* queued or in its handler, as long as no submission has failed.
THEOREM KeptQueuedAlways == Spec => []KeptQueued
<1>1. PipeInv => KeptQueued
  BY QueuedInUrb DEF PipeInv, TypeOK, Running, Going, KeptQueued
<1> QED
  BY <1>1, PipeInvAlways, PTL
=============================================================================
