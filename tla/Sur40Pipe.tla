------------------------------ MODULE Sur40Pipe ------------------------------
(***************************************************************************)
(* Who keeps the touch pipeline of the sur40 kernel driver running         *)
(* (kernel/sur40.c).                                                       *)
(*                                                                         *)
(* The touch URBs are shared by the input device (sur40_open, sur40_close) *)
(* and by video streaming (sur40_start_streaming, sur40_stop_streaming),   *)
(* which count themselves in "users" under pipe_lock.  The first user      *)
(* starts the URBs, the last one stops them, and sur40_disconnect stops    *)
(* them without the lock.  Three threads meet here:                        *)
(*   "input"  a process that opens and closes the input device, with       *)
(*            input->mutex held;                                           *)
(*   "video"  a process that starts and stops streaming, with queue.lock;  *)
(*   "disc"   the USB core's call of sur40_disconnect.                     *)
(* The contents of touch packets are the matter of Sur40Touch, the video   *)
(* URBs that of Sur40Video.                                                *)
(***************************************************************************)
EXTENDS Integers, FiniteSets, Sequences, SequencesExt, Functions

CONSTANTS
  NumUrbs,      \* SUR40_TOUCH_URBS, 8 in the code
  MaxNoMem,     \* bound: submissions that fail for lack of memory
  MaxUnderflow  \* bound: no call starts when the poison counts are that far below 0

ASSUME PipeAssumption ==
  NumUrbs \in Nat \ {0} /\ MaxNoMem \in Nat /\ MaxUnderflow \in Nat

Urb    == 1 .. NumUrbs
User   == {"input", "video"}
Thread == User \cup {"disc"}
NoOne  == "none"
NoUrb  == 0

VARIABLES
  \* the USB core's view of the endpoint and of the touch URBs
  epOn,          \* the interface's endpoints are enabled
  reject,        \* poison count of each URB
  queue,         \* submitted URBs, in the order in which they complete
  unlinked,      \* those of them that a poison has cancelled
  hurb, hdead,   \* URB whose completion handler runs; it was cancelled
  \* struct sur40_state
  users, pipe_lock, disconnected,
  \* the input core and the V4L2 core
  registered,    \* users whose device node is registered
  holds,         \* users that were granted the pipeline and keep it
  \* the threads
  pc, tgt,       \* program counter, URB that a loop has come to
  nomem

usbVars  == <<epOn, reject, queue, unlinked, hurb, hdead>>
drvVars  == <<users, pipe_lock, disconnected>>
coreVars == <<registered, holds>>
vars     == <<usbVars, drvVars, coreVars, pc, tgt, nomem>>

Queued == ToSet(queue)

-----------------------------------------------------------------------------
(***************************************************************************)
(* URBs.  The handlers of one endpoint run one at a time.                  *)
(***************************************************************************)
Accepted(u) == epOn /\ reject[u] = 0

SubmitOk(u) ==
  /\ Accepted(u)
  /\ queue' = Append(queue, u)
  /\ UNCHANGED nomem

SubmitFails(u) ==
  /\ \/ ~Accepted(u) /\ UNCHANGED nomem
     \/ Accepted(u) /\ nomem < MaxNoMem /\ nomem' = nomem + 1
  /\ UNCHANGED queue

GiveBack(u) ==
  /\ hurb = NoUrb
  /\ \E i \in DOMAIN queue : queue[i] = u /\ queue' = RemoveAt(queue, i)
  /\ unlinked' = unlinked \ {u}
  /\ hurb' = u
  /\ hdead' = (u \in unlinked)
  /\ UNCHANGED <<epOn, reject, drvVars, coreVars, pc, tgt, nomem>>

\* The URB at the head of the queue has got its packet or an error.
Received == epOn /\ queue # <<>> /\ Head(queue) \notin unlinked
            /\ GiveBack(Head(queue))

\* An URB that was cancelled is given back.
Cancelled == \E u \in unlinked : GiveBack(u)

\* sur40_touch_complete: resubmits unless the URB is dead.
TouchComplete ==
  /\ hurb # NoUrb
  /\ IF hdead
     THEN UNCHANGED <<queue, nomem>>
     ELSE SubmitOk(hurb) \/ SubmitFails(hurb)
  /\ hurb' = NoUrb /\ hdead' = FALSE
  /\ UNCHANGED <<epOn, reject, unlinked, drvVars, coreVars, pc, tgt>>

-----------------------------------------------------------------------------
(***************************************************************************)
(* Steps of the threads.                                                   *)
(***************************************************************************)
Goto(t, label) == pc' = [pc EXCEPT ![t] = label]
Lock(t)  == pipe_lock = NoOne /\ pipe_lock' = t
Unlocked == pipe_lock = NoOne /\ UNCHANGED pipe_lock

\* What they leave alone: the handler, and of the URBs what usb_poison_urb and
\* usb_submit_urb change.
NoUsb     == UNCHANGED <<usbVars, nomem>>
HandlerFrame == UNCHANGED <<epOn, hurb, hdead>>

RefuseNot(u) == UNCHANGED reject      \* mutant: usb_kill_urb
Refuse(u) == reject' = [reject EXCEPT ![u] = @ + 1]

GivenBackLater(u) == u \in Urb        \* mutant: usb_unlink_urb, no wait
GivenBack(u) == u \notin Queued /\ hurb # u

Poison(t) ==
  /\ pc[t] = "poison"
  /\ Refuse(tgt[t])
  /\ unlinked' = unlinked \cup ({tgt[t]} \cap Queued)
  /\ Goto(t, "wait")
  /\ UNCHANGED <<queue, drvVars, coreVars, tgt, nomem>>
  /\ HandlerFrame

LastUrb(u) == u = NumUrbs

PoisonWait(t) ==
  /\ pc[t] = "wait"
  /\ GivenBack(tgt[t])
  /\ IF LastUrb(tgt[t])
     THEN Goto(t, IF t = "disc" THEN "flag" ELSE "unlock")
          /\ tgt' = [tgt EXCEPT ![t] = 1]
     ELSE Goto(t, "poison") /\ tgt' = [tgt EXCEPT ![t] = @ + 1]
  /\ UNCHANGED <<drvVars, coreVars>>
  /\ NoUsb

\* sur40_touch_stop: nothing is done after a disconnect.
TouchStop(t) ==
  /\ pc[t] = "stop"
  /\ Goto(t, IF disconnected THEN "unlock" ELSE "poison")
  /\ UNCHANGED <<drvVars, coreVars, tgt>>
  /\ NoUsb

Unlock(t) ==
  /\ pc[t] = "unlock"
  /\ pipe_lock' = NoOne
  /\ Goto(t, IF t = "disc" THEN "gone" ELSE "idle")
  /\ UNCHANGED <<users, disconnected, coreVars, tgt>>
  /\ NoUsb

(***************************************************************************)
(* sur40_pipeline_get, from sur40_open and sur40_start_streaming.          *)
(***************************************************************************)
Granted(t) == users' = users + 1 /\ holds' = holds \cup {t}

GetShared(t) ==
  /\ pc[t] = "get" /\ users > 0
  /\ Unlocked
  /\ Granted(t)
  /\ Goto(t, "idle")
  /\ UNCHANGED <<disconnected, registered, tgt>>
  /\ NoUsb

GetFirst(t) ==
  /\ pc[t] = "get" /\ users = 0
  /\ Lock(t)
  /\ Goto(t, "init")
  /\ UNCHANGED <<users, disconnected, coreVars, tgt>>
  /\ NoUsb

\* sur40_init, which may fail
DeviceInit(t) ==
  /\ pc[t] = "init"
  /\ \E next \in {"start", "unlock"} : Goto(t, next)
  /\ UNCHANGED <<drvVars, coreVars, tgt>>
  /\ NoUsb

TouchStart(t) ==
  /\ pc[t] = "start"
  /\ reject' = [u \in Urb |-> reject[u] - 1]
  /\ Goto(t, "submit")
  /\ UNCHANGED <<queue, unlinked, drvVars, coreVars, tgt, nomem>>
  /\ HandlerFrame

AfterFailureUnlock == "unlock"        \* mutant: the error path stops nothing
AfterFailure == "stop"

LastSubmitShort(u) == u + 1 >= NumUrbs   \* mutant: one URB is not submitted
LastSubmit(u) == u = NumUrbs

TouchSubmit(t) ==
  LET u == tgt[t] IN
  /\ pc[t] = "submit"
  /\ \/ /\ SubmitOk(u) /\ LastSubmit(u)
        /\ Granted(t)
        /\ pipe_lock' = NoOne
        /\ Goto(t, "idle")
        /\ tgt' = [tgt EXCEPT ![t] = 1]
     \/ /\ SubmitOk(u) /\ ~LastSubmit(u)
        /\ tgt' = [tgt EXCEPT ![t] = u + 1]
        /\ UNCHANGED <<users, pipe_lock, holds, pc>>
     \/ /\ SubmitFails(u)
        /\ Goto(t, AfterFailure)
        /\ tgt' = [tgt EXCEPT ![t] = 1]
        /\ UNCHANGED <<users, pipe_lock, holds>>
  /\ UNCHANGED <<reject, unlinked, disconnected, registered>>
  /\ HandlerFrame

(***************************************************************************)
(* sur40_pipeline_put by thread t on behalf of user u.                     *)
(***************************************************************************)
Put(t, u) ==
  /\ pc[t] = "put"
  /\ holds' = holds \ {u}
  /\ \/ /\ users = 1
        /\ Lock(t)
        /\ users' = 0
        /\ Goto(t, "stop")
     \/ /\ users # 1
        /\ Unlocked
        /\ users' = IF users = 0 THEN 0 ELSE users - 1
        /\ Goto(t, IF t = "disc" THEN "gone" ELSE "idle")
  /\ UNCHANGED <<disconnected, registered, tgt>>
  /\ NoUsb

(***************************************************************************)
(* The users' calls, and sur40_disconnect.                                 *)
(***************************************************************************)
Call(t) ==
  /\ pc[t] = "idle"
  /\ \/ t \in registered \ holds /\ reject[1] > -MaxUnderflow /\ Goto(t, "get")
     \/ t \in holds /\ Goto(t, "put")
  /\ UNCHANGED <<drvVars, coreVars, tgt>>
  /\ NoUsb

DisconnectBegin ==
  /\ pc["disc"] = "bound"
  /\ epOn' = FALSE
  /\ unlinked' = Queued
  /\ Goto("disc", "poison")
  /\ UNCHANGED <<reject, queue, hurb, hdead, drvVars, coreVars, tgt, nomem>>

DisconnectFlag ==
  /\ pc["disc"] = "flag"
  /\ disconnected' = TRUE
  /\ Goto("disc", "unreg_video")
  /\ UNCHANGED <<users, pipe_lock, coreVars, tgt>>
  /\ NoUsb

\* video_unregister_device waits for nobody.
UnregisterVideo ==
  /\ pc["disc"] = "unreg_video"
  /\ registered' = registered \ {"video"}
  /\ Goto("disc", "unreg_input")
  /\ UNCHANGED <<drvVars, holds, tgt>>
  /\ NoUsb

\* input_unregister_device takes input->mutex and closes the device if it is
\* open; a process that closes it later does not reach the driver any more.
UnregisterInput ==
  /\ pc["disc"] = "unreg_input" /\ pc["input"] = "idle"
  /\ registered' = registered \ {"input"}
  /\ pc' = [pc EXCEPT !["disc"] = IF "input" \in holds THEN "put" ELSE "gone",
                      !["input"] = "closed"]
  /\ UNCHANGED <<drvVars, holds, tgt>>
  /\ NoUsb

\* Nobody can use the device again.
Detached ==
  /\ pc["disc"] = "gone" /\ pc["video"] = "idle" /\ holds = {}
  /\ UNCHANGED vars

-----------------------------------------------------------------------------
\* After sur40_probe: every URB is poisoned once.
Init ==
  /\ epOn = TRUE /\ reject = [u \in Urb |-> 1]
  /\ queue = <<>> /\ unlinked = {} /\ hurb = NoUrb /\ hdead = FALSE
  /\ users = 0 /\ pipe_lock = NoOne /\ disconnected = FALSE
  /\ registered = User /\ holds = {}
  /\ pc = [t \in Thread |-> IF t = "disc" THEN "bound" ELSE "idle"]
  /\ tgt = [t \in Thread |-> 1]
  /\ nomem = 0

\* What a thread does with pipe_lock free, and what it does in the driver.
Enter(t) == \/ GetShared(t) \/ GetFirst(t)
            \/ Put(t, IF t = "disc" THEN "input" ELSE t)
Step(t) == \/ Poison(t) \/ PoisonWait(t) \/ TouchStop(t) \/ Unlock(t)
           \/ DeviceInit(t) \/ TouchStart(t) \/ TouchSubmit(t)
DiscStep == DisconnectFlag \/ UnregisterVideo \/ UnregisterInput

Next == \/ Received \/ Cancelled \/ TouchComplete
        \/ \E t \in Thread : Enter(t) \/ Step(t)
        \/ \E t \in User : Call(t)
        \/ DisconnectBegin \/ DiscStep \/ Detached

Spec == Init /\ [][Next]_vars

(***************************************************************************)
(* A mutex does not starve a thread that waits for it, nor does the host   *)
(* controller a cancelled URB; everything inside the driver keeps running. *)
(* Strong fairness says so of steps that others can disable for a while.   *)
(***************************************************************************)
Fairness ==
  /\ WF_vars(TouchComplete) /\ SF_vars(Cancelled)
  /\ \A t \in Thread : SF_vars(Enter(t)) /\ WF_vars(Step(t))
  /\ SF_vars(DiscStep)

FairSpec == Spec /\ Fairness

-----------------------------------------------------------------------------
(***************************************************************************)
(* Properties.                                                             *)
(***************************************************************************)
Label == {"idle", "get", "init", "start", "submit", "stop", "poison", "wait",
          "unlock", "put", "closed", "bound", "flag", "unreg_video",
          "unreg_input", "gone"}

\* "All URBs start out poisoned so that the start/stop helpers can rely on a
\* balanced unpoison/poison sequence": whenever pipe_lock is free and no
\* disconnect runs, users counts those who hold the pipeline, and the URBs are
\* poisoned once if there are none and not at all if there are some, whichever
\* starts failed half way before.
Balanced ==
  pipe_lock = NoOne /\ pc["disc"] = "bound" =>
    /\ users = Cardinality(holds)
    /\ \A u \in Urb : reject[u] = IF users = 0 THEN 1 ELSE 0

\* When the last user has put the pipeline back, or the first could not start
\* it, and once disconnected is set, no touch URB is queued and no handler runs,
\* so that none reports to the input device that is closed or unregistered next.
TouchQuiet ==
  (pipe_lock = NoOne /\ users = 0) \/ disconnected => queue = <<>> /\ hurb = NoUrb

\* "SUR40_TOUCH_URBS bulk URBs kept queued on the touch endpoint" while the
\* input device is open or video is streaming, as long as no submission has
\* failed for lack of memory.
KeptQueued ==
  pipe_lock = NoOne /\ users > 0 /\ pc["disc"] = "bound" /\ nomem = 0
    => Queued \cup ({hurb} \ {NoUrb}) = Urb

\* A call that opens, closes, starts or stops returns, and a disconnect that
\* has begun completes: no thread waits for ever for pipe_lock, for a handler
\* or for input->mutex.
CallsReturn ==
  /\ \A t \in User : pc[t] \notin {"idle", "closed"} ~> pc[t] \in {"idle", "closed"}
  /\ pc["disc"] # "bound" ~> pc["disc"] = "gone"
=============================================================================
