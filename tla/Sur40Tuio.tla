------------------------------ MODULE Sur40Tuio ------------------------------
(***************************************************************************)
(* The daemon: it reads scans of the touch endpoint (surface_get_blobs of  *)
(* userspace/surface.cpp), turns them into TUIO contacts                   *)
(* (tuio/Sur40_TUIO.cpp), and sends the frames with TuioServer.            *)
(*                                                                         *)
(* The device spreads a scan over packets of which only the first carries  *)
(* the number of blobs.  A session id is the device's blob_id.             *)
(***************************************************************************)
EXTENDS TuioServer

CONSTANTS
  PerPacket,  \* blobs of a packet
  MaxFaults   \* bound: transfers that fail, packets that get lost on either side

ASSUME DaemonAssumption == PerPacket \in Nat \ {0} /\ MaxFaults \in Nat /\ Ext = {}

VARIABLES
  scan, rest, first,   \* the device: blobs of its scan, those not sent, none is sent
  pc,                  \* where the daemon is
  need, got,           \* surface_get_blobs: need_blobs, what it stored in outblob
  todo,                \* the blobs of the frame not handled yet, in run()
  running,
  inStep,              \* history: got is one scan of the device, read from its start
  result,              \* history: the blobs of the last frame, and whether they are a scan
  age,                 \* history: frames since a contact was last in a frame's blobs
  faults

devVars == <<scan, rest, first>>
callVars == <<need, got>>
vars == <<mgrVars, srvVars, rcvVars, devVars, callVars, pc, todo, running, inStep, result,
          age, faults>>
server == <<mgrVars, srvVars, rcvVars>>

-----------------------------------------------------------------------------
(***************************************************************************)
(* The device and surface_get_blobs.                                       *)
(***************************************************************************)
\* The device's next packet: it is one of the scan s, with blobs r still to send.
Chunk(r) == SubSeq(r, 1, IF Len(r) < PerPacket THEN Len(r) ELSE PerPacket)
Scans == IF first THEN {Listed(S) : S \in SUBSET Contact} ELSE {scan}
Rest(s) == IF first THEN s ELSE rest
Count(s) == IF first THEN Len(s) ELSE 0
\* A packet of the scan s leaves.
Send(s) ==
  LET left == SubSeq(Rest(s), Len(Chunk(Rest(s))) + 1, Len(Rest(s))) IN
  /\ rest' = left /\ first' = (left = <<>>)
  /\ scan' = IF left = <<>> THEN <<>> ELSE s

Nothing == [blobs |-> <<>>, whole |-> FALSE, scan |-> <<>>]
\* Mutant of Call: the loop does not look at running.
CallForever == /\ pc = "call"
               /\ need' = -1 /\ got' = <<>> /\ inStep' = first
               /\ pc' = "read" /\ result' = Nothing
               /\ UNCHANGED <<server, devVars, todo, running, age, faults>>

Call == /\ pc = "call" /\ running
        /\ need' = -1 /\ got' = <<>> /\ inStep' = first
        /\ pc' = "read"
        /\ result' = Nothing
        /\ UNCHANGED <<server, devVars, todo, running, age, faults>>

\* What to do with the result of the call: nothing at all if there is nothing to show.
Return(bs, whole, s) ==
  LET count == Cardinality(live \cap (Object \cup Cursor)) IN
  /\ result' = [blobs |-> bs, whole |-> whole, scan |-> s]
  /\ need' = -1 /\ got' = <<>>
  /\ IF bs = <<>> /\ count = 0 THEN pc' = "call" ELSE pc' = "init"

\* The caller looks at the first n blobs.
SelectFirst(g, n) == SubSeq(g, 1, IF n < Len(g) THEN n ELSE Len(g))

\* Mutant of Enough: the last packet is not waited for.
EnoughEarly(g, n) == Len(g) + 1 >= n
\* All blobs are there, the condition of the loop.
Enough(g, n) == Len(g) >= n

\* A packet comes; the call returns with the last one it needs.
ReadPacket ==
  /\ pc = "read"
  /\ \E s \in Scans :
       LET n == IF need = -1 THEN Count(s) ELSE need
           g == got \o Chunk(Rest(s)) IN
       /\ Send(s)
       /\ IF Enough(g, n) THEN Return(SelectFirst(g, n), inStep, s)
          ELSE pc' = "read" /\ need' = n /\ got' = g /\ UNCHANGED result
  /\ UNCHANGED <<server, todo, running, inStep, age, faults>>

\* A transfer times out or fails: what was read so far is dropped.
ReadError ==
  /\ pc = "read" /\ faults + losses < MaxFaults
  /\ faults' = faults + 1
  /\ (\E s \in Scans : Send(s)) \/ UNCHANGED devVars
  /\ Return(<<>>, FALSE, <<>>)
  /\ UNCHANGED <<server, todo, running, inStep, age>>

\* A packet that nobody reads: the queue of the device is short.
LosePacket ==
  /\ pc = "read" /\ faults + losses < MaxFaults
  /\ faults' = faults + 1
  /\ \E s \in Scans : Send(s)
  /\ inStep' = (inStep /\ need = -1 /\ first')
  /\ UNCHANGED <<server, callVars, pc, todo, running, result, age>>

-----------------------------------------------------------------------------
(***************************************************************************)
(* A frame, run().                                                         *)
(***************************************************************************)
\* The step from one place of run() to another, during which the server does step.
At(p, q, step) == pc = p /\ pc' = q /\ step /\ UNCHANGED
  <<srvVars, devVars, callVars, running, inStep, result, faults>>
Quietly == UNCHANGED <<shown, dirty, losses>>
\* Contacts whose data changed are no longer where the receiver shows them.
Displaced(S) == placed' = placed \ S /\ Quietly

FrameInit ==
  At("init", "blobs", InitFrame) /\ todo' = result.blobs /\ Displaced({}) /\ UNCHANGED age

\* The cases of the switch: add the contact under the device's id, or update it.
Blob1(c) ==
  IF Kind(c) \notin profiles THEN UNCHANGED mgrVars
  ELSE IF c \notin live
  THEN AddTuioCursor(c) \/ AddTuioObject(c) \/ AddTuioBlob(c)
  ELSE \/ UpdateTuioCursor(c) \/ UpdateTuioObject(c) \/ UpdateTuioBlob(c)
       \/ c \in touched \ Cursor /\ UNCHANGED mgrVars  \* it is up to date
FrameBlob ==
  /\ todo # <<>> /\ todo' = Tail(todo)
  /\ At("blobs", "blobs", Blob1(Head(todo)))
  /\ Displaced({Head(todo)})
  /\ age' = [c \in Object |-> IF c = Head(todo) THEN 0 ELSE age[c]]

FrameStopCursors ==
  /\ todo = <<>> /\ UNCHANGED todo
  /\ At("blobs", "cursors", StopUntouchedMovingCursors)
  /\ Displaced({c \in Contact : motion'[c] # motion[c]})
  /\ age' = [c \in Object |-> IF c \in Range(result.blobs) \/ c \notin live THEN 0 ELSE age[c] + 1]

\* One iteration of a loop that removes, or its end.
Loop(p, q, k) ==
  /\ UNCHANGED <<todo, age>>
  /\ Displaced({})
  /\ IF UntouchedStopped(k) = {} THEN At(p, q, UNCHANGED mgrVars)
     ELSE At(p, p, \E c \in UntouchedStopped(k) : RemoveTuio(c) /\ UNCHANGED loop)
FrameRemoveCursors == Loop("cursors", "objects", "cur")
FrameStopObjects ==
  /\ At("objects", "objects2", StopUntouchedMovingObjects)
  /\ Displaced({c \in Object : motion'[c] # motion[c]}) /\ UNCHANGED <<todo, age>>
FrameRemoveObjects == Loop("objects2", "commit", "obj")

FrameCommit ==
  At("commit", "call", CommitFrame) /\ losses' + faults <= MaxFaults /\ UNCHANGED <<todo, age>>

-----------------------------------------------------------------------------
(***************************************************************************)
(* The end: a signal, and the destructor of the server.                    *)
(***************************************************************************)
\* terminate(): run() looks at running before its next call only
Terminate ==
  /\ running /\ running' = FALSE /\ pc = "call"
  /\ UNCHANGED <<server, devVars, callVars, pc, todo, inStep, result, age, faults>>

DestroyStop ==
  /\ ~running
  /\ At("call", "destroy", /\ touched' = live \cap {c \in Object \cup Blob : IsMoving(motion[c])}
                           /\ motion' = [c \in Contact |-> IF c \in live /\ IsMoving(motion[c])
                                                           THEN Stopped(c) ELSE motion[c]]
                           /\ upd' = upd \cup {Kind(c) : c \in {d \in live : IsMoving(motion[d])}}
                           /\ UNCHANGED <<live, id, max, free, loop, leaked>>)
  /\ Displaced({}) /\ UNCHANGED <<todo, age>>
DestroyFrame == At("destroy", "remove", InitFrame) /\ Displaced({}) /\ UNCHANGED <<todo, age>>
DestroyRemoveCursors == Loop("remove", "remove2", "cur")
DestroyRemoveObjects == Loop("remove2", "empty", "obj")
DestroySend == At("empty", "done", UNCHANGED mgrVars) /\ SendEmpty /\ losses' + faults <= MaxFaults /\ UNCHANGED <<todo, age>>
Done == pc = "done" /\ UNCHANGED vars

Init0 ==
  /\ Init
  /\ profiles = {"obj", "cur"} /\ opts = {}
  /\ shown = {} /\ placed = {} /\ dirty = {} /\ losses = 0
  /\ scan = <<>> /\ rest = <<>> /\ first = TRUE
  /\ pc = "call" /\ need = -1 /\ got = <<>> /\ todo = <<>> /\ running = TRUE
  /\ inStep = FALSE /\ result = Nothing
  /\ age = [c \in Object |-> 0] /\ faults = 0

Daemon ==
  \/ Call \/ ReadPacket \/ ReadError
  \/ FrameInit \/ FrameBlob \/ FrameStopCursors \/ FrameRemoveCursors
  \/ FrameStopObjects \/ FrameRemoveObjects \/ FrameCommit
  \/ DestroyStop \/ DestroyFrame \/ DestroyRemoveCursors \/ DestroyRemoveObjects \/ DestroySend

TuioNext == Daemon \/ LosePacket \/ Terminate \/ Done

\* The daemon's thread runs; transfers come or time out.
TuioSpec == Init0 /\ [][TuioNext]_vars /\ WF_vars(Daemon)

-----------------------------------------------------------------------------
(***************************************************************************)
(* Properties.                                                             *)
(***************************************************************************)
\* After a frame, a receiver shows the contacts of each profile where they are, unless a
\* packet of the profile was lost since the last bundle that came whole; and one bundle
\* makes up for whatever was lost before it (commitFrame).
ReceiverInStep ==
  pc = "call" => \A k \in profiles \ dirty :
    shown \cap Of(k) = live \cap Of(k) /\ live \cap Of(k) \subseteq placed

\* Once the daemon has ended, a receiver to which nothing was lost shows nothing, although
\* contacts that were moving are not removed by the destructor (~TuioServer).
EndsEmpty == pc = "done" => \A c \in shown : Kind(c) \in dirty

\* After a frame, the cursors are the touches of the scan it was read from; a tag is gone
\* at most two frames after the device's last report of it (run, TuioObject::stop).
ContactsAgree ==
  pc = "call" =>
    /\ live \cap Cursor = Range(result.blobs) \cap Cursor
    /\ Range(result.blobs) \cap Object \subseteq live
    /\ \A c \in live \cap Object : age[c] <= 2

\* A call that begins between two scans, with no packet lost, returns one whole scan.
ScansWhole == [][pc = "read" /\ pc' # "read" /\ result'.whole /\ faults' = faults
                   => result'.blobs = result'.scan]_vars

\* After a signal the daemon ends.
Ends == ~running ~> pc = "done"
=============================================================================
