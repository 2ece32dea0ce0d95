----------------------------- MODULE TuioManager -----------------------------
(***************************************************************************)
(* The contacts of a TUIO source (tuio/TUIO/TuioManager.cpp), their motion *)
(* states (TuioContainer.cpp, TuioObject.cpp, TuioBlob.cpp) and the        *)
(* identifiers of cursors and blobs.                                       *)
(*                                                                         *)
(* A contact stands for a container and its session id.  The manager is    *)
(* used by one thread; a call is one action, except removeUntouchedStopped *)
(* and the resets, whose loops remove one contact in each step.            *)
(***************************************************************************)
EXTENDS Integers, FiniteSets, FiniteSetsExt

CONSTANTS
  Object, Cursor, Blob,  \* the contacts of each kind, session ids
  Ext,                   \* those the application allocates itself
  MaxId                  \* bound: identifiers, which external removals leak

ASSUME KindAssumption ==
  /\ Object \cap Cursor = {} /\ Object \cap Blob = {} /\ Cursor \cap Blob = {}
  /\ IsFiniteSet(Object \cup Cursor \cup Blob)
  /\ MaxId \in Nat

Contact == Object \cup Cursor \cup Blob
Numbers == Cursor \cup Blob
Kinds == {"obj", "cur", "blb"}
Numbered == {"cur", "blb"}            \* the kinds whose contacts get an identifier
Of(k) == CASE k = "obj" -> Object [] k = "cur" -> Cursor [] k = "blb" -> Blob
Kind(c) == CHOOSE k \in Kinds : c \in Of(k)

VARIABLES
  live,    \* objectList, cursorList and blobList
  motion,  \* speeds, accelerations and state of each container
  touched, \* containers with getTuioTime() == currentFrameTime
  id,      \* cursor_id or blob_id
  max,     \* maxCursorID, maxBlobID
  free,    \* freeCursorList, freeBlobList
  upd,     \* updateObject, updateCursor, updateBlob: the kinds that are set
  loop,    \* contacts that the loop in progress may remove, or none
  leaked   \* history: kinds of which an identifier was lost to an external removal

listVars == <<live, motion, touched, id, max, free, upd, loop>>
mgrVars == <<listVars, leaked>>

-----------------------------------------------------------------------------
(***************************************************************************)
(* A container.  Only signs matter: whether it moves and turns, whether    *)
(* its speed grows or falls, whether its rotation changes.  Some           *)
(* milliseconds pass between two updates of a container.                   *)
(***************************************************************************)
States == {"ADDED", "ACCELERATING", "DECELERATING", "ROTATING", "STOPPED", "IDLE"}
Motion == [speed : BOOLEAN, rspeed : BOOLEAN, state : States]

\* The TuioContainer constructor.
New == [speed |-> FALSE, rspeed |-> FALSE, state |-> "ADDED"]

\* The sign that motion_accel has after moving on (m) or not, from the last speed.
Accels(was, m) == IF was THEN (IF m THEN -1 .. 1 ELSE {-1}) ELSE (IF m THEN {1} ELSE {0})

\* TuioContainer::update(ttime, x, y): the container moves on (m) or not.
Moved(r, m) ==
  {[r EXCEPT !.speed = m, !.state =
      CASE a > 0 -> "ACCELERATING" [] a < 0 -> "DECELERATING" [] a = 0 -> "STOPPED"] :
   a \in Accels(r.speed, m)}

\* TuioObject::update(ttime, x, y, a), TuioBlob::update: it also turns (t) or not.
Turned(r, m, t) ==
  {[q EXCEPT !.rspeed = t, !.state = IF ra /\ q.state = "STOPPED" THEN "ROTATING" ELSE @] :
     q \in Moved(r, m), ra \in IF r.rspeed /\ t THEN BOOLEAN ELSE {r.rspeed # t}}

\* What an update makes of c.  Only the sign of its next acceleration depends on a
\* cursor's speed: it is left out, and any sign may follow.
Updated(c) ==
  IF c \in Cursor
  THEN {[New EXCEPT !.state = s] : s \in {"ACCELERATING", "DECELERATING", "STOPPED"}}
  ELSE UNION {Turned(motion[c], m, t) : m \in BOOLEAN, t \in BOOLEAN}

\* isMoving
IsMoving(r) == r.state \in {"ACCELERATING", "DECELERATING", "ROTATING"}

\* stop(currentFrameTime) of a container that moves: a cursor becomes IDLE and keeps
\* its time; an object or a blob is updated where it is, a move of its own.
Stopped(c) ==
  IF c \in Cursor THEN [motion[c] EXCEPT !.state = "IDLE"]
  ELSE CHOOSE r \in Turned(motion[c], FALSE, FALSE) : TRUE

-----------------------------------------------------------------------------
(***************************************************************************)
(* Identifiers.                                                            *)
(***************************************************************************)
Ids(k) == {id[c] : c \in live \cap Of(k)}
MaxOf(S) == IF S = {} THEN -1 ELSE Max(S)

\* Mutant of NewIds: a new identifier without a look at the free ones.
NewIdsBySize(k) == {Cardinality(live \cap Of(k))}

\* The choice of an identifier: the free one whose last place is the closest, or else
\* the next one.
NewIds(k) ==
  LET n == Cardinality(live \cap Of(k)) IN
  IF n > max[k] THEN {n} ELSE IF free[k] # {} THEN free[k] ELSE {max[k] + 1}

TakeId(k, c) ==
  \E i \in NewIds(k) :
    /\ i <= MaxId
    /\ id' = [id EXCEPT ![c] = i]
    /\ max' = [max EXCEPT ![k] = IF @ < i THEN i ELSE @]
    /\ free' = [free EXCEPT ![k] = @ \ {i}]

\* The end of removeTuioCursor and removeTuioBlob.  The maximum is computed anew, and
\* free identifiers above it are dropped.
DropId(k, c) ==
  LET m == MaxOf({id[d] : d \in (live \cap Of(k)) \ {c}}) IN
  IF id[c] = max[k]
  THEN /\ max' = [max EXCEPT ![k] = m]
       /\ free' = [free EXCEPT ![k] = {i \in @ : i <= m}]
  ELSE /\ free' = [free EXCEPT ![k] = IF id[c] < max[k] THEN @ \cup {id[c]} ELSE @]
       /\ UNCHANGED max

-----------------------------------------------------------------------------
(***************************************************************************)
(* Adding, updating and removing.                                          *)
(***************************************************************************)
Init ==
  /\ live = {} /\ motion = [c \in Contact |-> New] /\ touched = {}
  /\ id = [c \in Numbers |-> -1]
  /\ max = [k \in Numbered |-> -1] /\ free = [k \in Numbered |-> {}]
  /\ upd = {} /\ loop = {} /\ leaked = {}

Add(k, c) ==
  /\ loop = {} /\ c \in Of(k) \ live
  /\ live' = live \cup {c}
  /\ upd' = upd \cup {k}
  /\ motion' = [motion EXCEPT ![c] = New]
  /\ UNCHANGED <<loop, leaked>>

AddTuioObject(c) ==
  Add("obj", c) /\ c \notin Ext /\ touched' = touched \cup {c} /\ UNCHANGED <<id, max, free>>
AddTuioCursor(c) == Add("cur", c) /\ c \notin Ext /\ touched' = touched \cup {c} /\ TakeId("cur", c)
AddTuioBlob(c) == Add("blb", c) /\ c \notin Ext /\ touched' = touched \cup {c} /\ TakeId("blb", c)

\* The application allocates an external container, with a time of its own.
ExtTime(c) == touched' \in {touched \ {c}, touched \cup {c}}
AddExternalTuioObject(c) == Add("obj", c) /\ c \in Ext /\ ExtTime(c) /\ UNCHANGED <<id, max, free>>
AddExternalTuioCursor(c) == Add("cur", c) /\ c \in Ext /\ ExtTime(c) /\ TakeId("cur", c)
AddExternalTuioBlob(c) == Add("blb", c) /\ c \in Ext /\ ExtTime(c) /\ TakeId("blb", c)

Update(k, c) ==
  /\ loop = {} /\ c \in live \cap Of(k)
  /\ \E r \in Updated(c) : motion' = [motion EXCEPT ![c] = r]
  /\ upd' = upd \cup {k}
  /\ UNCHANGED <<live, id, max, free, loop, leaked>>

UpdateTuioObject(c) == c \notin touched /\ Update("obj", c) /\ touched' = touched \cup {c}
UpdateTuioCursor(c) == Update("cur", c) /\ touched' = touched \cup {c}
UpdateTuioBlob(c) == c \notin touched /\ Update("blb", c) /\ touched' = touched \cup {c}

\* The application has updated the container itself.
UpdateExternalTuioObject(c) == c \in Ext /\ Update("obj", c) /\ ExtTime(c)
UpdateExternalTuioCursor(c) == c \in Ext /\ Update("cur", c) /\ ExtTime(c)
UpdateExternalTuioBlob(c) == c \in Ext /\ Update("blb", c) /\ ExtTime(c)

Remove(k, c) ==
  /\ c \in live \cap Of(k)
  /\ live' = live \ {c}
  /\ upd' = upd \cup {k}
  /\ touched' = touched \ {c}
  \* the container is deleted, or kept with its identifier in the free list only
  /\ motion' = [motion EXCEPT ![c] = New]
  /\ id' = [d \in Numbers |-> IF d = c THEN -1 ELSE id[d]]

\* An identifier that external removals lost is back once the kind's maximum is below it.
Forget(k) == leaked' = IF max'[k] = -1 THEN leaked \ {k} ELSE leaked

RemoveTuioObject(c) == Remove("obj", c) /\ UNCHANGED <<max, free, leaked>>
RemoveTuioCursor(c) == Remove("cur", c) /\ DropId("cur", c) /\ Forget("cur")
RemoveTuioBlob(c) == Remove("blb", c) /\ DropId("blb", c) /\ Forget("blb")

RemoveTuio(c) == RemoveTuioObject(c) \/ RemoveTuioCursor(c) \/ RemoveTuioBlob(c)

RemoveExternal(k, c) == loop = {} /\ c \in Ext /\ Remove(k, c) /\ UNCHANGED <<max, free, loop>>
RemoveExternalTuioObject(c) == RemoveExternal("obj", c) /\ UNCHANGED leaked
RemoveExternalTuioCursor(c) == RemoveExternal("cur", c) /\ leaked' = leaked \cup {"cur"}
RemoveExternalTuioBlob(c) == RemoveExternal("blb", c) /\ leaked' = leaked \cup {"blb"}

-----------------------------------------------------------------------------
(***************************************************************************)
(* Frames.                                                                 *)
(***************************************************************************)
\* initFrame: no container has the new time
InitFrame ==
  loop = {} /\ touched' = {} /\ UNCHANGED <<live, motion, id, max, free, upd, loop, leaked>>

\* Mutant of StopUntouched: stopping a cursor gives it the time of the frame.
StopUntouchedTouches(ks) ==
  LET S == {c \in live \ touched : Kind(c) \in ks /\ IsMoving(motion[c])} IN
  /\ loop = {}
  /\ motion' = [c \in Contact |-> IF c \in S THEN Stopped(c) ELSE motion[c]]
  /\ touched' = touched \cup S
  /\ upd' = upd \cup {Kind(c) : c \in S}
  /\ UNCHANGED <<live, id, max, free, loop, leaked>>

\* stopUntouchedMoving{Objects,Cursors,Blobs} for the kinds ks
StopUntouched(ks) ==
  LET S == {c \in live \ touched : Kind(c) \in ks /\ IsMoving(motion[c])} IN
  /\ loop = {}
  /\ motion' = [c \in Contact |-> IF c \in S THEN Stopped(c) ELSE motion[c]]
  /\ touched' = touched \cup (S \ Cursor)
  /\ upd' = upd \cup {Kind(c) : c \in S}
  /\ UNCHANGED <<live, id, max, free, loop, leaked>>
StopUntouchedMovingObjects == StopUntouched({"obj"})
StopUntouchedMovingCursors == StopUntouched({"cur"})
StopUntouchedMovingBlobs == StopUntouched({"blb"})

\* removeUntouchedStopped{Objects,Cursors,Blobs}: what the loop will remove
UntouchedStopped(k) == {c \in (live \ touched) \cap Of(k) : ~IsMoving(motion[c])}
StartLoop(S) ==
  /\ loop = {} /\ S # {} /\ loop' = S
  /\ UNCHANGED <<live, motion, touched, id, max, free, upd, leaked>>
RemoveUntouchedStoppedObjects == StartLoop(UntouchedStopped("obj"))
RemoveUntouchedStoppedCursors == StartLoop(UntouchedStopped("cur"))
RemoveUntouchedStoppedBlobs == StartLoop(UntouchedStopped("blb"))

\* resetTuio{Objects,Cursors,Blobs}
ResetTuioObjects == StartLoop(live \cap Object)
ResetTuioCursors == StartLoop(live \cap Cursor)
ResetTuioBlobs == StartLoop(live \cap Blob)

LoopStep == \E c \in loop : loop' = loop \ {c} /\ RemoveTuio(c)

Next ==
  \/ InitFrame
  \/ \E c \in Contact :
       \/ AddTuioObject(c) \/ AddTuioCursor(c) \/ AddTuioBlob(c)
       \/ AddExternalTuioObject(c) \/ AddExternalTuioCursor(c) \/ AddExternalTuioBlob(c)
       \/ UpdateTuioObject(c) \/ UpdateTuioCursor(c) \/ UpdateTuioBlob(c)
       \/ UpdateExternalTuioObject(c) \/ UpdateExternalTuioCursor(c) \/ UpdateExternalTuioBlob(c)
       \/ loop = {} /\ RemoveTuio(c) /\ UNCHANGED loop
       \/ RemoveExternalTuioObject(c) \/ RemoveExternalTuioCursor(c) \/ RemoveExternalTuioBlob(c)
  \/ StopUntouchedMovingObjects \/ StopUntouchedMovingCursors \/ StopUntouchedMovingBlobs
  \/ RemoveUntouchedStoppedObjects \/ RemoveUntouchedStoppedCursors \/ RemoveUntouchedStoppedBlobs
  \/ ResetTuioObjects \/ ResetTuioCursors \/ ResetTuioBlobs
  \/ LoopStep

Spec == Init /\ [][Next]_mgrVars

-----------------------------------------------------------------------------
(***************************************************************************)
(* Properties.                                                             *)
(***************************************************************************)
\* No two live cursors (blobs) have the same identifier, and a free one is nobody's:
\* whatever sequence of calls adds and removes them, external ones included.
IdsUnique ==
  \A k \in Numbered :
    /\ \A c, d \in live \cap Of(k) : id[c] = id[d] => c = d
    /\ free[k] \cap Ids(k) = {}
    /\ free[k] \cup Ids(k) \subseteq 0 .. max[k]

\* While no external removal lost one, no identifier below the maximum is lost and the
\* maximum is in use: identifiers stay as small as the table was ever full.
IdsPartition ==
  \A k \in Numbered \ leaked :
    /\ free[k] \cup Ids(k) = 0 .. max[k]
    /\ max[k] >= 0 => max[k] \in Ids(k)

\* Both, the hazards of the same few lines (addTuioCursor, removeTuioCursor).
Identifiers == IdsUnique /\ IdsPartition
=============================================================================
