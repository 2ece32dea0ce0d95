---------------------------- MODULE CaptureQueue ----------------------------
(***************************************************************************)
(* What a capture driver promises to videobuf2 and the V4L2 application:   *)
(* while it streams it owns the buffers it was handed, gives them back in  *)
(* the order in which it got them, one at a time or all at once when it    *)
(* stops, and a start that fails leaves every buffer queued as before.  It *)
(* has nothing left, and touches nothing, once the queue is cancelled.     *)
(***************************************************************************)
EXTENDS Naturals, Sequences, Functions

CONSTANTS Buf, MinQueued

VARIABLES
  state,    \* of each buffer, as vb2 sees it
  pending,  \* buffers queued by the application, not yet with the driver
  fifo,     \* buffers that the driver owns
  running   \* start_streaming has been called and the queue is not cancelled

cqVars == <<state, pending, fifo, running>>

Init ==
  /\ state = [b \in Buf |-> "dequeued"]
  /\ pending = <<>> /\ fifo = <<>> /\ running = FALSE

Set(q, s) == state' = [b \in Buf |-> IF b \in Range(q) THEN s ELSE state[b]]

\* vb2 hands q, at least MinQueued buffers, to the driver and starts it.
Start(q) ==
  /\ ~running /\ Len(q) >= MinQueued
  /\ Set(q, "active")
  /\ pending' = <<>> /\ fifo' = q /\ running' = TRUE

Queue(b) ==
  /\ state[b] = "dequeued"
  /\ \/ /\ running
        /\ Set(<<b>>, "active") /\ fifo' = Append(fifo, b)
        /\ UNCHANGED <<pending, running>>
     \/ /\ ~running
        /\ Set(<<b>>, "queued") /\ pending' = Append(pending, b)
        /\ UNCHANGED <<fifo, running>>
     \/ Start(Append(pending, b))

Dequeue(b) ==
  /\ state[b] \in {"done", "error"}
  /\ Set(<<b>>, "dequeued")
  /\ UNCHANGED <<pending, fifo, running>>

\* All of fifo stays queued; or its last buffer, if VIDIOC_QBUF brought it
\* and reports the failure, is the application's again.
StartFails ==
  /\ running /\ running' = FALSE
  /\ fifo # <<>> /\ fifo' = <<>>
  /\ \/ Set(fifo, "queued") /\ pending' = fifo
     \/ LET last == fifo[Len(fifo)]
        IN  /\ state' = [b \in Buf |-> CASE b = last          -> "dequeued"
                                         [] b \in Range(fifo) \ {last} -> "queued"
                                         [] OTHER             -> state[b]]
            /\ pending' = SubSeq(fifo, 1, Len(fifo) - 1)

\* A frame is captured, or lost with an error, into the oldest buffer.
Deliver ==
  /\ running /\ fifo # <<>>
  /\ \E s \in {"done", "error"} : Set(<<Head(fifo)>>, s)
  /\ fifo' = Tail(fifo)
  /\ UNCHANGED <<pending, running>>

\* The driver stops and hands back what it has.
Flush ==
  /\ running /\ fifo # <<>>
  /\ Set(fifo, "error")
  /\ fifo' = <<>>
  /\ UNCHANGED <<pending, running>>

\* vb2 reclaims the buffers; the driver owns none of them any more.
Cancel ==
  /\ fifo = <<>>
  /\ state' = [b \in Buf |-> "dequeued"]
  /\ pending' = <<>> /\ running' = FALSE
  /\ UNCHANGED fifo

Next ==
  \/ Start(pending) \/ StartFails \/ Deliver \/ Flush \/ Cancel
  \/ \E b \in Buf : Queue(b) \/ Dequeue(b)

Spec == Init /\ [][Next]_cqVars
=============================================================================
