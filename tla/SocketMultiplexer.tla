-------------------------- MODULE SocketMultiplexer --------------------------
(***************************************************************************)
(* SocketReceiveMultiplexer (oscpack/ip/posix/UdpSocket.cpp): one thread   *)
(* runs the loop around select(), listeners break it from within, other    *)
(* threads and the handler of SIGINT from outside.                         *)
(*                                                                         *)
(* Times are relative: due[t] is how long until timer t expires, so that   *)
(* time passes without end; MaxLate bounds how late the loop's thread is.  *)
(* The queue of timers is sorted after each pass that called one, in any   *)
(* order among equal times: a pass takes the expired ones by time.         *)
(***************************************************************************)
EXTENDS Integers, Sequences, SequencesExt

CONSTANTS
  Socket, Timer,  \* listeners that may be attached
  Delay, Period,  \* of each timer: initial delay and period
  MaxInbox,       \* bound: datagrams that wait at a socket
  MaxLate,        \* bound: how late a timer is served
  MaxBytes        \* bound: unread bytes in the break pipe

ASSUME MultiplexerAssumption ==
  /\ Delay \in [Timer -> Nat] /\ Period \in [Timer -> Nat \ {0}]
  /\ MaxInbox \in Nat /\ MaxLate \in Nat /\ MaxBytes \in Nat \ {0}

VARIABLES
  pc,       \* of the loop's thread
  sockets,  \* socketListeners_, in the order they are called
  timers,   \* timerListeners_
  break, bytes,  \* break_ and what the pipe holds
  tempfds,  \* sockets that were ready and are not yet served; "pipe" among them
  due,      \* the timer queue of Run
  expired,  \* its part to be served in this pass
  inbox,    \* datagrams, as their sizes: empty or not
  until,    \* Run was called by RunUntilSigInt
  armed,    \* multiplexerInstanceToAbortWithSigInt_ is set
  handler,  \* InterruptSignalHandler is installed
  caller    \* of the thread in AsynchronousBreak

loopVars == <<pc, tempfds, due, expired>>
listenerVars == <<sockets, timers>>
breakVars == <<break, bytes, caller>>
sigVars == <<armed, handler>>
vars == <<loopVars, listenerVars, breakVars, inbox, until, sigVars>>

Init ==
  /\ pc = "idle" /\ sockets = <<>> /\ timers = {}
  /\ break \in BOOLEAN /\ bytes = 0  \* the constructor leaves break_ alone
  /\ tempfds = {} /\ due = <<>> /\ expired = {}
  /\ inbox = [s \in Socket |-> <<>>] /\ caller = "none"
  /\ until = FALSE /\ armed = FALSE /\ handler = FALSE

-----------------------------------------------------------------------------
(***************************************************************************)
(* Listeners, attached and detached while the loop is not running.         *)
(***************************************************************************)
AttachSocketListener(s) == ~Contains(sockets, s) /\ sockets' = Append(sockets, s) /\ UNCHANGED timers
DetachSocketListener(s) == /\ \E i \in DOMAIN sockets : sockets[i] = s /\ sockets' = RemoveAt(sockets, i)
                           /\ UNCHANGED timers
AttachPeriodicTimerListener(t) == t \notin timers /\ timers' = timers \cup {t} /\ UNCHANGED sockets
DetachPeriodicTimerListener(t) == t \in timers /\ timers' = timers \ {t} /\ UNCHANGED sockets

Configure ==
  /\ pc = "idle"
  /\ \/ \E s \in Socket : AttachSocketListener(s) \/ DetachSocketListener(s)
     \/ \E t \in Timer : AttachPeriodicTimerListener(t) \/ DetachPeriodicTimerListener(t)
  /\ UNCHANGED <<loopVars, breakVars, inbox, until, sigVars>>

-----------------------------------------------------------------------------
(***************************************************************************)
(* The loop.                                                               *)
(***************************************************************************)
\* Run is called, by itself or by RunUntilSigInt, which first installs the handler.
RunCalled == pc = "idle" /\ pc' = "start"
             /\ UNCHANGED <<tempfds, due, expired, listenerVars, breakVars, inbox>>
CallRun == RunCalled /\ until' = FALSE /\ UNCHANGED sigVars
RunUntilSigInt == /\ RunCalled /\ ~armed
                  /\ until' = TRUE /\ armed' = TRUE /\ handler' = TRUE

Start ==
  /\ pc = "start" /\ pc' = "top"
  /\ break' = FALSE
  /\ due' = [t \in timers |-> Delay[t]]
  /\ UNCHANGED <<tempfds, expired, listenerVars, bytes, caller, inbox, until, sigVars>>

\* Run is over; RunUntilSigInt takes the handler away, but not if an exception ends it.
Over == pc' = "idle" /\ tempfds' = {} /\ due' = <<>> /\ expired' = {}
Returns == Over /\ armed' = (armed /\ ~until) /\ handler' = (handler /\ ~until)
Throws == Over /\ UNCHANGED sigVars

Top == /\ pc = "top"
       /\ \/ break /\ Returns
          \/ ~break /\ pc' = "select" /\ UNCHANGED <<tempfds, due, expired, sigVars>>
       /\ UNCHANGED <<listenerVars, breakVars, inbox, until>>

Readable == {s \in ToSet(sockets) : inbox[s] # <<>>}
\* The place of the first of some sockets in the order of the listeners.
FirstOf(set) == CHOOSE i \in DOMAIN sockets :
  sockets[i] \in set /\ \A j \in 1 .. i - 1 : sockets[j] \notin set
TimedOut == \E t \in DOMAIN due : due[t] <= 0
\* select returns; the byte of a break is taken from the pipe.
Select ==
  /\ pc = "select"
  /\ bytes > 0 \/ Readable # {} \/ TimedOut
  /\ pc' = "selected" /\ tempfds' = Readable
  /\ bytes' = IF bytes > 0 THEN bytes - 1 ELSE bytes
  /\ UNCHANGED <<due, expired, listenerVars, break, caller, inbox, until, sigVars>>
\* It fails: a signal interrupts it, and the loop goes on; but a break counts first.
Interrupted ==
  /\ pc = "select"
  /\ \/ break /\ Returns
     \/ ~break /\ pc' = "top" /\ UNCHANGED <<tempfds, due, expired, sigVars>>
  /\ UNCHANGED <<listenerVars, breakVars, inbox, until>>
\* Any other failure is thrown.
SelectFails == /\ pc = "select" /\ ~break /\ Throws
               /\ UNCHANGED <<listenerVars, breakVars, inbox, until>>
Selected ==
  /\ pc = "selected"
  /\ \/ break /\ Returns
     \/ ~break /\ pc' = "sockets" /\ UNCHANGED <<tempfds, due, expired, sigVars>>
  /\ UNCHANGED <<listenerVars, breakVars, inbox, until>>

\* What a listener does: it returns, calls Break, or throws (a packet that is no OSC).
\* After a Break the rest of the sequence that called it is left out.
Listener(next, stop) ==
  \/ UNCHANGED <<break, sigVars>> /\ IF break THEN stop ELSE next
  \/ break' = TRUE /\ UNCHANGED sigVars /\ stop
  \/ UNCHANGED break /\ Throws

ToTimers == pc' = "timers" /\ tempfds' = {} /\ UNCHANGED due
            /\ expired' = {t \in DOMAIN due : due[t] <= 0}
\* ReceiveFrom: an empty datagram is taken and nobody called.
ServeSocket ==
  /\ pc = "sockets" /\ tempfds # {}
  /\ LET s == sockets[FirstOf(tempfds)]
         next == tempfds' = tempfds \ {s} /\ UNCHANGED <<pc, due, expired>>
     IN /\ inbox' = [inbox EXCEPT ![s] = Tail(@)]
        /\ IF Head(inbox[s]) = "empty" THEN next /\ UNCHANGED <<break, sigVars>>
           ELSE Listener(next, ToTimers)
  /\ UNCHANGED <<listenerVars, bytes, caller, until>>
SocketsServed ==
  /\ pc = "sockets" /\ tempfds = {} /\ ToTimers
  /\ UNCHANGED <<listenerVars, breakVars, inbox, until, sigVars>>

\* The time of the pass is taken once; a timer served late keeps its pace.
ServeTimer ==
  /\ pc = "timers"
  /\ \E t \in expired :
       /\ \A u \in expired : due[t] <= due[u]
       /\ Listener(/\ due' = [due EXCEPT ![t] = @ + Period[t]]
                   /\ expired' = expired \ {t} /\ UNCHANGED <<pc, tempfds>>,
                   pc' = "top" /\ expired' = {} /\ UNCHANGED <<tempfds, due>>)
  /\ UNCHANGED <<listenerVars, bytes, caller, inbox, until>>
TimersServed ==
  /\ pc = "timers" /\ expired = {} /\ pc' = "top"
  /\ UNCHANGED <<tempfds, due, expired, listenerVars, breakVars, inbox, until, sigVars>>

Run == \/ Start \/ Top \/ Select \/ Selected \/ ServeSocket \/ SocketsServed
       \/ ServeTimer \/ TimersServed

-----------------------------------------------------------------------------
(***************************************************************************)
(* Breaks from outside.                                                    *)
(***************************************************************************)
SetBreak == break' = TRUE /\ UNCHANGED bytes
WriteByte == bytes' = bytes + 1 /\ UNCHANGED break
\* Mutant of AsynchronousBreak: the loop is woken before it is told why.
AsynchronousBreakWriteFirst ==
  \/ caller = "none" /\ bytes < MaxBytes /\ caller' = "half" /\ WriteByte
  \/ caller = "half" /\ caller' = "none" /\ SetBreak
\* On a thread of its own, in two steps: the flag, then the byte.
AsynchronousBreak ==
  \/ caller = "none" /\ bytes < MaxBytes /\ caller' = "half" /\ SetBreak
  \/ caller = "half" /\ caller' = "none" /\ WriteByte
Break == AsynchronousBreak /\ UNCHANGED <<loopVars, listenerVars, inbox, until, sigVars>>

\* SIGINT, on the loop's thread: once, then the next one would end the program.
InterruptSignalHandler ==
  /\ handler /\ handler' = FALSE
  /\ bytes < MaxBytes /\ bytes' = bytes + 1 /\ break' = TRUE
  /\ UNCHANGED <<loopVars, listenerVars, caller, inbox, until, armed>>

\* A datagram arrives at an open socket.
Arrive == /\ \E s \in Socket, d \in {"empty", "full"} :
               Len(inbox[s]) < MaxInbox /\ inbox' = [inbox EXCEPT ![s] = Append(@, d)]
          /\ UNCHANGED <<loopVars, listenerVars, breakVars, until, sigVars>>
Tick == /\ \A t \in DOMAIN due : due[t] > -MaxLate
        /\ due # <<>> /\ due' = [t \in DOMAIN due |-> due[t] - 1]
        /\ UNCHANGED <<pc, tempfds, expired, listenerVars, breakVars, inbox, until, sigVars>>

Next == \/ Configure \/ CallRun \/ RunUntilSigInt \/ Run \/ Interrupted \/ SelectFails
        \/ Break \/ InterruptSignalHandler \/ Arrive \/ Tick

\* Threads that can run do; nothing is assumed of datagrams, signals and time.
Fairness == WF_vars(Run) /\ WF_vars(caller = "half" /\ Break)
Spec == Init /\ [][Next]_vars /\ Fairness

-----------------------------------------------------------------------------
Running == pc \notin {"idle", "start"}
\* A break that reaches a loop that runs ends it, wherever the loop is: also between its look
\* at the flag and select, with no timer and no datagram to wake it, beside bytes of earlier
\* breaks that an earlier run did not read.
BreakReturns == (Running /\ break) ~> ~Running
\* The loop never sleeps over a break: when it waits and the flag is set, the byte or event
\* that wakes it is there or is about to be, whichever thread set the flag and whatever an
\* earlier run left in the pipe.
NoLostWakeup == pc = "select" /\ break => bytes > 0 \/ caller = "half"
=============================================================================
