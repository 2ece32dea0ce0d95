----------------------- MODULE SocketMultiplexerWin32 -----------------------
(***************************************************************************)
(* SocketReceiveMultiplexer on Windows (oscpack/ip/win32/UdpSocket.cpp)    *)
(* beside the one of SocketMultiplexer, with which it shares the listeners *)
(* and the order in which they are served.  It waits for events instead of *)
(* select(): one event for each socket and one for breaks (bytes is 1 when *)
(* it is set).  A wait that succeeds resets the event it returns, the      *)
(* first in order; an event is set when a datagram arrives, but not again  *)
(* before the socket is read.                                              *)
(***************************************************************************)
EXTENDS SocketMultiplexer

VARIABLES
  port,   \* which of the two it is
  event,  \* sockets whose event is set
  posted  \* sockets whose event was set since they were read last

portVars == <<port, event, posted>>
allVars == <<vars, portVars>>
NoEvent == UNCHANGED portVars

\* What the last run left of its events is of no use to this one.
WinStart == /\ Start /\ UNCHANGED port
            /\ event' = Readable /\ posted' = Readable

\* Mutant of ReadFrom: the loop starts behind the socket whose event it was.
ReadBehind(from) == {sockets[i] : i \in from + 1 .. Len(sockets)}
ReadFrom(from) == {sockets[i] : i \in from .. Len(sockets)}
\* WaitForMultipleObjects; sockets from the one of the event on are read.
Wait ==
  /\ pc = "select" /\ pc' = "selected"
  /\ LET from == FirstOf(event) IN
     \/ /\ event # {}
        /\ event' = event \ {sockets[from]}
        /\ tempfds' = ReadFrom(from)
        /\ UNCHANGED bytes
     \/ /\ event = {} /\ (bytes > 0 \/ TimedOut)
        /\ tempfds' = {} /\ bytes' = 0
        /\ UNCHANGED event
  /\ UNCHANGED <<due, expired, listenerVars, break, caller, inbox, until, sigVars, port, posted>>

\* ReceiveFrom of a socket that has nothing returns 0; what is left sets the event again.
WinServeSocket ==
  /\ pc = "sockets" /\ tempfds # {}
  /\ LET s == sockets[FirstOf(tempfds)]
         rest == IF inbox[s] = <<>> THEN <<>> ELSE Tail(inbox[s])
         next == tempfds' = tempfds \ {s} /\ UNCHANGED <<pc, due, expired>>
     IN /\ inbox' = [inbox EXCEPT ![s] = rest]
        /\ event' = event \cup {r \in {s} : rest # <<>>}
        /\ posted' = (posted \ {s}) \cup {r \in {s} : rest # <<>>}
        /\ IF inbox[s] = <<>> \/ inbox[s] = <<"empty">> \o rest THEN next /\ UNCHANGED <<break, sigVars>>
           ELSE Listener(next, ToTimers)
  /\ UNCHANGED <<listenerVars, bytes, caller, until, port>>

WinRun == \/ WinStart \/ Wait \/ WinServeSocket
          \/ (Top \/ Selected \/ SocketsServed \/ ServeTimer \/ TimersServed) /\ NoEvent

\* A break, from a thread or from the handler of SIGINT, which is a thread of its own here.
BreakSet == /\ caller = "none" /\ caller' = "half" /\ SetBreak
            /\ UNCHANGED handler \/ (handler /\ handler' = FALSE)
SetEvent == /\ caller = "half" /\ caller' = "none"
            /\ bytes' = 1 /\ UNCHANGED <<break, handler>>
WinBreak == /\ BreakSet \/ SetEvent
            /\ UNCHANGED <<loopVars, listenerVars, inbox, until, armed, portVars>>

WinArrive ==
  /\ Arrive /\ UNCHANGED port
  /\ LET new == {s \in ToSet(sockets) \ posted : Running /\ inbox'[s] # inbox[s]} IN
     event' = event \cup new /\ posted' = posted \cup new

PortInit == Init /\ port \in {"posix", "win32"} /\ event = {} /\ posted = {}
PortNext ==
  \/ port = "posix" /\ Next /\ NoEvent
  \/ /\ port = "win32"
     /\ \/ WinRun \/ WinBreak \/ WinArrive
        \/ (Configure \/ CallRun \/ RunUntilSigInt \/ Tick) /\ NoEvent

PortFairness ==
  /\ WF_allVars((port = "posix" /\ Run /\ NoEvent) \/ (port = "win32" /\ WinRun))
  /\ WF_allVars(caller = "half" /\ ((port = "posix" /\ Break /\ NoEvent) \/ (port = "win32" /\ WinBreak)))
PortSpec == PortInit /\ [][PortNext]_allVars /\ PortFairness

-----------------------------------------------------------------------------
\* An event is reset by the wait that returns it, and not set again before its socket is
\* read; still a datagram that has come is never overlooked: its socket's event is set, or
\* the socket is one of those this pass reads, unless a break ends the loop.
NoneOverlooked ==
  port = "win32" /\ Running /\ ~break =>
    \A s \in ToSet(sockets) : inbox[s] # <<>> => s \in event \cup tempfds
=============================================================================
