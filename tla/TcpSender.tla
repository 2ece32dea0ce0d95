------------------------------ MODULE TcpSender ------------------------------
(***************************************************************************)
(* TUIO over TCP and WebSocket (tuio/TUIO/TcpSender.cpp and                *)
(* WebSockSender.cpp): the thread that sends the packets and destroys the  *)
(* sender, the thread that accepts clients, and a thread for each client   *)
(* that waits for the end of its connection.  They share the list of the   *)
(* clients' sockets under a mutex, and tcp_socket and connected partly     *)
(* without it.                                                             *)
(*                                                                         *)
(* A socket is a small number that is used again after close().  What      *)
(* other threads do under the mutex is one step; sendOscPacket holds it    *)
(* over several.                                                           *)
(***************************************************************************)
EXTENDS Integers, Sequences, FiniteSets, SequencesExt

CONSTANTS
  Peer,        \* the remote ends, each connects once at most
  Fd,          \* descriptors besides 0
  Pieces,      \* a packet is this many bytes, send() takes some of them
  MaxPackets,  \* bound
  NoPeer, Listener  \* an unused descriptor, and the listening socket

ASSUME TcpAssumption ==
  /\ IsFiniteSet(Peer)
  /\ Fd = 1 .. Cardinality(Peer) + 1 /\ Pieces \in Nat \ {0} /\ MaxPackets \in Nat
  /\ {NoPeer, Listener} \cap Peer = {} /\ NoPeer # Listener

VARIABLES
  kind,       \* "connect", "listen" or "websocket"
  peer,       \* "away", "backlog", "open" or "closed", as the remote end sees it
  shut,       \* connections this side has shut down; Listener for the listening socket
  fd,         \* what a descriptor denotes
  list,       \* tcp_client_list
  sock,       \* tcp_socket
  connected,
  server,     \* ServerThreadFunc: where it is, its socket and its client
  client,     \* ClientThreadFunc of each peer: where it is, its socket
  main,       \* the thread that owns the sender: where it is, the client and the bytes sent
  sent,       \* packets so far
  got         \* history: what was sent to each peer, <<packet, byte>>

shared == <<list, sock, connected>>
net == <<peer, shut, fd>>
vars == <<kind, net, shared, server, client, main, sent, got>>

Locked == main.pc = "sending"
InList(f) == \E i \in DOMAIN list : list[i] = f
Free == {f \in Fd : fd[f] = NoPeer}
LowestFree == CHOOSE f \in Free : \A g \in Free : f <= g

-----------------------------------------------------------------------------
(***************************************************************************)
(* Constructors.  One that throws leaves no sender; the default one goes   *)
(* on without a connection.                                                *)
(***************************************************************************)
NoThread == [p \in Peer |-> [pc |-> "none", fd |-> 0]]
Started(pc) == main = [pc |-> pc, at |-> 0, sent |-> 0] /\ sent = 0 /\ got = [p \in Peer |-> <<>>]
Idle(pc) == server = [pc |-> pc, fd |-> 0, peer |-> NoPeer]
Nobody == [p \in Peer |-> "away"]

\* A connection to a receiver, or none.
ConnectInit ==
  /\ kind = "connect" /\ Started("idle") /\ Idle("done") /\ shut = {}
  /\ \/ \E p \in Peer :
          /\ peer = [Nobody EXCEPT ![p] = "open"]
          /\ fd = [f \in Fd |-> IF f = 1 THEN p ELSE NoPeer]
          /\ list = <<1>> /\ sock = 1 /\ connected = TRUE
          /\ client = [NoThread EXCEPT ![p] = [pc |-> "recv", fd |-> 1]]
     \/ /\ peer = Nobody /\ fd = [f \in Fd |-> NoPeer]
        /\ list = <<>> /\ sock = 0 /\ connected = FALSE /\ client = NoThread

\* A server; the thread runs while a WebSockSender is still a TcpSender.
ListenInit ==
  /\ \/ kind = "listen" /\ Started("idle")
     \/ kind = "websocket" /\ Started("construct")
  /\ Idle("loop") /\ shut = {} /\ peer = Nobody
  /\ fd = [f \in Fd |-> IF f = 1 THEN Listener ELSE NoPeer]
  /\ list = <<>> /\ sock = 1 /\ connected = FALSE /\ client = NoThread

Constructed == /\ main.pc = "construct" /\ main' = [main EXCEPT !.pc = "idle"]
               /\ UNCHANGED <<kind, net, shared, server, client, sent, got>>

-----------------------------------------------------------------------------
(***************************************************************************)
(* The remote ends.                                                        *)
(***************************************************************************)
Connect(p) == /\ kind # "connect" /\ peer[p] = "away"
              /\ Listener \notin shut
              /\ peer' = [peer EXCEPT ![p] = "backlog"]
              /\ UNCHANGED <<kind, shut, fd, shared, server, client, main, sent, got>>

PeerClose(p) == /\ peer[p] \in {"backlog", "open"}
                /\ peer' = [peer EXCEPT ![p] = "closed"]
                /\ UNCHANGED <<kind, shut, fd, shared, server, client, main, sent, got>>

\* recv() on the connection does not wait any more.
Ended(p) == peer[p] = "closed" \/ p \in shut

-----------------------------------------------------------------------------
(***************************************************************************)
(* ServerThreadFunc.                                                       *)
(***************************************************************************)
ServerTo(pc) == server' = [server EXCEPT !.pc = pc]

ServerLoop == /\ server.pc = "loop"
              /\ ServerTo(IF sock # 0 THEN "enter" ELSE "done")
              /\ UNCHANGED <<kind, net, shared, client, main, sent, got>>

\* tcp_socket is read a second time, for the call, which waits unless that is no listening
\* socket any more.
ServerEnter == /\ server.pc = "enter"
               /\ ServerTo(IF sock # 0 /\ sock \notin Free THEN "accept" ELSE "done")
               /\ UNCHANGED <<kind, net, shared, client, main, sent, got>>

Accept ==
  /\ server.pc = "accept" /\ Listener \notin shut
  /\ \E p \in Peer :
       /\ peer[p] = "backlog"
       /\ peer' = [peer EXCEPT ![p] = "open"]
       /\ fd' = [fd EXCEPT ![LowestFree] = p]
       /\ server' = [pc |-> "push", fd |-> LowestFree, peer |-> p]
  /\ UNCHANGED <<kind, shut, shared, client, main, sent, got>>

\* accept() may fail by itself at any time.
AcceptFails == /\ server.pc = "accept"
               /\ ServerTo("done")
               /\ UNCHANGED <<kind, net, shared, client, main, sent, got>>

\* A shutdown ends the wait; close() alone would not.
AcceptWoken == Listener \in shut /\ AcceptFails

ServerPush == /\ server.pc = "push" /\ ~Locked
              /\ list' = Append(list, server.fd)
              /\ ServerTo("flag")
              /\ UNCHANGED <<kind, net, sock, connected, client, main, sent, got>>

ServerFlag == /\ server.pc = "flag"
              /\ connected' = TRUE
              /\ ServerTo("hello")
              /\ UNCHANGED <<kind, net, list, sock, client, main, sent, got>>

\* newClient is virtual: of a WebSockSender only between its constructor and destructor.
Whole == main.pc \in {"idle", "lock", "sending"}
\* The handshake: the client sends a request or ends; one without a key is shut down.
Handshake ==
  \/ Ended(server.peer) /\ UNCHANGED shut
  \/ shut' \in {shut, shut \cup {server.peer}}
NewClient == /\ server.pc = "hello"
             /\ ServerTo("spawn")
             /\ \/ kind = "websocket" /\ Handshake
                \/ ~(kind = "websocket" /\ Whole) /\ UNCHANGED shut
             /\ UNCHANGED <<kind, peer, fd, shared, client, main, sent, got>>

ServerSpawn ==
  /\ server.pc = "spawn"
  /\ client' = [client EXCEPT ![server.peer] = [pc |-> "recv", fd |-> server.fd]]
  /\ server' = [pc |-> "loop", fd |-> 0, peer |-> NoPeer]
  /\ UNCHANGED <<kind, net, shared, main, sent, got>>

Server == ServerLoop \/ ServerEnter \/ Accept \/ AcceptWoken \/ ServerPush \/ ServerFlag
          \/ NewClient \/ ServerSpawn

\* The handshake of a client that neither sends its request nor ends has no timeout.
Waits == server.pc = "hello" /\ kind = "websocket" /\ Whole /\ ~Ended(server.peer)

-----------------------------------------------------------------------------
(***************************************************************************)
(* ClientThreadFunc.                                                       *)
(***************************************************************************)
ClientTo(p, pc) == client' = [client EXCEPT ![p].pc = pc]

ClientRecv(p) == /\ client[p].pc = "recv" /\ Ended(p)
                 /\ ClientTo(p, "leave")
                 /\ UNCHANGED <<kind, net, shared, server, main, sent, got>>

\* Mutant of StillConnected: the flag falls with any client.
StillConnectedNone(left) == FALSE
StillConnected(left) == connected /\ left # <<>>

\* The list without f, which is in it once (OwnSockets).
ListWithout(f) == IF InList(f) THEN {RemoveAt(list, i) : i \in {j \in DOMAIN list : list[j] = f}}
                  ELSE {list}
ClientLeave(p) ==
  /\ client[p].pc = "leave" /\ ~Locked
  /\ list' \in ListWithout(client[p].fd)
  /\ sock' = IF sock = client[p].fd THEN 0 ELSE sock
  /\ connected' = StillConnected(list')
  /\ ClientTo(p, "close")
  /\ UNCHANGED <<kind, net, server, main, sent, got>>

\* Mutant of ClientClose: the socket is closed first, then taken off the list.
ClientCloseFirst(p) == /\ client[p].pc \in {"leave", "close"} /\ fd[client[p].fd] = p
                       /\ fd' = [fd EXCEPT ![client[p].fd] = NoPeer]
                       /\ ClientTo(p, IF client[p].pc = "leave" THEN "leave" ELSE "done")
                       /\ UNCHANGED <<kind, peer, shut, shared, server, main, sent, got>>

ClientClose(p) == /\ client[p].pc = "close"
                  /\ fd' = [fd EXCEPT ![client[p].fd] = NoPeer]
                  /\ ClientTo(p, "done")
                  /\ UNCHANGED <<kind, peer, shut, shared, server, main, sent, got>>

Client(p) == ClientRecv(p) \/ ClientLeave(p) \/ ClientClose(p)

-----------------------------------------------------------------------------
(***************************************************************************)
(* sendOscPacket and the destructor.                                       *)
(***************************************************************************)
MainTo(pc) == main' = [main EXCEPT !.pc = pc]

\* connected is read without the mutex.
SendStart == /\ main.pc = "idle" /\ sent < MaxPackets
             /\ sent' = sent + 1
             /\ MainTo(IF connected THEN "lock" ELSE "idle")
             /\ UNCHANGED <<kind, net, shared, server, client, got>>

SendLock == /\ main.pc = "lock"
            /\ main' = [pc |-> "sending", at |-> 1, sent |-> 0]
            /\ UNCHANGED <<kind, net, shared, server, client, sent, got>>

NextClient == main' = [main EXCEPT !.at = @ + 1, !.sent = 0]

\* Mutant of Sent: what send() did not take is not sent again.
SentOnce(n) == NextClient
\* send() took n bytes: the rest is sent next, or it is the next client's turn.
Sent(n) == IF main.sent + n < Pieces THEN main' = [main EXCEPT !.sent = @ + n] ELSE NextClient

\* send() takes some bytes, or fails and the connection is shut down.
SendSome ==
  /\ main.pc = "sending" /\ main.at \in DOMAIN list
  /\ LET p == fd[list[main.at]] IN
     \/ \E n \in 1 .. Pieces - main.sent :
          /\ p \notin shut
          /\ got' = [got EXCEPT ![p] = @ \o [i \in 1..n |-> <<sent, main.sent + i>>]]
          /\ Sent(n)
          /\ UNCHANGED shut
     \/ /\ shut' = shut \cup {p}
        /\ NextClient
        /\ UNCHANGED got
  /\ UNCHANGED <<kind, peer, fd, shared, server, client, sent>>

SendEnd == /\ main.pc = "sending" /\ main.at \notin DOMAIN list
           /\ main' = [pc |-> "idle", at |-> 0, sent |-> 0]
           /\ UNCHANGED <<kind, net, shared, server, client, sent, got>>

\* Mutant of MainShut: the main socket is closed without a shutdown.
MainShutNone(own) == {}
MainShut(own) == {q \in {Listener} : own}

\* All connections, and the main socket if no client thread owns it.
Destroy ==
  /\ main.pc = "idle"
  /\ LET own == sock # 0 /\ ~InList(sock) IN
     /\ shut' = shut \cup {fd[list[i]] : i \in DOMAIN list} \cup MainShut(own)
     /\ MainTo(IF own THEN "destroy_close" ELSE "destroy_zero")
  /\ UNCHANGED <<kind, peer, fd, shared, server, client, sent, got>>

DestroyClose == /\ main.pc = "destroy_close"
                /\ fd' = [fd EXCEPT ![sock] = NoPeer]
                /\ MainTo("destroy_zero")
                /\ UNCHANGED <<kind, peer, shut, shared, server, client, sent, got>>

DestroyZero == /\ main.pc = "destroy_zero"
               /\ sock' = 0
               /\ MainTo("destroy_join")
               /\ UNCHANGED <<kind, net, list, connected, server, client, sent, got>>

\* The thread the constructor started: it accepts, or it is the only client's.
DestroyJoin ==
  /\ main.pc = "destroy_join"
  /\ server.pc = "done"
  /\ kind = "connect" => \A p \in Peer : client[p].pc \in {"none", "done"}
  /\ MainTo("destroy_poll")
  /\ UNCHANGED <<kind, net, shared, server, client, sent, got>>

\* Mutant of ClientsLeft: only those are waited for that the destructor shut down.
ClientsLeftShut == \E i \in DOMAIN list : fd[list[i]] \in shut
\* Client threads take their sockets off the list when they are done with the sender.
ClientsLeft == list # <<>>

DestroyPoll == /\ main.pc = "destroy_poll" /\ ~ClientsLeft
               /\ MainTo("gone")
               /\ UNCHANGED <<kind, net, shared, server, client, sent, got>>

SendPacket == SendLock \/ SendSome \/ SendEnd
Destructor == DestroyClose \/ DestroyZero \/ DestroyJoin \/ DestroyPoll

-----------------------------------------------------------------------------
Init == ConnectInit \/ ListenInit
Next == \/ Constructed \/ SendStart \/ SendPacket \/ Destroy \/ Destructor \/ Server \/ AcceptFails
        \/ \E p \in Peer : Connect(p) \/ PeerClose(p) \/ Client(p)

\* The threads run, but for send() and recv() on a client that may be waiting.  Nothing is said
\* of the clients: none has to read, to send its request or to end.
Fairness == /\ WF_vars(Constructed) /\ WF_vars(Destructor) /\ WF_vars(~Waits /\ Server)
            /\ \A p \in Peer : WF_vars(Client(p))
Spec == Init /\ [][Next]_vars /\ Fairness

-----------------------------------------------------------------------------
Running(p) == client[p].pc \in {"recv", "leave", "close"}

\* A number in the list, in the hands of a client thread or just accepted denotes the
\* connection it was accepted for, though numbers are used again: a packet, a shutdown or a
\* close never hits another connection.
OwnSockets ==
  /\ \A p \in Peer : Running(p) => fd[client[p].fd] = p
  /\ server.peer # NoPeer => fd[server.fd] = server.peer
  /\ \A i \in DOMAIN list :
       /\ fd[list[i]] \in Peer
       /\ \A j \in DOMAIN list : list[i] = list[j] => i = j
  /\ sock # 0 /\ main.pc # "destroy_zero" => fd[sock] # NoPeer

\* connected is what the list says, except while the first client is being added: a client
\* in the list is not left without packets because the flag of an earlier one fell.
ConnectedIffClients ==
  /\ list = <<>> => ~connected
  /\ list # <<>> => connected \/ (server.pc = "flag" /\ list = <<server.fd>>)

\* What a receiver of a TCP stream gets is packets one after the other, none with a hole and
\* none in another, until the connection ends: after each byte comes the next of its packet,
\* or the first of a later one.  (The one being added may miss packets before its flag is up.)
WholePackets == kind # "websocket" =>
  \A p \in Peer : \A i \in DOMAIN got[p] :
    IF i = 1 \/ got[p][i - 1][2] = Pieces
    THEN got[p][i][2] = 1 /\ (i = 1 \/ got[p][i][1] > got[p][i - 1][1])
    ELSE got[p][i] = <<got[p][i - 1][1], got[p][i - 1][2] + 1>>

\* Once the destructor has returned no thread uses the sender again: a client thread that is
\* left only closes its own socket.
NoUseAfterDestroy == main.pc = "gone" =>
  /\ server.pc = "done"
  /\ \A p \in Peer : client[p].pc \in {"none", "close", "done"}

Destroying == main.pc \in {"destroy_close", "destroy_zero", "destroy_join", "destroy_poll"}
\* The client is connected and this side has not shut it down.
LeftOpen(p) == peer[p] = "open" /\ p \notin shut

\* The destructor returns, whatever the other threads are doing when it starts and though no
\* client ends, unless the server thread had just accepted a client when the destructor went
\* through the list: that one is not shut down ("shut down all sockets" says the comment), and
\* as long as it, and it alone, stays connected the destructor waits.
DestructorReturns ==
  <>[]Destroying => <>[](\E p \in Peer : {q \in Peer : LeftOpen(q)} = {p})
=============================================================================
