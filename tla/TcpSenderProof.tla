---------------------------- MODULE TcpSenderProof ----------------------------
(***************************************************************************)
(* Proofs about TcpSender, for any number of clients, any number of        *)
(* packets of any size, and every interleaving of the threads.             *)
(*                                                                         *)
(* Wiring says whose a descriptor is: a connection has one, which is in    *)
(* the hands of its client thread, or of the server thread between         *)
(* accept() and the start of that thread.  With it a number on the list    *)
(* cannot be another client's.  Stream says how far the sender is with     *)
(* each client of the list.                                                *)
(***************************************************************************)
EXTENDS TcpSender, DataLemmas

ServerLabel == {"loop", "enter", "accept", "push", "flag", "hello", "spawn", "done"}
ClientLabel == {"none", "recv", "leave", "close", "done"}
DestroyLabel == {"destroy_close", "destroy_zero", "destroy_join", "destroy_poll", "gone"}
MainLabel == {"construct", "idle", "lock", "sending"} \cup DestroyLabel

TypeOK ==
  /\ kind \in {"connect", "listen", "websocket"}
  /\ peer \in [Peer -> {"away", "backlog", "open", "closed"}]
  /\ shut \subseteq Peer \cup {Listener}
  /\ fd \in [Fd -> Peer \cup {NoPeer, Listener}]
  /\ list \in Seq(Fd)
  /\ sock \in {0, 1} /\ connected \in BOOLEAN
  /\ server \in [pc : ServerLabel, fd : Fd \cup {0}, peer : Peer \cup {NoPeer}]
  /\ client \in [Peer -> [pc : ClientLabel, fd : Fd \cup {0}]]
  /\ main \in [pc : MainLabel, at : Nat, sent : Nat]
  /\ sent \in Nat
  /\ got \in [Peer -> Seq(Nat \X Nat)]

\* The server thread has a connection in its hands.
Busy == server.pc \in {"push", "flag", "hello", "spawn"}

\* A descriptor denotes one thing, and a connection's is known to the thread that serves it.
Wiring ==
  /\ \A f, g \in Fd : fd[f] = fd[g] /\ fd[f] # NoPeer => f = g
  /\ \A p \in Peer : Running(p) => client[p].fd \in Fd /\ fd[client[p].fd] = p
  /\ Busy => /\ server.fd \in Fd /\ server.peer \in Peer
             /\ fd[server.fd] = server.peer /\ client[server.peer].pc = "none"
  /\ ~Busy => server.peer = NoPeer
  /\ \A f \in Fd, p \in Peer : fd[f] = p =>
       \/ Running(p) /\ client[p].fd = f
       \/ server.peer = p /\ server.fd = f

\* A peer that is not accepted yet has nothing here.
Fresh ==
  \A p \in Peer : peer[p] \in {"away", "backlog"} =>
    client[p].pc = "none" /\ server.peer # p /\ got[p] = <<>>

\* The list has the connections whose thread has not left, and the one that is being added.
Listing ==
  /\ IsInjective(list)
  /\ \A p \in Peer : client[p].pc \in {"recv", "leave"} => client[p].fd \in Range(list)
  /\ \A p \in Peer : client[p].pc = "close" => client[p].fd \notin Range(list)
  /\ server.pc \in {"flag", "hello", "spawn"} => server.fd \in Range(list)
  /\ server.pc = "push" => server.fd \notin Range(list) /\ got[server.peer] = <<>>
  /\ \A f \in Range(list) : fd[f] \in Peer

\* tcp_socket: the only client's, or the listening socket until the destructor closes it.
MainSocket ==
  /\ kind = "connect" =>
       /\ server.pc = "done" /\ main.pc \notin {"construct", "destroy_close"}
       /\ sock = 1 => 1 \in Range(list)
  /\ kind # "connect" =>
       /\ main.pc \in {"construct", "idle", "lock", "sending", "destroy_close"} =>
            sock = 1 /\ fd[1] = Listener
       /\ main.pc = "destroy_zero" => sock = 1 /\ fd[1] = NoPeer
       /\ main.pc \in {"destroy_join", "destroy_poll", "gone"} => sock = 0
       /\ main.pc \in DestroyLabel => Listener \in shut

\* What the destructor has waited for.
Ending ==
  /\ main.pc \in {"destroy_poll", "gone"} => server.pc = "done"
  /\ main.pc = "gone" => list = <<>>

\* g ends with the end of a packet before the n-th, or is empty.
Before(g, n) == g # <<>> => g[Len(g)][2] = Pieces /\ g[Len(g)][1] < n

\* b bytes of packet n are sent.
Part(g, n, b) == IF b = 0 THEN Before(g, n) ELSE g # <<>> /\ g[Len(g)] = <<n, b>>

\* Every client on the list that can still be sent to is at the end of a packet, but the one
\* that is being sent to.
Calm ==
  \A f \in Range(list) : fd[f] \notin shut =>
    /\ main.pc = "lock" => Before(got[fd[f]], sent)
    /\ main.pc \notin {"lock", "sending"} => Before(got[fd[f]], sent + 1)
Sending == main.pc = "sending" =>
  /\ main.at > 0
  /\ \A i \in 1 .. Len(list) : fd[list[i]] \notin shut =>
       /\ i < main.at => Before(got[fd[list[i]]], sent + 1)
       /\ i = main.at => Part(got[fd[list[i]]], sent, main.sent)
       /\ i > main.at => Before(got[fd[list[i]]], sent)
Stream == main.sent < Pieces /\ Calm /\ Sending

\* The bytes of g come in order: WholePackets for one client.
InOrder(g) ==
  \A i \in DOMAIN g :
    IF i = 1 \/ g[i - 1][2] = Pieces
    THEN g[i][2] = 1 /\ (i = 1 \/ g[i][1] > g[i - 1][1])
    ELSE g[i] = <<g[i - 1][1], g[i - 1][2] + 1>>

Ordered == \A p \in Peer : InOrder(got[p])

TcpInv == /\ TypeOK /\ Wiring /\ Fresh /\ Listing /\ MainSocket /\ Ending
          /\ ConnectedIffClients /\ Stream /\ Ordered

-----------------------------------------------------------------------------
LEMMA FdNumbers == Cardinality(Peer) \in Nat /\ 1 \in Fd /\ Fd \subseteq Nat \ {0}
<1>1. Cardinality(Peer) \in Nat
  BY FS_CardinalityType, TcpAssumption
<1> QED
  BY <1>1, TcpAssumption

LEMMA BeforeLater ==
  ASSUME NEW g \in Seq(Nat \X Nat), NEW n \in Nat, Before(g, n)
  PROVE  Before(g, n + 1)
<1>1. g # <<>> => g[Len(g)] \in Nat \X Nat
  BY LenProperties, ElementOfSeq, EmptySeq
<1>2. g # <<>> => g[Len(g)][1] \in Nat
  BY <1>1
<1> QED
  BY <1>2 DEF Before

\* g and the next k bytes of packet n, after b of them.
Sends(g, n, b, k) == g \o [i \in 1 .. k |-> <<n, b + i>>]

LEMMA Appended ==
  ASSUME NEW g \in Seq(Nat \X Nat), NEW n \in Nat, NEW b \in Nat, NEW k \in Nat \ {0},
         b + k <= Pieces, InOrder(g), Part(g, n, b)
  PROVE  /\ Sends(g, n, b, k) \in Seq(Nat \X Nat) /\ InOrder(Sends(g, n, b, k))
         /\ Part(Sends(g, n, b, k), n, b + k)
         /\ b + k = Pieces => Before(Sends(g, n, b, k), n + 1)
<1> DEFINE h == Sends(g, n, b, k)
<1> DEFINE t == [i \in 1 .. k |-> <<n, b + i>>]
<1>1. t \in Seq(Nat \X Nat) /\ Len(t) = k /\ \A i \in 1 .. k : t[i] = <<n, b + i>>
  <2>1. \A i \in 1 .. k : <<n, b + i>> \in Nat \X Nat
    OBVIOUS
  <2>2. t \in [1 .. k -> Nat \X Nat]
    BY <2>1
  <2> QED
    BY <2>2, SeqDef, LenProperties
<1> HIDE DEF t
<1>2. PICK m \in Nat : m = Len(g)
  BY LenProperties
<1>3. /\ h \in Seq(Nat \X Nat) /\ Len(h) = m + k
      /\ \A i \in 1 .. m + k : h[i] = IF i <= m THEN g[i] ELSE t[i - m]
  BY <1>1, <1>2, ConcatProperties DEF t, Sends
<1> HIDE DEF h
<1>4. \A i \in 1 .. m : h[i] = g[i]
  <2> TAKE i \in 1 .. m
  <2>1. i \in 1 .. m + k /\ i <= m
    OBVIOUS
  <2> QED
    BY <1>3, <2>1
<1>5. \A i \in 1 .. k : h[m + i] = <<n, b + i>>
  <2> TAKE i \in 1 .. k
  <2>1. m + i \in 1 .. m + k /\ ~(m + i <= m) /\ (m + i) - m = i
    OBVIOUS
  <2>2. h[m + i] = t[i]
    BY <1>3, <2>1
  <2> QED
    BY <1>1, <2>2
<1>6. /\ DOMAIN h = 1 .. m + k /\ DOMAIN g = 1 .. m
      /\ m = 0 <=> g = <<>>
  BY <1>2, <1>3, LenProperties, EmptySeq
<1>7. InOrder(h)
  <2> HIDE DEF InOrder
  <2> SUFFICES ASSUME NEW i \in 1 .. m + k
               PROVE  IF i = 1 \/ h[i - 1][2] = Pieces
                      THEN h[i][2] = 1 /\ (i = 1 \/ h[i][1] > h[i - 1][1])
                      ELSE h[i] = <<h[i - 1][1], h[i - 1][2] + 1>>
    BY <1>6 DEF InOrder
  <2>1. CASE i \in 1 .. m
    <3>1. IF i = 1 \/ g[i - 1][2] = Pieces
          THEN g[i][2] = 1 /\ (i = 1 \/ g[i][1] > g[i - 1][1])
          ELSE g[i] = <<g[i - 1][1], g[i - 1][2] + 1>>
      BY <1>6, <2>1 DEF InOrder
    <3>2. i = 1 \/ i - 1 \in 1 .. m
      BY <2>1
    <3>3. h[i] = g[i] /\ (i = 1 \/ h[i - 1] = g[i - 1])
      BY <1>4, <2>1, <3>2
    <3> QED
      BY <3>1, <3>3
  <2>2. CASE i > m + 1
    <3>1. PICK j \in 1 .. k : i - 1 = m + j /\ j + 1 \in 1 .. k /\ i = m + (j + 1)
      <4>1. i - 1 - m \in 1 .. k /\ (i - 1 - m) + 1 \in 1 .. k
        BY <2>2
      <4>2. i - 1 = m + (i - 1 - m) /\ i = m + ((i - 1 - m) + 1)
        OBVIOUS
      <4> QED
        BY <4>1, <4>2
    <3>2. h[i] = <<n, b + (j + 1)>> /\ h[i - 1] = <<n, b + j>>
      BY <1>5, <3>1
    <3>3. i # 1 /\ b + j # Pieces /\ (b + j) + 1 = b + (j + 1)
      BY <2>2, <3>1, TcpAssumption
    <3> QED
      BY <3>2, <3>3
  <2>3. CASE i = m + 1
    <3>1. h[i] = <<n, b + 1>>
      BY <1>5, <2>3
    <3>2. CASE m = 0
      <4>1. b = 0
        BY <1>6, <3>2 DEF Part
      <4> QED
        BY <2>3, <3>1, <3>2, <4>1
    <3>3. CASE m > 0
      <4>1. m \in 1 .. m /\ i # 1 /\ i - 1 = m /\ g # <<>>
        BY <1>6, <2>3, <3>3
      <4>2. h[i - 1] = g[m]
        BY <1>4, <4>1
      <4>3. CASE b = 0
        <5>1. g[m][2] = Pieces /\ g[m][1] < n
          BY <1>2, <4>1, <4>3 DEF Part, Before
        <5> QED
          BY <3>1, <4>1, <4>2, <4>3, <5>1
      <4>4. CASE b # 0
        <5>1. g[m] = <<n, b>>
          BY <1>2, <4>4 DEF Part
        <5>2. b # Pieces
          BY TcpAssumption
        <5>3. h[i - 1][1] = n /\ h[i - 1][2] = b
          BY <4>2, <5>1
        <5> QED
          BY <3>1, <4>1, <5>2, <5>3
      <4> QED
        BY <4>3, <4>4
    <3> QED
      BY <3>2, <3>3
  <2> QED
    BY <2>1, <2>2, <2>3
<1>8. h[Len(h)] = <<n, b + k>> /\ h # <<>>
  <2>1. k \in 1 .. k /\ m + k # 0
    OBVIOUS
  <2>2. h # <<>>
    BY <1>3, <2>1, EmptySeq
  <2> QED
    BY <1>3, <1>5, <2>1, <2>2
<1>9. b + k # 0 /\ n < n + 1
  OBVIOUS
<1>10. Part(h, n, b + k)
  BY <1>8, <1>9 DEF Part
<1>11. b + k = Pieces => Before(h, n + 1)
  BY <1>8, <1>9 DEF Before
<1> QED
  BY <1>3, <1>7, <1>10, <1>11 DEF h

\* What a number on the list stands for.
LEMMA ListIs ==
  ASSUME TcpInv, NEW i \in 1 .. Len(list)
  PROVE  /\ list[i] \in Range(list) /\ list[i] \in Fd
         /\ fd[list[i]] \in Peer /\ got[fd[list[i]]] \in Seq(Nat \X Nat)
         /\ peer[fd[list[i]]] \notin {"away", "backlog"}
         /\ \A j \in 1 .. Len(list) : fd[list[i]] = fd[list[j]] => i = j
<1>1. /\ Range(list) = {list[j] : j \in 1 .. Len(list)} /\ Range(list) \subseteq Fd
      /\ \A j, k \in 1 .. Len(list) : list[j] = list[k] => j = k
  BY RangeIn DEF TcpInv, TypeOK, Listing
<1>2. list[i] \in Range(list) /\ list[i] \in Fd
  BY <1>1
<1>3. fd[list[i]] \in Peer
  BY <1>2 DEF TcpInv, Listing
<1>4. got[fd[list[i]]] \in Seq(Nat \X Nat)
  BY <1>3 DEF TcpInv, TypeOK
<1>5. peer[fd[list[i]]] \notin {"away", "backlog"}
  BY <1>2, <1>3 DEF TcpInv, Wiring, Fresh, Running
<1>6. \A j \in 1 .. Len(list) : fd[list[i]] = fd[list[j]] => i = j
  <2> SUFFICES ASSUME NEW j \in 1 .. Len(list), fd[list[i]] = fd[list[j]] PROVE i = j
    OBVIOUS
  <2>1. list[j] \in Fd /\ fd[list[i]] # NoPeer
    BY <1>1, <1>3, TcpAssumption
  <2>2. list[i] = list[j]
    BY <1>2, <2>1 DEF TcpInv, Wiring
  <2> QED
    BY <1>1, <2>2
<1> QED
  BY <1>2, <1>3, <1>4, <1>5, <1>6

\* A peer that waits is not connected yet, so that a descriptor is left for it.
LEMMA FreeFound ==
  ASSUME TypeOK, Wiring, NEW p \in Peer, \A f \in Fd : fd[f] # p
  PROVE  LowestFree \in Fd /\ fd[LowestFree] = NoPeer
<1>1. Free # {}
  <2> SUFFICES ASSUME \A f \in Fd : fd[f] # NoPeer PROVE FALSE
    BY DEF Free
  <2> DEFINE T == (Peer \ {p}) \cup {Listener}
  <2>1. fd \in Injection(Fd, T)
    BY TcpAssumption DEF TypeOK, Wiring, Injection, IsInjective
  <2>2. IsFiniteSet(T) /\ Cardinality(T) = Cardinality(Peer)
    <3>1. IsFiniteSet(Peer \ {p}) /\ Cardinality(Peer \ {p}) = Cardinality(Peer) - 1
      BY FS_RemoveElement, TcpAssumption
    <3>2. Listener \notin Peer \ {p}
      BY TcpAssumption
    <3>3. IsFiniteSet(T) /\ Cardinality(T) = Cardinality(Peer \ {p}) + 1
      BY <3>1, <3>2, FS_AddElement
    <3> HIDE DEF T
    <3> QED
      BY <3>1, <3>3, FdNumbers
  <2>3. IsFiniteSet(Fd) /\ Cardinality(Fd) = Cardinality(Peer) + 1
    BY FS_Interval, FdNumbers, TcpAssumption
  <2>4. Cardinality(Fd) <= Cardinality(T)
    BY <2>1, <2>2, FS_Injection
  <2> QED
    BY <2>2, <2>3, <2>4, FdNumbers
<1>2. \E m \in Free : \A g \in Free : m <= g
  BY <1>1, LeastNatural, FdNumbers DEF Free
<1>3. LowestFree \in Free
  BY <1>2 DEF LowestFree
<1> QED
  BY <1>3 DEF Free

LEMMA TakenOff ==
  ASSUME TcpInv, NEW f \in Range(list), NEW left \in ListWithout(f)
  PROVE  left \in Seq(Fd) /\ IsInjective(left) /\ Range(left) = Range(list) \ {f}
<1>1. /\ list \in Seq(Fd) /\ IsInjective(list) /\ DOMAIN list = 1 .. Len(list)
      /\ Range(list) = {list[i] : i \in 1 .. Len(list)}
  BY RangeIn, LenProperties DEF TcpInv, TypeOK, Listing
<1>2. InList(f)
  BY <1>1 DEF InList
<1>3. PICK i \in 1 .. Len(list) : list[i] = f /\ left = RemoveAt(list, i)
  BY <1>1, <1>2 DEF ListWithout
<1>4. left = Without(list, i)
  BY <1>3 DEF RemoveAt, Without
<1>5. /\ Without(list, i) \in Seq(Fd) /\ IsInjective(Without(list, i))
      /\ Range(Without(list, i)) = Range(list) \ {list[i]}
  BY ZenonT(40), <1>1, RangeRemove
<1> QED
  BY <1>3, <1>4, <1>5

\* A step that takes the sender on, with nothing sent.
LEMMA Quietly ==
  ASSUME TcpInv, main.pc = "sending", main'.pc = "sending",
         main' \in [pc : MainLabel, at : Nat, sent : Nat],
         shut \subseteq shut', shut' \subseteq Peer \cup {Listener}, Stream',
         UNCHANGED <<kind, peer, fd, list, sock, connected, server, client, sent, got>>
  PROVE  TcpInv'
<1>1. TypeOK'
  BY DEF TcpInv, TypeOK
<1>2. Wiring' /\ Fresh' /\ Listing' /\ Ending' /\ ConnectedIffClients' /\ Ordered'
  BY DEF TcpInv, Wiring, Busy, Running, Fresh, Listing, Ending, ConnectedIffClients, Ordered
<1>3. MainSocket'
  BY DEF TcpInv, MainSocket, DestroyLabel
<1> QED
  BY <1>1, <1>2, <1>3 DEF TcpInv

LEMMA ConstructedKeeps ==
  ASSUME TcpInv, Constructed
  PROVE  TcpInv'
<1>1. /\ main.pc = "construct" /\ main'.pc = "idle"
      /\ main'.at = main.at /\ main'.sent = main.sent
      /\ main' \in [pc : MainLabel, at : Nat, sent : Nat]
      /\ UNCHANGED <<kind, peer, shut, fd, list, sock, connected, server, client, sent, got>>
  BY DEF Constructed, MainTo, MainLabel, DestroyLabel, net, shared, TcpInv, TypeOK
<1>2. Wiring' /\ Fresh' /\ Listing' /\ ConnectedIffClients' /\ Ordered'
  BY <1>1 DEF TcpInv, Wiring, Busy, Running, Fresh, Listing, ConnectedIffClients, Ordered
<1>3. TypeOK'
  BY <1>1 DEF TcpInv, TypeOK, ServerLabel, ClientLabel, MainLabel, DestroyLabel
<1>4. MainSocket'
  BY <1>1 DEF TcpInv, MainSocket, DestroyLabel
<1>5. Ending'
  BY <1>1 DEF TcpInv, Ending
<1>6. Stream'
  BY <1>1 DEF TcpInv, Stream, Calm, Sending
<1> QED
  BY <1>2, <1>3, <1>4, <1>5, <1>6 DEF TcpInv

LEMMA SendStartKeeps ==
  ASSUME TcpInv, SendStart
  PROVE  TcpInv'
<1>1. /\ main.pc = "idle" /\ main'.pc \in {"idle", "lock"}
      /\ main'.at = main.at /\ main'.sent = main.sent
      /\ main' \in [pc : MainLabel, at : Nat, sent : Nat]
      /\ sent' = sent + 1 /\ sent' \in Nat
      /\ UNCHANGED <<kind, peer, shut, fd, list, sock, connected, server, client, got>>
  BY SMTT(20) DEF SendStart, MainTo, MainLabel, DestroyLabel, net, shared, TcpInv, TypeOK
<1>2. Wiring' /\ Fresh' /\ Listing' /\ ConnectedIffClients' /\ Ordered'
  BY <1>1 DEF TcpInv, Wiring, Busy, Running, Fresh, Listing, ConnectedIffClients, Ordered
<1>3. TypeOK'
  BY <1>1 DEF TcpInv, TypeOK, ServerLabel, ClientLabel, MainLabel, DestroyLabel
<1>4. MainSocket'
  BY <1>1 DEF TcpInv, MainSocket, DestroyLabel
<1>5. Ending'
  BY <1>1 DEF TcpInv, Ending
<1>6. Stream'
  <2>1. Calm'
    <3> SUFFICES ASSUME NEW f \in Range(list), fd[f] \notin shut
                 PROVE  /\ main'.pc = "lock" => Before(got[fd[f]], sent')
                        /\ main'.pc \notin {"lock", "sending"} => Before(got[fd[f]], sent' + 1)
      BY <1>1 DEF Calm
    <3>1. Before(got[fd[f]], sent + 1)
      BY <1>1 DEF TcpInv, Stream, Calm
    <3>2. got[fd[f]] \in Seq(Nat \X Nat) /\ sent + 1 \in Nat
      BY <1>1 DEF TcpInv, TypeOK, Listing
    <3>3. Before(got[fd[f]], (sent + 1) + 1)
      BY <3>1, <3>2, BeforeLater
    <3> QED
      BY <1>1, <3>1, <3>3
  <2> QED
    BY <1>1, <2>1 DEF TcpInv, Stream, Sending
<1> QED
  BY <1>2, <1>3, <1>4, <1>5, <1>6 DEF TcpInv

LEMMA SendLockKeeps ==
  ASSUME TcpInv, SendLock
  PROVE  TcpInv'
<1>1. /\ main.pc = "lock" /\ main'.pc = "sending"
      /\ main'.at = 1 /\ main'.sent = 0
      /\ main' \in [pc : MainLabel, at : Nat, sent : Nat]
      /\ UNCHANGED <<kind, peer, shut, fd, list, sock, connected, server, client, sent, got>>
  BY DEF SendLock, MainTo, MainLabel, DestroyLabel, net, shared, TcpInv, TypeOK
<1>2. Wiring' /\ Fresh' /\ Listing' /\ ConnectedIffClients' /\ Ordered'
  BY <1>1 DEF TcpInv, Wiring, Busy, Running, Fresh, Listing, ConnectedIffClients, Ordered
<1>3. TypeOK'
  BY <1>1 DEF TcpInv, TypeOK, ServerLabel, ClientLabel, MainLabel, DestroyLabel
<1>4. MainSocket'
  BY <1>1 DEF TcpInv, MainSocket, DestroyLabel
<1>5. Ending'
  BY <1>1 DEF TcpInv, Ending
<1>6. Stream'
  <2>1. \A i \in 1 .. Len(list) : fd[list[i]] \notin shut =>
          Before(got[fd[list[i]]], sent) /\ Part(got[fd[list[i]]], sent, 0)
    BY <1>1, ListIs DEF TcpInv, Stream, Calm, Part
  <2>2. \A i \in 1 .. Len(list) : ~(i < 1)
    OBVIOUS
  <2>3. Sending'
    BY <1>1, <2>1, <2>2 DEF Sending
  <2> QED
    BY <1>1, <2>3, TcpAssumption DEF Stream, Calm
<1> QED
  BY <1>2, <1>3, <1>4, <1>5, <1>6 DEF TcpInv

LEMMA SendEndKeeps ==
  ASSUME TcpInv, SendEnd
  PROVE  TcpInv'
<1>1. /\ main.pc = "sending" /\ main'.pc = "idle"
      /\ main.at \notin DOMAIN list
      /\ main'.at = 0 /\ main'.sent = 0
      /\ main' \in [pc : MainLabel, at : Nat, sent : Nat]
      /\ UNCHANGED <<kind, peer, shut, fd, list, sock, connected, server, client, sent, got>>
  BY DEF SendEnd, MainTo, MainLabel, DestroyLabel, net, shared, TcpInv, TypeOK
<1>2. Wiring' /\ Fresh' /\ Listing' /\ ConnectedIffClients' /\ Ordered'
  BY <1>1 DEF TcpInv, Wiring, Busy, Running, Fresh, Listing, ConnectedIffClients, Ordered
<1>3. TypeOK'
  BY <1>1 DEF TcpInv, TypeOK, ServerLabel, ClientLabel, MainLabel, DestroyLabel
<1>4. MainSocket'
  BY <1>1 DEF TcpInv, MainSocket, DestroyLabel
<1>5. Ending'
  BY <1>1 DEF TcpInv, Ending
<1>6. Stream'
  <2>1. DOMAIN list = 1 .. Len(list) /\ Len(list) \in Nat /\ main.at \in Nat /\ main.at > 0
    BY <1>1, LenProperties DEF TcpInv, TypeOK, Stream, Sending
  <2>2. \A i \in 1 .. Len(list) : i < main.at
    BY <1>1, <2>1
  <2>3. \A i \in 1 .. Len(list) : fd[list[i]] \notin shut => Before(got[fd[list[i]]], sent + 1)
    BY <1>1, <2>2 DEF TcpInv, Stream, Sending
  <2>4. Range(list) = {list[i] : i \in 1 .. Len(list)}
    BY RangeIn DEF TcpInv, TypeOK
  <2>5. Calm'
    BY <1>1, <2>3, <2>4 DEF Calm
  <2> QED
    BY <1>1, <2>5, TcpAssumption DEF Stream, Sending
<1> QED
  BY <1>2, <1>3, <1>4, <1>5, <1>6 DEF TcpInv

LEMMA DestroyZeroKeeps ==
  ASSUME TcpInv, DestroyZero
  PROVE  TcpInv'
<1>1. /\ main.pc = "destroy_zero" /\ main'.pc = "destroy_join"
      /\ main'.at = main.at /\ main'.sent = main.sent
      /\ main' \in [pc : MainLabel, at : Nat, sent : Nat]
      /\ sock' = 0
      /\ UNCHANGED <<kind, peer, shut, fd, list, connected, server, client, sent, got>>
  BY DEF DestroyZero, MainTo, MainLabel, DestroyLabel, net, shared, TcpInv, TypeOK
<1>2. Wiring' /\ Fresh' /\ Listing' /\ ConnectedIffClients' /\ Ordered'
  BY <1>1 DEF TcpInv, Wiring, Busy, Running, Fresh, Listing, ConnectedIffClients, Ordered
<1>3. TypeOK'
  BY <1>1 DEF TcpInv, TypeOK, ServerLabel, ClientLabel, MainLabel, DestroyLabel
<1>4. MainSocket'
  BY <1>1 DEF TcpInv, MainSocket, DestroyLabel
<1>5. Ending'
  BY <1>1 DEF TcpInv, Ending
<1>6. Stream'
  BY <1>1 DEF TcpInv, Stream, Calm, Sending
<1> QED
  BY <1>2, <1>3, <1>4, <1>5, <1>6 DEF TcpInv

LEMMA DestroyJoinKeeps ==
  ASSUME TcpInv, DestroyJoin
  PROVE  TcpInv'
<1>1. /\ main.pc = "destroy_join" /\ main'.pc = "destroy_poll"
      /\ main'.at = main.at /\ main'.sent = main.sent
      /\ main' \in [pc : MainLabel, at : Nat, sent : Nat]
      /\ server.pc = "done"
      /\ UNCHANGED <<kind, peer, shut, fd, list, sock, connected, server, client, sent, got>>
  BY DEF DestroyJoin, MainTo, MainLabel, DestroyLabel, net, shared, TcpInv, TypeOK
<1>2. Wiring' /\ Fresh' /\ Listing' /\ ConnectedIffClients' /\ Ordered'
  BY <1>1 DEF TcpInv, Wiring, Busy, Running, Fresh, Listing, ConnectedIffClients, Ordered
<1>3. TypeOK'
  BY <1>1 DEF TcpInv, TypeOK, ServerLabel, ClientLabel, MainLabel, DestroyLabel
<1>4. MainSocket'
  BY <1>1 DEF TcpInv, MainSocket, DestroyLabel
<1>5. Ending'
  BY <1>1 DEF TcpInv, Ending
<1>6. Stream'
  BY <1>1 DEF TcpInv, Stream, Calm, Sending
<1> QED
  BY <1>2, <1>3, <1>4, <1>5, <1>6 DEF TcpInv

LEMMA DestroyPollKeeps ==
  ASSUME TcpInv, DestroyPoll
  PROVE  TcpInv'
<1>1. /\ main.pc = "destroy_poll" /\ main'.pc = "gone"
      /\ main'.at = main.at /\ main'.sent = main.sent
      /\ main' \in [pc : MainLabel, at : Nat, sent : Nat]
      /\ list = <<>>
      /\ UNCHANGED <<kind, peer, shut, fd, list, sock, connected, server, client, sent, got>>
  BY DEF DestroyPoll, MainTo, MainLabel, DestroyLabel, ClientsLeft, net, shared, TcpInv, TypeOK
<1>2. Wiring' /\ Fresh' /\ Listing' /\ ConnectedIffClients' /\ Ordered'
  BY <1>1 DEF TcpInv, Wiring, Busy, Running, Fresh, Listing, ConnectedIffClients, Ordered
<1>3. TypeOK'
  BY <1>1 DEF TcpInv, TypeOK, ServerLabel, ClientLabel, MainLabel, DestroyLabel
<1>4. MainSocket'
  BY <1>1 DEF TcpInv, MainSocket, DestroyLabel
<1>5. Ending'
  BY <1>1 DEF TcpInv, Ending
<1>6. Stream'
  BY <1>1 DEF TcpInv, Stream, Calm, Sending
<1> QED
  BY <1>2, <1>3, <1>4, <1>5, <1>6 DEF TcpInv

LEMMA ServerLoopKeeps ==
  ASSUME TcpInv, ServerLoop
  PROVE  TcpInv'
<1>1. /\ server.pc = "loop" /\ server'.pc \in {"enter", "done"}
      /\ server'.fd = server.fd /\ server'.peer = server.peer
      /\ server' \in [pc : ServerLabel, fd : Fd \cup {0}, peer : Peer \cup {NoPeer}]
      /\ UNCHANGED <<kind, peer, shut, fd, list, sock, connected, client, main, sent, got>>
  BY DEF ServerLoop, ServerTo, ServerLabel, net, shared, TcpInv, TypeOK
<1>2. Ordered'
  BY <1>1 DEF TcpInv, Ordered
<1>3. Stream'
  BY <1>1 DEF TcpInv, Stream, Calm, Sending
<1>4. TypeOK'
  BY <1>1 DEF TcpInv, TypeOK, ServerLabel, ClientLabel, MainLabel, DestroyLabel
<1>5. Wiring'
  BY <1>1 DEF TcpInv, Wiring, Busy, Running
<1>6. Fresh'
  BY <1>1 DEF TcpInv, Fresh
<1>7. Listing'
  BY <1>1 DEF TcpInv, Listing
<1>8. MainSocket'
  BY <1>1 DEF TcpInv, MainSocket, DestroyLabel
<1>9. Ending'
  BY <1>1 DEF TcpInv, Ending
<1>10. ConnectedIffClients'
  BY <1>1 DEF TcpInv, ConnectedIffClients
<1> QED
  BY <1>2, <1>3, <1>4, <1>5, <1>6, <1>7, <1>8, <1>9, <1>10 DEF TcpInv

LEMMA ServerEnterKeeps ==
  ASSUME TcpInv, ServerEnter
  PROVE  TcpInv'
<1>1. /\ server.pc = "enter" /\ server'.pc \in {"accept", "done"}
      /\ server'.fd = server.fd /\ server'.peer = server.peer
      /\ server' \in [pc : ServerLabel, fd : Fd \cup {0}, peer : Peer \cup {NoPeer}]
      /\ UNCHANGED <<kind, peer, shut, fd, list, sock, connected, client, main, sent, got>>
  BY DEF ServerEnter, ServerTo, ServerLabel, net, shared, TcpInv, TypeOK
<1>2. Ordered'
  BY <1>1 DEF TcpInv, Ordered
<1>3. Stream'
  BY <1>1 DEF TcpInv, Stream, Calm, Sending
<1>4. TypeOK'
  BY <1>1 DEF TcpInv, TypeOK, ServerLabel, ClientLabel, MainLabel, DestroyLabel
<1>5. Wiring'
  BY <1>1 DEF TcpInv, Wiring, Busy, Running
<1>6. Fresh'
  BY <1>1 DEF TcpInv, Fresh
<1>7. Listing'
  BY <1>1 DEF TcpInv, Listing
<1>8. MainSocket'
  BY <1>1 DEF TcpInv, MainSocket, DestroyLabel
<1>9. Ending'
  BY <1>1 DEF TcpInv, Ending
<1>10. ConnectedIffClients'
  BY <1>1 DEF TcpInv, ConnectedIffClients
<1> QED
  BY <1>2, <1>3, <1>4, <1>5, <1>6, <1>7, <1>8, <1>9, <1>10 DEF TcpInv

LEMMA AcceptFailsKeeps ==
  ASSUME TcpInv, AcceptFails
  PROVE  TcpInv'
<1>1. /\ server.pc = "accept" /\ server'.pc = "done"
      /\ server'.fd = server.fd /\ server'.peer = server.peer
      /\ server' \in [pc : ServerLabel, fd : Fd \cup {0}, peer : Peer \cup {NoPeer}]
      /\ UNCHANGED <<kind, peer, shut, fd, list, sock, connected, client, main, sent, got>>
  BY DEF AcceptFails, ServerTo, ServerLabel, net, shared, TcpInv, TypeOK
<1>2. Ordered'
  BY <1>1 DEF TcpInv, Ordered
<1>3. Stream'
  BY <1>1 DEF TcpInv, Stream, Calm, Sending
<1>4. TypeOK'
  BY <1>1 DEF TcpInv, TypeOK, ServerLabel, ClientLabel, MainLabel, DestroyLabel
<1>5. Wiring'
  BY <1>1 DEF TcpInv, Wiring, Busy, Running
<1>6. Fresh'
  BY <1>1 DEF TcpInv, Fresh
<1>7. Listing'
  BY <1>1 DEF TcpInv, Listing
<1>8. MainSocket'
  BY <1>1 DEF TcpInv, MainSocket, DestroyLabel
<1>9. Ending'
  BY <1>1 DEF TcpInv, Ending
<1>10. ConnectedIffClients'
  BY <1>1 DEF TcpInv, ConnectedIffClients
<1> QED
  BY <1>2, <1>3, <1>4, <1>5, <1>6, <1>7, <1>8, <1>9, <1>10 DEF TcpInv

LEMMA ServerFlagKeeps ==
  ASSUME TcpInv, ServerFlag
  PROVE  TcpInv'
<1>1. /\ server.pc = "flag" /\ server'.pc = "hello"
      /\ server'.fd = server.fd /\ server'.peer = server.peer
      /\ server' \in [pc : ServerLabel, fd : Fd \cup {0}, peer : Peer \cup {NoPeer}]
      /\ connected' = TRUE
      /\ UNCHANGED <<kind, peer, shut, fd, list, sock, client, main, sent, got>>
  BY DEF ServerFlag, ServerTo, ServerLabel, net, shared, TcpInv, TypeOK
<1>2. Ordered'
  BY <1>1 DEF TcpInv, Ordered
<1>3. Stream'
  BY <1>1 DEF TcpInv, Stream, Calm, Sending
<1>4. TypeOK'
  BY <1>1 DEF TcpInv, TypeOK, ServerLabel, ClientLabel, MainLabel, DestroyLabel
<1>5. Wiring'
  BY <1>1 DEF TcpInv, Wiring, Busy, Running
<1>6. Fresh'
  BY <1>1 DEF TcpInv, Fresh
<1>7. Listing'
  BY <1>1 DEF TcpInv, Listing
<1>8. MainSocket'
  BY <1>1 DEF TcpInv, MainSocket, DestroyLabel
<1>9. Ending'
  BY <1>1 DEF TcpInv, Ending
<1>10. ConnectedIffClients'
  BY <1>1, RangeEmpty DEF TcpInv, Listing, ConnectedIffClients
<1> QED
  BY <1>2, <1>3, <1>4, <1>5, <1>6, <1>7, <1>8, <1>9, <1>10 DEF TcpInv

LEMMA NewClientKeeps ==
  ASSUME TcpInv, NewClient
  PROVE  TcpInv'
<1>1. /\ server.pc = "hello" /\ server'.pc = "spawn"
      /\ server'.fd = server.fd /\ server'.peer = server.peer
      /\ server' \in [pc : ServerLabel, fd : Fd \cup {0}, peer : Peer \cup {NoPeer}]
      /\ UNCHANGED <<kind, peer, fd, list, sock, connected, client, main, sent, got>>
  BY DEF NewClient, ServerTo, ServerLabel, shared, TcpInv, TypeOK
<1>2. server.peer \in Peer
  BY <1>1 DEF TcpInv, Wiring, Busy
<1>3. shut \subseteq shut' /\ shut' \subseteq Peer \cup {Listener}
  <2>1. shut' = shut \/ shut' = shut \cup {server.peer}
    BY DEF NewClient, Handshake
  <2> QED
    BY <1>2, <2>1 DEF TcpInv, TypeOK
<1>4. Ordered'
  BY <1>1 DEF TcpInv, Ordered
<1>5. TypeOK'
  BY <1>1, <1>2, <1>3 DEF TcpInv, TypeOK, ServerLabel, ClientLabel, MainLabel, DestroyLabel
<1>6. Wiring'
  BY <1>1, <1>2, <1>3 DEF TcpInv, Wiring, Busy, Running
<1>7. Fresh'
  BY <1>1, <1>2, <1>3 DEF TcpInv, Fresh
<1>8. Listing'
  BY <1>1, <1>2, <1>3 DEF TcpInv, Listing
<1>9. MainSocket'
  BY <1>1, <1>2, <1>3 DEF TcpInv, MainSocket, DestroyLabel
<1>10. Ending'
  BY <1>1, <1>2, <1>3 DEF TcpInv, Ending
<1>11. ConnectedIffClients'
  BY <1>1, <1>2, <1>3 DEF TcpInv, ConnectedIffClients
<1>12. Stream'
  BY <1>1, <1>2, <1>3 DEF TcpInv, Stream, Calm, Sending
<1> QED
  BY <1>4, <1>5, <1>6, <1>7, <1>8, <1>9, <1>10, <1>11, <1>12 DEF TcpInv

LEMMA ConnectKeeps ==
  ASSUME TcpInv, NEW p \in Peer, Connect(p)
  PROVE  TcpInv'
<1>1. /\ peer[p] = "away" /\ peer' = [peer EXCEPT ![p] = "backlog"]
      /\ UNCHANGED <<kind, shut, fd, list, sock, connected, server, client, main, sent, got>>
  BY DEF Connect, net, shared, TcpInv, TypeOK
<1>2. Wiring' /\ Listing' /\ MainSocket' /\ Ending' /\ ConnectedIffClients' /\ Ordered'
  BY <1>1 DEF TcpInv, Wiring, Busy, Running, Listing, MainSocket, DestroyLabel, Ending, ConnectedIffClients, Ordered
<1>3. Stream'
  BY <1>1 DEF TcpInv, Stream, Calm, Sending
<1>4. TypeOK'
  BY <1>1 DEF TcpInv, TypeOK, ServerLabel, ClientLabel, MainLabel, DestroyLabel
<1>5. Fresh'
  BY <1>1 DEF TcpInv, Fresh
<1> QED
  BY <1>2, <1>3, <1>4, <1>5 DEF TcpInv

LEMMA PeerCloseKeeps ==
  ASSUME TcpInv, NEW p \in Peer, PeerClose(p)
  PROVE  TcpInv'
<1>1. /\ peer[p] \in {"backlog", "open"} /\ peer' = [peer EXCEPT ![p] = "closed"]
      /\ UNCHANGED <<kind, shut, fd, list, sock, connected, server, client, main, sent, got>>
  BY DEF PeerClose, net, shared, TcpInv, TypeOK
<1>2. Wiring' /\ Listing' /\ MainSocket' /\ Ending' /\ ConnectedIffClients' /\ Ordered'
  BY <1>1 DEF TcpInv, Wiring, Busy, Running, Listing, MainSocket, DestroyLabel, Ending, ConnectedIffClients, Ordered
<1>3. Stream'
  BY <1>1 DEF TcpInv, Stream, Calm, Sending
<1>4. TypeOK'
  BY <1>1 DEF TcpInv, TypeOK, ServerLabel, ClientLabel, MainLabel, DestroyLabel
<1>5. Fresh'
  BY <1>1 DEF TcpInv, Fresh
<1> QED
  BY <1>2, <1>3, <1>4, <1>5 DEF TcpInv

LEMMA ClientRecvKeeps ==
  ASSUME TcpInv, NEW p \in Peer, ClientRecv(p)
  PROVE  TcpInv'
<1>1. /\ client[p].pc = "recv" /\ client[p].fd \in Fd
      /\ client' = [client EXCEPT ![p].pc = "leave"]
      /\ UNCHANGED <<kind, peer, shut, fd, list, sock, connected, server, main, sent, got>>
  BY DEF ClientRecv, ClientTo, Wiring, Running, net, shared, TcpInv, TypeOK
<1>2. MainSocket' /\ Ending' /\ ConnectedIffClients' /\ Ordered'
  BY <1>1 DEF TcpInv, MainSocket, DestroyLabel, Ending, ConnectedIffClients, Ordered
<1>3. Stream'
  BY <1>1 DEF TcpInv, Stream, Calm, Sending
<1>4. TypeOK'
  <2>1. client \in [Peer -> [pc : ClientLabel, fd : Fd \cup {0}]] /\ "leave" \in ClientLabel
    BY DEF TcpInv, TypeOK, ClientLabel
  <2>2. client'[p] = [client[p] EXCEPT !.pc = "leave"]
    BY <1>1, <2>1
  <2>3. client'[p] \in [pc : ClientLabel, fd : Fd \cup {0}]
    BY <2>1, <2>2
  <2> QED
    BY <1>1, <2>3 DEF TcpInv, TypeOK
<1>5. Wiring'
  BY <1>1 DEF TcpInv, Wiring, Busy, Running
<1>6. Fresh'
  BY <1>1 DEF TcpInv, Fresh
<1>7. Listing'
  BY <1>1 DEF TcpInv, Listing
<1> QED
  BY <1>2, <1>3, <1>4, <1>5, <1>6, <1>7 DEF TcpInv

LEMMA ServerPushKeeps ==
  ASSUME TcpInv, ServerPush
  PROVE  TcpInv'
<1>1. /\ server.pc = "push" /\ server'.pc = "flag" /\ main.pc # "sending"
      /\ server'.fd = server.fd /\ server'.peer = server.peer
      /\ server' \in [pc : ServerLabel, fd : Fd \cup {0}, peer : Peer \cup {NoPeer}]
      /\ list' = Append(list, server.fd)
      /\ UNCHANGED <<kind, peer, shut, fd, sock, connected, client, main, sent, got>>
  BY DEF ServerPush, ServerTo, ServerLabel, Locked, net, TcpInv, TypeOK
<1>2. /\ server.fd \in Fd /\ server.peer \in Peer /\ fd[server.fd] = server.peer
      /\ server.fd \notin Range(list) /\ got[server.peer] = <<>>
      /\ client[server.peer].pc = "none"
  BY <1>1 DEF TcpInv, Wiring, Busy, Listing
<1>3. /\ list' \in Seq(Fd) /\ list' # <<>> /\ IsInjective(list')
      /\ Range(list') = Range(list) \cup {server.fd}
  BY <1>1, <1>2, RangeAppend DEF TcpInv, TypeOK, Listing
<1>4. Ordered'
  BY <1>1 DEF TcpInv, Ordered
<1>5. TypeOK'
  BY <1>1, <1>2, <1>3 DEF TcpInv, TypeOK, ServerLabel, ClientLabel, MainLabel, DestroyLabel
<1>6. Wiring'
  BY <1>1, <1>2, <1>3 DEF TcpInv, Wiring, Busy, Running
<1>7. Fresh'
  BY <1>1, <1>2, <1>3 DEF TcpInv, Fresh
<1>8. Listing'
  <2>1. \A q \in Peer : client[q].pc = "close" => client[q].fd # server.fd
    BY <1>2 DEF TcpInv, Wiring, Running
  <2> QED
    BY <1>1, <1>2, <1>3, <2>1 DEF TcpInv, Listing
<1>9. MainSocket'
  BY <1>1, <1>3 DEF TcpInv, MainSocket, DestroyLabel
<1>10. Ending'
  BY <1>1 DEF TcpInv, Ending
<1>11. ConnectedIffClients'
  <2>1. list = <<>> => list' = <<server.fd>>
    BY <1>1
  <2>2. list # <<>> => connected
    BY <1>1 DEF TcpInv, ConnectedIffClients
  <2> QED
    BY <1>1, <1>3, <2>1, <2>2 DEF ConnectedIffClients
<1>12. Stream'
  <2>1. Before(got[fd[server.fd]], sent) /\ Before(got[fd[server.fd]], sent + 1)
    BY <1>2 DEF Before
  <2>2. Calm'
    BY <1>1, <1>3, <2>1 DEF TcpInv, Stream, Calm
  <2> QED
    BY <1>1, <2>2 DEF TcpInv, Stream, Sending
<1> QED
  BY <1>4, <1>5, <1>6, <1>7, <1>8, <1>9, <1>10, <1>11, <1>12 DEF TcpInv

LEMMA AcceptKeeps ==
  ASSUME TcpInv, Accept
  PROVE  TcpInv'
<1>1. PICK p \in Peer :
        /\ server.pc = "accept" /\ Listener \notin shut /\ peer[p] = "backlog"
        /\ peer' = [peer EXCEPT ![p] = "open"] /\ fd' = [fd EXCEPT ![LowestFree] = p]
        /\ server' = [pc |-> "push", fd |-> LowestFree, peer |-> p]
        /\ UNCHANGED <<kind, shut, list, sock, connected, client, main, sent, got>>
  BY DEF Accept, shared
<1>2. /\ client[p].pc = "none" /\ server.peer = NoPeer /\ got[p] = <<>>
      /\ \A f \in Fd : fd[f] # p
  <2>1. client[p].pc = "none" /\ server.peer # p /\ got[p] = <<>>
    BY <1>1 DEF TcpInv, Fresh
  <2>2. server.peer = NoPeer
    BY <1>1 DEF TcpInv, Wiring, Busy
  <2>3. \A f \in Fd : fd[f] # p
    BY <2>1 DEF TcpInv, Wiring, Running
  <2> QED
    BY <2>1, <2>2, <2>3
<1>3. LowestFree \in Fd /\ fd[LowestFree] = NoPeer
  BY <1>2, FreeFound DEF TcpInv
<1>4. \A f \in Range(list) : f # LowestFree
  BY <1>3, TcpAssumption DEF TcpInv, Listing
<1> DEFINE g == LowestFree
<1>5. /\ fd' = [fd EXCEPT ![g] = p] /\ g \in Fd /\ fd[g] = NoPeer /\ fd'[g] = p
      /\ \A f \in Fd : f # g => fd'[f] = fd[f]
      /\ server'.pc = "push" /\ server'.fd = g /\ server'.peer = p
      /\ server' \in [pc : ServerLabel, fd : Fd \cup {0}, peer : Peer \cup {NoPeer}]
      /\ \A f \in Range(list) : f \in Fd /\ f # g
  BY <1>1, <1>3, <1>4, RangeIn DEF TcpInv, TypeOK, ServerLabel
<1> HIDE DEF g
<1>6. Ordered'
  BY <1>1 DEF TcpInv, Ordered
<1>7. TypeOK'
  BY <1>1, <1>5 DEF TcpInv, TypeOK
<1>8. Wiring'
  <2>1. \A f, h \in Fd : fd'[f] = fd'[h] /\ fd'[f] # NoPeer => f = h
    BY <1>2, <1>5 DEF TcpInv, Wiring
  <2>2. \A q \in Peer : Running(q) => client[q].fd \in Fd /\ fd'[client[q].fd] = q
    BY <1>5, TcpAssumption DEF TcpInv, Wiring, Running
  <2>3. \A f \in Fd, q \in Peer : fd'[f] = q =>
          \/ Running(q) /\ client[q].fd = f
          \/ server'.peer = q /\ server'.fd = f
    BY <1>2, <1>5, TcpAssumption DEF TcpInv, Wiring, Running
  <2>4. UNCHANGED client
    BY <1>1
  <2> QED
    BY <1>2, <1>5, <2>1, <2>2, <2>3, <2>4 DEF Wiring, Busy, Running
<1>9. Fresh'
  BY <1>1, <1>2, <1>5 DEF TcpInv, TypeOK, Fresh
<1>10. Listing'
  BY <1>1, <1>2, <1>5 DEF TcpInv, Listing
<1>11. MainSocket'
  <2>1. kind # "connect"
    BY <1>1 DEF TcpInv, MainSocket
  <2>2. main.pc \notin DestroyLabel
    BY <1>1, <2>1 DEF TcpInv, MainSocket
  <2>3. fd'[1] = fd[1] \/ fd[1] = NoPeer
    BY <1>5, FdNumbers
  <2> QED
    BY <1>1, <2>1, <2>2, <2>3, TcpAssumption DEF TcpInv, MainSocket, DestroyLabel
<1>12. Ending'
  BY <1>1, <1>5 DEF TcpInv, Ending
<1>13. ConnectedIffClients'
  BY <1>1, <1>5 DEF TcpInv, ConnectedIffClients
<1>14. Stream'
  BY <1>1, <1>5, ListIs DEF TcpInv, Stream, Calm, Sending
<1> QED
  BY <1>6, <1>7, <1>8, <1>9, <1>10, <1>11, <1>12, <1>13, <1>14 DEF TcpInv

LEMMA ServerSpawnKeeps ==
  ASSUME TcpInv, ServerSpawn
  PROVE  TcpInv'
<1>1. /\ server.pc = "spawn"
      /\ client' = [client EXCEPT ![server.peer] = [pc |-> "recv", fd |-> server.fd]]
      /\ server' = [pc |-> "loop", fd |-> 0, peer |-> NoPeer]
      /\ UNCHANGED <<kind, peer, shut, fd, list, sock, connected, main, sent, got>>
  BY DEF ServerSpawn, net, shared
<1>2. /\ server.fd \in Fd /\ server.peer \in Peer /\ fd[server.fd] = server.peer
      /\ client[server.peer].pc = "none" /\ server.fd \in Range(list)
  BY <1>1 DEF TcpInv, Wiring, Busy, Listing
<1> DEFINE p == server.peer
<1>3. /\ client'[p].pc = "recv" /\ client'[p].fd = server.fd
      /\ client' \in [Peer -> [pc : ClientLabel, fd : Fd \cup {0}]]
      /\ \A q \in Peer : q # p => client'[q] = client[q]
      /\ server'.pc = "loop" /\ server'.peer = NoPeer
      /\ server' \in [pc : ServerLabel, fd : Fd \cup {0}, peer : Peer \cup {NoPeer}]
  BY <1>1, <1>2 DEF TcpInv, TypeOK, ServerLabel, ClientLabel
<1> HIDE DEF p
<1>4. Ordered'
  BY <1>1 DEF TcpInv, Ordered
<1>5. Stream'
  BY <1>1 DEF TcpInv, Stream, Calm, Sending
<1>6. TypeOK'
  BY <1>1, <1>3 DEF TcpInv, TypeOK
<1>7. Wiring'
  <2>1. \A q \in Peer : Running(q)' => client'[q].fd \in Fd /\ fd[client'[q].fd] = q
    BY <1>2, <1>3 DEF TcpInv, Wiring, Running, p
  <2>2. \A f \in Fd, q \in Peer : fd[f] = q => Running(q)' /\ client'[q].fd = f
    <3> SUFFICES ASSUME NEW f \in Fd, NEW q \in Peer, fd[f] = q
                 PROVE  client'[q].pc \in {"recv", "leave", "close"} /\ client'[q].fd = f
      BY DEF Running
    <3>1. CASE q = p
      <4>1. f = server.fd
        BY <1>2, <3>1, TcpAssumption DEF TcpInv, Wiring, p
      <4> QED
        BY <1>3, <3>1, <4>1
    <3>2. CASE q # p
      BY <1>3, <3>2 DEF TcpInv, Wiring, Running, p
    <3> QED
      BY <3>1, <3>2
  <2> QED
    BY <1>1, <1>3, <2>1, <2>2 DEF TcpInv, Wiring, Busy
<1>8. Fresh'
  BY <1>1, <1>2, <1>3, TcpAssumption DEF TcpInv, Fresh, p
<1>9. Listing'
  BY <1>1, <1>2, <1>3 DEF TcpInv, Listing
<1>10. MainSocket'
  BY <1>1, <1>3 DEF TcpInv, MainSocket
<1>11. Ending'
  BY <1>1, <1>3 DEF TcpInv, Ending
<1>12. ConnectedIffClients'
  BY <1>1, <1>3 DEF TcpInv, ConnectedIffClients
<1> QED
  BY <1>4, <1>5, <1>6, <1>7, <1>8, <1>9, <1>10, <1>11, <1>12 DEF TcpInv

LEMMA ClientLeaveKeeps ==
  ASSUME TcpInv, NEW p \in Peer, ClientLeave(p)
  PROVE  TcpInv'
<1>1. /\ client[p].pc = "leave" /\ main.pc # "sending"
      /\ list' \in ListWithout(client[p].fd)
      /\ sock = client[p].fd => sock' = 0
      /\ sock # client[p].fd => sock' = sock
      /\ client' = [client EXCEPT ![p].pc = "close"]
      /\ UNCHANGED <<kind, peer, shut, fd, server, main, sent, got>>
  BY DEF ClientLeave, ClientTo, Locked, net
<1>2. connected' \in BOOLEAN /\ (connected' <=> connected /\ list' # <<>>)
  BY DEF ClientLeave, StillConnected, TcpInv, TypeOK
<1>3. /\ client[p].fd \in Fd /\ fd[client[p].fd] = p /\ client[p].fd \in Range(list)
      /\ server.peer # p
  BY <1>1, TcpAssumption DEF TcpInv, Wiring, Running, Listing, Busy
<1>4. /\ list' \in Seq(Fd) /\ IsInjective(list')
      /\ Range(list') = Range(list) \ {client[p].fd}
  BY <1>1, <1>3, TakenOff DEF TcpInv
<1>5. /\ client'[p].pc = "close" /\ client'[p].fd = client[p].fd
      /\ client' \in [Peer -> [pc : ClientLabel, fd : Fd \cup {0}]]
      /\ \A q \in Peer : q # p => client'[q] = client[q]
  <2>1. client'[p] \in [pc : ClientLabel, fd : Fd \cup {0}]
    BY ZenonT(40), <1>1 DEF TcpInv, TypeOK, ClientLabel
  <2> QED
    BY <1>1, <2>1 DEF TcpInv, TypeOK
<1>6. Ordered'
  BY <1>1 DEF TcpInv, Ordered
<1>7. TypeOK'
  BY <1>1, <1>2, <1>4, <1>5 DEF TcpInv, TypeOK
<1>8. Wiring'
  BY <1>1, <1>3, <1>5 DEF TcpInv, Wiring, Busy, Running
<1>9. Fresh'
  BY <1>1, <1>5 DEF TcpInv, Fresh
<1>10. Listing'
  <2>1. \A q \in Peer : q # p /\ Running(q) => client[q].fd # client[p].fd
    BY <1>3 DEF TcpInv, Wiring, Running
  <2>2. server.pc \in {"flag", "hello", "spawn"} => server.fd # client[p].fd
    BY <1>3 DEF TcpInv, Wiring, Busy
  <2> QED
    BY <1>1, <1>4, <1>5, <2>1, <2>2 DEF TcpInv, Listing, Running
<1>11. MainSocket'
  <2>1. fd[client[p].fd] # Listener /\ fd[client[p].fd] # NoPeer /\ client[p].fd # 0
    BY <1>3, FdNumbers, TcpAssumption
  <2> QED
    BY <1>1, <1>4, <2>1 DEF TcpInv, MainSocket, DestroyLabel
<1>12. Ending'
  <2>1. list # <<>>
    BY <1>3, RangeEmpty
  <2> QED
    BY <1>1, <2>1 DEF TcpInv, Ending
<1>13. ConnectedIffClients'
  <2>1. ~(server.pc = "flag" /\ list = <<server.fd>>)
    <3>1. Range(list) = {list[i] : i \in 1 .. Len(list)}
      BY RangeIn DEF TcpInv, TypeOK
    <3> SUFFICES ASSUME server.pc = "flag", list = <<server.fd>> PROVE FALSE
      OBVIOUS
    <3>2. Len(list) = 1 /\ list[1] = server.fd
      OBVIOUS
    <3>3. Range(list) = {server.fd}
      BY <3>1, <3>2
    <3>4. fd[server.fd] = server.peer
      BY DEF TcpInv, Wiring, Busy
    <3> QED
      BY <1>3, <3>3, <3>4
  <2>2. list # <<>> /\ connected
    BY <1>3, <2>1, RangeEmpty DEF TcpInv, ConnectedIffClients
  <2> QED
    BY <1>2, <2>2 DEF ConnectedIffClients
<1>14. Stream'
  BY <1>1, <1>4 DEF TcpInv, Stream, Calm, Sending
<1> QED
  BY <1>6, <1>7, <1>8, <1>9, <1>10, <1>11, <1>12, <1>13, <1>14 DEF TcpInv

LEMMA ClientCloseKeeps ==
  ASSUME TcpInv, NEW p \in Peer, ClientClose(p)
  PROVE  TcpInv'
<1>1. /\ client[p].pc = "close"
      /\ fd' = [fd EXCEPT ![client[p].fd] = NoPeer]
      /\ client' = [client EXCEPT ![p].pc = "done"]
      /\ UNCHANGED <<kind, peer, shut, list, sock, connected, server, main, sent, got>>
  BY DEF ClientClose, ClientTo, shared
<1>2. /\ client[p].fd \in Fd /\ fd[client[p].fd] = p /\ client[p].fd \notin Range(list)
      /\ server.peer # p
  BY <1>1, TcpAssumption DEF TcpInv, Wiring, Running, Listing, Busy
<1>3. /\ client'[p].pc = "done" /\ client'[p].fd = client[p].fd
      /\ client' \in [Peer -> [pc : ClientLabel, fd : Fd \cup {0}]]
      /\ \A q \in Peer : q # p => client'[q] = client[q]
  <2>1. client'[p] \in [pc : ClientLabel, fd : Fd \cup {0}]
    BY <1>1 DEF TcpInv, TypeOK, ClientLabel
  <2> QED
    BY <1>1, <2>1 DEF TcpInv, TypeOK
<1>4. /\ fd'[client[p].fd] = NoPeer /\ fd' \in [Fd -> Peer \cup {NoPeer, Listener}]
      /\ \A f \in Fd : f # client[p].fd => fd'[f] = fd[f]
      /\ \A f \in Range(list) : f \in Fd /\ f # client[p].fd
  BY <1>1, <1>2, RangeIn DEF TcpInv, TypeOK
<1>5. Ending' /\ ConnectedIffClients' /\ Ordered'
  BY <1>1 DEF TcpInv, Ending, ConnectedIffClients, Ordered
<1>6. TypeOK'
  BY <1>1, <1>3, <1>4 DEF TcpInv, TypeOK
<1>7. Wiring'
  <2>1. \A f, h \in Fd : fd'[f] = fd'[h] /\ fd'[f] # NoPeer => f = h
    BY <1>4 DEF TcpInv, Wiring
  <2>2. \A q \in Peer : Running(q)' => client'[q].fd \in Fd /\ fd'[client'[q].fd] = q
    BY <1>2, <1>3, <1>4 DEF TcpInv, Wiring, Running
  <2>3. \A f \in Fd, q \in Peer : fd'[f] = q =>
          \/ Running(q)' /\ client'[q].fd = f
          \/ server.peer = q /\ server.fd = f
    <3> SUFFICES ASSUME NEW f \in Fd, NEW q \in Peer, fd'[f] = q
                 PROVE  \/ client'[q].pc \in {"recv", "leave", "close"} /\ client'[q].fd = f
                        \/ server.peer = q /\ server.fd = f
      BY DEF Running
    <3>1. f # client[p].fd
      BY <1>4, TcpAssumption
    <3>2. fd[f] = q
      BY <1>4, <3>1
    <3>3. q # p
      BY <1>2, <3>1, <3>2, TcpAssumption DEF TcpInv, Wiring
    <3> QED
      BY <1>3, <3>2, <3>3 DEF TcpInv, Wiring, Running
  <2>4. Busy => fd'[server.fd] = fd[server.fd] /\ client'[server.peer] = client[server.peer]
    <3> SUFFICES ASSUME Busy PROVE server.fd # client[p].fd /\ server.fd \in Fd /\ server.peer \in Peer
      BY <1>2, <1>3, <1>4
    <3> QED
      BY <1>2 DEF TcpInv, Wiring
  <2> QED
    BY <1>1, <2>1, <2>2, <2>3, <2>4 DEF TcpInv, Wiring, Busy
<1>8. Fresh'
  BY <1>1, <1>3 DEF TcpInv, Fresh
<1>9. Listing'
  BY <1>1, <1>3, <1>4 DEF TcpInv, Listing
<1>10. MainSocket'
  <2>1. fd'[1] = fd[1] \/ (fd[1] # Listener /\ fd'[1] = NoPeer)
    BY <1>2, <1>4, FdNumbers, TcpAssumption
  <2> QED
    BY <1>1, <2>1 DEF TcpInv, MainSocket, DestroyLabel
<1>11. Stream'
  BY <1>1, <1>4, ListIs DEF TcpInv, Stream, Calm, Sending
<1> QED
  BY <1>5, <1>6, <1>7, <1>8, <1>9, <1>10, <1>11 DEF TcpInv

LEMMA SendSomeKeeps ==
  ASSUME TcpInv, SendSome
  PROVE  TcpInv'
<1> DEFINE p == fd[list[main.at]]
<1>1. /\ main.pc = "sending" /\ main.at \in 1 .. Len(list)
      /\ UNCHANGED <<kind, peer, fd, list, sock, connected, server, client, sent>>
  BY LenProperties DEF SendSome, shared, TcpInv, TypeOK
<1>2. /\ p \in Peer /\ got[p] \in Seq(Nat \X Nat) /\ peer[p] \notin {"away", "backlog"}
      /\ list[main.at] \in Range(list)
      /\ \A i \in 1 .. Len(list) : i # main.at => fd[list[i]] # p
  BY <1>1, ListIs
<1>3. main.at \in Nat /\ main.sent \in Nat /\ main.sent < Pieces /\ Pieces \in Nat /\ sent \in Nat
  BY TcpAssumption DEF TcpInv, TypeOK, Stream
<1> DEFINE Next1 == main'.at = main.at + 1 /\ main'.sent = 0
<1>4. \/ \E n \in 1 .. Pieces - main.sent :
           /\ p \notin shut /\ got' = [got EXCEPT ![p] = Sends(@, sent, main.sent, n)]
           /\ main.sent + n < Pieces => main'.at = main.at /\ main'.sent = main.sent + n
           /\ ~(main.sent + n < Pieces) => Next1
           /\ shut' = shut
      \/ shut' = shut \cup {p} /\ Next1 /\ got' = got
  BY ZenonT(40), <1>1 DEF SendSome, Sent, NextClient, Sends, TcpInv, TypeOK
<1>5. main'.pc = "sending" /\ main' \in [pc : MainLabel, at : Nat, sent : Nat]
  <2>1. \/ \E n \in 1 .. Pieces - main.sent : main' = [main EXCEPT !.sent = @ + n]
        \/ main' = [main EXCEPT !.at = @ + 1, !.sent = 0]
    BY DEF SendSome, Sent, NextClient
  <2>2. \A n \in 1 .. Pieces - main.sent : main.sent + n \in Nat
    BY <1>3
  <2>3. main.at + 1 \in Nat /\ main \in [pc : MainLabel, at : Nat, sent : Nat]
    BY <1>3 DEF TcpInv, TypeOK
  <2>4. ASSUME NEW n \in Nat, main' = [main EXCEPT !.sent = n]
        PROVE  main'.pc = "sending" /\ main' \in [pc : MainLabel, at : Nat, sent : Nat]
    BY <1>1, <2>3, <2>4
  <2>5. ASSUME main' = [main EXCEPT !.at = @ + 1, !.sent = 0]
        PROVE  main'.pc = "sending" /\ main' \in [pc : MainLabel, at : Nat, sent : Nat]
    BY <1>1, <2>3, <2>5
  <2> QED
    BY <2>1, <2>2, <2>4, <2>5
<1> HIDE DEF p
<1>6. \A i \in 1 .. Len(list) : fd[list[i]] \notin shut =>
        /\ i < main.at => Before(got[fd[list[i]]], sent + 1)
        /\ i = main.at => Part(got[p], sent, main.sent)
        /\ i > main.at => Before(got[fd[list[i]]], sent)
  BY <1>1 DEF TcpInv, Stream, Sending, p
<1>7. CASE shut' = shut \cup {p} /\ Next1 /\ got' = got
  <2>1. \A i \in 1 .. Len(list) : fd[list[i]] \notin shut' =>
          /\ i < main.at + 1 => Before(got[fd[list[i]]], sent + 1)
          /\ i = main.at + 1 => Part(got[fd[list[i]]], sent, 0)
          /\ i > main.at + 1 => Before(got[fd[list[i]]], sent)
    <3> SUFFICES ASSUME NEW i \in 1 .. Len(list), fd[list[i]] \notin shut'
                 PROVE  /\ i < main.at + 1 => Before(got[fd[list[i]]], sent + 1)
                        /\ i >= main.at + 1 => Before(got[fd[list[i]]], sent)
      BY <1>3 DEF Part
    <3>1. i # main.at /\ fd[list[i]] \notin shut
      BY <1>7 DEF p
    <3>2. i < main.at + 1 => i < main.at
      BY <1>3, <3>1
    <3>3. i >= main.at + 1 => i > main.at
      BY <1>3
    <3> QED
      BY <1>6, <3>1, <3>2, <3>3
  <2>2. Sending'
    BY <1>1, <1>3, <1>7, <2>1 DEF Sending
  <2>3. Stream'
    BY <1>5, <1>7, <2>2, TcpAssumption DEF Stream, Calm
  <2>4. shut' \subseteq Peer \cup {Listener} /\ shut \subseteq shut' /\ got' = got
    BY <1>2, <1>7 DEF TcpInv, TypeOK
  <2> QED
    BY <1>1, <1>5, <2>3, <2>4, Quietly
<1>8. CASE \E n \in 1 .. Pieces - main.sent :
             /\ p \notin shut /\ got' = [got EXCEPT ![p] = Sends(@, sent, main.sent, n)]
             /\ main.sent + n < Pieces => main'.at = main.at /\ main'.sent = main.sent + n
             /\ ~(main.sent + n < Pieces) => Next1
             /\ shut' = shut
  <2>1. PICK n \in 1 .. Pieces - main.sent :
             /\ p \notin shut /\ got' = [got EXCEPT ![p] = Sends(@, sent, main.sent, n)]
             /\ main.sent + n < Pieces => main'.at = main.at /\ main'.sent = main.sent + n
             /\ ~(main.sent + n < Pieces) => Next1
             /\ shut' = shut
    BY <1>8
  <2>2. n \in Nat \ {0} /\ main.sent + n <= Pieces
    BY <1>3
  <2>3. Part(got[p], sent, main.sent) /\ InOrder(got[p])
    BY <1>1, <1>2, <1>6, <2>1 DEF p, TcpInv, Ordered
  <2> DEFINE h == Sends(got[p], sent, main.sent, n)
  <2>4. /\ h \in Seq(Nat \X Nat) /\ InOrder(h) /\ Part(h, sent, main.sent + n)
        /\ main.sent + n = Pieces => Before(h, sent + 1)
    BY <1>2, <1>3, <2>2, <2>3, Appended
  <2>5. got' = [got EXCEPT ![p] = h]
    BY <2>1
  <2> HIDE DEF h
  <2>6. got'[p] = h /\ \A q \in Peer : q # p => got'[q] = got[q]
    BY <1>2, <2>5 DEF TcpInv, TypeOK
  <2>7. \A i \in 1 .. Len(list) :
          got'[fd[list[i]]] = IF i = main.at THEN h ELSE got[fd[list[i]]]
    BY <1>2, <2>6, ListIs DEF p
  <2>8. Sending'
    <3>1. CASE main.sent + n < Pieces
      <4>1. main'.at = main.at /\ main'.sent = main.sent + n
        BY <2>1, <3>1
      <4>2. \A i \in 1 .. Len(list) : fd[list[i]] \notin shut =>
              /\ i < main.at => Before(got'[fd[list[i]]], sent + 1)
              /\ i = main.at => Part(got'[fd[list[i]]], sent, main.sent + n)
              /\ i > main.at => Before(got'[fd[list[i]]], sent)
        <5> SUFFICES ASSUME NEW i \in 1 .. Len(list), fd[list[i]] \notin shut
                     PROVE  /\ i < main.at => Before(got'[fd[list[i]]], sent + 1)
                            /\ i = main.at => Part(got'[fd[list[i]]], sent, main.sent + n)
                            /\ i > main.at => Before(got'[fd[list[i]]], sent)
          OBVIOUS
        <5>1. CASE i = main.at
          BY <1>3, <2>4, <2>7, <5>1
        <5>2. CASE i # main.at
          BY <1>6, <2>7, <5>2
        <5> QED
          BY <5>1, <5>2
      <4> QED
        BY <1>1, <2>1, <4>1, <4>2 DEF Sending
    <3>2. CASE ~(main.sent + n < Pieces)
      <4>1. main.sent + n = Pieces
        BY <1>3, <2>2, <3>2
      <4>2. main'.at = main.at + 1 /\ main'.sent = 0 /\ Before(h, sent + 1)
        BY <2>1, <2>4, <3>2, <4>1
      <4>3. \A i \in 1 .. Len(list) : fd[list[i]] \notin shut =>
              /\ i < main.at + 1 => Before(got'[fd[list[i]]], sent + 1)
              /\ i >= main.at + 1 => Before(got'[fd[list[i]]], sent)
        <5> SUFFICES ASSUME NEW i \in 1 .. Len(list), fd[list[i]] \notin shut
                     PROVE  /\ i < main.at + 1 => Before(got'[fd[list[i]]], sent + 1)
                            /\ i >= main.at + 1 => Before(got'[fd[list[i]]], sent)
          OBVIOUS
        <5>1. CASE i = main.at
          BY <1>3, <2>7, <4>2, <5>1
        <5>2. CASE i # main.at
          <6>1. (i < main.at + 1 => i < main.at) /\ (i >= main.at + 1 => i > main.at)
            BY <1>3, <5>2
          <6> QED
            BY <1>6, <2>7, <5>2, <6>1
        <5> QED
          BY <5>1, <5>2
      <4>4. \A i \in 1 .. Len(list) : fd[list[i]] \notin shut =>
              /\ i < main.at + 1 => Before(got'[fd[list[i]]], sent + 1)
              /\ i = main.at + 1 => Part(got'[fd[list[i]]], sent, 0)
              /\ i > main.at + 1 => Before(got'[fd[list[i]]], sent)
        BY <1>3, <4>3 DEF Part
      <4> QED
        BY <1>1, <1>3, <2>1, <4>2, <4>4 DEF Sending
    <3> QED
      BY <3>1, <3>2
  <2>9. main'.sent < Pieces
    BY <1>3, <2>1
  <2>10. TypeOK'
    <3>1. got' \in [Peer -> Seq(Nat \X Nat)]
      BY <2>4, <2>5 DEF TcpInv, TypeOK
    <3> QED
      BY <1>1, <1>5, <2>1, <3>1 DEF TcpInv, TypeOK
  <2>11. Stream'
    BY <1>5, <2>8, <2>9 DEF Stream, Calm
  <2>12. Ordered'
    BY <2>4, <2>6 DEF TcpInv, Ordered
  <2>13. Fresh'
    BY <1>1, <1>2, <2>6 DEF TcpInv, Fresh
  <2>14. Listing'
    <3>1. server.pc = "push" => server.peer # p
      <4> SUFFICES ASSUME server.pc = "push", server.peer = p PROVE FALSE
        OBVIOUS
      <4>1. /\ server.fd \in Fd /\ fd[server.fd] = p
            /\ server.fd \notin Range(list)
        BY DEF TcpInv, Wiring, Busy, Listing
      <4>2. list[main.at] \in Fd /\ fd[list[main.at]] = p
        BY <1>1, ListIs DEF p
      <4>3. list[main.at] = server.fd
        BY <1>2, <4>1, <4>2, TcpAssumption DEF TcpInv, Wiring
      <4> QED
        BY <1>2, <4>1, <4>3
    <3>2. server.pc = "push" => got'[server.peer] = <<>>
      BY <2>6, <3>1 DEF TcpInv, Listing, Wiring, Busy
    <3> QED
      BY <1>1, <3>2 DEF TcpInv, Listing
  <2>15. Wiring' /\ Ending' /\ ConnectedIffClients'
    BY <1>1, <1>5 DEF TcpInv, Wiring, Busy, Running, Ending, ConnectedIffClients
  <2>16. MainSocket'
    BY <1>1, <1>5, <2>1 DEF TcpInv, MainSocket, DestroyLabel
  <2> QED
    BY <2>10, <2>11, <2>12, <2>13, <2>14, <2>15, <2>16 DEF TcpInv
<1> QED
  BY <1>4, <1>7, <1>8

LEMMA DestroyKeeps ==
  ASSUME TcpInv, Destroy
  PROVE  TcpInv'
<1>1. /\ main.pc = "idle" /\ main'.pc \in {"destroy_close", "destroy_zero"}
      /\ main'.at = main.at /\ main'.sent = main.sent
      /\ main' \in [pc : MainLabel, at : Nat, sent : Nat]
      /\ UNCHANGED <<kind, peer, fd, list, sock, connected, server, client, sent, got>>
  BY DEF Destroy, MainTo, MainLabel, DestroyLabel, shared, TcpInv, TypeOK
<1> DEFINE own == sock # 0 /\ ~InList(sock)
<1>2. /\ main'.pc = "destroy_close" <=> own
      /\ shut' = shut \cup {fd[list[i]] : i \in DOMAIN list} \cup MainShut(own)
  BY <1>1 DEF Destroy, MainTo, TcpInv, TypeOK
<1>3. DOMAIN list = 1 .. Len(list)
  BY LenProperties DEF TcpInv, TypeOK
<1>4. shut \subseteq shut' /\ shut' \subseteq Peer \cup {Listener} /\ (own => Listener \in shut')
  <2>1. \A i \in DOMAIN list : fd[list[i]] \in Peer
    BY <1>3, ListIs
  <2> HIDE DEF own
  <2> QED
    BY <1>2, <2>1 DEF MainShut, TcpInv, TypeOK
<1>5. kind = "connect" => ~own
  <2>1. Range(list) = {list[i] : i \in DOMAIN list}
    BY <1>3, RangeIn DEF TcpInv, TypeOK
  <2> QED
    BY <2>1 DEF TcpInv, TypeOK, MainSocket, InList
<1>6. kind # "connect" => own
  <2>1. \A i \in DOMAIN list : fd[list[i]] # Listener
    BY <1>3, ListIs, TcpAssumption
  <2> QED
    BY <1>1, <2>1 DEF TcpInv, MainSocket, InList
<1> HIDE DEF own
<1>7. Wiring' /\ Fresh' /\ Listing' /\ ConnectedIffClients' /\ Ordered'
  BY <1>1 DEF TcpInv, Wiring, Busy, Running, Fresh, Listing, ConnectedIffClients, Ordered
<1>8. TypeOK'
  BY <1>1, <1>4 DEF TcpInv, TypeOK
<1>9. MainSocket'
  <2>1. CASE kind = "connect"
    BY <1>1, <1>2, <1>5, <2>1 DEF TcpInv, MainSocket
  <2>2. CASE kind # "connect"
    <3>1. main'.pc = "destroy_close" /\ Listener \in shut'
      BY <1>2, <1>4, <1>6, <2>2
    <3> QED
      BY <1>1, <2>2, <3>1 DEF TcpInv, MainSocket, DestroyLabel
  <2> QED
    BY <2>1, <2>2
<1>10. Ending'
  BY <1>1 DEF TcpInv, Ending
<1>11. Stream'
  BY <1>1, <1>4 DEF TcpInv, Stream, Calm, Sending
<1> QED
  BY <1>7, <1>8, <1>9, <1>10, <1>11 DEF TcpInv

LEMMA DestroyCloseKeeps ==
  ASSUME TcpInv, DestroyClose
  PROVE  TcpInv'
<1>1. /\ main.pc = "destroy_close" /\ main'.pc = "destroy_zero"
      /\ main'.at = main.at /\ main'.sent = main.sent
      /\ main' \in [pc : MainLabel, at : Nat, sent : Nat]
      /\ fd' = [fd EXCEPT ![sock] = NoPeer]
      /\ UNCHANGED <<kind, peer, shut, list, sock, connected, server, client, sent, got>>
  BY DEF DestroyClose, MainTo, MainLabel, DestroyLabel, shared, TcpInv, TypeOK
<1>2. kind # "connect" /\ sock = 1 /\ fd[1] = Listener /\ 1 \in Fd
  BY <1>1, FdNumbers DEF TcpInv, MainSocket
<1>3. /\ fd'[1] = NoPeer /\ fd' \in [Fd -> Peer \cup {NoPeer, Listener}]
      /\ \A f \in Fd : f # 1 => fd'[f] = fd[f]
      /\ \A f \in Range(list) : f \in Fd /\ f # 1
  <2>1. \A f \in Range(list) : f \in Fd
    BY RangeIn DEF TcpInv, TypeOK
  <2>2. \A f \in Range(list) : f # 1
    BY <1>2, TcpAssumption DEF TcpInv, Listing
  <2>3. fd \in [Fd -> Peer \cup {NoPeer, Listener}]
    BY DEF TcpInv, TypeOK
  <2> QED
    BY <1>1, <1>2, <2>1, <2>2, <2>3
<1>4. Fresh' /\ ConnectedIffClients' /\ Ordered'
  BY <1>1 DEF TcpInv, Fresh, ConnectedIffClients, Ordered
<1>5. TypeOK'
  BY <1>1, <1>3 DEF TcpInv, TypeOK
<1>6. Wiring'
  <2>1. \A f, h \in Fd : fd'[f] = fd'[h] /\ fd'[f] # NoPeer => f = h
    BY <1>3 DEF TcpInv, Wiring
  <2>2. \A q \in Peer : Running(q) => client[q].fd \in Fd /\ fd'[client[q].fd] = q
    BY <1>2, <1>3, TcpAssumption DEF TcpInv, Wiring
  <2>3. \A f \in Fd, q \in Peer : fd'[f] = q =>
          \/ Running(q) /\ client[q].fd = f
          \/ server.peer = q /\ server.fd = f
    BY <1>3, TcpAssumption DEF TcpInv, Wiring
  <2>4. Busy => fd'[server.fd] = fd[server.fd]
    BY <1>2, <1>3, TcpAssumption DEF TcpInv, Wiring
  <2> QED
    BY <1>1, <2>1, <2>2, <2>3, <2>4 DEF TcpInv, Wiring, Busy, Running
<1>7. Listing'
  BY <1>1, <1>3 DEF TcpInv, Listing
<1>8. MainSocket'
  BY <1>1, <1>2, <1>3 DEF TcpInv, MainSocket, DestroyLabel
<1>9. Ending'
  BY <1>1 DEF TcpInv, Ending
<1>10. Stream'
  BY <1>1, <1>3, ListIs DEF TcpInv, Stream, Calm, Sending
<1> QED
  BY <1>4, <1>5, <1>6, <1>7, <1>8, <1>9, <1>10 DEF TcpInv

LEMMA InitSound == Init => TcpInv
<1>1. Pieces > 0 /\ 1 \in Fd /\ NoPeer \notin Peer /\ Listener \notin Peer /\ NoPeer # Listener
  BY FdNumbers, TcpAssumption
<1>2. ASSUME NEW p \in Peer, kind = "connect", Started("idle"), Idle("done"), shut = {},
             peer = [Nobody EXCEPT ![p] = "open"],
             fd = [f \in Fd |-> IF f = 1 THEN p ELSE NoPeer],
             list = << 1 >>, sock = 1, connected = TRUE,
             client = [NoThread EXCEPT ![p] = [pc |-> "recv", fd |-> 1]]
      PROVE  TcpInv
  <2>1. /\ list \in Seq(Fd) /\ Range(list) = {1} /\ IsInjective(list)
    <3>1. <<>> \in Seq(Fd)
      OBVIOUS
    <3>2. /\ Append(<<>>, 1) \in Seq(Fd)
          /\ Range(Append(<<>>, 1)) = Range(<<>>) \cup {1}
          /\ 1 \notin Range(<<>>) => IsInjective(Append(<<>>, 1))
      BY <1>1, <3>1, RangeEmpty, RangeAppend
    <3>3. list = Append(<<>>, 1)
      BY <1>2
    <3> QED
      BY <3>2, <3>3, RangeEmpty
  <2>2. /\ main = [pc |-> "idle", at |-> 0, sent |-> 0] /\ sent = 0
        /\ got = [q \in Peer |-> <<>>]
        /\ server = [pc |-> "done", fd |-> 0, peer |-> NoPeer]
    BY <1>2 DEF Started, Idle
  <2>3. \A q \in Peer : /\ peer[q] = IF q = p THEN "open" ELSE "away"
                        /\ client[q].pc = IF q = p THEN "recv" ELSE "none"
                        /\ q = p => client[q].fd = 1
    BY <1>2 DEF Nobody, NoThread
  <2>4. TypeOK
    BY <1>1, <1>2, <2>1, <2>2
    DEF TypeOK, ServerLabel, ClientLabel, MainLabel, DestroyLabel, Nobody, NoThread
  <2>5. Wiring
    BY <1>1, <1>2, <2>2, <2>3 DEF Wiring, Busy, Running
  <2>6. Fresh
    BY <1>1, <2>2, <2>3 DEF Fresh
  <2>7. Listing
    BY <1>1, <1>2, <2>1, <2>2, <2>3 DEF Listing
  <2>8. MainSocket /\ Ending /\ ConnectedIffClients
    BY <1>2, <2>1, <2>2, RangeEmpty DEF MainSocket, Ending, ConnectedIffClients
  <2>9. Stream /\ Ordered
    BY <1>1, <1>2, <2>1, <2>2 DEF Stream, Calm, Sending, Before, Ordered, InOrder
  <2> QED
    BY <2>4, <2>5, <2>6, <2>7, <2>8, <2>9 DEF TcpInv
<1>3. ASSUME peer = Nobody, shut = {}, list = <<>>, connected = FALSE, client = NoThread,
             main = [pc |-> "idle", at |-> 0, sent |-> 0]
               \/ (kind = "websocket" /\ main = [pc |-> "construct", at |-> 0, sent |-> 0]),
             sent = 0, got = [q \in Peer |-> <<>>],
             \/ /\ kind = "connect" /\ sock = 0 /\ fd = [f \in Fd |-> NoPeer]
                /\ server = [pc |-> "done", fd |-> 0, peer |-> NoPeer]
                /\ main.pc = "idle"
             \/ /\ kind \in {"listen", "websocket"} /\ sock = 1
                /\ fd = [f \in Fd |-> IF f = 1 THEN Listener ELSE NoPeer]
                /\ server = [pc |-> "loop", fd |-> 0, peer |-> NoPeer]
      PROVE  TcpInv
  <2>1. list \in Seq(Fd) /\ Range(list) = {} /\ IsInjective(list)
    BY <1>3, RangeEmpty
  <2>2. \A q \in Peer : peer[q] = "away" /\ client[q].pc = "none" /\ got[q] = <<>>
    BY <1>3 DEF Nobody, NoThread
  <2>3. server.pc \in {"loop", "done"} /\ server.peer = NoPeer
    BY <1>3
  <2>4. TypeOK
    <3>1. /\ peer \in [Peer -> {"away", "backlog", "open", "closed"}]
          /\ client \in [Peer -> [pc : ClientLabel, fd : Fd \cup {0}]]
      BY <1>3 DEF Nobody, NoThread, ClientLabel
    <3>2. /\ fd \in [Fd -> Peer \cup {NoPeer, Listener}] /\ sock \in {0, 1}
          /\ kind \in {"connect", "listen", "websocket"}
      BY <1>3
    <3>3. /\ main \in [pc : MainLabel, at : Nat, sent : Nat]
          /\ server \in [pc : ServerLabel, fd : Fd \cup {0}, peer : Peer \cup {NoPeer}]
      BY <1>3 DEF ServerLabel, MainLabel
    <3>4. got \in [Peer -> Seq(Nat \X Nat)]
      BY <1>3
    <3> QED
      BY <1>3, <2>1, <3>1, <3>2, <3>3, <3>4 DEF TypeOK
  <2>5. Wiring
    <3>1. \A f \in Fd : fd[f] \notin Peer /\ (fd[f] = NoPeer \/ f = 1)
      BY <1>1, <1>3
    <3> QED
      BY <2>2, <2>3, <3>1 DEF Wiring, Busy, Running
  <2>6. Fresh
    BY <1>1, <2>2, <2>3 DEF Fresh
  <2>7. Listing
    BY <2>1, <2>2, <2>3 DEF Listing
  <2>8. main.pc \in {"idle", "construct"} /\ main.sent = 0 /\ (main.pc = "construct" => kind # "connect")
    BY <1>3
  <2>9. MainSocket
    BY <1>1, <1>3, <2>8 DEF MainSocket, DestroyLabel
  <2>10. Ending /\ ConnectedIffClients
    BY <1>3, <2>8 DEF Ending, ConnectedIffClients
  <2>11. Stream /\ Ordered
    BY <1>1, <2>1, <2>2, <2>8 DEF Stream, Calm, Sending, Ordered, InOrder
  <2> QED
    BY <2>4, <2>5, <2>6, <2>7, <2>9, <2>10, <2>11 DEF TcpInv
<1>4. ConnectInit => TcpInv
  <2> SUFFICES ASSUME ConnectInit PROVE TcpInv
    OBVIOUS
  <2>1. kind = "connect" /\ Started("idle") /\ Idle("done") /\ shut = {}
    BY DEF ConnectInit
  <2>2. ASSUME NEW p \in Peer, peer = [Nobody EXCEPT ![p] = "open"],
               fd = [f \in Fd |-> IF f = 1 THEN p ELSE NoPeer],
               list = << 1 >>, sock = 1, connected = TRUE,
               client = [NoThread EXCEPT ![p] = [pc |-> "recv", fd |-> 1]]
        PROVE  TcpInv
    BY <1>2, <2>1, <2>2
  <2>3. CASE /\ peer = Nobody /\ fd = [f \in Fd |-> NoPeer]
             /\ list = <<>> /\ sock = 0 /\ connected = FALSE /\ client = NoThread
    BY <1>3, <2>1, <2>3 DEF Started, Idle
  <2> QED
    BY <2>2, <2>3 DEF ConnectInit
<1>5. ListenInit => TcpInv
  BY <1>3 DEF ListenInit, Started, Idle
<1> QED
  BY <1>4, <1>5 DEF Init

LEMMA StepSound == TcpInv /\ [Next]_vars => TcpInv'
<1> SUFFICES ASSUME TcpInv, [Next]_vars PROVE TcpInv'
  OBVIOUS
<1>1. CASE UNCHANGED vars
  <2>1. UNCHANGED <<kind, peer, shut, fd, list, sock, connected, server, client, main, sent, got>>
    BY <1>1 DEF vars, net, shared
  <2>2. TypeOK' /\ Wiring' /\ Fresh' /\ Listing' /\ MainSocket'
    BY <2>1 DEF TcpInv, TypeOK, Wiring, Busy, Running, Fresh, Listing, MainSocket
  <2>3. Ending' /\ ConnectedIffClients' /\ Ordered'
    BY <2>1 DEF TcpInv, Ending, ConnectedIffClients, Ordered
  <2>4. Stream'
    BY <2>1 DEF TcpInv, Stream, Calm, Sending
  <2> QED
    BY <2>2, <2>3, <2>4 DEF TcpInv
<1>2. CASE Constructed \/ SendStart \/ Destroy
  BY <1>2, ConstructedKeeps, SendStartKeeps, DestroyKeeps
<1>3. CASE SendPacket \/ Destructor
  BY <1>3, SendLockKeeps, SendSomeKeeps, SendEndKeeps, DestroyCloseKeeps, DestroyZeroKeeps,
     DestroyJoinKeeps, DestroyPollKeeps DEF SendPacket, Destructor
<1>4. CASE Server \/ AcceptFails
  BY <1>4, ServerLoopKeeps, ServerEnterKeeps, AcceptKeeps, AcceptFailsKeeps, ServerPushKeeps,
     ServerFlagKeeps, NewClientKeeps, ServerSpawnKeeps DEF Server, AcceptWoken
<1>5. ASSUME NEW p \in Peer, Connect(p) \/ PeerClose(p) \/ Client(p) PROVE TcpInv'
  BY <1>5, ConnectKeeps, PeerCloseKeeps, ClientRecvKeeps, ClientLeaveKeeps, ClientCloseKeeps
  DEF Client
<1> QED
  BY <1>1, <1>2, <1>3, <1>4, <1>5 DEF Next

\* The inductive invariant: descriptors, list, flag and stream as above.
THEOREM TcpInvAlways == Spec => []TcpInv
<1> QED
  BY InitSound, StepSound, PTL DEF Spec

-----------------------------------------------------------------------------
LEMMA OwnSocketsSound == TcpInv => OwnSockets
<1> SUFFICES ASSUME TcpInv PROVE OwnSockets
  OBVIOUS
<1>1. \A p \in Peer : Running(p) => fd[client[p].fd] = p
  BY DEF TcpInv, Wiring
<1>2. server.peer # NoPeer => fd[server.fd] = server.peer
  BY DEF TcpInv, Wiring
<1>3. DOMAIN list = 1 .. Len(list)
  BY LenProperties DEF TcpInv, TypeOK
<1>4. \A i \in DOMAIN list : /\ fd[list[i]] \in Peer
                             /\ \A j \in DOMAIN list : list[i] = list[j] => i = j
  BY <1>3, ListIs
<1>5. sock # 0 /\ main.pc # "destroy_zero" => fd[sock] # NoPeer
  <2> SUFFICES ASSUME sock = 1, main.pc # "destroy_zero" PROVE fd[1] # NoPeer
    BY DEF TcpInv, TypeOK
  <2>1. CASE kind = "connect"
    BY <2>1, TcpAssumption DEF TcpInv, MainSocket, Listing
  <2>2. CASE kind # "connect"
    BY <2>2, TcpAssumption DEF TcpInv, TypeOK, MainSocket, MainLabel, DestroyLabel
  <2> QED
    BY <2>1, <2>2
<1> QED
  BY <1>1, <1>2, <1>4, <1>5 DEF OwnSockets

\* A packet, a shutdown or a close never hits a connection that has the number of another.
THEOREM OwnSocketsAlways == Spec => []OwnSockets
<1> QED
  BY TcpInvAlways, OwnSocketsSound, PTL

\* The flag sendOscPacket reads before it takes the mutex is what the list says.
THEOREM ConnectedIffClientsAlways == Spec => []ConnectedIffClients
<1>1. TcpInv => ConnectedIffClients
  BY DEF TcpInv
<1> QED
  BY TcpInvAlways, <1>1, PTL

\* What a client gets is a sequence of whole packets, whoever comes and goes meanwhile.
THEOREM WholePacketsAlways == Spec => []WholePackets
<1>1. TcpInv => WholePackets
  BY DEF TcpInv, Ordered, InOrder, WholePackets
<1> QED
  BY TcpInvAlways, <1>1, PTL

\* No thread uses the sender when its destructor has returned.
THEOREM NoUseAfterDestroyAlways == Spec => []NoUseAfterDestroy
<1>1. TcpInv => NoUseAfterDestroy
  <2> SUFFICES ASSUME TcpInv, main.pc = "gone"
               PROVE  /\ server.pc = "done"
                      /\ \A p \in Peer : client[p].pc \in {"none", "close", "done"}
    BY DEF NoUseAfterDestroy
  <2>1. server.pc = "done" /\ list = <<>>
    BY DEF TcpInv, Ending
  <2>2. \A p \in Peer : client[p].pc \notin {"recv", "leave"}
    BY <2>1, RangeEmpty DEF TcpInv, Listing
  <2> QED
    BY <2>1, <2>2 DEF TcpInv, TypeOK, ClientLabel
<1> QED
  BY TcpInvAlways, <1>1, PTL

-----------------------------------------------------------------------------
\* A client that is connected and not shut down is served: its thread waits for its end, or the
\* server thread has it.
Served == \A p \in Peer : LeftOpen(p) => client[p].pc = "recv" \/ server.peer = p

\* When the destructor has gone through the list it has left one client open at most.
OneLeftOpen == main.pc \in DestroyLabel =>
                 \A p, q \in Peer : LeftOpen(p) /\ LeftOpen(q) => p = q

LEMMA LeftOpenInit == Init => Served /\ OneLeftOpen
<1> SUFFICES ASSUME Init PROVE Served /\ OneLeftOpen
  OBVIOUS
<1>1. CASE ConnectInit
  BY <1>1 DEF ConnectInit, Started, Nobody, NoThread, Served, OneLeftOpen, LeftOpen, DestroyLabel
<1>2. CASE ListenInit
  BY <1>2 DEF ListenInit, Started, Nobody, Served, OneLeftOpen, LeftOpen, DestroyLabel
<1> QED
  BY <1>1, <1>2 DEF Init

\* The destructor goes through the list: a client that is left open is not on it, so that the
\* server thread has just accepted it.
LEMMA DestroyLeavesOne ==
  ASSUME TcpInv, Served, Destroy
  PROVE  Served' /\ OneLeftOpen'
<1>1. /\ shut \subseteq shut' /\ \A i \in DOMAIN list : fd[list[i]] \in shut'
      /\ UNCHANGED <<peer, client, server>>
  BY DEF Destroy
<1>2. \A p \in Peer : LeftOpen(p)' => LeftOpen(p)
  BY <1>1 DEF LeftOpen
<1>3. \A p \in Peer : LeftOpen(p)' => client[p].pc # "recv"
  <2> SUFFICES ASSUME NEW p \in Peer, client[p].pc = "recv" PROVE p \in shut'
    BY DEF LeftOpen
  <2>1. client[p].fd \in Range(list) /\ fd[client[p].fd] = p
    BY DEF TcpInv, Listing, Wiring, Running
  <2>2. PICK i \in DOMAIN list : list[i] = client[p].fd
    BY <2>1 DEF Range
  <2> QED
    BY <1>1, <2>1, <2>2
<1>4. \A p \in Peer : LeftOpen(p)' => server.peer = p
  BY <1>2, <1>3 DEF Served
<1> QED
  BY <1>1, <1>4 DEF Served, OneLeftOpen

LEMMA LeftOpenStep == TcpInv /\ Served /\ OneLeftOpen /\ [Next]_vars => Served' /\ OneLeftOpen'
<1> SUFFICES ASSUME TcpInv, Served, OneLeftOpen, [Next]_vars PROVE Served' /\ OneLeftOpen'
  OBVIOUS
<1>1. CASE Destroy
  BY <1>1, DestroyLeavesOne
\* Steps that open no connection and take no client from its thread.
<1>2. ASSUME \A p \in Peer : LeftOpen(p)' =>
               /\ LeftOpen(p)
               /\ client[p].pc = "recv" => client'[p].pc = "recv"
               /\ server.peer = p => server'.peer = p \/ client'[p].pc = "recv",
             main'.pc \in DestroyLabel => main.pc \in DestroyLabel
      PROVE  Served' /\ OneLeftOpen'
  BY <1>2 DEF Served, OneLeftOpen, LeftOpen
<1>3. CASE UNCHANGED vars \/ Constructed \/ SendStart \/ SendPacket \/ Destructor
  <2>1. UNCHANGED <<peer, client, server>> /\ shut \subseteq shut'
    BY <1>3 DEF vars, net, shared, Constructed, SendStart, SendPacket, SendLock, SendSome, SendEnd,
       Destructor, DestroyClose, DestroyZero, DestroyJoin, DestroyPoll
  <2>2. main'.pc \in DestroyLabel => main.pc \in DestroyLabel
    <3>1. CASE Constructed \/ SendStart
      <4>1. main'.pc \in {"idle", "lock"}
        BY <3>1 DEF Constructed, SendStart, MainTo, TcpInv, TypeOK
      <4> QED
        BY <4>1 DEF DestroyLabel
    <3>2. CASE SendPacket
      <4>1. main'.pc \in {"sending", "idle"}
        <5>1. CASE SendSome
          <6>1. main' \in {[main EXCEPT !.at = @ + 1, !.sent = 0]}
                        \cup {[main EXCEPT !.sent = @ + n] : n \in 1 .. Pieces - main.sent}
            BY <5>1 DEF SendSome, Sent, NextClient
          <6>2. main \in [pc : MainLabel, at : Nat, sent : Nat] /\ main.pc = "sending"
            BY <5>1 DEF SendSome, TcpInv, TypeOK
          <6> QED
            BY <6>1, <6>2
        <5> QED
          BY <3>2, <5>1 DEF SendPacket, SendLock, SendEnd
      <4> QED
        BY <4>1 DEF DestroyLabel
    <3>3. CASE Destructor
      BY <3>3 DEF Destructor, DestroyClose, DestroyZero, DestroyJoin, DestroyPoll, DestroyLabel
    <3> QED
      BY <1>3, <3>1, <3>2, <3>3 DEF vars
  <2> QED
    BY <1>2, <2>1, <2>2 DEF LeftOpen
<1>4. CASE Accept
  <2>1. PICK p \in Peer : /\ peer' = [peer EXCEPT ![p] = "open"]
                         /\ server' = [pc |-> "push", fd |-> LowestFree, peer |-> p]
    BY <1>4 DEF Accept
  <2>2. /\ server.pc = "accept" /\ Listener \notin shut
        /\ UNCHANGED <<kind, shut, client, main>>
    BY <1>4 DEF Accept
  <2>3. server.peer = NoPeer /\ NoPeer \notin Peer
    BY <2>2, TcpAssumption DEF TcpInv, Wiring, Busy
  <2>4. \A q \in Peer : LeftOpen(q)' => q = p \/ LeftOpen(q)
    BY <2>1, <2>2 DEF LeftOpen, TcpInv, TypeOK
  <2>5. Served'
    BY <2>1, <2>2, <2>3, <2>4 DEF Served
  <2>6. main.pc \notin DestroyLabel
    BY <2>2 DEF TcpInv, MainSocket
  <2> QED
    BY <2>2, <2>5, <2>6 DEF OneLeftOpen
<1>5. CASE ServerSpawn
  <2>1. /\ client' = [client EXCEPT ![server.peer] = [pc |-> "recv", fd |-> server.fd]]
        /\ UNCHANGED <<peer, shut, main>>
    BY <1>5 DEF ServerSpawn, net
  <2>2. \A p \in Peer : /\ client[p].pc = "recv" => client'[p].pc = "recv"
                        /\ server.peer = p => client'[p].pc = "recv"
    BY <2>1 DEF TcpInv, TypeOK
  <2> QED
    BY <1>2, <2>1, <2>2 DEF LeftOpen
<1>6. CASE ServerLoop \/ ServerEnter \/ AcceptFails \/ ServerPush \/ ServerFlag \/ NewClient
  <2>1. UNCHANGED <<peer, client, main>> /\ shut \subseteq shut'
    BY <1>6 DEF ServerLoop, ServerEnter, AcceptFails, ServerPush, ServerFlag, NewClient, Handshake, net
  <2>2. server'.peer = server.peer
    BY <1>6 DEF ServerLoop, ServerEnter, AcceptFails, ServerPush, ServerFlag, NewClient, ServerTo,
       TcpInv, TypeOK
  <2> QED
    BY <1>2, <2>1, <2>2 DEF LeftOpen
<1>7. ASSUME NEW p \in Peer, Connect(p) \/ PeerClose(p) PROVE Served' /\ OneLeftOpen'
  <2>1. UNCHANGED <<shut, client, server, main>>
    BY <1>7 DEF Connect, PeerClose
  <2>2. \A q \in Peer : peer'[q] = "open" => peer[q] = "open"
    BY <1>7 DEF Connect, PeerClose, TcpInv, TypeOK
  <2> QED
    BY <1>2, <2>1, <2>2 DEF LeftOpen
<1>8. ASSUME NEW p \in Peer, Client(p) PROVE Served' /\ OneLeftOpen'
  <2>1. UNCHANGED <<peer, shut, server, main>>
    BY <1>8 DEF Client, ClientRecv, ClientLeave, ClientClose, net
  <2>2. \A q \in Peer : q # p => client'[q] = client[q]
    BY <1>8 DEF Client, ClientRecv, ClientLeave, ClientClose, ClientTo, TcpInv, TypeOK
  <2>3. client[p].pc = "recv" => ~LeftOpen(p)
    BY <1>8 DEF Client, ClientRecv, ClientLeave, ClientClose, Ended, LeftOpen
  <2> QED
    BY <1>2, <2>1, <2>2, <2>3 DEF LeftOpen
<1> QED
  BY <1>1, <1>3, <1>4, <1>5, <1>6, <1>7, <1>8 DEF Next, Server, AcceptWoken

\* However many clients there are, the destructor leaves one of them open at most, the one that
\* the server thread had accepted and not yet put on the list: it waits for no other.
THEOREM OneLeftOpenAlways == Spec => []OneLeftOpen
<1> QED
  BY TcpInvAlways, LeftOpenInit, LeftOpenStep, PTL DEF Spec
=============================================================================
