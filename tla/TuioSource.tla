------------------------------ MODULE TuioSource ------------------------------
(***************************************************************************)
(* An application of TuioServer other than the daemon: it sets the options *)
(* before its first frame, calls the manager in any order, commits its     *)
(* frames, and sends everything at once whenever it likes                  *)
(* (sendFullMessages).  The receiver may miss packets, or start again.     *)
(***************************************************************************)
EXTENDS TuioServer

VARIABLE said  \* history: the last call, "frame" or "full" if it was one that sends

sourceVars == <<mgrVars, srvVars, rcvVars, said>>

-----------------------------------------------------------------------------
\* Mutant of FullPackets: contacts that come after a packet was full are left out.
FullPacketsFirst(k) == SubSeq(Packets(k, live), 1, 1)
\* All contacts of a kind, its profile enabled or not.
FullPackets(k) == Packets(k, live)

SendFullMessages ==
  /\ loop = {} /\ said' = "full"
  /\ LET sent == [obj |-> FullPackets("obj"), cur |-> FullPackets("cur"), blb |-> FullPackets("blb")] IN
     \E lost \in SUBSET UNION {{<<k, i>> : i \in DOMAIN sent[k]} : k \in Kinds} :
       Deliver(sent, lost)
  /\ UNCHANGED <<mgrVars, srvVars>>

\* A call of the manager: contacts that were updated in the frame, or stopped, are no longer
\* where they are shown.
Manage ==
  /\ Next /\ said' = "nothing" /\ UNCHANGED <<srvVars, shown, dirty, losses>>
  /\ placed' = placed \ ({c \in Contact : motion'[c] # motion[c]}
                          \cup {c \in touched' : Kind(c) \in upd'})

Commit == CommitFrame /\ said' = "frame"

\* The receiver starts again and knows nothing.
Restart ==
  /\ losses < MaxLoss /\ losses' = losses + 1 /\ said' = "nothing"
  /\ shown' = {} /\ placed' = {} /\ dirty' = Kinds
  /\ UNCHANGED <<mgrVars, srvVars>>

\* enableFullUpdate and enablePeriodicMessages may have been called.
SourceInit ==
  /\ Init /\ profiles = Kinds /\ opts \in SUBSET {"full", "periodic"} /\ said = "nothing"
  /\ shown = {} /\ placed = {} /\ dirty = {} /\ losses = 0

SourceNext == Manage \/ Commit \/ SendFullMessages \/ Restart
SourceSpec == SourceInit /\ [][SourceNext]_sourceVars

-----------------------------------------------------------------------------
\* Whatever a receiver has missed before: once it has got all packets of a profile's bundle it
\* shows the contacts that are there, and where they are if the bundle is a full one
\* (commitFrame with full_update, and sendFullMessages).
PutRight ==
  said # "nothing" => \A k \in Kinds \ dirty :
    /\ shown \cap Of(k) = live \cap Of(k)
    /\ said = "full" \/ "full" \in opts => live \cap Of(k) \subseteq placed

\* What PacketsFit needs of the constants: the transport takes the list of all contacts of a
\* kind and one set message.
AliveFits ==
  \A k \in Kinds : 16 + Source + AliveSize(Cardinality(Of(k))) + RoomFor(k) <= Capacity

\* No packet that is sent is larger than what the transport takes, of a frame or of a full
\* update, for none of the three kinds (the three MESSAGE_SIZE constants).
PacketsFit ==
  said # "nothing" => \A k \in Kinds : \A p \in {FullPackets(k), Packets(k, touched)} :
    \A i \in DOMAIN p : PacketSize(k, p[i]) <= Capacity
=============================================================================
