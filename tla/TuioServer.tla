----------------------------- MODULE TuioServer -----------------------------
(***************************************************************************)
(* A TUIO source that sends its frames (tuio/TUIO/TuioServer.cpp).  A      *)
(* frame is one bundle for each profile that has changed, cut into packets *)
(* that fit the smallest transport: each packet lists the contacts that    *)
(* are alive, some set messages, and the frame number.                     *)
(*                                                                         *)
(* The receiver is external: it shows the contacts of the last alive       *)
(* message, where the last set message put them.                           *)
(***************************************************************************)
EXTENDS TuioManager, Packing

CONSTANTS
  Capacity,  \* bytes of a packet: the smallest getBufferSize() of the senders
  Source,    \* bytes of the source message
  MaxLoss    \* bound: packets lost

ASSUME ServerAssumption == Capacity \in Nat /\ Source \in Nat /\ MaxLoss \in Nat

VARIABLES
  profiles,  \* the kinds whose profile is enabled
  opts,      \* full_update, periodic_update: those that are set
  shown,     \* receiver: contacts it shows
  placed,    \* receiver: those it shows where they are
  dirty,     \* history: kinds of which a packet was lost, and no whole bundle came since
  losses     \* number of packets lost

srvVars == <<profiles, opts>>
rcvVars == <<shown, placed, dirty, losses>>

-----------------------------------------------------------------------------
(***************************************************************************)
(* Bytes.  A message is its length, its address, its type tags and its     *)
(* arguments, each padded to four bytes.                                   *)
(***************************************************************************)
Pad(n) == ((n + 3) \div 4) * 4
\* addr characters, args type tags, and data bytes
MessageSize(addr, args, data) == 4 + Pad(addr + 1) + Pad(args + 2) + data
Address == 11                                      \* of "/tuio/2Dcur"

AliveSize(n) == MessageSize(Address, 1 + n, 8 + 4 * n)  \* "alive", n session ids
FseqSize == MessageSize(Address, 2, 8 + 4)              \* "fseq" and a number
CursorSet == MessageSize(Address, 7, 4 + 4 + 5 * 4)     \* "set", id, 5 numbers
ObjectSet == MessageSize(Address, 11, 4 + 2 * 4 + 8 * 4)
BlobSet == MessageSize(Address, 13, 4 + 4 + 11 * 4)
SetSize(k) == CASE k = "cur" -> CursorSet [] k = "obj" -> ObjectSet [] k = "blb" -> BlobSet

\* Mutant of RoomFor: room for the set message only.
RoomForSet(k) == SetSize(k)
\* OBJ_MESSAGE_SIZE, CUR_MESSAGE_SIZE, BLB_MESSAGE_SIZE: setMessage + fseqMessage size
RoomFor(k) == CASE k = "obj" -> 108 [] k = "cur" -> 88 [] k = "blb" -> 116

\* start{Cursor,Object,Blob}Bundle: the bundle's header, the source, who is alive.
StartSize(k) == 16 + Source + AliveSize(Cardinality(live \cap Of(k)))

-----------------------------------------------------------------------------
(***************************************************************************)
(* Bundles.                                                                *)
(***************************************************************************)
\* The set messages of each packet: a packet is full when what is left may be too little for
\* one more and the frame number.
Packets(k, W) ==
  Packed(Listed(live \cap Of(k)), W, SetSize(k), Capacity - StartSize(k) - RoomFor(k))

\* Mutant of FramePackets: only contacts that move are sent.
FramePacketsMoving(k, due) ==
  IF k \in upd THEN Packets(k, {c \in touched : IsMoving(motion[c])}) ELSE <<>>

\* What commitFrame sends for a kind: nothing, or a list of packets.  With periodic
\* messages a bundle goes out when the interval is over (due).
FramePackets(k, due) ==
  IF k \in upd THEN Packets(k, IF "full" \in opts THEN live ELSE touched)
  ELSE IF k \in profiles /\ "periodic" \in opts /\ due
  THEN Packets(k, IF "full" \in opts THEN live ELSE {})
  ELSE <<>>

\* A packet ends with the frame number.
PacketSize(k, sets) == StartSize(k) + SetSize(k) * Cardinality(sets) + FseqSize

\* The senders deliver all packets but the lost ones, which are <<kind, position>>.
Deliver(sent, lost) ==
  LET all == UNION {{<<k, i>> : i \in DOMAIN sent[k]} : k \in Kinds}
      came == all \ lost
      ks == {x[1] : x \in came} IN
  /\ lost \subseteq all /\ losses + Cardinality(lost) <= MaxLoss
  /\ losses' = losses + Cardinality(lost)
  /\ shown' = {c \in Contact : IF Kind(c) \in ks THEN c \in live ELSE c \in shown}
  /\ placed' = (placed \cap shown') \cup UNION {sent[x[1]][x[2]] : x \in came}
  /\ dirty' = (dirty \ ks) \cup {x[1] : x \in lost}

CommitFrame ==
  /\ loop = {}
  /\ \E due \in BOOLEAN :
       LET sent == [obj |-> FramePackets("obj", due), cur |-> FramePackets("cur", due),
                    blb |-> FramePackets("blb", due)] IN
       \E lost \in SUBSET UNION {{<<k, i>> : i \in DOMAIN sent[k]} : k \in Kinds} :
         Deliver(sent, lost)
  /\ upd' = {}
  /\ UNCHANGED <<live, motion, touched, id, max, free, loop, leaked, srvVars>>

\* Mutant of SendEmpty: only for the kinds that still have contacts.
SendEmptyOfLive ==
  /\ UNCHANGED losses
  /\ shown' = {c \in shown : live \cap Of(Kind(c)) = {}}
  /\ placed' = placed \cap shown'
  /\ UNCHANGED dirty

\* sendEmpty{Cursor,Object,Blob}Bundle for each enabled profile
SendEmpty ==
  \E lost \in SUBSET profiles :
    /\ losses + Cardinality(lost) <= MaxLoss
    /\ losses' = losses + Cardinality(lost)
    /\ shown' = {c \in shown : Kind(c) \notin profiles \ lost}
    /\ placed' = placed \cap shown'
    /\ dirty' = (dirty \ profiles) \cup lost
=============================================================================
