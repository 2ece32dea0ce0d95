--------------------------- MODULE Sur40VideoProof ---------------------------
(***************************************************************************)
(* Proofs about Sur40Video, for every number of buffers, every size of     *)
(* packets and images, and without any bound on faults.                    *)
(*                                                                         *)
(* The argument for "stopped means quiet" follows the two threads through  *)
(* the three URBs.  An URB that the user's thread has poisoned stays       *)
(* refused until that thread itself starts again (Held); one it has also   *)
(* waited for is neither queued nor running and so cannot come back        *)
(* (Cleared).  The disconnect needs no poison count for this: it runs with *)
(* the endpoint disabled (DiscCleared).                                    *)
(*                                                                         *)
(* The second half is about the buffers: each is in one place, a frame is  *)
(* only written into a buffer that the driver owns, only whole images are  *)
(* delivered, streaming does not stall, and the driver as a whole is a     *)
(* CaptureQueue.  It rests on the proof that stopped means quiet.          *)
(***************************************************************************)
EXTENDS Sur40Video, DataLemmas

UserLabel == {"idle", "get", "start", "submit", "unget", "stop", "poison",
              "wait", "reap", "return", "cancel"}
DiscLabel == {"bound", "poison", "wait", "flag", "error", "unregister", "gone"}

\* u is handled before v by a thread that poisons the URBs.
Before(u, v) == \/ u = "hdr" /\ v # "hdr"
                \/ u = "frame" /\ v = "drain"

\* The user's thread has poisoned u, and not unpoisoned it since.
UserHolds(u) == \/ ~started
                \/ pc["user"] \in {"get", "start", "unget", "reap", "return",
                                   "cancel"}
                \/ pc["user"] \in {"poison", "wait"} /\ Before(u, tgt["user"])
                \/ pc["user"] = "wait" /\ u = tgt["user"]

\* ... and has waited for its handler.
UserCleared(u) == UserHolds(u) /\ ~(pc["user"] = "wait" /\ u = tgt["user"])

DiscCleared(u) == \/ pc["disc"] \in {"flag", "error", "unregister", "gone"}
                  \/ pc["disc"] \in {"poison", "wait"} /\ Before(u, tgt["disc"])

Rests(u) == u \notin queued /\ hurb # u

\* Labels of the two threads and what they imply.
ThreadShape ==
  /\ pc["user"] \in UserLabel /\ pc["disc"] \in DiscLabel
  /\ epOn <=> pc["disc"] = "bound"
  /\ disconnected <=> pc["disc"] \in {"error", "unregister", "gone"}
  /\ ~started => pc["user"] = "idle"
  /\ \A t \in Thread : pc[t] \notin {"poison", "wait"} => tgt[t] = "hdr"

HandlerShape ==
  /\ hpc = "idle" <=> hurb = NoUrb
  /\ hpc # "idle" => queued = {}
  /\ \A u, v \in queued : u = v

Held    == ~disconnected => \A u \in Urb :
             reject[u] >= 0 /\ (UserHolds(u) => reject[u] > 0)
Cleared == ~disconnected => \A u \in Urb : UserCleared(u) => Rests(u)
DiscDone == \A u \in Urb : DiscCleared(u) => Rests(u)

\* Between the start of streaming and its first URB nothing runs.
Starting == pc["user"] = "submit" => queued = {} /\ hpc = "idle"

QuietInv == /\ ThreadShape /\ HandlerShape /\ Held /\ Cleared /\ DiscDone
            /\ Starting

-----------------------------------------------------------------------------
(***************************************************************************)
(* Types.                                                                  *)
(***************************************************************************)
LEMMA SizesNat ==
  /\ SizeImage \in Nat /\ OddSize \in Nat /\ HdrLen \in Nat /\ PktLen \in Nat
  /\ TailLen \in Nat /\ DrainLen \in Nat
  /\ \A k \in Kind : LastPos(k) \in Nat
  /\ \A k \in Kind, p \in Nat : PacketLength(k, p) \in Nat
<1>1. /\ HdrLen \in Nat /\ PktLen \in Nat /\ TailLen \in Nat /\ DrainLen \in Nat
      /\ ImgPkts \in Nat /\ OddPkts \in Nat
  BY SizesAssumption
<1>2. SizeImage \in Nat /\ OddSize \in Nat
  BY <1>1 DEF SizeImage, OddSize
<1> QED
  BY <1>1, <1>2 DEF LastPos, PacketLength

LEMMA TypeInit == Init => TypeOK
<1> SUFFICES ASSUME Init PROVE TypeOK
  OBVIOUS
<1>1. pos \in Nat
  BY SizesNat DEF Init, Kind
<1>2. pc \in [Thread -> Label]
  BY DEF Init, Thread, Label
<1>3. buf_list \in Seq(Buf) /\ queuedList \in Seq(Buf)
  BY EmptySeq DEF Init
<1>4. reject \in [Urb -> Int] /\ bst \in [Buf -> BufState]
      /\ tgt \in [Thread -> Urb] /\ hpc \in HandlerLabel
  BY DEF Init, Urb, BufState, HandlerLabel
<1> QED
  BY <1>1, <1>2, <1>3, <1>4 DEF Init, TypeOK, Kind

\* Setting one thread's label, or one buffer's state.
LEMMA GotoType ==
  ASSUME TypeOK, NEW t \in Thread, NEW l \in Label, Goto(t, l)
  PROVE  pc' \in [Thread -> Label]
  BY DEF TypeOK, Goto

LEMMA DoneType ==
  ASSUME TypeOK, NEW b, NEW s \in BufState, Done(b, s)
  PROVE  bst' \in [Buf -> BufState]
  BY DEF TypeOK, Done

\* A submission keeps the types of what it touches, whether it succeeds or not.
LEMMA ResubmitType ==
  ASSUME TypeOK, NEW u \in Urb, Resubmit(u)
  PROVE  /\ queued' \subseteq Urb /\ queued \subseteq queued'
         /\ got' \in Nat /\ nomem' \in Nat
  BY DEF TypeOK, Resubmit, SubmitOk, SubmitFails, Accepted

LEMMA ReturnType ==
  ASSUME Return
  PROVE  /\ hurb' \in Urb \cup {NoUrb} /\ hpc' \in HandlerLabel
         /\ hstat' \in {"ok", "error", "dead"}
         /\ hdrKind' \in Kind \cup {"image"} /\ hbuf' \in Buf \cup {NoBuf}
  BY DEF Return, HandlerLabel

-----------------------------------------------------------------------------
LEMMA SubmitDrainType ==
  ASSUME TypeOK, NEW count \in Nat, SubmitDrain(count), HandlerFrame,
         UNCHANGED <<bst, pure>>
  PROVE  TypeOK'
<1>1. /\ queued' \subseteq Urb /\ queued \subseteq queued'
      /\ got' \in Nat /\ nomem' \in Nat
  BY ResubmitType DEF SubmitDrain, Urb
<1> QED
  BY <1>1, ReturnType DEF TypeOK, SubmitDrain, HandlerFrame, devVars, v4lVars,
                          thrVars

LEMMA HandleHeaderType ==
  ASSUME TypeOK, HandleHeader(hdrKind), HandlerFrame, UNCHANGED <<bst, pure>>
  PROVE  TypeOK'
<1>1. CASE \E count \in {0, OddSize, SizeImage} : SubmitDrain(count)
  BY <1>1, SubmitDrainType, SizesNat
<1>2. CASE /\ buf_list # <<>> /\ hbuf' = Head(buf_list)
           /\ buf_list' = Tail(buf_list) /\ hpc' = "submit"
           /\ UNCHANGED <<queued, got, nomem, hurb, hstat, hdrKind, cur_buf,
                          drain_remaining>>
  <2>1. hbuf' \in Buf /\ buf_list' \in Seq(Buf) /\ hpc' \in HandlerLabel
    BY <1>2, HeadTailProperties DEF TypeOK, HandlerLabel
  <2> QED
    BY <1>2, <2>1 DEF TypeOK, HandlerFrame, devVars, v4lVars, thrVars
<1> QED
  BY <1>1, <1>2 DEF HandleHeader

LEMMA SubmitHdrType ==
  ASSUME TypeOK, SubmitHdr, HandlerFrame, drain_remaining' \in Nat,
         UNCHANGED <<cur_buf, buf_list, bst, pure>>
  PROVE  TypeOK'
<1>1. /\ queued' \subseteq Urb /\ queued \subseteq queued'
      /\ got' \in Nat /\ nomem' \in Nat
  BY ResubmitType DEF SubmitHdr, Urb
<1> QED
  BY <1>1, ReturnType DEF TypeOK, SubmitHdr, HandlerFrame, devVars, v4lVars,
                          thrVars

LEMMA HandlerType == TypeOK /\ Handler => TypeOK'
<1> SUFFICES ASSUME TypeOK, Handler PROVE TypeOK'
  OBVIOUS
<1>1. CASE Dead
  BY <1>1, ReturnType DEF Dead, TypeOK, HandlerFrame, devVars, drvVars,
                          v4lVars, thrVars
<1>2. CASE HdrComplete
  <2>1. CASE SubmitHdr /\ UNCHANGED drvVars
    BY <1>2, <2>1, SubmitHdrType DEF HdrComplete, drvVars, TypeOK
  <2>2. CASE SubmitDrain(0)
    BY <1>2, <2>2, SubmitDrainType DEF HdrComplete
  <2>3. CASE HandleHeader(hdrKind)
    BY <1>2, <2>3, HandleHeaderType DEF HdrComplete
  <2> QED
    BY <1>2, <2>1, <2>2, <2>3 DEF HdrComplete
<1>3. CASE DrainComplete
  <2>1. CASE SubmitDrain(0)
    BY <1>3, <2>1, SubmitDrainType DEF DrainComplete
  <2>2. CASE HandleHeader(hdrKind)
    BY <1>3, <2>2, HandleHeaderType DEF DrainComplete
  <2>3. CASE /\ drain_remaining' = 0 /\ SubmitHdr
             /\ UNCHANGED <<cur_buf, buf_list>>
    BY <1>3, <2>3, SubmitHdrType DEF DrainComplete
  <2>4. CASE got < drain_remaining /\ SubmitDrain(drain_remaining - got)
    <3>1. drain_remaining - got \in Nat
      BY <2>4 DEF TypeOK
    <3> QED
      BY <1>3, <2>4, <3>1, SubmitDrainType DEF DrainComplete
  <2> QED
    BY <1>3, <2>1, <2>2, <2>3, <2>4 DEF DrainComplete
<1>4. CASE FrameSubmit
  <2>1. /\ queued' \subseteq Urb /\ queued \subseteq queued'
        /\ got' \in Nat /\ nomem' \in Nat
    BY <1>4, ResubmitType DEF FrameSubmit, Resubmit, Urb
  <2>2. /\ hurb' \in Urb \cup {NoUrb} /\ hpc' \in HandlerLabel
        /\ hstat' \in {"ok", "error", "dead"}
        /\ hdrKind' \in Kind \cup {"image"} /\ hbuf' \in Buf \cup {NoBuf}
        /\ pure' \in BOOLEAN
    BY <1>4, ReturnType DEF FrameSubmit, TypeOK, HandlerLabel
  <2> QED
    BY <1>4, <2>1, <2>2 DEF FrameSubmit, TypeOK, HandlerFrame, devVars,
                            v4lVars, thrVars
<1>5. CASE FrameSubmitFailed
  <2>1. bst' \in [Buf -> BufState]
    BY <1>5, DoneType DEF FrameSubmitFailed, BufState
  <2> QED
    BY <1>5, <2>1, ReturnType DEF FrameSubmitFailed, TypeOK, HandlerFrame,
                                  devVars, v4lVars, thrVars
<1>6. CASE FrameComplete
  BY <1>6 DEF FrameComplete, TypeOK, HandlerLabel, HandlerFrame, devVars,
              v4lVars, thrVars
<1>7. CASE FrameDeliver
  <2>1. bst' \in [Buf -> BufState]
    BY <1>7, DoneType DEF FrameDeliver, BufState
  <2> QED
    BY <1>7, <2>1 DEF FrameDeliver, TypeOK, HandlerLabel, HandlerFrame,
                      devVars, drvVars, v4lVars, thrVars
<1>8. CASE FrameNext
  <2>1. drain_remaining' \in Nat /\ UNCHANGED <<cur_buf, buf_list, bst, pure>>
    BY <1>8 DEF FrameNext, drvVars, TypeOK
  <2> QED
    BY <1>8, <2>1, SubmitHdrType DEF FrameNext
<1> QED
  BY <1>1, <1>2, <1>3, <1>4, <1>5, <1>6, <1>7, <1>8 DEF Handler

-----------------------------------------------------------------------------
LEMMA PoisonType ==
  ASSUME TypeOK, NEW t \in Thread, Poison(t) \/ PoisonWait(t)
  PROVE  TypeOK'
<1>1. CASE Poison(t)
  <2>1. reject' \in [Urb -> Int] /\ unlinked' \subseteq queued
    BY <1>1 DEF Poison, Refuse, TypeOK
  <2>2. pc' \in [Thread -> Label]
    BY <1>1, GotoType DEF Poison, Label
  <2> QED
    BY <1>1, <2>1, <2>2 DEF Poison, TypeOK, ThreadFrame, devVars, hdlVars,
                            drvVars, vbVars, v4lVars
<1>2. CASE PoisonWait(t)
  <2>1. tgt' \in [Thread -> Urb]
    BY <1>2 DEF PoisonWait, NextUrb, TypeOK, Urb
  <2>2. Poisoned(t) \in Label
    BY DEF Poisoned, Thread, Label, TypeOK
  <2>3. pc' \in [Thread -> Label]
    BY <1>2, <2>2, GotoType DEF PoisonWait, Label
  <2> QED
    BY <1>2, <2>1, <2>3 DEF PoisonWait, TypeOK, ThreadFrame, devVars, hdlVars,
                            drvVars, vbVars, v4lVars
<1> QED
  BY <1>1, <1>2

LEMMA UsbType == TypeOK /\ Usb => TypeOK'
<1> SUFFICES ASSUME TypeOK, Usb PROVE TypeOK'
  OBVIOUS
<1>1. ASSUME NEW cost \in Nat, StartFrame(cost)
      PROVE  kind' \in Kind /\ pos' \in Nat /\ faults' \in Nat
  BY <1>1 DEF StartFrame, TypeOK
<1>2. NextPacket => kind' \in Kind /\ pos' \in Nat /\ faults' \in Nat
  BY <1>1 DEF NextPacket, TypeOK
<1>3. ASSUME NEW u \in Urb, NEW s \in {"ok", "error", "dead"}, GiveBack(u, s)
      PROVE  /\ queued' \subseteq Urb /\ unlinked' \subseteq queued'
             /\ hurb' \in Urb /\ hpc' \in HandlerLabel
             /\ hstat' \in {"ok", "error", "dead"}
  BY <1>3 DEF GiveBack, TypeOK, HandlerLabel
<1>4. ASSUME NEW u \in Urb, Packet(u)
      PROVE  TypeOK'
  <2>1. kind' \in Kind /\ pos' \in Nat /\ faults' \in Nat
    BY <1>2, <1>4 DEF Packet
  <2>2. got' \in Nat
    <3>1. PacketLength(kind, pos) \in Nat
      BY SizesNat DEF TypeOK
    <3> QED
      BY <1>4, <3>1 DEF Packet, TypeOK
  <2>3. /\ queued' \subseteq Urb /\ unlinked' \subseteq queued'
        /\ hurb' \in Urb \cup {NoUrb} /\ hpc' \in HandlerLabel
        /\ hstat' \in {"ok", "error", "dead"}
        /\ hdrKind' \in Kind \cup {"image"} /\ pure' \in BOOLEAN
    BY <1>3, <1>4 DEF Packet, TypeOK
  <2> QED
    BY <1>4, <2>1, <2>2, <2>3 DEF Packet, TypeOK, drvVars, vbVars, v4lVars,
                                  thrVars
<1>5. ASSUME NEW u \in Urb, TransferError(u)
      PROVE  TypeOK'
  <2>1. /\ queued' \subseteq Urb /\ unlinked' \subseteq queued'
        /\ hurb' \in Urb /\ hpc' \in HandlerLabel
        /\ hstat' \in {"ok", "error", "dead"}
    BY <1>3, <1>5 DEF TransferError
  <2>2. kind' \in Kind /\ pos' \in Nat /\ faults' \in Nat
    BY <1>5 DEF TransferError, TypeOK, devVars
  <2> QED
    BY <1>5, <2>1, <2>2 DEF TransferError, TypeOK, drvVars, vbVars, v4lVars,
                            thrVars
<1>6. ASSUME NEW u \in Urb, Cancelled(u)
      PROVE  TypeOK'
  BY <1>3, <1>6 DEF Cancelled, TypeOK, devVars, drvVars, vbVars, v4lVars,
                    thrVars, boundVars
<1>7. CASE CutFrame
  BY <1>1, <1>7 DEF CutFrame, TypeOK, usbVars, hdlVars, drvVars, vbVars,
                    v4lVars, thrVars
<1> QED
  BY <1>4, <1>5, <1>6, <1>7 DEF Usb

-----------------------------------------------------------------------------
LEMMA StartFailedType ==
  ASSUME TypeOK, StartFailed
  PROVE  /\ bst' \in [Buf -> BufState] /\ started' \in BOOLEAN
         /\ queuedList' \in Seq(Buf) /\ buf_list' \in Seq(Buf)
         /\ pc' \in [Thread -> Label]
<1>1. SubSeq(buf_list, 1, Len(buf_list) - 1) \in Seq(Buf)
  <2>1. Len(buf_list) \in Nat
        /\ \A i \in 1 .. Len(buf_list) - 1 : buf_list[i] \in Buf
    BY LenProperties, ElementOfSeq DEF TypeOK
  <2> QED
    BY <2>1, SubSeqProperties
<1>2. queuedList' \in Seq(Buf) /\ buf_list' \in Seq(Buf)
  BY <1>1, EmptySeq DEF StartFailed, TypeOK
<1>3. bst' \in [Buf -> BufState]
  BY DEF StartFailed, TypeOK, BufState
<1>4. pc' \in [Thread -> Label]
  BY GotoType DEF StartFailed, Label, Thread
<1> QED
  BY <1>2, <1>3, <1>4 DEF StartFailed

LEMMA BeginStartType ==
  ASSUME TypeOK, NEW q \in Seq(Buf), BeginStart(q)
  PROVE  /\ bst' \in [Buf -> BufState] /\ started' \in BOOLEAN
         /\ queuedList' \in Seq(Buf) /\ buf_list' \in Seq(Buf)
         /\ pc' \in [Thread -> Label]
<1>1. buf_list' \in Seq(Buf) /\ queuedList' \in Seq(Buf)
  BY EmptySeq, ConcatProperties DEF BeginStart, TypeOK
<1>2. bst' \in [Buf -> BufState]
  BY DEF BeginStart, TypeOK, BufState
<1>3. pc' \in [Thread -> Label]
  BY GotoType DEF BeginStart, Label, Thread
<1> QED
  BY <1>1, <1>2, <1>3 DEF BeginStart

LEMMA CancelQueueType ==
  ASSUME TypeOK, CancelQueue
  PROVE  /\ bst' \in [Buf -> BufState] /\ queuedList' \in Seq(Buf)
         /\ streaming' \in BOOLEAN /\ started' \in BOOLEAN
         /\ qerror' \in BOOLEAN
  BY EmptySeq DEF CancelQueue, BufState

LEMMA UserStepType == TypeOK /\ UserStep => TypeOK'
<1> SUFFICES ASSUME TypeOK, UserStep PROVE TypeOK'
  OBVIOUS
<1> USE DEF UserFrame, DriverFrame, ThreadFrame, devVars, hdlVars, drvVars,
            vbVars
<1>1. CASE Poison("user") \/ PoisonWait("user")
  BY <1>1, PoisonType DEF Thread
<1>2. CASE PipelineGet
  <2>1. CASE StartFailed /\ UNCHANGED pipeRef
    BY <1>2, <2>1, StartFailedType DEF PipelineGet, TypeOK
  <2>2. CASE /\ pipeRef' = TRUE /\ Goto("user", "start")
             /\ UNCHANGED <<bst, buf_list, queuedList, started>>
    <3>1. pc' \in [Thread -> Label]
      BY <2>2, GotoType DEF Label, Thread
    <3> QED
      BY <1>2, <2>2, <3>1 DEF PipelineGet, TypeOK
  <2> QED
    BY <1>2, <2>1, <2>2 DEF PipelineGet
<1>3. CASE VideoStart
  <2>1. pc' \in [Thread -> Label]
    BY <1>3, GotoType DEF VideoStart, Label, Thread
  <2>2. reject' \in [Urb -> Int]
    BY <1>3 DEF VideoStart, TypeOK
  <2> QED
    BY <1>3, <2>1, <2>2 DEF VideoStart, TypeOK
<1>4. CASE VideoStartSubmit
  <2>1. /\ queued' \subseteq Urb /\ queued \subseteq queued'
        /\ got' \in Nat /\ nomem' \in Nat
    BY <1>4, ResubmitType DEF VideoStartSubmit, Resubmit, Urb
  <2>2. pc' \in [Thread -> Label]
    BY <1>4, GotoType DEF VideoStartSubmit, Label, Thread
  <2>3. streaming' \in BOOLEAN /\ caller' \in {"start", "stop"}
    BY <1>4 DEF VideoStartSubmit, TypeOK
  <2> QED
    BY <1>4, <2>1, <2>2, <2>3 DEF VideoStartSubmit, TypeOK
<1>5. CASE StartUnget
  <2>1. pipeRef' \in BOOLEAN
    BY <1>5 DEF StartUnget
  <2> QED
    BY <1>5, <2>1, StartFailedType DEF StartUnget, TypeOK
<1>6. CASE VideoStop
  <2>1. Poisoned("user") \in Label
    BY DEF Poisoned, Label, TypeOK
  <2>2. pc' \in [Thread -> Label]
    BY <1>6, <2>1, GotoType DEF VideoStop, Label, Thread
  <2> QED
    BY <1>6, <2>2 DEF VideoStop, TypeOK
<1>7. CASE StopReap
  <2>1. bst' \in [Buf -> BufState]
    BY <1>7, DoneType DEF StopReap, BufState, TypeOK
  <2>2. pc' \in [Thread -> Label]
    BY <1>7, GotoType DEF StopReap, Label, Thread
  <2> QED
    BY <1>7, <2>1, <2>2 DEF StopReap, TypeOK
<1>8. CASE StopReturnAll
  <2>1. bst' \in [Buf -> BufState]
    BY <1>8 DEF StopReturnAll, BufState, TypeOK
  <2>2. pc' \in [Thread -> Label]
    BY <1>8, GotoType DEF StopReturnAll, Label, Thread
  <2>3. pipeRef' \in BOOLEAN /\ buf_list' \in Seq(Buf)
    BY <1>8, EmptySeq DEF StopReturnAll
  <2> QED
    BY <1>8, <2>1, <2>2, <2>3 DEF StopReturnAll, TypeOK
<1>9. CASE StopCancel
  <2>1. pc' \in [Thread -> Label]
    BY <1>9, GotoType DEF StopCancel, Label, Thread
  <2> QED
    BY <1>9, <2>1, CancelQueueType DEF StopCancel, TypeOK
<1> QED
  BY <1>1, <1>2, <1>3, <1>4, <1>5, <1>6, <1>7, <1>8, <1>9 DEF UserStep

LEMMA UserCallType == TypeOK /\ UserCall => TypeOK'
<1> SUFFICES ASSUME TypeOK, UserCall PROVE TypeOK'
  OBVIOUS
<1> USE DEF UserFrame, DriverFrame, ThreadFrame, devVars, hdlVars, drvVars,
            vbVars
<1>1. CASE Open
  BY <1>1 DEF Open, TypeOK
<1>2. CASE StreamOn
  <2>1. CASE streaming' = TRUE
             /\ UNCHANGED <<bst, buf_list, queuedList, started, pc>>
    BY <1>2, <2>1 DEF StreamOn, TypeOK
  <2>2. CASE BeginStart(queuedList) /\ UNCHANGED streaming
    <3>1. queuedList \in Seq(Buf)
      BY DEF TypeOK
    <3> QED
      BY <1>2, <2>2, <3>1, BeginStartType DEF StreamOn, TypeOK
  <2> QED
    BY <1>2, <2>1, <2>2 DEF StreamOn
<1>3. ASSUME StopQueue
      PROVE  /\ bst' \in [Buf -> BufState] /\ queuedList' \in Seq(Buf)
             /\ streaming' \in BOOLEAN /\ started' \in BOOLEAN
             /\ qerror' \in BOOLEAN /\ pc' \in [Thread -> Label]
             /\ caller' \in {"start", "stop"}
  <2>1. CASE started
    <3>1. pc' \in [Thread -> Label]
      BY <1>3, <2>1, GotoType DEF StopQueue, Label, Thread
    <3> QED
      BY <1>3, <2>1, <3>1 DEF StopQueue, TypeOK
  <2>2. CASE ~started
    BY <1>3, <2>2, CancelQueueType DEF StopQueue, TypeOK
  <2> QED
    BY <2>1, <2>2
<1>4. CASE StreamOff
  BY <1>3, <1>4 DEF StreamOff, TypeOK
<1>5. CASE Close
  <2>1. open' \in BOOLEAN
    BY <1>5 DEF Close
  <2> QED
    BY <1>3, <1>5, <2>1 DEF Close, TypeOK
<1>6. ASSUME NEW b \in Buf, QBuf(b) PROVE TypeOK'
  <2>1. Append(queuedList, b) \in Seq(Buf) /\ Append(buf_list, b) \in Seq(Buf)
    <3>1. queuedList \in Seq(Buf) /\ buf_list \in Seq(Buf)
      BY DEF TypeOK
    <3>2. Append(queuedList, b) \in Seq(Buf)
      BY <3>1, AppendProperties
    <3>3. Append(buf_list, b) \in Seq(Buf)
      BY <3>1, AppendProperties
    <3> QED
      BY <3>2, <3>3
  <2>2. CASE BeginStart(Append(queuedList, b))
    <3>1. /\ bst' \in [Buf -> BufState] /\ started' \in BOOLEAN
          /\ queuedList' \in Seq(Buf) /\ buf_list' \in Seq(Buf)
          /\ pc' \in [Thread -> Label]
      BY <2>1, <2>2, BeginStartType
    <3> QED
      BY <1>6, <3>1 DEF QBuf, TypeOK
  <2>3. CASE Done(b, "active") /\ BufferQueue(b)
             /\ UNCHANGED <<queuedList, started, pc>>
    <3>1. bst' \in [Buf -> BufState]
      BY <2>3, DoneType DEF BufState
    <3> QED
      BY <1>6, <2>1, <2>3, <3>1 DEF QBuf, BufferQueue, TypeOK
  <2>4. CASE Done(b, "queued") /\ queuedList' = Append(queuedList, b)
             /\ UNCHANGED <<buf_list, started, pc>>
    <3>1. bst' \in [Buf -> BufState]
      BY <2>4, DoneType DEF BufState
    <3> QED
      BY <1>6, <2>1, <2>4, <3>1 DEF QBuf, TypeOK
  <2> QED
    BY <1>6, <2>2, <2>3, <2>4 DEF QBuf
<1>7. ASSUME NEW b \in Buf, DQBuf(b) PROVE TypeOK'
  <2>1. bst' \in [Buf -> BufState]
    BY <1>7, DoneType DEF DQBuf, BufState
  <2> QED
    BY <1>7, <2>1 DEF DQBuf, TypeOK
<1> QED
  BY <1>1, <1>2, <1>4, <1>5, <1>6, <1>7 DEF UserCall

LEMMA DiscType == TypeOK /\ (DisconnectBegin \/ DiscStep) => TypeOK'
<1> SUFFICES ASSUME TypeOK, DisconnectBegin \/ DiscStep PROVE TypeOK'
  OBVIOUS
<1> USE DEF DiscFrame, devVars, hdlVars, drvVars, vbVars, boundVars
<1>1. CASE DisconnectBegin
  <2>1. pc' \in [Thread -> Label]
    BY <1>1, GotoType DEF DisconnectBegin, Label, Thread
  <2>2. epOn' \in BOOLEAN /\ unlinked' \subseteq queued'
    BY <1>1 DEF DisconnectBegin
  <2> QED
    BY <1>1, <2>1, <2>2 DEF DisconnectBegin, TypeOK
<1>2. CASE Poison("disc") \/ PoisonWait("disc")
  BY <1>2, PoisonType DEF Thread
<1>3. CASE DisconnectFlag
  <2>1. pc' \in [Thread -> Label]
    BY <1>3, GotoType DEF DisconnectFlag, Label, Thread
  <2> QED
    BY <1>3, <2>1 DEF DisconnectFlag, TypeOK
<1>4. CASE DisconnectError
  <2>1. pc' \in [Thread -> Label]
    BY <1>4, GotoType DEF DisconnectError, Label, Thread
  <2> QED
    BY <1>4, <2>1 DEF DisconnectError, TypeOK
<1>5. CASE DisconnectUnregister
  <2>1. pc' \in [Thread -> Label]
    BY <1>5, GotoType DEF DisconnectUnregister, Label, Thread
  <2>2. registered' \in BOOLEAN
    BY <1>5 DEF DisconnectUnregister
  <2> QED
    BY <1>5, <2>1, <2>2 DEF DisconnectUnregister, TypeOK
<1> QED
  BY <1>1, <1>2, <1>3, <1>4, <1>5 DEF DiscStep

LEMMA TypeNext == TypeOK /\ [Next]_vars => TypeOK'
<1>1. TypeOK /\ UNCHANGED vars => TypeOK'
  BY DEF TypeOK, vars, usbVars, devVars, hdlVars, drvVars, vbVars, v4lVars,
         thrVars, boundVars
<1> QED
  BY <1>1, UsbType, HandlerType, UserStepType, UserCallType, DiscType
  DEF Next, Detached

\* In every behaviour of the pipeline the variables keep their types: in
\* particular the list of buffers stays a list of buffers and the number of
\* bytes to drain never becomes negative.
THEOREM TypeCorrect == Spec => []TypeOK
  BY TypeInit, TypeNext, PTL DEF Spec

-----------------------------------------------------------------------------
(***************************************************************************)
(* Stopped means quiet.                                                    *)
(***************************************************************************)

\* What QuietInv depends on.
quietVars == <<epOn, reject, queued, hurb, hpc, disconnected, started, pc, tgt>>

LEMMA QuietStutter == QuietInv /\ UNCHANGED quietVars => QuietInv'
  BY DEF QuietInv, ThreadShape, HandlerShape, Held, Cleared, DiscDone, Starting,
         UserHolds, UserCleared, DiscCleared, Rests, quietVars

LEMMA GotoApplied ==
  ASSUME TypeOK, NEW t \in Thread, NEW l, Goto(t, l)
  PROVE  pc'[t] = l /\ \A s \in Thread \ {t} : pc'[s] = pc[s]
  BY DEF TypeOK, Goto

LEMMA QuietInit == Init => QuietInv
<1> SUFFICES ASSUME Init PROVE QuietInv
  OBVIOUS
<1>1. pc["user"] = "idle" /\ pc["disc"] = "bound"
      /\ \A t \in Thread : tgt[t] = "hdr"
  BY DEF Init, Thread
<1>2. ThreadShape
  <2>1. epOn <=> pc["disc"] = "bound"
    BY <1>1 DEF Init
  <2>2. disconnected <=> pc["disc"] \in {"error", "unregister", "gone"}
    BY <1>1 DEF Init
  <2> QED
    BY <1>1, <2>1, <2>2 DEF ThreadShape, UserLabel, DiscLabel
<1>4. HandlerShape /\ Starting
  BY <1>1 DEF Init, HandlerShape, Starting
<1>3. Held /\ Cleared /\ DiscDone
  BY <1>1 DEF Init, Held, Cleared, DiscDone, Rests, DiscCleared, Urb, NoUrb
<1> QED
  BY <1>2, <1>3, <1>4 DEF QuietInv

\* An URB given back was queued: no thread has waited for it yet.
LEMMA QuietGiveBack ==
  ASSUME TypeOK, QuietInv, NEW u \in queued, NEW s, hpc = "idle", GiveBack(u, s),
         UNCHANGED <<epOn, reject, disconnected, started, thrVars>>
  PROVE  QuietInv'
<1> USE DEF thrVars
<1>1. queued' = {} /\ hurb' = u /\ hpc' = "enter" /\ u \in Urb /\ u # NoUrb
  BY DEF GiveBack, QuietInv, HandlerShape, TypeOK, Urb, NoUrb
<1>2. ThreadShape' /\ HandlerShape' /\ Held'
  BY <1>1 DEF QuietInv, ThreadShape, HandlerShape, Held, UserHolds
<1>3. Cleared' /\ DiscDone'
  BY <1>1 DEF QuietInv, Cleared, DiscDone, UserCleared, UserHolds, DiscCleared,
              Rests
<1>4. Starting'
  BY <1>1 DEF QuietInv, Starting
<1> QED
  BY <1>2, <1>3, <1>4 DEF QuietInv

\* A handler's submission is accepted only of an URB that nobody holds.
LEMMA QuietSubmit ==
  ASSUME TypeOK, QuietInv, NEW u \in Urb, hpc # "idle", Resubmit(u), Return,
         UNCHANGED <<epOn, reject, disconnected, started, thrVars>>
  PROVE  QuietInv'
<1> USE DEF thrVars
<1>1. hurb' = NoUrb /\ hpc' = "idle" /\ queued = {}
  BY DEF Return, QuietInv, HandlerShape
<1>2. queued' = {} \/ (queued' = {u} /\ epOn /\ reject[u] = 0)
  BY <1>1 DEF Resubmit, SubmitOk, SubmitFails, Accepted
<1>3. ThreadShape' /\ HandlerShape' /\ Held'
  BY <1>1, <1>2 DEF QuietInv, ThreadShape, HandlerShape, Held, UserHolds
<1>4. ASSUME queued' = {u}, epOn, reject[u] = 0
      PROVE  ~UserHolds(u) /\ ~DiscCleared(u)
  <2>1. pc["disc"] = "bound"
    BY <1>4 DEF QuietInv, ThreadShape
  <2>2. ~disconnected
    BY <2>1 DEF QuietInv, ThreadShape
  <2>3. ~UserHolds(u)
    BY <1>4, <2>2 DEF QuietInv, Held
  <2> QED
    BY <2>1, <2>3 DEF DiscCleared
<1>5. Cleared' /\ DiscDone'
  <2>1. \A v \in Urb : v # NoUrb
    BY DEF Urb, NoUrb
  <2> QED
    BY <1>1, <1>2, <1>4, <2>1 DEF Cleared, DiscDone, UserCleared, UserHolds,
                                  DiscCleared, Rests
<1>6. Starting'
  BY <1>1 DEF QuietInv, Starting
<1> QED
  BY <1>3, <1>5, <1>6 DEF QuietInv

\* A handler's other steps only move its program counter.
LEMMA QuietMove ==
  ASSUME QuietInv, hpc # "idle", hpc' # "idle",
         UNCHANGED <<epOn, reject, queued, hurb, disconnected, started, thrVars>>
  PROVE  QuietInv'
  BY DEF QuietInv, ThreadShape, HandlerShape, Held, Cleared, DiscDone, Starting,
         UserHolds, UserCleared, DiscCleared, Rests, thrVars

LEMMA QuietUsb == TypeOK /\ QuietInv /\ Usb => QuietInv'
<1> SUFFICES ASSUME TypeOK, QuietInv, Usb PROVE QuietInv'
  OBVIOUS
<1>1. ASSUME NEW u \in Urb, Packet(u) PROVE QuietInv'
  <2>1. CASE UNCHANGED <<queued, unlinked, hurb, hpc, hstat, hdrKind>>
    BY <1>1, <2>1, QuietStutter DEF Packet, quietVars, thrVars, vbVars
  <2>2. CASE GiveBack(u, "ok") \/ GiveBack(u, "error")
    BY <1>1, <2>2, QuietGiveBack DEF Packet, vbVars
  <2> QED
    BY <1>1, <2>1, <2>2 DEF Packet
<1>2. ASSUME NEW u \in Urb, TransferError(u) PROVE QuietInv'
  BY <1>2, QuietGiveBack DEF TransferError, vbVars
<1>3. ASSUME NEW u \in Urb, Cancelled(u) PROVE QuietInv'
  BY <1>3, QuietGiveBack DEF Cancelled, vbVars, TypeOK
<1>4. CASE CutFrame
  BY <1>4, QuietStutter DEF CutFrame, quietVars, usbVars, hdlVars, vbVars,
                            thrVars
<1> QED
  BY <1>1, <1>2, <1>3, <1>4 DEF Usb

LEMMA QuietHandler == TypeOK /\ QuietInv /\ Handler => QuietInv'
<1> SUFFICES ASSUME TypeOK, QuietInv, Handler PROVE QuietInv'
  OBVIOUS
<1> USE DEF HandlerFrame
<1>1. ASSUME NEW count, SubmitDrain(count), hpc # "idle", HandlerFrame
      PROVE  QuietInv'
  BY <1>1, QuietSubmit DEF SubmitDrain, Urb
<1>2. ASSUME SubmitHdr, hpc # "idle", HandlerFrame
      PROVE  QuietInv'
  BY <1>2, QuietSubmit DEF SubmitHdr, Urb
<1>3. ASSUME HandleHeader(hdrKind), hpc # "idle", HandlerFrame
      PROVE  QuietInv'
  BY <1>1, <1>3, QuietMove DEF HandleHeader
<1>4. CASE Dead
  <2>1. hpc # "idle" /\ hpc' = "idle" /\ hurb' = NoUrb /\ queued = {}
        /\ UNCHANGED <<epOn, reject, queued, disconnected, started, thrVars>>
    BY <1>4 DEF Dead, Return, QuietInv, HandlerShape
  <2>2. \A v \in Urb : v # NoUrb
    BY DEF Urb, NoUrb
  <2> QED
    BY <2>1, <2>2 DEF QuietInv, ThreadShape, HandlerShape, Held, Cleared,
       DiscDone, Starting, UserHolds, UserCleared, DiscCleared, Rests, thrVars
<1>5. CASE HdrComplete
  BY <1>1, <1>2, <1>3, <1>5 DEF HdrComplete
<1>6. CASE DrainComplete
  BY <1>1, <1>2, <1>3, <1>6 DEF DrainComplete
<1>7. CASE FrameSubmit
  <2>1. CASE SubmitOk("frame") /\ Return
    BY <1>7, <2>1, QuietSubmit DEF FrameSubmit, Resubmit, Urb
  <2>2. CASE SubmitFails("frame") /\ hpc' = "failed" /\ UNCHANGED hurb
    BY <1>7, <2>2, QuietMove DEF FrameSubmit, SubmitFails
  <2> QED
    BY <1>7, <2>1, <2>2 DEF FrameSubmit
<1>8. CASE FrameSubmitFailed
  <2>1. hpc # "idle" /\ hpc' = "idle" /\ hurb' = NoUrb /\ queued = {}
        /\ UNCHANGED <<epOn, reject, queued, disconnected, started, thrVars>>
    BY <1>8 DEF FrameSubmitFailed, Return, QuietInv, HandlerShape
  <2>2. \A v \in Urb : v # NoUrb
    BY DEF Urb, NoUrb
  <2> QED
    BY <2>1, <2>2 DEF QuietInv, ThreadShape, HandlerShape, Held, Cleared,
       DiscDone, Starting, UserHolds, UserCleared, DiscCleared, Rests, thrVars
<1>9. CASE FrameComplete \/ FrameDeliver
  BY <1>9, QuietMove DEF FrameComplete, FrameDeliver
<1>10. CASE FrameNext
  BY <1>2, <1>10 DEF FrameNext
<1> QED
  BY <1>4, <1>5, <1>6, <1>7, <1>8, <1>9, <1>10 DEF Handler

LEMMA QuietPoison ==
  ASSUME TypeOK, QuietInv, NEW t \in Thread, Poison(t)
  PROVE  QuietInv'
<1> USE DEF ThreadFrame, hdlVars, vbVars, Thread
<1>1. /\ pc[t] = "poison" /\ pc'[t] = "wait"
      /\ \A s \in Thread \ {t} : pc'[s] = pc[s]
  BY GotoApplied DEF Poison
<1>2. reject' = [reject EXCEPT ![tgt[t]] = @ + 1] /\ tgt[t] \in Urb
      /\ \A u \in Urb : reject[u] \in Int
  BY DEF Poison, Refuse, TypeOK
<1>3. UNCHANGED <<epOn, queued, hurb, hpc, disconnected, started, tgt>>
  BY DEF Poison
<1>4. ThreadShape' /\ HandlerShape' /\ Starting'
  BY <1>1, <1>3 DEF QuietInv, ThreadShape, HandlerShape, Starting, UserLabel,
                    DiscLabel
<1>5. Held'
  <2> SUFFICES ASSUME ~disconnected, NEW u \in Urb
               PROVE  reject'[u] >= 0 /\ (UserHolds(u)' => reject'[u] > 0)
    BY <1>3 DEF Held
  <2>1. /\ reject[u] \in Int /\ reject[u] >= 0
        /\ UserHolds(u) => reject[u] > 0
    BY <1>2 DEF QuietInv, Held
  <2>4. reject'[u] = IF u = tgt[t] THEN reject[u] + 1 ELSE reject[u]
    BY <1>2 DEF TypeOK
  <2>2. CASE UserHolds(u)
    BY <2>1, <2>2, <2>4
  <2>3. CASE ~UserHolds(u)
    <3>1. UserHolds(u)' => u = tgt[t]
      BY <1>1, <1>3, <2>3 DEF UserHolds
    <3> QED
      BY <2>1, <2>4, <3>1
  <2> QED
    BY <2>2, <2>3
<1>6. Cleared' /\ DiscDone'
  BY <1>1, <1>3 DEF QuietInv, Cleared, DiscDone, UserCleared, UserHolds,
                    DiscCleared, Rests
<1> QED
  BY <1>4, <1>5, <1>6 DEF QuietInv

LEMMA QuietPoisonWait ==
  ASSUME TypeOK, QuietInv, NEW t \in Thread, PoisonWait(t)
  PROVE  QuietInv'
<1> USE DEF ThreadFrame, hdlVars, vbVars, Thread
<1>1. UNCHANGED <<epOn, reject, queued, hurb, hpc, disconnected, started>>
  BY DEF PoisonWait
<1>2. pc[t] = "wait" /\ Rests(tgt[t]) /\ tgt[t] \in Urb
  BY DEF PoisonWait, GivenBack, Rests, TypeOK
<1>3. CASE tgt[t] = "drain"
  <2>1. /\ pc'[t] = Poisoned(t) /\ tgt'[t] = "hdr"
        /\ \A s \in Thread \ {t} : pc'[s] = pc[s] /\ tgt'[s] = tgt[s]
    BY <1>3, GotoApplied DEF PoisonWait, LastUrb, TypeOK
  <2>2. /\ t = "disc" => pc'[t] = "flag"
        /\ t = "user" => pc'[t] \in {"unget", "reap"}
    BY <2>1 DEF Poisoned, TypeOK
  <2>3. \A u \in Urb : u = "drain" \/ Before(u, "drain")
    BY DEF Urb, Before
  <2>4. ThreadShape' /\ HandlerShape' /\ Starting'
    BY <1>1, <1>2, <2>1, <2>2 DEF QuietInv, ThreadShape, HandlerShape, Starting,
                                  UserLabel, DiscLabel
  <2>5. ~disconnected => \A u \in Urb :
          (UserHolds(u)' => UserHolds(u)) /\ (UserCleared(u)' => Rests(u))
    BY <1>1, <1>2, <1>3, <2>1, <2>2, <2>3
    DEF UserHolds, UserCleared, QuietInv, Cleared
  <2>6. \A u \in Urb : DiscCleared(u)' => Rests(u)
    BY <1>1, <1>2, <1>3, <2>1, <2>2, <2>3 DEF DiscCleared, QuietInv, DiscDone
  <2> QED
    BY <1>1, <2>4, <2>5, <2>6 DEF QuietInv, Held, Cleared, DiscDone, Rests
<1>4. CASE tgt[t] # "drain"
  <2>1. /\ pc'[t] = "poison" /\ tgt'[t] = NextUrb(tgt[t])
        /\ \A s \in Thread \ {t} : pc'[s] = pc[s] /\ tgt'[s] = tgt[s]
    BY <1>4, GotoApplied DEF PoisonWait, LastUrb, TypeOK
  <2>2. \A u \in Urb : Before(u, NextUrb(tgt[t])) =>
                         u = tgt[t] \/ Before(u, tgt[t])
    BY <1>2, <1>4 DEF Urb, NextUrb, Before
  <2>3. ThreadShape' /\ HandlerShape' /\ Starting'
    BY <1>1, <1>2, <2>1 DEF QuietInv, ThreadShape, HandlerShape, Starting,
                            UserLabel, DiscLabel
  <2>4. ~disconnected => \A u \in Urb :
          (UserHolds(u)' => UserHolds(u)) /\ (UserCleared(u)' => Rests(u))
    BY <1>1, <1>2, <2>1, <2>2 DEF UserHolds, UserCleared, QuietInv, Cleared
  <2>5. \A u \in Urb : DiscCleared(u)' => Rests(u)
    BY <1>1, <1>2, <2>1, <2>2 DEF DiscCleared, QuietInv, DiscDone
  <2> QED
    BY <1>1, <2>3, <2>4, <2>5 DEF QuietInv, Held, Cleared, DiscDone, Rests
<1> QED
  BY <1>3, <1>4

\* The user's thread goes from one label to another, and neither of them frees
\* an URB that the first one held.
LEMMA QuietUserMove ==
  ASSUME TypeOK, QuietInv, NEW l \in UserLabel, Goto("user", l),
         UNCHANGED <<epOn, reject, queued, hurb, hpc, disconnected, tgt>>,
         started' \in BOOLEAN, ~started' => l = "idle",
         pc["user"] \notin {"poison", "wait"}, l \notin {"wait", "submit"},
         \A u \in Urb : UserHolds(u)' => UserHolds(u) \/ disconnected
  PROVE  QuietInv'
<1>1. pc'["user"] = l /\ pc'["disc"] = pc["disc"]
  BY GotoApplied DEF Thread
<1>2. ThreadShape' /\ HandlerShape' /\ Starting'
  BY <1>1 DEF QuietInv, ThreadShape, HandlerShape, Starting, Thread
<1>3. Held' /\ Cleared'
  BY <1>1 DEF QuietInv, Held, Cleared, UserCleared, Rests
<1>4. DiscDone'
  BY <1>1 DEF QuietInv, DiscDone, DiscCleared, Rests
<1> QED
  BY <1>2, <1>3, <1>4 DEF QuietInv

LEMMA QuietUserStep == TypeOK /\ QuietInv /\ UserStep => QuietInv'
<1> SUFFICES ASSUME TypeOK, QuietInv, UserStep PROVE QuietInv'
  OBVIOUS
<1> USE DEF UserFrame, DriverFrame, ThreadFrame, hdlVars, vbVars
<1>0. \A l \in UserLabel : Goto("user", l) =>
        pc'["user"] = l /\ pc'["disc"] = pc["disc"]
  BY GotoApplied DEF Thread
<1>1. CASE Poison("user") \/ PoisonWait("user")
  BY <1>1, QuietPoison, QuietPoisonWait DEF Thread
<1>2. ASSUME StartFailed, pc["user"] \in {"get", "unget"},
             UNCHANGED <<epOn, reject, queued, hurb, hpc, disconnected, tgt>>
      PROVE  QuietInv'
  <2>1. Goto("user", "idle") /\ ~started' /\ started' \in BOOLEAN
    BY <1>2 DEF StartFailed
  <2>2. \A u \in Urb : UserHolds(u)
    BY <1>2 DEF UserHolds
  <2> QED
    BY <1>2, <2>1, <2>2, QuietUserMove DEF UserLabel
<1>3. CASE PipelineGet
  <2>1. CASE StartFailed
    BY <1>2, <1>3, <2>1 DEF PipelineGet
  <2>2. CASE Goto("user", "start") /\ UNCHANGED started
    <3>1. \A u \in Urb : UserHolds(u)
      BY <1>3 DEF PipelineGet, UserHolds
    <3>2. started
      BY <1>3 DEF PipelineGet, QuietInv, ThreadShape
    <3> QED
      BY <1>3, <2>2, <3>1, <3>2, QuietUserMove DEF PipelineGet, UserLabel, TypeOK
  <2> QED
    BY <1>3, <2>1, <2>2 DEF PipelineGet
<1>5. CASE StartUnget
  BY <1>2, <1>5 DEF StartUnget
<1>8. CASE StopReap \/ StopReturnAll
  <2>1. PICK l \in {"return", "cancel"} : Goto("user", l)
    BY <1>8 DEF StopReap, StopReturnAll
  <2>2. /\ UNCHANGED <<epOn, reject, queued, hurb, hpc, disconnected, tgt,
                       started>>
        /\ pc["user"] \in {"reap", "return"}
    BY <1>8 DEF StopReap, StopReturnAll
  <2>3. \A u \in Urb : UserHolds(u)
    BY <2>2 DEF UserHolds
  <2>4. started
    BY <2>2 DEF QuietInv, ThreadShape
  <2> QED
    BY <2>1, <2>2, <2>3, <2>4, QuietUserMove DEF UserLabel, TypeOK
<1>9. CASE StopCancel
  <2>1. Goto("user", "idle") /\ ~started' /\ started' \in BOOLEAN
        /\ UNCHANGED <<epOn, reject, queued, hurb, hpc, disconnected, tgt>>
        /\ pc["user"] = "cancel"
    BY <1>9 DEF StopCancel, CancelQueue
  <2>2. \A u \in Urb : UserHolds(u)
    BY <2>1 DEF UserHolds
  <2> QED
    BY <2>1, <2>2, QuietUserMove DEF UserLabel
<1>6. CASE VideoStop
  <2>1. UNCHANGED <<epOn, reject, queued, hurb, hpc, disconnected, tgt, started>>
        /\ pc["user"] = "stop"
    BY <1>6 DEF VideoStop
  <2>2. started
    BY <2>1 DEF QuietInv, ThreadShape
  <2>3. CASE disconnected
    <3>1. Goto("user", Poisoned("user"))
          /\ Poisoned("user") \in {"unget", "reap"}
      BY <1>6, <2>3 DEF VideoStop, Poisoned, TypeOK
    <3> QED
      BY <2>1, <2>2, <2>3, <3>1, QuietUserMove DEF UserLabel, TypeOK
  <2>4. CASE ~disconnected
    <3>1. Goto("user", "poison")
      BY <1>6, <2>4 DEF VideoStop
    <3>2. pc'["user"] = "poison" /\ tgt'["user"] = "hdr"
      BY <1>0, <2>1, <3>1 DEF QuietInv, ThreadShape, Thread, UserLabel
    <3>3. \A u \in Urb : ~UserHolds(u)'
      BY <2>1, <2>2, <3>2 DEF UserHolds, Before
    <3> QED
      BY <2>1, <2>2, <3>1, <3>3, QuietUserMove DEF UserLabel, TypeOK
  <2> QED
    BY <2>3, <2>4
<1>7. CASE VideoStart
  <2>1. /\ pc["user"] = "start" /\ pc'["user"] = "submit"
        /\ pc'["disc"] = pc["disc"]
        /\ UNCHANGED <<epOn, queued, hurb, hpc, disconnected, tgt, started>>
    BY <1>0, <1>7 DEF VideoStart, UserLabel
  <2>2. started
    BY <2>1 DEF QuietInv, ThreadShape
  <2>3. \A u \in Urb : ~UserHolds(u)'
    BY <2>1, <2>2 DEF UserHolds
  <2>4. \A u \in Urb : UserHolds(u) /\ UserCleared(u)
    BY <2>1 DEF UserHolds, UserCleared
  <2>5. Held'
    <3> SUFFICES ASSUME ~disconnected, NEW u \in Urb PROVE reject'[u] >= 0
      BY <2>1, <2>3 DEF Held
    <3>1. reject[u] \in Int /\ reject[u] > 0
      BY <2>4 DEF QuietInv, Held, TypeOK
    <3>2. reject'[u] = reject[u] - 1
      BY <1>7 DEF VideoStart
    <3> QED
      BY <3>1, <3>2
  <2>6. ThreadShape' /\ HandlerShape'
    BY <2>1, <2>2 DEF QuietInv, ThreadShape, HandlerShape, UserLabel, Thread
  <2>7. Cleared' /\ DiscDone'
    BY <2>1, <2>3 DEF QuietInv, Cleared, DiscDone, UserCleared, DiscCleared,
                      Rests
  <2>8. \A u \in Urb : Rests(u)
    <3>1. disconnected => \A u \in Urb : DiscCleared(u)
      BY DEF QuietInv, ThreadShape, DiscCleared
    <3> QED
      BY <2>4, <3>1 DEF QuietInv, Cleared, DiscDone
  <2>9. Starting'
    <3>1. queued = {} /\ hurb = NoUrb
      BY <2>8 DEF Rests, TypeOK
    <3> QED
      BY <2>1, <3>1 DEF Starting, QuietInv, HandlerShape
  <2> QED
    BY <2>5, <2>6, <2>7, <2>9 DEF QuietInv
<1>4. CASE VideoStartSubmit
  <2>1. /\ pc["user"] = "submit" /\ queued = {} /\ hpc = "idle"
        /\ UNCHANGED <<epOn, reject, hurb, hpc, disconnected, tgt, started>>
    BY <1>4 DEF VideoStartSubmit, QuietInv, Starting
  <2>2. started
    BY <2>1 DEF QuietInv, ThreadShape
  <2>3. /\ pc'["disc"] = pc["disc"] /\ pc'["user"] \in {"idle", "stop"}
        /\ queued' = {} \/ (queued' = {"hdr"} /\ epOn)
    BY <1>0, <1>4, <2>1
    DEF VideoStartSubmit, SubmitOk, SubmitFails, Accepted, UserLabel
  <2>4. \A u \in Urb : ~UserHolds(u)'
    BY <2>1, <2>2, <2>3 DEF UserHolds
  <2>5. \A u \in Urb : ~UserHolds(u)
    BY <2>1, <2>2 DEF UserHolds
  <2>6. ThreadShape' /\ HandlerShape' /\ Starting'
    BY <2>1, <2>2, <2>3 DEF QuietInv, ThreadShape, HandlerShape, Starting,
                            UserLabel, Thread
  <2>7. Held' /\ Cleared'
    BY <2>1, <2>4 DEF QuietInv, Held, Cleared, UserCleared
  <2>8. DiscDone'
    <3>1. epOn => \A u \in Urb : ~DiscCleared(u)
      BY DEF QuietInv, ThreadShape, DiscCleared
    <3> QED
      BY <2>1, <2>3, <3>1 DEF QuietInv, DiscDone, DiscCleared, Rests
  <2> QED
    BY <2>6, <2>7, <2>8 DEF QuietInv
<1> QED
  BY <1>1, <1>3, <1>4, <1>5, <1>6, <1>7, <1>8, <1>9 DEF UserStep

\* Between two ioctls, the driver streams only when vb2 streams.
Running == Idle /\ started => streaming

LEMMA RunningInit == Init => Running
  BY DEF Init, Running

LEMMA RunningNext == TypeOK /\ Running /\ [Next]_vars => Running'
<1> SUFFICES ASSUME TypeOK, Running, [Next]_vars PROVE Running'
  OBVIOUS
<1>1. CASE UNCHANGED vars
  BY <1>1 DEF Running, Idle, vars, thrVars, vbVars
<1>2. ASSUME UNCHANGED <<streaming, started>>, pc'["user"] = pc["user"]
      PROVE  Running'
  BY <1>2 DEF Running, Idle
<1>3. CASE Usb
  BY <1>2, <1>3 DEF Usb, Packet, TransferError, Cancelled, CutFrame, thrVars,
                    vbVars
<1>4. CASE Handler
  <2>1. UNCHANGED <<streaming, started, pc>>
    BY <1>4 DEF Handler, Dead, HdrComplete, DrainComplete, FrameSubmit,
       FrameSubmitFailed, FrameComplete, FrameDeliver, FrameNext, HandlerFrame,
       thrVars
  <2> QED
    BY <1>2, <2>1
<1>5. CASE Detached
  BY <1>2, <1>5 DEF Detached, vars, thrVars, vbVars
<1>6. CASE DisconnectBegin \/ DiscStep
  <2>1. UNCHANGED <<streaming, started>>
    BY <1>6 DEF DiscStep, Poison, PoisonWait, DisconnectBegin, DisconnectFlag,
       DisconnectError, DisconnectUnregister, DiscFrame, vbVars
  <2>2. \E l \in Label : Goto("disc", l)
    BY <1>6 DEF DiscStep, Poison, PoisonWait, DisconnectBegin, DisconnectFlag,
       DisconnectError, DisconnectUnregister, Poisoned, Label
  <2>3. pc'["user"] = pc["user"]
    BY <2>2, GotoApplied DEF Thread
  <2> QED
    BY <1>2, <2>1, <2>3
<1>7. CASE UserStep
  <2>1. ASSUME NEW l \in Label \ {"idle"}, Goto("user", l) PROVE Running'
    BY <2>1, GotoApplied DEF Running, Idle, Thread
  <2>2. CASE Poison("user") \/ PoisonWait("user")
    BY <1>7, <2>1, <2>2 DEF Poison, PoisonWait, Poisoned, Label, TypeOK
  <2>3. CASE PipelineGet \/ StartUnget
    BY <2>1, <2>3 DEF PipelineGet, StartUnget, StartFailed, Running, Label
  <2>4. CASE VideoStart \/ StopReap \/ StopReturnAll
    BY <2>1, <2>4 DEF VideoStart, StopReap, StopReturnAll, Label
  <2>5. CASE VideoStop
    BY <2>1, <2>5 DEF VideoStop, Poisoned, Label, TypeOK
  <2>6. CASE VideoStartSubmit
    BY <2>1, <2>6 DEF VideoStartSubmit, Running, Label
  <2>7. CASE StopCancel
    BY <2>7 DEF StopCancel, CancelQueue, Running
  <2> QED
    BY <1>7, <2>2, <2>3, <2>4, <2>5, <2>6, <2>7 DEF UserStep
<1>8. CASE UserCall
  <2>1. ASSUME NEW l \in Label \ {"idle"}, Goto("user", l) PROVE Running'
    BY <2>1, GotoApplied DEF Running, Idle, Thread
  <2>2. ASSUME NEW q, BeginStart(q) PROVE Running'
    BY <2>1, <2>2 DEF BeginStart, Label
  <2>3. CASE Open
    BY <1>2, <2>3 DEF Open, vbVars
  <2>4. ASSUME NEW b \in Buf, QBuf(b) \/ DQBuf(b) PROVE Running'
    BY <1>2, <2>2, <2>4 DEF QBuf, DQBuf
  <2>5. CASE StreamOn
    BY <2>2, <2>5 DEF StreamOn, Running
  <2>6. CASE StreamOff \/ Close
    BY <2>1, <2>6 DEF StreamOff, Close, StopQueue, CancelQueue, Running, Label
  <2> QED
    BY <1>8, <2>3, <2>4, <2>5, <2>6 DEF UserCall
<1> QED
  BY <1>1, <1>3, <1>4, <1>5, <1>6, <1>7, <1>8 DEF Next

LEMMA QuietUserCall == TypeOK /\ QuietInv /\ Running /\ UserCall => QuietInv'
<1> SUFFICES ASSUME TypeOK, QuietInv, Running, UserCall PROVE QuietInv'
  OBVIOUS
<1> USE DEF UserFrame, DriverFrame, ThreadFrame, hdlVars, vbVars
<1>1. ASSUME NEW q, BeginStart(q), Idle, ~started,
             UNCHANGED <<epOn, reject, queued, hurb, hpc, disconnected, tgt>>
      PROVE  QuietInv'
  <2>1. Goto("user", "get") /\ started'
    BY <1>1 DEF BeginStart
  <2>2. \A u \in Urb : UserHolds(u)
    BY <1>1 DEF UserHolds
  <2> QED
    BY <1>1, <2>1, <2>2, QuietUserMove DEF UserLabel, BeginStart, Idle
<1>2. CASE Open
  BY <1>2, QuietStutter DEF Open, quietVars
<1>3. ASSUME NEW b \in Buf, DQBuf(b) PROVE QuietInv'
  BY <1>3, QuietStutter DEF DQBuf, quietVars
<1>4. ASSUME NEW b \in Buf, QBuf(b) PROVE QuietInv'
  <2>1. UNCHANGED <<epOn, reject, queued, hurb, hpc, disconnected, tgt>> /\ Idle
    BY <1>4 DEF QBuf
  <2>2. CASE UNCHANGED <<started, pc>>
    BY <2>1, <2>2, QuietStutter DEF quietVars
  <2>3. CASE ~started /\ BeginStart(Append(queuedList, b))
    BY <1>1, <2>1, <2>3
  <2> QED
    BY <1>4, <2>2, <2>3 DEF QBuf
<1>5. CASE StreamOn
  <2>1. UNCHANGED <<epOn, reject, queued, hurb, hpc, disconnected, tgt>> /\ Idle
    BY <1>5 DEF StreamOn
  <2>2. ~started
    BY <1>5 DEF StreamOn, Running
  <2>3. CASE UNCHANGED <<started, pc>>
    BY <2>1, <2>3, QuietStutter DEF quietVars
  <2>4. CASE BeginStart(queuedList)
    BY <1>1, <2>1, <2>2, <2>4
  <2> QED
    BY <1>5, <2>3, <2>4 DEF StreamOn
<1>6. CASE StreamOff \/ Close
  <2>1. UNCHANGED <<epOn, reject, queued, hurb, hpc, disconnected, tgt>> /\ Idle
        /\ StopQueue
    BY <1>6 DEF StreamOff, Close
  <2>2. CASE started /\ Goto("user", "stop") /\ UNCHANGED started
    <3>1. \A u \in Urb : ~UserHolds(u)'
      BY <2>1, <2>2, GotoApplied DEF UserHolds, Thread, Idle
    <3> QED
      BY <2>1, <2>2, <3>1, QuietUserMove DEF UserLabel, Idle, TypeOK
  <2>3. CASE ~started /\ CancelQueue /\ UNCHANGED pc
    <3>1. started = FALSE
      BY <2>3 DEF TypeOK
    <3> QED
      BY <2>1, <2>3, <3>1, QuietStutter DEF CancelQueue, quietVars
  <2> QED
    BY <2>1, <2>2, <2>3 DEF StopQueue
<1> QED
  BY <1>2, <1>3, <1>4, <1>5, <1>6 DEF UserCall

LEMMA QuietDisc ==
  TypeOK /\ QuietInv /\ (DisconnectBegin \/ DiscStep) => QuietInv'
<1> SUFFICES ASSUME TypeOK, QuietInv, DisconnectBegin \/ DiscStep
             PROVE  QuietInv'
  OBVIOUS
<1> USE DEF DiscFrame, hdlVars, vbVars, thrVars
<1>1. CASE Poison("disc") \/ PoisonWait("disc")
  BY <1>1, QuietPoison, QuietPoisonWait DEF Thread
<1>2. \A l : Goto("disc", l) => pc'["disc"] = l /\ pc'["user"] = pc["user"]
  BY GotoApplied DEF Thread
<1>3. CASE DisconnectBegin
  <2>1. /\ pc["disc"] = "bound" /\ pc'["disc"] = "poison"
        /\ pc'["user"] = pc["user"] /\ ~epOn'
        /\ UNCHANGED <<reject, queued, hurb, hpc, disconnected, started, tgt>>
    BY <1>2, <1>3 DEF DisconnectBegin
  <2>2. \A u \in Urb : ~DiscCleared(u)'
    BY <2>1 DEF DiscCleared, Before, QuietInv, ThreadShape, Thread
  <2>3. ThreadShape' /\ HandlerShape' /\ Starting'
    BY <2>1 DEF QuietInv, ThreadShape, HandlerShape, Starting, DiscLabel,
                Thread
  <2>4. Held' /\ Cleared'
    BY <2>1 DEF QuietInv, Held, Cleared, UserCleared, UserHolds, Rests
  <2> QED
    BY <2>2, <2>3, <2>4 DEF QuietInv, DiscDone
<1>4. CASE DisconnectFlag \/ DisconnectError \/ DisconnectUnregister
  <2>1. /\ \/ pc["disc"] = "flag" /\ pc'["disc"] = "error" /\ disconnected'
           \/ /\ pc["disc"] \in {"error", "unregister"}
              /\ pc'["disc"] \in {"unregister", "gone"}
              /\ UNCHANGED disconnected
        /\ pc'["user"] = pc["user"]
        /\ UNCHANGED <<epOn, reject, queued, hurb, hpc, started, tgt>>
    BY <1>2, <1>4 DEF DisconnectFlag, DisconnectError, DisconnectUnregister
  <2>2. ThreadShape' /\ HandlerShape' /\ Starting'
    BY <2>1 DEF QuietInv, ThreadShape, HandlerShape, Starting, DiscLabel,
                Thread
  <2>3. Held' /\ Cleared'
    BY <2>1 DEF QuietInv, ThreadShape, Held, Cleared
  <2>4. DiscDone'
    BY <2>1 DEF QuietInv, DiscDone, DiscCleared, Rests
  <2> QED
    BY <2>2, <2>3, <2>4 DEF QuietInv
<1> QED
  BY <1>1, <1>3, <1>4 DEF DiscStep

LEMMA QuietNext ==
  TypeOK /\ QuietInv /\ Running /\ [Next]_vars => QuietInv'
<1>1. TypeOK /\ QuietInv /\ (Detached \/ UNCHANGED vars) => QuietInv'
  BY QuietStutter DEF Detached, vars, quietVars, usbVars, hdlVars, vbVars,
                      thrVars
<1> QED
  BY <1>1, QuietUsb, QuietHandler, QuietUserStep, QuietUserCall, QuietDisc
  DEF Next

LEMMA QuietAlways == Spec => [](TypeOK /\ QuietInv /\ Running)
<1>1. Init => TypeOK /\ QuietInv /\ Running
  BY TypeInit, QuietInit, RunningInit
<1>2. TypeOK /\ QuietInv /\ Running /\ [Next]_vars
        => (TypeOK /\ QuietInv /\ Running)'
  BY TypeNext, QuietNext, RunningNext
<1> QED
  BY <1>1, <1>2, PTL DEF Spec

\* However starts, stops, errors and the disconnect interleave, at most one of
\* the three URBs is queued, and none while a handler runs.
THEOREM OneTransferAlways == Spec => []OneTransfer
<1>1. TypeOK /\ QuietInv => OneTransfer
  <2> SUFFICES ASSUME TypeOK, QuietInv PROVE OneTransfer
    OBVIOUS
  <2>1. \A u, v \in queued : u = v
    BY DEF QuietInv, HandlerShape
  <2>2. queued = {} \/ \E u : queued = {u}
    BY <2>1
  <2>3. Cardinality(queued) <= 1
    <3>1. CASE queued = {}
      BY <3>1, FS_EmptySet
    <3>2. CASE \E u : queued = {u}
      BY <3>2, FS_Singleton
    <3> QED
      BY <2>2, <3>1, <3>2
  <2> QED
    BY <2>3 DEF OneTransfer, QuietInv, HandlerShape
<1> QED
  BY <1>1, QuietAlways, PTL

\* What has been waited for rests: after the disconnect's flag these are all URBs.
LEMMA DisconnectedRests ==
  ASSUME TypeOK, QuietInv, disconnected
  PROVE  \A u \in Urb : Rests(u)
  BY DEF QuietInv, ThreadShape, DiscDone, DiscCleared

LEMMA RestsQuiet ==
  ASSUME TypeOK, QuietInv, \A u \in Urb : Rests(u)
  PROVE  queued = {} /\ hpc = "idle"
  BY DEF Rests, TypeOK, QuietInv, HandlerShape

\* Once the disconnect has set its flag, no URB is queued and no handler runs,
\* whatever starts the application still tries.
THEOREM KilledAlways == Spec => []Killed
<1>1. TypeOK /\ QuietInv => Killed
  BY DisconnectedRests, RestsQuiet DEF Killed
<1> QED
  BY <1>1, QuietAlways, PTL

\* At the labels of Stopped the user's thread holds all URBs and has waited for them.
LEMMA StoppedIsQuiet == TypeOK /\ QuietInv => Quiet
<1> SUFFICES ASSUME TypeOK, QuietInv, Stopped
             PROVE  queued = {} /\ hpc = "idle"
  BY DEF Quiet
<1>1. ~disconnected => \A u \in Urb : UserCleared(u)
  BY DEF Stopped, UserCleared, UserHolds, Idle
<1>2. \A u \in Urb : Rests(u)
  BY <1>1, DisconnectedRests DEF QuietInv, Cleared
<1> QED
  BY <1>2, RestsQuiet

\* Whenever sur40_stop_streaming takes the buffers back, and whenever streaming
\* is off, no URB of the endpoint is queued and no handler runs.
THEOREM QuietAlwaysWhenStopped == Spec => []Quiet
  BY StoppedIsQuiet, QuietAlways, PTL
-----------------------------------------------------------------------------
(***************************************************************************)
(* The buffers.                                                            *)
(***************************************************************************)
\* A start whose first submission failed and that is being undone.
UndoesStart == pc["user"] \in {"stop", "poison", "wait"} /\ caller = "start"

\* Where the buffer of the frame on its way is: with the frame URB (cur_buf) or
\* in the hands of a handler, which has it in both places only after a failed
\* submission.
Hands ==
  /\ hbuf # NoBuf <=> hpc \in {"submit", "failed", "deliver"}
  /\ hpc = "failed" => cur_buf = hbuf
  /\ hpc \in {"submit", "deliver", "next"} => cur_buf = NoBuf
  /\ hpc = "enter" => (cur_buf # NoBuf <=> hurb = "frame")
  /\ \A u \in queued : cur_buf # NoBuf <=> u = "frame"

\* No frame can be on its way while the driver starts, or has returned all
\* buffers; nor does anything run while a start is undone.
Emptied ==
  /\ \/ ~started \/ UndoesStart
     \/ pc["user"] \in {"get", "start", "submit", "unget", "return", "cancel"}
     => cur_buf = NoBuf
  /\ UndoesStart => queued = {} /\ hpc = "idle"

\* The lists of vb2 and of the driver: the buffers are in the one or, from the
\* call of start_streaming on, in the other, which a start finds nonempty.
Lists ==
  /\ ~started \/ pc["user"] = "cancel" => buf_list = <<>>
  /\ UndoesStart \/ pc["user"] \in {"get", "start", "submit", "unget"}
       => buf_list # <<>>
  /\ started => queuedList = <<>>
  /\ IsInjective(queuedList)
  /\ {b \in Buf : bst[b] = "queued"} = Range(queuedList)

FlightInv == Hands /\ Emptied
OwnInv == Lists /\ BufferOwnership

\* Before the disconnect begins, the poison counts are exact, and only the
\* user's thread cancels transfers.
Counts == pc["disc"] = "bound" =>
            \A u \in Urb : reject[u] = IF UserHolds(u) THEN 1 ELSE 0
Alive ==
  /\ hpc = "idle" => hstat = "ok"
  /\ pc["disc"] = "bound" /\ pc["user"] \in {"idle", "get", "start", "submit", "stop"}
       => unlinked = {} /\ hstat # "dead"
  /\ hpc = "failed" /\ started /\ Idle /\ pc["disc"] = "bound" => nomem > 0
StallInv == Counts /\ Alive /\ NeverStalls

\* What a transfer has received so far.  After a header of the right size the
\* device is at the first packet of that image, unless it has cut it short and
\* begins with the next header; the frame URB has all packets up to the device's
\* position, or will get a header that ends it too early.
Images(n) == n * PktLen
FrameSoFar == \/ pos = 0 /\ \E n \in Nat : got = Images(n)
              \/ pos > 0 /\ pure /\ kind = "good" /\ got = Images(pos - 1)
PureInv ==
  /\ pos <= LastPos(kind)
  /\ hpc = "idle" => hdrKind = "image"
  /\ hpc \in {"enter", "submit"} /\ hdrKind = "good"
       => pos = 0 \/ (kind = "good" /\ pos = 1)
  /\ hpc = "submit" => hdrKind = "good"
  /\ "frame" \in queued => FrameSoFar
  /\ hpc = "deliver" \/ (hpc = "enter" /\ hurb = "frame")
       => (hstat = "ok" /\ got = SizeImage => pure)

-----------------------------------------------------------------------------
(***************************************************************************)
(* Where the frame's buffer is.                                            *)
(***************************************************************************)
VideoInv == TypeOK /\ QuietInv /\ Running

flightVars == <<hbuf, cur_buf, hpc, hurb, queued, started, pc, caller>>

LEMMA FlightStutter == FlightInv /\ UNCHANGED flightVars => FlightInv'
  BY DEF FlightInv, Hands, Emptied, UndoesStart, flightVars

LEMMA FlightInit == Init => FlightInv
<1> SUFFICES ASSUME Init PROVE FlightInv
  OBVIOUS
<1>1. pc["user"] = "idle" /\ hpc = "idle" /\ queued = {} /\ hbuf = NoBuf /\ cur_buf = NoBuf
  BY DEF Init, Thread
<1> QED
  BY <1>1 DEF FlightInv, Hands, Emptied, UndoesStart

\* An URB that is given back hands its buffer over to its handler.
LEMMA FlightGiveBack ==
  ASSUME VideoInv, FlightInv, NEW u \in queued, NEW s, hpc = "idle", GiveBack(u, s),
         UNCHANGED <<hbuf, cur_buf, started, thrVars>>
  PROVE  FlightInv'
<1>1. queued' = {} /\ hurb' = u /\ hpc' = "enter"
  BY DEF GiveBack, VideoInv, QuietInv, HandlerShape
<1> QED
  BY <1>1 DEF FlightInv, Hands, Emptied, UndoesStart, thrVars

LEMMA FlightUsb == VideoInv /\ FlightInv /\ Usb => FlightInv'
<1> SUFFICES ASSUME VideoInv, FlightInv, Usb PROVE FlightInv'
  OBVIOUS
<1> USE DEF drvVars, vbVars
<1>1. ASSUME NEW u \in Urb, Packet(u) PROVE FlightInv'
  <2>1. CASE UNCHANGED <<queued, unlinked, hurb, hpc, hstat, hdrKind>>
    BY <1>1, <2>1, FlightStutter DEF Packet, flightVars, thrVars
  <2>2. CASE GiveBack(u, "ok") \/ GiveBack(u, "error")
    BY <1>1, <2>2, FlightGiveBack DEF Packet
  <2> QED
    BY <1>1, <2>1, <2>2 DEF Packet
<1>2. ASSUME NEW u \in Urb, TransferError(u) PROVE FlightInv'
  BY <1>2, FlightGiveBack DEF TransferError
<1>3. ASSUME NEW u \in Urb, Cancelled(u) PROVE FlightInv'
  BY <1>3, FlightGiveBack DEF Cancelled, VideoInv, TypeOK
<1>4. CASE CutFrame
  BY <1>4, FlightStutter DEF CutFrame, flightVars, usbVars, hdlVars, thrVars
<1> QED
  BY <1>1, <1>2, <1>3, <1>4 DEF Usb

\* A handler that ends with the search for a header has no buffer.
LEMMA FlightSubmit ==
  ASSUME VideoInv, FlightInv, NEW u \in {"hdr", "drain"}, Resubmit(u), Return,
         hpc # "idle", cur_buf = NoBuf, UNCHANGED <<cur_buf, started, thrVars>>
  PROVE  FlightInv'
<1>1. queued' \subseteq {u} /\ hpc' = "idle" /\ hbuf' = NoBuf
  BY DEF Resubmit, SubmitOk, SubmitFails, Return, VideoInv, QuietInv, HandlerShape
<1> QED
  BY <1>1 DEF FlightInv, Hands, Emptied, UndoesStart, thrVars

LEMMA FlightHandler == VideoInv /\ FlightInv /\ Handler => FlightInv'
<1> SUFFICES ASSUME VideoInv, FlightInv, Handler PROVE FlightInv'
  OBVIOUS
<1> USE DEF HandlerFrame, drvVars
<1>1. ASSUME NEW count, SubmitDrain(count), hpc = "enter", hurb # "frame", HandlerFrame
      PROVE  FlightInv'
  <2>1. cur_buf = NoBuf
    BY <1>1 DEF FlightInv, Hands
  <2> QED
    BY <1>1, <2>1, FlightSubmit DEF SubmitDrain
<1>2. ASSUME SubmitHdr, hpc # "idle", cur_buf = NoBuf, HandlerFrame, UNCHANGED cur_buf
      PROVE  FlightInv'
  BY <1>2, FlightSubmit DEF SubmitHdr
<1>3. ASSUME HandleHeader(hdrKind), hpc = "enter", hurb # "frame", HandlerFrame
      PROVE  FlightInv'
  <2>1. CASE \E count : SubmitDrain(count)
    BY <1>1, <1>3, <2>1
  <2>2. CASE /\ buf_list # <<>> /\ hbuf' = Head(buf_list) /\ hpc' = "submit"
             /\ UNCHANGED <<queued, got, nomem, hurb, hstat, hdrKind, cur_buf, drain_remaining>>
    <3>1. hbuf' # NoBuf
      BY <2>2, BufAssumption, HeadTailProperties DEF VideoInv, TypeOK
    <3>2. queued = {} /\ cur_buf = NoBuf
      BY <1>3 DEF VideoInv, QuietInv, HandlerShape, FlightInv, Hands
    <3> QED
      BY <1>3, <2>2, <3>1, <3>2 DEF FlightInv, Hands, Emptied, UndoesStart, thrVars
  <2> QED
    BY <1>3, <2>1, <2>2 DEF HandleHeader
<1>4. CASE Dead
  <2>1. hpc # "idle" /\ hpc' = "idle" /\ hbuf' = NoBuf /\ queued' = {}
    BY <1>4 DEF Dead, Return, VideoInv, QuietInv, HandlerShape
  <2> QED
    BY <1>4, <2>1 DEF Dead, FlightInv, Hands, Emptied, UndoesStart, thrVars
<1>5. CASE HdrComplete
  <2>1. hpc = "enter" /\ hurb = "hdr" /\ cur_buf = NoBuf
    BY <1>5 DEF HdrComplete, FlightInv, Hands
  <2> QED
    BY <1>1, <1>2, <1>3, <1>5, <2>1 DEF HdrComplete
<1>6. CASE DrainComplete
  <2>1. hpc = "enter" /\ hurb = "drain" /\ cur_buf = NoBuf
    BY <1>6 DEF DrainComplete, FlightInv, Hands
  <2> QED
    BY <1>1, <1>2, <1>3, <1>6, <2>1 DEF DrainComplete
<1>7. CASE FrameSubmit
  <2>1. hpc = "submit" /\ cur_buf' = hbuf /\ hbuf # NoBuf /\ queued = {}
    BY <1>7 DEF FrameSubmit, FlightInv, Hands, VideoInv, QuietInv, HandlerShape
  <2>2. ~UndoesStart /\ started
        /\ pc["user"] \notin {"get", "start", "submit", "unget", "return", "cancel"}
    <3>1. Quiet
      BY StoppedIsQuiet DEF VideoInv
    <3> QED
      BY <2>1, <3>1 DEF FlightInv, Emptied, Quiet, Stopped, VideoInv, QuietInv,
                        Starting, ThreadShape, Idle
  <2>3. CASE SubmitOk("frame") /\ Return
    BY <1>7, <2>1, <2>2, <2>3 DEF FrameSubmit, SubmitOk, Return, FlightInv, Hands,
                                  Emptied, UndoesStart, thrVars
  <2>4. CASE SubmitFails("frame") /\ hpc' = "failed" /\ UNCHANGED hbuf
    BY <1>7, <2>1, <2>2, <2>4 DEF FrameSubmit, SubmitFails, FlightInv, Hands, Emptied,
                                  UndoesStart, thrVars
  <2> QED
    BY <1>7, <2>3, <2>4 DEF FrameSubmit
<1>8. CASE FrameSubmitFailed
  <2>1. hpc # "idle" /\ hpc' = "idle" /\ hbuf' = NoBuf /\ cur_buf' = NoBuf /\ queued' = {}
    BY <1>8 DEF FrameSubmitFailed, Return, VideoInv, QuietInv, HandlerShape
  <2> QED
    BY <1>8, <2>1 DEF FrameSubmitFailed, FlightInv, Hands, Emptied, UndoesStart, thrVars
<1>9. CASE FrameComplete
  <2>1. queued' = {} /\ cur_buf # NoBuf /\ hbuf' = cur_buf /\ cur_buf' = NoBuf
        /\ hpc # "idle" /\ hpc' = "deliver"
    BY <1>9 DEF FrameComplete, FlightInv, Hands, VideoInv, QuietInv, HandlerShape
  <2> QED
    BY <1>9, <2>1 DEF FrameComplete, FlightInv, Hands, Emptied, UndoesStart, thrVars
<1>10. CASE FrameDeliver
  <2>1. queued' = {} /\ hbuf' = NoBuf /\ cur_buf' = NoBuf /\ hpc # "idle" /\ hpc' = "next"
    BY <1>10 DEF FrameDeliver, FlightInv, Hands, VideoInv, QuietInv, HandlerShape
  <2> QED
    BY <1>10, <2>1 DEF FrameDeliver, FlightInv, Hands, Emptied, UndoesStart, thrVars
<1>11. CASE FrameNext
  <2>1. hpc = "next" /\ cur_buf = NoBuf
    BY <1>11 DEF FrameNext, FlightInv, Hands
  <2> QED
    BY <1>2, <1>11, <2>1 DEF FrameNext
<1> QED
  BY <1>4, <1>5, <1>6, <1>7, <1>8, <1>9, <1>10, <1>11 DEF Handler

LEMMA FlightUserStep == VideoInv /\ FlightInv /\ UserStep => FlightInv'
<1> SUFFICES ASSUME VideoInv, FlightInv, UserStep PROVE FlightInv'
  OBVIOUS
<1> USE DEF UserFrame, DriverFrame, ThreadFrame, hdlVars, drvVars, vbVars, VideoInv
<1>0. \A l : Goto("user", l) => pc'["user"] = l
  BY GotoApplied DEF Thread
<1>1. Quiet
  BY StoppedIsQuiet
<1>2. ASSUME cur_buf = NoBuf, hpc = "idle", queued = {}, hpc' = "idle", queued' = {},
             cur_buf' = NoBuf, UNCHANGED <<hbuf, hurb>>
      PROVE  FlightInv'
  BY <1>2 DEF FlightInv, Hands, Emptied
<1>3. CASE Poison("user")
  BY <1>0, <1>3 DEF Poison, FlightInv, Hands, Emptied, UndoesStart
<1>4. CASE PoisonWait("user")
  <2>1. pc["user"] = "wait" /\ \/ pc'["user"] = "poison"
                               \/ pc'["user"] = IF caller = "start" THEN "unget" ELSE "reap"
    BY <1>0, <1>4 DEF PoisonWait, Poisoned, TypeOK
  <2> QED
    BY <1>4, <2>1 DEF PoisonWait, FlightInv, Hands, Emptied, UndoesStart
<1>5. CASE PipelineGet \/ StartUnget
  <2>1. pc["user"] \in {"get", "unget"} /\ UNCHANGED <<cur_buf, queued, hpc>>
    BY <1>5 DEF PipelineGet, StartUnget
  <2>2. cur_buf = NoBuf /\ queued = {} /\ hpc = "idle"
    BY <1>1, <2>1 DEF Quiet, Stopped, FlightInv, Emptied
  <2> QED
    BY <1>2, <1>5, <2>1, <2>2 DEF PipelineGet, StartUnget
<1>6. CASE VideoStart
  <2>1. queued = {} /\ hpc = "idle" /\ cur_buf = NoBuf
    BY <1>1, <1>6 DEF VideoStart, Quiet, Stopped, FlightInv, Emptied
  <2> QED
    BY <1>2, <1>6, <2>1 DEF VideoStart
<1>7. CASE VideoStartSubmit
  <2>1. queued = {} /\ hpc = "idle" /\ cur_buf = NoBuf
    BY <1>7 DEF VideoStartSubmit, QuietInv, Starting, FlightInv, Emptied
  <2>2. CASE SubmitOk("hdr") /\ Goto("user", "idle")
    <3>1. queued' = {"hdr"} /\ pc'["user"] = "idle"
      BY <1>0, <2>1, <2>2 DEF SubmitOk
    <3> QED
      BY <1>7, <2>1, <3>1 DEF VideoStartSubmit, FlightInv, Hands, Emptied, UndoesStart
  <2>3. CASE SubmitFails("hdr")
    BY <1>2, <1>7, <2>1, <2>3 DEF VideoStartSubmit, SubmitFails
  <2> QED
    BY <1>7, <2>2, <2>3 DEF VideoStartSubmit
<1>8. CASE VideoStop
  <2>1. pc["user"] = "stop"
        /\ pc'["user"] \in {"poison", IF caller = "start" THEN "unget" ELSE "reap"}
    BY <1>0, <1>8 DEF VideoStop, Poisoned, TypeOK
  <2> QED
    BY <1>8, <2>1 DEF VideoStop, FlightInv, Hands, Emptied, UndoesStart
<1>9. CASE StopReap
  <2>1. queued = {} /\ hpc = "idle" /\ cur_buf' = NoBuf
    BY <1>1, <1>9 DEF StopReap, Quiet, Stopped
  <2> QED
    BY <1>9, <2>1 DEF StopReap, FlightInv, Hands, Emptied
<1>10. CASE StopReturnAll \/ StopCancel
  <2>1. queued = {} /\ hpc = "idle" /\ cur_buf = NoBuf /\ UNCHANGED cur_buf
    BY <1>1, <1>10 DEF StopReturnAll, StopCancel, Quiet, Stopped, FlightInv, Emptied
  <2> QED
    BY <1>2, <1>10, <2>1 DEF StopReturnAll, StopCancel
<1> QED
  BY <1>3, <1>4, <1>5, <1>6, <1>7, <1>8, <1>9, <1>10 DEF UserStep

LEMMA FlightUserCall == VideoInv /\ FlightInv /\ UserCall => FlightInv'
<1> SUFFICES ASSUME VideoInv, FlightInv, UserCall PROVE FlightInv'
  OBVIOUS
<1> USE DEF UserFrame, DriverFrame, ThreadFrame, hdlVars, drvVars, vbVars, VideoInv
<1>1. Quiet
  BY StoppedIsQuiet
<1>2. ASSUME Idle, ~started, UNCHANGED <<cur_buf, hbuf, hpc, hurb, queued>>
      PROVE  FlightInv'
  <2>1. queued = {} /\ hpc = "idle" /\ cur_buf = NoBuf
    BY <1>1, <1>2 DEF Quiet, Stopped, FlightInv, Emptied
  <2> QED
    BY <1>2, <2>1 DEF FlightInv, Hands, Emptied
<1>3. CASE Open
  BY <1>3, FlightStutter DEF Open, flightVars
<1>4. ASSUME NEW b \in Buf, QBuf(b) \/ DQBuf(b) PROVE FlightInv'
  <2>1. CASE ~started
    BY <1>2, <1>4, <2>1 DEF QBuf, DQBuf
  <2>2. CASE UNCHANGED <<started, pc, caller>>
    BY <1>4, <2>2, FlightStutter DEF QBuf, DQBuf, flightVars
  <2> QED
    BY <1>4, <2>1, <2>2 DEF QBuf, DQBuf
<1>5. CASE StreamOn
  <2>1. ~started
    BY <1>5 DEF StreamOn, Running
  <2> QED
    BY <1>2, <1>5, <2>1 DEF StreamOn
<1>6. CASE StreamOff \/ Close
  <2>1. CASE ~started
    BY <1>2, <1>6, <2>1 DEF StreamOff, Close
  <2>2. CASE started
    <3>1. pc'["user"] = "stop" /\ caller' = "stop" /\ UNCHANGED started
      BY <1>6, <2>2, GotoApplied DEF StreamOff, Close, StopQueue, Thread
    <3> QED
      BY <1>6, <2>2, <3>1 DEF StreamOff, Close, FlightInv, Hands, Emptied, UndoesStart
  <2> QED
    BY <2>1, <2>2
<1> QED
  BY <1>3, <1>4, <1>5, <1>6 DEF UserCall

\* The disconnect touches neither buffers nor the labels of the user's thread.
LEMMA DiscKeepsUser ==
  ASSUME TypeOK, DisconnectBegin \/ DiscStep
  PROVE  /\ pc'["user"] = pc["user"]
         /\ UNCHANGED <<hurb, hpc, hstat, hdrKind, hbuf, cur_buf, buf_list, bst, queuedList,
                        streaming, started, queued, got, kind, pos, pure, caller, nomem>>
<1>1. \E l : Goto("disc", l)
  BY DEF DiscStep, Poison, PoisonWait, DisconnectBegin, DisconnectFlag,
     DisconnectError, DisconnectUnregister
<1>2. pc'["user"] = pc["user"]
  BY <1>1, GotoApplied DEF Thread
<1> QED
  BY <1>2 DEF DiscStep, Poison, PoisonWait, DisconnectBegin, DisconnectFlag,
     DisconnectError, DisconnectUnregister, DiscFrame, ThreadFrame, hdlVars, drvVars, vbVars,
     devVars, boundVars

LEMMA FlightNext == VideoInv /\ FlightInv /\ [Next]_vars => FlightInv'
<1> SUFFICES ASSUME VideoInv, FlightInv, [Next]_vars PROVE FlightInv'
  OBVIOUS
<1>1. CASE UNCHANGED vars
  BY <1>1, FlightStutter DEF vars, flightVars, usbVars, hdlVars, drvVars, vbVars, thrVars
<1>2. CASE DisconnectBegin \/ DiscStep
  <2>1. /\ pc'["user"] = pc["user"]
        /\ UNCHANGED <<hurb, hpc, hbuf, cur_buf, started, queued, caller>>
    BY <1>2, DiscKeepsUser DEF VideoInv
  <2> QED
    BY <2>1 DEF FlightInv, Hands, Emptied, UndoesStart
<1> QED
  BY <1>1, <1>2, FlightUsb, FlightHandler, FlightUserStep, FlightUserCall DEF Next, Detached

-----------------------------------------------------------------------------
(***************************************************************************)
(* Each buffer is in one place.                                            *)
(***************************************************************************)
ownVars == <<bst, buf_list, queuedList, cur_buf, hbuf, started, caller>>

LEMMA ListsStutter ==
  ASSUME Lists, UNCHANGED <<bst, buf_list, queuedList, started, caller>>,
         pc'["user"] = pc["user"]
  PROVE  Lists'
  BY DEF Lists, UndoesStart

\* A handler that has no buffer, before or after its step, changes no owner.
LEMMA OwnershipStutter ==
  ASSUME BufferOwnership, UNCHANGED <<bst, buf_list, cur_buf, hbuf>>,
         cur_buf = NoBuf \/ hbuf = NoBuf
  PROVE  BufferOwnership'
  BY DEF BufferOwnership, Owned

LEMMA OwnInit == Init => OwnInv
<1> SUFFICES ASSUME Init PROVE OwnInv
  OBVIOUS
<1>1. pc["user"] = "idle" /\ hpc = "idle"
  BY DEF Init, Thread
<1>2. Lists
  BY <1>1, RangeEmpty DEF Init, Lists, UndoesStart
<1>3. BufferOwnership
  BY RangeEmpty DEF Init, BufferOwnership, Owned
<1> QED
  BY <1>2, <1>3 DEF OwnInv

\* The driver gives back the one buffer that is not on its list.
LEMMA OwnershipEnds ==
  ASSUME TypeOK, BufferOwnership, NEW b \in Buf, hbuf = b, cur_buf \in {NoBuf, b},
         NEW s \in {"done", "error"}, bst' = [bst EXCEPT ![b] = s],
         cur_buf' = NoBuf, hbuf' = NoBuf, UNCHANGED buf_list
  PROVE  BufferOwnership'
<1>1. \A c \in Buf : bst'[c] = IF c = b THEN s ELSE bst[c]
  BY DEF TypeOK
<1>2. {c \in Buf : bst'[c] = "active"} = {c \in Buf : bst[c] = "active"} \ {b}
  BY <1>1
<1>3. Range(buf_list) \cup ({cur_buf, hbuf} \ {NoBuf}) = Range(buf_list) \cup {b}
  BY BufAssumption
<1>4. b \notin Range(buf_list)
  BY DEF BufferOwnership
<1>5. {c \in Buf : bst'[c] = "active"} = Range(buf_list)
  BY <1>2, <1>3, <1>4 DEF BufferOwnership, Owned
<1>6. NoBuf \notin Range(buf_list)
  BY RangeIn, BufAssumption DEF TypeOK
<1> QED
  BY <1>5, <1>6 DEF BufferOwnership, Owned

\* While anything runs, the driver has been started and is not being cancelled.
LEMMA HandlerStarted ==
  ASSUME VideoInv, FlightInv, hpc # "idle"
  PROVE  /\ started /\ ~UndoesStart
         /\ pc["user"] \notin {"get", "start", "submit", "unget", "return", "cancel", "reap"}
<1>1. Quiet
  BY StoppedIsQuiet DEF VideoInv
<1> QED
  BY <1>1 DEF Quiet, Stopped, FlightInv, Emptied, VideoInv, QuietInv, Starting,
              ThreadShape, Idle

LEMMA OwnUsb == FlightInv /\ OwnInv /\ Usb => OwnInv'
<1> SUFFICES ASSUME FlightInv, OwnInv, Usb PROVE OwnInv'
  OBVIOUS
<1>1. UNCHANGED <<ownVars, pc>>
  BY DEF Usb, Packet, TransferError, Cancelled, CutFrame, ownVars, drvVars, vbVars,
         thrVars, hdlVars
<1>2. hpc = "idle" \/ UNCHANGED hpc
  BY DEF Usb, Packet, TransferError, Cancelled, CutFrame, hdlVars
<1> QED
  BY <1>1, <1>2, ListsStutter DEF ownVars, OwnInv, BufferOwnership, Owned, FlightInv, Hands

LEMMA OwnHandler == VideoInv /\ FlightInv /\ OwnInv /\ Handler => OwnInv'
<1> SUFFICES ASSUME VideoInv, FlightInv, OwnInv, Handler PROVE OwnInv'
  OBVIOUS
<1> USE DEF HandlerFrame, drvVars, OwnInv
<1>0. hpc # "idle"
  BY DEF Handler, Dead, HdrComplete, DrainComplete, FrameSubmit, FrameSubmitFailed,
         FrameComplete, FrameDeliver, FrameNext
<1>1. ASSUME hpc \in {"enter", "next"}, Return,
             UNCHANGED <<bst, buf_list, queuedList, cur_buf, started, thrVars>>
      PROVE  OwnInv'
  <2>1. hbuf = NoBuf /\ hbuf' = NoBuf
    BY <1>1 DEF Return, FlightInv, Hands
  <2> QED
    BY <1>1, <2>1, ListsStutter, OwnershipStutter DEF thrVars
<1>2. ASSUME HandleHeader(hdrKind), hpc = "enter", HandlerFrame, UNCHANGED bst, hurb # "frame"
      PROVE  OwnInv'
  <2>1. CASE \E count : SubmitDrain(count)
    BY <1>1, <1>2, <2>1 DEF SubmitDrain
  <2>2. CASE /\ buf_list # <<>> /\ hbuf' = Head(buf_list) /\ buf_list' = Tail(buf_list)
             /\ hpc' = "submit" /\ UNCHANGED cur_buf
    <3>1. hbuf = NoBuf /\ cur_buf = NoBuf
      BY <1>2 DEF FlightInv, Hands
    <3>2. /\ Head(buf_list) \in Range(buf_list) /\ Range(buf_list) \subseteq Buf
          /\ Range(buf_list') = Range(buf_list) \ {Head(buf_list)}
          /\ IsInjective(buf_list')
      BY <2>2, RangeTail, RangeIn DEF VideoInv, TypeOK, BufferOwnership
    <3>3. BufferOwnership'
      BY <1>2, <2>2, <3>1, <3>2, BufAssumption DEF BufferOwnership, Owned
    <3>4. Lists'
      BY <1>0, <1>2, HandlerStarted DEF Lists, UndoesStart, thrVars
    <3> QED
      BY <3>3, <3>4
  <2> QED
    BY <1>2, <2>1, <2>2 DEF HandleHeader
<1>3. CASE Dead \/ FrameNext
  BY <1>1, <1>3 DEF Dead, FrameNext, SubmitHdr
<1>4. CASE HdrComplete
  BY <1>1, <1>2, <1>4 DEF HdrComplete, SubmitHdr, SubmitDrain
<1>5. CASE DrainComplete
  BY <1>1, <1>2, <1>5 DEF DrainComplete, SubmitHdr, SubmitDrain
<1>6. CASE FrameSubmit
  <2>1. hbuf # NoBuf /\ cur_buf = NoBuf /\ cur_buf' = hbuf
        /\ (hbuf' = NoBuf \/ (hbuf' = hbuf /\ hpc' = "failed"))
    <3>1. hpc = "submit" /\ cur_buf' = hbuf
      BY <1>6 DEF FrameSubmit
    <3>2. hbuf' = NoBuf \/ (hbuf' = hbuf /\ hpc' = "failed")
      BY <1>6 DEF FrameSubmit, Return
    <3> QED
      BY <3>1, <3>2 DEF FlightInv, Hands
  <2>2. BufferOwnership'
    BY <1>6, <2>1 DEF FrameSubmit, BufferOwnership, Owned
  <2> QED
    BY <1>6, <2>2, ListsStutter DEF FrameSubmit, thrVars
<1>7. CASE FrameSubmitFailed
  <2>1. hbuf = cur_buf /\ hbuf # NoBuf /\ hbuf \in Buf /\ cur_buf' = NoBuf /\ hbuf' = NoBuf
    BY <1>7 DEF FrameSubmitFailed, Return, FlightInv, Hands, VideoInv, TypeOK
  <2>2. /\ bst \in [Buf -> BufState] /\ bst' = [bst EXCEPT ![hbuf] = "error"]
        /\ UNCHANGED <<buf_list, queuedList>>
    BY <1>7 DEF FrameSubmitFailed, Done, VideoInv, TypeOK
  <2>3. bst[hbuf] = "active"
    BY <2>1 DEF BufferOwnership, Owned
  <2>4. BufferOwnership'
    BY <2>1, <2>2, <2>3, OwnershipEnds DEF VideoInv
  <2>5. Lists'
    BY <1>7, <2>1, <2>2, <2>3 DEF FrameSubmitFailed, Lists, UndoesStart, thrVars
  <2> QED
    BY <2>4, <2>5
<1>8. CASE FrameComplete
  <2>1. hbuf = NoBuf /\ hbuf' = cur_buf /\ cur_buf' = NoBuf
    BY <1>8 DEF FrameComplete, FlightInv, Hands
  <2>2. BufferOwnership'
    BY <1>8, <2>1 DEF FrameComplete, BufferOwnership, Owned
  <2> QED
    BY <1>8, <2>2, ListsStutter DEF FrameComplete, thrVars
<1>9. CASE FrameDeliver
  <2>1. cur_buf = NoBuf /\ hbuf # NoBuf /\ hbuf \in Buf /\ cur_buf' = NoBuf /\ hbuf' = NoBuf
    BY <1>9 DEF FrameDeliver, FlightInv, Hands, VideoInv, TypeOK
  <2>2. PICK s \in {"done", "error"} : bst' = [bst EXCEPT ![hbuf] = s]
    BY <1>9 DEF FrameDeliver, Done
  <2>3. bst[hbuf] = "active" /\ bst \in [Buf -> BufState] /\ UNCHANGED <<buf_list, queuedList>>
    BY <1>9, <2>1 DEF FrameDeliver, BufferOwnership, Owned, VideoInv, TypeOK
  <2>4. BufferOwnership'
    BY <2>1, <2>2, <2>3, OwnershipEnds DEF VideoInv
  <2>5. Lists'
    BY <1>9, <2>1, <2>2, <2>3 DEF FrameDeliver, Lists, UndoesStart, thrVars
  <2> QED
    BY <2>4, <2>5
<1> QED
  BY <1>3, <1>4, <1>5, <1>6, <1>7, <1>8, <1>9 DEF Handler

\* vb2 hands the driver all queued buffers, of which there is at least one.
LEMMA OwnBeginStart ==
  ASSUME VideoInv, FlightInv, OwnInv, NEW q \in Seq(Buf), IsInjective(q), q # <<>>,
         Range(queuedList) \subseteq Range(q), ~started, BeginStart(q),
         UNCHANGED <<cur_buf, hbuf>>
  PROVE  OwnInv'
<1>1. Quiet /\ Idle
  BY StoppedIsQuiet DEF VideoInv, QuietInv, ThreadShape, Idle
<1>2. cur_buf = NoBuf /\ hbuf = NoBuf
  BY <1>1 DEF Quiet, Stopped, FlightInv, Emptied, Hands
<1>3. buf_list' = q
  <2>1. buf_list = <<>>
    BY DEF OwnInv, Lists
  <2> QED
    BY <2>1, ConcatEmptySeq DEF BeginStart
<1>4. /\ \A b \in Buf : bst'[b] = IF b \in Range(q) THEN "active" ELSE bst[b]
      /\ Range(q) \subseteq Buf
  BY RangeIn DEF BeginStart
<1>5. \A b \in Buf : bst[b] # "active"
  BY <1>2, RangeEmpty DEF OwnInv, Lists, BufferOwnership, Owned
<1>6. BufferOwnership'
  BY <1>2, <1>3, <1>4, <1>5, BufAssumption DEF BufferOwnership, Owned
<1>7. {b \in Buf : bst'[b] = "queued"} = {}
  BY <1>4 DEF OwnInv, Lists
<1>8. pc'["user"] = "get" /\ started' /\ queuedList' = <<>>
  BY GotoApplied DEF BeginStart, VideoInv, Thread
<1>9. Lists'
  BY <1>3, <1>7, <1>8, RangeEmpty DEF Lists
<1> QED
  BY <1>6, <1>9 DEF OwnInv

\* A start that fails leaves every buffer queued, or gives the last one back.
LEMMA OwnStartFailed ==
  ASSUME VideoInv, FlightInv, OwnInv, pc["user"] \in {"get", "unget"}, StartFailed,
         UNCHANGED <<cur_buf, hbuf>>
  PROVE  OwnInv'
<1>1. cur_buf = NoBuf /\ hbuf = NoBuf
  <2>1. Quiet
    BY StoppedIsQuiet DEF VideoInv
  <2> QED
    BY <2>1 DEF Quiet, Stopped, FlightInv, Emptied, Hands
<1>2. buf_list \in Seq(Buf) /\ buf_list # <<>> /\ IsInjective(buf_list)
      /\ {b \in Buf : bst[b] = "active"} = Range(buf_list)
  BY <1>1 DEF OwnInv, Lists, BufferOwnership, Owned, VideoInv, TypeOK
<1>3. \A b \in Buf : bst[b] # "queued"
  BY RangeEmpty DEF OwnInv, Lists, VideoInv, QuietInv, ThreadShape
<1>4. PICK last \in Buf, front \in Seq(Buf) :
        /\ last = buf_list[Len(buf_list)] /\ front = SubSeq(buf_list, 1, Len(buf_list) - 1)
        /\ IsInjective(front) /\ last \in Range(buf_list)
        /\ Range(front) = Range(buf_list) \ {last}
  <2>1. buf_list[Len(buf_list)] \in Buf
    BY <1>2, RangeFront, RangeIn
  <2> QED
    BY <1>2, <2>1, RangeFront
<1>5. {buf_list[Len(buf_list)] : x \in {1} \cap DOMAIN buf_list} = {last}
  <2>1. 1 \in DOMAIN buf_list
    BY <1>2, LenProperties, EmptySeq
  <2> QED
    BY <1>4, <2>1
<1>6. /\ buf_list' = <<>> /\ ~started' /\ pc'["user"] = "idle"
  BY GotoApplied DEF StartFailed, VideoInv, Thread
<1>7. /\ \A b \in Buf : bst'[b] # "active"
      /\ {b \in Buf : bst'[b] = "queued"} = Range(queuedList')
      /\ IsInjective(queuedList')
  <2>1. CASE streaming
    <3>1. /\ bst' = [b \in Buf |-> CASE b \in {last}                   -> "dequeued"
                                     [] b \in Range(buf_list) \ {last} -> "queued"
                                     [] OTHER                          -> bst[b]]
          /\ queuedList' = front
      BY <1>4, <1>5, <2>1 DEF StartFailed
    <3>2. \A b \in Buf : bst'[b] = IF b = last THEN "dequeued"
                                   ELSE IF b \in Range(buf_list) THEN "queued" ELSE bst[b]
      BY <3>1
    <3> QED
      BY <1>2, <1>3, <1>4, <3>1, <3>2
  <2>2. CASE ~streaming
    <3>1. /\ bst' = [b \in Buf |-> CASE b \in {}                  -> "dequeued"
                                     [] b \in Range(buf_list) \ {} -> "queued"
                                     [] OTHER                      -> bst[b]]
          /\ queuedList' = buf_list
      BY <2>2 DEF StartFailed
    <3>2. \A b \in Buf : bst'[b] = IF b \in Range(buf_list) THEN "queued" ELSE bst[b]
      BY <3>1
    <3> QED
      BY <1>2, <1>3, <1>4, <3>1, <3>2
  <2> QED
    BY <2>1, <2>2
<1>8. BufferOwnership'
  BY <1>1, <1>6, <1>7, RangeEmpty DEF BufferOwnership, Owned
<1>9. Lists'
  BY <1>6, <1>7 DEF Lists, UndoesStart
<1> QED
  BY <1>8, <1>9 DEF OwnInv

\* vb2 takes everything back, when the driver has nothing.
LEMMA OwnCancelQueue ==
  ASSUME VideoInv, FlightInv, OwnInv, CancelQueue, pc'["user"] = "idle",
         ~started \/ pc["user"] = "cancel", UNCHANGED <<cur_buf, hbuf, buf_list>>
  PROVE  OwnInv'
<1>1. cur_buf = NoBuf /\ hbuf = NoBuf /\ buf_list = <<>>
  <2>1. Quiet
    BY StoppedIsQuiet DEF VideoInv
  <2> QED
    BY <2>1 DEF Quiet, Stopped, Idle, FlightInv, Emptied, Hands, OwnInv, Lists,
                VideoInv, QuietInv, ThreadShape
<1>2. ~started' /\ queuedList' = <<>> /\ \A b \in Buf : bst'[b] = "dequeued"
  BY DEF CancelQueue
<1> QED
  BY <1>1, <1>2, RangeEmpty DEF OwnInv, BufferOwnership, Owned, Lists, UndoesStart

\* A step of the user's thread that moves no buffer, and no list a start needs.
LEMMA OwnMove ==
  ASSUME OwnInv, UNCHANGED <<bst, buf_list, queuedList, cur_buf, hbuf, hpc, started>>,
         pc'["user"] = "cancel" => buf_list = <<>>,
         UndoesStart' \/ pc'["user"] \in {"get", "start", "submit", "unget"}
           => UndoesStart \/ pc["user"] \in {"get", "start", "submit", "unget"}
  PROVE  OwnInv'
  BY DEF OwnInv, Lists, BufferOwnership, Owned

LEMMA OwnUserStep == VideoInv /\ FlightInv /\ OwnInv /\ UserStep => OwnInv'
<1> SUFFICES ASSUME VideoInv, FlightInv, OwnInv, UserStep PROVE OwnInv'
  OBVIOUS
<1> USE DEF UserFrame, DriverFrame, ThreadFrame, hdlVars, drvVars, vbVars
<1>0. \A l : Goto("user", l) => pc'["user"] = l
  BY GotoApplied DEF Thread, VideoInv
<1>1. Quiet
  BY StoppedIsQuiet DEF VideoInv
<1>2. CASE Poison("user") \/ PoisonWait("user")
  <2>1. /\ pc["user"] \in {"poison", "wait"}
        /\ \/ pc'["user"] \in {"poison", "wait"}
           \/ pc'["user"] = IF caller = "start" THEN "unget" ELSE "reap"
    BY <1>0, <1>2 DEF Poison, PoisonWait, Poisoned, VideoInv, TypeOK
  <2>2. UNCHANGED <<bst, buf_list, queuedList, cur_buf, hbuf, hpc, started, caller>>
    BY <1>2 DEF Poison, PoisonWait
  <2> QED
    BY <2>1, <2>2, OwnMove DEF UndoesStart
<1>3. CASE PipelineGet
  <2>1. CASE Goto("user", "start") /\ UNCHANGED <<bst, buf_list, queuedList, started>>
    BY <1>0, <1>3, <2>1, OwnMove DEF PipelineGet, UndoesStart
  <2>2. CASE StartFailed
    BY <1>3, <2>2, OwnStartFailed DEF PipelineGet
  <2> QED
    BY <1>3, <2>1, <2>2 DEF PipelineGet
<1>4. CASE StartUnget
  BY <1>4, OwnStartFailed DEF StartUnget
<1>5. CASE VideoStart
  <2>1. cur_buf = NoBuf /\ cur_buf' = NoBuf
    BY <1>5 DEF VideoStart, FlightInv, Emptied
  <2>2. pc["user"] = "start" /\ pc'["user"] = "submit"
        /\ UNCHANGED <<bst, buf_list, queuedList, cur_buf, hbuf, hpc, started>>
    BY <1>0, <1>5, <2>1 DEF VideoStart
  <2> QED
    BY <2>2, OwnMove DEF UndoesStart
<1>6. CASE VideoStartSubmit
  <2>1. pc["user"] = "submit" /\ pc'["user"] \in {"idle", "stop"}
        /\ UNCHANGED <<bst, buf_list, queuedList, cur_buf, hbuf, hpc, started>>
    BY <1>0, <1>6 DEF VideoStartSubmit
  <2> QED
    BY <2>1, OwnMove DEF UndoesStart
<1>7. CASE VideoStop
  <2>1. /\ pc["user"] = "stop"
        /\ pc'["user"] \in {"poison", IF caller = "start" THEN "unget" ELSE "reap"}
    BY <1>0, <1>7 DEF VideoStop, Poisoned, VideoInv, TypeOK
  <2>2. UNCHANGED <<bst, buf_list, queuedList, cur_buf, hbuf, hpc, started, caller>>
    BY <1>7 DEF VideoStop
  <2> QED
    BY <2>1, <2>2, OwnMove DEF UndoesStart
<1>8. CASE StopReap
  <2>1. hpc = "idle" /\ hbuf = NoBuf /\ hbuf' = NoBuf /\ cur_buf' = NoBuf /\ pc'["user"] = "return"
        /\ UNCHANGED <<buf_list, queuedList, started, hpc>> /\ pc["user"] = "reap"
    BY <1>0, <1>1, <1>8 DEF StopReap, Quiet, Stopped, FlightInv, Hands
  <2>2. CASE cur_buf = NoBuf
    BY <1>8, <2>1, <2>2, OwnMove DEF StopReap, UndoesStart
  <2>3. CASE cur_buf # NoBuf
    <3>1. cur_buf \in Buf /\ bst \in [Buf -> BufState] /\ bst' = [bst EXCEPT ![cur_buf] = "error"]
      BY <1>8, <2>3 DEF StopReap, Done, VideoInv, TypeOK
    <3>2. bst[cur_buf] = "active" /\ cur_buf \notin Range(buf_list)
      BY <2>1, <2>3, <3>1 DEF OwnInv, BufferOwnership, Owned
    <3>3. \A b \in Buf : bst'[b] = IF b = cur_buf THEN "error" ELSE bst[b]
      BY <3>1
    <3>4. {b \in Buf : bst'[b] = "active"} = Owned \ {cur_buf}
      BY <3>3 DEF OwnInv, BufferOwnership
    <3>5. Owned \ {cur_buf} = Range(buf_list)
      BY <2>1, <3>2, RangeIn, BufAssumption DEF Owned
    <3>6. BufferOwnership'
      BY <2>1, <3>4, <3>5, RangeIn, BufAssumption DEF OwnInv, BufferOwnership, Owned, VideoInv, TypeOK
    <3>7. {b \in Buf : bst'[b] = "queued"} = {b \in Buf : bst[b] = "queued"}
      BY <3>2, <3>3
    <3>8. Lists'
      BY <2>1, <3>7 DEF OwnInv, Lists, UndoesStart
    <3> QED
      BY <3>6, <3>8 DEF OwnInv
  <2> QED
    BY <2>2, <2>3
<1>9. CASE StopReturnAll
  <2>1. /\ hpc = "idle" /\ hbuf = NoBuf /\ cur_buf = NoBuf /\ hbuf' = NoBuf /\ cur_buf' = NoBuf
        /\ pc'["user"] = "cancel" /\ buf_list' = <<>>
    BY <1>0, <1>1, <1>9 DEF StopReturnAll, Quiet, Stopped, FlightInv, Emptied, Hands
  <2>2. \A b \in Buf : /\ bst[b] = "active" <=> b \in Range(buf_list)
                       /\ bst'[b] = IF b \in Range(buf_list) THEN "error" ELSE bst[b]
    BY <1>9, <2>1 DEF StopReturnAll, OwnInv, BufferOwnership, Owned
  <2>3. BufferOwnership'
    BY <2>1, <2>2, RangeEmpty DEF BufferOwnership, Owned
  <2>4. {b \in Buf : bst'[b] = "queued"} = {b \in Buf : bst[b] = "queued"}
    BY <2>2
  <2>5. Lists'
    BY <1>9, <2>1, <2>4 DEF StopReturnAll, OwnInv, Lists, UndoesStart
  <2> QED
    BY <2>3, <2>5 DEF OwnInv
<1>10. CASE StopCancel
  BY <1>0, <1>10, OwnCancelQueue DEF StopCancel
<1> QED
  BY <1>2, <1>3, <1>4, <1>5, <1>6, <1>7, <1>8, <1>9, <1>10 DEF UserStep

\* While the driver streams, VIDIOC_QBUF gives it one more buffer.
LEMMA OwnQBuf ==
  ASSUME VideoInv, FlightInv, OwnInv, NEW b \in Buf, QBuf(b)
  PROVE  OwnInv'
<1> USE DEF UserFrame, DriverFrame, ThreadFrame, hdlVars
<1>1. /\ bst \in [Buf -> BufState] /\ bst[b] = "dequeued" /\ Idle
      /\ buf_list \in Seq(Buf) /\ queuedList \in Seq(Buf)
      /\ UNCHANGED <<cur_buf, hbuf, hpc, caller>>
  BY DEF QBuf, VideoInv, TypeOK
<1>2. CASE started /\ Done(b, "active") /\ BufferQueue(b) /\ UNCHANGED <<queuedList, started, pc>>
  <2>1. \A c \in Buf : bst'[c] = IF c = b THEN "active" ELSE bst[c]
    BY <1>1, <1>2 DEF Done
  <2>2. b \notin Owned
    BY <1>1 DEF OwnInv, BufferOwnership
  <2>3. Range(buf_list') = Range(buf_list) \cup {b} /\ IsInjective(buf_list')
    BY <1>1, <1>2, <2>2, RangeAppend DEF BufferQueue, Owned, OwnInv, BufferOwnership
  <2>4. {c \in Buf : bst'[c] = "active"} = Owned \cup {b}
    BY <2>1 DEF OwnInv, BufferOwnership
  <2>5. b \notin {cur_buf, hbuf} /\ b # NoBuf
    BY <2>2, BufAssumption DEF Owned
  <2>6. BufferOwnership'
    BY <1>1, <2>3, <2>4, <2>5 DEF OwnInv, BufferOwnership, Owned
  <2>7. {c \in Buf : bst'[c] = "queued"} = {c \in Buf : bst[c] = "queued"}
    BY <1>1, <2>1
  <2>8. Lists'
    BY <1>1, <1>2, <2>7 DEF OwnInv, Lists, UndoesStart, Idle
  <2> QED
    BY <2>6, <2>8 DEF OwnInv
<1> DEFINE q == Append(queuedList, b)
<1>3. /\ q \in Seq(Buf) /\ q # <<>> /\ Range(q) = Range(queuedList) \cup {b}
      /\ b \notin Range(queuedList) /\ IsInjective(q)
  <2>1. b \notin Range(queuedList) /\ IsInjective(queuedList)
    BY <1>1 DEF OwnInv, Lists
  <2> QED
    BY <1>1, <2>1, RangeAppend
<1> HIDE DEF q
<1>4. CASE ~started /\ Done(b, "queued") /\ queuedList' = q /\ UNCHANGED <<buf_list, started, pc>>
  <2>1. \A c \in Buf : bst'[c] = IF c = b THEN "queued" ELSE bst[c]
    BY <1>1, <1>4 DEF Done
  <2>2. {c \in Buf : bst'[c] = "active"} = {c \in Buf : bst[c] = "active"}
    BY <1>1, <2>1
  <2>3. BufferOwnership'
    BY <1>1, <1>4, <2>2 DEF OwnInv, BufferOwnership, Owned
  <2>4. {c \in Buf : bst'[c] = "queued"} = {c \in Buf : bst[c] = "queued"} \cup {b}
    BY <2>1
  <2>5. Lists'
    BY <1>1, <1>3, <1>4, <2>4 DEF OwnInv, Lists, UndoesStart, Idle
  <2> QED
    BY <2>3, <2>5 DEF OwnInv
<1>5. CASE ~started /\ BeginStart(q)
  BY <1>1, <1>3, <1>5, OwnBeginStart
<1> QED
  BY <1>2, <1>4, <1>5 DEF QBuf, q

LEMMA OwnUserCall == VideoInv /\ FlightInv /\ OwnInv /\ UserCall => OwnInv'
<1> SUFFICES ASSUME VideoInv, FlightInv, OwnInv, UserCall PROVE OwnInv'
  OBVIOUS
<1> USE DEF UserFrame, DriverFrame, ThreadFrame, hdlVars, drvVars, vbVars
<1>1. CASE Open
  BY <1>1, OwnMove DEF Open, Idle, UndoesStart
<1>2. ASSUME NEW b \in Buf, DQBuf(b) PROVE OwnInv'
  <2>1. /\ bst \in [Buf -> BufState] /\ bst[b] \in {"done", "error"}
        /\ bst' = [bst EXCEPT ![b] = "dequeued"]
        /\ UNCHANGED <<buf_list, queuedList, cur_buf, hbuf, hpc, started, pc, caller>>
    BY <1>2 DEF DQBuf, Done, VideoInv, TypeOK
  <2>2. /\ {c \in Buf : bst'[c] = "active"} = {c \in Buf : bst[c] = "active"}
        /\ {c \in Buf : bst'[c] = "queued"} = {c \in Buf : bst[c] = "queued"}
    BY <2>1
  <2> QED
    BY <2>1, <2>2 DEF OwnInv, BufferOwnership, Owned, Lists, UndoesStart
<1>3. CASE StreamOn
  <2>1. ~started
    BY <1>3 DEF StreamOn, VideoInv, Running
  <2>2. CASE UNCHANGED <<bst, buf_list, queuedList, started, pc>>
    BY <1>3, <2>2, OwnMove DEF StreamOn, Idle, UndoesStart
  <2>3. CASE Len(queuedList) >= MinQueued /\ BeginStart(queuedList)
    <3>1. queuedList \in Seq(Buf) /\ queuedList # <<>> /\ IsInjective(queuedList)
      BY <2>3, EmptySeq, BufAssumption DEF VideoInv, TypeOK, OwnInv, Lists
    <3> QED
      BY <1>3, <2>1, <2>3, <3>1, OwnBeginStart DEF StreamOn
  <2> QED
    BY <1>3, <2>2, <2>3 DEF StreamOn
<1>4. CASE StreamOff \/ Close
  <2>1. CASE started
    <3>1. pc'["user"] = "stop" /\ caller' = "stop" /\ UNCHANGED <<vbVars, drvVars, hbuf, hpc>>
      BY <1>4, <2>1, GotoApplied DEF StreamOff, Close, StopQueue, Thread, VideoInv
    <3> QED
      BY <3>1, OwnMove DEF UndoesStart
  <2>2. CASE ~started
    <3>1. CancelQueue /\ pc'["user"] = "idle" /\ UNCHANGED <<cur_buf, hbuf, buf_list>>
      BY <1>4, <2>2 DEF StreamOff, Close, StopQueue, Idle
    <3> QED
      BY <2>2, <3>1, OwnCancelQueue
  <2> QED
    BY <2>1, <2>2
<1> QED
  BY <1>1, <1>2, <1>3, <1>4, OwnQBuf DEF UserCall

LEMMA OwnNext == VideoInv /\ FlightInv /\ OwnInv /\ [Next]_vars => OwnInv'
<1> SUFFICES ASSUME VideoInv, FlightInv, OwnInv, [Next]_vars PROVE OwnInv'
  OBVIOUS
<1>1. CASE UNCHANGED vars
  <2>1. UNCHANGED <<ownVars, pc, hpc>>
    BY <1>1 DEF vars, ownVars, drvVars, vbVars, thrVars, hdlVars
  <2> QED
    BY <2>1, ListsStutter DEF ownVars, OwnInv, BufferOwnership, Owned
<1>2. CASE DisconnectBegin \/ DiscStep
  <2>1. pc'["user"] = pc["user"] /\ UNCHANGED <<ownVars, hpc>>
    BY <1>2, DiscKeepsUser DEF VideoInv, ownVars
  <2> QED
    BY <2>1, ListsStutter DEF ownVars, OwnInv, BufferOwnership, Owned
<1> QED
  BY <1>1, <1>2, OwnUsb, OwnHandler, OwnUserStep, OwnUserCall DEF Next, Detached

LEMMA OwnAlways == Spec => [](VideoInv /\ FlightInv /\ OwnInv)
<1>1. Init => FlightInv /\ OwnInv
  BY FlightInit, OwnInit
<1>2. VideoInv /\ FlightInv /\ OwnInv /\ [Next]_vars => FlightInv' /\ OwnInv'
  BY FlightNext, OwnNext
<1>3. Spec => []VideoInv
  BY QuietAlways, PTL DEF VideoInv
<1> QED
  BY <1>1, <1>2, <1>3, PTL DEF Spec

\* A buffer that vb2 believes to be with the driver is in exactly one place of it,
\* and the driver keeps none that it has given back, whichever of the handlers,
\* the failed start or the stop completes it.
THEOREM OwnershipAlways == Spec => []BufferOwnership
<1>1. OwnInv => BufferOwnership
  BY DEF OwnInv
<1> QED
  BY <1>1, OwnAlways, PTL

\* While the host controller may write a frame, or its handler is about to
\* complete it, cur_buf is the buffer written to and the driver owns it.
THEOREM FrameHasBufferAlways == Spec => []FrameHasBuffer
<1>1. VideoInv /\ FlightInv /\ OwnInv => FrameHasBuffer
  <2> SUFFICES ASSUME VideoInv, FlightInv, OwnInv,
                      "frame" \in queued \/ (hurb = "frame" /\ hpc = "enter")
               PROVE  cur_buf # NoBuf /\ bst[cur_buf] = "active"
    BY DEF FrameHasBuffer
  <2>1. cur_buf # NoBuf /\ cur_buf \in Buf
    BY DEF FlightInv, Hands, VideoInv, TypeOK
  <2> QED
    BY <2>1 DEF OwnInv, BufferOwnership, Owned
<1> QED
  BY <1>1, OwnAlways, PTL

-----------------------------------------------------------------------------
(***************************************************************************)
(* Streaming does not stall.                                               *)
(***************************************************************************)
LEMMA CountsKeep ==
  ASSUME Counts, UNCHANGED reject, pc'["disc"] = pc["disc"],
         pc["disc"] = "bound" => \A u \in Urb : UserHolds(u)' <=> UserHolds(u)
  PROVE  Counts'
  BY DEF Counts

\* A step that leaves what the user's thread holds alone.
LEMMA CountsMove ==
  ASSUME TypeOK, Counts, UNCHANGED <<reject, tgt>>, NEW l, Goto("user", l),
         \A u \in Urb : UserHolds(u)' <=> UserHolds(u)
  PROVE  Counts'
  BY CountsKeep, GotoApplied DEF Thread

LEMMA CountsUserStep == TypeOK /\ QuietInv /\ Counts /\ UserStep => Counts'
<1> SUFFICES ASSUME TypeOK, QuietInv, Counts, UserStep PROVE Counts'
  OBVIOUS
<1> USE DEF UserFrame, DriverFrame, ThreadFrame, vbVars
<1>0. \A l : Goto("user", l) => pc'["user"] = l /\ pc'["disc"] = pc["disc"]
  BY GotoApplied DEF Thread
<1>1. CASE Poison("user")
  <2>1. /\ pc["user"] = "poison" /\ pc'["user"] = "wait" /\ pc'["disc"] = pc["disc"]
        /\ tgt["user"] \in Urb /\ UNCHANGED <<tgt, started>>
    BY <1>0, <1>1 DEF Poison, TypeOK, Thread
  <2>2. \A u \in Urb : reject'[u] = IF u = tgt["user"] THEN reject[u] + 1 ELSE reject[u]
    BY <1>1 DEF Poison, Refuse, TypeOK
  <2>3. \A u \in Urb : UserHolds(u)' <=> UserHolds(u) \/ u = tgt["user"]
    BY <2>1 DEF UserHolds, QuietInv, ThreadShape
  <2>4. ~UserHolds(tgt["user"])
    BY <2>1 DEF UserHolds, Before, QuietInv, ThreadShape
  <2> QED
    BY <2>1, <2>2, <2>3, <2>4 DEF Counts
<1>2. CASE PoisonWait("user")
  <2>1. pc["user"] = "wait" /\ tgt["user"] \in Urb /\ UNCHANGED <<reject, started>> /\ started
    BY <1>2 DEF PoisonWait, TypeOK, Thread, QuietInv, ThreadShape
  <2>2. CASE tgt["user"] = "drain"
    <3>1. pc'["user"] \in {"unget", "reap"} /\ pc'["disc"] = pc["disc"]
      BY <1>0, <1>2, <2>2 DEF PoisonWait, Poisoned, LastUrb, TypeOK
    <3>2. \A u \in Urb : UserHolds(u)' /\ UserHolds(u)
      BY <2>1, <2>2, <3>1 DEF UserHolds, Urb, Before
    <3> QED
      BY <2>1, <3>1, <3>2, CountsKeep
  <2>3. CASE tgt["user"] # "drain"
    <3>1. /\ pc'["user"] = "poison" /\ pc'["disc"] = pc["disc"]
          /\ tgt'["user"] = NextUrb(tgt["user"])
      BY <1>0, <1>2, <2>3 DEF PoisonWait, LastUrb, TypeOK, Thread
    <3>2. \A u \in Urb : Before(u, NextUrb(tgt["user"])) <=>
                           u = tgt["user"] \/ Before(u, tgt["user"])
      BY <2>1, <2>3 DEF Urb, NextUrb, Before
    <3>3. \A u \in Urb : UserHolds(u)' <=> UserHolds(u)
      BY <2>1, <3>1, <3>2 DEF UserHolds
    <3> QED
      BY <2>1, <3>1, <3>3, CountsKeep
  <2> QED
    BY <2>2, <2>3
<1>3. CASE PipelineGet \/ StartUnget
  <2>1. /\ pc["user"] \in {"get", "unget"} /\ UNCHANGED <<reject, tgt>>
        /\ pc'["disc"] = pc["disc"] /\ (pc'["user"] = "start" \/ ~started')
    BY <1>0, <1>3 DEF PipelineGet, StartUnget, StartFailed
  <2> QED
    BY <2>1, CountsKeep DEF UserHolds
<1>4. CASE VideoStart
  <2>1. /\ pc["user"] = "start" /\ pc'["user"] = "submit" /\ pc'["disc"] = pc["disc"]
        /\ started /\ UNCHANGED started
    BY <1>0, <1>4 DEF VideoStart, QuietInv, ThreadShape
  <2>2. \A u \in Urb : reject'[u] = reject[u] - 1 /\ reject[u] \in Int
    BY <1>4 DEF VideoStart, TypeOK
  <2>3. \A u \in Urb : UserHolds(u) /\ ~UserHolds(u)'
    BY <2>1 DEF UserHolds
  <2> QED
    BY <2>1, <2>2, <2>3 DEF Counts
<1>5. CASE VideoStartSubmit
  <2>1. /\ pc["user"] = "submit" /\ pc'["user"] \in {"idle", "stop"}
        /\ pc'["disc"] = pc["disc"] /\ UNCHANGED <<reject, started>>
    BY <1>0, <1>5 DEF VideoStartSubmit
  <2> QED
    BY <2>1, CountsKeep DEF UserHolds
<1>6. CASE VideoStop
  <2>1. /\ pc["user"] = "stop" /\ pc'["disc"] = pc["disc"] /\ UNCHANGED <<reject, started, tgt>>
        /\ tgt["user"] = "hdr"
    BY <1>0, <1>6 DEF VideoStop, QuietInv, ThreadShape, Thread
  <2>2. pc["disc"] = "bound" => pc'["user"] = "poison"
    BY <1>0, <1>6 DEF VideoStop, QuietInv, ThreadShape
  <2>3. \A u \in Urb : ~Before(u, "hdr")
    BY DEF Before
  <2> QED
    BY <2>1, <2>2, <2>3, CountsKeep DEF UserHolds
<1>7. CASE StopReap \/ StopReturnAll
  <2>1. /\ pc["user"] \in {"reap", "return"} /\ pc'["user"] \in {"return", "cancel"}
        /\ pc'["disc"] = pc["disc"] /\ UNCHANGED <<reject, started, tgt>>
    BY <1>0, <1>7 DEF StopReap, StopReturnAll
  <2> QED
    BY <2>1, CountsKeep DEF UserHolds
<1>8. CASE StopCancel
  <2>1. /\ pc["user"] = "cancel" /\ pc'["disc"] = pc["disc"] /\ UNCHANGED reject /\ ~started'
    BY <1>0, <1>8 DEF StopCancel, CancelQueue
  <2> QED
    BY <2>1, CountsKeep DEF UserHolds
<1> QED
  BY <1>1, <1>2, <1>3, <1>4, <1>5, <1>6, <1>7, <1>8 DEF UserStep

LEMMA CountsUserCall == TypeOK /\ QuietInv /\ Running /\ Counts /\ UserCall => Counts'
<1> SUFFICES ASSUME TypeOK, QuietInv, Running, Counts, UserCall PROVE Counts'
  OBVIOUS
<1> USE DEF UserFrame, DriverFrame, ThreadFrame, vbVars
<1>0. \A l : Goto("user", l) => pc'["user"] = l /\ pc'["disc"] = pc["disc"]
  BY GotoApplied DEF Thread
<1>1. pc["user"] = "idle" /\ UNCHANGED <<reject, tgt>>
  BY DEF UserCall, Open, StreamOn, StreamOff, Close, QBuf, DQBuf, Idle
<1>2. ASSUME UNCHANGED <<pc, started>> PROVE Counts'
  BY <1>1, <1>2, CountsKeep DEF UserHolds
<1>3. ASSUME ~started, started', pc'["user"] = "get", pc'["disc"] = pc["disc"] PROVE Counts'
  BY <1>1, <1>3, CountsKeep DEF UserHolds
<1>4. CASE Open \/ \E b \in Buf : DQBuf(b)
  BY <1>2, <1>4 DEF Open, DQBuf
<1>5. ASSUME NEW b \in Buf, QBuf(b) PROVE Counts'
  <2>1. \/ UNCHANGED <<pc, started>>
        \/ ~started /\ started' /\ pc'["user"] = "get" /\ pc'["disc"] = pc["disc"]
    BY <1>0, <1>5 DEF QBuf, BeginStart
  <2> QED
    BY <1>2, <1>3, <2>1
<1>6. CASE StreamOn
  <2>1. \/ UNCHANGED <<pc, started>>
        \/ ~started /\ started' /\ pc'["user"] = "get" /\ pc'["disc"] = pc["disc"]
    BY <1>0, <1>6 DEF StreamOn, BeginStart, Running
  <2> QED
    BY <1>2, <1>3, <2>1
<1>7. CASE StreamOff \/ Close
  <2>1. \/ started /\ started' /\ pc'["user"] = "stop" /\ pc'["disc"] = pc["disc"]
        \/ ~started /\ ~started' /\ UNCHANGED pc
    BY <1>0, <1>7 DEF StreamOff, Close, StopQueue, CancelQueue
  <2> QED
    BY <1>1, <2>1, CountsKeep DEF UserHolds
<1> QED
  BY <1>4, <1>5, <1>6, <1>7 DEF UserCall

\* A disconnect that begins, or goes on, is not "bound" any more.
LEMMA DiscMoves ==
  ASSUME TypeOK, QuietInv, DisconnectBegin \/ DiscStep
  PROVE  pc'["disc"] # "bound"
<1>1. \A l : Goto("disc", l) => pc'["disc"] = l
  BY GotoApplied DEF Thread
<1> QED
  BY <1>1 DEF DisconnectBegin, DiscStep, Poison, PoisonWait, Poisoned, DisconnectFlag,
              DisconnectError, DisconnectUnregister

LEMMA CountsNext == VideoInv /\ Counts /\ [Next]_vars => Counts'
<1> SUFFICES ASSUME VideoInv, Counts, [Next]_vars PROVE Counts'
  OBVIOUS
<1>1. ASSUME UNCHANGED <<reject, pc, tgt, started>> PROVE Counts'
  BY <1>1, CountsKeep DEF UserHolds
<1>2. CASE UNCHANGED vars
  BY <1>1, <1>2 DEF vars, usbVars, thrVars, vbVars
<1>3. CASE Usb
  BY <1>1, <1>3 DEF Usb, Packet, TransferError, Cancelled, CutFrame, thrVars, vbVars, usbVars
<1>4. CASE Handler
  BY <1>1, <1>4 DEF Handler, Dead, HdrComplete, DrainComplete, FrameSubmit, FrameSubmitFailed,
                    FrameComplete, FrameDeliver, FrameNext, HandlerFrame, thrVars
<1>5. CASE DisconnectBegin \/ DiscStep
  BY <1>5, DiscMoves DEF VideoInv, Counts
<1> QED
  BY <1>2, <1>3, <1>4, <1>5, CountsUserStep, CountsUserCall DEF Next, Detached, VideoInv

\* While the driver streams and nobody stops it, no URB is refused.
LEMMA NotRefused ==
  ASSUME VideoInv, Counts, started, Idle, pc["disc"] = "bound", NEW u \in Urb
  PROVE  Accepted(u)
  BY DEF Accepted, Counts, UserHolds, Idle, VideoInv, QuietInv, ThreadShape

LEMMA AliveUsb == VideoInv /\ Alive /\ Usb => Alive'
<1> SUFFICES ASSUME VideoInv, Alive, Usb PROVE Alive'
  OBVIOUS
<1> USE DEF thrVars, vbVars, usbVars, hdlVars
<1>1. ASSUME NEW u \in Urb, NEW s \in {"ok", "error", "dead"}, GiveBack(u, s),
             s = "dead" => u \in unlinked, UNCHANGED thrVars
      PROVE  Alive'
  BY <1>1 DEF GiveBack, Alive
<1>2. ASSUME UNCHANGED <<unlinked, hpc, hstat, pc, started, nomem>> PROVE Alive'
  BY <1>2 DEF Alive, Idle
<1> QED
  BY <1>1, <1>2 DEF Usb, Packet, TransferError, Cancelled, CutFrame

LEMMA AliveHandler == VideoInv /\ Counts /\ Alive /\ Handler => Alive'
<1> SUFFICES ASSUME VideoInv, Counts, Alive, Handler PROVE Alive'
  OBVIOUS
<1> USE DEF HandlerFrame, thrVars
<1>1. ASSUME Return, UNCHANGED <<unlinked, pc>> PROVE Alive'
  BY <1>1 DEF Return, Alive
<1>2. ASSUME UNCHANGED <<unlinked, pc, hstat>>, hpc' \notin {"idle", "failed"} PROVE Alive'
  BY <1>2 DEF Alive
<1>3. CASE FrameSubmit
  <2>1. CASE Return
    BY <1>1, <1>3, <2>1 DEF FrameSubmit
  <2>2. CASE SubmitFails("frame") /\ hpc' = "failed" /\ UNCHANGED hstat
    <3>1. started /\ Idle /\ pc["disc"] = "bound" => nomem' > 0
      BY <2>2, NotRefused DEF SubmitFails, Urb, VideoInv, TypeOK
    <3> QED
      BY <1>3, <2>2, <3>1 DEF FrameSubmit, Alive, Idle
  <2> QED
    BY <1>3, <2>1, <2>2 DEF FrameSubmit
<1>4. ASSUME HandleHeader(hdrKind), HandlerFrame PROVE Alive'
  BY <1>1, <1>2, <1>4 DEF HandleHeader, SubmitDrain
<1>5. CASE HdrComplete \/ DrainComplete
  BY <1>1, <1>4, <1>5 DEF HdrComplete, DrainComplete, SubmitHdr, SubmitDrain
<1>6. CASE FrameComplete \/ FrameDeliver
  BY <1>2, <1>6 DEF FrameComplete, FrameDeliver
<1>7. CASE Dead \/ FrameSubmitFailed \/ FrameNext
  BY <1>1, <1>7 DEF Dead, FrameSubmitFailed, FrameNext, SubmitHdr
<1> QED
  BY <1>3, <1>5, <1>6, <1>7 DEF Handler

LEMMA AliveUser == VideoInv /\ FlightInv /\ Alive /\ (UserStep \/ UserCall) => Alive'
<1> SUFFICES ASSUME VideoInv, FlightInv, Alive, UserStep \/ UserCall PROVE Alive'
  OBVIOUS
<1> USE DEF UserFrame, DriverFrame, ThreadFrame, hdlVars, vbVars
<1>0. \A l : Goto("user", l) => pc'["user"] = l /\ pc'["disc"] = pc["disc"]
  BY GotoApplied DEF Thread, VideoInv
<1>1. Quiet
  BY StoppedIsQuiet DEF VideoInv
<1>2. hpc = "failed" => /\ started /\ ~UndoesStart
                        /\ pc["user"] \in {"idle", "stop", "poison", "wait"}
  BY HandlerStarted DEF VideoInv, QuietInv, ThreadShape, UserLabel
<1>3. ASSUME hpc = "idle", queued = {}, UNCHANGED <<hpc, hstat, unlinked>> PROVE Alive'
  BY <1>3 DEF Alive, VideoInv, TypeOK
<1>4. ASSUME pc'["user"] \notin {"idle", "get", "start", "submit", "stop"}, UNCHANGED <<hpc, hstat>>
      PROVE  Alive'
  BY <1>4 DEF Alive, Idle
<1>5. CASE Poison("user") \/ PoisonWait("user") \/ VideoStop \/ StopReap \/ StopReturnAll
  <2>1. pc'["user"] \notin {"idle", "get", "start", "submit", "stop"}
    BY <1>0, <1>5 DEF Poison, PoisonWait, Poisoned, VideoStop, StopReap, StopReturnAll,
                      VideoInv, TypeOK
  <2> QED
    BY <1>4, <1>5, <2>1 DEF Poison, PoisonWait, VideoStop, StopReap, StopReturnAll
<1>6. CASE PipelineGet \/ VideoStart \/ StartUnget \/ StopCancel
  <2>1. queued = {} /\ hpc = "idle"
    BY <1>1, <1>6 DEF PipelineGet, VideoStart, StartUnget, StopCancel, Quiet, Stopped
  <2> QED
    BY <1>3, <1>6, <2>1 DEF PipelineGet, VideoStart, StartUnget, StopCancel
<1>7. CASE VideoStartSubmit
  <2>1. hpc = "idle" /\ queued = {}
    BY <1>7 DEF VideoStartSubmit, VideoInv, QuietInv, Starting
  <2> QED
    BY <1>3, <1>7, <2>1 DEF VideoStartSubmit
<1>8. CASE Open \/ StreamOn \/ \E b \in Buf : QBuf(b) \/ DQBuf(b)
  <2>1. Idle /\ UNCHANGED <<hpc, hstat, unlinked, queued, nomem>>
    BY <1>8 DEF Open, StreamOn, QBuf, DQBuf
  <2>2. CASE ~started
    BY <1>1, <1>3, <2>1, <2>2 DEF Quiet, Stopped
  <2>3. CASE started
    <3>1. UNCHANGED <<pc, started>>
      BY <1>8, <2>3 DEF Open, StreamOn, QBuf, DQBuf, VideoInv, Running
    <3> QED
      BY <2>1, <3>1 DEF Alive, Idle
  <2> QED
    BY <2>2, <2>3
<1>9. CASE StreamOff \/ Close
  <2>1. Idle /\ UNCHANGED <<hpc, hstat, unlinked>>
    BY <1>9 DEF StreamOff, Close
  <2>2. CASE ~started
    BY <1>1, <1>3, <2>1, <2>2 DEF Quiet, Stopped
  <2>3. CASE started
    <3>1. pc'["user"] = "stop" /\ pc'["disc"] = pc["disc"]
      BY <1>0, <1>9, <2>3 DEF StreamOff, Close, StopQueue
    <3> QED
      BY <2>1, <3>1 DEF Alive, Idle
  <2> QED
    BY <2>2, <2>3
<1> QED
  BY <1>5, <1>6, <1>7, <1>8, <1>9 DEF UserStep, UserCall

LEMMA AliveNext == VideoInv /\ FlightInv /\ Counts /\ Alive /\ [Next]_vars => Alive'
<1> SUFFICES ASSUME VideoInv, FlightInv, Counts, Alive, [Next]_vars PROVE Alive'
  OBVIOUS
<1>1. CASE UNCHANGED vars
  BY <1>1 DEF vars, usbVars, hdlVars, vbVars, thrVars, boundVars, Alive, Idle
<1>2. CASE DisconnectBegin \/ DiscStep
  BY <1>2, DiscMoves, DiscKeepsUser DEF VideoInv, Alive
<1> QED
  BY <1>1, <1>2, AliveUsb, AliveHandler, AliveUser DEF Next, Detached

LEMMA NeverStallsNext ==
  VideoInv /\ Counts /\ Alive /\ NeverStalls /\ [Next]_vars => NeverStalls'
<1> SUFFICES ASSUME VideoInv, Counts, Alive, NeverStalls, [Next]_vars,
                    started', Idle', pc'["disc"] = "bound", nomem' = 0
             PROVE  queued' # {} \/ hpc' # "idle"
  BY DEF NeverStalls
<1> USE DEF thrVars, vbVars, usbVars, hdlVars, boundVars
<1>1. ASSUME started, Idle, pc["disc"] = "bound", nomem = 0, UNCHANGED <<queued, hpc>>
      PROVE  queued' # {} \/ hpc' # "idle"
  BY <1>1 DEF NeverStalls
<1>2. CASE UNCHANGED vars
  BY <1>1, <1>2 DEF vars, Idle
<1>3. CASE Usb
  <2>1. ASSUME NEW u \in Urb, Packet(u) PROVE queued' # {} \/ hpc' # "idle"
    BY <2>1 DEF Packet, GiveBack
  <2>2. ASSUME NEW u \in Urb, TransferError(u) \/ Cancelled(u) PROVE hpc' # "idle"
    BY <2>2 DEF TransferError, Cancelled, GiveBack
  <2>3. CASE CutFrame
    BY <1>1, <2>3 DEF CutFrame, Idle
  <2> QED
    BY <1>3, <2>1, <2>2, <2>3 DEF Usb
<1>4. CASE Handler
  <2> USE DEF HandlerFrame
  <2>1. started /\ Idle /\ pc["disc"] = "bound"
    BY <1>4 DEF Handler, Dead, HdrComplete, DrainComplete, FrameSubmit, FrameSubmitFailed,
                FrameComplete, FrameDeliver, FrameNext, Idle
  <2>2. ASSUME NEW u \in Urb, Resubmit(u) PROVE queued' # {}
    <3>1. Accepted(u) /\ nomem \in Nat
      BY <2>1, NotRefused DEF VideoInv, TypeOK
    <3>2. ~SubmitFails(u)
      BY <3>1 DEF SubmitFails
    <3> QED
      BY <2>2, <3>2 DEF Resubmit, SubmitOk
  <2>3. ASSUME HandleHeader(hdrKind) PROVE queued' # {} \/ hpc' # "idle"
    BY <2>2, <2>3 DEF HandleHeader, SubmitDrain, Urb
  <2>4. CASE HdrComplete \/ DrainComplete
    BY <2>2, <2>3, <2>4 DEF HdrComplete, DrainComplete, SubmitHdr, SubmitDrain, Urb
  <2>5. CASE FrameSubmit \/ FrameNext
    BY <2>2, <2>5 DEF FrameSubmit, FrameNext, SubmitHdr, Resubmit, Urb
  <2>6. CASE FrameComplete \/ FrameDeliver
    BY <2>6 DEF FrameComplete, FrameDeliver
  <2>7. CASE Dead \/ FrameSubmitFailed
    BY <2>1, <2>7 DEF Dead, UrbDead, FrameSubmitFailed, Alive, Idle
  <2> QED
    BY <1>4, <2>4, <2>5, <2>6, <2>7 DEF Handler
<1>5. \A l : Goto("user", l) => pc'["user"] = l /\ pc'["disc"] = pc["disc"]
  BY GotoApplied DEF Thread, VideoInv
<1> USE DEF UserFrame, DriverFrame, ThreadFrame
<1>6. CASE UserStep
  <2>1. CASE Poison("user") \/ PoisonWait("user") \/ VideoStop
    <3>1. \E l : l # "idle" /\ Goto("user", l)
      BY <2>1 DEF Poison, PoisonWait, Poisoned, VideoStop, VideoInv, TypeOK
    <3> QED
      BY <1>5, <3>1 DEF Idle
  <2>4. CASE VideoStart \/ StopReap \/ StopReturnAll
    <3>1. \E l : l # "idle" /\ Goto("user", l)
      BY <2>4 DEF VideoStart, StopReap, StopReturnAll
    <3> QED
      BY <1>5, <3>1 DEF Idle
  <2>2. CASE PipelineGet \/ StartUnget \/ StopCancel
    BY <1>5, <2>2 DEF PipelineGet, StartUnget, StartFailed, StopCancel, CancelQueue, Idle
  <2>3. CASE VideoStartSubmit
    BY <1>5, <2>3 DEF VideoStartSubmit, SubmitOk, Idle
  <2> QED
    BY <1>6, <2>1, <2>2, <2>3, <2>4 DEF UserStep
<1>7. CASE UserCall
  <2>1. Idle /\ UNCHANGED <<queued, hpc, nomem>>
    BY <1>7 DEF UserCall, Open, StreamOn, StreamOff, Close, QBuf, DQBuf
  <2>2. ~Goto("user", "get") /\ ~Goto("user", "stop")
    BY <1>5 DEF Idle
  <2>3. UNCHANGED <<pc, started>>
    <3>1. CASE Open \/ StreamOn \/ \E b \in Buf : QBuf(b) \/ DQBuf(b)
      BY <2>2, <3>1 DEF Open, StreamOn, QBuf, DQBuf, BeginStart
    <3>2. CASE StreamOff \/ Close
      BY <2>2, <3>2 DEF StreamOff, Close, StopQueue, CancelQueue
    <3> QED
      BY <1>7, <3>1, <3>2 DEF UserCall
  <2> QED
    BY <1>1, <2>1, <2>3
<1>8. CASE DisconnectBegin \/ DiscStep
  BY <1>8, DiscMoves DEF VideoInv
<1> QED
  BY <1>2, <1>3, <1>4, <1>6, <1>7, <1>8 DEF Next, Detached

\* As long as no submission fails for lack of memory and the device stays, a
\* stream that is on has a transfer on the endpoint or a handler that will submit
\* one, after every error, cut frame, odd header or lack of buffers.
THEOREM NeverStallsAlways == Spec => []NeverStalls
<1>1. Init => StallInv
  <2> SUFFICES ASSUME Init PROVE StallInv
    OBVIOUS
  <2>1. pc["user"] = "idle" /\ \A u \in Urb : reject[u] = 1
    BY DEF Init, Thread
  <2> QED
    BY <2>1 DEF Init, StallInv, Counts, UserHolds, Alive, NeverStalls
<1>2. VideoInv /\ FlightInv /\ StallInv /\ [Next]_vars => StallInv'
  BY CountsNext, AliveNext, NeverStallsNext DEF StallInv
<1>3. Spec => []StallInv
  BY <1>1, <1>2, OwnAlways, PTL DEF Spec
<1>4. StallInv => NeverStalls
  BY DEF StallInv
<1> QED
  BY <1>3, <1>4, PTL

-----------------------------------------------------------------------------
(***************************************************************************)
(* The driver is a CaptureQueue.                                           *)
(***************************************************************************)
\* The buffer of the frame on its way: the oldest one that the driver owns.
Hand == IF hpc \in {"submit", "failed", "deliver"} THEN <<hbuf>>
        ELSE IF cur_buf # NoBuf THEN <<cur_buf>> ELSE <<>>

LEMMA FifoIs == Fifo = Hand \o buf_list
  BY DEF Fifo, Hand

LEMMA CQRange == \A q : CQ!Range(q) = Range(q)
  BY DEF CQ!Range, Range

LEMMA RangeOne == \A b : Range(<<b>>) = {b}
  BY DEF Range

LEMMA SetOne ==
  ASSUME TypeOK, NEW b \in Buf, NEW s, Done(b, s)
  PROVE  CQ!Set(<<b>>, s)
<1>1. CQ!Range(<<b>>) = {b}
  BY CQRange, RangeOne
<1>2. bst' = [c \in Buf |-> IF c = b THEN s ELSE bst[c]]
  BY DEF TypeOK, Done
<1>3. bst' = [c \in Buf |-> IF c \in {b} THEN s ELSE bst[c]]
  BY <1>2
<1> QED
  BY <1>1, <1>3 DEF CQ!Set

LEMMA HandType == TypeOK /\ FlightInv => Hand \in Seq(Buf) /\ Fifo \in Seq(Buf)
<1> SUFFICES ASSUME TypeOK, FlightInv PROVE Hand \in Seq(Buf) /\ Fifo \in Seq(Buf)
  OBVIOUS
<1>1. Hand = <<>> \/ \E b \in Buf : Hand = <<b>>
  BY DEF Hand, TypeOK, FlightInv, Hands
<1>2. \A b \in Buf : <<b>> \in Seq(Buf)
  OBVIOUS
<1>3. <<>> \in Seq(Buf)
  BY EmptySeq
<1>4. Hand \in Seq(Buf)
  BY <1>1, <1>2, <1>3
<1> QED
  BY <1>4, ConcatProperties, FifoIs DEF TypeOK

\* A step by which the driver neither gets nor gives back a buffer.
LEMMA CQStutter ==
  ASSUME UNCHANGED <<bst, queuedList, started>>, Hand' = Hand, UNCHANGED buf_list
  PROVE  UNCHANGED CQ!cqVars
<1>1. Fifo' = Hand' \o buf_list'
  BY DEF Fifo, Hand
<1> QED
  BY <1>1, FifoIs DEF CQ!cqVars

\* The oldest buffer is given back.
LEMMA CQDeliver ==
  ASSUME TypeOK, started, started', NEW b \in Buf, NEW s \in {"done", "error"},
         Hand = <<b>>, Hand' = <<>>, Done(b, s), UNCHANGED <<buf_list, queuedList>>
  PROVE  CQ!Next
<1>1. Fifo = <<b>> \o buf_list /\ Fifo' = <<>> \o buf_list
  BY DEF Fifo, Hand
<1>2. <<b>> \in Seq(Buf) /\ buf_list \in Seq(Buf) /\ Len(<<b>>) = 1
  BY DEF TypeOK
<1>3. /\ <<b>> \o buf_list \in Seq(Buf) /\ Len(<<b>> \o buf_list) = 1 + Len(buf_list)
      /\ \A i \in 1 .. 1 + Len(buf_list) :
           (<<b>> \o buf_list)[i] = IF i <= 1 THEN <<b>>[i] ELSE buf_list[i - 1]
  BY <1>2, ConcatProperties
<1>4. Fifo \in Seq(Buf) /\ Len(Fifo) = 1 + Len(buf_list) /\ Len(buf_list) \in Nat /\ Fifo # <<>>
  BY <1>1, <1>2, <1>3, LenProperties, EmptySeq
<1>5. Head(Fifo) = b
  BY <1>1, <1>3, <1>4
<1>6. Tail(Fifo) = buf_list
  <2>1. /\ Tail(Fifo) \in Seq(Buf) /\ Len(Tail(Fifo)) = Len(buf_list)
        /\ \A i \in 1 .. Len(Tail(Fifo)) : Tail(Fifo)[i] = Fifo[i + 1]
    BY <1>4, HeadTailProperties
  <2>2. \A i \in 1 .. Len(buf_list) : Fifo[i + 1] = buf_list[i]
    <3> SUFFICES ASSUME NEW i \in 1 .. Len(buf_list) PROVE Fifo[i + 1] = buf_list[i]
      OBVIOUS
    <3>1. i + 1 \in 1 .. 1 + Len(buf_list) /\ ~(i + 1 <= 1) /\ (i + 1) - 1 = i
      BY <1>4
    <3> QED
      BY <1>1, <1>3, <3>1
  <2> QED
    BY <1>2, <2>1, <2>2, SeqEqual
<1>7. Fifo' = buf_list
  BY <1>1, <1>2, ConcatEmptySeq
<1>8. CQ!Set(<<b>>, s)
  BY SetOne
<1>9. CQ!Deliver
  BY <1>4, <1>5, <1>6, <1>7, <1>8 DEF CQ!Deliver
<1> QED
  BY <1>9 DEF CQ!Next

LEMMA CQUsb == VideoInv /\ FlightInv /\ Usb => UNCHANGED CQ!cqVars
<1> SUFFICES ASSUME VideoInv, FlightInv, Usb PROVE UNCHANGED CQ!cqVars
  OBVIOUS
<1>1. UNCHANGED <<bst, queuedList, started, buf_list, cur_buf, hbuf>>
  BY DEF Usb, Packet, TransferError, Cancelled, CutFrame, drvVars, vbVars, hdlVars
<1>2. UNCHANGED hpc \/ (hpc = "idle" /\ hpc' = "enter")
  BY DEF Usb, Packet, TransferError, Cancelled, CutFrame, GiveBack, hdlVars
<1> QED
  BY <1>1, <1>2, CQStutter DEF Hand

LEMMA CQHandler ==
  VideoInv /\ FlightInv /\ OwnInv /\ Handler => CQ!Next \/ UNCHANGED CQ!cqVars
<1> SUFFICES ASSUME VideoInv, FlightInv, OwnInv, Handler PROVE CQ!Next \/ UNCHANGED CQ!cqVars
  OBVIOUS
<1> USE DEF HandlerFrame, drvVars
<1>0. hpc # "idle" /\ started
  BY HandlerStarted DEF Handler, Dead, HdrComplete, DrainComplete, FrameSubmit,
     FrameSubmitFailed, FrameComplete, FrameDeliver, FrameNext
<1>1. ASSUME hpc \in {"enter", "next"}, Return,
             UNCHANGED <<bst, buf_list, queuedList, cur_buf, started>>
      PROVE  UNCHANGED CQ!cqVars
  BY <1>1, CQStutter DEF Return, Hand
<1>2. ASSUME HandleHeader(hdrKind), hpc = "enter", HandlerFrame, UNCHANGED bst, hurb # "frame"
      PROVE  UNCHANGED CQ!cqVars
  <2>1. CASE \E count : SubmitDrain(count)
    BY <1>1, <1>2, <2>1 DEF SubmitDrain
  <2>2. CASE /\ buf_list # <<>> /\ hbuf' = Head(buf_list) /\ buf_list' = Tail(buf_list)
             /\ hpc' = "submit" /\ UNCHANGED cur_buf
    <3>1. Hand = <<>> /\ Fifo' = <<Head(buf_list)>> \o Tail(buf_list)
      BY <1>2, <2>2 DEF FlightInv, Hands, Hand, Fifo
    <3>2. buf_list \in Seq(Buf)
      BY DEF VideoInv, TypeOK
    <3>3. <<Head(buf_list)>> \o Tail(buf_list) = buf_list
      <4>1. Len(buf_list) \in Nat \ {0} /\ Head(buf_list) = buf_list[1]
        BY <2>2, <3>2, EmptySeq
      <4>2. SubSeq(buf_list, 1, Len(buf_list))
              = <<buf_list[1]>> \o SubSeq(buf_list, 1 + 1, Len(buf_list))
        BY <3>2, <4>1, SubSeqRecursiveFirst
      <4>3. SubSeq(buf_list, 2, Len(buf_list)) = Tail(buf_list)
        BY <2>2, <3>2, TailIsSubSeq
      <4>4. SubSeq(buf_list, 1, Len(buf_list)) = buf_list
        BY <3>2, SubSeqFull
      <4> QED
        BY <4>1, <4>2, <4>3, <4>4
    <3>4. Fifo = buf_list
      BY <3>1, <3>2, FifoIs, ConcatEmptySeq
    <3> QED
      BY <1>2, <3>1, <3>3, <3>4 DEF CQ!cqVars
  <2> QED
    BY <1>2, <2>1, <2>2 DEF HandleHeader
<1>3. CASE Dead \/ FrameNext
  BY <1>1, <1>3 DEF Dead, FrameNext, SubmitHdr
<1>4. CASE HdrComplete \/ DrainComplete
  BY <1>1, <1>2, <1>4 DEF HdrComplete, DrainComplete, SubmitHdr, SubmitDrain
<1>5. CASE FrameSubmit
  <2>1. hpc = "submit" /\ cur_buf' = hbuf /\ hbuf # NoBuf
    BY <1>5 DEF FrameSubmit, FlightInv, Hands
  <2>2. hpc' = "idle" \/ (hpc' = "failed" /\ UNCHANGED hbuf)
    BY <1>5 DEF FrameSubmit, Return
  <2> QED
    BY <1>5, <2>1, <2>2, CQStutter DEF FrameSubmit, Hand
<1>6. CASE FrameSubmitFailed
  <2>1. hbuf \in Buf /\ Hand = <<hbuf>> /\ Hand' = <<>>
    BY <1>6 DEF FrameSubmitFailed, Return, Hand, FlightInv, Hands, VideoInv, TypeOK
  <2> QED
    BY <1>0, <1>6, <2>1, CQDeliver DEF FrameSubmitFailed, VideoInv
<1>7. CASE FrameComplete
  <2>1. cur_buf # NoBuf /\ hpc' = "deliver" /\ hbuf' = cur_buf /\ hpc = "enter"
    BY <1>7 DEF FrameComplete, FlightInv, Hands
  <2> QED
    BY <1>7, <2>1, CQStutter DEF FrameComplete, Hand
<1>8. CASE FrameDeliver
  <2>1. hbuf \in Buf /\ Hand = <<hbuf>> /\ Hand' = <<>>
    BY <1>8 DEF FrameDeliver, Hand, FlightInv, Hands, VideoInv, TypeOK
  <2>2. PICK s \in {"done", "error"} : Done(hbuf, s)
    BY <1>8 DEF FrameDeliver
  <2> QED
    BY <1>0, <1>8, <2>1, <2>2, CQDeliver DEF FrameDeliver, VideoInv
<1> QED
  BY <1>3, <1>4, <1>5, <1>6, <1>7, <1>8 DEF Handler

LEMMA CQBeginStart ==
  ASSUME VideoInv, FlightInv, OwnInv, NEW q \in Seq(Buf), ~started, BeginStart(q),
         Len(q) >= MinQueued, UNCHANGED <<cur_buf, hbuf, hpc>>
  PROVE  CQ!Start(q)
<1>1. hpc = "idle" /\ cur_buf = NoBuf /\ buf_list = <<>>
  <2>1. Quiet /\ Idle
    BY StoppedIsQuiet DEF VideoInv, QuietInv, ThreadShape, Idle
  <2> QED
    BY <2>1 DEF Quiet, Stopped, FlightInv, Emptied, OwnInv, Lists
<1>2. Hand = <<>> /\ Hand' = <<>>
  BY <1>1 DEF Hand
<1>3. buf_list' = q
  BY <1>1, ConcatEmptySeq DEF BeginStart
<1>4. Fifo' = q
  BY <1>2, <1>3, ConcatEmptySeq DEF Fifo, Hand
<1>5. CQ!Set(q, "active")
  BY CQRange DEF CQ!Set, BeginStart
<1> QED
  BY <1>4, <1>5 DEF CQ!Start, BeginStart

LEMMA CQStartFailed ==
  ASSUME VideoInv, FlightInv, OwnInv, pc["user"] \in {"get", "unget"}, StartFailed,
         UNCHANGED <<cur_buf, hbuf, hpc>>
  PROVE  CQ!StartFails
<1>1. cur_buf = NoBuf /\ hpc = "idle" /\ started
  <2>1. Quiet
    BY StoppedIsQuiet DEF VideoInv
  <2> QED
    BY <2>1 DEF Quiet, Stopped, FlightInv, Emptied, VideoInv, QuietInv, ThreadShape
<1>2. buf_list \in Seq(Buf) /\ buf_list # <<>>
  BY DEF OwnInv, Lists, VideoInv, TypeOK
<1>3. Hand = <<>> /\ Hand' = <<>> /\ buf_list' = <<>> /\ ~started'
  BY <1>1 DEF Hand, StartFailed
<1>4. Fifo = buf_list /\ Fifo' = <<>>
  BY <1>2, <1>3, EmptySeq, ConcatEmptySeq DEF Fifo, Hand
<1>5. CASE streaming
  <2>1. PICK last \in Buf : last = buf_list[Len(buf_list)]
    BY <1>2, LenProperties, EmptySeq, ElementOfSeq
  <2>2. {buf_list[Len(buf_list)] : x \in {1} \cap DOMAIN buf_list} = {last}
    <3>1. 1 \in DOMAIN buf_list
      BY <1>2, LenProperties, EmptySeq
    <3> QED
      BY <2>1, <3>1
  <2>3. /\ bst' = [b \in Buf |-> CASE b \in {last}                   -> "dequeued"
                                   [] b \in Range(buf_list) \ {last} -> "queued"
                                   [] OTHER                          -> bst[b]]
        /\ queuedList' = SubSeq(buf_list, 1, Len(buf_list) - 1)
    BY <1>5, <2>1, <2>2 DEF StartFailed
  <2>4. bst' = [b \in Buf |-> CASE b = last                          -> "dequeued"
                                [] b \in CQ!Range(Fifo) \ {last}     -> "queued"
                                [] OTHER                             -> bst[b]]
    <3>1. CQ!Range(Fifo) = Range(buf_list)
      BY <1>4, CQRange
    <3>2. bst' = [b \in Buf |-> CASE b = last                        -> "dequeued"
                                  [] b \in Range(buf_list) \ {last}  -> "queued"
                                  [] OTHER                           -> bst[b]]
      BY <2>3
    <3> QED
      BY <3>1, <3>2
  <2>5. last = Fifo[Len(Fifo)] /\ queuedList' = SubSeq(Fifo, 1, Len(Fifo) - 1)
    BY <1>4, <2>1, <2>3
  <2> QED
    BY <1>1, <1>2, <1>3, <1>4, <2>4, <2>5 DEF CQ!StartFails
<1>6. CASE ~streaming
  <2>1. /\ bst' = [b \in Buf |-> CASE b \in {}                  -> "dequeued"
                                   [] b \in Range(buf_list) \ {} -> "queued"
                                   [] OTHER                      -> bst[b]]
        /\ queuedList' = buf_list
    BY <1>6 DEF StartFailed
  <2>2. bst' = [b \in Buf |-> IF b \in Range(buf_list) THEN "queued" ELSE bst[b]]
    BY <2>1
  <2>3. CQ!Set(Fifo, "queued")
    BY <1>4, <2>2, CQRange DEF CQ!Set
  <2> QED
    BY <1>1, <1>2, <1>3, <1>4, <2>1, <2>3 DEF CQ!StartFails
<1> QED
  BY <1>5, <1>6

LEMMA CQCancelQueue ==
  ASSUME VideoInv, FlightInv, OwnInv, CancelQueue, ~started \/ pc["user"] = "cancel",
         UNCHANGED <<cur_buf, hbuf, hpc, buf_list>>
  PROVE  CQ!Cancel
<1>1. cur_buf = NoBuf /\ hpc = "idle" /\ buf_list = <<>>
  <2>1. Quiet
    BY StoppedIsQuiet DEF VideoInv
  <2> QED
    BY <2>1 DEF Quiet, Stopped, Idle, FlightInv, Emptied, OwnInv, Lists,
                VideoInv, QuietInv, ThreadShape
<1>2. Fifo = <<>> /\ Fifo' = <<>>
  BY <1>1, EmptySeq, ConcatEmptySeq DEF Fifo
<1> QED
  BY <1>2 DEF CQ!Cancel, CancelQueue

LEMMA CQUserStep ==
  VideoInv /\ FlightInv /\ OwnInv /\ UserStep => CQ!Next \/ UNCHANGED CQ!cqVars
<1> SUFFICES ASSUME VideoInv, FlightInv, OwnInv, UserStep PROVE CQ!Next \/ UNCHANGED CQ!cqVars
  OBVIOUS
<1> USE DEF UserFrame, DriverFrame, ThreadFrame, hdlVars, drvVars, vbVars
<1>1. Quiet
  BY StoppedIsQuiet DEF VideoInv
<1>2. ASSUME UNCHANGED <<bst, buf_list, queuedList, cur_buf, hbuf, hpc, started>>
      PROVE  UNCHANGED CQ!cqVars
  BY <1>2, CQStutter DEF Hand
<1>3. CASE Poison("user") \/ PoisonWait("user") \/ VideoStop \/ VideoStartSubmit
  BY <1>2, <1>3 DEF Poison, PoisonWait, VideoStop, VideoStartSubmit
<1>4. CASE PipelineGet
  <2>1. StartFailed \/ UNCHANGED <<bst, buf_list, queuedList, started>>
    BY <1>4 DEF PipelineGet
  <2>2. pc["user"] = "get" /\ UNCHANGED <<cur_buf, hbuf, hpc>>
    BY <1>4 DEF PipelineGet
  <2> QED
    BY <1>2, <2>1, <2>2, CQStartFailed DEF CQ!Next
<1>5. CASE StartUnget
  BY <1>5, CQStartFailed DEF StartUnget, CQ!Next
<1>6. CASE VideoStart
  <2>1. cur_buf = NoBuf /\ cur_buf' = NoBuf
    BY <1>6 DEF VideoStart, FlightInv, Emptied
  <2> QED
    BY <1>2, <1>6, <2>1 DEF VideoStart
<1>7. CASE StopReap
  <2>1. hpc = "idle" /\ hpc' = "idle" /\ started /\ started'
    BY <1>1, <1>7 DEF StopReap, Quiet, Stopped, VideoInv, QuietInv, ThreadShape
  <2>2. CASE cur_buf = NoBuf
    BY <1>2, <1>7, <2>2 DEF StopReap
  <2>3. CASE cur_buf # NoBuf
    <3>1. cur_buf \in Buf /\ Hand = <<cur_buf>> /\ Hand' = <<>>
      BY <1>7, <2>1, <2>3 DEF StopReap, Hand, VideoInv, TypeOK
    <3> QED
      BY <1>7, <2>1, <2>3, <3>1, CQDeliver DEF StopReap, VideoInv
  <2> QED
    BY <2>2, <2>3
<1>8. CASE StopReturnAll
  <2>1. /\ hpc = "idle" /\ cur_buf = NoBuf /\ started /\ started' /\ UNCHANGED queuedList
        /\ hpc' = "idle" /\ cur_buf' = NoBuf /\ buf_list' = <<>> /\ buf_list \in Seq(Buf)
    BY <1>1, <1>8 DEF StopReturnAll, Quiet, Stopped, FlightInv, Emptied, VideoInv, TypeOK,
                      QuietInv, ThreadShape
  <2>2. Fifo = buf_list /\ Fifo' = <<>>
    BY <2>1, EmptySeq, ConcatEmptySeq DEF Fifo
  <2>3. CASE buf_list = <<>>
    <3>1. \A b \in Buf : b \notin Range(buf_list)
      BY <2>3, RangeEmpty
    <3>2. UNCHANGED bst
      BY <1>8, <3>1 DEF StopReturnAll, VideoInv, TypeOK
    <3> QED
      BY <2>1, <2>2, <2>3, <3>2 DEF CQ!cqVars
  <2>4. CASE buf_list # <<>>
    <3>1. CQ!Set(Fifo, "error")
      BY <1>8, <2>2, CQRange DEF CQ!Set, StopReturnAll
    <3> QED
      BY <2>1, <2>2, <2>4, <3>1 DEF CQ!Flush, CQ!Next
  <2> QED
    BY <2>3, <2>4
<1>9. CASE StopCancel
  BY <1>9, CQCancelQueue DEF StopCancel, CQ!Next
<1> QED
  BY <1>3, <1>4, <1>5, <1>6, <1>7, <1>8, <1>9 DEF UserStep

LEMMA CQUserCall ==
  VideoInv /\ FlightInv /\ OwnInv /\ UserCall => CQ!Next \/ UNCHANGED CQ!cqVars
<1> SUFFICES ASSUME VideoInv, FlightInv, OwnInv, UserCall PROVE CQ!Next \/ UNCHANGED CQ!cqVars
  OBVIOUS
<1> USE DEF UserFrame, DriverFrame, ThreadFrame, hdlVars, drvVars, vbVars
<1>1. ASSUME UNCHANGED <<bst, buf_list, queuedList, cur_buf, hbuf, hpc, started>>
      PROVE  UNCHANGED CQ!cqVars
  BY <1>1, CQStutter DEF Hand
<1>2. CASE Open
  BY <1>1, <1>2 DEF Open
<1>3. ASSUME NEW b \in Buf, DQBuf(b) PROVE CQ!Next
  <2>1. CQ!Set(<<b>>, "dequeued") /\ bst[b] \in {"done", "error"}
    BY <1>3, SetOne DEF DQBuf, VideoInv
  <2>2. UNCHANGED <<queuedList, started, Fifo>>
    BY <1>3 DEF DQBuf, Fifo
  <2> QED
    BY <2>1, <2>2 DEF CQ!Dequeue, CQ!Next
<1>4. ASSUME NEW b \in Buf, QBuf(b) PROVE CQ!Next
  <2>1. bst[b] = "dequeued" /\ UNCHANGED <<cur_buf, hbuf, hpc>> /\ queuedList \in Seq(Buf)
    BY <1>4 DEF QBuf, VideoInv, TypeOK
  <2>2. Hand' = Hand
    BY <2>1 DEF Hand
  <2>3. CASE started /\ Done(b, "active") /\ BufferQueue(b) /\ UNCHANGED <<queuedList, started>>
    <3>1. buf_list \in Seq(Buf) /\ Hand \in Seq(Buf) /\ Fifo \in Seq(Buf) /\ <<b>> \in Seq(Buf)
      BY HandType DEF VideoInv, TypeOK
    <3>2. Append(buf_list, b) = buf_list \o <<b>> /\ Append(Fifo, b) = Fifo \o <<b>>
      BY <3>1, AppendIsConcat
    <3>3. Hand \o (buf_list \o <<b>>) = (Hand \o buf_list) \o <<b>>
      BY <3>1, ConcatAssociative
    <3>4. Fifo' = Hand' \o buf_list'
      BY DEF Fifo, Hand
    <3>5. Fifo' = Append(Fifo, b)
      BY <2>2, <2>3, <3>2, <3>3, <3>4, FifoIs DEF BufferQueue
    <3>6. CQ!Set(<<b>>, "active")
      BY <2>3, SetOne DEF VideoInv
    <3> QED
      BY <2>1, <2>3, <3>5, <3>6 DEF CQ!Queue, CQ!Next
  <2>4. CASE ~started /\ Done(b, "queued") /\ queuedList' = Append(queuedList, b)
             /\ UNCHANGED <<buf_list, started>>
    <3>1. CQ!Set(<<b>>, "queued") /\ UNCHANGED Fifo
      BY <2>1, <2>4, SetOne DEF VideoInv, Fifo
    <3> QED
      BY <2>1, <2>4, <3>1 DEF CQ!Queue, CQ!Next
  <2>5. CASE ~started /\ Len(Append(queuedList, b)) >= MinQueued
             /\ BeginStart(Append(queuedList, b))
    <3>1. Append(queuedList, b) \in Seq(Buf)
      BY <2>1, AppendProperties
    <3>2. CQ!Start(Append(queuedList, b))
      BY <2>1, <2>5, <3>1, CQBeginStart
    <3> QED
      BY <2>1, <3>2 DEF CQ!Queue, CQ!Next
  <2> QED
    BY <1>4, <2>3, <2>4, <2>5 DEF QBuf
<1>5. CASE StreamOn
  <2>1. CASE UNCHANGED <<bst, buf_list, queuedList, started>>
    BY <1>1, <1>5, <2>1 DEF StreamOn
  <2>2. CASE Len(queuedList) >= MinQueued /\ BeginStart(queuedList)
    <3>1. ~started /\ queuedList \in Seq(Buf) /\ UNCHANGED <<cur_buf, hbuf, hpc>>
      BY <1>5 DEF StreamOn, VideoInv, Running, TypeOK
    <3>2. CQ!Start(queuedList)
      BY <2>2, <3>1, CQBeginStart
    <3> QED
      BY <3>2 DEF CQ!Next
  <2> QED
    BY <1>5, <2>1, <2>2 DEF StreamOn
<1>6. CASE StreamOff \/ Close
  <2>1. UNCHANGED <<cur_buf, hbuf, hpc, buf_list>>
    BY <1>6 DEF StreamOff, Close
  <2>2. CASE ~started /\ CancelQueue
    BY <2>1, <2>2, CQCancelQueue DEF CQ!Next
  <2>3. CASE UNCHANGED vbVars
    BY <1>1, <2>1, <2>3
  <2> QED
    BY <1>6, <2>2, <2>3 DEF StreamOff, Close, StopQueue
<1> QED
  BY <1>2, <1>3, <1>4, <1>5, <1>6 DEF UserCall

\* The driver keeps a capture driver's contract with vb2, from each start to the
\* cancellation of the queue: buffers come back in the order in which they were
\* queued, a failed start leaves them queued, and a stop gives back all of them.
THEOREM RefinesCaptureQueue == Spec => ImplementsCaptureQueue
<1>1. Init => CQ!Init
  <2> SUFFICES ASSUME Init PROVE CQ!Init
    OBVIOUS
  <2>1. Fifo = <<>>
    BY EmptySeq, ConcatEmptySeq DEF Init, Fifo
  <2> QED
    BY <2>1 DEF Init, CQ!Init
<1>2. VideoInv /\ FlightInv /\ OwnInv /\ [Next]_vars => [CQ!Next]_(CQ!cqVars)
  <2> SUFFICES ASSUME VideoInv, FlightInv, OwnInv, [Next]_vars
               PROVE  CQ!Next \/ UNCHANGED CQ!cqVars
    OBVIOUS
  <2>1. CASE UNCHANGED vars
    BY <2>1, CQStutter DEF vars, hdlVars, drvVars, vbVars, Hand
  <2>2. CASE DisconnectBegin \/ DiscStep
    BY <2>2, DiscKeepsUser, CQStutter DEF VideoInv, Hand
  <2> QED
    BY <2>1, <2>2, CQUsb, CQHandler, CQUserStep, CQUserCall DEF Next, Detached
<1> QED
  BY <1>1, <1>2, OwnAlways, PTL DEF Spec, ImplementsCaptureQueue, CQ!Spec

-----------------------------------------------------------------------------
(***************************************************************************)
(* Only whole images are delivered.                                        *)
(***************************************************************************)
LEMMA ImagesMono ==
  ASSUME NEW m \in Nat, NEW n \in Nat, m <= n
  PROVE  Images(m) <= Images(n) /\ Images(m) \in Nat /\ Images(n) \in Nat
<1>1. PktLen \in Nat
  BY SizesAssumption
<1>2. n - m \in Nat /\ n = m + (n - m)
  OBVIOUS
<1>3. n * PktLen = m * PktLen + (n - m) * PktLen
  BY <1>1, <1>2
<1>4. (n - m) * PktLen \in Nat /\ m * PktLen \in Nat
  BY <1>1, <1>2
<1> QED
  BY <1>3, <1>4 DEF Images

LEMMA ImagesNext ==
  ASSUME NEW n \in Nat
  PROVE  Images(n) + PktLen = Images(n + 1) /\ Images(0) = 0 /\ Images(n) \in Nat
<1>1. PktLen \in Nat
  BY SizesAssumption
<1> QED
  BY <1>1 DEF Images

\* A frame that is cut short at a packet, and the header of the next one, do not
\* add up to the length of an image.
LEMMA NotWhole ==
  ASSUME NEW n \in Nat
  PROVE  Images(n) + HdrLen # SizeImage
<1>1. /\ HdrLen \in Nat /\ TailLen \in Nat /\ PktLen \in Nat /\ ImgPkts \in Nat
      /\ HdrLen < TailLen /\ TailLen < PktLen /\ SizeImage = Images(ImgPkts) + TailLen
  BY SizesAssumption DEF SizeImage, Images
<1>2. CASE n <= ImgPkts
  BY <1>1, <1>2, ImagesMono
<1>3. CASE ImgPkts + 1 <= n
  <2>1. Images(ImgPkts) + PktLen <= Images(n) /\ Images(n) \in Nat /\ Images(ImgPkts) \in Nat
    <3>1. Images(ImgPkts + 1) <= Images(n) /\ ImgPkts + 1 \in Nat
      BY <1>1, <1>3, ImagesMono
    <3>2. Images(ImgPkts) + PktLen = Images(ImgPkts + 1)
      BY <1>1, ImagesNext
    <3> QED
      BY <1>1, <3>1, <3>2, ImagesMono
  <2> QED
    BY <1>1, <2>1
<1> QED
  BY <1>1, <1>2, <1>3

\* What PureInv depends on, hdrKind and hstat of a handler that is not running
\* apart.
pureVars == <<pos, kind, hpc, hurb, hstat, hdrKind, queued, got, pure>>

LEMMA PureStutter == PureInv /\ UNCHANGED pureVars => PureInv'
  BY DEF PureInv, pureVars, FrameSoFar

LEMMA PureInit == Init => PureInv
<1> SUFFICES ASSUME Init PROVE PureInv
  OBVIOUS
<1>1. LastPos("good") \in Nat
  BY SizesNat DEF Kind
<1> QED
  BY <1>1 DEF Init, PureInv

\* The device stays within its frame, and starts each at the header.
LEMMA PositionNext ==
  ASSUME TypeOK, pos <= LastPos(kind), NextPacket
  PROVE  /\ pos' <= LastPos(kind')
         /\ pos = LastPos(kind) => pos' = 0
         /\ pos # LastPos(kind) => pos' = pos + 1 /\ kind' = kind
<1>1. LastPos(kind) \in Nat /\ pos \in Nat
  BY SizesNat DEF TypeOK
<1>2. CASE pos = LastPos(kind)
  BY <1>2, SizesNat DEF NextPacket, StartFrame
<1>3. CASE pos # LastPos(kind)
  BY <1>1, <1>3 DEF NextPacket
<1> QED
  BY <1>2, <1>3

\* A packet of the frame URB's transfer: the next one of the image, its last one,
\* or the header of another frame.
LEMMA PureFramePacket ==
  ASSUME VideoInv, PureInv, Packet("frame")
  PROVE  /\ "frame" \in queued' => FrameSoFar'
         /\ hpc' = "enter" /\ hstat' = "ok" /\ got' = SizeImage => pure'
<1> DEFINE len  == PacketLength(kind, pos)
           fits == got + len <= SizeImage
<1>1. /\ "frame" \in queued /\ NextPacket /\ got' = IF fits THEN got + len ELSE got
      /\ pure' = (pure /\ kind = "good" /\ pos > 0 /\ got = (pos - 1) * PktLen)
      /\ IF fits /\ len = PktLen /\ got + len < SizeImage
         THEN UNCHANGED <<queued, unlinked, hurb, hpc, hstat, hdrKind>>
         ELSE GiveBack("frame", IF fits THEN "ok" ELSE "error")
  BY DEF Packet, TransferLength
<1>2. /\ HdrLen \in Nat /\ TailLen \in Nat /\ PktLen \in Nat /\ ImgPkts \in Nat \ {0} /\ pos \in Nat
      /\ HdrLen < TailLen /\ TailLen < PktLen /\ SizeImage = Images(ImgPkts) + TailLen
      /\ got \in Nat
  BY SizesAssumption DEF SizeImage, Images, VideoInv, TypeOK
<1>3. FrameSoFar
  BY <1>1 DEF PureInv
<1>4. CASE pos = 0
  <2>1. len = HdrLen
    BY <1>2, <1>4 DEF PacketLength
  <2>2. PICK n \in Nat : got = Images(n)
    BY <1>3, <1>4 DEF FrameSoFar
  <2>3. got + len # SizeImage
    BY <2>1, <2>2, NotWhole
  <2>4. GiveBack("frame", IF fits THEN "ok" ELSE "error")
    BY <1>1, <1>2, <2>1
  <2> HIDE DEF len, fits
  <2> QED
    BY <1>1, <2>3, <2>4 DEF GiveBack
<1>5. CASE pos > 0
  <2>1. pure /\ kind = "good" /\ got = Images(pos - 1)
    BY <1>3, <1>5 DEF FrameSoFar
  <2>2. pure'
    BY <1>1, <1>5, <2>1 DEF Images
  <2>3. pos <= ImgPkts + 1 /\ LastPos(kind) = ImgPkts + 1
    BY <2>1 DEF PureInv, LastPos
  <2>4. CASE pos = ImgPkts + 1
    <3>1. len = TailLen
      BY <1>2, <2>1, <2>4 DEF PacketLength
    <3>2. GiveBack("frame", IF fits THEN "ok" ELSE "error")
      BY <1>1, <1>2, <3>1
    <3> QED
      BY <2>2, <3>2 DEF GiveBack
  <2>5. CASE pos <= ImgPkts
    <3>1. len = PktLen
      BY <1>2, <1>5, <2>5 DEF PacketLength
    <3>2. Images(pos - 1) + PktLen = Images(pos) /\ Images(pos) <= Images(ImgPkts)
          /\ Images(pos) \in Nat /\ Images(ImgPkts) \in Nat
      <4>1. pos - 1 \in Nat /\ (pos - 1) + 1 = pos
        BY <1>2, <1>5
      <4>2. Images(pos - 1) + PktLen = Images((pos - 1) + 1)
        BY <4>1, ImagesNext
      <4> QED
        BY <1>2, <2>5, <4>1, <4>2, ImagesMono
    <3>3. fits /\ got + len = Images(pos)
      BY <1>2, <2>1, <3>1, <3>2
    <3>4. pos' = pos + 1 /\ kind' = kind
      BY <1>1, <1>2, <2>3, <2>5, PositionNext DEF VideoInv, PureInv
    <3>5. got' = Images(pos)
      BY <1>1, <3>3
    <3>6. pos' > 0 /\ pos' - 1 = pos
      BY <1>2, <3>4
    <3> QED
      BY <2>1, <2>2, <3>4, <3>5, <3>6 DEF FrameSoFar, Images
  <2> QED
    BY <1>2, <2>3, <2>4, <2>5
<1> QED
  BY <1>2, <1>4, <1>5

LEMMA PureUsb == VideoInv /\ PureInv /\ Usb => PureInv'
<1> SUFFICES ASSUME VideoInv, PureInv, Usb PROVE PureInv'
  OBVIOUS
<1>0. \A u, v \in queued : u = v
  BY DEF VideoInv, QuietInv, HandlerShape
<1>1. ASSUME NEW u \in Urb, Packet(u) PROVE PureInv'
  <2>1. /\ hpc = "idle" /\ u \in queued /\ NextPacket /\ hdrKind = "image" /\ pos \in Nat
        /\ pos <= LastPos(kind)
    BY <1>1 DEF Packet, PureInv, VideoInv, TypeOK
  <2>2. CASE UNCHANGED <<queued, unlinked, hurb, hpc, hstat, hdrKind>>
    <3>1. "frame" \in queued' => FrameSoFar'
      BY <1>0, <1>1, <2>1, <2>2, PureFramePacket
    <3> QED
      BY <2>1, <2>2, <3>1, PositionNext DEF PureInv, VideoInv
  <2>3. CASE /\ GiveBack(u, "ok") \/ GiveBack(u, "error")
             /\ hdrKind' = IF pos = 0 THEN kind ELSE "image"
    <3>1. hpc' = "enter" /\ hurb' = u /\ queued' = {}
      BY <1>0, <2>1, <2>3 DEF GiveBack
    <3>2. hurb' = "frame" => (hstat' = "ok" /\ got' = SizeImage => pure')
      BY <1>1, <3>1, PureFramePacket
    <3>3. hdrKind' = "good" => pos' = 1 /\ kind' = "good"
      <4> SUFFICES ASSUME hdrKind' = "good" PROVE pos' = 1 /\ kind' = "good"
        OBVIOUS
      <4>1. pos = 0 /\ kind = "good"
        BY <2>3
      <4>2. LastPos(kind) # 0
        BY <4>1, SizesAssumption DEF LastPos
      <4> QED
        BY <2>1, <4>1, <4>2, PositionNext DEF VideoInv
    <3> QED
      BY <2>1, <3>1, <3>2, <3>3, PositionNext DEF PureInv, VideoInv
  <2> QED
    BY <1>1, <2>2, <2>3 DEF Packet
<1>2. ASSUME NEW u \in queued, NEW s \in {"error", "dead"}, GiveBack(u, s), hpc = "idle",
             pos' <= LastPos(kind'), UNCHANGED hdrKind
      PROVE  PureInv'
  BY <1>0, <1>2 DEF GiveBack, PureInv
<1>3. ASSUME NEW u \in Urb, TransferError(u) PROVE PureInv'
  <2>1. pos' <= LastPos(kind')
    <3>1. pos \in Nat /\ LastPos(kind) \in Nat /\ pos <= LastPos(kind)
      BY SizesNat DEF VideoInv, TypeOK, PureInv
    <3>2. UNCHANGED devVars \/ (pos < LastPos(kind) /\ pos' = pos + 1 /\ UNCHANGED kind)
      BY <1>3 DEF TransferError
    <3> QED
      BY <3>1, <3>2 DEF devVars
  <2> QED
    BY <1>2, <1>3, <2>1 DEF TransferError
<1>4. ASSUME NEW u \in Urb, Cancelled(u) PROVE PureInv'
  BY <1>2, <1>4 DEF Cancelled, devVars, PureInv, VideoInv, TypeOK
<1>5. CASE CutFrame
  <2>1. pos' = 0 /\ pos > 0 /\ pos \in Nat /\ kind' \in Kind
        /\ UNCHANGED <<queued, got, hpc, hurb, hstat, hdrKind, pure>>
    BY <1>5 DEF CutFrame, StartFrame, usbVars, hdlVars, VideoInv, TypeOK
  <2>2. LastPos(kind') \in Nat
    BY <2>1, SizesNat
  <2>3. "frame" \in queued => FrameSoFar'
    <3> SUFFICES ASSUME "frame" \in queued PROVE FrameSoFar'
      OBVIOUS
    <3>1. got = Images(pos - 1) /\ pos - 1 \in Nat
      BY <2>1 DEF PureInv, FrameSoFar
    <3>2. \E n \in Nat : got' = n * PktLen
      BY <2>1, <3>1 DEF Images
    <3> QED
      BY <2>1, <3>2 DEF FrameSoFar, Images
  <2> QED
    BY <2>1, <2>2, <2>3 DEF PureInv
<1> QED
  BY <1>1, <1>3, <1>4, <1>5 DEF Usb

\* Handlers do not touch the device, and wait for a new transfer.
LEMMA PureHandler == VideoInv /\ PureInv /\ Handler => PureInv'
<1> SUFFICES ASSUME VideoInv, PureInv, Handler PROVE PureInv'
  OBVIOUS
<1> USE DEF HandlerFrame, devVars
<1>0. hpc # "idle" /\ queued = {}
  BY DEF Handler, Dead, HdrComplete, DrainComplete, FrameSubmit, FrameSubmitFailed,
         FrameComplete, FrameDeliver, FrameNext, VideoInv, QuietInv, HandlerShape
<1>1. ASSUME Return, "frame" \notin queued', UNCHANGED <<pos, kind>> PROVE PureInv'
  BY <1>1 DEF Return, PureInv
<1>2. ASSUME HandleHeader(hdrKind), hpc = "enter", HandlerFrame PROVE PureInv'
  <2>1. CASE \E count : SubmitDrain(count)
    BY <1>0, <1>1, <1>2, <2>1 DEF SubmitDrain, Resubmit, SubmitOk, SubmitFails
  <2>2. CASE hdrKind = "good" /\ hpc' = "submit" /\ UNCHANGED <<queued, got, hurb, hstat, hdrKind>>
    BY <1>0, <1>2, <2>2 DEF PureInv
  <2> QED
    BY <1>2, <2>1, <2>2 DEF HandleHeader
<1>3. CASE Dead \/ FrameNext \/ FrameSubmitFailed
  BY <1>0, <1>1, <1>3 DEF Dead, FrameNext, FrameSubmitFailed, SubmitHdr, Resubmit, SubmitOk,
                          SubmitFails
<1>4. CASE HdrComplete
  <2>1. CASE SubmitHdr \/ SubmitDrain(0)
    BY <1>0, <1>1, <1>4, <2>1 DEF HdrComplete, SubmitHdr, SubmitDrain, Resubmit, SubmitOk, SubmitFails
  <2> QED
    BY <1>2, <1>4, <2>1 DEF HdrComplete
<1>5. CASE DrainComplete
  <2>1. CASE SubmitHdr \/ \E count : SubmitDrain(count)
    BY <1>0, <1>1, <1>5, <2>1 DEF DrainComplete, SubmitHdr, SubmitDrain, Resubmit, SubmitOk, SubmitFails
  <2> QED
    BY <1>2, <1>5, <2>1 DEF DrainComplete
<1>6. CASE FrameSubmit
  <2>1. pos = 0 \/ (kind = "good" /\ pos = 1)
    BY <1>6 DEF FrameSubmit, PureInv
  <2>2. CASE SubmitOk("frame") /\ pure' = TRUE /\ Return
    <3>1. got' = 0 /\ UNCHANGED <<pos, kind>>
      BY <1>6, <2>2 DEF FrameSubmit, SubmitOk
    <3>2. 0 * PktLen = 0 /\ (1 - 1) * PktLen = 0 /\ 0 \in Nat
      BY SizesAssumption
    <3>3. FrameSoFar'
      BY <2>1, <2>2, <3>1, <3>2 DEF FrameSoFar, Images
    <3> QED
      BY <2>2, <3>1, <3>3 DEF Return, PureInv
  <2>3. CASE SubmitFails("frame") /\ hpc' = "failed"
    BY <1>0, <1>6, <2>3 DEF FrameSubmit, SubmitFails, PureInv
  <2> QED
    BY <1>6, <2>2, <2>3 DEF FrameSubmit
<1>7. CASE FrameComplete \/ FrameDeliver
  BY <1>0, <1>7 DEF FrameComplete, FrameDeliver, PureInv
<1> QED
  BY <1>3, <1>4, <1>5, <1>6, <1>7 DEF Handler

LEMMA PureNext == VideoInv /\ PureInv /\ [Next]_vars => PureInv'
<1> SUFFICES ASSUME VideoInv, PureInv, [Next]_vars PROVE PureInv'
  OBVIOUS
<1> USE DEF vars, usbVars, devVars, hdlVars, drvVars, vbVars, UserFrame, DriverFrame, ThreadFrame
<1>1. CASE UNCHANGED vars
  BY <1>1, PureStutter DEF pureVars
<1>2. CASE DisconnectBegin \/ DiscStep
  BY <1>2, DiscKeepsUser, PureStutter DEF VideoInv, pureVars
<1>3. CASE UserCall
  BY <1>3, PureStutter DEF UserCall, Open, StreamOn, StreamOff, Close, QBuf, DQBuf, pureVars
<1>4. CASE VideoStartSubmit
  <2>1. hpc = "idle" /\ "frame" \notin queued' /\ UNCHANGED <<pos, kind, hpc, hurb, hstat, hdrKind, pure>>
    BY <1>4 DEF VideoStartSubmit, SubmitOk, SubmitFails, VideoInv, QuietInv, Starting
  <2> QED
    BY <2>1 DEF PureInv
<1>5. CASE UserStep /\ ~VideoStartSubmit
  BY <1>5, PureStutter DEF UserStep, Poison, PoisonWait, PipelineGet, VideoStart, StartUnget,
                           VideoStop, StopReap, StopReturnAll, StopCancel, pureVars
<1> QED
  BY <1>1, <1>2, <1>3, <1>4, <1>5, PureUsb, PureHandler DEF Next, Detached

\* No step but FrameDeliver completes a buffer as done.
LEMMA OnlyDelivered ==
  ASSUME VideoInv, [Next]_vars, NEW b \in Buf, bst[b] # "done", bst'[b] = "done"
  PROVE  FrameDeliver
<1> USE DEF vars, vbVars
<1>1. bst \in [Buf -> BufState]
  BY DEF VideoInv, TypeOK
<1>2. ~UNCHANGED bst
  OBVIOUS
<1>3. ASSUME NEW c, NEW s, s # "done", Done(c, s) PROVE FALSE
  BY <1>1, <1>3 DEF Done
<1>4. ASSUME NEW q, BeginStart(q) PROVE FALSE
  BY <1>1, <1>4 DEF BeginStart
<1>5. ASSUME StartFailed PROVE FALSE
  <2> DEFINE last == {buf_list[Len(buf_list)] : x \in {1} \cap DOMAIN buf_list}
             back == IF streaming THEN last ELSE {}
  <2>1. bst' = [c \in Buf |-> CASE c \in back                   -> "dequeued"
                                [] c \in Range(buf_list) \ back -> "queued"
                                [] OTHER                        -> bst[c]]
    BY <1>5 DEF StartFailed
  <2> HIDE DEF back, last
  <2> QED
    BY <1>1, <2>1
<1>6. ASSUME CancelQueue PROVE FALSE
  BY <1>6 DEF CancelQueue
<1>7. ~Usb
  BY <1>2 DEF Usb, Packet, TransferError, Cancelled, CutFrame
<1>8. ASSUME Handler PROVE FrameDeliver
  BY <1>2, <1>3, <1>8 DEF Handler, Dead, HdrComplete, DrainComplete, FrameSubmit,
     FrameSubmitFailed, FrameComplete, FrameNext
<1>9. ~StopReturnAll
  BY <1>1 DEF StopReturnAll
<1>10. ~StopReap
  BY <1>2, <1>3 DEF StopReap
<1>11. ~UserStep
  BY <1>2, <1>5, <1>6, <1>9, <1>10 DEF UserStep, Poison, PoisonWait, PipelineGet, VideoStart,
     VideoStartSubmit, StartUnget, VideoStop, StopCancel
<1>12. ~UserCall
  BY <1>2, <1>3, <1>4, <1>6 DEF UserCall, Open, StreamOn, StreamOff, Close, StopQueue, QBuf, DQBuf
<1>13. ~(DisconnectBegin \/ DiscStep)
  BY <1>2, DiscKeepsUser DEF VideoInv
<1> QED
  BY <1>2, <1>7, <1>8, <1>11, <1>12, <1>13 DEF Next, Detached

\* A buffer is delivered as done only if the transfer has received all of one
\* image, from its first byte, whatever was lost, cut short or sent in another
\* size before.
THEOREM WholeFramesAlways == Spec => WholeFrames
<1> DEFINE Whole == \A b \in Buf : bst[b] # "done" /\ bst'[b] = "done"
                                     => pure /\ got = SizeImage
<1>1. VideoInv /\ FlightInv /\ PureInv /\ [Next]_vars => [Whole]_vars
  <2> SUFFICES ASSUME VideoInv, FlightInv, PureInv, [Next]_vars,
                      NEW b \in Buf, bst[b] # "done", bst'[b] = "done"
               PROVE  pure /\ got = SizeImage
    OBVIOUS
  <2>1. FrameDeliver
    BY OnlyDelivered
  <2>2. hbuf = b /\ FrameIsWhole
    BY <2>1 DEF FrameDeliver, Done, VideoInv, TypeOK
  <2> QED
    BY <2>1, <2>2 DEF FrameDeliver, FrameIsWhole, TransferLength, PureInv
<1>2. Spec => []PureInv
  BY PureInit, PureNext, OwnAlways, PTL DEF Spec
<1> QED
  BY <1>1, <1>2, OwnAlways, PTL DEF Spec, WholeFrames
=============================================================================
