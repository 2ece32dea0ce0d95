----------------------------- MODULE Sur40Video -----------------------------
(***************************************************************************)
(* The video pipeline of the sur40 kernel driver (kernel/sur40.c).         *)
(*                                                                         *)
(* Three URBs share the bulk IN endpoint 0x82.  The header URB waits for   *)
(* the short packet that announces a frame; then the frame URB moves the   *)
(* image into the next videobuf2 buffer or, if there is none, the drain    *)
(* URB discards it.  Their completion handlers run in interrupt context,   *)
(* one at a time, beside two threads that may sleep:                       *)
(*   "user"  the V4L2 file (its ioctls are serialised by queue.lock), with *)
(*           sur40_start_streaming and sur40_stop_streaming;               *)
(*   "disc"  the USB core's call of sur40_disconnect.                      *)
(*                                                                         *)
(* A handler is split where another thread can interfere: when it takes a  *)
(* buffer (qlock), when it submits an URB (the poison count), when it      *)
(* hands a buffer to vb2.  The USB core, the device and vb2 are modelled   *)
(* from how sur40.c uses them.  Transfers are counted in abstract bytes;   *)
(* what matters of the sizes is stated by SizesAssumption.                 *)
(***************************************************************************)
EXTENDS Integers, Sequences, FiniteSets, Functions

CONSTANTS
  Buf,          \* the videobuf2 buffers
  NoBuf,        \* the null struct sur40_buffer pointer
  MinQueued,    \* queue.min_queued_buffers (3 in the code)
  HdrLen,       \* sizeof(struct sur40_image_header), 20 in the code
  PktLen,       \* video_pkt_size, wMaxPacketSize of the endpoint, 512
  TailLen,      \* length of the short packet that ends an image, 256
  ImgPkts,      \* full packets of an image of the negotiated size, 1012
  OddPkts,      \* full packets of an image of another size, 2025
  DrainLen,     \* SUR40_DRAIN_SIZE, 65536
  MaxFaults,    \* bound: transfer errors, cut frames and odd headers
  MaxNoMem,     \* bound: submissions that fail for lack of memory
  MaxUnderflow  \* bound: how far below 0 the poison counts may go

ASSUME BufAssumption == NoBuf \notin Buf /\ MinQueued \in Nat \ {0}
ASSUME SizesAssumption ==
  /\ HdrLen \in Nat \ {0} /\ TailLen \in Nat /\ PktLen \in Nat
  /\ HdrLen < TailLen /\ TailLen < PktLen
  /\ ImgPkts \in Nat \ {0} /\ OddPkts \in Nat \ {0}
  /\ DrainLen \in Nat \ {0} /\ DrainLen % PktLen = 0
ASSUME BoundsAssumption ==
  MaxFaults \in Nat /\ MaxNoMem \in Nat /\ MaxUnderflow \in Nat

Thread == {"user", "disc"}

(***************************************************************************)
(* The three URBs of the endpoint, in the order in which sur40_video_stop  *)
(* and sur40_disconnect poison them.                                       *)
(***************************************************************************)
Urb   == {"hdr", "frame", "drain"}
NoUrb == "none"
NextUrb(u) == IF u = "hdr" THEN "frame" ELSE "drain"
LastUrbShort == "frame"    \* mutant: the drain URB is forgotten
LastUrb == "drain"

(***************************************************************************)
(* A frame on the wire is a header packet, then its image.  "good" is a    *)
(* header of the negotiated size, "odd" one of another plausible size,     *)
(* "huge" one above SUR40_MAX_FRAME_SIZE, "junk" one with a wrong magic.   *)
(***************************************************************************)
Kind == {"good", "odd", "huge", "junk"}
SizeImage == ImgPkts * PktLen + TailLen
OddSize   == OddPkts * PktLen

VARIABLES
  \* the USB core's view of the endpoint and of the three URBs
  epOn,            \* the interface's endpoints are enabled
  reject,          \* poison count of each URB
  queued,          \* URBs submitted and not yet given back
  unlinked,        \* queued URBs that a poison has cancelled
  got,             \* bytes received by the transfer that is (was last) active
  \* the device
  kind, pos,       \* frame it is sending, index of its next packet (0: header)
  \* the completion handler that is running
  hurb, hpc,       \* its URB, its program counter
  hstat,           \* urb->status: "ok", "error" or "dead"
  hdrKind,         \* header in the last packet received ("image": not one)
  hbuf,            \* its local variable buf
  \* struct sur40_state
  cur_buf, buf_list, drain_remaining, disconnected,
  pipeRef,         \* streaming holds a reference on the touch pipeline
  \* vb2 and the V4L2 core
  bst,             \* state of each buffer
  queuedList,      \* buffers queued and not handed to the driver
  streaming,       \* q->streaming
  started,         \* q->start_streaming_called
  qerror,          \* q->error
  registered,      \* the video node is registered
  open,            \* the video node is open
  \* the threads
  pc, tgt,         \* program counter, URB being poisoned
  caller,          \* who called sur40_video_stop: "start" or "stop"
  \* history and bounds
  pure,            \* the frame transfer has received the image that follows the
                   \* header, from its first byte on and nothing else
  faults, nomem

usbVars    == <<epOn, reject, queued, unlinked, got>>
devVars    == <<kind, pos>>
hdlVars    == <<hurb, hpc, hstat, hdrKind, hbuf>>
drvVars    == <<cur_buf, buf_list, drain_remaining>>
vbVars     == <<bst, queuedList, streaming, started>>
v4lVars    == <<qerror, registered, open>>
thrVars    == <<pc, tgt, caller>>
boundVars  == <<faults, nomem>>
vars == <<usbVars, devVars, hdlVars, drvVars, disconnected, pipeRef, vbVars,
          v4lVars, thrVars, pure, boundVars>>

-----------------------------------------------------------------------------
(***************************************************************************)
(* URBs.  usb_submit_urb refuses a poisoned URB (-EPERM) and a disabled    *)
(* endpoint; GFP_ATOMIC memory may be short.                               *)
(***************************************************************************)
Accepted(u) == epOn /\ reject[u] = 0

SubmitOk(u) ==
  /\ Accepted(u)
  /\ queued' = queued \cup {u}
  /\ got' = 0
  /\ UNCHANGED nomem

SubmitFails(u) ==
  /\ \/ ~Accepted(u) /\ UNCHANGED nomem
     \/ Accepted(u) /\ nomem < MaxNoMem /\ nomem' = nomem + 1
  /\ UNCHANGED <<queued, got>>

\* sur40_resubmit: the result of the submission is only logged
Resubmit(u) == SubmitOk(u) \/ SubmitFails(u)

\* urb->transfer_buffer_length, a function of drain_remaining for the drain URB
TransferLength(u) ==
  CASE u = "hdr"   -> PktLen
    [] u = "frame" -> SizeImage
    [] u = "drain" -> IF drain_remaining \in 1 .. DrainLen
                      THEN drain_remaining ELSE DrainLen

(***************************************************************************)
(* The device.  It sends a packet whenever a transfer is active.           *)
(***************************************************************************)
LastPos(k) == IF k = "good" THEN ImgPkts + 1 ELSE OddPkts
PacketLength(k, p) == CASE p = 0 -> HdrLen
                        [] p > ImgPkts /\ k = "good" -> TailLen
                        [] OTHER -> PktLen

\* The device starts a frame; one that is not "good" counts as a fault.
StartFrame(cost) ==
  \E k \in Kind :
    LET c == cost + IF k = "good" THEN 0 ELSE 1
    IN  /\ faults + c <= MaxFaults
        /\ kind' = k
        /\ pos' = 0
        /\ faults' = faults + c

NextPacket ==
  IF pos = LastPos(kind)
  THEN StartFrame(0)
  ELSE pos' = pos + 1 /\ UNCHANGED <<kind, faults>>

\* The URB is given back: its completion handler starts.
GiveBack(u, status) ==
  /\ queued' = queued \ {u}
  /\ unlinked' = unlinked \ {u}
  /\ hurb' = u
  /\ hpc' = "enter"
  /\ hstat' = status

(***************************************************************************)
(* One packet arrives.  A short packet or a full buffer ends the transfer; *)
(* a packet that does not fit ends it with an error.  Handlers of one      *)
(* endpoint are serialised, so a transfer ends when none is running.       *)
(***************************************************************************)
Packet(u) ==
  LET len == PacketLength(kind, pos)
      fits == got + len <= TransferLength(u)
  IN
  /\ epOn /\ hpc = "idle"
  /\ u \in queued \ unlinked
  /\ NextPacket
  /\ got' = IF fits THEN got + len ELSE got
  /\ pure' = (u = "frame" =>
               pure /\ kind = "good" /\ pos > 0 /\ got = (pos - 1) * PktLen)
  /\ IF fits /\ len = PktLen /\ got + len < TransferLength(u)
     THEN UNCHANGED <<queued, unlinked, hurb, hpc, hstat, hdrKind>>
     ELSE /\ GiveBack(u, IF fits THEN "ok" ELSE "error")
          /\ hdrKind' = IF pos = 0 THEN kind ELSE "image"
  /\ UNCHANGED <<epOn, reject, hbuf, drvVars, disconnected, pipeRef, vbVars,
                 v4lVars, thrVars, nomem>>

\* The transfer fails (CRC, babble, host error); a packet may get lost.
TransferError(u) ==
  /\ epOn /\ hpc = "idle"
  /\ u \in queued \ unlinked
  /\ faults < MaxFaults
  /\ \/ faults' = faults + 1 /\ UNCHANGED devVars
     \/ pos < LastPos(kind) /\ faults' = faults + 1 /\ pos' = pos + 1
        /\ UNCHANGED kind
  /\ GiveBack(u, "error")
  /\ UNCHANGED <<epOn, reject, got, hdrKind, hbuf, drvVars, disconnected,
                 pipeRef, vbVars, v4lVars, thrVars, pure, nomem>>

\* The device drops the rest of a frame that the host did not fetch in time.
CutFrame ==
  /\ pos > 0
  /\ StartFrame(1)
  /\ UNCHANGED <<usbVars, hdlVars, drvVars, disconnected, pipeRef, vbVars,
                 v4lVars, thrVars, pure, nomem>>

\* A cancelled URB is given back with -ENOENT or -ESHUTDOWN.
Cancelled(u) ==
  /\ hpc = "idle"
  /\ u \in unlinked
  /\ GiveBack(u, "dead")
  /\ UNCHANGED <<epOn, reject, got, devVars, hdrKind, hbuf, drvVars,
                 disconnected, pipeRef, vbVars, v4lVars, thrVars, pure,
                 boundVars>>

-----------------------------------------------------------------------------
(***************************************************************************)
(* The completion handlers.                                                *)
(***************************************************************************)
Done(b, state) == bst' = [bst EXCEPT ![b] = state]

Return ==
  /\ hurb' = NoUrb /\ hpc' = "idle" /\ hstat' = "ok"
  /\ hdrKind' = "image" /\ hbuf' = NoBuf

SubmitHdr == Resubmit("hdr") /\ Return

\* sur40_video_submit_drain: 0 asks for a new search for a header
SubmitDrain(count) ==
  /\ drain_remaining' = count
  /\ Resubmit("drain")
  /\ Return
  /\ UNCHANGED <<cur_buf, buf_list>>

\* sur40_video_handle_header up to the submission of the frame URB
HandleHeader(k) ==
  \/ k \in {"junk", "huge", "image"} /\ SubmitDrain(0)
  \/ k = "odd" /\ SubmitDrain(OddSize)
  \/ k = "good" /\ buf_list = <<>> /\ SubmitDrain(SizeImage)
  \/ /\ k = "good" /\ buf_list # <<>>
     /\ hbuf' = Head(buf_list)
     /\ buf_list' = Tail(buf_list)
     /\ hpc' = "submit"
     /\ UNCHANGED <<queued, got, nomem, hurb, hstat, hdrKind, cur_buf,
                    drain_remaining>>

\* What every step of a handler leaves alone.
HandlerFrame == UNCHANGED <<epOn, reject, unlinked, devVars, disconnected,
                            pipeRef, streaming, started, queuedList, v4lVars,
                            thrVars, faults>>

\* sur40_urb_dead: a handler whose URB was cancelled returns at once.
UrbDeadOnError == hstat # "ok"    \* mutant: every error is taken as final
UrbDead == hstat = "dead"

Dead ==
  /\ hpc = "enter" /\ UrbDead
  /\ Return
  /\ UNCHANGED <<queued, got, nomem, drvVars, bst, pure>>
  /\ HandlerFrame

HdrComplete ==
  /\ hpc = "enter" /\ hurb = "hdr" /\ ~UrbDead
  /\ \/ hstat = "error" /\ SubmitHdr /\ UNCHANGED drvVars
     \/ hstat = "ok" /\ got # HdrLen /\ SubmitDrain(0)
     \/ hstat = "ok" /\ got = HdrLen /\ HandleHeader(hdrKind)
  /\ UNCHANGED <<bst, pure>>
  /\ HandlerFrame

\* In a search for a header, it ends the transfer as a short packet.
HeaderAtEndNoOffset == got >= HdrLen /\ got % PktLen = 0   \* mutant
HeaderAtEnd == got >= HdrLen /\ (got - HdrLen) % PktLen = 0

DrainComplete ==
  LET short  == got < TransferLength("drain")
      synced == hstat = "ok" /\ drain_remaining # 0
  IN
  /\ hpc = "enter" /\ hurb = "drain" /\ ~UrbDead
  /\ \/ hstat = "error" /\ SubmitDrain(0)
     \/ hstat = "ok" /\ drain_remaining = 0 /\ ~HeaderAtEnd /\ SubmitDrain(0)
     \/ /\ hstat = "ok" /\ drain_remaining = 0 /\ HeaderAtEnd
        /\ HandleHeader(hdrKind)
     \/ /\ synced /\ got >= drain_remaining
        /\ drain_remaining' = 0
        /\ SubmitHdr
        /\ UNCHANGED <<cur_buf, buf_list>>
     \/ synced /\ got < drain_remaining /\ short /\ SubmitDrain(0)
     \/ /\ synced /\ got < drain_remaining /\ ~short
        /\ SubmitDrain(drain_remaining - got)
  /\ UNCHANGED <<bst, pure>>
  /\ HandlerFrame

\* sur40_video_handle_header, from "sur40->cur_buf = buf" on
FrameSubmit ==
  /\ hpc = "submit"
  /\ cur_buf' = hbuf
  /\ \/ SubmitOk("frame") /\ pure' = TRUE /\ Return
     \/ /\ SubmitFails("frame")
        /\ hpc' = "failed"
        /\ UNCHANGED <<hurb, hstat, hdrKind, hbuf, pure>>
  /\ UNCHANGED <<buf_list, drain_remaining, bst>>
  /\ HandlerFrame

FrameSubmitFailedKeeps ==   \* mutant: cur_buf is not reset
  /\ hpc = "failed" /\ Done(hbuf, "error") /\ Return
  /\ UNCHANGED <<queued, got, nomem, drvVars, pure>> /\ HandlerFrame

FrameSubmitFailed ==
  /\ hpc = "failed"
  /\ cur_buf' = NoBuf
  /\ Done(hbuf, "error")
  /\ Return
  /\ UNCHANGED <<queued, got, nomem, buf_list, drain_remaining, pure>>
  /\ HandlerFrame

\* sur40_video_frame_complete takes the buffer ...
FrameComplete ==
  /\ hpc = "enter" /\ hurb = "frame" /\ ~UrbDead
  /\ hbuf' = cur_buf
  /\ cur_buf' = NoBuf
  /\ hpc' = IF cur_buf = NoBuf THEN "next" ELSE "deliver"
  /\ UNCHANGED <<queued, got, nomem, hurb, hstat, hdrKind, buf_list,
                 drain_remaining, bst, pure>>
  /\ HandlerFrame

\* ... hands it to vb2 ...
FrameIsWholeNoLength == hstat = "ok"   \* mutant: the length is not compared
FrameIsWhole == hstat = "ok" /\ got = TransferLength("frame")

FrameDeliver ==
  /\ hpc = "deliver"
  /\ Done(hbuf, IF FrameIsWhole THEN "done" ELSE "error")
  /\ hbuf' = NoBuf
  /\ hpc' = "next"
  /\ UNCHANGED <<queued, got, nomem, hurb, hstat, hdrKind, drvVars, pure>>
  /\ HandlerFrame

\* ... and waits for the next header.
FrameNext ==
  /\ hpc = "next"
  /\ SubmitHdr
  /\ UNCHANGED <<drvVars, bst, pure>>
  /\ HandlerFrame

Handler == \/ Dead \/ HdrComplete \/ DrainComplete \/ FrameSubmit
           \/ FrameSubmitFailed \/ FrameComplete \/ FrameDeliver \/ FrameNext

-----------------------------------------------------------------------------
(***************************************************************************)
(* Poisoning, shared by sur40_video_stop and sur40_disconnect.  Poisoning  *)
(* an URB refuses further submissions, cancels it if it is queued and      *)
(* waits until its completion handler has returned.                        *)
(***************************************************************************)
Goto(t, label) == pc' = [pc EXCEPT ![t] = label]

\* What a step of a thread leaves alone, the fields it works on apart.
ThreadFrame == UNCHANGED <<epOn, devVars, hdlVars, pure, faults>>

RefuseNot(u) == UNCHANGED reject     \* mutant: usb_unlink_urb and a wait
Refuse(u) == reject' = [reject EXCEPT ![u] = @ + 1]

GivenBackOnly(u) == u \notin queued  \* mutant: its handler may still run
GivenBackLater(u) == u \in Urb       \* mutant: usb_unlink_urb, no wait
GivenBack(u) == u \notin queued /\ hurb # u

Poison(t) ==
  /\ pc[t] = "poison"
  /\ Refuse(tgt[t])
  /\ unlinked' = unlinked \cup ({tgt[t]} \cap queued)
  /\ Goto(t, "wait")
  /\ UNCHANGED <<queued, got, tgt, caller, nomem, drvVars, disconnected, pipeRef,
                 vbVars, v4lVars>>
  /\ ThreadFrame

\* Where a thread goes on when the last URB is poisoned.
Poisoned(t) == CASE t = "disc"                        -> "flag"
                 [] t = "user" /\ caller = "start"    -> "unget"
                 [] t = "user" /\ caller = "stop"     -> "reap"

PoisonWait(t) ==
  /\ pc[t] = "wait"
  /\ GivenBack(tgt[t])
  /\ IF tgt[t] = LastUrb
     THEN Goto(t, Poisoned(t)) /\ tgt' = [tgt EXCEPT ![t] = "hdr"]
     ELSE Goto(t, "poison") /\ tgt' = [tgt EXCEPT ![t] = NextUrb(tgt[t])]
  /\ UNCHANGED <<reject, queued, unlinked, got, caller, nomem, drvVars,
                 disconnected, pipeRef, vbVars, v4lVars>>
  /\ ThreadFrame

-----------------------------------------------------------------------------
(***************************************************************************)
(* The user of the video node.  vb2 starts the driver when streaming is on *)
(* and MinQueued buffers are queued, and hands it all of them first.       *)
(***************************************************************************)
Idle == pc["user"] = "idle"

DriverFrame == ThreadFrame /\ UNCHANGED <<unlinked, disconnected, tgt, registered>>
UserFrame   == DriverFrame /\ UNCHANGED <<reject, queued, got, nomem>>

BufferQueueHead(b) == buf_list' = <<b>> \o buf_list   \* mutant: list_add
BufferQueue(b) == buf_list' = Append(buf_list, b)

BeginStart(q) ==
  /\ reject["hdr"] > -MaxUnderflow
  /\ bst' = [b \in Buf |-> IF b \in Range(q) THEN "active" ELSE bst[b]]
  /\ buf_list' = buf_list \o q
  /\ queuedList' = <<>>
  /\ started' = TRUE
  /\ Goto("user", "get")

Open ==
  /\ Idle /\ registered /\ ~open
  /\ open' = TRUE
  /\ UNCHANGED <<drvVars, pipeRef, vbVars, qerror, pc,
                 caller>>
  /\ UserFrame

QBuf(b) ==
  /\ Idle /\ registered /\ open /\ ~qerror
  /\ bst[b] = "dequeued"
  /\ LET q == Append(queuedList, b)
     IN  \/ /\ started
            /\ Done(b, "active")
            /\ BufferQueue(b)
            /\ UNCHANGED <<queuedList, started, pc>>
         \/ /\ ~started /\ ~(streaming /\ Len(q) >= MinQueued)
            /\ Done(b, "queued")
            /\ queuedList' = q
            /\ UNCHANGED <<buf_list, started, pc>>
         \/ /\ ~started /\ streaming /\ Len(q) >= MinQueued
            /\ BeginStart(q)
  /\ UNCHANGED <<cur_buf, drain_remaining, pipeRef,
                 streaming, qerror, open, caller>>
  /\ UserFrame

DQBuf(b) ==
  /\ Idle /\ registered /\ open /\ streaming /\ ~qerror
  /\ bst[b] \in {"done", "error"}
  /\ Done(b, "dequeued")
  /\ UNCHANGED <<drvVars, pipeRef, queuedList,
                 streaming, started, qerror, open, pc, caller>>
  /\ UserFrame

StreamOn ==
  /\ Idle /\ registered /\ open /\ ~streaming
  /\ \/ /\ Len(queuedList) < MinQueued
        /\ streaming' = TRUE
        /\ UNCHANGED <<bst, buf_list, queuedList, started, pc>>
     \/ /\ Len(queuedList) >= MinQueued
        /\ BeginStart(queuedList)
        /\ UNCHANGED streaming
  /\ UNCHANGED <<cur_buf, drain_remaining, pipeRef,
                 qerror, open, caller>>
  /\ UserFrame

(***************************************************************************)
(* sur40_start_streaming.                                                  *)
(***************************************************************************)

\* return_all_buffers(VB2_BUF_STATE_QUEUED); vb2 then takes back the buffer
\* whose VIDIOC_QBUF tried to start.
StartFailed ==
  LET last == {buf_list[Len(buf_list)] : x \in {1} \cap DOMAIN buf_list}
      back == IF streaming THEN last ELSE {}
  IN
  /\ bst' = [b \in Buf |-> CASE b \in back                   -> "dequeued"
                             [] b \in Range(buf_list) \ back -> "queued"
                             [] OTHER                        -> bst[b]]
  /\ queuedList' = IF back = {} THEN buf_list
                   ELSE SubSeq(buf_list, 1, Len(buf_list) - 1)
  /\ buf_list' = <<>>
  /\ started' = FALSE
  /\ Goto("user", "idle")

PipelineGet ==
  /\ pc["user"] = "get"
  /\ \/ /\ pipeRef' = TRUE
        /\ Goto("user", "start")
        /\ UNCHANGED <<bst, buf_list, queuedList, started>>
     \/ StartFailed /\ UNCHANGED pipeRef
  /\ UNCHANGED <<cur_buf, drain_remaining, streaming,
                 qerror, open, caller>>
  /\ UserFrame

VideoStart ==
  /\ pc["user"] = "start"
  /\ cur_buf' = NoBuf
  /\ drain_remaining' = 0
  /\ reject' = [u \in Urb |-> reject[u] - 1]
  /\ Goto("user", "submit")
  /\ UNCHANGED <<queued, got, nomem, buf_list, pipeRef, vbVars, qerror, open,
                 caller>>
  /\ DriverFrame

VideoStartSubmit ==
  /\ pc["user"] = "submit"
  /\ \/ /\ SubmitOk("hdr")
        /\ streaming' = TRUE
        /\ Goto("user", "idle")
        /\ UNCHANGED caller
     \/ /\ SubmitFails("hdr")
        /\ caller' = "start"
        /\ Goto("user", "stop")
        /\ UNCHANGED streaming
  /\ UNCHANGED <<reject, drvVars, pipeRef, bst, queuedList, started, qerror,
                 open>>
  /\ DriverFrame

\* sur40_pipeline_put, then the error path.
StartUnget ==
  /\ pc["user"] = "unget"
  /\ pipeRef' = FALSE
  /\ StartFailed
  /\ UNCHANGED <<cur_buf, drain_remaining, streaming,
                 qerror, open, caller>>
  /\ UserFrame

(***************************************************************************)
(* VIDIOC_STREAMOFF and close: __vb2_queue_cancel, with the driver's       *)
(* sur40_stop_streaming if it had been started.                            *)
(***************************************************************************)
CancelQueue ==
  /\ bst' = [b \in Buf |-> "dequeued"]
  /\ queuedList' = <<>>
  /\ streaming' = FALSE /\ started' = FALSE /\ qerror' = FALSE

StopQueue ==
  \/ started /\ Goto("user", "stop") /\ caller' = "stop"
             /\ UNCHANGED <<vbVars, qerror>>
  \/ ~started /\ CancelQueue /\ UNCHANGED <<pc, caller>>

StreamOff ==
  /\ Idle /\ registered /\ open
  /\ StopQueue
  /\ UNCHANGED <<drvVars, pipeRef, open>>
  /\ UserFrame

Close ==
  /\ Idle /\ open
  /\ open' = FALSE
  /\ StopQueue
  /\ UNCHANGED <<drvVars, pipeRef>>
  /\ UserFrame

\* sur40_video_stop: nothing is done after a disconnect.
VideoStop ==
  /\ pc["user"] = "stop"
  /\ Goto("user", IF disconnected THEN Poisoned("user") ELSE "poison")
  /\ UNCHANGED <<drvVars, pipeRef, vbVars, qerror, open,
                 caller>>
  /\ UserFrame

StopReap ==
  /\ pc["user"] = "reap"
  /\ IF cur_buf = NoBuf THEN UNCHANGED bst ELSE Done(cur_buf, "error")
  /\ cur_buf' = NoBuf
  /\ Goto("user", "return")
  /\ UNCHANGED <<buf_list, drain_remaining, pipeRef,
                 queuedList, streaming, started, qerror, open, caller>>
  /\ UserFrame

\* return_all_buffers(VB2_BUF_STATE_ERROR) and sur40_pipeline_put
StopReturnAll ==
  /\ pc["user"] = "return"
  /\ bst' = [b \in Buf |-> IF b \in Range(buf_list) THEN "error" ELSE bst[b]]
  /\ buf_list' = <<>>
  /\ pipeRef' = FALSE
  /\ Goto("user", "cancel")
  /\ UNCHANGED <<cur_buf, drain_remaining, queuedList,
                 streaming, started, qerror, open, caller>>
  /\ UserFrame

StopCancel ==
  /\ pc["user"] = "cancel"
  /\ CancelQueue
  /\ Goto("user", "idle")
  /\ UNCHANGED <<drvVars, pipeRef, open, caller>>
  /\ UserFrame

UserStep == \/ Poison("user") \/ PoisonWait("user")
            \/ PipelineGet \/ VideoStart \/ VideoStartSubmit \/ StartUnget
            \/ VideoStop \/ StopReap \/ StopReturnAll \/ StopCancel

UserCall == \/ Open \/ StreamOn \/ StreamOff \/ Close
            \/ \E b \in Buf : QBuf(b) \/ DQBuf(b)

-----------------------------------------------------------------------------
(***************************************************************************)
(* Disconnect.  The USB core disables the interface's endpoints, which     *)
(* cancels what is queued on them, and calls sur40_disconnect.             *)
(***************************************************************************)
DiscFrame == UNCHANGED <<got, devVars, hdlVars, drvVars, pipeRef, vbVars, open,
                         caller, pure, boundVars, queued>>

DisconnectBegin ==
  /\ pc["disc"] = "bound"
  /\ epOn' = FALSE
  /\ unlinked' = queued
  /\ Goto("disc", "poison")
  /\ UNCHANGED <<reject, disconnected, qerror, registered, tgt>>
  /\ DiscFrame

DisconnectFlag ==
  /\ pc["disc"] = "flag"
  /\ disconnected' = TRUE
  /\ Goto("disc", "error")
  /\ UNCHANGED <<epOn, reject, unlinked, qerror, registered, tgt>>
  /\ DiscFrame

\* vb2_queue_error
DisconnectError ==
  /\ pc["disc"] = "error"
  /\ qerror' = TRUE
  /\ Goto("disc", "unregister")
  /\ UNCHANGED <<epOn, reject, unlinked, disconnected, registered, tgt>>
  /\ DiscFrame

\* video_unregister_device
DisconnectUnregister ==
  /\ pc["disc"] = "unregister"
  /\ registered' = FALSE
  /\ Goto("disc", "gone")
  /\ UNCHANGED <<epOn, reject, unlinked, disconnected, qerror, tgt>>
  /\ DiscFrame

DiscStep == \/ Poison("disc") \/ PoisonWait("disc")
            \/ DisconnectFlag \/ DisconnectError \/ DisconnectUnregister

\* The driver is gone and the last file is closed: nothing is left to do.
Detached ==
  /\ pc["disc"] = "gone" /\ Idle /\ ~open /\ hpc = "idle" /\ queued = {}
  /\ UNCHANGED vars

-----------------------------------------------------------------------------
\* After sur40_probe: every URB is poisoned once.
Init ==
  /\ epOn = TRUE /\ queued = {} /\ unlinked = {} /\ got = 0
  /\ reject = [u \in Urb |-> 1]
  /\ kind = "good" /\ pos \in {0, LastPos("good")}
  /\ hurb = NoUrb /\ hpc = "idle" /\ hstat = "ok" /\ hdrKind = "image"
  /\ hbuf = NoBuf
  /\ cur_buf = NoBuf /\ buf_list = <<>> /\ drain_remaining = 0
  /\ disconnected = FALSE /\ pipeRef = FALSE
  /\ bst = [b \in Buf |-> "dequeued"] /\ queuedList = <<>>
  /\ streaming = FALSE /\ started = FALSE /\ qerror = FALSE
  /\ registered = TRUE /\ open = FALSE
  /\ pc = [t \in Thread |-> IF t = "user" THEN "idle" ELSE "bound"]
  /\ tgt = [t \in Thread |-> "hdr"] /\ caller = "stop"
  /\ pure = TRUE /\ faults = 0 /\ nomem = 0

Usb == \/ \E u \in Urb : Packet(u) \/ TransferError(u) \/ Cancelled(u)
       \/ CutFrame

Next == Usb \/ Handler \/ UserStep \/ UserCall \/ DisconnectBegin \/ DiscStep
        \/ Detached

Spec == Init /\ [][Next]_vars

(***************************************************************************)
(* The device keeps sending and the host controller keeps completing; a    *)
(* handler and a thread that is inside the driver keep running.  Nothing   *)
(* makes the user call or the device go away.                              *)
(***************************************************************************)
Fairness ==
  /\ WF_vars(\E u \in Urb : Packet(u))
  /\ WF_vars(\E u \in Urb : Cancelled(u))
  /\ WF_vars(Handler)
  /\ WF_vars(UserStep)
  /\ WF_vars(DiscStep)

FairSpec == Spec /\ Fairness

-----------------------------------------------------------------------------
(***************************************************************************)
(* Properties.                                                             *)
(***************************************************************************)

BufState == {"dequeued", "queued", "active", "done", "error"}
Label == {"idle", "get", "start", "submit", "unget", "stop", "poison", "wait",
          "reap", "return", "cancel", "bound", "flag", "error", "unregister",
          "gone"}
HandlerLabel == {"idle", "enter", "submit", "failed", "deliver", "next"}

\* The types of the variables.
TypeOK ==
  /\ epOn \in BOOLEAN /\ reject \in [Urb -> Int]
  /\ queued \subseteq Urb /\ unlinked \subseteq queued
  /\ got \in Nat /\ kind \in Kind /\ pos \in Nat
  /\ hurb \in Urb \cup {NoUrb}
  /\ hpc \in HandlerLabel
  /\ hstat \in {"ok", "error", "dead"}
  /\ hdrKind \in Kind \cup {"image"} /\ hbuf \in Buf \cup {NoBuf}
  /\ cur_buf \in Buf \cup {NoBuf} /\ buf_list \in Seq(Buf)
  /\ drain_remaining \in Nat /\ disconnected \in BOOLEAN /\ pipeRef \in BOOLEAN
  /\ bst \in [Buf -> BufState]
  /\ queuedList \in Seq(Buf)
  /\ streaming \in BOOLEAN /\ started \in BOOLEAN /\ qerror \in BOOLEAN
  /\ registered \in BOOLEAN /\ open \in BOOLEAN
  /\ pc \in [Thread -> Label]
  /\ tgt \in [Thread -> Urb] /\ caller \in {"start", "stop"}
  /\ pure \in BOOLEAN /\ faults \in Nat /\ nomem \in Nat

\* "All three share one endpoint, so only one of them is in flight at any time
\* and their completions are serialised" (struct sur40_state): no URB is queued
\* while another one is, nor while a handler is still running, however starts,
\* stops, errors and the disconnect interleave.
OneTransfer ==
  /\ Cardinality(queued) <= 1
  /\ hpc # "idle" => queued = {}

\* A buffer that vb2 believes to be with the driver is in exactly one place of
\* it (the list, cur_buf, a handler's variable), and the driver keeps none that
\* it has given back: no buffer leaks, is completed twice or is used after
\* vb2_buffer_done, whichever path completes it.
Owned == Range(buf_list) \cup ({cur_buf, hbuf} \ {NoBuf})
BufferOwnership ==
  /\ {b \in Buf : bst[b] = "active"} = Owned
  /\ IsInjective(buf_list)
  /\ Range(buf_list) \cap {cur_buf, hbuf} = {}
  /\ cur_buf # NoBuf /\ hbuf # NoBuf => hpc = "failed" /\ cur_buf = hbuf

\* While the host controller may write into the frame URB's memory, or its
\* handler is about to complete it, cur_buf is the buffer of that memory and
\* still belongs to the driver: the WARN_ON of sur40_video_frame_complete never
\* fires and no frame is written into a buffer that user space has back.
FrameHasBuffer ==
  "frame" \in queued \/ (hurb = "frame" /\ hpc = "enter" /\ hstat # "dead")
    => cur_buf # NoBuf /\ bst[cur_buf] = "active"

\* Only a complete frame is delivered as VB2_BUF_STATE_DONE: all of the image
\* that follows a header of the negotiated size, from its first byte, not parts
\* of two frames, whatever was lost or cut short before.
WholeFrames ==
  [][\A b \in Buf : bst[b] # "done" /\ bst'[b] = "done"
                      => pure /\ got = SizeImage]_vars

\* "This waits for a running completion handler" (sur40_stop_streaming): while
\* the buffers are taken back, and from then on until the next start, no URB of
\* the endpoint is queued and no handler runs; also after a start that failed.
Stopped == pc["user"] \in {"reap", "return", "cancel", "unget", "get", "start"}
           \/ (Idle /\ ~started)
Quiet == Stopped => queued = {} /\ hpc = "idle"

\* "Kill everything that is in flight first" (sur40_disconnect): once the flag
\* is set nothing is queued and no handler runs, and no later start, however
\* often the application tries, puts an URB on the endpoint.
Killed == disconnected => queued = {} /\ hpc = "idle"

\* As long as no submission has failed for lack of memory, the pipeline never
\* stalls: when streaming is on there is a transfer or a handler that will
\* submit one, after every error, cut frame, odd header or lack of buffers.
NeverStalls ==
  started /\ Idle /\ pc["disc"] = "bound" /\ nomem = 0
    => queued # {} \/ hpc # "idle"

\* "The URBs stay poisoned until they are freed in sur40_release"
\* (sur40_disconnect).
StayPoisoned == disconnected => \A u \in Urb : reject[u] > 0

\* Every VIDIOC_STREAMON, STREAMOFF and close that is inside the driver returns,
\* and a disconnect that has begun completes: no wait for a handler that another
\* handler keeps busy, and no wait of the two threads for each other.
CallsReturn == /\ ~Idle ~> Idle
               /\ pc["disc"] # "bound" ~> pc["disc"] = "gone"

\* A buffer that the driver owns comes back, filled or with an error, provided
\* the device stays and no submission fails: the pipeline finds the next frame
\* boundary after any fault.
BuffersComeBack ==
  \A b \in Buf : bst[b] = "active" ~> bst[b] # "active" \/ pc["disc"] # "bound"

\* The driver keeps a capture driver's contract with vb2: buffers come back in
\* the order in which they were queued, a failed start leaves them queued, and
\* it owns none when vb2 cancels the queue.
Fifo == (IF hpc \in {"submit", "failed", "deliver"} THEN <<hbuf>>
         ELSE IF cur_buf # NoBuf THEN <<cur_buf>> ELSE <<>>) \o buf_list
CQ == INSTANCE CaptureQueue WITH state <- bst, pending <- queuedList,
                                 fifo <- Fifo, running <- started
ImplementsCaptureQueue == CQ!Spec
=============================================================================
