----------------------------- MODULE Sur40Formats -----------------------------
(***************************************************************************)
(* Formats and buffers of the video node (kernel/sur40.c), on top of the   *)
(* life of Sur40Device: an application walks the enumerations, sets a      *)
(* format, allocates buffers of the format's size, more or larger ones     *)
(* later, and streams.  The videobuf2 core is external: it gives a stream  *)
(* one owner and frees the buffers when the owner or the last handle goes. *)
(***************************************************************************)
EXTENDS Sur40Device

CONSTANTS MaxPlane,  \* bound: size of a buffer's plane
          NoFormat   \* an error, or no format

VARIABLES videoNode, \* parameter of the module, fixed when it is loaded
          pixFmt,    \* the format
          planes,    \* sizes of the allocated buffers' planes
          payloads,  \* sizes set in the buffers that are queued
          agreed     \* history: the format when the buffers were allocated
formatVars == <<videoNode, pixFmt, planes, payloads, agreed>>
allVars == <<vars, formatVars>>

\* The two formats have one layout: an image of 2 units and its width and height.
Format(name) == [pixelformat |-> name, width |-> 2, height |-> 1, sizeimage |-> 2]
sur40_pix_format == << Format("GREY"), Format("TU08") >>
PixelFormat == {"GREY", "TU08", "other"}

\* A request for anything else gets the default of the mode.
FindFormat(pixelformat) ==
  sur40_pix_format[CASE pixelformat = "GREY" -> 1 [] pixelformat = "TU08" -> 2
                     [] OTHER -> IF videoNode THEN 1 ELSE 2]
TryFmt(pixelformat) == FindFormat(pixelformat)

\* The default of the mode comes first.
EnumFmt(index) == IF index >= 2 THEN NoFormat
                  ELSE sur40_pix_format[IF videoNode THEN index + 1 ELSE 2 - index].pixelformat
EnumFramesizes(index, pixelformat) ==
  IF index # 0 \/ pixelformat \notin {"GREY", "TU08"} THEN NoFormat
  ELSE <<pixFmt.width, pixFmt.height>>
EnumFrameintervals(index, pixelformat, size) ==
  IF index > 0 \/ pixelformat \notin {"GREY", "TU08"} \/ size # <<pixFmt.width, pixFmt.height>>
  THEN NoFormat ELSE <<1, 60>>
\* G_PARM and S_PARM give the same answer.
Parm == [timeperframe |-> <<1, 60>>, readbuffers |-> 3]

-----------------------------------------------------------------------------
Usable == node = "registered" /\ files > 0
DeviceIdle == UNCHANGED vars

\* Mutant of SFmt: buffers do not keep it from changing.
SFmtBusy(pixelformat) == /\ Usable /\ pixFmt' = FindFormat(pixelformat)
                         /\ UNCHANGED <<videoNode, planes, payloads, agreed>> /\ DeviceIdle
SFmt(pixelformat) == /\ Usable /\ planes = {}
                     /\ pixFmt' = FindFormat(pixelformat)
                     /\ UNCHANGED <<videoNode, planes, payloads, agreed>> /\ DeviceIdle

\* sur40_queue_setup: the size for REQBUFS, a check for CREATE_BUFS.
QueueSetup(requested) == IF requested = 0 THEN pixFmt.sizeimage
                         ELSE IF requested < pixFmt.sizeimage THEN 0 ELSE requested
Allocate(requested) ==
  /\ Usable /\ (requested = 0 => planes = {}) /\ QueueSetup(requested) > 0
  /\ planes' = planes \cup {QueueSetup(requested)}
  /\ agreed' = IF planes = {} THEN pixFmt ELSE agreed
  /\ UNCHANGED <<videoNode, pixFmt, payloads>> /\ DeviceIdle

\* sur40_buffer_prepare, for own memory or for a plane that is imported (DMABUF).
BufferPrepare(size) ==
  /\ Usable /\ planes # {} /\ size >= pixFmt.sizeimage
  /\ payloads' = payloads \cup {<<pixFmt.sizeimage, size>>}
  /\ UNCHANGED <<videoNode, pixFmt, planes, agreed>> /\ DeviceIdle

FreeBuffers == planes' = {} /\ payloads' = {} /\ agreed' = NoFormat
Keep == UNCHANGED formatVars
ReqBufsNone == /\ Usable /\ planes # {} /\ ~streaming
               /\ FreeBuffers /\ UNCHANGED <<videoNode, pixFmt>> /\ DeviceIdle
StreamOnBuffers == planes # {} /\ StreamOn /\ Keep
\* Buffers that are queued go back to user space.
StreamOffBuffers == StreamOff /\ payloads' = {} /\ UNCHANGED <<videoNode, pixFmt, planes, agreed>>
\* The handle that is closed owned the buffers, or another one does.
CloseVideoBuffers ==
  /\ CloseVideo /\ UNCHANGED <<videoNode, pixFmt>>
  /\ \/ ~streaming' /\ FreeBuffers
     \/ files' > 0 /\ streaming' = streaming /\ UNCHANGED <<planes, payloads, agreed>>

\* Probe starts with the default format, before there is a node.
InitQueueFormat == /\ InitQueue /\ UNCHANGED <<videoNode, planes, payloads, agreed>>
                   /\ pixFmt' = IF pc' = "controls" THEN FindFormat("none") ELSE pixFmt

FormatInit == /\ Init /\ videoNode \in BOOLEAN
              /\ pixFmt = NoFormat /\ planes = {} /\ payloads = {} /\ agreed = NoFormat
FormatNext ==
  \/ \E p \in PixelFormat : SFmt(p)
  \/ \E n \in 0..MaxPlane : Allocate(n)
  \/ \E n \in 1..MaxPlane : BufferPrepare(n)
  \/ ReqBufsNone \/ StreamOnBuffers \/ StreamOffBuffers \/ CloseVideoBuffers \/ InitQueueFormat
  \/ (Next /\ ~StreamOn /\ ~StreamOff /\ ~CloseVideo /\ ~InitQueue /\ Keep)
FormatSpec == FormatInit /\ [][FormatNext]_allVars

-----------------------------------------------------------------------------
(***************************************************************************)
(* What applications rely on.  Formats are enumerated once each, TRY_FMT   *)
(* takes every one unchanged, its frame size and interval can be found and *)
(* agree with G_PARM, and what is unknown gets the first one, which is     *)
(* also the format of a fresh device.  As long as there are buffers the    *)
(* format stays the one they were made for, and a queued one holds a frame.*)
(***************************************************************************)
FormatAgreed == pixFmt # NoFormat =>
  /\ \A i \in 0..1 : LET p == EnumFmt(i)
                         size == EnumFramesizes(0, p) IN
       /\ TryFmt(p).pixelformat = p
       /\ size = <<TryFmt(p).width, TryFmt(p).height>>
       /\ EnumFrameintervals(0, p, size) = Parm.timeperframe
  /\ EnumFmt(0) # EnumFmt(1) /\ EnumFmt(2) = NoFormat
  /\ TryFmt("other").pixelformat = EnumFmt(0)
  /\ pc = "controls" => pixFmt.pixelformat = EnumFmt(0)
  /\ planes # {} => agreed = pixFmt
  /\ \A q \in payloads : q[1] = pixFmt.sizeimage /\ q[1] <= q[2]
=============================================================================
