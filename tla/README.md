# A TLA+ model of SUR40

SUR40 is the software around the Microsoft PixelSense / Samsung SUR40 table: a
Linux kernel driver for its touch and video streams (`kernel/sur40.c`), a user
space driver and tools on libusb (`userspace/`), and a daemon that publishes the
contacts as TUIO messages (`tuio/`).  This directory holds TLA+ modules of its
parts, TLC configurations that check them on small instances, and TLAPS proofs.

- [Inventory](#inventory)
- [Plan](#plan)
- [The video pipeline](#the-video-pipeline)
- [Touch scans](#touch-scans)
- [The users of the touch pipeline](#the-users-of-the-touch-pipeline)
- [The life of the driver's state, controls and formats](#the-life-of-the-drivers-state-controls-and-formats)
- [The user space driver and its programs](#the-user-space-driver-and-its-programs)
- [From the table to a TUIO receiver](#from-the-table-to-a-tuio-receiver)
- [Senders](#senders)
- [OSC](#osc)
- [Runs and bounds](#runs-and-bounds)
- [Fairness](#fairness)
- [Proofs](#proofs)
- [What is not modelled](#what-is-not-modelled)

Run a check with `tlc -config video_safety.cfg MCVideo`, a proof with
`tlapm Sur40VideoProof.tla`.

## Inventory

### Kernel driver (`kernel/sur40.c`)

| part | state | operations | hard behaviour | what makes it correct |
|---|---|---|---|---|
| video pipeline | three URBs with poison counts, `cur_buf`, `buf_list`, `drain_remaining`, `disconnected`; vb2's buffer states | three completion handlers, `sur40_start_streaming`, `sur40_stop_streaming`, `sur40_buffer_queue`, `sur40_disconnect` | handlers in interrupt context beside two sleeping threads; each handler submits another handler's URB; recovery of the frame boundary after any fault; failed submissions; disconnect during a start or stop | one transfer at a time; each buffer in one place and returned once, in order; no DMA into a returned buffer; only whole images delivered; silence after a stop; calls return; the stream recovers |
| touch pipeline | `touch_urbs`, `need_blobs`, the slots of the input device | `sur40_touch_complete`, `sur40_report_blob`, `sur40_touch_start`, `sur40_touch_stop` | a scan is spread over packets, and packets are lost or fail; URBs complete while being stopped | no scan mixes contacts of two frames; the input state equals the device's last whole scan; no handler runs after a stop |
| pipeline users | `users`, `pipe_lock` | `sur40_pipeline_get/put` from `sur40_open/close` and from streaming | two callers under different locks; a start that fails half way; the disconnect | the touch URBs run exactly while somebody uses them; counts never go below 0 |
| lifetime | references of `v4l2_device`, the USB device and interface; URBs | `sur40_probe` with its unwinding, `sur40_disconnect`, `sur40_video_device_release`, `sur40_release` | an error at each step of the probe; files that stay open after the disconnect | everything acquired is released once; nothing is used after it is freed |
| controls | `vsvideo`, the control values | `sur40_s_ctrl`, `sur40_set_vsvideo`, `sur40_set_irlevel`, `sur40_set_preprocessor`, `sur40_poke` | a sequence of control transfers where one fails | device registers agree with the control values |
| formats | `pix_fmt` | `sur40_vidioc_*_fmt`, `sur40_queue_setup`, `sur40_buffer_prepare` | a format change while buffers are allocated | `sizeimage` fits the queued buffers |

The threads meet in `struct sur40_state`.  The input core calls `sur40_open` and
`sur40_close`; the V4L2 core and vb2 call the queue operations with
`queue.lock` held; the USB core calls the completion handlers, `sur40_probe` and
`sur40_disconnect`.

### User space driver and tools (`userspace/`)

| part | state | operations | hard behaviour | what makes it correct |
|---|---|---|---|---|
| blobs (`surface.cpp`) | `max_blob_id`, the contact list of the caller | `surface_get_blobs` | packets of one scan with other scans between them; a transfer that fails half way | enter, update and exit events agree with the device's contacts |
| images (`surface.cpp`) | position in the image | `surface_get_image` | a header out of step | an image is whole |
| control (`surface.cpp`) | device registers, calibration in flash | `surface_init`, `surface_poke`, `surface_read_calib`, `surface_write_calib` | a sequence of transfers where one fails | the calibration read back is the one written |
| tools (`calib.cpp`, `view.cpp`, `test.cpp`, `calibvis.c`) | the calibration run's averages | the main loops | none that is concurrent | |

### TUIO daemon (`tuio/`)

| part | state | operations | hard behaviour | what makes it correct |
|---|---|---|---|---|
| daemon (`Sur40_TUIO.cpp`) | blobs of this and the last scan | the run loop | contacts that come and go between two scans; identifiers set after listeners were told | the TUIO cursors are the device's contacts |
| `TuioManager` | cursors, objects, blobs, the lists of free and used identifiers, `sessionID`, `maxCursorID` | add, update, remove, `initFrame`, `stopUntouchedMoving...` | a long sequence of adds and removals | no identifier is used twice, none is lost |
| `TuioServer` | the alive and set messages of a bundle | `commitFrame`, `sendFullMessages` | a bundle that does not fit a packet; lost packets | a receiver that gets the messages knows the contacts |
| `TcpSender`, `WebSockSender` | the client list, the server thread | `ServerThreadFunc`, `sendOscPacket`, handshake, the destructor | a thread that accepts while another sends; a client that closes | frames go to connected clients only, after the handshake; the destructor returns |
| `FlashSender`, `UdpSender` | shared memory, a socket | `sendOscPacket` | two processes that share a buffer | a reader sees whole messages |
| OSC (`oscpack`) | the stream's size stack, the element pointers | begin/end of bundles and messages, iteration | nested bundles, lengths at the end of the buffer | what is written is read back |

`Sur40_TUIO` calls `surface_get_blobs`, feeds the contacts to a `TuioServer`
(which is a `TuioManager`), and `commitFrame` writes an OSC bundle and hands it
to the senders.

## Plan

Done, in this order:

1. **`Sur40Video`**, the video pipeline with its two threads, the abstract
   **`CaptureQueue`** it implements, **`MCVideo`** and **`Sur40VideoProof`**.
2. **`Sur40Touch`**, framing of touch scans and the slots of the input device,
   and **`Sur40Pipe`**, the users of the touch pipeline, its URBs and the
   disconnect; **`Sur40TouchProof`** and **`Sur40PipeProof`**.
3. **`TuioManager`** < **`TuioServer`** < **`Sur40Tuio`** (< means: is extended
   by), from the touch endpoint through the daemon to a receiver; beside it
   **`TuioSource`**, any other application of `TuioServer`; **`Packing`**, the cutting
   of a bundle; **`TuioContainer`** and **`TuioTime`**, the memory and the clock of
   contacts; **`TuioProof`**.
4. **`TcpSender`**, **`WebSocketCodec`**, **`FlashSender`**; **`TcpSenderProof`**.
5. **`OscStream`** < **`OscMessage`** < **`OscPacket`**, writing of packets, reading of
   messages and of bundles, and **`SocketMultiplexer`** < **`SocketMultiplexerWin32`**,
   the receiving loop; **`OscProof`** of both.
6. **`Sur40Device`** < **`Sur40Formats`**, probe, release, controls, formats, and
   **`Surface`** < **`SurfaceTools`**, the library on libusb and its programs;
   **`DeviceProof`** of both.

**`DataLemmas`** has what the proofs share about sequences, sets and recursive functions.

`OscPacket` is apart from `OscMessage` because it reads bundles in bundles with RECURSIVE
operators, which the prover cannot have in reach.

## The video pipeline

`Sur40Video` has one action per handler, ioctl and step of a thread.

| variables | code |
|---|---|
| `queued`, `unlinked`, `reject`, `epOn`, `got` | the USB core's state of `video_hdr_urb`, `video_frame_urb`, `video_drain_urb`: submitted, being cancelled, `urb->reject`, endpoint enabled, `urb->actual_length` |
| `kind`, `pos` | the device: the frame it sends and the next packet of it |
| `hurb`, `hpc`, `hstat`, `hdrKind`, `hbuf` | the completion handler that runs: its URB, its program counter, `urb->status`, the packet its buffer ends with, its local `buf` |
| `cur_buf`, `buf_list`, `drain_remaining`, `disconnected` | the fields of `struct sur40_state` |
| `pipeRef` | streaming holds a reference from `sur40_pipeline_get` |
| `bst`, `queuedList`, `streaming`, `started`, `qerror` | vb2: buffer states, the buffers not yet with the driver, `q->streaming`, `q->start_streaming_called`, `q->error` |
| `registered`, `open` | the video node |
| `pc`, `tgt`, `caller` | where the two threads are, which URB they poison, who called `sur40_video_stop` |
| `pure` | history: what the frame transfer received so far is the image that followed the header |

*Handlers.*  `HdrComplete`, `DrainComplete` and `FrameComplete` are the three
completion handlers; each of their early returns is a disjunct.  A handler runs
in steps where another thread can see it between them: `HandleHeader` pops a
buffer, `FrameSubmit` stores it in `cur_buf` and submits, `FrameSubmitFailed` is
the error path; `FrameComplete` takes `cur_buf`, `FrameDeliver` calls
`vb2_buffer_done`, `FrameNext` resubmits.  The USB core runs the handlers of one
endpoint one at a time, so there is at most one.

*Threads.*  `user` is the process that holds `queue.lock`.  `QBuf`, `DQBuf`,
`StreamOn`, `StreamOff`, `Open`, `Close` are its calls as vb2 carries them out;
`PipelineGet`, `VideoStart`, `VideoStartSubmit`, `StartUnget` are
`sur40_start_streaming`, `VideoStop` to `StopReturnAll` are
`sur40_stop_streaming`.  `disc` is `sur40_disconnect`.  Both poison the URBs with
`Poison` and `PoisonWait`, where a poison that waits lets everybody else run.

*USB core, device and vb2* are external and modelled from how the driver uses
them.  `Packet` delivers one packet: a short one or a full buffer ends the
transfer, one that does not fit is an error.  `TransferError` fails a transfer,
with or without the loss of a packet, `CutFrame` drops the rest of a frame, and a
frame may be of another size or carry no valid header.  Lengths are abstract;
`SizesAssumption` states what the driver relies on (a header is a short packet, a
drain transfer is a whole number of packets).

### Properties

| property | says | mutant that breaks it |
|---|---|---|
| `OneTransfer` | one URB in flight, none while a handler runs | stop forgets the drain URB |
| `BufferOwnership` | a buffer vb2 gave to the driver is in exactly one place of it, and no other buffer is | `cur_buf` kept after a failed submission |
| `FrameHasBuffer` | the frame URB's memory is a buffer the driver owns | a cancel that does not wait |
| `WholeFrames` | only whole images of the right frame are delivered as done | the length is not compared |
| `Quiet` | nothing in flight while buffers are taken back and while streaming is off | a cancel that does not wait for the handler |
| `Killed` | nothing in flight once `disconnected` is set | a cancel that does not refuse submissions |
| `NeverStalls` | while streaming, some URB is queued or a handler is about to queue one | every error status taken as final |
| `CallsReturn` | start, stop and disconnect return | handlers can resubmit while they are waited for |
| `BuffersComeBack` | each buffer comes back while the device stays | the resync test without the header's offset |
| `ImplementsCaptureQueue` | the driver is a `CaptureQueue`: buffers return in order, a failed start leaves them queued, nothing is owned when vb2 cancels | `list_add` for `list_add_tail` |

`CaptureQueue` knows buffers only: `state` as vb2 sees them, those `pending` in
vb2, the `fifo` that the driver owns.  The mapping takes the buffer in a handler's
hands or in `cur_buf`, then `buf_list`, for the fifo.

`StayPoisoned` is what a comment in `sur40_disconnect` says and does not hold:
the URBs are unpoisoned by a start that runs while the device goes away.  The run
`video_poison` shows it.  It does no harm, as `Killed` holds all the same: the USB
core has disabled the endpoint before it calls `sur40_disconnect`.

## Touch scans

`Sur40Touch` models what `sur40_touch_complete` makes of packets.  `scan` is the
device's list of blobs and `sent` the packets of it that have left; `need_blobs`
is the driver's field; `slots` are those of the input device, `shown` the contacts
it reported at the last sync.  `TouchPacket` is the whole handler for a packet,
`TouchError` its two early exits, `LosePacket` a packet that never reaches it.  A
stop can fall into the middle of a scan, and the device goes on unread meanwhile.

| property | says | mutant that breaks it |
|---|---|---|
| `WholeScans` | a scan that begins in step ends a frame with its last packet, and the input device then shows exactly its touches | a frame ends while one blob is still to come |
| `ErrorsCostTwoScans` | an error or a restart costs the scan it hits, and the next one only if it hits a scan's last packet | `need_blobs` not reset on an error |
| `Realigns` | whatever was lost, the driver gets in step and stays so | `need_blobs` left at 0 after a frame |

What the code does not promise, and the model shows in passing: after a fault one
frame can show contacts of two scans, because the slots that a broken scan used
count as used at the next sync; and a packet lost without an error can cost more
than two scans, because only counting down finds the boundary again.

## The users of the touch pipeline

`Sur40Pipe` models `users` and `pipe_lock`.  A call of a user enters with `Enter`
(the lock is free: a shared get, the first get, a put) and goes on with `Step`
(the device's initialisation, unpoisoning, the loop of submissions, the loop of
poisoning).  Steps that only change `users` under the lock are one action.  The
URBs complete in the order of the queue, or out of it when cancelled.  The
disconnect unregisters the video node, then the input device, which closes it on
behalf of the process that had it open.

| property | says | mutant that breaks it |
|---|---|---|
| `Balanced` | with the lock free, `users` counts the holders and the URBs are poisoned once or not at all | a failed start stops nothing |
| `TouchQuiet` | without users, and after the disconnect's flag, no URB is queued and no handler runs | a cancel that does not wait |
| `KeptQueued` | with users, every URB is queued or in its handler | the loop of starts ends too early |
| `CallsReturn` | calls and the disconnect return | handlers can resubmit while they are waited for |

## The life of the driver's state, controls and formats

`Sur40Device` has one action for each step of `sur40_probe`, each of which may fail
and jumps to its label, for the steps of `sur40_disconnect`, and for users that open,
stream and close at any time: the input device is registered early in the probe.
`held` counts what has been acquired (the state, URBs, references, the control
handler, the V4L2 device), `files`, `inputOpen` and `users` who is there, `node` the
video node, `panel` the registers behind the controls.  `Sur40Formats` adds the format,
the buffers' planes and both modes of the node.

| property | says | mutant that breaks it |
|---|---|---|
| `AllGivenBack` | nothing is freed twice, and nothing is left after a probe that failed or the last close | the unwinding keeps the input device's pointer |
| `NotFreedInUse` | what an open handle or a running URB may touch is not freed | the node is released with the disconnect |
| `PanelFollows` | registers say what the controls say, unless their last poke failed | the second control of a byte is taken from the last success |
| `FormatAgreed` | allocated buffers fit the format, also when it is set while they are there | the format changes while buffers exist |

Controls keep their value when a poke fails, and the V4L2 core does not call the driver
for a value that does not change: such a register (`Unknown`) stays wrong until
another value is set.

## The user space driver and its programs

`Surface` models `surface.cpp` as one transfer after the other: a call is a script of
control transfers (`todo`) or a loop that reads an image, FPGA memory or flash.  The device
is external: module registers, the panel's registers behind a window of index and offset,
frames that are sent in the size chosen when they begin.  Any transfer may fail.  What
`libusb_bulk_transfer` returns is never looked at: such a failure counts what came, or what
the transfer before it brought once more, so that a call may return an image with holes as if
it had worked; the history variable `torn` marks it.  `SurfaceTools` adds the programs, a key
being a plan of calls.

| property | says | mutant that breaks it |
|---|---|---|
| `CallsWork` | a call none of whose own transfers failed, control or bulk, is whole whatever an earlier one left behind: it wrote its registers and no other, and if it reports success it has the image, page or blocks it was asked for | a flash read does not wait for the end of the transfer |
| `ImagesComeBack` | a program that shows images gets a whole one again and again, after every change of mode and after an image with holes | calibration ends without switching back |

`RowsKept`, an assumption of `MCSurface`, checks that the interleaving of calibration rows
is undone for every position.

What the model shows beside that: a failed write of the panel's window makes the next one
go to the register before (the kernel's `sur40_poke` stops instead).  A call whose bulk
transfer failed may report success for torn data: `CallsWork` claims nothing of it, because
nothing in the code does.  A block that is lost, or a request for blocks that was not heard,
leaves `surface_read_ddr` waiting for data that never come (`ReadDdrTimeout`), and a device
that is gone keeps the loops at `surface.cpp:316`, `:332` and `:425` running; for this reason
`ImagesComeBack` speaks of programs that met failures of video transfers only.
`surface_get_image` counts the bytes that follow a header as part of the image and moves them
inside its own buffer, not into the image; the device sends the header packet alone, and only
a transfer that fails takes more.  A program that quits in
calibration mode leaves the device in it, and no later start resets `INIT1`.

## From the table to a TUIO receiver

`TuioManager` holds the contacts of three kinds; `live` are its lists, `motion` the states
of `TuioContainer`, `id`, `max` and `free` the identifiers of cursors and blobs.  Every
public method that changes anything is an action; loops that remove (`removeUntouched...`,
`reset...`) remove one contact in each step.  `TuioServer` adds what a frame sends: sizes of
messages in bytes, the cutting of a bundle (`Packets`, by `Packing`), the empty bundles, and an
external receiver (`shown`, `placed`) that may miss packets.  `Sur40Tuio` composes it with
`surface_get_blobs`, the device's scans and the daemon's loop, packet by packet and call by
call, up to the signal and the destructor; `TuioSource` with an application that calls in any
order, sets the options, and sends everything at once.

| property | run | says | mutant that breaks it |
|---|---|---|---|
| `Identifiers` | `manager` | identifiers are unique, free ones are nobody's; while no external removal lost one, used and free ones are `0..max` and `max` is used | a new identifier is the number of contacts |
| `PacketsFit` | `manager` | no packet outgrows the transport | the room kept is for the set message only |
| `PutRight` | `manager` | once a bundle came whole the receiver shows the contacts that are there, and where they are if it is a full one | a full update stops at the first packet |
| `ReceiverInStep` | `daemon` | after a frame the receiver shows the contacts where they are, but for profiles with a lost packet | only moving contacts are sent |
| `EndsEmpty` | `daemon` | after the end the receiver shows nothing | empty bundles for kinds with contacts only |
| `ContactsAgree` | `daemon` | cursors are the touches of the scan; a tag goes within two frames | stopping a contact counts as touching it |
| `ScansWhole` | `daemon` | a call that begins between scans returns one whole scan | the count of blobs ends early |
| `Ends` | `daemon` | after a signal the daemon ends | the call repeats a failed transfer |

`TuioContainer` is the memory of contacts: the path, the pointer to its last but one
point, and the filters, through construction, copies, assignments and updates.
`OwnMemory` and `CopiesAlike`, assumptions of `MCManager`, say that two contacts never
share anything, nothing is lost or deleted twice, and a copy's pointer is into its own
list, after any six calls.  `ThrowLeavesDangling` shows the exception: `add...Filter`
deletes the old filter before it makes the new one, whose constructor throws for
parameters of zero.  `TuioTime` is the arithmetic of time; `TimesAddUp` and `MicrosAddUp`
check it, and that a sum with microseconds is not carried.

`PacketsFit` depends on `AliveFits`: the list of all contacts of a kind is one message, which
is not cut.  With the 1500 bytes of `IP_MTU_SIZE` (`UdpSender.h:25`) it holds up to about 265
cursors; with more the stream throws.

What else the models show: a contact that moves at a constant speed has the state
STOPPED, which is why untouched contacts may be removed while they were moving;
a removed external contact takes its identifier with it; the last bundle that is lost
leaves a ghost at the receiver, as nothing follows; a failed read is a frame without
contacts, which removes all; with few options a position whose set message was lost
stays wrong until the contact moves, and `full_update` or `sendFullMessages` puts it right; a
signal before the loop has begun is overwritten.

## Senders

`TcpSender` has the server thread, a thread for each client, and the thread that sends and
destroys, with `tcp_client_list`, `tcp_socket` and `connected`.  Steps under the mutex
are one action, but `sendOscPacket` holds it over several.  A socket is a number that is used
again.  A WebSocket sender adds the handshake, and the time before and after its
constructor and destructor, when the virtual call goes to the base class.

| property | says | mutant that breaks it |
|---|---|---|
| `OwnSockets` | a number in the list or in a thread's hands is the connection it was accepted for | the socket is closed before it leaves the list |
| `ConnectedIffClients` | the flag agrees with the list, except while the first client is being added | the flag falls with any client |
| `WholePackets` | every byte a client gets is the next of its packet, or the first of a later packet after a whole one | what `send` did not take is not sent again |
| `NoUseAfterDestroy` | no thread uses the sender after its destructor | only clients that were shut down are waited for |
| `DestructorReturns` | the destructor returns though no client reads, answers or ends, unless one that had just been accepted stays: then it waits for that one alone | the listening socket is closed without a shutdown |

`WholePackets` lets a client miss packets, because the code does: `sendOscPacket` looks at
`connected` before it takes the mutex, and `ServerThreadFunc` raises the flag after it has
released it (`TcpSender.cpp:120`), so that a client that is on the list may or may not get
the packets that are sent meanwhile, one and not the next included.

`WebSocketCodec` are frame headers, SHA-1 and base64; `MCTcp` checks by assumptions that
every header reads back, frames are whole or the connection is shut down, base64 keeps every bit,
digests at the borders of the padding and the accept key are the known ones.
`FlashSender` opens a connection and writes its messages: a connect that fails gives back
what it has (`ConnectsWholly`), integers and messages read back, the tick count adds up.

`DestructorReturns` is as strong as the code allows.  The comment at `TcpSender.cpp:349` says
that all sockets are shut down to unblock the threads; a client that the server thread has
accepted but not yet put on the list when the destructor goes through it is not, and the loop
at `:395` then polls until that client ends of its own accord.  The property says that nothing
else can keep the destructor.  `OneLeftOpen`, in `TcpSenderProof`, is its safe half for any
number of clients: at most one connection is left without a shutdown.

Also seen: frames may come before or inside the 101 response; a silent client keeps the server
thread in its handshake until the destructor shuts it down.  Of
the Flash connection: a packet of more than 40879 bytes with the default names reaches the
list of listeners behind the message (`ListenersNotOverwritten`), a name of full length runs into
the method's, a name that begins like the sender's counts as it, and on Windows a try that
fails late loses its handles to the next one.

## OSC

`OscStream` is the buffer byte by byte, since what is at stake is which bytes overwrite
which: arguments grow up, type tags down from the end, and the end of a message moves both.
`OscMessage` reads a message the way the library does, with a pass that checks it and one
that takes the arguments, and `OscPacket` a packet of bundles in bundles.
`SocketMultiplexer` is the loop around `select` with its break pipe, timers and
listeners; `SocketMultiplexerWin32` the same with events, side by side with it.

| property | run | says | mutant that breaks it |
|---|---|---|---|
| `InBuffer` | `osc` | the stream never outgrows its buffer | the check forgets the tag |
| `SlotsNest` | proof | the pointer to the size slot is back at the innermost open element, however they nest | |
| `MessageRead` | proof | a message that ends is well formed and read as it was written | |
| `RoundTrip` | `osc` | what is read of a whole packet is what was written, by element and by type | tags are taken after the arguments were moved over them |
| `NoLostWakeup` | proof | a loop that waits with the flag set is about to be woken | |
| `NoneOverlooked` | `mux` | on Windows a datagram that has come has its event set or is read in this pass | the pass begins behind the socket whose event it was |
| `BreakReturns` | `mux` | a break that reaches a running loop ends it, wherever it is | the byte is written before the flag is set |

Three are marked "proof": they are theorems, and no run repeats them, as `RoundTrip` and
`BreakReturns` say more on the instances and the same mutants break those.

Also seen: a break by a packet listener still serves the first timer that has expired;
`AsynchronousBreak` before `Run` has cleared the flag is lost; a listener that throws leaves
the handler of `RunUntilSigInt` in place, and its next call meets an assertion.
`ComputeArrayItemCount` does not count the items of nested arrays, although its comment says so;
exceptions for the length of a blob are constructed and not thrown.

## Runs and bounds

| run | instance | shows |
|---|---|---|
| `video_safety` | 3 buffers, 2 needed to start; images of 2 packets and a tail; 2 faults, 1 failed submission | every safety property and the refinement; the types (`TypeOK`) are left to the proof |
| `video_live` | 2 buffers, 1 packet and a tail, 1 fault | the liveness properties under `Fairness` |
| `video_poison` | 2 buffers, no faults | the counterexample to `StayPoisoned` |
| `touch` | scans of up to 3 of 4 blobs, one of them a tag, one blob in a packet, 2 slots, 2 faults | framing, recovery |
| `pipe` | 3 URBs, 1 failed submission | counting, silence, that calls return |
| `device` | 2 handles, 2 values of each control, planes of 3 units; any step of the probe fails | nothing leaked or freed in use, panel and formats |
| `surface` | images of 2 packets, full frames of 4, transfers of 3; 2 pages of 2 blocks; 1 failed transfer, control or bulk | scripts, reads, images that come back |
| `manager` | 3 cursors, 2 objects, 2 blobs, one of each external; packets that are 4 bytes short of two set messages; 1 lost packet | identifiers, packets, full updates; time and memory of contacts |
| `daemon` | 2 touches and a tag, one blob in a packet; 1 fault or lost packet | the chain from the endpoint to a receiver |
| `tcp` | 2 clients, 2 packets of 2 bytes | threads and sockets; and WebSocket and Flash messages |
| `osc` | a buffer of 60 bytes, 4 elements, 3 arguments of 6 tags | nothing overwrites anything, what is written is read |
| `mux` | 2 sockets, 2 timers, a pipe of 2 bytes; both ports | a break ends the loop, and no datagram is overlooked |

`MaxFaults` bounds transfer errors, cut frames and odd headers: with two, one
strikes during the recovery from the other.  `MaxNoMem` bounds submissions that
fail for lack of memory.  `MaxUnderflow` bounds how far starts after a disconnect
lower the poison counts.  Three buffers let one be filled, one wait and one be
with the application; the start threshold of 2 keeps partly filled queues and a
start by `VIDIOC_QBUF` possible.  An image of 2 full packets and a tail lets a
drain transfer (2 packets) end inside an image, at its end, and behind it.

In `touch`, three packets give a scan a first, a middle and a last one; two slots
for three touches let slots run short; `MaxFaults` bounds errors, lost packets and
stops together.  In `pipe`, three URBs give each loop a middle; `MaxUnderflow` stops
calls that come after the disconnect from lowering the poison counts for ever.

In `device`, two handles keep one open while another closes.  In `surface`, an image
of two packets has a first and a last one, and a transfer of three ends inside a
full frame.  In `manager`, contacts of different kinds share nothing but the loop,
so that `Bound` looks at one kind at a time; once something was sent, contacts that
are external, turn or got a freed identifier add nothing to what a receiver sees,
and `Bound` leaves them out.  Three cursors leave a hole in the identifiers when the
middle one goes; a packet for one set message makes bundles that are cut.  In
`tcp`, the second client may get the socket number of the first.  In `osc`, a few
arguments fill the buffer, so that every operation meets its end.  In `mux`, two
timers expire together now and then, and two unread bytes are a pipe from an earlier
run.  `MaxId`, `MaxLoss`, `MaxBytes`, `MaxLate`, `MaxInbox` and `Tries` bound what could
grow for ever.

## Fairness

In `Sur40Video`, `Fairness` is weak: the device keeps sending while a transfer is active, the host
controller gives cancelled URBs back, handlers and threads inside the driver keep
running.  Nothing is assumed of the application or of when the device goes away.
`Sur40Touch` assumes only that the device sends.  `Sur40Pipe` assumes strong
fairness of taking `pipe_lock` and `input->mutex`, as a kernel mutex hands over to
the thread that waits longest, and of giving back a cancelled URB, as the host
controller works through a queue; everything else is weak.  `Sur40Tuio` assumes that the
daemon's thread runs and that a transfer comes or times out, as each has a timeout.
`TcpSender` assumes of the program's threads that they run, but for the waits the code does
not bound: `send()` to a client that does not read (no fairness of `SendPacket`), and a
handshake that does not come (`Waits`).  Nothing is assumed of the clients, which need
not read, answer or end, and accept() need not fail.
`SocketMultiplexer` assumes that the loop's thread runs and that a caller that has
set the flag goes on to write the byte.  `SurfaceTools` assumes that the program goes
on and the device answers with transfers that do not fail (`Answered`).

## Proofs

TLAPS proves the following for every value of the constants that satisfies the modules'
assumptions: any number of buffers, URBs, contacts, clients and handles, any sizes of packets and
images, and any number of faults, lost packets and failed submissions.  Each `...Inv` is an
inductive invariant; TLC checked each on the instance of its run before it was proved.

| module | theorem | states | from |
|---|---|---|---|
| `Sur40VideoProof` | `TypeCorrect` | `Spec => []TypeOK` | |
| | `OneTransferAlways`, `KilledAlways`, `QuietAlwaysWhenStopped` | `OneTransfer`, `Killed`, `Quiet` | `QuietInv` |
| | `FrameHasBufferAlways`, `OwnershipAlways` | `FrameHasBuffer`, `BufferOwnership` | `FlightInv`, `OwnInv` |
| | `NeverStallsAlways` | `NeverStalls` | `StallInv` |
| | `RefinesCaptureQueue` | `Spec => ImplementsCaptureQueue` | `FlightInv`, `OwnInv` |
| | `WholeFramesAlways` | the action property `WholeFrames` | `FlightInv`, `PureInv` |
| `Sur40TouchProof` | `TouchInvAlways`, `ErrorsCostTwoScansAlways` | `ErrorsCostTwoScans` | `TouchInv` |
| | `WholeScansAlways` | the action property `WholeScans` | `TouchInv` |
| `Sur40PipeProof` | `PipeInvAlways`, `BalancedAlways`, `TouchQuietAlways`, `KeptQueuedAlways` | `Balanced`, `TouchQuiet`, `KeptQueued` | `PipeInv` |
| `TuioProof` | `IdentifiersAlways`, `SourceIdentifiers` | `Identifiers`, of the manager alone and in an application | `IdInv` |
| | `SourceInvAlways`, `PutRightAlways`, `PacketsFitAlways` | `PutRight`, and `PacketsFit` if `AliveFits` | `SourceInv` |
| | `DaemonInvAlways`, `ReceiverInStepAlways`, `EndsEmptyAlways`, `ContactsAgreeAlways` | `ReceiverInStep`, `EndsEmpty`, `ContactsAgree` | `DaemonInv` |
| | `ScansWholeAlways` | the action property `ScansWhole` | `DaemonInv` |
| | `DaemonIdentifiers` | `Identifiers` in the daemon, where none is lost | `DaemonIds`, `DaemonInv` |
| `TcpSenderProof` | `TcpInvAlways`, `OwnSocketsAlways`, `ConnectedIffClientsAlways`, `WholePacketsAlways`, `NoUseAfterDestroyAlways` | `OwnSockets`, `ConnectedIffClients`, `WholePackets`, `NoUseAfterDestroy` | `TcpInv` |
| | `OneLeftOpenAlways` | `OneLeftOpen`: the destructor leaves one connection at most | `TcpInv`, `Served` |
| `OscProof` | `StreamInvAlways`, `InBufferAlways` | `InBuffer` | `StreamInv` |
| | `PacketInvAlways`, `SlotsNestAlways` | `SlotsNest` | `PacketInv` |
| | `MessageReadAlways` | the action property `MessageRead` | `PacketInv` |
| | `PortInvAlways`, `NoLostWakeupAlways`, `NoneOverlookedAlways` | `NoLostWakeup`, `NoneOverlooked`, for both ports | `PortInv` |
| `DeviceProof` | `DeviceInvAlways`, `AllGivenBackAlways`, `NotFreedInUseAlways`, `PanelFollowsAlways` | `AllGivenBack`, `NotFreedInUse`, `PanelFollows` | `DeviceInv` |
| | `FormatsKeepLife` | `FormatSpec => Spec` of `Sur40Device` | |
| | `FormatAgreedAlways` | `FormatAgreed` | `DeviceInv`, `FormatInv` |
| | `SurfaceInvariant`, `CallsWorkAlways` | `CallsWork`, of the library in any of its programs | `ToolsInv` |

### The video pipeline

`Quiet` is not inductive: it says nothing of the moment in which the thread that stops has
poisoned one URB and not the next, while a handler may still submit either.
`Held` says that an URB the user's thread has poisoned has a positive count until
that thread unpoisons it; `Cleared` that one it has also waited for is neither
queued nor running.  A handler that submits (`QuietSubmit`) therefore can only
queue an URB that is not cleared yet.  After `disconnected` is set the counts say
nothing, because starts lower them; `DiscDone` carries the argument then, as the
endpoint is disabled before the disconnect poisons the first URB.  `HandlerShape`
says that a running handler leaves no URB queued.  `Running` says that vb2 streams
whenever the driver does between two calls.

`BufferOwnership` needs to know when `cur_buf` may be set.  `Hands` says so for the handler:
while the frame URB is queued or its handler has just begun, and beside the handler's local
`buf` only after a failed submission.  `Emptied` says it for the threads: not while the driver
starts or returns its buffers, which is a consequence of the quiet of a stop.  `Lists` says
that a buffer is on vb2's list or with the driver, and on the former once at most.

The refinement maps each step of the driver to one of `CaptureQueue`, and the steps in
between to none: the buffer in a handler's hands is the head of the fifo until
`vb2_buffer_done`, wherever it is kept meanwhile.

`NeverStalls` rests on `Counts`, exact poison counts before the disconnect begins, so that a
handler's submission is not refused while nobody stops, and on `Alive`: only a stop
cancels transfers, so no handler sees the status that ends the stream.
`WholeFrames` rests on `FrameSoFar`: in the frame URB are all packets of the image up to the
device's position, or whole packets that end before a header cuts them; a header is a short
packet, so a transfer of `SizeImage` bytes cannot contain one.

### Touch scans and their users

`TouchInv` says what `need_blobs` means.  In a scan that is read from its start
(`Framing`) it counts the blobs left, and the slots in use are those of the contacts that have
come.  After a fault that the driver is told of (`Recovering`) the field is -1, so that the
next packet's own count is taken.  A packet in mid-scan has the count 0 and is a
frame of its own; the last one therefore ends a frame too, and the next scan is read from
its start.  A scan whose first packet comes after the fault is counted right at once.
`SlotsInv` says that a contact has one slot and that slots not used yet are those of the last
sync.  `RankIs` in `Sur40TouchProof` is what matching new contacts with free slots needs.

`PipeInv` says what holds of each URB in the middle of the loops that start and stop them,
where the properties say nothing: `Counts`, the poison count by position of the
loop; `Cleared` and `ClearedByDisc`, those poisoned and waited for; `Fresh`, those not submitted
yet; `NoDead`, that no URB is cancelled unless somebody stops; and `Running`, those that go.

### Probe, release, controls and formats

In `DeviceInv` the labels of probe, its unwinding and the disconnect, with the state of the
node, determine which resource is held, each once (`HeldOnce`); the counters follow
(`RefsCounted`, `UsersCounted`).  `FlightShape` says that URBs only fly for users and not past
the poison.  `FormatInv` says that buffers exist only while a handle is open and have the
format that was set when they were made.

### The user space driver

`CallsWork` is not inductive: it says what a call has done when it returns, and its scripts
write the panel through a window that other calls and failed transfers leave anywhere.
`ScriptShape` says what is true in the middle of a script: every transfer that is still to be
made (`Sound`) writes a register the call is for or sets a window that the next transfers
use, and every register of the call has its value or will get it (`Pending`).  `GoodScript` is
the same of the scripts as they begin, wherever the window is, and is proved of each call.
The loops have `ImageShape`, the packets read are those of one frame of the size asked for;
`PageShape`, the poll that succeeded belongs to the page; and `BlockShape`, the cursor in the
memory agrees with the blocks read.  The first and the last hold while no bulk transfer of the
call has failed (`torn`): after that the code itself does not know what it has, and the
theorem is that the next call starts anew from whatever place the endpoint is at.  What is assumed of the constants (`SurfaceAssumption`,
`ToolsAssumption`) is that names differ and no count is zero.

### From the table to a TUIO receiver

`Identifiers` is inductive with the types.  What it needs beside is arithmetic of finite sets:
that a new identifier is beyond the maximum when none is free, and that the
maximum can fall to the next used one when the last goes.  Each step of the daemon is then one
of the manager or leaves the identifiers alone (`DaemonIds`).

`SourceInv` says that the receiver shows a kind as it is if neither a contact of it has
been marked as changed nor a packet of it was lost (`Kept`).  The lemma for all calls is
`CallsMark`: a call that changes contacts of a kind marks the kind.  `PacketsFit` follows from
`PackedIs`, an invariant of the loop that cuts a bundle.

`DaemonInv` has one part for each stretch of `run()`: `Idle`, `Adding`, `Removing`,
`Ending`, and `Marking` beside the last three.  `ContactsAgree` is not
inductive because of tags, which report themselves only now and then: `Slowed` says that the
first frame without a report stops the tag, that the second finds it at rest, and
that the third removes it; in between it would count as moving and be kept.  `Reading`
says that what a call in step has read and what the device has left make up the scan.

### Senders and OSC

In `TcpInv`, `Wiring` says whose a descriptor is: the client thread's that serves it, or the
server thread's from `accept` to the start of that thread.  With `Listing`, which
follows each connection onto the list and off it, a number cannot be on the list and belong to a
later connection.  `Stream` says how far the sender is with each client on the list, `Ending` what
the destructor has waited for.  For `OneLeftOpen`, `Served` says that a connection that is
open is read by its client's thread or is in the hands of the server thread; those with a thread
are on the list and are shut down, so that only the server thread's is left, and as the
listening socket is shut down no other takes its place.

In `StreamInv` the arguments follow the cursor and the tags lie at the end of the buffer, none
between messages.  Size only grows in steps that were checked against it, the end of a message
writes what `Size` had counted.  This much needs no assumption on capacity or alignment.

`PacketInv` adds what the bytes are.  `SlotsInv` is for `SlotsNest`: the slots of the
open elements lie apart (`Chain`), each with the offset of the one around it, below the cursor,
where no argument or tag is written; `ChainGrows` and `ChainEnds` are the begin and the end of
an element.  `MessageInv` says of an open message that its address, its arguments one after the
other (`Laid`) and its tags from the end of the buffer backwards are there as they were
written.  `MessageRead` then is about one step, the end: `TaggedIs` follows the arguments
moving up over the tags, and `MessageIsRead` both passes of the reader over the result, by
`ItemIsRead` for an argument and by induction over a set of numbers for all of them.
`WidthAssumption` is used here: a size or number in a packet has four bytes, so a buffer of
4 GB or more, or a number that does not fit, could not be read back.

`PortInv` is for the multiplexer.  Between the moment the flag is set and the byte or event
there is only `caller = "half"`, and the loop takes a byte only before it looks at the flag; hence
`NoLostWakeup` needs little more than types.  `NoneOverlooked` needs `Events`: a socket with a
datagram has posted an event since it was read last, and an event that was posted is still set
or its socket is one of those that are read in this pass.  `FirstOf`, the first listener in
order that is ready, is what makes the sockets before it harmless: their events are still set.

### Lemmas about data

Induction over data and recursive definitions is done by way of sets, because the library's
induction theorems cannot be instantiated: `LeastNatural` and `Induction` are about a set of
numbers, and `Recursion` says that a function defined on `0 .. n` by a first value and steps
exists, which gives its defining equation.  With these `ListedIs` and
`PackedIs` are proved.  The rest of `DataLemmas` says what appending, taking the head and
removing do to the range of a sequence without repetition, and that a bounded set of integers
has a maximum.

### Only model-checked

- All liveness properties, which are out of the prover's reach: `CallsReturn`,
  `BuffersComeBack`, `Realigns`, `Ends`, `DestructorReturns`, `BreakReturns`, `ImagesComeBack`.
- `RoundTrip`: `MessageRead` is its part for one message and is proved; that bundles are walked
  element by element and that arguments are extracted by type is checked on all streams of the
  run, because `OscPacket` reads with RECURSIVE operators.
- The assumptions of the MC modules on `TuioContainer`, `TuioTime`, `WebSocketCodec`,
  `FlashSender` and the rows of `Surface`: algorithms, checked on bounded and chosen inputs.

## What is not modelled

*Kernel.*  Pixel data, timestamps and sequence numbers, log messages,
`VIDIOC_REQBUFS` in the video pipeline, read() (vb2's emulation makes the same
calls), what vb2 does with buffers in error after `vb2_queue_error` beyond refusing
calls; coordinates, sizes and orientation of touches and the identifiers the input
core gives them.  `Sur40Device` leaves out the reference the V4L2 core itself holds.

*User space.*  Drawing, files, the key `w` of `calib` with `surface_write_calib` and the
accumulation of black and white images (arithmetic on pixels), status and sensor
reads that are only printed, `calibvis.c`.  Which event `surface_get_blobs` writes
into a blob: only the test program prints it.

*TUIO.*  Coordinates, speeds and filters are floating point; contacts keep the signs
that decide on their states.  `TuioDispatcher` is a lock around each list for clients of
another thread and a list of listeners: nothing in the repository has such a thread or
listener.  `UdpSender` is a transport that may lose packets.  Behind `FlashSender` is a
player that is not in the repository: the semaphore they share is left out, as what it
protects is an agreement between the two.

*OSC.*  Printing of packets, packets that no stream wrote, and binding and sending,
which are single system calls.  The operators that add arguments do not check that a message
is open; no caller in the repository writes one outside, and `OscStream` leaves that misuse out.

*Not programs or not of this project:* the vendored `tuio/windows/libusb-1.0`, the Windows
project files, the fiducial designs in `bytetag/`, the notes in `notes/`.
