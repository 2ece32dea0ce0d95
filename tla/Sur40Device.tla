----------------------------- MODULE Sur40Device -----------------------------
(***************************************************************************)
(* The life of the driver's state (kernel/sur40.c): probe with its         *)
(* unwinding after each step that may fail, disconnect, the references     *)
(* that keep the state until the last file handle is closed, and the V4L2  *)
(* controls.  Users open the input device as soon as it is registered,     *)
(* long before probe is done, and keep video handles after the device is   *)
(* unplugged.                                                              *)
(*                                                                         *)
(* The touch URBs are running or not (Sur40Touch and Sur40Pipe have the    *)
(* rest), and the panel has three groups of registers.  The V4L2 core's    *)
(* and the input core's part is external: they refuse calls on a node that *)
(* is unregistered, except close.                                          *)
(***************************************************************************)
EXTENDS Integers

CONSTANTS
  MaxFiles,  \* bound: video handles open at a time
  Level,     \* values of a control
  Unknown    \* a group of registers of which a poke failed

ASSUME DeviceAssumption == MaxFiles \in Nat /\ Level # {} /\ Unknown \notin Level \cup (Level \X Level)

VARIABLES
  pc,            \* probe and disconnect, which the USB core runs one at a time
  held,          \* how often each resource is held
  input,         \* probe's local pointer is not NULL
  refs,          \* references on the v4l2_device
  node,          \* the video node: "none", "registered", "unregistered" (but open), "released"
  inputNode,     \* the input device is registered
  inputOpen, files, streaming,
  users, flying, \* of the touch pipeline: users, and whether URBs are in flight
  disconnected,
  ctrl,          \* the controls' values
  vsvideo,       \* contrast and gain, in one byte
  panel          \* registers of the device

probeVars == <<pc, input>>
userVars == <<inputOpen, files, streaming>>
pipeVars == <<users, flying>>
ctrlVars == <<ctrl, vsvideo, panel>>
vars == <<probeVars, held, refs, node, inputNode, userVars, pipeVars, disconnected, ctrlVars>>

Resource == {"state", "usb", "dev", "urbs", "input", "v4l2", "hdl"}
Take(S) == held' = [r \in Resource |-> held[r] + IF r \in S THEN 1 ELSE 0]
Drop(S) == held' = [r \in Resource |-> held[r] - IF r \in S THEN 1 ELSE 0]
Disconnecting == pc \in {"poison", "flag", "unregister", "input_gone", "put"}
\* Transfers can be submitted: not once the core has disabled the endpoints.
Present == ~Disconnecting /\ pc # "unbound"

-----------------------------------------------------------------------------
(***************************************************************************)
(* References.                                                             *)
(***************************************************************************)
\* sur40_release: the last reference is gone.
Release == Drop({"hdl", "v4l2", "urbs", "dev", "usb", "state"})
\* v4l2_device_put.
Put == /\ refs' = refs - 1
       /\ IF refs = 1 THEN Release ELSE UNCHANGED held

\* A consumer of the touch pipeline leaves; the last one stops it unless that was done.
LeavePipeline ==
  /\ users' = users - 1
  /\ IF users > 1 \/ disconnected THEN UNCHANGED flying ELSE flying' = FALSE
\* One joins; the first starts the URBs.
JoinPipeline == /\ users > 0 \/ Present
                /\ users' = users + 1
                /\ IF users = 0 THEN flying' = TRUE ELSE UNCHANGED flying

\* input_unregister_device closes the device first.
UnregisterInput ==
  /\ inputNode' = FALSE /\ inputOpen' = FALSE
  /\ IF inputOpen THEN LeavePipeline ELSE UNCHANGED pipeVars

-----------------------------------------------------------------------------
(***************************************************************************)
(* Controls.                                                               *)
(***************************************************************************)
\* Any poke of a group may fail; nobody looks at the result.
Poke(group, value) == panel' \in {[panel EXCEPT ![group] = v] : v \in {value, Unknown}}
\* Mutant of SetVsvideo: the byte is kept only if the panel has it.
SetVsvideoIfDone(value) ==
  /\ Poke("video", value)
  /\ vsvideo' = IF panel'.video = value THEN value ELSE vsvideo
SetVsvideo(value) == Poke("video", value) /\ vsvideo' = value

\* sur40_s_ctrl, one disjunct for each case: contrast and gain change their half of the byte.
SCtrl(id, value) ==
  /\ ctrl' = [ctrl EXCEPT ![id] = value]
  /\ \/ id = "brightness" /\ Poke("ir", value) /\ UNCHANGED vsvideo
     \/ id = "contrast" /\ SetVsvideo(<<value, vsvideo[2]>>)
     \/ id = "gain" /\ SetVsvideo(<<vsvideo[1], value>>)
     \/ id = "backlight" /\ Poke("pre", value) /\ UNCHANGED vsvideo

SetControl == /\ node = "registered" /\ files > 0
              /\ \E id \in DOMAIN ctrl, v \in Level : SCtrl(id, v)
              /\ UNCHANGED <<probeVars, held, refs, node, inputNode, userVars, pipeVars, disconnected>>

-----------------------------------------------------------------------------
(***************************************************************************)
(* sur40_probe.  Each step works and takes something, or fails and jumps   *)
(* to a label.                                                             *)
(***************************************************************************)
Quiet == UNCHANGED <<userVars, pipeVars, disconnected>>
Fails(from, label) == /\ pc = from /\ pc' = label
                      /\ UNCHANGED <<input, held, refs, node, inputNode, ctrlVars>> /\ Quiet
Works(from, to, S) == pc = from /\ pc' = to /\ Take(S) /\ Quiet

AllocState ==
  \/ Works("alloc", "urbs", {"state", "usb", "dev"}) /\ UNCHANGED <<input, refs, node, inputNode, ctrlVars>>
  \/ Fails("alloc", "failed")
\* What it allocated so far is freed by sur40_alloc_urbs itself if it fails.
AllocUrbs ==
  \/ Works("urbs", "input", {"urbs"}) /\ UNCHANGED <<input, refs, node, inputNode, ctrlVars>>
  \/ Fails("urbs", "err_free_dev")
AllocInput ==
  \/ Works("input", "events", {"input"}) /\ input' = TRUE /\ UNCHANGED <<refs, node, inputNode, ctrlVars>>
  \/ Fails("input", "err_free_urbs")
SetupEvents ==
  \/ Works("events", "register", {}) /\ UNCHANGED <<input, refs, node, inputNode, ctrlVars>>
  \/ Fails("events", "err_free_input")
RegisterInput ==
  \/ Works("register", "v4l2", {}) /\ inputNode' = TRUE /\ UNCHANGED <<input, refs, node, ctrlVars>>
  \/ Fails("register", "err_free_input")
RegisterV4l2 ==
  \/ Works("v4l2", "queue", {"v4l2"}) /\ refs' = 1 /\ UNCHANGED <<input, node, inputNode, ctrlVars>>
  \/ Fails("v4l2", "err_unreg_input")
InitQueue ==
  \/ Works("queue", "controls", {}) /\ UNCHANGED <<input, refs, node, inputNode, ctrlVars>>
  \/ Fails("queue", "err_unreg_v4l2")

\* The handler applies the controls one after the other, with the values of the module's
\* parameters; vsvideo starts with the defaults.
InitControls ==
  /\ pc = "controls" /\ Take({"hdl"}) /\ Quiet
  /\ \E c, g, b, l \in Level, ok \in BOOLEAN :
       /\ ctrl' = [brightness |-> b, contrast |-> c, gain |-> g, backlight |-> l]
       /\ vsvideo' = <<c, g>>
       /\ panel' \in [video : {<<c, g>>, Unknown}, ir : {b, Unknown}, pre : {l, Unknown}]
       /\ pc' = IF ok THEN "node" ELSE "err_free_ctrl"
  /\ UNCHANGED <<input, refs, node, inputNode>>

\* The node's own reference is taken before, and given back if it cannot be registered.
RegisterNode ==
  \/ Works("node", "bound", {}) /\ refs' = refs + 1 /\ node' = "registered"
     /\ UNCHANGED <<input, inputNode, ctrlVars>>
  \/ Fails("node", "err_free_ctrl")

Label(from, to, S) == pc = from /\ pc' = to /\ Drop(S) /\ UNCHANGED <<node, disconnected, ctrlVars>>
FreeControls == /\ Label("err_free_ctrl", "err_unreg_v4l2", {"hdl"})
                /\ UNCHANGED <<input, refs, inputNode, userVars, pipeVars>>
UnregV4l2 == /\ Label("err_unreg_v4l2", "err_unreg_input", {"v4l2"})
             /\ refs' = 0 /\ UNCHANGED <<input, inputNode, userVars, pipeVars>>

\* Mutant of InputForgotten: the pointer to the unregistered device is kept.
InputForgottenNot == UNCHANGED input
\* The core frees an unregistered device: it must not be freed once more.
InputForgotten == input' = FALSE
UnregInput == /\ Label("err_unreg_input", "err_free_input", {"input"})
              /\ UnregisterInput /\ InputForgotten
              /\ UNCHANGED <<refs, files, streaming>>
FreeInput == /\ Label("err_free_input", "err_free_urbs", {r \in {"input"} : input})
             /\ UNCHANGED <<input, refs, inputNode, userVars, pipeVars>>
FreeUrbs == /\ Label("err_free_urbs", "err_free_dev", {"urbs"})
            /\ UNCHANGED <<input, refs, inputNode, userVars, pipeVars>>
FreeDev == /\ Label("err_free_dev", "failed", {"dev", "usb", "state"})
           /\ UNCHANGED <<input, refs, inputNode, userVars, pipeVars>>

Probe == \/ AllocState \/ AllocUrbs \/ AllocInput \/ SetupEvents \/ RegisterInput
         \/ RegisterV4l2 \/ InitQueue \/ InitControls \/ RegisterNode
         \/ FreeControls \/ UnregV4l2 \/ UnregInput \/ FreeInput \/ FreeUrbs \/ FreeDev

-----------------------------------------------------------------------------
(***************************************************************************)
(* sur40_disconnect.                                                       *)
(***************************************************************************)
Disconnect == /\ pc = "bound" /\ pc' = "poison"
              /\ UNCHANGED <<input, held, refs, node, inputNode, ctrlVars>> /\ Quiet
Poison == /\ pc = "poison" /\ pc' = "flag" /\ flying' = FALSE
          /\ UNCHANGED <<input, held, refs, node, inputNode, userVars, users, disconnected, ctrlVars>>
SetDisconnected ==
  /\ pc = "flag" /\ pc' = "unregister" /\ disconnected' = TRUE
  /\ UNCHANGED <<input, held, refs, node, inputNode, userVars, pipeVars, ctrlVars>>

\* Mutant of NodeGone: the node's reference goes with the registration.
NodeGoneAtOnce(open) == node' = "released" /\ Put
\* The node gives its reference back when it is neither registered nor open.
NodeGone(open) == IF open THEN node' = "unregistered" /\ UNCHANGED <<refs, held>>
                  ELSE node' = "released" /\ Put

UnregisterNode == /\ pc = "unregister" /\ pc' = "input_gone"
                  /\ NodeGone(files > 0)
                  /\ UNCHANGED <<input, inputNode, ctrlVars>> /\ Quiet
DisconnectInput == /\ pc = "input_gone" /\ pc' = "put"
                   /\ Drop({"input"}) /\ UnregisterInput
                   /\ UNCHANGED <<input, refs, node, files, streaming, disconnected, ctrlVars>>
LastPut == /\ pc = "put" /\ pc' = "unbound" /\ Put
           /\ UNCHANGED <<input, node, inputNode, ctrlVars>> /\ Quiet

-----------------------------------------------------------------------------
(***************************************************************************)
(* Users.                                                                  *)
(***************************************************************************)
Others == UNCHANGED <<probeVars, inputNode, disconnected, ctrlVars>>

OpenInput == /\ inputNode /\ ~inputOpen
             /\ inputOpen' = TRUE /\ JoinPipeline
             /\ UNCHANGED <<held, refs, node, files, streaming>> /\ Others
CloseInput == /\ inputNode /\ inputOpen
              /\ inputOpen' = FALSE /\ LeavePipeline
              /\ UNCHANGED <<held, refs, node, files, streaming>> /\ Others

OpenVideo == /\ node = "registered" /\ files < MaxFiles
             /\ files' = files + 1
             /\ UNCHANGED <<held, refs, node, inputOpen, streaming, pipeVars>> /\ Others
StreamOn == /\ node = "registered" /\ files > 0 /\ ~streaming /\ Present
            /\ streaming' = TRUE /\ JoinPipeline
            /\ UNCHANGED <<held, refs, node, inputOpen, files>> /\ Others
StreamOff == /\ node = "registered" /\ streaming
             /\ streaming' = FALSE /\ LeavePipeline
             /\ UNCHANGED <<held, refs, node, inputOpen, files>> /\ Others
\* The handle that streams stops the stream; the last one of a node that is gone releases it.
CloseVideo ==
  /\ files > 0 /\ files' = files - 1
  /\ \/ streaming /\ streaming' = FALSE /\ LeavePipeline
     \/ (~streaming \/ files > 1) /\ UNCHANGED <<streaming, pipeVars>>
  /\ UNCHANGED inputOpen
  /\ IF node = "unregistered" THEN NodeGone(files > 1) ELSE UNCHANGED <<node, refs, held>>
  /\ Others

\* Nothing is left of this device, and it is plugged in again.
Gone == pc = "failed" \/ (pc = "unbound" /\ node = "released")
Replug == /\ Gone
          /\ pc' = "alloc" /\ input' = FALSE /\ node' = "none" /\ disconnected' = FALSE
          /\ UNCHANGED <<held, refs, inputNode, userVars, pipeVars, ctrlVars>>

Init ==
  /\ pc = "alloc" /\ held = [r \in Resource |-> 0] /\ input = FALSE
  /\ refs = 0 /\ node = "none" /\ inputNode = FALSE
  /\ inputOpen = FALSE /\ files = 0 /\ streaming = FALSE
  /\ users = 0 /\ flying = FALSE /\ disconnected = FALSE
  /\ \E v \in Level : /\ ctrl = [brightness |-> v, contrast |-> v, gain |-> v, backlight |-> v]
                      /\ vsvideo = <<v, v>>
  /\ panel = [video |-> Unknown, ir |-> Unknown, pre |-> Unknown]

Next == \/ Probe \/ Disconnect \/ Poison \/ SetDisconnected \/ UnregisterNode
        \/ DisconnectInput \/ LastPut \/ Replug
        \/ OpenInput \/ CloseInput \/ OpenVideo \/ StreamOn \/ StreamOff \/ CloseVideo \/ SetControl

Spec == Init /\ [][Next]_vars

-----------------------------------------------------------------------------
\* Nothing is freed twice, and nothing is left: after a probe that failed at any step, whoever
\* had opened the input device meanwhile, and after disconnect and the last close.
AllGivenBack ==
  /\ \A r \in Resource : held[r] \in {0, 1}
  /\ Gone => users = 0 /\ ~flying /\ \A r \in Resource : held[r] = 0

\* What a user or a transfer may still touch is not freed: the state, the URBs and the
\* devices while any handle is open or URBs fly, controls and v4l2 device with the node.
NotFreedInUse ==
  /\ inputOpen \/ files > 0 \/ flying \/ Disconnecting \/ pc = "bound" =>
       \A r \in {"state", "urbs", "usb", "dev"} : held[r] = 1
  /\ node \in {"registered", "unregistered"} => held["hdl"] = 1 /\ held["v4l2"] = 1

\* The panel shows what the controls say, except registers whose last poke failed: contrast
\* and gain share a byte, and setting one neither loses the other nor brings an older one back.
PanelFollows == node = "registered" =>
  /\ panel.video \in {<<ctrl.contrast, ctrl.gain>>, Unknown}
  /\ panel.ir \in {ctrl.brightness, Unknown} /\ panel.pre \in {ctrl.backlight, Unknown}
=============================================================================
