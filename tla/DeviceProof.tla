----------------------------- MODULE DeviceProof -----------------------------
(***************************************************************************)
(* Proofs about the device, from both of its sides.                        *)
(*                                                                         *)
(* The driver (Sur40Device, Sur40Formats), for any number of handles, any  *)
(* values of the controls and any sizes of buffers: where probe and        *)
(* disconnect are (pc) and whether the video node still has its reference  *)
(* (node) say what is held, once each: HeldOnce.  The counters follow: a   *)
(* reference for the driver and one for the node, a user for the input     *)
(* device and one for the stream.                                          *)
(*                                                                         *)
(* The library for user space (Surface, SurfaceTools), for any registers,  *)
(* sizes of images and blocks and any number of transfers that fail: what  *)
(* a script has still to send, together with the device's window, makes up *)
(* for what its registers lack (Sound, Pending), and what a read has got   *)
(* so far is the beginning of what it was asked for.                       *)
(***************************************************************************)
EXTENDS Sur40Formats, SurfaceTools, SequenceTheorems, FiniteSetTheorems, TLAPS

ProbeLabel == {"alloc", "urbs", "input", "events", "register", "v4l2", "queue", "controls",
               "node", "err_free_ctrl", "err_unreg_v4l2", "err_unreg_input",
               "err_free_input", "err_free_urbs", "err_free_dev", "failed"}
GoneLabel == {"poison", "flag", "unregister", "input_gone", "put", "unbound"}

\* n counts those of two conditions that hold; r is held once or not at all.
Count(n, a, b) == (a /\ b => n = 2) /\ ((a \/ b) /\ ~(a /\ b) => n = 1) /\ (~(a \/ b) => n = 0)
Once(r, b) == (b => held[r] = 1) /\ (~b => held[r] = 0)

\* The state is there until the driver and the node have given back their references.
HasState == /\ pc \notin {"alloc", "failed"}
            /\ pc = "unbound" => node = "unregistered"
HasUrbs == HasState /\ pc \notin {"urbs", "err_free_dev"}
HasInput == \/ pc \in {"events", "register", "v4l2", "queue", "controls", "node", "bound",
                       "err_free_ctrl", "err_unreg_v4l2", "err_unreg_input",
                       "poison", "flag", "unregister", "input_gone"}
            \/ pc = "err_free_input" /\ input
HasHdl == HasState /\ pc \in {"node", "bound", "err_free_ctrl"} \cup GoneLabel
HasV4l2 == HasHdl \/ pc \in {"queue", "controls", "err_unreg_v4l2"}

DeviceType ==
  /\ held \in [Resource -> Int]
  /\ input \in BOOLEAN /\ inputNode \in BOOLEAN /\ inputOpen \in BOOLEAN
  /\ streaming \in BOOLEAN /\ flying \in BOOLEAN /\ disconnected \in BOOLEAN
  /\ refs \in Nat /\ files \in Nat /\ users \in Nat

HeldOnce ==
  /\ Once("state", HasState) /\ Once("usb", HasState) /\ Once("dev", HasState)
  /\ Once("urbs", HasUrbs) /\ Once("input", HasInput)
  /\ Once("v4l2", HasV4l2) /\ Once("hdl", HasHdl)
  /\ pc \in {"events", "register"} => input

\* The node and the input device as probe and disconnect see them.
NodeShape ==
  /\ pc \in ProbeLabel \cup {"bound"} \cup GoneLabel
  /\ node \in {"none", "registered", "unregistered", "released"}
  /\ node = "none" <=> pc \in ProbeLabel
  /\ node = "registered" <=> pc \in {"bound", "poison", "flag", "unregister"}
  /\ inputNode <=> pc \in {"v4l2", "queue", "controls", "node", "bound", "err_free_ctrl",
                           "err_unreg_v4l2", "err_unreg_input",
                           "poison", "flag", "unregister", "input_gone"}
  /\ disconnected <=> pc \in {"unregister", "input_gone", "put", "unbound"}

\* A node that is open is there, and one that is gone but not released is open.
HandleShape ==
  /\ node = "unregistered" => files > 0
  /\ files > 0 => node \in {"registered", "unregistered"}
  /\ streaming => files > 0

\* The driver's reference and the node's.
RefsCounted == HasV4l2 => Count(refs, pc # "unbound", node \in {"registered", "unregistered"})

\* Who uses the touch pipeline.
UsersCounted == Count(users, inputOpen, streaming)

\* Nothing flies that nobody uses, and nothing once it is poisoned.
FlightShape ==
  /\ inputOpen => inputNode
  /\ flying => users > 0 /\ (Present \/ pc = "poison")

\* From the first setting of the controls on, the byte for contrast and gain has both.
ControlsShown == pc \in {"node", "bound"} \cup GoneLabel =>
  /\ ctrl \in [{"brightness", "contrast", "gain", "backlight"} -> Level]
  /\ vsvideo = <<ctrl.contrast, ctrl.gain>>
  /\ panel \in [{"video", "ir", "pre"} -> Level \cup (Level \X Level) \cup {Unknown}]
  /\ panel.video \in {vsvideo, Unknown}
  /\ panel.ir \in {ctrl.brightness, Unknown} /\ panel.pre \in {ctrl.backlight, Unknown}

DeviceInv == /\ DeviceType /\ HeldOnce /\ NodeShape /\ HandleShape
             /\ RefsCounted /\ UsersCounted /\ FlightShape /\ ControlsShown

\* The formats: one is set before there is a node, buffers exist only while a handle is open,
\* and they keep the format they were made for.
Known == {Format("GREY"), Format("TU08")}
FormatInv ==
  /\ videoNode \in BOOLEAN /\ pixFmt \in Known \cup {NoFormat}
  /\ pc \in {"controls", "node"} \/ node # "none" => pixFmt \in Known
  /\ pc = "controls" => pixFmt = FindFormat("none")
  /\ files = 0 => planes = {}
  /\ planes = {} => payloads = {}
  /\ planes # {} => agreed = pixFmt
  /\ \A q \in payloads : q[1] = 2 /\ q[1] <= q[2]

\* What Take and Drop do to each resource.
LEMMA TakeAdds ==
  ASSUME held \in [Resource -> Int], NEW S, Take(S)
  PROVE  /\ held' \in [Resource -> Int]
         /\ \A r \in Resource : /\ r \in S => held'[r] = held[r] + 1
                                /\ r \notin S => held'[r] = held[r]
  BY DEF Take

LEMMA DropTakes ==
  ASSUME held \in [Resource -> Int], NEW S, Drop(S)
  PROVE  /\ held' \in [Resource -> Int]
         /\ \A r \in Resource : /\ r \in S => held'[r] = held[r] - 1
                                /\ r \notin S => held'[r] = held[r]
  BY DEF Drop

\* Who uses the pipeline is counted.
LEMMA UsersThere ==
  ASSUME DeviceInv
  PROVE  /\ inputOpen \/ streaming => users > 0
         /\ flying => ~disconnected
<1>1. inputOpen \/ streaming => users > 0
  BY DEF DeviceInv, DeviceType, UsersCounted, Count
<1>2. flying => ~disconnected
  BY DEF DeviceInv, NodeShape, FlightShape, Present, Disconnecting
<1> QED
  BY <1>1, <1>2

\* What the references are where an action looks at them.
LEMMA Counters ==
  ASSUME DeviceInv
  PROVE  /\ pc = "unregister" => refs = 2
         /\ pc = "put" => /\ node \in {"unregistered", "released"}
                          /\ node = "unregistered" => refs = 2
                          /\ node = "released" => refs = 1
         /\ node = "unregistered" => /\ pc \in {"input_gone", "put", "unbound"}
                                     /\ pc = "unbound" => refs = 1
                                     /\ pc # "unbound" => refs = 2
<1>2. pc \in {"unregister", "input_gone", "put"} => HasV4l2
  BY DEF HasV4l2, HasHdl, HasState, GoneLabel
<1>3. node = "unregistered" => pc \in {"input_gone", "put", "unbound"}
  BY DEF DeviceInv, DeviceType, NodeShape, ProbeLabel, GoneLabel
<1>4. pc = "unbound" /\ node = "unregistered" => HasV4l2
  BY DEF HasV4l2, HasHdl, HasState, GoneLabel
<1>5. /\ pc = "unregister" => node = "registered"
      /\ pc = "put" => node \in {"unregistered", "released"}
  BY DEF DeviceInv, NodeShape, ProbeLabel
<1> QED
  BY <1>2, <1>3, <1>4, <1>5 DEF DeviceInv, RefsCounted, Count

\* Setting a control, or all of them, leaves the panel with what the controls say.
LEMMA SettingShows ==
  ASSUME DeviceInv, SetControl
  PROVE  ControlsShown'
<1>1. PICK id \in DOMAIN ctrl, v \in Level : SCtrl(id, v)
  BY DEF SetControl
<1>2. node = "registered" /\ pc' = pc
  BY DEF SetControl, probeVars
<1>3. /\ pc \in {"node", "bound"} \cup GoneLabel
      /\ ctrl \in [{"brightness", "contrast", "gain", "backlight"} -> Level]
      /\ vsvideo = <<ctrl.contrast, ctrl.gain>>
      /\ panel \in [{"video", "ir", "pre"} -> Level \cup (Level \X Level) \cup {Unknown}]
      /\ panel.video \in {vsvideo, Unknown}
      /\ panel.ir \in {ctrl.brightness, Unknown} /\ panel.pre \in {ctrl.backlight, Unknown}
  BY <1>2 DEF DeviceInv, DeviceType, NodeShape, ControlsShown, ProbeLabel, GoneLabel
<1>4. ctrl' = [ctrl EXCEPT ![id] = v]
  BY <1>1 DEF SCtrl
<1>5. CASE id = "brightness"
  BY <1>1, <1>2, <1>3, <1>4, <1>5 DEF SCtrl, Poke, ControlsShown
<1>6. CASE id = "contrast"
  BY <1>1, <1>2, <1>3, <1>4, <1>6 DEF SCtrl, SetVsvideo, Poke, ControlsShown
<1>7. CASE id = "gain"
  BY <1>1, <1>2, <1>3, <1>4, <1>7 DEF SCtrl, SetVsvideo, Poke, ControlsShown
<1>8. CASE id = "backlight"
  BY <1>1, <1>2, <1>3, <1>4, <1>8 DEF SCtrl, Poke, ControlsShown
<1> QED
  BY <1>3, <1>5, <1>6, <1>7, <1>8

LEMMA InitControlsShows ==
  ASSUME InitControls
  PROVE  ControlsShown'
  BY DEF InitControls, ControlsShown, GoneLabel

\* Every step keeps the invariant: what each action does, then one step per part.
LEMMA StepKeeps == DeviceInv /\ [Next]_vars => DeviceInv'
<1> SUFFICES ASSUME DeviceInv, [Next]_vars PROVE DeviceInv'
  OBVIOUS
<1>1. ASSUME AllocState PROVE DeviceInv'
  <2>1. CASE Works("alloc", "urbs", {"state", "usb", "dev"})
    <3>1. /\ pc = "alloc" /\ pc' = "urbs"
          /\ UNCHANGED <<input, refs, node, inputNode, inputOpen, files, streaming, users, flying, disconnected, ctrl, vsvideo, panel>>
      BY <1>1, <2>1 DEF AllocState, Fails, Works, Quiet, vars, probeVars, userVars, pipeVars, ctrlVars
    <3>2. Take({"state", "usb", "dev"})
      BY <1>1, <2>1 DEF AllocState, Fails, Works
    <3>3. /\ held' \in [Resource -> Int]
           /\ held'["state"] = held["state"] + 1
           /\ held'["usb"] = held["usb"] + 1
           /\ held'["dev"] = held["dev"] + 1
           /\ held'["urbs"] = held["urbs"]
           /\ held'["input"] = held["input"]
           /\ held'["v4l2"] = held["v4l2"]
           /\ held'["hdl"] = held["hdl"]
      BY <3>2, TakeAdds DEF Resource, DeviceInv, DeviceType
    <3>4. DeviceType'
      BY <3>1, <3>3 DEF DeviceInv, DeviceType
    <3>5. HeldOnce'
      BY <3>1, <3>3 DEF DeviceInv, DeviceType, HeldOnce, NodeShape, Once, HasState, HasUrbs, HasInput, HasV4l2, HasHdl, ProbeLabel, GoneLabel
    <3>6. NodeShape'
      BY <3>1 DEF DeviceInv, NodeShape, ProbeLabel, GoneLabel
    <3>7. HandleShape'
      BY <3>1, <2>1 DEF DeviceInv, DeviceType, HandleShape
    <3>8. RefsCounted'
      BY <3>1 DEF DeviceInv, DeviceType, NodeShape, RefsCounted, Count, HasV4l2, HasHdl, HasState, ProbeLabel, GoneLabel
    <3>9. UsersCounted'
      BY <3>1 DEF DeviceInv, DeviceType, UsersCounted, Count
    <3>10. FlightShape'
      BY <3>1 DEF DeviceInv, DeviceType, FlightShape, NodeShape, Present, Disconnecting, ProbeLabel, GoneLabel
    <3>11. ControlsShown'
      BY <3>1 DEF DeviceInv, NodeShape, ControlsShown, ProbeLabel, GoneLabel
    <3> QED
      BY <3>4, <3>5, <3>6, <3>7, <3>8, <3>9, <3>10, <3>11 DEF DeviceInv
  <2>2. CASE Fails("alloc", "failed")
    <3>1. /\ pc = "alloc" /\ pc' = "failed"
          /\ UNCHANGED <<input, held, refs, node, inputNode, inputOpen, files, streaming, users, flying, disconnected, ctrl, vsvideo, panel>>
      BY <2>2 DEF Fails, Quiet, vars, probeVars, userVars, pipeVars, ctrlVars
    <3>2. DeviceType'
      BY <3>1 DEF DeviceInv, DeviceType
    <3>3. HeldOnce'
      BY <3>1 DEF DeviceInv, DeviceType, HeldOnce, NodeShape, Once, HasState, HasUrbs, HasInput, HasV4l2, HasHdl, ProbeLabel, GoneLabel
    <3>4. NodeShape'
      BY <3>1 DEF DeviceInv, NodeShape, ProbeLabel, GoneLabel
    <3>5. HandleShape'
      BY <3>1, <2>2 DEF DeviceInv, DeviceType, HandleShape
    <3>6. RefsCounted'
      BY <3>1 DEF DeviceInv, DeviceType, NodeShape, RefsCounted, Count, HasV4l2, HasHdl, HasState, ProbeLabel, GoneLabel
    <3>7. UsersCounted'
      BY <3>1 DEF DeviceInv, DeviceType, UsersCounted, Count
    <3>8. FlightShape'
      BY <3>1 DEF DeviceInv, DeviceType, FlightShape, NodeShape, Present, Disconnecting, ProbeLabel, GoneLabel
    <3>9. ControlsShown'
      BY <3>1 DEF DeviceInv, NodeShape, ControlsShown, ProbeLabel, GoneLabel
    <3> QED
      BY <3>2, <3>3, <3>4, <3>5, <3>6, <3>7, <3>8, <3>9 DEF DeviceInv
  <2> QED
    BY <1>1, <2>1, <2>2 DEF AllocState
<1>2. ASSUME AllocUrbs PROVE DeviceInv'
  <2>1. CASE Works("urbs", "input", {"urbs"})
    <3>1. /\ pc = "urbs" /\ pc' = "input"
          /\ UNCHANGED <<input, refs, node, inputNode, inputOpen, files, streaming, users, flying, disconnected, ctrl, vsvideo, panel>>
      BY <1>2, <2>1 DEF AllocUrbs, Fails, Works, Quiet, vars, probeVars, userVars, pipeVars, ctrlVars
    <3>2. Take({"urbs"})
      BY <1>2, <2>1 DEF AllocUrbs, Fails, Works
    <3>3. /\ held' \in [Resource -> Int]
           /\ held'["urbs"] = held["urbs"] + 1
           /\ held'["state"] = held["state"]
           /\ held'["usb"] = held["usb"]
           /\ held'["dev"] = held["dev"]
           /\ held'["input"] = held["input"]
           /\ held'["v4l2"] = held["v4l2"]
           /\ held'["hdl"] = held["hdl"]
      BY <3>2, TakeAdds DEF Resource, DeviceInv, DeviceType
    <3>4. DeviceType'
      BY <3>1, <3>3 DEF DeviceInv, DeviceType
    <3>5. HeldOnce'
      BY <3>1, <3>3 DEF DeviceInv, DeviceType, HeldOnce, NodeShape, Once, HasState, HasUrbs, HasInput, HasV4l2, HasHdl, ProbeLabel, GoneLabel
    <3>6. NodeShape'
      BY <3>1 DEF DeviceInv, NodeShape, ProbeLabel, GoneLabel
    <3>7. HandleShape'
      BY <3>1, <2>1 DEF DeviceInv, DeviceType, HandleShape
    <3>8. RefsCounted'
      BY <3>1 DEF DeviceInv, DeviceType, NodeShape, RefsCounted, Count, HasV4l2, HasHdl, HasState, ProbeLabel, GoneLabel
    <3>9. UsersCounted'
      BY <3>1 DEF DeviceInv, DeviceType, UsersCounted, Count
    <3>10. FlightShape'
      BY <3>1 DEF DeviceInv, DeviceType, FlightShape, NodeShape, Present, Disconnecting, ProbeLabel, GoneLabel
    <3>11. ControlsShown'
      BY <3>1 DEF DeviceInv, NodeShape, ControlsShown, ProbeLabel, GoneLabel
    <3> QED
      BY <3>4, <3>5, <3>6, <3>7, <3>8, <3>9, <3>10, <3>11 DEF DeviceInv
  <2>2. CASE Fails("urbs", "err_free_dev")
    <3>1. /\ pc = "urbs" /\ pc' = "err_free_dev"
          /\ UNCHANGED <<input, held, refs, node, inputNode, inputOpen, files, streaming, users, flying, disconnected, ctrl, vsvideo, panel>>
      BY <2>2 DEF Fails, Quiet, vars, probeVars, userVars, pipeVars, ctrlVars
    <3>2. DeviceType'
      BY <3>1 DEF DeviceInv, DeviceType
    <3>3. HeldOnce'
      BY <3>1 DEF DeviceInv, DeviceType, HeldOnce, NodeShape, Once, HasState, HasUrbs, HasInput, HasV4l2, HasHdl, ProbeLabel, GoneLabel
    <3>4. NodeShape'
      BY <3>1 DEF DeviceInv, NodeShape, ProbeLabel, GoneLabel
    <3>5. HandleShape'
      BY <3>1, <2>2 DEF DeviceInv, DeviceType, HandleShape
    <3>6. RefsCounted'
      BY <3>1 DEF DeviceInv, DeviceType, NodeShape, RefsCounted, Count, HasV4l2, HasHdl, HasState, ProbeLabel, GoneLabel
    <3>7. UsersCounted'
      BY <3>1 DEF DeviceInv, DeviceType, UsersCounted, Count
    <3>8. FlightShape'
      BY <3>1 DEF DeviceInv, DeviceType, FlightShape, NodeShape, Present, Disconnecting, ProbeLabel, GoneLabel
    <3>9. ControlsShown'
      BY <3>1 DEF DeviceInv, NodeShape, ControlsShown, ProbeLabel, GoneLabel
    <3> QED
      BY <3>2, <3>3, <3>4, <3>5, <3>6, <3>7, <3>8, <3>9 DEF DeviceInv
  <2> QED
    BY <1>2, <2>1, <2>2 DEF AllocUrbs
<1>3. ASSUME AllocInput PROVE DeviceInv'
  <2>1. CASE Works("input", "events", {"input"})
    <3>1. /\ pc = "input" /\ pc' = "events"
          /\ input' = TRUE
          /\ UNCHANGED <<refs, node, inputNode, inputOpen, files, streaming, users, flying, disconnected, ctrl, vsvideo, panel>>
      BY <1>3, <2>1 DEF AllocInput, Fails, Works, Quiet, vars, probeVars, userVars, pipeVars, ctrlVars
    <3>2. Take({"input"})
      BY <1>3, <2>1 DEF AllocInput, Fails, Works
    <3>3. /\ held' \in [Resource -> Int]
           /\ held'["input"] = held["input"] + 1
           /\ held'["state"] = held["state"]
           /\ held'["usb"] = held["usb"]
           /\ held'["dev"] = held["dev"]
           /\ held'["urbs"] = held["urbs"]
           /\ held'["v4l2"] = held["v4l2"]
           /\ held'["hdl"] = held["hdl"]
      BY <3>2, TakeAdds DEF Resource, DeviceInv, DeviceType
    <3>4. DeviceType'
      BY <3>1, <3>3 DEF DeviceInv, DeviceType
    <3>5. HeldOnce'
      BY <3>1, <3>3 DEF DeviceInv, DeviceType, HeldOnce, NodeShape, Once, HasState, HasUrbs, HasInput, HasV4l2, HasHdl, ProbeLabel, GoneLabel
    <3>6. NodeShape'
      BY <3>1 DEF DeviceInv, NodeShape, ProbeLabel, GoneLabel
    <3>7. HandleShape'
      BY <3>1, <2>1 DEF DeviceInv, DeviceType, HandleShape
    <3>8. RefsCounted'
      BY <3>1 DEF DeviceInv, DeviceType, NodeShape, RefsCounted, Count, HasV4l2, HasHdl, HasState, ProbeLabel, GoneLabel
    <3>9. UsersCounted'
      BY <3>1 DEF DeviceInv, DeviceType, UsersCounted, Count
    <3>10. FlightShape'
      BY <3>1 DEF DeviceInv, DeviceType, FlightShape, NodeShape, Present, Disconnecting, ProbeLabel, GoneLabel
    <3>11. ControlsShown'
      BY <3>1 DEF DeviceInv, NodeShape, ControlsShown, ProbeLabel, GoneLabel
    <3> QED
      BY <3>4, <3>5, <3>6, <3>7, <3>8, <3>9, <3>10, <3>11 DEF DeviceInv
  <2>2. CASE Fails("input", "err_free_urbs")
    <3>1. /\ pc = "input" /\ pc' = "err_free_urbs"
          /\ UNCHANGED <<input, held, refs, node, inputNode, inputOpen, files, streaming, users, flying, disconnected, ctrl, vsvideo, panel>>
      BY <2>2 DEF Fails, Quiet, vars, probeVars, userVars, pipeVars, ctrlVars
    <3>2. DeviceType'
      BY <3>1 DEF DeviceInv, DeviceType
    <3>3. HeldOnce'
      BY <3>1 DEF DeviceInv, DeviceType, HeldOnce, NodeShape, Once, HasState, HasUrbs, HasInput, HasV4l2, HasHdl, ProbeLabel, GoneLabel
    <3>4. NodeShape'
      BY <3>1 DEF DeviceInv, NodeShape, ProbeLabel, GoneLabel
    <3>5. HandleShape'
      BY <3>1, <2>2 DEF DeviceInv, DeviceType, HandleShape
    <3>6. RefsCounted'
      BY <3>1 DEF DeviceInv, DeviceType, NodeShape, RefsCounted, Count, HasV4l2, HasHdl, HasState, ProbeLabel, GoneLabel
    <3>7. UsersCounted'
      BY <3>1 DEF DeviceInv, DeviceType, UsersCounted, Count
    <3>8. FlightShape'
      BY <3>1 DEF DeviceInv, DeviceType, FlightShape, NodeShape, Present, Disconnecting, ProbeLabel, GoneLabel
    <3>9. ControlsShown'
      BY <3>1 DEF DeviceInv, NodeShape, ControlsShown, ProbeLabel, GoneLabel
    <3> QED
      BY <3>2, <3>3, <3>4, <3>5, <3>6, <3>7, <3>8, <3>9 DEF DeviceInv
  <2> QED
    BY <1>3, <2>1, <2>2 DEF AllocInput
<1>4. ASSUME SetupEvents PROVE DeviceInv'
  <2>1. CASE Works("events", "register", {})
    <3>1. /\ pc = "events" /\ pc' = "register"
          /\ UNCHANGED <<input, refs, node, inputNode, inputOpen, files, streaming, users, flying, disconnected, ctrl, vsvideo, panel>>
      BY <1>4, <2>1 DEF SetupEvents, Fails, Works, Quiet, vars, probeVars, userVars, pipeVars, ctrlVars
    <3>2. Take({})
      BY <1>4, <2>1 DEF SetupEvents, Fails, Works
    <3>3. /\ held' \in [Resource -> Int]
           /\ held'["state"] = held["state"]
           /\ held'["usb"] = held["usb"]
           /\ held'["dev"] = held["dev"]
           /\ held'["urbs"] = held["urbs"]
           /\ held'["input"] = held["input"]
           /\ held'["v4l2"] = held["v4l2"]
           /\ held'["hdl"] = held["hdl"]
      BY <3>2, TakeAdds DEF Resource, DeviceInv, DeviceType
    <3>4. DeviceType'
      BY <3>1, <3>3 DEF DeviceInv, DeviceType
    <3>5. HeldOnce'
      BY <3>1, <3>3 DEF DeviceInv, DeviceType, HeldOnce, NodeShape, Once, HasState, HasUrbs, HasInput, HasV4l2, HasHdl, ProbeLabel, GoneLabel
    <3>6. NodeShape'
      BY <3>1 DEF DeviceInv, NodeShape, ProbeLabel, GoneLabel
    <3>7. HandleShape'
      BY <3>1, <2>1 DEF DeviceInv, DeviceType, HandleShape
    <3>8. RefsCounted'
      BY <3>1 DEF DeviceInv, DeviceType, NodeShape, RefsCounted, Count, HasV4l2, HasHdl, HasState, ProbeLabel, GoneLabel
    <3>9. UsersCounted'
      BY <3>1 DEF DeviceInv, DeviceType, UsersCounted, Count
    <3>10. FlightShape'
      BY <3>1 DEF DeviceInv, DeviceType, FlightShape, NodeShape, Present, Disconnecting, ProbeLabel, GoneLabel
    <3>11. ControlsShown'
      BY <3>1 DEF DeviceInv, NodeShape, ControlsShown, ProbeLabel, GoneLabel
    <3> QED
      BY <3>4, <3>5, <3>6, <3>7, <3>8, <3>9, <3>10, <3>11 DEF DeviceInv
  <2>2. CASE Fails("events", "err_free_input")
    <3>1. /\ pc = "events" /\ pc' = "err_free_input"
          /\ UNCHANGED <<input, held, refs, node, inputNode, inputOpen, files, streaming, users, flying, disconnected, ctrl, vsvideo, panel>>
      BY <2>2 DEF Fails, Quiet, vars, probeVars, userVars, pipeVars, ctrlVars
    <3>2. DeviceType'
      BY <3>1 DEF DeviceInv, DeviceType
    <3>3. HeldOnce'
      BY <3>1 DEF DeviceInv, DeviceType, HeldOnce, NodeShape, Once, HasState, HasUrbs, HasInput, HasV4l2, HasHdl, ProbeLabel, GoneLabel
    <3>4. NodeShape'
      BY <3>1 DEF DeviceInv, NodeShape, ProbeLabel, GoneLabel
    <3>5. HandleShape'
      BY <3>1, <2>2 DEF DeviceInv, DeviceType, HandleShape
    <3>6. RefsCounted'
      BY <3>1 DEF DeviceInv, DeviceType, NodeShape, RefsCounted, Count, HasV4l2, HasHdl, HasState, ProbeLabel, GoneLabel
    <3>7. UsersCounted'
      BY <3>1 DEF DeviceInv, DeviceType, UsersCounted, Count
    <3>8. FlightShape'
      BY <3>1 DEF DeviceInv, DeviceType, FlightShape, NodeShape, Present, Disconnecting, ProbeLabel, GoneLabel
    <3>9. ControlsShown'
      BY <3>1 DEF DeviceInv, NodeShape, ControlsShown, ProbeLabel, GoneLabel
    <3> QED
      BY <3>2, <3>3, <3>4, <3>5, <3>6, <3>7, <3>8, <3>9 DEF DeviceInv
  <2> QED
    BY <1>4, <2>1, <2>2 DEF SetupEvents
<1>5. ASSUME RegisterInput PROVE DeviceInv'
  <2>1. CASE Works("register", "v4l2", {})
    <3>1. /\ pc = "register" /\ pc' = "v4l2"
          /\ inputNode' = TRUE
          /\ UNCHANGED <<input, refs, node, inputOpen, files, streaming, users, flying, disconnected, ctrl, vsvideo, panel>>
      BY <1>5, <2>1 DEF RegisterInput, Fails, Works, Quiet, vars, probeVars, userVars, pipeVars, ctrlVars
    <3>2. Take({})
      BY <1>5, <2>1 DEF RegisterInput, Fails, Works
    <3>3. /\ held' \in [Resource -> Int]
           /\ held'["state"] = held["state"]
           /\ held'["usb"] = held["usb"]
           /\ held'["dev"] = held["dev"]
           /\ held'["urbs"] = held["urbs"]
           /\ held'["input"] = held["input"]
           /\ held'["v4l2"] = held["v4l2"]
           /\ held'["hdl"] = held["hdl"]
      BY <3>2, TakeAdds DEF Resource, DeviceInv, DeviceType
    <3>4. DeviceType'
      BY <3>1, <3>3 DEF DeviceInv, DeviceType
    <3>5. HeldOnce'
      BY <3>1, <3>3 DEF DeviceInv, DeviceType, HeldOnce, NodeShape, Once, HasState, HasUrbs, HasInput, HasV4l2, HasHdl, ProbeLabel, GoneLabel
    <3>6. NodeShape'
      BY <3>1 DEF DeviceInv, NodeShape, ProbeLabel, GoneLabel
    <3>7. HandleShape'
      BY <3>1, <2>1 DEF DeviceInv, DeviceType, HandleShape
    <3>8. RefsCounted'
      BY <3>1 DEF DeviceInv, DeviceType, NodeShape, RefsCounted, Count, HasV4l2, HasHdl, HasState, ProbeLabel, GoneLabel
    <3>9. UsersCounted'
      BY <3>1 DEF DeviceInv, DeviceType, UsersCounted, Count
    <3>10. FlightShape'
      BY <3>1 DEF DeviceInv, DeviceType, FlightShape, NodeShape, Present, Disconnecting, ProbeLabel, GoneLabel
    <3>11. ControlsShown'
      BY <3>1 DEF DeviceInv, NodeShape, ControlsShown, ProbeLabel, GoneLabel
    <3> QED
      BY <3>4, <3>5, <3>6, <3>7, <3>8, <3>9, <3>10, <3>11 DEF DeviceInv
  <2>2. CASE Fails("register", "err_free_input")
    <3>1. /\ pc = "register" /\ pc' = "err_free_input"
          /\ UNCHANGED <<input, held, refs, node, inputNode, inputOpen, files, streaming, users, flying, disconnected, ctrl, vsvideo, panel>>
      BY <2>2 DEF Fails, Quiet, vars, probeVars, userVars, pipeVars, ctrlVars
    <3>2. DeviceType'
      BY <3>1 DEF DeviceInv, DeviceType
    <3>3. HeldOnce'
      BY <3>1 DEF DeviceInv, DeviceType, HeldOnce, NodeShape, Once, HasState, HasUrbs, HasInput, HasV4l2, HasHdl, ProbeLabel, GoneLabel
    <3>4. NodeShape'
      BY <3>1 DEF DeviceInv, NodeShape, ProbeLabel, GoneLabel
    <3>5. HandleShape'
      BY <3>1, <2>2 DEF DeviceInv, DeviceType, HandleShape
    <3>6. RefsCounted'
      BY <3>1 DEF DeviceInv, DeviceType, NodeShape, RefsCounted, Count, HasV4l2, HasHdl, HasState, ProbeLabel, GoneLabel
    <3>7. UsersCounted'
      BY <3>1 DEF DeviceInv, DeviceType, UsersCounted, Count
    <3>8. FlightShape'
      BY <3>1 DEF DeviceInv, DeviceType, FlightShape, NodeShape, Present, Disconnecting, ProbeLabel, GoneLabel
    <3>9. ControlsShown'
      BY <3>1 DEF DeviceInv, NodeShape, ControlsShown, ProbeLabel, GoneLabel
    <3> QED
      BY <3>2, <3>3, <3>4, <3>5, <3>6, <3>7, <3>8, <3>9 DEF DeviceInv
  <2> QED
    BY <1>5, <2>1, <2>2 DEF RegisterInput
<1>6. ASSUME RegisterV4l2 PROVE DeviceInv'
  <2>1. CASE Works("v4l2", "queue", {"v4l2"})
    <3>1. /\ pc = "v4l2" /\ pc' = "queue"
          /\ refs' = 1
          /\ UNCHANGED <<input, node, inputNode, inputOpen, files, streaming, users, flying, disconnected, ctrl, vsvideo, panel>>
      BY <1>6, <2>1 DEF RegisterV4l2, Fails, Works, Quiet, vars, probeVars, userVars, pipeVars, ctrlVars
    <3>2. Take({"v4l2"})
      BY <1>6, <2>1 DEF RegisterV4l2, Fails, Works
    <3>3. /\ held' \in [Resource -> Int]
           /\ held'["v4l2"] = held["v4l2"] + 1
           /\ held'["state"] = held["state"]
           /\ held'["usb"] = held["usb"]
           /\ held'["dev"] = held["dev"]
           /\ held'["urbs"] = held["urbs"]
           /\ held'["input"] = held["input"]
           /\ held'["hdl"] = held["hdl"]
      BY <3>2, TakeAdds DEF Resource, DeviceInv, DeviceType
    <3>4. DeviceType'
      BY <3>1, <3>3, Counters DEF DeviceInv, DeviceType
    <3>5. HeldOnce'
      BY <3>1, <3>3 DEF DeviceInv, DeviceType, HeldOnce, NodeShape, Once, HasState, HasUrbs, HasInput, HasV4l2, HasHdl, ProbeLabel, GoneLabel
    <3>6. NodeShape'
      BY <3>1 DEF DeviceInv, NodeShape, ProbeLabel, GoneLabel
    <3>7. HandleShape'
      BY <3>1, <2>1 DEF DeviceInv, DeviceType, HandleShape
    <3>8. RefsCounted'
      BY <3>1 DEF DeviceInv, DeviceType, NodeShape, RefsCounted, Count, HasV4l2, HasHdl, HasState, ProbeLabel, GoneLabel
    <3>9. UsersCounted'
      BY <3>1 DEF DeviceInv, DeviceType, UsersCounted, Count
    <3>10. FlightShape'
      BY <3>1 DEF DeviceInv, DeviceType, FlightShape, NodeShape, Present, Disconnecting, ProbeLabel, GoneLabel
    <3>11. ControlsShown'
      BY <3>1 DEF DeviceInv, NodeShape, ControlsShown, ProbeLabel, GoneLabel
    <3> QED
      BY <3>4, <3>5, <3>6, <3>7, <3>8, <3>9, <3>10, <3>11 DEF DeviceInv
  <2>2. CASE Fails("v4l2", "err_unreg_input")
    <3>1. /\ pc = "v4l2" /\ pc' = "err_unreg_input"
          /\ UNCHANGED <<input, held, refs, node, inputNode, inputOpen, files, streaming, users, flying, disconnected, ctrl, vsvideo, panel>>
      BY <2>2 DEF Fails, Quiet, vars, probeVars, userVars, pipeVars, ctrlVars
    <3>2. DeviceType'
      BY <3>1 DEF DeviceInv, DeviceType
    <3>3. HeldOnce'
      BY <3>1 DEF DeviceInv, DeviceType, HeldOnce, NodeShape, Once, HasState, HasUrbs, HasInput, HasV4l2, HasHdl, ProbeLabel, GoneLabel
    <3>4. NodeShape'
      BY <3>1 DEF DeviceInv, NodeShape, ProbeLabel, GoneLabel
    <3>5. HandleShape'
      BY <3>1, <2>2 DEF DeviceInv, DeviceType, HandleShape
    <3>6. RefsCounted'
      BY <3>1 DEF DeviceInv, DeviceType, NodeShape, RefsCounted, Count, HasV4l2, HasHdl, HasState, ProbeLabel, GoneLabel
    <3>7. UsersCounted'
      BY <3>1 DEF DeviceInv, DeviceType, UsersCounted, Count
    <3>8. FlightShape'
      BY <3>1 DEF DeviceInv, DeviceType, FlightShape, NodeShape, Present, Disconnecting, ProbeLabel, GoneLabel
    <3>9. ControlsShown'
      BY <3>1 DEF DeviceInv, NodeShape, ControlsShown, ProbeLabel, GoneLabel
    <3> QED
      BY <3>2, <3>3, <3>4, <3>5, <3>6, <3>7, <3>8, <3>9 DEF DeviceInv
  <2> QED
    BY <1>6, <2>1, <2>2 DEF RegisterV4l2
<1>7. ASSUME InitQueue PROVE DeviceInv'
  <2>1. CASE Works("queue", "controls", {})
    <3>1. /\ pc = "queue" /\ pc' = "controls"
          /\ UNCHANGED <<input, refs, node, inputNode, inputOpen, files, streaming, users, flying, disconnected, ctrl, vsvideo, panel>>
      BY <1>7, <2>1 DEF InitQueue, Fails, Works, Quiet, vars, probeVars, userVars, pipeVars, ctrlVars
    <3>2. Take({})
      BY <1>7, <2>1 DEF InitQueue, Fails, Works
    <3>3. /\ held' \in [Resource -> Int]
           /\ held'["state"] = held["state"]
           /\ held'["usb"] = held["usb"]
           /\ held'["dev"] = held["dev"]
           /\ held'["urbs"] = held["urbs"]
           /\ held'["input"] = held["input"]
           /\ held'["v4l2"] = held["v4l2"]
           /\ held'["hdl"] = held["hdl"]
      BY <3>2, TakeAdds DEF Resource, DeviceInv, DeviceType
    <3>4. DeviceType'
      BY <3>1, <3>3 DEF DeviceInv, DeviceType
    <3>5. HeldOnce'
      BY <3>1, <3>3 DEF DeviceInv, DeviceType, HeldOnce, NodeShape, Once, HasState, HasUrbs, HasInput, HasV4l2, HasHdl, ProbeLabel, GoneLabel
    <3>6. NodeShape'
      BY <3>1 DEF DeviceInv, NodeShape, ProbeLabel, GoneLabel
    <3>7. HandleShape'
      BY <3>1, <2>1 DEF DeviceInv, DeviceType, HandleShape
    <3>8. RefsCounted'
      BY <3>1 DEF DeviceInv, DeviceType, NodeShape, RefsCounted, Count, HasV4l2, HasHdl, HasState, ProbeLabel, GoneLabel
    <3>9. UsersCounted'
      BY <3>1 DEF DeviceInv, DeviceType, UsersCounted, Count
    <3>10. FlightShape'
      BY <3>1 DEF DeviceInv, DeviceType, FlightShape, NodeShape, Present, Disconnecting, ProbeLabel, GoneLabel
    <3>11. ControlsShown'
      BY <3>1 DEF DeviceInv, NodeShape, ControlsShown, ProbeLabel, GoneLabel
    <3> QED
      BY <3>4, <3>5, <3>6, <3>7, <3>8, <3>9, <3>10, <3>11 DEF DeviceInv
  <2>2. CASE Fails("queue", "err_unreg_v4l2")
    <3>1. /\ pc = "queue" /\ pc' = "err_unreg_v4l2"
          /\ UNCHANGED <<input, held, refs, node, inputNode, inputOpen, files, streaming, users, flying, disconnected, ctrl, vsvideo, panel>>
      BY <2>2 DEF Fails, Quiet, vars, probeVars, userVars, pipeVars, ctrlVars
    <3>2. DeviceType'
      BY <3>1 DEF DeviceInv, DeviceType
    <3>3. HeldOnce'
      BY <3>1 DEF DeviceInv, DeviceType, HeldOnce, NodeShape, Once, HasState, HasUrbs, HasInput, HasV4l2, HasHdl, ProbeLabel, GoneLabel
    <3>4. NodeShape'
      BY <3>1 DEF DeviceInv, NodeShape, ProbeLabel, GoneLabel
    <3>5. HandleShape'
      BY <3>1, <2>2 DEF DeviceInv, DeviceType, HandleShape
    <3>6. RefsCounted'
      BY <3>1 DEF DeviceInv, DeviceType, NodeShape, RefsCounted, Count, HasV4l2, HasHdl, HasState, ProbeLabel, GoneLabel
    <3>7. UsersCounted'
      BY <3>1 DEF DeviceInv, DeviceType, UsersCounted, Count
    <3>8. FlightShape'
      BY <3>1 DEF DeviceInv, DeviceType, FlightShape, NodeShape, Present, Disconnecting, ProbeLabel, GoneLabel
    <3>9. ControlsShown'
      BY <3>1 DEF DeviceInv, NodeShape, ControlsShown, ProbeLabel, GoneLabel
    <3> QED
      BY <3>2, <3>3, <3>4, <3>5, <3>6, <3>7, <3>8, <3>9 DEF DeviceInv
  <2> QED
    BY <1>7, <2>1, <2>2 DEF InitQueue
<1>8. ASSUME InitControls PROVE DeviceInv'
  <2>1. CASE pc' = "node"
    <3>1. /\ pc = "controls" /\ pc' = "node"
          /\ UNCHANGED <<input, refs, node, inputNode, inputOpen, files, streaming, users, flying, disconnected>>
      BY <1>8, <2>1 DEF InitControls, Quiet, vars, probeVars, userVars, pipeVars, ctrlVars
    <3>2. Take({"hdl"})
      BY <1>8, <2>1 DEF InitControls
    <3>3. /\ held' \in [Resource -> Int]
           /\ held'["hdl"] = held["hdl"] + 1
           /\ held'["state"] = held["state"]
           /\ held'["usb"] = held["usb"]
           /\ held'["dev"] = held["dev"]
           /\ held'["urbs"] = held["urbs"]
           /\ held'["input"] = held["input"]
           /\ held'["v4l2"] = held["v4l2"]
      BY <3>2, TakeAdds DEF Resource, DeviceInv, DeviceType
    <3>4. DeviceType'
      BY <3>1, <3>3 DEF DeviceInv, DeviceType
    <3>5. HeldOnce'
      BY <3>1, <3>3 DEF DeviceInv, DeviceType, HeldOnce, NodeShape, Once, HasState, HasUrbs, HasInput, HasV4l2, HasHdl, ProbeLabel, GoneLabel
    <3>6. NodeShape'
      BY <3>1 DEF DeviceInv, NodeShape, ProbeLabel, GoneLabel
    <3>7. HandleShape'
      BY <3>1, <2>1 DEF DeviceInv, DeviceType, HandleShape
    <3>8. RefsCounted'
      BY <3>1 DEF DeviceInv, DeviceType, NodeShape, RefsCounted, Count, HasV4l2, HasHdl, HasState, ProbeLabel, GoneLabel
    <3>9. UsersCounted'
      BY <3>1 DEF DeviceInv, DeviceType, UsersCounted, Count
    <3>10. FlightShape'
      BY <3>1 DEF DeviceInv, DeviceType, FlightShape, NodeShape, Present, Disconnecting, ProbeLabel, GoneLabel
    <3>11. ControlsShown'
      BY <1>8, InitControlsShows
    <3> QED
      BY <3>4, <3>5, <3>6, <3>7, <3>8, <3>9, <3>10, <3>11 DEF DeviceInv
  <2>2. CASE pc' # "node"
    <3>1. /\ pc = "controls" /\ pc' = "err_free_ctrl"
          /\ UNCHANGED <<input, refs, node, inputNode, inputOpen, files, streaming, users, flying, disconnected>>
      BY <1>8, <2>2 DEF InitControls, Quiet, vars, probeVars, userVars, pipeVars, ctrlVars
    <3>2. Take({"hdl"})
      BY <1>8, <2>2 DEF InitControls
    <3>3. /\ held' \in [Resource -> Int]
           /\ held'["hdl"] = held["hdl"] + 1
           /\ held'["state"] = held["state"]
           /\ held'["usb"] = held["usb"]
           /\ held'["dev"] = held["dev"]
           /\ held'["urbs"] = held["urbs"]
           /\ held'["input"] = held["input"]
           /\ held'["v4l2"] = held["v4l2"]
      BY <3>2, TakeAdds DEF Resource, DeviceInv, DeviceType
    <3>4. DeviceType'
      BY <3>1, <3>3 DEF DeviceInv, DeviceType
    <3>5. HeldOnce'
      BY <3>1, <3>3 DEF DeviceInv, DeviceType, HeldOnce, NodeShape, Once, HasState, HasUrbs, HasInput, HasV4l2, HasHdl, ProbeLabel, GoneLabel
    <3>6. NodeShape'
      BY <3>1 DEF DeviceInv, NodeShape, ProbeLabel, GoneLabel
    <3>7. HandleShape'
      BY <3>1, <2>2 DEF DeviceInv, DeviceType, HandleShape
    <3>8. RefsCounted'
      BY <3>1 DEF DeviceInv, DeviceType, NodeShape, RefsCounted, Count, HasV4l2, HasHdl, HasState, ProbeLabel, GoneLabel
    <3>9. UsersCounted'
      BY <3>1 DEF DeviceInv, DeviceType, UsersCounted, Count
    <3>10. FlightShape'
      BY <3>1 DEF DeviceInv, DeviceType, FlightShape, NodeShape, Present, Disconnecting, ProbeLabel, GoneLabel
    <3>11. ControlsShown'
      BY <1>8, InitControlsShows
    <3> QED
      BY <3>4, <3>5, <3>6, <3>7, <3>8, <3>9, <3>10, <3>11 DEF DeviceInv
  <2> QED
    BY <1>8, <2>1, <2>2
<1>9. ASSUME RegisterNode PROVE DeviceInv'
  <2>1. CASE Works("node", "bound", {})
    <3>1. /\ pc = "node" /\ pc' = "bound"
          /\ refs' = refs + 1 /\ node' = "registered"
          /\ UNCHANGED <<input, inputNode, inputOpen, files, streaming, users, flying, disconnected, ctrl, vsvideo, panel>>
      BY <1>9, <2>1 DEF RegisterNode, Fails, Works, Quiet, vars, probeVars, userVars, pipeVars, ctrlVars
    <3>2. Take({})
      BY <1>9, <2>1 DEF RegisterNode, Fails, Works
    <3>3. /\ held' \in [Resource -> Int]
           /\ held'["state"] = held["state"]
           /\ held'["usb"] = held["usb"]
           /\ held'["dev"] = held["dev"]
           /\ held'["urbs"] = held["urbs"]
           /\ held'["input"] = held["input"]
           /\ held'["v4l2"] = held["v4l2"]
           /\ held'["hdl"] = held["hdl"]
      BY <3>2, TakeAdds DEF Resource, DeviceInv, DeviceType
    <3>4. DeviceType'
      BY <3>1, <3>3, Counters DEF DeviceInv, DeviceType
    <3>5. HeldOnce'
      BY <3>1, <3>3 DEF DeviceInv, DeviceType, HeldOnce, NodeShape, Once, HasState, HasUrbs, HasInput, HasV4l2, HasHdl, ProbeLabel, GoneLabel
    <3>6. NodeShape'
      BY <3>1 DEF DeviceInv, NodeShape, ProbeLabel, GoneLabel
    <3>7. HandleShape'
      BY <3>1, <2>1 DEF DeviceInv, DeviceType, HandleShape
    <3>8. RefsCounted'
      BY <3>1 DEF DeviceInv, DeviceType, NodeShape, RefsCounted, Count, HasV4l2, HasHdl, HasState, ProbeLabel, GoneLabel
    <3>9. UsersCounted'
      BY <3>1 DEF DeviceInv, DeviceType, UsersCounted, Count
    <3>10. FlightShape'
      BY <3>1 DEF DeviceInv, DeviceType, FlightShape, NodeShape, Present, Disconnecting, ProbeLabel, GoneLabel
    <3>11. ControlsShown'
      BY <3>1 DEF DeviceInv, NodeShape, ControlsShown, ProbeLabel, GoneLabel
    <3> QED
      BY <3>4, <3>5, <3>6, <3>7, <3>8, <3>9, <3>10, <3>11 DEF DeviceInv
  <2>2. CASE Fails("node", "err_free_ctrl")
    <3>1. /\ pc = "node" /\ pc' = "err_free_ctrl"
          /\ UNCHANGED <<input, held, refs, node, inputNode, inputOpen, files, streaming, users, flying, disconnected, ctrl, vsvideo, panel>>
      BY <2>2 DEF Fails, Quiet, vars, probeVars, userVars, pipeVars, ctrlVars
    <3>2. DeviceType'
      BY <3>1 DEF DeviceInv, DeviceType
    <3>3. HeldOnce'
      BY <3>1 DEF DeviceInv, DeviceType, HeldOnce, NodeShape, Once, HasState, HasUrbs, HasInput, HasV4l2, HasHdl, ProbeLabel, GoneLabel
    <3>4. NodeShape'
      BY <3>1 DEF DeviceInv, NodeShape, ProbeLabel, GoneLabel
    <3>5. HandleShape'
      BY <3>1, <2>2 DEF DeviceInv, DeviceType, HandleShape
    <3>6. RefsCounted'
      BY <3>1 DEF DeviceInv, DeviceType, NodeShape, RefsCounted, Count, HasV4l2, HasHdl, HasState, ProbeLabel, GoneLabel
    <3>7. UsersCounted'
      BY <3>1 DEF DeviceInv, DeviceType, UsersCounted, Count
    <3>8. FlightShape'
      BY <3>1 DEF DeviceInv, DeviceType, FlightShape, NodeShape, Present, Disconnecting, ProbeLabel, GoneLabel
    <3>9. ControlsShown'
      BY <3>1 DEF DeviceInv, NodeShape, ControlsShown, ProbeLabel, GoneLabel
    <3> QED
      BY <3>2, <3>3, <3>4, <3>5, <3>6, <3>7, <3>8, <3>9 DEF DeviceInv
  <2> QED
    BY <1>9, <2>1, <2>2 DEF RegisterNode
<1>10. ASSUME FreeControls PROVE DeviceInv'
  <2>1. /\ pc = "err_free_ctrl" /\ pc' = "err_unreg_v4l2"
        /\ UNCHANGED <<input, refs, node, inputNode, inputOpen, files, streaming, users, flying, disconnected, ctrl, vsvideo, panel>>
    BY <1>10 DEF FreeControls, Label, vars, probeVars, userVars, pipeVars, ctrlVars
  <2>2. Drop({"hdl"})
    BY <1>10 DEF FreeControls, Label
  <2>3. /\ held' \in [Resource -> Int]
         /\ held'["hdl"] = held["hdl"] - 1
         /\ held'["state"] = held["state"]
         /\ held'["usb"] = held["usb"]
         /\ held'["dev"] = held["dev"]
         /\ held'["urbs"] = held["urbs"]
         /\ held'["input"] = held["input"]
         /\ held'["v4l2"] = held["v4l2"]
    BY <2>2, DropTakes DEF Resource, DeviceInv, DeviceType
  <2>4. DeviceType'
    BY <2>1, <2>3 DEF DeviceInv, DeviceType
  <2>5. HeldOnce'
    BY <2>1, <2>3 DEF DeviceInv, DeviceType, HeldOnce, NodeShape, Once, HasState, HasUrbs, HasInput, HasV4l2, HasHdl, ProbeLabel, GoneLabel
  <2>6. NodeShape'
    BY <2>1 DEF DeviceInv, NodeShape, ProbeLabel, GoneLabel
  <2>7. HandleShape'
    BY <2>1 DEF DeviceInv, DeviceType, HandleShape
  <2>8. RefsCounted'
    BY <2>1 DEF DeviceInv, DeviceType, NodeShape, RefsCounted, Count, HasV4l2, HasHdl, HasState, ProbeLabel, GoneLabel
  <2>9. UsersCounted'
    BY <2>1 DEF DeviceInv, DeviceType, UsersCounted, Count
  <2>10. FlightShape'
    BY <2>1 DEF DeviceInv, DeviceType, FlightShape, NodeShape, Present, Disconnecting, ProbeLabel, GoneLabel
  <2>11. ControlsShown'
    BY <2>1 DEF DeviceInv, NodeShape, ControlsShown, ProbeLabel, GoneLabel
  <2> QED
    BY <2>4, <2>5, <2>6, <2>7, <2>8, <2>9, <2>10, <2>11 DEF DeviceInv
<1>11. ASSUME UnregV4l2 PROVE DeviceInv'
  <2>1. /\ pc = "err_unreg_v4l2" /\ pc' = "err_unreg_input"
        /\ refs' = 0
        /\ UNCHANGED <<input, node, inputNode, inputOpen, files, streaming, users, flying, disconnected, ctrl, vsvideo, panel>>
    BY <1>11 DEF UnregV4l2, Label, vars, probeVars, userVars, pipeVars, ctrlVars
  <2>2. Drop({"v4l2"})
    BY <1>11 DEF UnregV4l2, Label
  <2>3. /\ held' \in [Resource -> Int]
         /\ held'["v4l2"] = held["v4l2"] - 1
         /\ held'["state"] = held["state"]
         /\ held'["usb"] = held["usb"]
         /\ held'["dev"] = held["dev"]
         /\ held'["urbs"] = held["urbs"]
         /\ held'["input"] = held["input"]
         /\ held'["hdl"] = held["hdl"]
    BY <2>2, DropTakes DEF Resource, DeviceInv, DeviceType
  <2>4. DeviceType'
    BY <2>1, <2>3, Counters DEF DeviceInv, DeviceType
  <2>5. HeldOnce'
    BY <2>1, <2>3 DEF DeviceInv, DeviceType, HeldOnce, NodeShape, Once, HasState, HasUrbs, HasInput, HasV4l2, HasHdl, ProbeLabel, GoneLabel
  <2>6. NodeShape'
    BY <2>1 DEF DeviceInv, NodeShape, ProbeLabel, GoneLabel
  <2>7. HandleShape'
    BY <2>1 DEF DeviceInv, DeviceType, HandleShape
  <2>8. RefsCounted'
    BY <2>1 DEF DeviceInv, DeviceType, NodeShape, RefsCounted, Count, HasV4l2, HasHdl, HasState, ProbeLabel, GoneLabel
  <2>9. UsersCounted'
    BY <2>1 DEF DeviceInv, DeviceType, UsersCounted, Count
  <2>10. FlightShape'
    BY <2>1 DEF DeviceInv, DeviceType, FlightShape, NodeShape, Present, Disconnecting, ProbeLabel, GoneLabel
  <2>11. ControlsShown'
    BY <2>1 DEF DeviceInv, NodeShape, ControlsShown, ProbeLabel, GoneLabel
  <2> QED
    BY <2>4, <2>5, <2>6, <2>7, <2>8, <2>9, <2>10, <2>11 DEF DeviceInv
<1>12. ASSUME UnregInput PROVE DeviceInv'
  <2>1. CASE inputOpen
    <3>1. /\ pc = "err_unreg_input" /\ pc' = "err_free_input"
          /\ input' = FALSE
          /\ inputNode' = FALSE /\ inputOpen' = FALSE
          /\ UNCHANGED <<refs, node, files, streaming, disconnected, ctrl, vsvideo, panel>>
      BY <1>12, <2>1 DEF UnregInput, Label, UnregisterInput, LeavePipeline, InputForgotten, vars, probeVars, userVars, pipeVars, ctrlVars
    <3>p. /\ users' = users - 1
          /\ users > 1 \/ disconnected => flying' = flying
          /\ ~(users > 1 \/ disconnected) => flying' = FALSE
      BY <1>12, <2>1 DEF UnregInput, Label, UnregisterInput, LeavePipeline, InputForgotten
    <3>n. users' \in Nat
      BY <3>p, <3>1, <2>1, UsersThere DEF DeviceInv, DeviceType
    <3>b. flying' \in BOOLEAN
      BY <3>p DEF DeviceInv, DeviceType
    <3>2. Drop({"input"})
      BY <1>12, <2>1 DEF UnregInput, Label
    <3>3. /\ held' \in [Resource -> Int]
           /\ held'["input"] = held["input"] - 1
           /\ held'["state"] = held["state"]
           /\ held'["usb"] = held["usb"]
           /\ held'["dev"] = held["dev"]
           /\ held'["urbs"] = held["urbs"]
           /\ held'["v4l2"] = held["v4l2"]
           /\ held'["hdl"] = held["hdl"]
      BY <3>2, DropTakes DEF Resource, DeviceInv, DeviceType
    <3>4. DeviceType'
      BY <3>1, <3>3, <3>n, <3>b DEF DeviceInv, DeviceType
    <3>5. HeldOnce'
      BY <3>1, <3>3 DEF DeviceInv, DeviceType, HeldOnce, NodeShape, Once, HasState, HasUrbs, HasInput, HasV4l2, HasHdl, ProbeLabel, GoneLabel
    <3>6. NodeShape'
      BY <3>1 DEF DeviceInv, NodeShape, ProbeLabel, GoneLabel
    <3>7. HandleShape'
      BY <3>1, <2>1 DEF DeviceInv, DeviceType, HandleShape
    <3>8. RefsCounted'
      BY <3>1 DEF DeviceInv, DeviceType, NodeShape, RefsCounted, Count, HasV4l2, HasHdl, HasState, ProbeLabel, GoneLabel
    <3>9. UsersCounted'
      BY <3>1, <3>p, <2>1 DEF DeviceInv, DeviceType, UsersCounted, Count
    <3>10. FlightShape'
      BY <3>1, <3>p, <3>n, <3>b, UsersThere DEF DeviceInv, DeviceType, FlightShape, NodeShape, Present, Disconnecting, ProbeLabel, GoneLabel
    <3>11. ControlsShown'
      BY <3>1 DEF DeviceInv, NodeShape, ControlsShown, ProbeLabel, GoneLabel
    <3> QED
      BY <3>4, <3>5, <3>6, <3>7, <3>8, <3>9, <3>10, <3>11 DEF DeviceInv
  <2>2. CASE ~inputOpen
    <3>1. /\ pc = "err_unreg_input" /\ pc' = "err_free_input"
          /\ input' = FALSE
          /\ inputNode' = FALSE /\ inputOpen' = FALSE
          /\ UNCHANGED <<refs, node, files, streaming, users, flying, disconnected, ctrl, vsvideo, panel>>
      BY <1>12, <2>2 DEF UnregInput, Label, UnregisterInput, InputForgotten, vars, probeVars, userVars, pipeVars, ctrlVars
    <3>2. Drop({"input"})
      BY <1>12, <2>2 DEF UnregInput, Label
    <3>3. /\ held' \in [Resource -> Int]
           /\ held'["input"] = held["input"] - 1
           /\ held'["state"] = held["state"]
           /\ held'["usb"] = held["usb"]
           /\ held'["dev"] = held["dev"]
           /\ held'["urbs"] = held["urbs"]
           /\ held'["v4l2"] = held["v4l2"]
           /\ held'["hdl"] = held["hdl"]
      BY <3>2, DropTakes DEF Resource, DeviceInv, DeviceType
    <3>4. DeviceType'
      BY <3>1, <3>3 DEF DeviceInv, DeviceType
    <3>5. HeldOnce'
      BY <3>1, <3>3 DEF DeviceInv, DeviceType, HeldOnce, NodeShape, Once, HasState, HasUrbs, HasInput, HasV4l2, HasHdl, ProbeLabel, GoneLabel
    <3>6. NodeShape'
      BY <3>1 DEF DeviceInv, NodeShape, ProbeLabel, GoneLabel
    <3>7. HandleShape'
      BY <3>1, <2>2 DEF DeviceInv, DeviceType, HandleShape
    <3>8. RefsCounted'
      BY <3>1 DEF DeviceInv, DeviceType, NodeShape, RefsCounted, Count, HasV4l2, HasHdl, HasState, ProbeLabel, GoneLabel
    <3>9. UsersCounted'
      BY <3>1, <2>2 DEF DeviceInv, DeviceType, UsersCounted, Count
    <3>10. FlightShape'
      BY <3>1 DEF DeviceInv, DeviceType, FlightShape, NodeShape, Present, Disconnecting, ProbeLabel, GoneLabel
    <3>11. ControlsShown'
      BY <3>1 DEF DeviceInv, NodeShape, ControlsShown, ProbeLabel, GoneLabel
    <3> QED
      BY <3>4, <3>5, <3>6, <3>7, <3>8, <3>9, <3>10, <3>11 DEF DeviceInv
  <2> QED
    BY <1>12, <2>1, <2>2
<1>13. ASSUME FreeInput PROVE DeviceInv'
  <2>1. CASE input
    <3>1. /\ pc = "err_free_input" /\ pc' = "err_free_urbs"
          /\ UNCHANGED <<input, refs, node, inputNode, inputOpen, files, streaming, users, flying, disconnected, ctrl, vsvideo, panel>>
      BY <1>13, <2>1 DEF FreeInput, Label, vars, probeVars, userVars, pipeVars, ctrlVars
    <3>2. Drop({"input"})
      BY <1>13, <2>1 DEF FreeInput, Label
    <3>3. /\ held' \in [Resource -> Int]
           /\ held'["input"] = held["input"] - 1
           /\ held'["state"] = held["state"]
           /\ held'["usb"] = held["usb"]
           /\ held'["dev"] = held["dev"]
           /\ held'["urbs"] = held["urbs"]
           /\ held'["v4l2"] = held["v4l2"]
           /\ held'["hdl"] = held["hdl"]
      BY <3>2, DropTakes DEF Resource, DeviceInv, DeviceType
    <3>4. HasInput /\ ~HasInput'
      BY <3>1, <1>13, <2>1 DEF HasInput
    <3>5. /\ HasState' <=> HasState
          /\ HasUrbs' <=> HasUrbs
          /\ HasV4l2' <=> HasV4l2
          /\ HasHdl' <=> HasHdl
      BY <3>1, <1>13, <2>1 DEF HasState, HasUrbs, HasInput, HasV4l2, HasHdl, GoneLabel
    <3>6. DeviceType'
      BY <3>1, <3>3, <3>4, <3>5 DEF DeviceInv, DeviceType
    <3>7. HeldOnce'
      BY <3>1, <3>3, <3>4, <3>5 DEF DeviceInv, HeldOnce, Once
    <3>8. NodeShape'
      BY <3>1 DEF DeviceInv, NodeShape, ProbeLabel, GoneLabel
    <3>9. HandleShape'
      BY <3>1, <2>1 DEF DeviceInv, DeviceType, HandleShape
    <3>10. RefsCounted'
      BY <3>1 DEF DeviceInv, DeviceType, NodeShape, RefsCounted, Count, HasV4l2, HasHdl, HasState, ProbeLabel, GoneLabel
    <3>11. UsersCounted'
      BY <3>1 DEF DeviceInv, DeviceType, UsersCounted, Count
    <3>12. FlightShape'
      BY <3>1 DEF DeviceInv, DeviceType, FlightShape, NodeShape, Present, Disconnecting, ProbeLabel, GoneLabel
    <3>13. ControlsShown'
      BY <3>1 DEF DeviceInv, NodeShape, ControlsShown, ProbeLabel, GoneLabel
    <3> QED
      BY <3>6, <3>7, <3>8, <3>9, <3>10, <3>11, <3>12, <3>13 DEF DeviceInv
  <2>2. CASE ~input
    <3>1. /\ pc = "err_free_input" /\ pc' = "err_free_urbs"
          /\ UNCHANGED <<input, refs, node, inputNode, inputOpen, files, streaming, users, flying, disconnected, ctrl, vsvideo, panel>>
      BY <1>13, <2>2 DEF FreeInput, Label, vars, probeVars, userVars, pipeVars, ctrlVars
    <3>2. Drop({})
      BY <1>13, <2>2 DEF FreeInput, Label
    <3>3. /\ held' \in [Resource -> Int]
           /\ held'["state"] = held["state"]
           /\ held'["usb"] = held["usb"]
           /\ held'["dev"] = held["dev"]
           /\ held'["urbs"] = held["urbs"]
           /\ held'["input"] = held["input"]
           /\ held'["v4l2"] = held["v4l2"]
           /\ held'["hdl"] = held["hdl"]
      BY <3>2, DropTakes DEF Resource, DeviceInv, DeviceType
    <3>4. /\ HasState' <=> HasState
          /\ HasUrbs' <=> HasUrbs
          /\ HasInput' <=> HasInput
          /\ HasV4l2' <=> HasV4l2
          /\ HasHdl' <=> HasHdl
      BY <3>1, <1>13, <2>2 DEF HasState, HasUrbs, HasInput, HasV4l2, HasHdl, GoneLabel
    <3>5. DeviceType'
      BY <3>1, <3>3, <3>4 DEF DeviceInv, DeviceType
    <3>6. HeldOnce'
      BY <3>1, <3>3, <3>4 DEF DeviceInv, HeldOnce, Once
    <3>7. NodeShape'
      BY <3>1 DEF DeviceInv, NodeShape, ProbeLabel, GoneLabel
    <3>8. HandleShape'
      BY <3>1, <2>2 DEF DeviceInv, DeviceType, HandleShape
    <3>9. RefsCounted'
      BY <3>1 DEF DeviceInv, DeviceType, NodeShape, RefsCounted, Count, HasV4l2, HasHdl, HasState, ProbeLabel, GoneLabel
    <3>10. UsersCounted'
      BY <3>1 DEF DeviceInv, DeviceType, UsersCounted, Count
    <3>11. FlightShape'
      BY <3>1 DEF DeviceInv, DeviceType, FlightShape, NodeShape, Present, Disconnecting, ProbeLabel, GoneLabel
    <3>12. ControlsShown'
      BY <3>1 DEF DeviceInv, NodeShape, ControlsShown, ProbeLabel, GoneLabel
    <3> QED
      BY <3>5, <3>6, <3>7, <3>8, <3>9, <3>10, <3>11, <3>12 DEF DeviceInv
  <2> QED
    BY <1>13, <2>1, <2>2
<1>14. ASSUME FreeUrbs PROVE DeviceInv'
  <2>1. /\ pc = "err_free_urbs" /\ pc' = "err_free_dev"
        /\ UNCHANGED <<input, refs, node, inputNode, inputOpen, files, streaming, users, flying, disconnected, ctrl, vsvideo, panel>>
    BY <1>14 DEF FreeUrbs, Label, vars, probeVars, userVars, pipeVars, ctrlVars
  <2>2. Drop({"urbs"})
    BY <1>14 DEF FreeUrbs, Label
  <2>3. /\ held' \in [Resource -> Int]
         /\ held'["urbs"] = held["urbs"] - 1
         /\ held'["state"] = held["state"]
         /\ held'["usb"] = held["usb"]
         /\ held'["dev"] = held["dev"]
         /\ held'["input"] = held["input"]
         /\ held'["v4l2"] = held["v4l2"]
         /\ held'["hdl"] = held["hdl"]
    BY <2>2, DropTakes DEF Resource, DeviceInv, DeviceType
  <2>4. DeviceType'
    BY <2>1, <2>3 DEF DeviceInv, DeviceType
  <2>5. HeldOnce'
    BY <2>1, <2>3 DEF DeviceInv, DeviceType, HeldOnce, NodeShape, Once, HasState, HasUrbs, HasInput, HasV4l2, HasHdl, ProbeLabel, GoneLabel
  <2>6. NodeShape'
    BY <2>1 DEF DeviceInv, NodeShape, ProbeLabel, GoneLabel
  <2>7. HandleShape'
    BY <2>1 DEF DeviceInv, DeviceType, HandleShape
  <2>8. RefsCounted'
    BY <2>1 DEF DeviceInv, DeviceType, NodeShape, RefsCounted, Count, HasV4l2, HasHdl, HasState, ProbeLabel, GoneLabel
  <2>9. UsersCounted'
    BY <2>1 DEF DeviceInv, DeviceType, UsersCounted, Count
  <2>10. FlightShape'
    BY <2>1 DEF DeviceInv, DeviceType, FlightShape, NodeShape, Present, Disconnecting, ProbeLabel, GoneLabel
  <2>11. ControlsShown'
    BY <2>1 DEF DeviceInv, NodeShape, ControlsShown, ProbeLabel, GoneLabel
  <2> QED
    BY <2>4, <2>5, <2>6, <2>7, <2>8, <2>9, <2>10, <2>11 DEF DeviceInv
<1>15. ASSUME FreeDev PROVE DeviceInv'
  <2>1. /\ pc = "err_free_dev" /\ pc' = "failed"
        /\ UNCHANGED <<input, refs, node, inputNode, inputOpen, files, streaming, users, flying, disconnected, ctrl, vsvideo, panel>>
    BY <1>15 DEF FreeDev, Label, vars, probeVars, userVars, pipeVars, ctrlVars
  <2>2. Drop({"dev", "usb", "state"})
    BY <1>15 DEF FreeDev, Label
  <2>3. /\ held' \in [Resource -> Int]
         /\ held'["dev"] = held["dev"] - 1
         /\ held'["usb"] = held["usb"] - 1
         /\ held'["state"] = held["state"] - 1
         /\ held'["urbs"] = held["urbs"]
         /\ held'["input"] = held["input"]
         /\ held'["v4l2"] = held["v4l2"]
         /\ held'["hdl"] = held["hdl"]
    BY <2>2, DropTakes DEF Resource, DeviceInv, DeviceType
  <2>4. DeviceType'
    BY <2>1, <2>3 DEF DeviceInv, DeviceType
  <2>5. HeldOnce'
    BY <2>1, <2>3 DEF DeviceInv, DeviceType, HeldOnce, NodeShape, Once, HasState, HasUrbs, HasInput, HasV4l2, HasHdl, ProbeLabel, GoneLabel
  <2>6. NodeShape'
    BY <2>1 DEF DeviceInv, NodeShape, ProbeLabel, GoneLabel
  <2>7. HandleShape'
    BY <2>1 DEF DeviceInv, DeviceType, HandleShape
  <2>8. RefsCounted'
    BY <2>1 DEF DeviceInv, DeviceType, NodeShape, RefsCounted, Count, HasV4l2, HasHdl, HasState, ProbeLabel, GoneLabel
  <2>9. UsersCounted'
    BY <2>1 DEF DeviceInv, DeviceType, UsersCounted, Count
  <2>10. FlightShape'
    BY <2>1 DEF DeviceInv, DeviceType, FlightShape, NodeShape, Present, Disconnecting, ProbeLabel, GoneLabel
  <2>11. ControlsShown'
    BY <2>1 DEF DeviceInv, NodeShape, ControlsShown, ProbeLabel, GoneLabel
  <2> QED
    BY <2>4, <2>5, <2>6, <2>7, <2>8, <2>9, <2>10, <2>11 DEF DeviceInv
<1>16. ASSUME Disconnect PROVE DeviceInv'
  <2>1. /\ pc = "bound" /\ pc' = "poison"
        /\ UNCHANGED <<input, held, refs, node, inputNode, inputOpen, files, streaming, users, flying, disconnected, ctrl, vsvideo, panel>>
    BY <1>16 DEF Disconnect, Quiet, vars, probeVars, userVars, pipeVars, ctrlVars
  <2>2. DeviceType'
    BY <2>1 DEF DeviceInv, DeviceType
  <2>3. HeldOnce'
    BY <2>1 DEF DeviceInv, DeviceType, HeldOnce, NodeShape, Once, HasState, HasUrbs, HasInput, HasV4l2, HasHdl, ProbeLabel, GoneLabel
  <2>4. NodeShape'
    BY <2>1 DEF DeviceInv, NodeShape, ProbeLabel, GoneLabel
  <2>5. HandleShape'
    BY <2>1 DEF DeviceInv, DeviceType, HandleShape
  <2>6. RefsCounted'
    BY <2>1 DEF DeviceInv, DeviceType, NodeShape, RefsCounted, Count, HasV4l2, HasHdl, HasState, ProbeLabel, GoneLabel
  <2>7. UsersCounted'
    BY <2>1 DEF DeviceInv, DeviceType, UsersCounted, Count
  <2>8. FlightShape'
    BY <2>1 DEF DeviceInv, DeviceType, FlightShape, NodeShape, Present, Disconnecting, ProbeLabel, GoneLabel
  <2>9. ControlsShown'
    BY <2>1 DEF DeviceInv, NodeShape, ControlsShown, ProbeLabel, GoneLabel
  <2> QED
    BY <2>2, <2>3, <2>4, <2>5, <2>6, <2>7, <2>8, <2>9 DEF DeviceInv
<1>17. ASSUME Poison PROVE DeviceInv'
  <2>1. /\ pc = "poison" /\ pc' = "flag"
        /\ flying' = FALSE
        /\ UNCHANGED <<input, held, refs, node, inputNode, inputOpen, files, streaming, users, disconnected, ctrl, vsvideo, panel>>
    BY <1>17 DEF Poison, vars, probeVars, userVars, pipeVars, ctrlVars
  <2>2. DeviceType'
    BY <2>1 DEF DeviceInv, DeviceType
  <2>3. HeldOnce'
    BY <2>1 DEF DeviceInv, DeviceType, HeldOnce, NodeShape, Once, HasState, HasUrbs, HasInput, HasV4l2, HasHdl, ProbeLabel, GoneLabel
  <2>4. NodeShape'
    BY <2>1 DEF DeviceInv, NodeShape, ProbeLabel, GoneLabel
  <2>5. HandleShape'
    BY <2>1 DEF DeviceInv, DeviceType, HandleShape
  <2>6. RefsCounted'
    BY <2>1 DEF DeviceInv, DeviceType, NodeShape, RefsCounted, Count, HasV4l2, HasHdl, HasState, ProbeLabel, GoneLabel
  <2>7. UsersCounted'
    BY <2>1 DEF DeviceInv, DeviceType, UsersCounted, Count
  <2>8. FlightShape'
    BY <2>1 DEF DeviceInv, DeviceType, FlightShape, NodeShape, Present, Disconnecting, ProbeLabel, GoneLabel
  <2>9. ControlsShown'
    BY <2>1 DEF DeviceInv, NodeShape, ControlsShown, ProbeLabel, GoneLabel
  <2> QED
    BY <2>2, <2>3, <2>4, <2>5, <2>6, <2>7, <2>8, <2>9 DEF DeviceInv
<1>18. ASSUME SetDisconnected PROVE DeviceInv'
  <2>1. /\ pc = "flag" /\ pc' = "unregister"
        /\ disconnected' = TRUE
        /\ UNCHANGED <<input, held, refs, node, inputNode, inputOpen, files, streaming, users, flying, ctrl, vsvideo, panel>>
    BY <1>18 DEF SetDisconnected, vars, probeVars, userVars, pipeVars, ctrlVars
  <2>2. DeviceType'
    BY <2>1 DEF DeviceInv, DeviceType
  <2>3. HeldOnce'
    BY <2>1 DEF DeviceInv, DeviceType, HeldOnce, NodeShape, Once, HasState, HasUrbs, HasInput, HasV4l2, HasHdl, ProbeLabel, GoneLabel
  <2>4. NodeShape'
    BY <2>1 DEF DeviceInv, NodeShape, ProbeLabel, GoneLabel
  <2>5. HandleShape'
    BY <2>1 DEF DeviceInv, DeviceType, HandleShape
  <2>6. RefsCounted'
    BY <2>1 DEF DeviceInv, DeviceType, NodeShape, RefsCounted, Count, HasV4l2, HasHdl, HasState, ProbeLabel, GoneLabel
  <2>7. UsersCounted'
    BY <2>1 DEF DeviceInv, DeviceType, UsersCounted, Count
  <2>8. FlightShape'
    BY <2>1 DEF DeviceInv, DeviceType, FlightShape, NodeShape, Present, Disconnecting, ProbeLabel, GoneLabel
  <2>9. ControlsShown'
    BY <2>1 DEF DeviceInv, NodeShape, ControlsShown, ProbeLabel, GoneLabel
  <2> QED
    BY <2>2, <2>3, <2>4, <2>5, <2>6, <2>7, <2>8, <2>9 DEF DeviceInv
<1>19. ASSUME UnregisterNode PROVE DeviceInv'
  <2>1. CASE files > 0
    <3>1. /\ pc = "unregister" /\ pc' = "input_gone"
          /\ node' = "unregistered"
          /\ UNCHANGED <<input, held, refs, inputNode, inputOpen, files, streaming, users, flying, disconnected, ctrl, vsvideo, panel>>
      BY <1>19, <2>1 DEF UnregisterNode, Quiet, NodeGone, vars, probeVars, userVars, pipeVars, ctrlVars
    <3>2. DeviceType'
      BY <3>1 DEF DeviceInv, DeviceType
    <3>3. HeldOnce'
      BY <3>1 DEF DeviceInv, DeviceType, HeldOnce, NodeShape, Once, HasState, HasUrbs, HasInput, HasV4l2, HasHdl, ProbeLabel, GoneLabel
    <3>4. NodeShape'
      BY <3>1 DEF DeviceInv, NodeShape, ProbeLabel, GoneLabel
    <3>5. HandleShape'
      BY <3>1, <2>1 DEF DeviceInv, DeviceType, HandleShape
    <3>6. RefsCounted'
      BY <3>1 DEF DeviceInv, DeviceType, NodeShape, RefsCounted, Count, HasV4l2, HasHdl, HasState, ProbeLabel, GoneLabel
    <3>7. UsersCounted'
      BY <3>1 DEF DeviceInv, DeviceType, UsersCounted, Count
    <3>8. FlightShape'
      BY <3>1 DEF DeviceInv, DeviceType, FlightShape, NodeShape, Present, Disconnecting, ProbeLabel, GoneLabel
    <3>9. ControlsShown'
      BY <3>1 DEF DeviceInv, NodeShape, ControlsShown, ProbeLabel, GoneLabel
    <3> QED
      BY <3>2, <3>3, <3>4, <3>5, <3>6, <3>7, <3>8, <3>9 DEF DeviceInv
  <2>2. CASE ~(files > 0)
    <3>a1. pc = "unregister" /\ node' = "released" /\ Put
      BY <1>19, <2>2 DEF UnregisterNode, NodeGone
    <3>a2. refs = 2 /\ refs' = 1 /\ held' = held
      BY <1>19, <2>2, Counters, <3>a1 DEF Put
    <3>1. /\ pc = "unregister" /\ pc' = "input_gone"
          /\ node' = "released"
          /\ refs = 2 /\ refs' = 1
          /\ UNCHANGED <<input, held, inputNode, inputOpen, files, streaming, users, flying, disconnected, ctrl, vsvideo, panel>>
      BY <1>19, <2>2, <3>a1, <3>a2 DEF UnregisterNode, Quiet, vars, probeVars, userVars, pipeVars, ctrlVars
    <3>2. DeviceType'
      BY <3>1, Counters DEF DeviceInv, DeviceType
    <3>3. HeldOnce'
      BY <3>1 DEF DeviceInv, DeviceType, HeldOnce, NodeShape, Once, HasState, HasUrbs, HasInput, HasV4l2, HasHdl, ProbeLabel, GoneLabel
    <3>4. NodeShape'
      BY <3>1 DEF DeviceInv, NodeShape, ProbeLabel, GoneLabel
    <3>5. HandleShape'
      BY <3>1, <2>2 DEF DeviceInv, DeviceType, HandleShape
    <3>6. RefsCounted'
      BY <3>1 DEF DeviceInv, DeviceType, NodeShape, RefsCounted, Count, HasV4l2, HasHdl, HasState, ProbeLabel, GoneLabel
    <3>7. UsersCounted'
      BY <3>1 DEF DeviceInv, DeviceType, UsersCounted, Count
    <3>8. FlightShape'
      BY <3>1 DEF DeviceInv, DeviceType, FlightShape, NodeShape, Present, Disconnecting, ProbeLabel, GoneLabel
    <3>9. ControlsShown'
      BY <3>1 DEF DeviceInv, NodeShape, ControlsShown, ProbeLabel, GoneLabel
    <3> QED
      BY <3>2, <3>3, <3>4, <3>5, <3>6, <3>7, <3>8, <3>9 DEF DeviceInv
  <2> QED
    BY <1>19, <2>1, <2>2
<1>20. ASSUME DisconnectInput PROVE DeviceInv'
  <2>1. CASE inputOpen
    <3>1. /\ pc = "input_gone" /\ pc' = "put"
          /\ inputNode' = FALSE /\ inputOpen' = FALSE
          /\ UNCHANGED <<input, refs, node, files, streaming, disconnected, ctrl, vsvideo, panel>>
      BY <1>20, <2>1 DEF DisconnectInput, UnregisterInput, LeavePipeline, vars, probeVars, userVars, pipeVars, ctrlVars
    <3>p. /\ users' = users - 1
          /\ users > 1 \/ disconnected => flying' = flying
          /\ ~(users > 1 \/ disconnected) => flying' = FALSE
      BY <1>20, <2>1 DEF DisconnectInput, UnregisterInput, LeavePipeline
    <3>n. users' \in Nat
      BY <3>p, <3>1, <2>1, UsersThere DEF DeviceInv, DeviceType
    <3>b. flying' \in BOOLEAN
      BY <3>p DEF DeviceInv, DeviceType
    <3>2. Drop({"input"})
      BY <1>20, <2>1 DEF DisconnectInput
    <3>3. /\ held' \in [Resource -> Int]
           /\ held'["input"] = held["input"] - 1
           /\ held'["state"] = held["state"]
           /\ held'["usb"] = held["usb"]
           /\ held'["dev"] = held["dev"]
           /\ held'["urbs"] = held["urbs"]
           /\ held'["v4l2"] = held["v4l2"]
           /\ held'["hdl"] = held["hdl"]
      BY <3>2, DropTakes DEF Resource, DeviceInv, DeviceType
    <3>4. HasInput /\ ~HasInput'
      BY <3>1, <1>20, <2>1 DEF HasInput
    <3>5. /\ HasState' <=> HasState
          /\ HasUrbs' <=> HasUrbs
          /\ HasV4l2' <=> HasV4l2
          /\ HasHdl' <=> HasHdl
      BY <3>1, <1>20, <2>1 DEF HasState, HasUrbs, HasInput, HasV4l2, HasHdl, GoneLabel
    <3>6. DeviceType'
      BY <3>1, <3>3, <3>4, <3>5, <3>n, <3>b DEF DeviceInv, DeviceType
    <3>7. HeldOnce'
      BY <3>1, <3>3, <3>4, <3>5 DEF DeviceInv, HeldOnce, Once
    <3>8. NodeShape'
      BY <3>1 DEF DeviceInv, NodeShape, ProbeLabel, GoneLabel
    <3>9. HandleShape'
      BY <3>1, <2>1 DEF DeviceInv, DeviceType, HandleShape
    <3>10. RefsCounted'
      BY <3>1 DEF DeviceInv, DeviceType, NodeShape, RefsCounted, Count, HasV4l2, HasHdl, HasState, ProbeLabel, GoneLabel
    <3>11. UsersCounted'
      BY <3>1, <3>p, <2>1 DEF DeviceInv, DeviceType, UsersCounted, Count
    <3>12. FlightShape'
      BY <3>1, <3>p, <3>n, <3>b, UsersThere DEF DeviceInv, DeviceType, FlightShape, NodeShape, Present, Disconnecting, ProbeLabel, GoneLabel
    <3>13. ControlsShown'
      BY <3>1 DEF DeviceInv, NodeShape, ControlsShown, ProbeLabel, GoneLabel
    <3> QED
      BY <3>6, <3>7, <3>8, <3>9, <3>10, <3>11, <3>12, <3>13 DEF DeviceInv
  <2>2. CASE ~inputOpen
    <3>1. /\ pc = "input_gone" /\ pc' = "put"
          /\ inputNode' = FALSE /\ inputOpen' = FALSE
          /\ UNCHANGED <<input, refs, node, files, streaming, users, flying, disconnected, ctrl, vsvideo, panel>>
      BY <1>20, <2>2 DEF DisconnectInput, UnregisterInput, vars, probeVars, userVars, pipeVars, ctrlVars
    <3>2. Drop({"input"})
      BY <1>20, <2>2 DEF DisconnectInput
    <3>3. /\ held' \in [Resource -> Int]
           /\ held'["input"] = held["input"] - 1
           /\ held'["state"] = held["state"]
           /\ held'["usb"] = held["usb"]
           /\ held'["dev"] = held["dev"]
           /\ held'["urbs"] = held["urbs"]
           /\ held'["v4l2"] = held["v4l2"]
           /\ held'["hdl"] = held["hdl"]
      BY <3>2, DropTakes DEF Resource, DeviceInv, DeviceType
    <3>4. HasInput /\ ~HasInput'
      BY <3>1, <1>20, <2>2 DEF HasInput
    <3>5. /\ HasState' <=> HasState
          /\ HasUrbs' <=> HasUrbs
          /\ HasV4l2' <=> HasV4l2
          /\ HasHdl' <=> HasHdl
      BY <3>1, <1>20, <2>2 DEF HasState, HasUrbs, HasInput, HasV4l2, HasHdl, GoneLabel
    <3>6. DeviceType'
      BY <3>1, <3>3, <3>4, <3>5 DEF DeviceInv, DeviceType
    <3>7. HeldOnce'
      BY <3>1, <3>3, <3>4, <3>5 DEF DeviceInv, HeldOnce, Once
    <3>8. NodeShape'
      BY <3>1 DEF DeviceInv, NodeShape, ProbeLabel, GoneLabel
    <3>9. HandleShape'
      BY <3>1, <2>2 DEF DeviceInv, DeviceType, HandleShape
    <3>10. RefsCounted'
      BY <3>1 DEF DeviceInv, DeviceType, NodeShape, RefsCounted, Count, HasV4l2, HasHdl, HasState, ProbeLabel, GoneLabel
    <3>11. UsersCounted'
      BY <3>1, <2>2 DEF DeviceInv, DeviceType, UsersCounted, Count
    <3>12. FlightShape'
      BY <3>1 DEF DeviceInv, DeviceType, FlightShape, NodeShape, Present, Disconnecting, ProbeLabel, GoneLabel
    <3>13. ControlsShown'
      BY <3>1 DEF DeviceInv, NodeShape, ControlsShown, ProbeLabel, GoneLabel
    <3> QED
      BY <3>6, <3>7, <3>8, <3>9, <3>10, <3>11, <3>12, <3>13 DEF DeviceInv
  <2> QED
    BY <1>20, <2>1, <2>2
<1>21. ASSUME LastPut PROVE DeviceInv'
  <2>1. CASE node = "unregistered"
    <3>a1. pc = "put" /\ Put /\ UNCHANGED node
      BY <1>21, <2>1 DEF LastPut
    <3>a2. refs = 2 /\ refs' = 1 /\ held' = held
      BY <1>21, <2>1, Counters, <3>a1 DEF Put
    <3>1. /\ pc = "put" /\ pc' = "unbound"
          /\ refs = 2 /\ refs' = 1
          /\ UNCHANGED <<input, held, node, inputNode, inputOpen, files, streaming, users, flying, disconnected, ctrl, vsvideo, panel>>
      BY <1>21, <2>1, <3>a1, <3>a2 DEF LastPut, Quiet, vars, probeVars, userVars, pipeVars, ctrlVars
    <3>2. /\ HasState' <=> HasState
          /\ HasUrbs' <=> HasUrbs
          /\ HasInput' <=> HasInput
          /\ HasV4l2' <=> HasV4l2
          /\ HasHdl' <=> HasHdl
      BY <3>1, <1>21, <2>1, <3>a1, <3>a2 DEF HasState, HasUrbs, HasInput, HasV4l2, HasHdl, GoneLabel
    <3>3. DeviceType'
      BY <3>1, <3>2, Counters DEF DeviceInv, DeviceType
    <3>4. HeldOnce'
      BY <3>1, <3>2 DEF DeviceInv, HeldOnce, Once
    <3>5. NodeShape'
      BY <3>1 DEF DeviceInv, NodeShape, ProbeLabel, GoneLabel
    <3>6. HandleShape'
      BY <3>1, <2>1 DEF DeviceInv, DeviceType, HandleShape
    <3>7. RefsCounted'
      BY <3>1 DEF DeviceInv, DeviceType, NodeShape, RefsCounted, Count, HasV4l2, HasHdl, HasState, ProbeLabel, GoneLabel
    <3>8. UsersCounted'
      BY <3>1 DEF DeviceInv, DeviceType, UsersCounted, Count
    <3>9. FlightShape'
      BY <3>1 DEF DeviceInv, DeviceType, FlightShape, NodeShape, Present, Disconnecting, ProbeLabel, GoneLabel
    <3>10. ControlsShown'
      BY <3>1 DEF DeviceInv, NodeShape, ControlsShown, ProbeLabel, GoneLabel
    <3> QED
      BY <3>3, <3>4, <3>5, <3>6, <3>7, <3>8, <3>9, <3>10 DEF DeviceInv
  <2>2. CASE node # "unregistered"
    <3>a1. pc = "put" /\ Put /\ UNCHANGED node
      BY <1>21, <2>2 DEF LastPut
    <3>a2. node = "released" /\ refs = 1 /\ refs' = 0 /\ Release
      BY <1>21, <2>2, Counters, <3>a1 DEF Put
    <3>1. /\ pc = "put" /\ pc' = "unbound"
          /\ node = "released"
          /\ refs = 1 /\ refs' = 0
          /\ UNCHANGED <<input, node, inputNode, inputOpen, files, streaming, users, flying, disconnected, ctrl, vsvideo, panel>>
      BY <1>21, <2>2, <3>a1, <3>a2 DEF LastPut, Quiet, vars, probeVars, userVars, pipeVars, ctrlVars
    <3>2. Drop({"hdl", "v4l2", "urbs", "dev", "usb", "state"})
      BY <1>21, <2>2, <3>a1, <3>a2 DEF LastPut, Release
    <3>3. /\ held' \in [Resource -> Int]
           /\ held'["hdl"] = held["hdl"] - 1
           /\ held'["v4l2"] = held["v4l2"] - 1
           /\ held'["urbs"] = held["urbs"] - 1
           /\ held'["dev"] = held["dev"] - 1
           /\ held'["usb"] = held["usb"] - 1
           /\ held'["state"] = held["state"] - 1
           /\ held'["input"] = held["input"]
      BY <3>2, DropTakes DEF Resource, DeviceInv, DeviceType
    <3>4. HasState /\ HasUrbs /\ ~HasInput /\ HasV4l2 /\ HasHdl
      BY <3>1, <1>21, <2>2, <3>a1, <3>a2 DEF HasState, HasUrbs, HasInput, HasV4l2, HasHdl, GoneLabel
    <3>5. ~HasState' /\ ~HasUrbs' /\ ~HasInput' /\ ~HasV4l2' /\ ~HasHdl'
      BY <3>1, <1>21, <2>2, <3>a1, <3>a2 DEF HasState, HasUrbs, HasInput, HasV4l2, HasHdl
    <3>6. DeviceType'
      BY <3>1, <3>3, <3>4, <3>5, Counters DEF DeviceInv, DeviceType
    <3>7. HeldOnce'
      BY <3>1, <3>3, <3>4, <3>5 DEF DeviceInv, HeldOnce, Once
    <3>8. NodeShape'
      BY <3>1 DEF DeviceInv, NodeShape, ProbeLabel, GoneLabel
    <3>9. HandleShape'
      BY <3>1, <2>2 DEF DeviceInv, DeviceType, HandleShape
    <3>10. RefsCounted'
      BY <3>1 DEF DeviceInv, DeviceType, NodeShape, RefsCounted, Count, HasV4l2, HasHdl, HasState, ProbeLabel, GoneLabel
    <3>11. UsersCounted'
      BY <3>1 DEF DeviceInv, DeviceType, UsersCounted, Count
    <3>12. FlightShape'
      BY <3>1 DEF DeviceInv, DeviceType, FlightShape, NodeShape, Present, Disconnecting, ProbeLabel, GoneLabel
    <3>13. ControlsShown'
      BY <3>1 DEF DeviceInv, NodeShape, ControlsShown, ProbeLabel, GoneLabel
    <3> QED
      BY <3>6, <3>7, <3>8, <3>9, <3>10, <3>11, <3>12, <3>13 DEF DeviceInv
  <2> QED
    BY <1>21, <2>1, <2>2
<1>22. ASSUME Replug PROVE DeviceInv'
  <2>1. /\ pc = "failed" \/ (pc = "unbound" /\ node = "released")
        /\ pc' = "alloc" /\ input' = FALSE /\ node' = "none" /\ disconnected' = FALSE
        /\ UNCHANGED <<held, refs, inputNode, inputOpen, files, streaming, users, flying, ctrl, vsvideo, panel>>
    BY <1>22 DEF Replug, Gone, vars, probeVars, userVars, pipeVars, ctrlVars
  <2>2. DeviceType'
    BY <2>1 DEF DeviceInv, DeviceType
  <2>3. HeldOnce'
    BY <2>1 DEF DeviceInv, DeviceType, HeldOnce, NodeShape, Once, HasState, HasUrbs, HasInput, HasV4l2, HasHdl, ProbeLabel, GoneLabel
  <2>4. NodeShape'
    BY <2>1 DEF DeviceInv, NodeShape, ProbeLabel, GoneLabel
  <2>5. HandleShape'
    BY <2>1 DEF DeviceInv, DeviceType, HandleShape, NodeShape, ProbeLabel, GoneLabel
  <2>6. RefsCounted'
    BY <2>1 DEF DeviceInv, DeviceType, NodeShape, RefsCounted, Count, HasV4l2, HasHdl, HasState, ProbeLabel, GoneLabel
  <2>7. UsersCounted'
    BY <2>1 DEF DeviceInv, DeviceType, UsersCounted, Count
  <2>8. FlightShape'
    BY <2>1 DEF DeviceInv, DeviceType, FlightShape, NodeShape, Present, Disconnecting, ProbeLabel, GoneLabel
  <2>9. ControlsShown'
    BY <2>1 DEF DeviceInv, NodeShape, ControlsShown, ProbeLabel, GoneLabel
  <2> QED
    BY <2>2, <2>3, <2>4, <2>5, <2>6, <2>7, <2>8, <2>9 DEF DeviceInv
<1>23. ASSUME OpenInput PROVE DeviceInv'
  <2>1. /\ inputNode /\ ~inputOpen /\ inputOpen' = TRUE
        /\ UNCHANGED <<pc, input, held, refs, node, inputNode, files, streaming, disconnected, ctrl, vsvideo, panel>>
    BY <1>23 DEF OpenInput, Others, JoinPipeline, vars, probeVars, userVars, pipeVars, ctrlVars
  <2>p. /\ users' = users + 1
        /\ users > 0 \/ Present
        /\ users = 0 => flying' = TRUE
        /\ users # 0 => flying' = flying
    BY <1>23 DEF OpenInput, Others, JoinPipeline
  <2>n. users' \in Nat
    BY <2>p, <2>1, UsersThere DEF DeviceInv, DeviceType
  <2>b. flying' \in BOOLEAN
    BY <2>p DEF DeviceInv, DeviceType
  <2>2. /\ HasState' <=> HasState
        /\ HasUrbs' <=> HasUrbs
        /\ HasInput' <=> HasInput
        /\ HasV4l2' <=> HasV4l2
        /\ HasHdl' <=> HasHdl
    BY <2>1, <1>23 DEF HasState, HasUrbs, HasInput, HasV4l2, HasHdl
  <2>3. DeviceType'
    BY <2>1, <2>2, <2>n, <2>b DEF DeviceInv, DeviceType
  <2>4. HeldOnce'
    BY <2>1, <2>2 DEF DeviceInv, HeldOnce, Once
  <2>5. NodeShape'
    BY <2>1 DEF DeviceInv, NodeShape
  <2>6. HandleShape'
    BY <2>1 DEF DeviceInv, DeviceType, HandleShape
  <2>7. RefsCounted'
    BY <2>1 DEF DeviceInv, DeviceType, RefsCounted, Count, HasV4l2, HasHdl, HasState
  <2>8. UsersCounted'
    BY <2>1, <2>p DEF DeviceInv, DeviceType, UsersCounted, Count
  <2>s. Present' <=> Present
    BY <2>1 DEF Present, Disconnecting
  <2>9. FlightShape'
    BY <2>1, <2>p, <2>n, <2>b, UsersThere, <2>s DEF DeviceInv, DeviceType, FlightShape
  <2>10. ControlsShown'
    BY <2>1 DEF DeviceInv, ControlsShown
  <2> QED
    BY <2>3, <2>4, <2>5, <2>6, <2>7, <2>8, <2>9, <2>10 DEF DeviceInv
<1>24. ASSUME CloseInput PROVE DeviceInv'
  <2>1. /\ inputNode /\ inputOpen /\ inputOpen' = FALSE
        /\ UNCHANGED <<pc, input, held, refs, node, inputNode, files, streaming, disconnected, ctrl, vsvideo, panel>>
    BY <1>24 DEF CloseInput, Others, LeavePipeline, vars, probeVars, userVars, pipeVars, ctrlVars
  <2>p. /\ users' = users - 1
        /\ users > 1 \/ disconnected => flying' = flying
        /\ ~(users > 1 \/ disconnected) => flying' = FALSE
    BY <1>24 DEF CloseInput, Others, LeavePipeline
  <2>n. users' \in Nat
    BY <2>p, <2>1, UsersThere DEF DeviceInv, DeviceType
  <2>b. flying' \in BOOLEAN
    BY <2>p DEF DeviceInv, DeviceType
  <2>2. /\ HasState' <=> HasState
        /\ HasUrbs' <=> HasUrbs
        /\ HasInput' <=> HasInput
        /\ HasV4l2' <=> HasV4l2
        /\ HasHdl' <=> HasHdl
    BY <2>1, <1>24 DEF HasState, HasUrbs, HasInput, HasV4l2, HasHdl
  <2>3. DeviceType'
    BY <2>1, <2>2, <2>n, <2>b DEF DeviceInv, DeviceType
  <2>4. HeldOnce'
    BY <2>1, <2>2 DEF DeviceInv, HeldOnce, Once
  <2>5. NodeShape'
    BY <2>1 DEF DeviceInv, NodeShape
  <2>6. HandleShape'
    BY <2>1 DEF DeviceInv, DeviceType, HandleShape
  <2>7. RefsCounted'
    BY <2>1 DEF DeviceInv, DeviceType, RefsCounted, Count, HasV4l2, HasHdl, HasState
  <2>8. UsersCounted'
    BY <2>1, <2>p DEF DeviceInv, DeviceType, UsersCounted, Count
  <2>s. Present' <=> Present
    BY <2>1 DEF Present, Disconnecting
  <2>9. FlightShape'
    BY <2>1, <2>p, <2>n, <2>b, UsersThere, <2>s DEF DeviceInv, DeviceType, FlightShape
  <2>10. ControlsShown'
    BY <2>1 DEF DeviceInv, ControlsShown
  <2> QED
    BY <2>3, <2>4, <2>5, <2>6, <2>7, <2>8, <2>9, <2>10 DEF DeviceInv
<1>25. ASSUME OpenVideo PROVE DeviceInv'
  <2>1. /\ node = "registered" /\ files' = files + 1
        /\ UNCHANGED <<pc, input, held, refs, node, inputNode, inputOpen, streaming, users, flying, disconnected, ctrl, vsvideo, panel>>
    BY <1>25 DEF OpenVideo, Others, vars, probeVars, userVars, pipeVars, ctrlVars
  <2>2. /\ HasState' <=> HasState
        /\ HasUrbs' <=> HasUrbs
        /\ HasInput' <=> HasInput
        /\ HasV4l2' <=> HasV4l2
        /\ HasHdl' <=> HasHdl
    BY <2>1, <1>25 DEF HasState, HasUrbs, HasInput, HasV4l2, HasHdl
  <2>3. DeviceType'
    BY <2>1, <2>2 DEF DeviceInv, DeviceType
  <2>4. HeldOnce'
    BY <2>1, <2>2 DEF DeviceInv, HeldOnce, Once
  <2>5. NodeShape'
    BY <2>1 DEF DeviceInv, NodeShape
  <2>6. HandleShape'
    BY <2>1 DEF DeviceInv, DeviceType, HandleShape
  <2>7. RefsCounted'
    BY <2>1 DEF DeviceInv, DeviceType, RefsCounted, Count, HasV4l2, HasHdl, HasState
  <2>8. UsersCounted'
    BY <2>1 DEF DeviceInv, DeviceType, UsersCounted, Count
  <2>s. Present' <=> Present
    BY <2>1 DEF Present, Disconnecting
  <2>9. FlightShape'
    BY <2>1, <2>s DEF DeviceInv, DeviceType, FlightShape
  <2>10. ControlsShown'
    BY <2>1 DEF DeviceInv, ControlsShown
  <2> QED
    BY <2>3, <2>4, <2>5, <2>6, <2>7, <2>8, <2>9, <2>10 DEF DeviceInv
<1>26. ASSUME StreamOn PROVE DeviceInv'
  <2>1. /\ node = "registered" /\ files > 0
        /\ ~streaming /\ streaming' = TRUE
        /\ UNCHANGED <<pc, input, held, refs, node, inputNode, inputOpen, files, disconnected, ctrl, vsvideo, panel>>
    BY <1>26 DEF StreamOn, Others, JoinPipeline, vars, probeVars, userVars, pipeVars, ctrlVars
  <2>p. /\ users' = users + 1
        /\ users > 0 \/ Present
        /\ users = 0 => flying' = TRUE
        /\ users # 0 => flying' = flying
    BY <1>26 DEF StreamOn, Others, JoinPipeline
  <2>n. users' \in Nat
    BY <2>p, <2>1, UsersThere DEF DeviceInv, DeviceType
  <2>b. flying' \in BOOLEAN
    BY <2>p DEF DeviceInv, DeviceType
  <2>2. /\ HasState' <=> HasState
        /\ HasUrbs' <=> HasUrbs
        /\ HasInput' <=> HasInput
        /\ HasV4l2' <=> HasV4l2
        /\ HasHdl' <=> HasHdl
    BY <2>1, <1>26 DEF HasState, HasUrbs, HasInput, HasV4l2, HasHdl
  <2>3. DeviceType'
    BY <2>1, <2>2, <2>n, <2>b DEF DeviceInv, DeviceType
  <2>4. HeldOnce'
    BY <2>1, <2>2 DEF DeviceInv, HeldOnce, Once
  <2>5. NodeShape'
    BY <2>1 DEF DeviceInv, NodeShape
  <2>6. HandleShape'
    BY <2>1 DEF DeviceInv, DeviceType, HandleShape
  <2>7. RefsCounted'
    BY <2>1 DEF DeviceInv, DeviceType, RefsCounted, Count, HasV4l2, HasHdl, HasState
  <2>8. UsersCounted'
    BY <2>1, <2>p DEF DeviceInv, DeviceType, UsersCounted, Count
  <2>s. Present' <=> Present
    BY <2>1 DEF Present, Disconnecting
  <2>9. FlightShape'
    BY <2>1, <2>p, <2>n, <2>b, UsersThere, <2>s DEF DeviceInv, DeviceType, FlightShape
  <2>10. ControlsShown'
    BY <2>1 DEF DeviceInv, ControlsShown
  <2> QED
    BY <2>3, <2>4, <2>5, <2>6, <2>7, <2>8, <2>9, <2>10 DEF DeviceInv
<1>27. ASSUME StreamOff PROVE DeviceInv'
  <2>1. /\ streaming /\ streaming' = FALSE
        /\ UNCHANGED <<pc, input, held, refs, node, inputNode, inputOpen, files, disconnected, ctrl, vsvideo, panel>>
    BY <1>27 DEF StreamOff, Others, LeavePipeline, vars, probeVars, userVars, pipeVars, ctrlVars
  <2>p. /\ users' = users - 1
        /\ users > 1 \/ disconnected => flying' = flying
        /\ ~(users > 1 \/ disconnected) => flying' = FALSE
    BY <1>27 DEF StreamOff, Others, LeavePipeline
  <2>n. users' \in Nat
    BY <2>p, <2>1, UsersThere DEF DeviceInv, DeviceType
  <2>b. flying' \in BOOLEAN
    BY <2>p DEF DeviceInv, DeviceType
  <2>2. /\ HasState' <=> HasState
        /\ HasUrbs' <=> HasUrbs
        /\ HasInput' <=> HasInput
        /\ HasV4l2' <=> HasV4l2
        /\ HasHdl' <=> HasHdl
    BY <2>1, <1>27 DEF HasState, HasUrbs, HasInput, HasV4l2, HasHdl
  <2>3. DeviceType'
    BY <2>1, <2>2, <2>n, <2>b DEF DeviceInv, DeviceType
  <2>4. HeldOnce'
    BY <2>1, <2>2 DEF DeviceInv, HeldOnce, Once
  <2>5. NodeShape'
    BY <2>1 DEF DeviceInv, NodeShape
  <2>6. HandleShape'
    BY <2>1 DEF DeviceInv, DeviceType, HandleShape
  <2>7. RefsCounted'
    BY <2>1 DEF DeviceInv, DeviceType, RefsCounted, Count, HasV4l2, HasHdl, HasState
  <2>8. UsersCounted'
    BY <2>1, <2>p DEF DeviceInv, DeviceType, UsersCounted, Count
  <2>s. Present' <=> Present
    BY <2>1 DEF Present, Disconnecting
  <2>9. FlightShape'
    BY <2>1, <2>p, <2>n, <2>b, UsersThere, <2>s DEF DeviceInv, DeviceType, FlightShape
  <2>10. ControlsShown'
    BY <2>1 DEF DeviceInv, ControlsShown
  <2> QED
    BY <2>3, <2>4, <2>5, <2>6, <2>7, <2>8, <2>9, <2>10 DEF DeviceInv
<1>28. ASSUME CloseVideo PROVE DeviceInv'
  <2>1. /\ files > 0 /\ files' = files - 1 /\ files' \in Nat
        /\ UNCHANGED <<pc, input, inputNode, inputOpen, disconnected, ctrl, vsvideo, panel>>
    BY <1>28 DEF CloseVideo, Others, probeVars, ctrlVars, DeviceInv, DeviceType
  <2>2. /\ streaming' \in BOOLEAN /\ users' \in Nat /\ flying' \in BOOLEAN
        /\ streaming' => files' > 0
        /\ UsersCounted' /\ FlightShape'
    <3>1. CASE streaming /\ streaming' = FALSE /\ LeavePipeline
      <4>1. /\ users' = users - 1
            /\ users > 1 \/ disconnected => flying' = flying
            /\ ~(users > 1 \/ disconnected) => flying' = FALSE
        BY <3>1 DEF LeavePipeline
      <4>n. users' \in Nat
        BY <3>1, <4>1, UsersThere DEF DeviceInv, DeviceType
      <4>2. flying' \in BOOLEAN
        BY <4>1 DEF DeviceInv, DeviceType
      <4>3. UsersCounted'
        BY <2>1, <3>1, <4>1 DEF DeviceInv, DeviceType, UsersCounted, Count
      <4>5. Present' <=> Present
        BY <2>1 DEF Present, Disconnecting
      <4>4. FlightShape'
        BY <2>1, <4>1, <4>n, <4>2, <4>5, UsersThere DEF DeviceInv, DeviceType, FlightShape
      <4> QED
        BY <3>1, <4>n, <4>2, <4>3, <4>4
    <3>2. CASE (~streaming \/ files > 1) /\ UNCHANGED <<streaming, pipeVars>>
      <4>1. UNCHANGED <<streaming, users, flying>>
        BY <3>2 DEF pipeVars
      <4>2. streaming' => files' > 0
        BY <2>1, <3>2, <4>1 DEF DeviceInv, DeviceType
      <4>3. UsersCounted' /\ FlightShape'
        BY <2>1, <4>1 DEF DeviceInv, UsersCounted, FlightShape, Present, Disconnecting
      <4> QED
        BY <4>1, <4>2, <4>3 DEF DeviceInv, DeviceType
    <3>3. \/ streaming /\ streaming' = FALSE /\ LeavePipeline
          \/ (~streaming \/ files > 1) /\ UNCHANGED <<streaming, pipeVars>>
      BY <1>28 DEF CloseVideo
    <3> QED
      BY <3>1, <3>2, <3>3
  <2>3. /\ held' \in [Resource -> Int] /\ refs' \in Nat
        /\ HeldOnce' /\ NodeShape' /\ RefsCounted'
        /\ node' = "unregistered" => files' > 0
        /\ files' > 0 => node' \in {"registered", "unregistered"}
    <3>1. CASE ~(node = "unregistered" /\ files = 1)
      <4>1. UNCHANGED <<node, refs, held>> /\ (node = "unregistered" => files > 1)
        BY <1>28, <3>1 DEF CloseVideo, NodeGone, DeviceInv, DeviceType
      <4>2. /\ HasState' <=> HasState
            /\ HasUrbs' <=> HasUrbs
            /\ HasInput' <=> HasInput
            /\ HasV4l2' <=> HasV4l2
            /\ HasHdl' <=> HasHdl
        BY <2>1, <4>1 DEF HasState, HasUrbs, HasInput, HasV4l2, HasHdl
      <4>3. HeldOnce'
        BY <2>1, <4>1, <4>2 DEF DeviceInv, HeldOnce, Once
      <4>4. NodeShape'
        BY <2>1, <4>1 DEF DeviceInv, NodeShape
      <4>5. RefsCounted'
        BY <2>1, <4>1, <4>2 DEF DeviceInv, RefsCounted
      <4>6. /\ node' = "unregistered" => files' > 0
            /\ files' > 0 => node' \in {"registered", "unregistered"}
        BY <2>1, <4>1 DEF DeviceInv, HandleShape, DeviceType
      <4> QED
        BY <4>1, <4>3, <4>4, <4>5, <4>6 DEF DeviceInv, DeviceType
    <3>2. CASE node = "unregistered" /\ files = 1
      <4>1. node' = "released" /\ Put /\ files' = 0
        BY <1>28, <2>1, <3>2 DEF CloseVideo, NodeGone
      <4>2. NodeShape'
        BY <2>1, <3>2, <4>1 DEF DeviceInv, NodeShape, ProbeLabel
      <4>3. CASE pc = "unbound"
        <5>1. refs = 1 /\ refs' = 0 /\ Release
          BY <3>2, <4>1, <4>3, Counters DEF Put
        <5>2. Drop({"hdl", "v4l2", "urbs", "dev", "usb", "state"})
          BY <5>1 DEF Release
        <5>3. /\ held' \in [Resource -> Int]
              /\ held'["hdl"] = held["hdl"] - 1
              /\ held'["v4l2"] = held["v4l2"] - 1
              /\ held'["urbs"] = held["urbs"] - 1
              /\ held'["dev"] = held["dev"] - 1
              /\ held'["usb"] = held["usb"] - 1
              /\ held'["state"] = held["state"] - 1
              /\ held'["input"] = held["input"]
          BY <5>2, DropTakes DEF Resource, DeviceInv, DeviceType
        <5>4. HasState /\ HasUrbs /\ ~HasInput /\ HasV4l2 /\ HasHdl
          BY <3>2, <4>3 DEF HasState, HasUrbs, HasInput, HasV4l2, HasHdl, GoneLabel
        <5>5. ~HasState' /\ ~HasUrbs' /\ ~HasInput' /\ ~HasV4l2' /\ ~HasHdl'
          BY <2>1, <4>1, <4>3 DEF HasState, HasUrbs, HasInput, HasV4l2, HasHdl
        <5>6. HeldOnce'
          BY <2>1, <4>3, <5>3, <5>4, <5>5 DEF DeviceInv, HeldOnce, Once
        <5>7. RefsCounted'
          BY <5>5 DEF RefsCounted
        <5> QED
          BY <4>1, <4>2, <5>1, <5>3, <5>6, <5>7
      <4>4. CASE pc # "unbound"
        <5>1. refs = 2 /\ refs' = 1 /\ held' = held
          BY <3>2, <4>1, <4>4, Counters DEF Put
        <5>2. /\ HasState' <=> HasState
              /\ HasUrbs' <=> HasUrbs
              /\ HasInput' <=> HasInput
              /\ HasV4l2' <=> HasV4l2
              /\ HasHdl' <=> HasHdl
          BY <2>1, <4>4 DEF HasState, HasUrbs, HasInput, HasV4l2, HasHdl
        <5>3. HeldOnce'
          BY <2>1, <5>1, <5>2 DEF DeviceInv, HeldOnce, Once
        <5>4. RefsCounted'
          BY <2>1, <4>1, <4>4, <5>1 DEF RefsCounted, Count
        <5> QED
          BY <4>1, <4>2, <5>1, <5>3, <5>4 DEF DeviceInv, DeviceType
      <4> QED
        BY <4>3, <4>4
    <3> QED
      BY <3>1, <3>2
  <2>4. DeviceType'
    BY <2>1, <2>2, <2>3 DEF DeviceInv, DeviceType
  <2>5. HandleShape'
    BY <2>2, <2>3 DEF HandleShape
  <2>6. ControlsShown'
    BY <2>1 DEF DeviceInv, ControlsShown
  <2> QED
    BY <2>2, <2>3, <2>4, <2>5, <2>6 DEF DeviceInv
<1>29. ASSUME SetControl PROVE DeviceInv'
  <2>1. /\ node = "registered"
        /\ UNCHANGED <<pc, input, held, refs, node, inputNode, inputOpen, files, streaming, users, flying, disconnected>>
    BY <1>29 DEF SetControl, vars, probeVars, userVars, pipeVars, ctrlVars
  <2>2. /\ HasState' <=> HasState
        /\ HasUrbs' <=> HasUrbs
        /\ HasInput' <=> HasInput
        /\ HasV4l2' <=> HasV4l2
        /\ HasHdl' <=> HasHdl
    BY <2>1, <1>29 DEF HasState, HasUrbs, HasInput, HasV4l2, HasHdl
  <2>3. DeviceType'
    BY <2>1, <2>2 DEF DeviceInv, DeviceType
  <2>4. HeldOnce'
    BY <2>1, <2>2 DEF DeviceInv, HeldOnce, Once
  <2>5. NodeShape'
    BY <2>1 DEF DeviceInv, NodeShape
  <2>6. HandleShape'
    BY <2>1 DEF DeviceInv, DeviceType, HandleShape
  <2>7. RefsCounted'
    BY <2>1 DEF DeviceInv, DeviceType, RefsCounted, Count, HasV4l2, HasHdl, HasState
  <2>8. UsersCounted'
    BY <2>1 DEF DeviceInv, DeviceType, UsersCounted, Count
  <2>s. Present' <=> Present
    BY <2>1 DEF Present, Disconnecting
  <2>9. FlightShape'
    BY <2>1, <2>s DEF DeviceInv, DeviceType, FlightShape
    <2>10. ControlsShown'
      BY <1>29, SettingShows
  <2> QED
    BY <2>3, <2>4, <2>5, <2>6, <2>7, <2>8, <2>9, <2>10 DEF DeviceInv
<1>30. CASE UNCHANGED vars
  <2>1. UNCHANGED <<pc, input, held, refs, node, inputNode, inputOpen, files, streaming, users, flying, disconnected, ctrl, vsvideo, panel>>
    BY <1>30 DEF vars, probeVars, userVars, pipeVars, ctrlVars
  <2>h. /\ HasState' <=> HasState
        /\ HasUrbs' <=> HasUrbs
        /\ HasInput' <=> HasInput
        /\ HasV4l2' <=> HasV4l2
        /\ HasHdl' <=> HasHdl
    BY <2>1 DEF HasState, HasUrbs, HasInput, HasV4l2, HasHdl
  <2>2. DeviceType'
    BY <2>1 DEF DeviceInv, DeviceType
  <2>3. HeldOnce'
    BY <2>1, <2>h DEF DeviceInv, HeldOnce, Once
  <2>4. NodeShape'
    BY <2>1 DEF DeviceInv, NodeShape
  <2>5. HandleShape'
    BY <2>1 DEF DeviceInv, HandleShape
  <2>6. RefsCounted'
    BY <2>1 DEF DeviceInv, RefsCounted, HasState, HasV4l2, HasHdl
  <2>7. UsersCounted'
    BY <2>1 DEF DeviceInv, UsersCounted
  <2>8. FlightShape'
    BY <2>1 DEF DeviceInv, FlightShape, Present, Disconnecting
  <2>9. ControlsShown'
    BY <2>1 DEF DeviceInv, ControlsShown
  <2> QED
    BY <2>2, <2>3, <2>4, <2>5, <2>6, <2>7, <2>8, <2>9 DEF DeviceInv
<1> QED
  BY <1>1, <1>2, <1>3, <1>4, <1>5, <1>6, <1>7, <1>8, <1>9, <1>10, <1>11, <1>12, <1>13, <1>14, <1>15, <1>16, <1>17, <1>18, <1>19, <1>20, <1>21, <1>22, <1>23, <1>24, <1>25, <1>26, <1>27, <1>28, <1>29, <1>30 DEF Next, Probe

LEMMA InitHolds == Init => DeviceInv
<1> SUFFICES ASSUME Init PROVE DeviceInv
  OBVIOUS
<1>1. /\ pc = "alloc" /\ node = "none" /\ files = 0 /\ users = 0 /\ refs = 0
      /\ input = FALSE /\ inputNode = FALSE /\ inputOpen = FALSE
      /\ streaming = FALSE /\ flying = FALSE /\ disconnected = FALSE
  BY DEF Init
<1>2. held \in [Resource -> Int] /\ \A r \in Resource : held[r] = 0
  BY DEF Init
<1>3. DeviceType
  BY <1>1, <1>2 DEF DeviceType
<1>4. ~HasState /\ ~HasUrbs /\ ~HasInput /\ ~HasV4l2 /\ ~HasHdl
  BY <1>1 DEF HasState, HasUrbs, HasInput, HasV4l2, HasHdl
<1>5. HeldOnce
  BY <1>1, <1>2, <1>4 DEF HeldOnce, Once, Resource
<1>6. NodeShape /\ HandleShape
  BY <1>1 DEF NodeShape, HandleShape, ProbeLabel
<1>7. RefsCounted
  BY <1>4 DEF RefsCounted
<1>8. UsersCounted /\ FlightShape
  BY <1>1 DEF UsersCounted, Count, FlightShape
<1>9. ControlsShown
  BY <1>1 DEF ControlsShown, GoneLabel
<1> QED
  BY <1>3, <1>5, <1>6, <1>7, <1>8, <1>9 DEF DeviceInv

\* The inductive invariant of the driver's state: what is held, once each, the references,
\* the users of the touch pipeline and the panel, at every label of probe and disconnect.
THEOREM DeviceInvAlways == Spec => []DeviceInv
<1>1. Init => DeviceInv
  BY InitHolds
<1>2. DeviceInv /\ [Next]_vars => DeviceInv'
  BY StepKeeps
<1> QED
  BY <1>1, <1>2, PTL DEF Spec

LEMMA InvGivesBack == DeviceInv => AllGivenBack
<1> SUFFICES ASSUME DeviceInv PROVE AllGivenBack
  OBVIOUS
<1>1. \A r \in Resource : held[r] \in {0, 1}
  BY DEF DeviceInv, HeldOnce, Once, Resource
<1>2. ASSUME Gone PROVE users = 0 /\ ~flying /\ \A r \in Resource : held[r] = 0
  <2>1. \/ pc = "failed" /\ node = "none"
        \/ pc = "unbound" /\ node = "released"
    BY <1>2 DEF Gone, DeviceInv, NodeShape, ProbeLabel
  <2>2. ~HasState /\ ~HasUrbs /\ ~HasInput /\ ~HasV4l2 /\ ~HasHdl
    BY <2>1 DEF HasState, HasUrbs, HasInput, HasV4l2, HasHdl, GoneLabel
  <2>3. \A r \in Resource : held[r] = 0
    BY <2>2 DEF DeviceInv, HeldOnce, Once, Resource
  <2>4. ~inputOpen
    BY <2>1 DEF DeviceInv, FlightShape, NodeShape
  <2>5. ~streaming
    BY <2>1 DEF DeviceInv, HandleShape, DeviceType
  <2>6. users = 0
    BY <2>4, <2>5 DEF DeviceInv, UsersCounted, Count
  <2>7. ~flying
    BY <2>6 DEF DeviceInv, FlightShape
  <2> QED
    BY <2>3, <2>6, <2>7
<1> QED
  BY <1>1, <1>2 DEF AllGivenBack

\* Whatever step of probe fails, and whoever opened the input device meanwhile or keeps video
\* handles after the unplugging: nothing is freed twice, and in the end nothing is left.
THEOREM AllGivenBackAlways == Spec => []AllGivenBack
  BY DeviceInvAlways, InvGivesBack, PTL

LEMMA InvNotFreed == DeviceInv => NotFreedInUse
<1> SUFFICES ASSUME DeviceInv PROVE NotFreedInUse
  OBVIOUS
<1>1. ASSUME inputOpen \/ files > 0 \/ flying \/ Disconnecting \/ pc = "bound"
      PROVE  \A r \in {"state", "urbs", "usb", "dev"} : held[r] = 1
  <2>1. flying => inputOpen \/ streaming
    BY DEF DeviceInv, DeviceType, FlightShape, UsersCounted, Count
  <2>2. inputOpen => HasUrbs
    BY DEF DeviceInv, FlightShape, NodeShape, HasUrbs, HasState
  <2>3. files > 0 => node \in {"registered", "unregistered"}
    BY DEF DeviceInv, HandleShape
  <2>4. node \in {"registered", "unregistered"} => HasUrbs
    BY DEF DeviceInv, NodeShape, HasUrbs, HasState, ProbeLabel, GoneLabel
  <2>5. streaming => files > 0
    BY DEF DeviceInv, HandleShape
  <2>6. Disconnecting \/ pc = "bound" => HasUrbs
    BY DEF Disconnecting, HasUrbs, HasState
  <2>7. HasUrbs
    BY <1>1, <2>1, <2>2, <2>3, <2>4, <2>5, <2>6
  <2>8. HasState
    BY <2>7 DEF HasUrbs
  <2> QED
    BY <2>7, <2>8 DEF DeviceInv, HeldOnce, Once
<1>2. ASSUME node \in {"registered", "unregistered"}
      PROVE  held["hdl"] = 1 /\ held["v4l2"] = 1
  <2>1. HasHdl /\ HasV4l2
    BY <1>2 DEF DeviceInv, NodeShape, HasHdl, HasV4l2, HasState, ProbeLabel, GoneLabel
  <2> QED
    BY <2>1 DEF DeviceInv, HeldOnce, Once
<1> QED
  BY <1>1, <1>2 DEF NotFreedInUse

\* What a handle or a transfer can still reach is never freed.
THEOREM NotFreedInUseAlways == Spec => []NotFreedInUse
  BY DeviceInvAlways, InvNotFreed, PTL

LEMMA InvPanel == DeviceInv => PanelFollows
  BY DEF DeviceInv, NodeShape, ControlsShown, PanelFollows, ProbeLabel, GoneLabel

\* With a node, the panel shows what the controls say, but for registers whose poke failed.
THEOREM PanelFollowsAlways == Spec => []PanelFollows
  BY DeviceInvAlways, InvPanel, PTL

-----------------------------------------------------------------------------
(***************************************************************************)
(* Formats.  A step of FormatNext is a step of the driver's life or leaves *)
(* it alone, so what holds of that holds here.                             *)
(***************************************************************************)
LEMMA FormatStepIsStep == [FormatNext]_allVars => [Next]_vars
  BY DEF FormatNext, allVars, SFmt, Allocate, BufferPrepare, ReqBufsNone, DeviceIdle,
         StreamOnBuffers, StreamOffBuffers, CloseVideoBuffers, InitQueueFormat, Next, Probe

\* The driver with its formats is still the driver of Sur40Device.
THEOREM FormatsKeepLife == FormatSpec => Spec
<1>1. FormatInit => Init
  BY DEF FormatInit
<1> QED
  BY <1>1, FormatStepIsStep, PTL DEF FormatSpec, Spec

\* The two formats, and what a request finds.
LEMMA Formats ==
  /\ sur40_pix_format[1] = Format("GREY") /\ sur40_pix_format[2] = Format("TU08")
  /\ FindFormat("GREY") = Format("GREY") /\ FindFormat("TU08") = Format("TU08")
  /\ \A p : FindFormat(p) \in Known
  /\ \A p : p \notin {"GREY", "TU08"} => FindFormat(p) = sur40_pix_format[IF videoNode THEN 1 ELSE 2]
  BY DEF sur40_pix_format, FindFormat, Known

\* What the actions of the driver's life do that the formats depend on.
LEMMA LifeStep ==
  ASSUME DeviceInv, Next, ~CloseVideo, ~InitQueue
  PROVE  /\ files' = files \/ files' = files + 1
         /\ pc' = "controls" => pc = "controls"
         /\ pc' = "node" => pc \in {"controls", "node"}
         /\ node' # "none" => node # "none" \/ pc = "node"
<1>1. ASSUME AllocState
      PROVE  /\ files' = files \/ files' = files + 1
             /\ pc' = "controls" => pc = "controls"
             /\ pc' = "node" => pc \in {"controls", "node"}
             /\ node' # "none" => node # "none" \/ pc = "node"
  BY <1>1 DEF AllocState, Works, Fails, Quiet, probeVars, userVars
<1>2. ASSUME AllocUrbs
      PROVE  /\ files' = files \/ files' = files + 1
             /\ pc' = "controls" => pc = "controls"
             /\ pc' = "node" => pc \in {"controls", "node"}
             /\ node' # "none" => node # "none" \/ pc = "node"
  BY <1>2 DEF AllocUrbs, Works, Fails, Quiet, probeVars, userVars
<1>3. ASSUME AllocInput
      PROVE  /\ files' = files \/ files' = files + 1
             /\ pc' = "controls" => pc = "controls"
             /\ pc' = "node" => pc \in {"controls", "node"}
             /\ node' # "none" => node # "none" \/ pc = "node"
  BY <1>3 DEF AllocInput, Works, Fails, Quiet, probeVars, userVars
<1>4. ASSUME SetupEvents
      PROVE  /\ files' = files \/ files' = files + 1
             /\ pc' = "controls" => pc = "controls"
             /\ pc' = "node" => pc \in {"controls", "node"}
             /\ node' # "none" => node # "none" \/ pc = "node"
  BY <1>4 DEF SetupEvents, Works, Fails, Quiet, probeVars, userVars
<1>5. ASSUME RegisterInput
      PROVE  /\ files' = files \/ files' = files + 1
             /\ pc' = "controls" => pc = "controls"
             /\ pc' = "node" => pc \in {"controls", "node"}
             /\ node' # "none" => node # "none" \/ pc = "node"
  BY <1>5 DEF RegisterInput, Works, Fails, Quiet, probeVars, userVars
<1>6. ASSUME RegisterV4l2
      PROVE  /\ files' = files \/ files' = files + 1
             /\ pc' = "controls" => pc = "controls"
             /\ pc' = "node" => pc \in {"controls", "node"}
             /\ node' # "none" => node # "none" \/ pc = "node"
  BY <1>6 DEF RegisterV4l2, Works, Fails, Quiet, probeVars, userVars
<1>7. ASSUME InitControls
      PROVE  /\ files' = files \/ files' = files + 1
             /\ pc' = "controls" => pc = "controls"
             /\ pc' = "node" => pc \in {"controls", "node"}
             /\ node' # "none" => node # "none" \/ pc = "node"
  BY <1>7 DEF InitControls, Quiet, probeVars, userVars
<1>8. ASSUME RegisterNode
      PROVE  /\ files' = files \/ files' = files + 1
             /\ pc' = "controls" => pc = "controls"
             /\ pc' = "node" => pc \in {"controls", "node"}
             /\ node' # "none" => node # "none" \/ pc = "node"
  BY <1>8 DEF RegisterNode, Works, Fails, Quiet, probeVars, userVars
<1>9. ASSUME FreeControls
      PROVE  /\ files' = files \/ files' = files + 1
             /\ pc' = "controls" => pc = "controls"
             /\ pc' = "node" => pc \in {"controls", "node"}
             /\ node' # "none" => node # "none" \/ pc = "node"
  BY <1>9 DEF FreeControls, Label, probeVars, userVars
<1>10. ASSUME UnregV4l2
      PROVE  /\ files' = files \/ files' = files + 1
             /\ pc' = "controls" => pc = "controls"
             /\ pc' = "node" => pc \in {"controls", "node"}
             /\ node' # "none" => node # "none" \/ pc = "node"
  BY <1>10 DEF UnregV4l2, Label, probeVars, userVars
<1>11. ASSUME UnregInput
      PROVE  /\ files' = files \/ files' = files + 1
             /\ pc' = "controls" => pc = "controls"
             /\ pc' = "node" => pc \in {"controls", "node"}
             /\ node' # "none" => node # "none" \/ pc = "node"
  BY <1>11 DEF UnregInput, Label, probeVars, userVars
<1>12. ASSUME FreeInput
      PROVE  /\ files' = files \/ files' = files + 1
             /\ pc' = "controls" => pc = "controls"
             /\ pc' = "node" => pc \in {"controls", "node"}
             /\ node' # "none" => node # "none" \/ pc = "node"
  BY <1>12 DEF FreeInput, Label, probeVars, userVars
<1>13. ASSUME FreeUrbs
      PROVE  /\ files' = files \/ files' = files + 1
             /\ pc' = "controls" => pc = "controls"
             /\ pc' = "node" => pc \in {"controls", "node"}
             /\ node' # "none" => node # "none" \/ pc = "node"
  BY <1>13 DEF FreeUrbs, Label, probeVars, userVars
<1>14. ASSUME FreeDev
      PROVE  /\ files' = files \/ files' = files + 1
             /\ pc' = "controls" => pc = "controls"
             /\ pc' = "node" => pc \in {"controls", "node"}
             /\ node' # "none" => node # "none" \/ pc = "node"
  BY <1>14 DEF FreeDev, Label, probeVars, userVars
<1>15. ASSUME Disconnect
      PROVE  /\ files' = files \/ files' = files + 1
             /\ pc' = "controls" => pc = "controls"
             /\ pc' = "node" => pc \in {"controls", "node"}
             /\ node' # "none" => node # "none" \/ pc = "node"
  BY <1>15 DEF Disconnect, Quiet, probeVars, userVars
<1>16. ASSUME Poison
      PROVE  /\ files' = files \/ files' = files + 1
             /\ pc' = "controls" => pc = "controls"
             /\ pc' = "node" => pc \in {"controls", "node"}
             /\ node' # "none" => node # "none" \/ pc = "node"
  BY <1>16 DEF Poison, probeVars, userVars
<1>17. ASSUME SetDisconnected
      PROVE  /\ files' = files \/ files' = files + 1
             /\ pc' = "controls" => pc = "controls"
             /\ pc' = "node" => pc \in {"controls", "node"}
             /\ node' # "none" => node # "none" \/ pc = "node"
  BY <1>17 DEF SetDisconnected, probeVars, userVars
<1>18. ASSUME UnregisterNode
      PROVE  /\ files' = files \/ files' = files + 1
             /\ pc' = "controls" => pc = "controls"
             /\ pc' = "node" => pc \in {"controls", "node"}
             /\ node' # "none" => node # "none" \/ pc = "node"
  BY <1>18 DEF UnregisterNode, Quiet, probeVars, userVars, DeviceInv, NodeShape, ProbeLabel
<1>19. ASSUME DisconnectInput
      PROVE  /\ files' = files \/ files' = files + 1
             /\ pc' = "controls" => pc = "controls"
             /\ pc' = "node" => pc \in {"controls", "node"}
             /\ node' # "none" => node # "none" \/ pc = "node"
  BY <1>19 DEF DisconnectInput, probeVars, userVars
<1>20. ASSUME LastPut
      PROVE  /\ files' = files \/ files' = files + 1
             /\ pc' = "controls" => pc = "controls"
             /\ pc' = "node" => pc \in {"controls", "node"}
             /\ node' # "none" => node # "none" \/ pc = "node"
  BY <1>20 DEF LastPut, Quiet, probeVars, userVars
<1>21. ASSUME Replug
      PROVE  /\ files' = files \/ files' = files + 1
             /\ pc' = "controls" => pc = "controls"
             /\ pc' = "node" => pc \in {"controls", "node"}
             /\ node' # "none" => node # "none" \/ pc = "node"
  BY <1>21 DEF Replug, probeVars, userVars
<1>22. ASSUME OpenInput
      PROVE  /\ files' = files \/ files' = files + 1
             /\ pc' = "controls" => pc = "controls"
             /\ pc' = "node" => pc \in {"controls", "node"}
             /\ node' # "none" => node # "none" \/ pc = "node"
  BY <1>22 DEF OpenInput, Others, probeVars, userVars
<1>23. ASSUME CloseInput
      PROVE  /\ files' = files \/ files' = files + 1
             /\ pc' = "controls" => pc = "controls"
             /\ pc' = "node" => pc \in {"controls", "node"}
             /\ node' # "none" => node # "none" \/ pc = "node"
  BY <1>23 DEF CloseInput, Others, probeVars, userVars
<1>24. ASSUME OpenVideo
      PROVE  /\ files' = files \/ files' = files + 1
             /\ pc' = "controls" => pc = "controls"
             /\ pc' = "node" => pc \in {"controls", "node"}
             /\ node' # "none" => node # "none" \/ pc = "node"
  BY <1>24 DEF OpenVideo, Others, probeVars, userVars
<1>25. ASSUME StreamOn
      PROVE  /\ files' = files \/ files' = files + 1
             /\ pc' = "controls" => pc = "controls"
             /\ pc' = "node" => pc \in {"controls", "node"}
             /\ node' # "none" => node # "none" \/ pc = "node"
  BY <1>25 DEF StreamOn, Others, probeVars, userVars
<1>26. ASSUME StreamOff
      PROVE  /\ files' = files \/ files' = files + 1
             /\ pc' = "controls" => pc = "controls"
             /\ pc' = "node" => pc \in {"controls", "node"}
             /\ node' # "none" => node # "none" \/ pc = "node"
  BY <1>26 DEF StreamOff, Others, probeVars, userVars
<1>27. ASSUME SetControl
      PROVE  /\ files' = files \/ files' = files + 1
             /\ pc' = "controls" => pc = "controls"
             /\ pc' = "node" => pc \in {"controls", "node"}
             /\ node' # "none" => node # "none" \/ pc = "node"
  BY <1>27 DEF SetControl, probeVars, userVars
<1> QED
  BY <1>1, <1>2, <1>3, <1>4, <1>5, <1>6, <1>7, <1>8, <1>9, <1>10, <1>11, <1>12, <1>13, <1>14, <1>15, <1>16, <1>17, <1>18, <1>19, <1>20, <1>21, <1>22, <1>23, <1>24, <1>25, <1>26, <1>27 DEF Next, Probe

LEMMA FormatInitHolds == FormatInit => FormatInv
  BY DEF FormatInit, Init, FormatInv

LEMMA FormatStepKeeps ==
  ASSUME DeviceInv, FormatInv, [FormatNext]_allVars
  PROVE  FormatInv'
<1>1. ASSUME NEW p \in PixelFormat, SFmt(p) PROVE FormatInv'
  <2>1. /\ UNCHANGED <<pc, node, files, videoNode, planes, payloads, agreed>>
        /\ planes = {} /\ node = "registered" /\ pixFmt' = FindFormat(p)
    BY <1>1 DEF SFmt, Usable, DeviceIdle, vars, probeVars, userVars
  <2>2. pixFmt' \in Known
    BY <2>1, Formats
  <2>3. pc # "controls"
    BY <2>1 DEF DeviceInv, NodeShape, ProbeLabel
  <2> QED
    BY <2>1, <2>2, <2>3 DEF FormatInv
<1>2. ASSUME NEW n \in 0..MaxPlane, Allocate(n) PROVE FormatInv'
  <2>1. /\ UNCHANGED <<pc, node, files, videoNode, pixFmt, payloads>>
        /\ planes' = planes \cup {QueueSetup(n)} /\ files > 0
        /\ agreed' = IF planes = {} THEN pixFmt ELSE agreed
    BY <1>2 DEF Allocate, Usable, DeviceIdle, vars, probeVars, userVars
  <2>2. planes' # {} /\ agreed' = pixFmt'
    BY <2>1 DEF FormatInv
  <2>3. FindFormat("none")' = FindFormat("none")
    BY <2>1 DEF FindFormat
  <2> QED
    BY <2>1, <2>2, <2>3 DEF FormatInv, DeviceInv, DeviceType
<1>3. ASSUME NEW n \in 1..MaxPlane, BufferPrepare(n) PROVE FormatInv'
  <2>1. /\ UNCHANGED <<pc, node, files, videoNode, pixFmt, planes, agreed>>
        /\ planes # {} /\ n >= pixFmt.sizeimage /\ node = "registered"
        /\ payloads' = payloads \cup {<<pixFmt.sizeimage, n>>}
    BY <1>3 DEF BufferPrepare, Usable, DeviceIdle, vars, probeVars, userVars
  <2>2. pixFmt.sizeimage = 2
    BY <2>1 DEF FormatInv, Known, Format
  <2>3. \A q \in payloads' : q[1] = 2 /\ q[1] <= q[2]
    BY <2>1, <2>2 DEF FormatInv
  <2>4. FindFormat("none")' = FindFormat("none")
    BY <2>1 DEF FindFormat
  <2> QED
    BY <2>1, <2>3, <2>4 DEF FormatInv
<1>4. ASSUME ReqBufsNone PROVE FormatInv'
  <2>1. UNCHANGED <<pc, node, files, videoNode, pixFmt>> /\ planes' = {} /\ payloads' = {}
    BY <1>4 DEF ReqBufsNone, FreeBuffers, DeviceIdle, vars, probeVars, userVars
  <2>2. FindFormat("none")' = FindFormat("none")
    BY <2>1 DEF FindFormat
  <2> QED
    BY <2>1, <2>2 DEF FormatInv
<1>5. ASSUME StreamOnBuffers PROVE FormatInv'
  <2>1. UNCHANGED <<pc, node, files, videoNode, pixFmt, planes, payloads, agreed>>
    BY <1>5 DEF StreamOnBuffers, StreamOn, Others, probeVars, Keep, formatVars
  <2>2. FindFormat("none")' = FindFormat("none")
    BY <2>1 DEF FindFormat
  <2> QED
    BY <2>1, <2>2 DEF FormatInv
<1>6. ASSUME StreamOffBuffers PROVE FormatInv'
  <2>1. UNCHANGED <<pc, node, files, videoNode, pixFmt, planes, agreed>> /\ payloads' = {}
    BY <1>6 DEF StreamOffBuffers, StreamOff, Others, probeVars
  <2>2. FindFormat("none")' = FindFormat("none")
    BY <2>1 DEF FindFormat
  <2> QED
    BY <2>1, <2>2 DEF FormatInv
<1>7. ASSUME CloseVideoBuffers PROVE FormatInv'
  <2>1. /\ UNCHANGED <<pc, videoNode, pixFmt>>
        /\ node' # "none" => node # "none"
    <3>1. CloseVideo /\ UNCHANGED <<videoNode, pixFmt>>
      BY <1>7 DEF CloseVideoBuffers
    <3>2. node' # node => node = "unregistered"
      BY <3>1 DEF CloseVideo
    <3> QED
      BY <3>1, <3>2 DEF CloseVideo, Others, probeVars
  <2>2. \/ planes' = {} /\ payloads' = {}
        \/ files' > 0 /\ UNCHANGED <<planes, payloads, agreed>>
    BY <1>7 DEF CloseVideoBuffers, FreeBuffers
  <2>3. FindFormat("none")' = FindFormat("none")
    BY <2>1 DEF FindFormat
  <2>4. CASE planes' = {} /\ payloads' = {}
    BY <2>1, <2>3, <2>4 DEF FormatInv
  <2>5. CASE files' > 0 /\ UNCHANGED <<planes, payloads, agreed>>
    <3>1. files' # 0
      BY <2>5
    <3> QED
      BY <2>1, <2>3, <2>5, <3>1 DEF FormatInv
  <2> QED
    BY <2>2, <2>4, <2>5
<1>8. ASSUME InitQueueFormat PROVE FormatInv'
  <2>1. /\ pc = "queue" /\ pc' \in {"controls", "err_unreg_v4l2"}
        /\ UNCHANGED <<node, files, videoNode, planes, payloads, agreed>>
    BY <1>8 DEF InitQueueFormat, InitQueue, Works, Fails, Quiet, userVars
  <2>2. node = "none"
    BY <2>1 DEF DeviceInv, NodeShape, ProbeLabel
  <2>3. files = 0
    BY <2>2 DEF DeviceInv, DeviceType, HandleShape
  <2>4. planes = {} /\ payloads = {}
    BY <2>3 DEF FormatInv
  <2>5. pc' = "controls" => pixFmt' = FindFormat("none")
    BY <1>8 DEF InitQueueFormat
  <2>6. pc' # "controls" => pixFmt' = pixFmt
    BY <1>8 DEF InitQueueFormat
  <2>7. FindFormat("none")' = FindFormat("none") /\ FindFormat("none") \in Known
    BY <2>1, Formats DEF FindFormat
  <2>8. pixFmt' \in Known \cup {NoFormat}
    BY <2>5, <2>6, <2>7 DEF FormatInv
  <2> QED
    BY <2>1, <2>2, <2>4, <2>5, <2>7, <2>8 DEF FormatInv
<1>9. ASSUME Next, ~CloseVideo, ~InitQueue, Keep PROVE FormatInv'
  <2>1. UNCHANGED <<videoNode, pixFmt, planes, payloads, agreed>>
    BY <1>9 DEF Keep, formatVars
  <2>2. FindFormat("none")' = FindFormat("none")
    BY <2>1 DEF FindFormat
  <2>3. files' = 0 => files = 0
    BY <1>9, LifeStep DEF DeviceInv, DeviceType
  <2>4. /\ pc' = "controls" => pc = "controls"
        /\ pc' \in {"controls", "node"} \/ node' # "none"
             => pc \in {"controls", "node"} \/ node # "none"
    BY <1>9, LifeStep
  <2> QED
    BY <2>1, <2>2, <2>3, <2>4 DEF FormatInv
<1>10. CASE UNCHANGED allVars
  <2>1. UNCHANGED <<pc, node, files, videoNode, pixFmt, planes, payloads, agreed>>
    BY <1>10 DEF allVars, vars, probeVars, userVars, formatVars
  <2>2. FindFormat("none")' = FindFormat("none")
    BY <2>1 DEF FindFormat
  <2> QED
    BY <2>1, <2>2 DEF FormatInv
<1> QED
  BY <1>1, <1>2, <1>3, <1>4, <1>5, <1>6, <1>7, <1>8, <1>9, <1>10 DEF FormatNext

LEMMA InvAgrees ==
  ASSUME FormatInv
  PROVE  FormatAgreed
<1> SUFFICES ASSUME pixFmt # NoFormat PROVE FormatAgreed
  BY DEF FormatAgreed
<1>1. pixFmt \in Known
  BY DEF FormatInv
<1>2. pixFmt.width = 2 /\ pixFmt.height = 1 /\ pixFmt.sizeimage = 2
  BY <1>1 DEF Known, Format
<1>3. /\ videoNode => EnumFmt(0) = "GREY" /\ EnumFmt(1) = "TU08"
      /\ ~videoNode => EnumFmt(0) = "TU08" /\ EnumFmt(1) = "GREY"
  BY Formats DEF EnumFmt, Format
<1>4. TryFmt("GREY") = Format("GREY") /\ TryFmt("TU08") = Format("TU08")
  BY Formats DEF TryFmt
<1>5. ASSUME NEW i \in 0..1
      PROVE  LET p == EnumFmt(i)
                 size == EnumFramesizes(0, p) IN
             /\ TryFmt(p).pixelformat = p
             /\ size = <<TryFmt(p).width, TryFmt(p).height>>
             /\ EnumFrameintervals(0, p, size) = Parm.timeperframe
  <2> DEFINE p == EnumFmt(i)
             size == EnumFramesizes(0, p)
  <2>1. p \in {"GREY", "TU08"}
    BY <1>3
  <2>2. TryFmt(p) = Format(p)
    BY <1>4, <2>1
  <2>3. size = <<2, 1>>
    BY <1>2, <2>1 DEF EnumFramesizes
  <2>4. EnumFrameintervals(0, p, size) = <<1, 60>>
    BY <1>2, <2>1, <2>3 DEF EnumFrameintervals
  <2> QED
    BY <2>2, <2>3, <2>4 DEF Format, Parm
<1>6. EnumFmt(0) # EnumFmt(1) /\ EnumFmt(2) = NoFormat
  BY <1>3 DEF EnumFmt
<1>7. TryFmt("other").pixelformat = EnumFmt(0)
  BY <1>3, Formats DEF TryFmt, Format
<1>8. pc = "controls" => pixFmt.pixelformat = EnumFmt(0)
  BY <1>3, Formats DEF FormatInv, Format
<1>9. \A q \in payloads : q[1] = pixFmt.sizeimage /\ q[1] <= q[2]
  BY <1>2 DEF FormatInv
<1>10. planes # {} => agreed = pixFmt
  BY DEF FormatInv
<1> QED
  BY <1>5, <1>6, <1>7, <1>8, <1>9, <1>10 DEF FormatAgreed

\* The answers about formats agree with each other, in either mode of the module; buffers have
\* the format's size as long as they exist, through every open, close and unplugging.
THEOREM FormatAgreedAlways == FormatSpec => []FormatAgreed
<1>1. FormatInit => FormatInv
  BY FormatInitHolds
<1>2. DeviceInv /\ FormatInv /\ [FormatNext]_allVars => FormatInv'
  BY FormatStepKeeps
<1>3. FormatInv => FormatAgreed
  BY InvAgrees
<1> QED
  BY <1>1, <1>2, <1>3, FormatsKeepLife, DeviceInvAlways, PTL DEF FormatSpec

-----------------------------------------------------------------------------
(***************************************************************************)
(* The library for user space.                                             *)
(***************************************************************************)

\* Every call the programs make.
ScriptCall == {surface_init, surface_peek, surface_calib_start, surface_calib_end}
             \cup {surface_set_vsvideo(v) : v \in Int} \cup {surface_set_irlevel(v) : v \in Int}
             \cup {surface_set_preprocessor(on) : on \in BOOLEAN}
LibraryCall == ScriptCall \cup {surface_get_image(n) : n \in Nat \ {0}}
                 \cup {surface_read_spi_flash(page) : page \in Page}
                 \cup {surface_read_calib, surface_read_usb_flash}
Value == Int \cup {"panel"} \cup Reg
PokeTransfer == {"poke"} \X (Reg \cup {"NVW1", "NVW2", "NVW3"}) \X Value
Transfer == {Get} \cup PokeTransfer

\* In ts begins, at place p or before its start, the write of register r through the window w.
PanelWrite(writes, ts, w, p, r) ==
  /\ p \in -1 .. Len(ts) - 2
  /\ p >= 1 => ts[p] = PokeModule("NVW1", "panel")
  /\ p >= 0 => ts[p + 1] = PokeModule("NVW2", r)
  /\ ts[p + 2] = PokeModule("NVW3", writes[r])
  /\ p <= 0 => w[1] = "panel"
  /\ p = -1 => w[2] = r

\* ts has no transfer but those that lead to one of the writes.
Sound(writes, ts, w) ==
  \A i \in 1 .. Len(ts) :
    \/ ts[i] = Get
    \/ \E r \in DOMAIN writes : ts[i] = PokeModule(r, writes[r])
    \/ \E r \in DOMAIN writes : \E p \in i - 2 .. i : PanelWrite(writes, ts, w, p, r)
\* What is not in the register yet is still to come.
Comes(writes, ts, w, r) ==
  \/ \E i \in 1 .. Len(ts) : ts[i] = PokeModule(r, writes[r])
  \/ \E p \in -1 .. Len(ts) - 2 : PanelWrite(writes, ts, w, p, r)
Pending(writes, ts, w) == \A r \in DOMAIN writes : reg[r] = writes[r] \/ Comes(writes, ts, w, r)

Elsewhere == <<"other", "none">>
GoodScript(c) ==
  /\ DOMAIN c.writes \subseteq Reg
  /\ c.transfers \in Seq(Transfer)
  /\ Sound(c.writes, c.transfers, Elsewhere)
  /\ \A r \in DOMAIN c.writes : Comes(c.writes, c.transfers, Elsewhere, r)

PlaceShape ==
  /\ at \in {"idle", "return", "header", "image", "enable", "request", "poll", "blocks", "i2c"}
  /\ at = "return" => call.op = "script"
  /\ at \in {"header", "image"} => call.op = "image"
  /\ at \in {"enable", "request", "poll"} => call.op = "page"
  /\ at = "blocks" => call.op \in {"page", "calib"}
  /\ at = "i2c" => call.op = "usb"
  /\ at \notin {"return", "blocks"} => todo = <<>>
ScriptShape ==
  at = "return" /\ ~failed =>
    ~stray /\ Sound(call.writes, todo, window) /\ Pending(call.writes, todo, window)
\* The image so far is the begin of a frame, unless a transfer failed meanwhile.
ImageShape ==
  /\ at = "header" => got = <<>>
  /\ at = "image" /\ ~torn =>
       /\ got = [i \in 1 .. frame.next - 1 |-> i]
       /\ frame.next \in 1 .. call.size /\ FrameSize(frame) = call.size
PageShape ==
  /\ at = "poll" => spi \in {None, call.page} /\ (spi = None => ddr["flash"] = call.page)
  /\ at = "blocks" /\ call.op = "page" => spi = None /\ ddr["flash"] = call.page
Area == IF call.op = "page" THEN "flash" ELSE "calib"
\* So are the blocks the begin of the area; before the request is made the device may have some
\* of an earlier read left.
BlockShape ==
  at = "blocks" =>
    /\ todo \in {DdrRead(Area), Tail(DdrRead(Area)), <<>>}
    /\ todo # <<>> => got = <<>>
    /\ todo = <<>> /\ ~failed /\ ~torn =>
         /\ cursor[1] = Area /\ cursor[2] \in 0 .. Blocks - 1
         /\ got = [i \in 1 .. cursor[2] |-> <<ddr[Area], i>>]
SurfaceShape == PlaceShape /\ ScriptShape /\ ImageShape /\ PageShape /\ BlockShape /\ CallsWork

SurfaceType ==
  /\ call \in LibraryCall /\ (at # "blocks" => todo \in Seq(Transfer))
  /\ result \in BOOLEAN /\ failed \in BOOLEAN /\ torn \in BOOLEAN /\ stray \in BOOLEAN
  /\ reg = [r \in Reg |-> reg[r]]
  /\ frame \in [next : Nat, full : BOOLEAN]
  /\ ddr = [area \in {"flash", "calib"} |-> ddr[area]]
SurfaceInv == SurfaceType /\ SurfaceShape
LEMMA RegNames ==
  /\ {"INIT1", "INIT2", "INIT3", "REG17"} \subseteq Reg /\ ToSet(VideoReg) \subseteq Reg
  /\ ToSet(IrReg) \subseteq Reg
  /\ "NVW1" \notin Reg /\ "NVW2" \notin Reg /\ "NVW3" \notin Reg
<1>1. Reg \cap {"NVW1", "NVW2", "NVW3"} = {}
  BY SurfaceAssumption DEF Reg
<1> QED
  BY <1>1 DEF Reg

LEMMA Transfers ==
  /\ Get \in Transfer
  /\ \A m \in Reg \cup {"NVW1", "NVW2", "NVW3"} : \A v \in Int : PokeModule(m, v) \in Transfer
  /\ PokeModule("NVW1", "panel") \in Transfer
  /\ \A r \in Reg : PokeModule("NVW2", r) \in Transfer
<1>1. Int \subseteq Value /\ "panel" \in Value /\ Reg \subseteq Value
  BY DEF Value
<1>2. \A m \in Reg \cup {"NVW1", "NVW2", "NVW3"} : \A v \in Value : PokeModule(m, v) \in Transfer
  <2>1. \A m \in Reg \cup {"NVW1", "NVW2", "NVW3"} : \A v \in Value :
          PokeModule(m, v) \in PokeTransfer
    BY DEF PokeTransfer, PokeModule
  <2> QED
    BY <2>1 DEF Transfer
<1>3. Get \in Transfer
  BY DEF Transfer
<1> QED
  BY <1>1, <1>2, <1>3

LEMMA NoDdrRead == \A t \in Transfer : t[1] # "ddr read"
<1>1. Get[1] = "get"
  BY DEF Get
<1>2. \A t \in PokeTransfer : t[1] = "poke"
  <2>1. \A A, B, C : \A t \in A \X B \X C : t[1] \in A
    OBVIOUS
  <2> QED
    BY <2>1 DEF PokeTransfer
<1> QED
  BY <1>1, <1>2 DEF Transfer

LEMMA PokeAllGood ==
  ASSUME NEW regs \in Seq(STRING), ToSet(regs) \subseteq Reg,
         ToSet(regs) \cap {"NVW1", "NVW2", "NVW3"} = {}, NEW v \in Int
  PROVE  GoodScript(Script(Written(regs, v), PokeAll(regs, v)))
<1> DEFINE ts == PokeAll(regs, v)
           wr == Written(regs, v)
           n == 3 * Len(regs)
<1>1. n \in Nat /\ Len(regs) \in Nat
  OBVIOUS
<1>2. DOMAIN wr = ToSet(regs) /\ \A r \in ToSet(regs) : wr[r] = v
  BY DEF Written
<1>3. ToSet(regs) = {regs[k] : k \in 1 .. Len(regs)}
  BY DEF ToSet
<1>4. \A k \in 1 .. Len(regs) :
        /\ 3 * k - 2 \in 1 .. n /\ 3 * k - 1 \in 1 .. n /\ 3 * k \in 1 .. n
        /\ ((3 * k - 2) + 2) \div 3 = k /\ (((3 * k - 2) - 1) % 3) + 1 = 1
        /\ ((3 * k - 1) + 2) \div 3 = k /\ (((3 * k - 1) - 1) % 3) + 1 = 2
        /\ ((3 * k) + 2) \div 3 = k /\ (((3 * k) - 1) % 3) + 1 = 3
  BY <1>1
<1>5. \A k \in 1 .. Len(regs) :
        /\ ts[3 * k - 2] = PokeModule("NVW1", "panel")
        /\ ts[3 * k - 1] = PokeModule("NVW2", regs[k])
        /\ ts[3 * k] = PokeModule("NVW3", v)
  BY <1>4 DEF PokeAll, surface_poke
<1>6. \A i \in 1 .. n : \E k \in 1 .. Len(regs) : i \in {3 * k - 2, 3 * k - 1, 3 * k}
  <2> SUFFICES ASSUME NEW i \in 1 .. n
               PROVE  \E k \in 1 .. Len(regs) : i \in {3 * k - 2, 3 * k - 1, 3 * k}
    OBVIOUS
  <2>1. (i + 2) \div 3 \in 1 .. Len(regs)
    BY <1>1
  <2>2. i \in {3 * ((i + 2) \div 3) - 2, 3 * ((i + 2) \div 3) - 1, 3 * ((i + 2) \div 3)}
    BY <1>1
  <2> QED
    BY <2>1, <2>2
<1>7. ts \in Seq(Transfer) /\ Len(ts) = n
  <2>1. \A k \in 1 .. Len(regs) : regs[k] \in Reg
    BY <1>3
  <2>2. /\ PokeModule("NVW1", "panel") \in Transfer /\ PokeModule("NVW3", v) \in Transfer
        /\ \A r \in Reg : PokeModule("NVW2", r) \in Transfer
    BY Transfers
  <2>3. \A i \in 1 .. n : ts[i] \in Transfer
    <3> HIDE DEF ts, n
    <3> SUFFICES ASSUME NEW i \in 1 .. n PROVE ts[i] \in Transfer
      OBVIOUS
    <3>1. PICK k \in 1 .. Len(regs) : i \in {3 * k - 2, 3 * k - 1, 3 * k}
      BY <1>6
    <3>2. ts[i] \in {PokeModule("NVW1", "panel"), PokeModule("NVW2", regs[k]), PokeModule("NVW3", v)}
      BY <1>5, <3>1
    <3> QED
      BY <2>1, <2>2, <3>2
  <2>4. ts = [i \in 1 .. n |-> ts[i]]
    BY DEF PokeAll
  <2> HIDE DEF ts, n
  <2> QED
    BY <1>1, <2>3, <2>4
<1>8. \A k \in 1 .. Len(regs) : PanelWrite(wr, ts, Elsewhere, 3 * k - 2, regs[k])
  <2> HIDE DEF wr, ts
  <2> SUFFICES ASSUME NEW k \in 1 .. Len(regs)
               PROVE  PanelWrite(wr, ts, Elsewhere, 3 * k - 2, regs[k])
    OBVIOUS
  <2>1. 3 * k - 2 \in -1 .. Len(ts) - 2 /\ 3 * k - 2 >= 1
    BY <1>1, <1>7
  <2>2. wr[regs[k]] = v
    BY <1>2, <1>3
  <2>3. (3 * k - 2) + 1 = 3 * k - 1 /\ (3 * k - 2) + 2 = 3 * k
    OBVIOUS
  <2>4. /\ ts[3 * k - 2] = PokeModule("NVW1", "panel")
        /\ ts[(3 * k - 2) + 1] = PokeModule("NVW2", regs[k])
        /\ ts[(3 * k - 2) + 2] = PokeModule("NVW3", wr[regs[k]])
    BY <1>5, <2>2, <2>3
  <2> QED
    BY <2>1, <2>4 DEF PanelWrite
<1>9. Sound(wr, ts, Elsewhere)
  <2> HIDE DEF wr, ts
  <2> SUFFICES ASSUME NEW i \in 1 .. Len(ts)
               PROVE  \E r \in DOMAIN wr : \E p \in i - 2 .. i : PanelWrite(wr, ts, Elsewhere, p, r)
    BY DEF Sound
  <2>1. PICK k \in 1 .. Len(regs) : i \in {3 * k - 2, 3 * k - 1, 3 * k}
    BY <1>6, <1>7
  <2>2. 3 * k - 2 \in i - 2 .. i /\ regs[k] \in DOMAIN wr
    BY <1>2, <1>3, <2>1
  <2> QED
    BY <1>8, <2>2
<1>10. \A r \in DOMAIN wr : Comes(wr, ts, Elsewhere, r)
  <2> HIDE DEF wr, ts
  <2> SUFFICES ASSUME NEW r \in DOMAIN wr PROVE Comes(wr, ts, Elsewhere, r)
    OBVIOUS
  <2>1. PICK k \in 1 .. Len(regs) : r = regs[k]
    BY <1>2, <1>3
  <2>2. 3 * k - 2 \in -1 .. Len(ts) - 2
    BY <1>1, <1>7
  <2> QED
    BY <1>8, <2>1, <2>2 DEF Comes
<1> QED
  <2> HIDE DEF wr, ts
  <2>1. GoodScript([op |-> "script", writes |-> wr, transfers |-> ts])
    BY <1>2, <1>7, <1>9, <1>10 DEF GoodScript
  <2> QED
    BY <2>1 DEF Script, wr, ts

\* The scripts that read only.
LEMMA GetsGood ==
  GoodScript(surface_init) /\ GoodScript(surface_peek)
<1>1. DOMAIN NoWrites = {}
  BY DEF NoWrites
<1>2. ASSUME NEW ts \in Seq({Get}) PROVE GoodScript(Script(NoWrites, ts))
  <2>1. ts \in Seq(Transfer) /\ \A i \in 1 .. Len(ts) : ts[i] = Get
    BY Transfers
  <2> QED
    BY <1>1, <2>1 DEF GoodScript, Script, Sound
<1>3. << Get >> \in Seq({Get}) /\ <<Get, Get, Get, Get, Get, Get>> \in Seq({Get})
  OBVIOUS
<1> QED
  BY <1>2, <1>3 DEF surface_init, surface_peek

LEMMA PreprocessorGood ==
  ASSUME NEW on \in BOOLEAN PROVE GoodScript(surface_set_preprocessor(on))
<1> DEFINE v7 == IF on THEN 0 ELSE 1
           v17 == IF on THEN 128 ELSE 133
           wr == [INIT2 |-> v7, INIT3 |-> v17]
           ts == <<PokeModule("INIT2", v7), PokeModule("INIT3", v17)>>
<1>1. /\ DOMAIN wr = {"INIT2", "INIT3"} /\ wr["INIT2"] = v7 /\ wr["INIT3"] = v17
      /\ v7 \in Int /\ v17 \in Int
  OBVIOUS
<1>2. ts \in Seq(Transfer)
  BY <1>1, RegNames, Transfers
<1>3. /\ Len(ts) = 2 /\ ts[1] = PokeModule("INIT2", wr["INIT2"])
      /\ ts[2] = PokeModule("INIT3", wr["INIT3"])
  OBVIOUS
<1> HIDE DEF wr, ts
<1>4. Sound(wr, ts, Elsewhere) /\ \A r \in DOMAIN wr : Comes(wr, ts, Elsewhere, r)
  BY <1>1, <1>3 DEF Sound, Comes
<1>5. GoodScript([op |-> "script", writes |-> wr, transfers |-> ts])
  BY <1>1, <1>2, <1>4, RegNames DEF GoodScript
<1> QED
  BY <1>5 DEF surface_set_preprocessor, Script, wr, ts

LEMMA Joined ==
  ASSUME NEW S, NEW s \in Seq(S), NEW t \in Seq(S)
  PROVE  /\ s \o t \in Seq(S) /\ Len(s \o t) = Len(s) + Len(t)
         /\ \A i \in 1 .. Len(s) + Len(t) :
              (s \o t)[i] = IF i <= Len(s) THEN s[i] ELSE t[i - Len(s)]
  BY ConcatProperties

\* The two joins of a calibration script.
LEMMA JoinedThrees ==
  ASSUME NEW S, NEW s \in Seq(S), NEW t \in Seq(S), Len(s) = 3, Len(t) = 3
  PROVE  /\ s \o t \in Seq(S) /\ Len(s \o t) = 6
         /\ (s \o t)[1] = s[1] /\ (s \o t)[2] = s[2] /\ (s \o t)[3] = s[3]
         /\ (s \o t)[4] = t[1] /\ (s \o t)[5] = t[2] /\ (s \o t)[6] = t[3]
<1> DEFINE u == s \o t
           m == Len(s)
           n == Len(t)
<1>1. /\ u \in Seq(S) /\ Len(u) = m + n
      /\ \A i \in 1 .. m + n : u[i] = IF i <= m THEN s[i] ELSE t[i - m]
  BY Joined
<1> HIDE DEF u
<1>2. u \in Seq(S) /\ Len(u) = 6
  BY <1>1
<1>3. \A i \in 1 .. 6 : u[i] = IF i <= 3 THEN s[i] ELSE t[i - 3]
  BY <1>1
<1>4. u[1] = s[1] /\ u[2] = s[2] /\ u[3] = s[3] /\ u[4] = t[1] /\ u[5] = t[2] /\ u[6] = t[3]
  BY <1>3
<1> QED
  BY <1>2, <1>4 DEF u

LEMMA JoinedLast ==
  ASSUME NEW S, NEW s \in Seq(S), NEW t \in Seq(S), Len(s) = 6, Len(t) = 1
  PROVE  /\ s \o t \in Seq(S) /\ Len(s \o t) = 7
         /\ (s \o t)[1] = s[1] /\ (s \o t)[2] = s[2] /\ (s \o t)[3] = s[3]
         /\ (s \o t)[4] = s[4] /\ (s \o t)[5] = s[5] /\ (s \o t)[6] = s[6]
         /\ (s \o t)[7] = t[1]
<1> DEFINE u == s \o t
           m == Len(s)
           n == Len(t)
<1>1. /\ u \in Seq(S) /\ Len(u) = m + n
      /\ \A i \in 1 .. m + n : u[i] = IF i <= m THEN s[i] ELSE t[i - m]
  BY Joined
<1> HIDE DEF u
<1>2. u \in Seq(S) /\ Len(u) = 7
  BY <1>1
<1>3. \A i \in 1 .. 7 : u[i] = IF i <= 6 THEN s[i] ELSE t[i - 6]
  BY <1>1
<1>4. /\ u[1] = s[1] /\ u[2] = s[2] /\ u[3] = s[3]
      /\ u[4] = s[4] /\ u[5] = s[5] /\ u[6] = s[6] /\ u[7] = t[1]
  BY <1>3
<1> QED
  BY <1>2, <1>4 DEF u

\* A script of three transfers to modules, a write of the panel's 17 and a peek.
LEMMA CalibGood ==
  GoodScript(surface_calib_start) /\ GoodScript(surface_calib_end)
<1>1. ASSUME NEW a \in Int, NEW b \in Int, NEW c \in Int, NEW d \in Int
      PROVE  GoodScript(Script([INIT1 |-> a, INIT2 |-> b, INIT3 |-> c, REG17 |-> d],
                        <<PokeModule("INIT1", a), PokeModule("INIT2", b), PokeModule("INIT3", c)>>
                          \o surface_poke("REG17", d) \o <<Get>>))
  <2> DEFINE wr == [INIT1 |-> a, INIT2 |-> b, INIT3 |-> c, REG17 |-> d]
             s1 == <<PokeModule("INIT1", a), PokeModule("INIT2", b), PokeModule("INIT3", c)>>
             s2 == surface_poke("REG17", d)
             ts == s1 \o s2 \o <<Get>>
  <2>1. /\ s1 \in Seq(Transfer) /\ Len(s1) = 3 /\ s1[1] = PokeModule("INIT1", a)
        /\ s1[2] = PokeModule("INIT2", b) /\ s1[3] = PokeModule("INIT3", c)
    BY RegNames, Transfers
  <2>2. /\ s2 \in Seq(Transfer) /\ Len(s2) = 3 /\ s2[1] = PokeModule("NVW1", "panel")
        /\ s2[2] = PokeModule("NVW2", "REG17") /\ s2[3] = PokeModule("NVW3", d)
    BY RegNames, Transfers DEF surface_poke
  <2>3. /\ DOMAIN wr = {"INIT1", "INIT2", "INIT3", "REG17"}
        /\ wr["INIT1"] = a /\ wr["INIT2"] = b /\ wr["INIT3"] = c /\ wr["REG17"] = d
    OBVIOUS
  <2>4. <<Get>> \in Seq(Transfer) /\ Len(<<Get>>) = 1 /\ << Get >>[1] = Get
    BY Transfers
  <2> HIDE DEF s1, s2
  <2>5. /\ ts \in Seq(Transfer)
        /\ Len(ts) = 7 /\ ts[1] = PokeModule("INIT1", a) /\ ts[2] = PokeModule("INIT2", b)
        /\ ts[3] = PokeModule("INIT3", c) /\ ts[4] = PokeModule("NVW1", "panel")
        /\ ts[5] = PokeModule("NVW2", "REG17") /\ ts[6] = PokeModule("NVW3", d) /\ ts[7] = Get
    <3> DEFINE u == s1 \o s2
    <3>1. /\ u \in Seq(Transfer) /\ Len(u) = 6
          /\ u[1] = s1[1] /\ u[2] = s1[2] /\ u[3] = s1[3]
          /\ u[4] = s2[1] /\ u[5] = s2[2] /\ u[6] = s2[3]
      BY <2>1, <2>2, JoinedThrees
    <3> DEFINE g == <<Get>>
    <3>2. g \in Seq(Transfer) /\ Len(g) = 1 /\ g[1] = Get
      BY <2>4
    <3> HIDE DEF u, g
    <3>3. /\ u \o g \in Seq(Transfer) /\ Len(u \o g) = 7
          /\ (u \o g)[1] = u[1] /\ (u \o g)[2] = u[2] /\ (u \o g)[3] = u[3]
          /\ (u \o g)[4] = u[4] /\ (u \o g)[5] = u[5] /\ (u \o g)[6] = u[6]
          /\ (u \o g)[7] = g[1]
      BY <3>1, <3>2, JoinedLast
    <3> QED
      BY <2>1, <2>2, <3>1, <3>2, <3>3 DEF u, g
  <2> HIDE DEF wr, ts
  <2>6. PanelWrite(wr, ts, Elsewhere, 4, "REG17")
    BY <2>3, <2>5 DEF PanelWrite
  <2>7. Sound(wr, ts, Elsewhere)
    <3> SUFFICES ASSUME NEW i \in 1 .. 7
                 PROVE  \/ ts[i] = Get
                        \/ \E r \in DOMAIN wr : ts[i] = PokeModule(r, wr[r])
                        \/ \E r \in DOMAIN wr : \E p \in i - 2 .. i : PanelWrite(wr, ts, Elsewhere, p, r)
      BY <2>5 DEF Sound
    <3>1. CASE i \in 1 .. 3
      BY <2>3, <2>5, <3>1
    <3>2. CASE i \in 4 .. 6
      <4>1. 4 \in i - 2 .. i
        BY <3>2
      <4> QED
        BY <2>3, <2>6, <4>1
    <3>3. CASE i = 7
      BY <2>5, <3>3
    <3> QED
      BY <3>1, <3>2, <3>3
  <2>8. \A r \in DOMAIN wr : Comes(wr, ts, Elsewhere, r)
    <3>1. Comes(wr, ts, Elsewhere, "REG17")
      BY <2>5, <2>6 DEF Comes
    <3>2. \A r \in {"INIT1", "INIT2", "INIT3"} : \E i \in 1 .. Len(ts) : ts[i] = PokeModule(r, wr[r])
      BY <2>3, <2>5
    <3> QED
      BY <2>3, <3>1, <3>2 DEF Comes
  <2>9. GoodScript([op |-> "script", writes |-> wr, transfers |-> ts])
    BY <2>3, <2>5, <2>7, <2>8, RegNames DEF GoodScript
  <2> QED
    BY <2>9 DEF Script, wr, ts, s1, s2
<1> QED
  BY <1>1 DEF surface_calib_start, surface_calib_end, calib_finish

LEMMA ScriptsGood == \A c \in ScriptCall : c.op = "script" /\ GoodScript(c)
<1>1. \A v \in Int : GoodScript(surface_set_vsvideo(v)) /\ GoodScript(surface_set_irlevel(v))
  <2>1. /\ VideoReg \in Seq(STRING) /\ ToSet(VideoReg) \cap {"NVW1", "NVW2", "NVW3"} = {}
        /\ IrReg \in Seq(STRING) /\ ToSet(IrReg) \cap {"NVW1", "NVW2", "NVW3"} = {}
    BY SurfaceAssumption
  <2> QED
    BY <2>1, RegNames, PokeAllGood DEF surface_set_vsvideo, surface_set_irlevel
<1>2. \A c \in ScriptCall : GoodScript(c)
  BY <1>1, GetsGood, PreprocessorGood, CalibGood DEF ScriptCall
<1>3. \A c \in ScriptCall : c.op = "script"
  BY DEF ScriptCall, surface_init, surface_peek, surface_calib_start, surface_calib_end,
         surface_set_vsvideo, surface_set_irlevel, surface_set_preprocessor, Script
<1> QED
  BY <1>2, <1>3

\* What a call is, by its operation.
LEMMA CallIs ==
  ASSUME NEW c \in LibraryCall
  PROVE  /\ c.op \in {"script", "image", "page", "calib", "usb"}
         /\ c.op = "script" => GoodScript(c)
         /\ c.op = "image" => c.size \in Nat \ {0}
         /\ c.op = "page" => c.page \in Page
<1>1. CASE c \in ScriptCall
  BY <1>1, ScriptsGood
<1>2. CASE c \in {surface_get_image(n) : n \in Nat \ {0}}
  BY <1>2 DEF surface_get_image
<1>3. CASE c \in {surface_read_spi_flash(page) : page \in Page}
  BY <1>3 DEF surface_read_spi_flash
<1>4. CASE c \in {surface_read_calib, surface_read_usb_flash}
  BY <1>4 DEF surface_read_calib, surface_read_usb_flash
<1> QED
  BY <1>1, <1>2, <1>3, <1>4 DEF LibraryCall

\* What a transfer does to the registers and to the window, one kind after the other.
LEMMA Obeyed ==
  ASSUME SurfaceType, NEW t, Obey(t)
  PROVE  /\ t = Get => reg' = reg /\ window' = window
         /\ \A r \in Reg : \A v : t = PokeModule(r, v) =>
              reg' = [reg EXCEPT ![r] = v] /\ window' = window
         /\ \A v : t = PokeModule("NVW1", v) => reg' = reg /\ window' = <<v, window[2]>>
         /\ \A v : t = PokeModule("NVW2", v) => reg' = reg /\ window' = <<window[1], v>>
         /\ \A r \in Reg : \A v : t = PokeModule("NVW3", v) /\ window[1] = "panel" /\ window[2] = r =>
              reg' = [reg EXCEPT ![r] = v] /\ window' = window
<1>1. t = Get => reg' = reg /\ window' = window
  BY DEF Get, Obey
<1>2. \A r \in Reg : \A v : t = PokeModule(r, v) =>
        reg' = [reg EXCEPT ![r] = v] /\ window' = window
  BY RegNames DEF PokeModule, Obey
<1>3. \A v : t = PokeModule("NVW1", v) => reg' = reg /\ window' = <<v, window[2]>>
  BY RegNames DEF PokeModule, Obey
<1>4. \A v : t = PokeModule("NVW2", v) => reg' = reg /\ window' = <<window[1], v>>
  BY RegNames DEF PokeModule, Obey
<1>5. \A r \in Reg : \A v : t = PokeModule("NVW3", v) /\ window[1] = "panel" /\ window[2] = r =>
        reg' = [reg EXCEPT ![r] = v] /\ window' = window
  BY RegNames DEF PokeModule, Obey
<1> QED
  BY <1>1, <1>2, <1>3, <1>4, <1>5

\* Different transfers are different.
LEMMA Distinct ==
  \A a, b, v, w : PokeModule(a, v) = PokeModule(b, w) => a = b /\ v = w
  BY DEF PokeModule

\* A transfer of a script that works leaves a script with less to do.
LEMMA ScriptTransfer ==
  ASSUME SurfaceType, ScriptShape, at = "return", call.op = "script", failed = FALSE,
         todo # <<>>, todo' = Tail(todo), Obey(Head(todo)),
         UNCHANGED <<call, at, failed>>,
         stray' = (stray \/ \E r \in Reg : reg'[r] # reg[r] /\ r \notin DOMAIN call.writes)
  PROVE  ScriptShape'
<1> DEFINE wr == call.writes
           n == Len(todo)
           nxt == Tail(todo)
<1>1. /\ Sound(wr, todo, window) /\ Pending(wr, todo, window) /\ stray = FALSE
      /\ DOMAIN wr \subseteq Reg /\ todo \in Seq(Transfer)
  BY CallIs DEF ScriptShape, SurfaceType, GoodScript
<1>2. /\ n \in Nat \ {0} /\ Len(nxt) = n - 1 /\ \A i \in 1 .. n - 1 : nxt[i] = todo[i + 1]
      /\ Head(todo) = todo[1]
  BY <1>1
<1>3. ASSUME NEW r \in DOMAIN wr, NEW p \in 0 .. n - 2, PanelWrite(wr, todo, window, p, r)
      PROVE  PanelWrite(wr, nxt, window', p - 1, r)
  <2> HIDE DEF n, nxt, wr
  <2>1. /\ p >= 1 => todo[p] = PokeModule("NVW1", "panel")
        /\ p >= 0 => todo[p + 1] = PokeModule("NVW2", r)
        /\ todo[p + 2] = PokeModule("NVW3", wr[r])
        /\ p <= 0 => window[1] = "panel"
    BY <1>3 DEF PanelWrite
  <2>2. nxt[p + 1] = PokeModule("NVW3", wr[r])
    BY <1>2, <2>1
  <2>3. CASE p >= 2
    <3>0. p - 1 \in 1 .. n - 1 /\ p \in 1 .. n - 1 /\ (p - 1) + 1 = p
      BY <1>2, <2>3
    <3>1. nxt[p - 1] = todo[p] /\ nxt[p] = todo[p + 1]
      BY <1>2, <3>0
    <3> QED
      <4>1. /\ p - 1 \in -1 .. Len(nxt) - 2 /\ (p - 1) + 1 = p /\ (p - 1) + 2 = p + 1 /\ p - 1 >= 1
        BY <1>2, <2>3
      <4> QED
        BY <2>1, <2>2, <2>3, <3>1, <4>1 DEF PanelWrite
  <2>4. CASE p = 1
    <3>1. nxt[p] = todo[p + 1] /\ window' = << "panel", window[2] >>
      BY <1>2, <2>1, <2>4, Obeyed
    <3> QED
      <4>1. 0 \in -1 .. Len(nxt) - 2 /\ 0 + 1 = 1 /\ 0 + 2 = 2 /\ p - 1 = 0
        BY <1>2, <2>4
      <4>2. nxt[1] = PokeModule("NVW2", r) /\ nxt[2] = PokeModule("NVW3", wr[r]) /\ window'[1] = "panel"
        BY <2>1, <2>2, <2>4, <3>1
      <4> QED
        BY <4>1, <4>2 DEF PanelWrite
  <2>5. CASE p = 0
    <3>1. window' = <<window[1], r>>
      BY <1>2, <2>1, <2>5, Obeyed
    <3> QED
      <4>1. -1 \in -1 .. Len(nxt) - 2 /\ -1 + 2 = 1 /\ p - 1 = -1
        BY <1>2, <2>5
      <4>2. nxt[1] = PokeModule("NVW3", wr[r]) /\ window'[1] = "panel" /\ window'[2] = r
        BY <2>1, <2>2, <2>5, <3>1
      <4> QED
        BY <4>1, <4>2 DEF PanelWrite
  <2> QED
    BY <2>3, <2>4, <2>5
<1>4. ASSUME NEW r \in DOMAIN wr, PanelWrite(wr, todo, window, -1, r)
      PROVE  reg' = [reg EXCEPT ![r] = wr[r]]
  <2>1. Head(todo) = PokeModule("NVW3", wr[r]) /\ window[1] = "panel" /\ window[2] = r
    BY <1>2, <1>4 DEF PanelWrite
  <2> QED
    BY <1>1, <2>1, Obeyed
<1>5. ASSUME NEW r \in DOMAIN wr, todo[1] = PokeModule(r, wr[r])
      PROVE  reg' = [reg EXCEPT ![r] = wr[r]]
  BY <1>1, <1>2, <1>5, Obeyed
<1>6. reg' = reg \/ \E r \in DOMAIN wr : reg' = [reg EXCEPT ![r] = wr[r]]
  <2>1. \/ todo[1] = Get
        \/ \E r \in DOMAIN wr : todo[1] = PokeModule(r, wr[r])
        \/ \E r \in DOMAIN wr : \E p \in -1 .. 1 : PanelWrite(wr, todo, window, p, r)
    BY <1>1, <1>2 DEF Sound
  <2>2. CASE todo[1] = Get
    BY <1>2, <2>2, Obeyed
  <2>3. CASE \E r \in DOMAIN wr : todo[1] = PokeModule(r, wr[r])
    BY <1>5, <2>3
  <2>4. ASSUME NEW r \in DOMAIN wr, NEW p \in -1 .. 1, PanelWrite(wr, todo, window, p, r)
        PROVE  reg' = reg \/ reg' = [reg EXCEPT ![r] = wr[r]]
    <3>1. CASE p = -1
      BY <1>4, <2>4, <3>1
    <3>2. CASE p = 0
      BY <1>2, <2>4, <3>2, Obeyed DEF PanelWrite
    <3>3. CASE p = 1
      BY <1>2, <2>4, <3>3, Obeyed DEF PanelWrite
    <3> QED
      BY <3>1, <3>2, <3>3
  <2> QED
    BY <2>1, <2>2, <2>3, <2>4
<1>7. \A r \in Reg : reg'[r] # reg[r] => r \in DOMAIN wr /\ reg'[r] = wr[r]
  BY <1>1, <1>6 DEF SurfaceType
<1>8. Sound(wr, nxt, window')
  <2> SUFFICES ASSUME NEW i \in 1 .. n - 1
               PROVE  \/ nxt[i] = Get
                      \/ \E r \in DOMAIN wr : nxt[i] = PokeModule(r, wr[r])
                      \/ \E r \in DOMAIN wr : \E p \in i - 2 .. i : PanelWrite(wr, nxt, window', p, r)
    BY <1>2 DEF Sound
  <2>1. i + 1 \in 1 .. n /\ nxt[i] = todo[i + 1] /\ (i + 1) - 2 = i - 1
    BY <1>2
  <2>2. \/ todo[i + 1] = Get
        \/ \E r \in DOMAIN wr : todo[i + 1] = PokeModule(r, wr[r])
        \/ \E r \in DOMAIN wr : \E p \in i - 1 .. i + 1 : PanelWrite(wr, todo, window, p, r)
    BY <1>1, <2>1 DEF Sound
  <2>3. ASSUME NEW r \in DOMAIN wr, NEW p \in i - 1 .. i + 1, PanelWrite(wr, todo, window, p, r)
        PROVE  \E q \in i - 2 .. i : PanelWrite(wr, nxt, window', q, r)
    <3>1. p \in 0 .. n - 2 /\ p - 1 \in i - 2 .. i
      BY <1>2, <2>3 DEF PanelWrite
    <3> QED
      BY <1>3, <2>3, <3>1
  <2> QED
    BY <2>1, <2>2, <2>3
<1>9. \A r \in DOMAIN wr : reg'[r] = wr[r] \/ Comes(wr, nxt, window', r)
  <2> SUFFICES ASSUME NEW r \in DOMAIN wr
               PROVE  reg'[r] = wr[r] \/ Comes(wr, nxt, window', r)
    OBVIOUS
  <2>1. CASE reg[r] = wr[r]
    BY <1>1, <1>7, <2>1
  <2>2. ASSUME NEW i \in 1 .. n, todo[i] = PokeModule(r, wr[r])
        PROVE  reg'[r] = wr[r] \/ Comes(wr, nxt, window', r)
    <3>1. CASE i = 1
      BY <1>1, <1>5, <2>2, <3>1 DEF SurfaceType
    <3>2. CASE i # 1
      <4>1. i - 1 \in 1 .. Len(nxt) /\ nxt[i - 1] = todo[i]
        BY <1>2, <3>2
      <4> QED
        BY <2>2, <4>1 DEF Comes
    <3> QED
      BY <3>1, <3>2
  <2>3. ASSUME NEW p \in -1 .. n - 2, PanelWrite(wr, todo, window, p, r)
        PROVE  reg'[r] = wr[r] \/ Comes(wr, nxt, window', r)
    <3>1. CASE p = -1
      BY <1>1, <1>4, <2>3, <3>1 DEF SurfaceType
    <3>2. CASE p # -1
      <4>1. p \in 0 .. n - 2 /\ p - 1 \in -1 .. Len(nxt) - 2
        BY <1>2, <3>2
      <4>2. PanelWrite(wr, nxt, window', p - 1, r)
        BY <1>3, <2>3, <4>1
      <4> QED
        BY <4>1, <4>2 DEF Comes
    <3> QED
      BY <3>1, <3>2
  <2>4. reg[r] = wr[r] \/ Comes(wr, todo, window, r)
    BY <1>1 DEF Pending
  <2> QED
    BY <2>1, <2>2, <2>3, <2>4 DEF Comes
<1> QED
  <2>1. call' = call /\ todo' = nxt /\ stray' = FALSE
    BY <1>1, <1>7
  <2>2. Sound(call'.writes, todo', window')
    BY <1>8, <2>1
  <2>3. \A r \in DOMAIN call'.writes : reg'[r] = call'.writes[r] \/ Comes(call'.writes, todo', window', r)
    BY <1>9, <2>1
  <2> QED
    BY <2>1, <2>2, <2>3 DEF ScriptShape, Pending

\* The transfers before a read of FPGA memory.
LEMMA DdrTransfers ==
  ASSUME NEW area \in {"flash", "calib"}
  PROVE  /\ DdrRead(area) # <<>> /\ Tail(DdrRead(area)) # <<>>
         /\ Head(DdrRead(area)) = <<"ddr enable">>
         /\ Head(Tail(DdrRead(area))) = <<"ddr read", area>>
         /\ Tail(Tail(DdrRead(area))) = <<>>
<1>1. ASSUME NEW a, NEW b
      PROVE  /\ <<a, b>> # <<>> /\ Tail(<<a, b>>) # <<>> /\ Head(<<a, b>>) = a
             /\ Head(Tail(<<a, b>>)) = b /\ Tail(Tail(<<a, b>>)) = <<>>
  <2>1. Tail(<<a, b>>) = << b >> /\ Tail(<< b >>) = <<>>
    OBVIOUS
  <2> QED
    BY <2>1
<1> QED
  BY <1>1 DEF DdrRead

LEMMA SurfaceStart ==
  ASSUME SurfaceInv, NEW c \in LibraryCall, Begin(c)
  PROVE  SurfaceInv'
<1>1. /\ at = "idle" /\ todo = <<>>
      /\ call' = c /\ got' = <<>> /\ failed' = FALSE /\ torn' = FALSE /\ stray' = FALSE
      /\ result' = FALSE
      /\ reg' = reg /\ window' = window /\ frame' = frame /\ spi' = spi /\ ddr' = ddr
      /\ cursor' = cursor
  BY DEF SurfaceInv, SurfaceShape, PlaceShape, Begin, devVars
<1>2. /\ c.op \in {"script", "image", "page", "calib", "usb"}
      /\ c.op = "script" => GoodScript(c) /\ at' = "return" /\ todo' = c.transfers
      /\ c.op = "image" => at' = "header" /\ todo' = <<>>
      /\ c.op = "page" => at' = "enable" /\ todo' = <<>>
      /\ c.op = "calib" => at' = "blocks" /\ todo' = DdrRead("calib")
      /\ c.op = "usb" => at' = "i2c" /\ todo' = <<>>
  <2>1. /\ c.op \in {"script", "image", "page", "calib", "usb"}
        /\ c.op = "script" => GoodScript(c)
    BY CallIs
  <2> QED
    BY <2>1 DEF Begin
<1>3. SurfaceType'
  <2>1. at' # "blocks" => todo' \in Seq(Transfer)
    <3>1. <<>> \in Seq(Transfer)
      OBVIOUS
    <3> QED
      BY <1>2, <3>1 DEF GoodScript
  <2> QED
    BY <1>1, <2>1 DEF SurfaceInv, SurfaceType
<1>4. PlaceShape'
  BY <1>1, <1>2 DEF PlaceShape
<1>5. ScriptShape'
  <2> SUFFICES ASSUME at' = "return"
               PROVE  /\ stray' = FALSE /\ Sound(call'.writes, todo', window')
                      /\ \A r \in DOMAIN call'.writes : Comes(call'.writes, todo', window', r)
    BY DEF ScriptShape, Pending
  <2>1. /\ c.op = "script" /\ GoodScript(c) /\ todo' = c.transfers
        /\ Sound(c.writes, todo', Elsewhere) /\ todo' \in Seq(Transfer)
        /\ \A r \in DOMAIN c.writes : Comes(c.writes, todo', Elsewhere, r)
    BY <1>2 DEF GoodScript
  <2>2. \A r, p : PanelWrite(c.writes, todo', Elsewhere, p, r) => PanelWrite(c.writes, todo', window', p, r)
    BY <2>1 DEF PanelWrite, Elsewhere
  <2> QED
    BY <1>1, <2>1, <2>2 DEF Sound, Comes
<1>6. ImageShape' /\ PageShape'
  BY <1>1, <1>2 DEF ImageShape, PageShape
<1>7. BlockShape'
  BY <1>1, <1>2, DdrTransfers DEF BlockShape, Area
<1>8. CallsWork'
  BY <1>1, <1>2 DEF CallsWork, ScriptsWrite, ResultsWhole
<1> QED
  BY <1>3, <1>4, <1>5, <1>6, <1>7, <1>8 DEF SurfaceInv, SurfaceShape

LEMMA SurfaceStill ==
  ASSUME SurfaceInv, UNCHANGED <<callVars, faults, devVars>>
  PROVE  SurfaceInv'
<1>1. /\ call' = call /\ todo' = todo /\ at' = at /\ got' = got /\ result' = result
      /\ failed' = failed /\ torn' = torn /\ stray' = stray /\ reg' = reg /\ window' = window
      /\ frame' = frame /\ spi' = spi /\ ddr' = ddr /\ cursor' = cursor
  BY DEF callVars, devVars
<1>2. SurfaceType' /\ PlaceShape' /\ PageShape'
  BY <1>1 DEF SurfaceInv, SurfaceShape, SurfaceType, PlaceShape, PageShape
<1>3. ScriptShape'
  BY <1>1 DEF SurfaceInv, SurfaceShape, ScriptShape, Pending
<1>4. ImageShape' /\ BlockShape'
  BY <1>1 DEF SurfaceInv, SurfaceShape, ImageShape, FrameSize, BlockShape, Area
<1>5. CallsWork'
  BY <1>1 DEF SurfaceInv, SurfaceShape, CallsWork, ScriptsWrite, ResultsWhole
<1> QED
  BY <1>2, <1>3, <1>4, <1>5 DEF SurfaceInv, SurfaceShape

LEMMA ObeyedCursor ==
  /\ \A t : Obey(t) /\ t[1] # "ddr read" => cursor' = cursor
  /\ Obey(<<"ddr enable">>) => cursor' = cursor
  /\ \A area : Obey(<<"ddr read", area>>) => cursor' = <<area, 0>>
<1>1. \A t : Obey(t) => cursor' = IF t[1] = "ddr read" THEN <<t[2], 0>> ELSE cursor
  BY DEF Obey
<1>2. <<"ddr enable">>[1] = "ddr enable" /\ \A area : <<"ddr read", area>>[1] = "ddr read" /\ <<"ddr read", area>>[2] = area
  OBVIOUS
<1> QED
  BY <1>1, <1>2

LEMMA SurfaceControl ==
  ASSUME SurfaceInv, Control
  PROVE  SurfaceInv'
<1>1. /\ todo # <<>> /\ todo' = Tail(todo)
      /\ \/ Obey(Head(todo)) /\ UNCHANGED <<failed, faults>>
         \/ failed' = TRUE /\ UNCHANGED <<reg, window, cursor>>
      /\ stray' = (stray \/ \E r \in Reg : reg'[r] # reg[r] /\ r \notin DOMAIN call.writes)
      /\ UNCHANGED <<call, at, got, result, torn, frame, spi, ddr>>
  BY DEF Control
<1>2. /\ SurfaceType /\ ScriptShape /\ (at = "return" => todo \in Seq(Transfer))
      /\ at \in {"return", "blocks"} /\ (at = "return" => call.op = "script")
      /\ (at = "blocks" => call.op \in {"page", "calib"})
  BY <1>1 DEF SurfaceInv, SurfaceShape, SurfaceType, PlaceShape
<1>3. SurfaceType'
  <2>1. at = "return" => Tail(todo) \in Seq(Transfer)
    BY <1>1, <1>2
  <2>2. reg' = [r \in Reg |-> reg'[r]]
    BY <1>1, <1>2 DEF SurfaceType, Obey
  <2>3. stray' \in BOOLEAN /\ failed' \in BOOLEAN
    BY <1>1, <1>2 DEF SurfaceType
  <2> QED
    BY <1>1, <1>2, <2>1, <2>2, <2>3 DEF SurfaceType
<1>4. ScriptShape'
  <2>1. CASE at = "return" /\ failed = FALSE /\ Obey(Head(todo)) /\ UNCHANGED <<failed, faults>>
    BY <1>1, <1>2, <2>1, ScriptTransfer
  <2>2. CASE failed' = TRUE \/ at = "blocks"
    BY <1>1, <2>2 DEF ScriptShape
  <2> QED
    BY <1>1, <1>2, <2>1, <2>2 DEF ScriptShape, SurfaceType
<1>5. PlaceShape'
  BY <1>1, <1>2 DEF SurfaceInv, SurfaceShape, PlaceShape
<1>6. ImageShape' /\ PageShape'
  BY <1>1, <1>2 DEF SurfaceInv, SurfaceShape, ImageShape, PageShape, FrameSize
<1>7. BlockShape'
  <2>1. CASE at = "blocks"
    <3>1. /\ Area \in {"flash", "calib"} /\ Area' = Area
          /\ todo \in {DdrRead(Area), Tail(DdrRead(Area))} /\ got = <<>>
      BY <1>1, <1>2, <2>1 DEF SurfaceInv, SurfaceShape, BlockShape, Area
    <3>2. todo' \in {Tail(DdrRead(Area)), <<>>} /\ (todo' = <<>> => todo = Tail(DdrRead(Area)))
      BY <1>1, <3>1, DdrTransfers
    <3>3. CASE failed' = TRUE \/ todo' # <<>>
      BY <1>1, <2>1, <3>1, <3>2, <3>3 DEF BlockShape
    <3>4. CASE Obey(Head(todo)) /\ todo' = <<>>
      <4>1. cursor' = <<Area, 0>>
        <5>1. Head(todo) = <<"ddr read", Area>>
          BY <3>1, <3>2, <3>4, DdrTransfers
        <5> QED
          BY <3>4, <5>1, ObeyedCursor
      <4>2. 0 \in 0 .. Blocks - 1 /\ got' = [i \in 1 .. 0 |-> <<ddr[Area], i>>]
        BY <1>1, <3>1, SurfaceAssumption
      <4> QED
        BY <1>1, <2>1, <3>1, <3>4, <4>1, <4>2 DEF BlockShape
    <3> QED
      BY <1>1, <3>3, <3>4
  <2>2. CASE at = "return"
    BY <1>1, <2>2 DEF BlockShape
  <2> QED
    BY <1>2, <2>1, <2>2
<1>8. CallsWork'
  BY <1>1, <1>2 DEF CallsWork, ScriptsWrite, ResultsWhole
<1> QED
  BY <1>3, <1>4, <1>5, <1>6, <1>7, <1>8 DEF SurfaceInv, SurfaceShape

LEMMA CountOn ==
  ASSUME NEW m \in Nat, NEW n \in Nat
  PROVE  /\ [i \in 1 .. m |-> i] \o [i \in 1 .. n |-> m + i] = [i \in 1 .. m + n |-> i]
         /\ Len([i \in 1 .. m |-> i] \o [i \in 1 .. n |-> m + i]) = m + n
<1> DEFINE s == [i \in 1 .. m |-> i]
           t == [i \in 1 .. n |-> m + i]
<1>0. /\ s \in Seq(Nat) /\ t \in Seq(Nat) /\ Len(s) = m /\ Len(t) = n
      /\ \A i \in 1 .. m : s[i] = i
      /\ \A i \in 1 .. n : t[i] = m + i
  OBVIOUS
<1> HIDE DEF s, t
<1>1. /\ s \o t \in Seq(Nat) /\ Len(s \o t) = m + n
      /\ \A i \in 1 .. m + n : (s \o t)[i] = IF i <= m THEN s[i] ELSE t[i - m]
  BY <1>0, Joined
<1> DEFINE u == s \o t
<1> HIDE DEF u
<1>2. \A i \in 1 .. m + n : u[i] = i
  <2> SUFFICES ASSUME NEW i \in 1 .. m + n PROVE u[i] = i
    OBVIOUS
  <2>1. CASE i \in 1 .. m
    BY <1>0, <1>1, <2>1 DEF u
  <2>2. CASE i \notin 1 .. m
    <3>1. i - m \in 1 .. n /\ m + (i - m) = i /\ ~(i <= m)
      BY <2>2
    <3> QED
      BY <1>0, <1>1, <3>1 DEF u
  <2> QED
    BY <2>1, <2>2
<1>3. u \in Seq(Nat) /\ Len(u) = m + n
  BY <1>1 DEF u
<1>4. u = [i \in 1 .. m + n |-> u[i]]
  BY <1>3
<1> QED
  BY <1>2, <1>3, <1>4 DEF u, s, t

LEMMA TakenType ==
  ASSUME NEW n \in Nat, Taken(n), frame \in [next : Nat, full : BOOLEAN]
  PROVE  frame' \in [next : Nat, full : BOOLEAN]
<1> DEFINE b == reg["INIT1"] = 4
<1>1. b \in BOOLEAN
  OBVIOUS
<1>2. \/ frame' = [next |-> 0, full |-> b]
      \/ frame' = [frame EXCEPT !.next = @ + n]
  BY DEF Taken
<1> HIDE DEF b
<1> QED
  BY <1>1, <1>2

LEMMA SurfaceScriptDone ==
  ASSUME SurfaceInv, ScriptDone
  PROVE  SurfaceInv'
<1>1. /\ todo = <<>> /\ at = "return" /\ at' = "idle" /\ result' = TRUE
      /\ call' = call /\ todo' = todo /\ got' = got /\ failed' = failed /\ torn' = torn
      /\ stray' = stray /\ reg' = reg /\ window' = window /\ frame' = frame /\ spi' = spi
      /\ ddr' = ddr /\ cursor' = cursor
  BY DEF ScriptDone, Return, CallOn, devVars
<1>2. call.op = "script"
  BY <1>1 DEF SurfaceInv, SurfaceShape, PlaceShape
<1>3. ~failed => ~stray /\ \A r \in DOMAIN call.writes : reg[r] = call.writes[r]
  <2> SUFFICES ASSUME ~failed
               PROVE  ~stray /\ \A r \in DOMAIN call.writes : reg[r] = call.writes[r]
    OBVIOUS
  <2>1. ~stray /\ Pending(call.writes, todo, window)
    BY <1>1 DEF SurfaceInv, SurfaceShape, ScriptShape
  <2>2. ASSUME NEW r, Comes(call.writes, todo, window, r) PROVE FALSE
    BY <1>1, <2>2 DEF Comes
  <2> QED
    BY <2>1, <2>2 DEF Pending
<1>4. SurfaceType' /\ PlaceShape'
  BY <1>1, <1>2 DEF SurfaceInv, SurfaceShape, SurfaceType, PlaceShape
<1>5. ScriptShape' /\ ImageShape' /\ PageShape' /\ BlockShape'
  BY <1>1, <1>2 DEF ScriptShape, ImageShape, PageShape, BlockShape
<1>6. CallsWork'
  BY <1>1, <1>2, <1>3 DEF CallsWork, ScriptsWrite, ResultsWhole
<1> QED
  BY <1>4, <1>5, <1>6 DEF SurfaceInv, SurfaceShape

\* A step from a place that is neither a script nor a read of FPGA memory.
LEMMA SurfaceHeader ==
  ASSUME SurfaceInv, GetHeader
  PROVE  SurfaceInv'
<1>1. /\ at = "header" /\ at' \in {"image", "idle"}
      /\ call' = call /\ todo' = todo /\ failed' = failed /\ stray' = stray
      /\ reg' = reg /\ window' = window /\ spi' = spi /\ ddr' = ddr /\ cursor' = cursor
      /\ torn' \in {torn, TRUE} /\ result' \in {result, TRUE, FALSE}
      /\ at' = "idle" => result' = FALSE \/ torn' = TRUE
      /\ at' = "image" => torn' = TRUE \/ (got' = got /\ Taken(1) /\ Fits(frame, call.size))
      /\ Taken(1) \/ Taken(2) \/ frame' = frame
  BY DEF GetHeader, Counted, Return, CallOn
<1>2. /\ call.op = "image" /\ todo = <<>> /\ got = <<>>
      /\ call.size \in Nat \ {0} /\ frame \in [next : Nat, full : BOOLEAN]
  BY <1>1, CallIs DEF SurfaceInv, SurfaceShape, SurfaceType, PlaceShape, ImageShape
<1>3. frame' \in [next : Nat, full : BOOLEAN]
  BY <1>1, <1>2, TakenType
<1>4. SurfaceType' /\ PlaceShape'
  BY <1>1, <1>2, <1>3 DEF SurfaceInv, SurfaceShape, SurfaceType, PlaceShape
<1>5. ScriptShape' /\ PageShape' /\ BlockShape'
  BY <1>1, <1>2 DEF ScriptShape, PageShape, BlockShape
<1>6. ImageShape'
  <2> SUFFICES ASSUME at' = "image", ~torn'
               PROVE  /\ got' = [i \in 1 .. frame'.next - 1 |-> i]
                      /\ frame'.next \in 1 .. call'.size /\ FrameSize(frame') = call'.size
    BY <1>1 DEF ImageShape
  <2>1. /\ frame.next = 0 /\ FrameSize(frame) = call.size /\ ~(0 + 1 > FrameSize(frame))
        /\ frame' = [frame EXCEPT !.next = @ + 1] /\ got' = got
    BY <1>1, <1>2 DEF Fits, Taken
  <2>2. frame'.next = 1 /\ FrameSize(frame') = call.size
    BY <1>2, <2>1 DEF FrameSize
  <2>3. [i \in 1 .. 1 - 1 |-> i] = <<>>
    OBVIOUS
  <2> QED
    BY <1>1, <1>2, <2>1, <2>2, <2>3
<1>7. CallsWork'
  BY <1>1, <1>2 DEF CallsWork, ScriptsWrite, ResultsWhole
<1> QED
  BY <1>4, <1>5, <1>6, <1>7 DEF SurfaceInv, SurfaceShape

LEMMA SurfaceImage ==
  ASSUME SurfaceInv, GetImage
  PROVE  SurfaceInv'
<1>1. /\ at = "image" /\ call' = call /\ todo' = todo /\ failed' = failed /\ stray' = stray
      /\ reg' = reg /\ window' = window /\ spi' = spi /\ ddr' = ddr /\ cursor' = cursor
      /\ torn' = torn \/ torn' = TRUE
      /\ (at' = "idle" /\ result' = TRUE) \/ (at' = "image" /\ result' = result)
  <2>1. /\ at = "image" /\ (torn' = torn \/ torn' = TRUE)
        /\ UNCHANGED <<call, todo, failed, stray, reg, window, spi, ddr, cursor>>
    BY DEF GetImage, CallOn
  <2>2. \E n : Counted(n)
    BY DEF GetImage
  <2> QED
    BY <2>1, <2>2 DEF Counted, Return
<1>2. /\ call.op = "image" /\ todo = <<>>
      /\ call.size \in Nat \ {0} /\ frame \in [next : Nat, full : BOOLEAN]
  BY <1>1, CallIs DEF SurfaceInv, SurfaceShape, SurfaceType, PlaceShape
<1>3. frame' \in [next : Nat, full : BOOLEAN]
  <2>1. (\E n \in 1 .. PerRead : Taken(n)) \/ frame' = frame
    BY DEF GetImage
  <2> QED
    BY <1>2, <2>1, TakenType, SurfaceAssumption
<1>4. SurfaceType' /\ PlaceShape'
  BY <1>1, <1>2, <1>3 DEF SurfaceInv, SurfaceShape, SurfaceType, PlaceShape
<1>5. ScriptShape' /\ PageShape' /\ BlockShape'
  BY <1>1, <1>2 DEF ScriptShape, PageShape, BlockShape
\* What a transfer that works adds to the begin of the frame.
<1>6. ASSUME ~torn'
      PROVE  /\ Len(got') = call.size => got' = [i \in 1 .. call.size |-> i]
             /\ at' = "idle" => Len(got') = call.size
             /\ at' = "image" => /\ got' = [i \in 1 .. frame'.next - 1 |-> i]
                                 /\ frame'.next \in 1 .. call.size /\ FrameSize(frame') = call.size
  <2>0. ~torn
    BY <1>1, <1>6
  <2>1. /\ got = [i \in 1 .. frame.next - 1 |-> i]
        /\ frame.next \in 1 .. call.size /\ FrameSize(frame) = call.size
    BY <1>1, <2>0 DEF SurfaceInv, SurfaceShape, ImageShape
  <2>2. PICK n \in 1 .. PerRead :
          /\ n <= call.size - Len(got) /\ Taken(n) /\ got' = got \o Packets(n)
          /\ IF Len(got') >= call.size THEN at' = "idle" ELSE at' = "image"
    BY <1>6 DEF GetImage, Counted, Return
  <2> DEFINE m == frame.next - 1
  <2>3. n \in Nat \ {0} /\ frame.next \in Nat \ {0} /\ m \in Nat /\ Len(got) = m
    BY <1>2, <2>1, SurfaceAssumption
  <2>4. got' = [i \in 1 .. m + n |-> i] /\ Len(got') = m + n
    <3>1. Packets(n) = [i \in 1 .. n |-> m + i]
      <4>1. \A i \in 1 .. n : frame.next + i - 1 = m + i
        BY <2>3
      <4> QED
        BY <4>1 DEF Packets
    <3>2. got = [i \in 1 .. m |-> i]
      BY <2>1
    <3>3. m \in Nat /\ n \in Nat
      BY <2>3
    <3> HIDE DEF m
    <3> QED
      BY <2>2, <3>1, <3>2, <3>3, CountOn
  <2>5. m + n <= call.size
    BY <1>2, <2>2, <2>3
  <2>6. CASE m + n = call.size
    <3>1. Len(got') >= call.size
      BY <1>2, <2>4, <2>6
    <3> QED
      BY <2>2, <2>4, <2>6, <3>1
  <2>7. CASE m + n < call.size
    <3>1. Len(got') # call.size /\ ~(Len(got') >= call.size)
      BY <1>2, <2>3, <2>4, <2>7
    <3>2. frame.next + n \in 1 .. call.size /\ ~(frame.next + n > FrameSize(frame))
      BY <1>2, <2>1, <2>3, <2>7
    <3>3. frame' = [frame EXCEPT !.next = @ + n]
      BY <2>2, <3>2 DEF Taken
    <3>4. frame'.next = frame.next + n /\ FrameSize(frame') = call.size
      BY <1>2, <2>1, <3>3 DEF FrameSize
    <3>5. (frame.next + n) - 1 = m + n
      BY <2>3
    <3> QED
      BY <2>2, <2>4, <3>1, <3>2, <3>4, <3>5
  <2> QED
    BY <1>2, <2>3, <2>5, <2>6, <2>7
<1>7. ImageShape'
  BY <1>1, <1>6 DEF ImageShape
<1>8. CallsWork'
  BY <1>1, <1>2, <1>6 DEF CallsWork, ScriptsWrite, ResultsWhole
<1> QED
  BY <1>4, <1>5, <1>7, <1>8 DEF SurfaceInv, SurfaceShape

\* The flash: a call that asks for a page is at its own places until the page is there.
LEMMA SurfaceRequest ==
  ASSUME SurfaceInv, SpiEnable \/ SpiRequest
  PROVE  SurfaceInv'
<1>1. /\ at \in {"enable", "request"} /\ at' \in {"request", "poll", "idle"}
      /\ todo = <<>> /\ todo' = todo /\ reg' = reg /\ window' = window /\ frame' = frame
      /\ ddr' = ddr /\ cursor' = cursor /\ call' = call /\ torn' = torn /\ stray' = stray
      /\ got' = got
      /\ at' = "idle" => result' = FALSE /\ failed' = TRUE
      /\ at' # "idle" => result' = result /\ failed' = failed
      /\ at' = "poll" => spi' = call.page
  BY DEF SpiEnable, SpiRequest, Checked, Return, CallOn
<1>2. call.op = "page" /\ call.page \in Page
  BY <1>1, CallIs DEF SurfaceInv, SurfaceShape, SurfaceType, PlaceShape
<1>3. SurfaceType'
  BY <1>1 DEF SurfaceInv, SurfaceType
<1>4. PlaceShape'
  BY <1>1, <1>2 DEF SurfaceInv, SurfaceShape, PlaceShape
<1>5. ScriptShape' /\ ImageShape' /\ BlockShape'
  BY <1>1, <1>2 DEF ScriptShape, ImageShape, BlockShape
<1>6. PageShape'
  <2>1. call.page # None
    BY <1>2, SurfaceAssumption DEF None
  <2> QED
    BY <1>1, <1>2, <2>1 DEF PageShape
<1>7. CallsWork'
  BY <1>1, <1>2 DEF CallsWork, ScriptsWrite, ResultsWhole
<1> QED
  BY <1>3, <1>4, <1>5, <1>6, <1>7 DEF SurfaceInv, SurfaceShape

LEMMA SurfaceCopied ==
  ASSUME SurfaceInv, SpiDone
  PROVE  SurfaceInv'
<1>1. /\ spi # None /\ spi' = None /\ ddr' = [ddr EXCEPT !["flash"] = spi]
      /\ call' = call /\ todo' = todo /\ at' = at /\ got' = got /\ result' = result
      /\ failed' = failed /\ torn' = torn /\ stray' = stray /\ reg' = reg /\ window' = window
      /\ frame' = frame /\ cursor' = cursor
  BY DEF SpiDone, callVars
<1>2. /\ ddr' = [area \in {"flash", "calib"} |-> ddr'[area]]
      /\ ddr'["calib"] = ddr["calib"] /\ ddr'["flash"] = spi
  BY <1>1 DEF SurfaceInv, SurfaceType
<1>3. SurfaceType'
  BY <1>1, <1>2 DEF SurfaceInv, SurfaceType
<1>4. PlaceShape'
  BY <1>1 DEF SurfaceInv, SurfaceShape, PlaceShape
<1>5. ScriptShape' /\ ImageShape'
  BY <1>1 DEF SurfaceInv, SurfaceShape, ScriptShape, Pending, ImageShape, FrameSize
<1>6. PageShape'
  BY <1>1, <1>2 DEF SurfaceInv, SurfaceShape, PageShape
<1>7. BlockShape'
  <2>1. CASE at = "blocks" /\ call.op = "page"
    BY <1>1, <2>1 DEF SurfaceInv, SurfaceShape, PageShape
  <2>2. CASE at = "blocks" /\ call.op = "calib"
    <3>1. Area = "calib" /\ Area' = "calib"
      BY <1>1, <2>2 DEF Area
    <3> QED
      BY <1>1, <1>2, <2>2, <3>1 DEF SurfaceInv, SurfaceShape, BlockShape
  <2>3. CASE at # "blocks"
    BY <1>1, <2>3 DEF SurfaceInv, SurfaceShape, BlockShape
  <2> QED
    BY <2>1, <2>2, <2>3 DEF SurfaceInv, SurfaceShape, PlaceShape
<1>8. CallsWork'
  BY <1>1, <1>2 DEF SurfaceInv, SurfaceShape, CallsWork, ScriptsWrite, ResultsWhole
<1> QED
  BY <1>3, <1>4, <1>5, <1>6, <1>7, <1>8 DEF SurfaceInv, SurfaceShape

LEMMA SurfacePoll ==
  ASSUME SurfaceInv, PollCompletion
  PROVE  SurfaceInv'
<1>1. /\ at = "poll" /\ todo = <<>>
      /\ call' = call /\ torn' = torn /\ stray' = stray /\ reg' = reg /\ window' = window
      /\ frame' = frame /\ spi' = spi /\ ddr' = ddr /\ cursor' = cursor
      /\ \/ /\ spi = None /\ at' = "blocks" /\ todo' = DdrRead("flash") /\ got' = <<>>
            /\ result' = result /\ failed' = failed
         \/ at' = "poll" /\ result' = result /\ failed' = failed /\ todo' = todo
         \/ at' = "idle" /\ result' = FALSE /\ failed' \in {failed, TRUE} /\ todo' = todo
  BY DEF PollCompletion, Completed, Return, CallOn, devVars
<1>2. call.op = "page"
  BY <1>1 DEF SurfaceInv, SurfaceShape, PlaceShape
<1>3. SurfaceType'
  BY <1>1 DEF SurfaceInv, SurfaceType
<1>4. PlaceShape'
  BY <1>1, <1>2 DEF SurfaceInv, SurfaceShape, PlaceShape
<1>5. ScriptShape' /\ ImageShape'
  BY <1>1 DEF ScriptShape, ImageShape
<1>6. PageShape'
  BY <1>1, <1>2 DEF SurfaceInv, SurfaceShape, PageShape
<1>7. BlockShape'
  <2>1. Area' = "flash" /\ DdrRead("flash") # <<>>
    BY <1>1, <1>2, DdrTransfers DEF Area
  <2> QED
    BY <1>1, <1>2, <2>1 DEF BlockShape
<1>8. CallsWork'
  BY <1>1, <1>2 DEF CallsWork, ScriptsWrite, ResultsWhole
<1> QED
  BY <1>3, <1>4, <1>5, <1>6, <1>7, <1>8 DEF SurfaceInv, SurfaceShape

\* A sequence that counts, and one more.
LEMMA BlockOn ==
  ASSUME NEW x, NEW k \in Nat
  PROVE  /\ Append([i \in 1 .. k |-> <<x, i>>], <<x, k + 1>>) = [i \in 1 .. k + 1 |-> <<x, i>>]
         /\ Len(Append([i \in 1 .. k |-> <<x, i>>], <<x, k + 1>>)) = k + 1
<1> DEFINE s == [i \in 1 .. k |-> <<x, i>>]
           S == {<<x, i>> : i \in Nat}
           e == <<x, k + 1>>
<1>1. /\ s \in Seq(S) /\ Len(s) = k /\ e \in S
      /\ \A i \in 1 .. k : s[i] = <<x, i>>
  <2>1. \A i \in Nat : <<x, i>> \in S
    OBVIOUS
  <2> HIDE DEF S
  <2> QED
    BY <2>1
<1> HIDE DEF s, S, e
<1>2. /\ Append(s, e) \in Seq(S) /\ Len(Append(s, e)) = k + 1 /\ Append(s, e)[k + 1] = e
      /\ \A i \in 1 .. k : Append(s, e)[i] = s[i]
  BY <1>1, AppendProperties
<1>3. \A i \in 1 .. k + 1 : Append(s, e)[i] = <<x, i>>
  <2> SUFFICES ASSUME NEW i \in 1 .. k + 1 PROVE Append(s, e)[i] = <<x, i>>
    OBVIOUS
  <2>1. CASE i \in 1 .. k
    BY <1>1, <1>2, <2>1
  <2>2. CASE i = k + 1
    BY <1>2, <2>2 DEF e
  <2>3. i \in 1 .. k \/ i = k + 1
    OBVIOUS
  <2> QED
    BY <2>1, <2>2, <2>3
<1> DEFINE a == Append(s, e)
<1>4. a \in Seq(S) /\ Len(a) = k + 1 /\ \A i \in 1 .. k + 1 : a[i] = <<x, i>>
  BY <1>2, <1>3
<1> HIDE DEF a
<1>5. a = [i \in 1 .. k + 1 |-> <<x, i>>]
  <2>1. a = [i \in 1 .. k + 1 |-> a[i]]
    BY <1>4
  <2> QED
    BY <1>4, <2>1
<1> QED
  BY <1>4, <1>5 DEF a, s, e

LEMMA SurfaceRead ==
  ASSUME SurfaceInv, ReadDdr
  PROVE  SurfaceInv'
<1> DEFINE k == cursor[2]
           x == ddr[cursor[1]]
<1>1. /\ at = "blocks" /\ todo = <<>> /\ at' \in {"blocks", "idle"}
      /\ at' = "idle" => result' = TRUE
      /\ result' \in {result, TRUE} /\ (torn' = torn \/ torn' = TRUE)
      /\ todo' = todo /\ failed' = failed /\ reg' = reg /\ window' = window /\ frame' = frame
      /\ spi' = spi /\ ddr' = ddr /\ call' = call /\ stray' = stray
  BY DEF ReadDdr, CountedBlock, Again, Return, CallOn
<1>2. /\ Blocks \in Nat \ {0} /\ NothingToSend[2] = Blocks
  BY SurfaceAssumption DEF NothingToSend
<1>3. /\ call.op \in {"page", "calib"} /\ Area' = Area
      /\ call.op = "page" => ddr[Area] = call.page
      /\ call.op = "calib" => ddr[Area] = ddr["calib"]
  BY <1>1 DEF SurfaceInv, SurfaceShape, PlaceShape, PageShape, Area
\* What a transfer that works adds to the begin of the area, and one that is made again does not.
<1>4. ASSUME ~failed', ~torn'
      PROVE  /\ at' = "idle" => got' = [i \in 1 .. Blocks |-> <<ddr[Area], i>>]
             /\ at' = "blocks" => /\ cursor'[1] = Area /\ cursor'[2] \in 0 .. Blocks - 1
                                  /\ got' = [i \in 1 .. cursor'[2] |-> <<ddr[Area], i>>]
  <2>0. ~failed /\ ~torn
    BY <1>1, <1>4
  <2>1. /\ cursor[1] = Area /\ k \in 0 .. Blocks - 1
        /\ got = [i \in 1 .. k |-> <<ddr[Area], i>>]
    BY <1>1, <2>0 DEF SurfaceInv, SurfaceShape, BlockShape
  <2>2. CASE got' = got /\ at' = at /\ cursor' = cursor
    BY <1>1, <2>1, <2>2
  <2>3. CASE /\ got' = Append(got, <<x, k + 1>>)
             /\ cursor' = IF k + 1 = Blocks THEN NothingToSend ELSE <<cursor[1], k + 1>>
             /\ IF Len(got') = Blocks THEN at' = "idle" ELSE at' = at
    <3>1. got' = [i \in 1 .. k + 1 |-> <<x, i>>] /\ Len(got') = k + 1
      <4>1. k \in Nat /\ got = [i \in 1 .. k |-> <<x, i>>]
        BY <1>2, <2>1
      <4> HIDE DEF k, x
      <4> QED
        BY <2>3, <4>1, BlockOn
    <3>2. CASE k + 1 = Blocks
      BY <1>1, <2>1, <2>3, <3>1, <3>2
    <3>3. CASE k + 1 # Blocks
      <4>1. /\ at' = "blocks" /\ cursor' = <<Area, k + 1>> /\ k + 1 \in 0 .. Blocks - 1
            /\ got' = [i \in 1 .. k + 1 |-> <<ddr[Area], i>>]
        BY <1>1, <1>2, <2>1, <2>3, <3>1, <3>3
      <4>2. cursor'[1] = Area /\ cursor'[2] = k + 1
        BY <4>1
      <4> HIDE DEF k, x
      <4> QED
        BY <4>1, <4>2
    <3> QED
      BY <3>2, <3>3
  <2> QED
    BY <1>4, <2>2, <2>3 DEF ReadDdr, NextBlock, CountedBlock, Again, Return
<1>5. SurfaceType'
  <2>1. <<>> \in Seq(Transfer)
    OBVIOUS
  <2> QED
    BY <1>1, <2>1 DEF SurfaceInv, SurfaceType
<1>6. PlaceShape'
  BY <1>1 DEF SurfaceInv, SurfaceShape, PlaceShape
<1>7. ScriptShape' /\ ImageShape'
  BY <1>1 DEF ScriptShape, ImageShape
<1>8. PageShape'
  BY <1>1 DEF SurfaceInv, SurfaceShape, PageShape
<1>9. BlockShape'
  BY <1>1, <1>3, <1>4 DEF BlockShape
<1>10. CallsWork'
  <2>1. ResultsWhole'
    BY <1>1, <1>3, <1>4 DEF ResultsWhole
  <2>2. ScriptsWrite'
    BY <1>1, <1>3 DEF ScriptsWrite
  <2> QED
    BY <2>1, <2>2 DEF CallsWork
<1> QED
  BY <1>5, <1>6, <1>7, <1>8, <1>9, <1>10 DEF SurfaceInv, SurfaceShape

LEMMA SurfaceUsb ==
  ASSUME SurfaceInv, ReadUsbFlash
  PROVE  SurfaceInv'
<1>1. /\ at = "i2c" /\ at' \in {"i2c", "idle"} /\ result' \in BOOLEAN
      /\ call' = call /\ todo' = todo /\ failed' = failed /\ torn' = torn /\ stray' = stray
      /\ reg' = reg /\ window' = window /\ frame' = frame /\ spi' = spi /\ ddr' = ddr
      /\ cursor' = cursor
  BY DEF ReadUsbFlash, Return, CallOn, devVars, SurfaceInv, SurfaceType
<1>2. call.op = "usb" /\ todo = <<>>
  BY <1>1 DEF SurfaceInv, SurfaceShape, PlaceShape
<1>3. SurfaceType'
  BY <1>1 DEF SurfaceInv, SurfaceType
<1>4. PlaceShape' /\ ScriptShape' /\ ImageShape' /\ PageShape' /\ BlockShape'
  BY <1>1, <1>2 DEF PlaceShape, ScriptShape, ImageShape, PageShape, BlockShape
<1>5. CallsWork'
  BY <1>1, <1>2 DEF CallsWork, ScriptsWrite, ResultsWhole
<1> QED
  BY <1>3, <1>4, <1>5 DEF SurfaceInv, SurfaceShape

LEMMA LibraryStep ==
  ASSUME SurfaceInv, Library \/ SpiDone \/ ReadDdrTimeout
  PROVE  SurfaceInv'
<1>1. CASE Control
  BY <1>1, SurfaceControl
<1>2. CASE ScriptDone
  BY <1>2, SurfaceScriptDone
<1>3. CASE GetHeader
  BY <1>3, SurfaceHeader
<1>4. CASE GetImage
  BY <1>4, SurfaceImage
<1>5. CASE SpiEnable \/ SpiRequest
  BY <1>5, SurfaceRequest
<1>6. CASE PollCompletion
  BY <1>6, SurfacePoll
<1>7. CASE ReadDdr
  BY <1>7, SurfaceRead
<1>8. CASE ReadUsbFlash
  BY <1>8, SurfaceUsb
<1>9. CASE SpiDone
  BY <1>9, SurfaceCopied
<1>10. CASE ReadDdrTimeout
  BY <1>10, SurfaceStill DEF ReadDdrTimeout
<1> QED
  BY <1>1, <1>2, <1>3, <1>4, <1>5, <1>6, <1>7, <1>8, <1>9, <1>10 DEF Library

LEMMA LibraryFirst == LibraryInit => SurfaceInv
<1> SUFFICES ASSUME LibraryInit PROVE SurfaceInv
  OBVIOUS
<1>1. /\ call = surface_peek /\ todo = <<>> /\ at = "idle" /\ result = FALSE /\ failed = FALSE
      /\ torn = FALSE /\ stray = FALSE /\ frame = [next |-> 0, full |-> FALSE]
      /\ reg = [r \in Reg |-> CASE r = "INIT3" -> 128 [] r = "REG17" -> 4 [] OTHER -> 0]
      /\ ddr = [area \in {"flash", "calib"} |-> area]
  BY DEF LibraryInit
<1>2. call \in LibraryCall /\ call.op = "script" /\ call.writes = NoWrites
  BY <1>1 DEF LibraryCall, ScriptCall, surface_peek, Script
<1>3. SurfaceType
  <2>1. <<>> \in Seq(Transfer)
    OBVIOUS
  <2>2. frame \in [next : Nat, full : BOOLEAN]
    BY <1>1
  <2>3. reg = [r \in Reg |-> reg[r]]
    BY <1>1
  <2> QED
    BY <1>1, <1>2, <2>1, <2>2, <2>3 DEF SurfaceType
<1>4. PlaceShape /\ ScriptShape /\ ImageShape /\ PageShape /\ BlockShape
  BY <1>1 DEF PlaceShape, ScriptShape, ImageShape, PageShape, BlockShape
<1>5. CallsWork
  BY <1>1, <1>2 DEF CallsWork, ScriptsWrite, ResultsWhole, NoWrites
<1> QED
  BY <1>3, <1>4, <1>5 DEF SurfaceInv, SurfaceShape

ToolsType == /\ plan \in Seq(LibraryCall) /\ mode \in {1, 2}
             /\ voltage \in Int /\ bias \in Int
ToolsInv == SurfaceInv /\ ToolsType

LEMMA PlansAreCalls ==
  /\ surface_init \in LibraryCall /\ surface_peek \in LibraryCall
  /\ surface_calib_start \in LibraryCall /\ surface_calib_end \in LibraryCall
  /\ \A v \in Int : surface_set_vsvideo(v) \in LibraryCall /\ surface_set_irlevel(v) \in LibraryCall
  /\ surface_set_preprocessor(TRUE) \in LibraryCall
  /\ surface_read_calib \in LibraryCall /\ surface_read_usb_flash \in LibraryCall
  /\ \A n \in Nat \ {0} : surface_get_image(n) \in LibraryCall
  /\ [i \in 1 .. Cardinality(Page) |-> surface_read_spi_flash(SetToSeq(Page)[i])] \in Seq(LibraryCall)
<1>1. \A page \in Page : surface_read_spi_flash(page) \in LibraryCall
  BY DEF LibraryCall
<1>2. Cardinality(Page) \in Nat /\ SetToSeq(Page) \in [1 .. Cardinality(Page) -> Page]
  <2>1. IsFiniteSet(Page)
    BY SurfaceAssumption
  <2>2. Cardinality(Page) \in Nat
    BY <2>1, FS_CardinalityType
  <2>3. PICK k \in Nat : ExistsBijection(1 .. k, Page)
    BY <2>1, FS_NatBijection
  <2>4. k = Cardinality(Page)
    BY <2>3, FS_CountingElements
  <2>5. PICK f \in Bijection(1 .. Cardinality(Page), Page) : TRUE
    BY <2>3, <2>4 DEF ExistsBijection
  <2>6. f \in [1 .. Cardinality(Page) -> Page] /\ IsInjective(f)
    BY <2>5 DEF Bijection, Injection, IsInjective
  <2> QED
    BY <2>2, <2>6 DEF SetToSeq
<1>3. \A i \in 1 .. Cardinality(Page) : surface_read_spi_flash(SetToSeq(Page)[i]) \in LibraryCall
  BY <1>1, <1>2
<1>4. [i \in 1 .. Cardinality(Page) |-> surface_read_spi_flash(SetToSeq(Page)[i])] \in Seq(LibraryCall)
  BY <1>2, <1>3
<1>5. \A n \in Nat \ {0} : surface_get_image(n) \in LibraryCall
  BY DEF LibraryCall
<1>6. \A v \in Int : surface_set_vsvideo(v) \in LibraryCall /\ surface_set_irlevel(v) \in LibraryCall
  BY DEF LibraryCall, ScriptCall
<1>7. surface_set_preprocessor(TRUE) \in LibraryCall
  BY DEF LibraryCall, ScriptCall
<1>8. /\ surface_init \in LibraryCall /\ surface_peek \in LibraryCall
      /\ surface_calib_start \in LibraryCall /\ surface_calib_end \in LibraryCall
      /\ surface_read_calib \in LibraryCall /\ surface_read_usb_flash \in LibraryCall
  BY DEF LibraryCall, ScriptCall
<1> QED
  BY <1>4, <1>5, <1>6, <1>7, <1>8

\* Keys leave the library alone; what they plan are calls of it.
LEMMA KeyStep ==
  ASSUME ToolsInv, NEW calls \in Seq(LibraryCall), Key(calls), mode' \in {1, 2},
         voltage' \in Int, bias' \in Int
  PROVE  ToolsInv'
<1>1. UNCHANGED <<callVars, faults, devVars>> /\ plan' = calls
  BY DEF Key
<1>2. SurfaceInv'
  BY <1>1, SurfaceStill DEF ToolsInv
<1> QED
  BY <1>1, <1>2 DEF ToolsInv, ToolsType

LEMMA ToolsStep == ToolsInv /\ [ToolNext]_toolVars => ToolsInv'
<1> SUFFICES ASSUME ToolsInv, [ToolNext]_toolVars PROVE ToolsInv'
  OBVIOUS
<1>1. /\ SurfaceInv /\ plan \in Seq(LibraryCall) /\ mode \in {1, 2} /\ voltage \in Int /\ bias \in Int
      /\ MaxVoltage \in Nat \ {0} /\ MaxBias \in Nat \ {0}
  BY ToolsAssumption DEF ToolsInv, ToolsType
<1>2. ASSUME NEW p \in {"calib", "view", "test"}, Start(p) PROVE ToolsInv'
  <2>1. UNCHANGED <<callVars, faults, devVars>> /\ mode' = 1 /\ voltage' = 1 /\ bias' = 1
    BY <1>2 DEF Start
  <2>2. <<surface_init>> \o <<>> \in Seq(LibraryCall)
    BY PlansAreCalls
  <2>3. <<surface_init>> \o <<surface_set_vsvideo(134), surface_set_irlevel(255),
          surface_set_preprocessor(TRUE)>> \in Seq(LibraryCall)
    <3>1. /\ << surface_init >> \in Seq(LibraryCall)
          /\ <<surface_set_vsvideo(134), surface_set_irlevel(255), surface_set_preprocessor(TRUE)>>
               \in Seq(LibraryCall)
      <4>1. /\ surface_init \in LibraryCall /\ surface_set_vsvideo(134) \in LibraryCall
            /\ surface_set_irlevel(255) \in LibraryCall
            /\ surface_set_preprocessor(TRUE) \in LibraryCall
        <5>1. 134 \in Int /\ 255 \in Int
          OBVIOUS
        <5>2. surface_set_vsvideo(134) \in LibraryCall
          BY <5>1, PlansAreCalls
        <5>3. surface_set_irlevel(255) \in LibraryCall
          BY <5>1, PlansAreCalls
        <5> QED
          BY <5>2, <5>3, PlansAreCalls
      <4>2. ASSUME NEW S, NEW a \in S, NEW b \in S, NEW c \in S
            PROVE  << a >> \in Seq(S) /\ <<a, b, c>> \in Seq(S)
        OBVIOUS
      <4> QED
        BY <4>1, <4>2
    <3> QED
      BY <3>1, Joined
  <2>4. plan' \in Seq(LibraryCall)
    BY <1>2, <2>2, <2>3 DEF Start
  <2> QED
    BY <1>1, <2>1, <2>4, SurfaceStill DEF ToolsInv, ToolsType
<1>3. CASE Calls
  <2>1. /\ plan # <<>> /\ plan' = Tail(plan) /\ Begin(Head(plan))
        /\ mode' = mode /\ voltage' = voltage /\ bias' = bias
    BY <1>3 DEF Calls
  <2>2. Head(plan) \in LibraryCall /\ Tail(plan) \in Seq(LibraryCall)
    BY <1>1, <2>1
  <2> QED
    BY <1>1, <2>1, <2>2, SurfaceStart DEF ToolsInv, ToolsType
<1>4. CASE Display
  <2>1. mode * Half \in Nat \ {0}
    BY <1>1, SurfaceAssumption
  <2> QED
    BY <1>1, <1>4, <2>1, SurfaceStart, PlansAreCalls DEF Display, progVars, ToolsInv, ToolsType
<1>5. CASE KeyC
  <2>1. << surface_calib_start >> \in Seq(LibraryCall)
    BY PlansAreCalls
  <2> QED
    BY <1>1, <1>5, <2>1, KeyStep DEF KeyC
<1>6. CASE KeyE
  <2>1. << surface_calib_end >> \in Seq(LibraryCall)
    BY PlansAreCalls
  <2> QED
    BY <1>1, <1>6, <2>1, KeyStep DEF KeyE
<1>7. CASE KeyRead
  <2>1. << surface_read_calib >> \in Seq(LibraryCall) /\ << surface_read_usb_flash >> \in Seq(LibraryCall)
    BY PlansAreCalls
  <2> QED
    BY <1>1, <1>7, <2>1, KeyStep, PlansAreCalls DEF KeyRead
<1>8. CASE KeySetting
  <2>1. PICK dv \in {-1, 0, 1}, db \in {-1, 0, 1} :
          /\ voltage' = Clamp(voltage + dv, MaxVoltage) /\ bias' = Clamp(bias + db, MaxBias)
          /\ Key(<<surface_set_vsvideo(Setting'), surface_peek>>) /\ mode' = mode
    BY <1>8 DEF KeySetting
  <2>2. voltage' \in Int /\ bias' \in Int
    BY <1>1, <2>1 DEF Clamp
  <2>3. Setting' \in Int
    BY <2>2 DEF Setting
  <2>4. <<surface_set_vsvideo(Setting'), surface_peek>> \in Seq(LibraryCall)
    BY <2>3, PlansAreCalls
  <2> QED
    BY <1>1, <2>1, <2>2, <2>4, KeyStep
<1>9. CASE Quit
  BY <1>1, <1>9, SurfaceStill DEF Quit, ToolsInv, ToolsType
<1>10. CASE Working
  BY <1>1, <1>10, LibraryStep DEF Working, ToolsInv, ToolsType
<1>11. CASE (SpiDone \/ ReadDdrTimeout) /\ UNCHANGED progVars
  BY <1>1, <1>11, LibraryStep DEF progVars, ToolsInv, ToolsType
<1>12. CASE UNCHANGED toolVars
  BY <1>1, <1>12, SurfaceStill DEF toolVars, progVars, ToolsInv, ToolsType
<1> QED
  BY <1>2, <1>3, <1>4, <1>5, <1>6, <1>7, <1>8, <1>9, <1>10, <1>11, <1>12 DEF ToolNext

\* The places of a call, what it has still to do and what the device is at fit together.
THEOREM SurfaceInvariant == ToolSpec => []ToolsInv
<1>1. ToolInit => ToolsInv
  <2> SUFFICES ASSUME ToolInit PROVE ToolsInv
    OBVIOUS
  <2>1. <<>> \in Seq(LibraryCall)
    OBVIOUS
  <2> QED
    BY <2>1, LibraryFirst DEF ToolInit, ToolsInv, ToolsType
<1> QED
  BY <1>1, ToolsStep, PTL DEF ToolSpec

\* A script none of whose transfers failed has written its registers and no other, and what a
\* read none of whose transfers failed returns as done is the whole of one image, page or
\* calibration, whatever failed in the calls before and wherever that left the device.
THEOREM CallsWorkAlways == ToolSpec => []CallsWork
<1>1. ToolsInv => CallsWork
  BY DEF ToolsInv, SurfaceInv, SurfaceShape
<1> QED
  BY <1>1, SurfaceInvariant, PTL
=============================================================================
