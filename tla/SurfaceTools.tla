----------------------------- MODULE SurfaceTools -----------------------------
(***************************************************************************)
(* The programs over the library (userspace/calib.cpp, view.cpp and        *)
(* test.cpp).  A program holds the device's interface from its start to    *)
(* its end; the viewers show image after image, and calib takes keys       *)
(* between two of them.  A key may be pressed again and again.             *)
(***************************************************************************)
EXTENDS Surface

CONSTANTS MaxVoltage, MaxBias  \* 15 and 9
ASSUME ToolsAssumption == MaxVoltage \in Nat \ {0} /\ MaxBias \in Nat \ {0}

VARIABLES
  prog,       \* the program that runs
  plan,       \* calls it makes before it looks at the next event
  mode,       \* of calib: 1 or, in calibration, 2 halves
  voltage, bias,
  clean       \* history: it found the device in normal mode, and only video transfers failed

progVars == <<prog, plan, mode, voltage, bias, clean>>
toolVars == <<callVars, faults, devVars, progVars>>

Normal == reg["INIT1"] = 0 /\ ~frame.full
Free == at = "idle" /\ plan = <<>>
Setting == 16 * voltage + bias

\* main: open, initialise, and for two of the programs a fixed setting.
Start(p) ==
  /\ prog = None /\ prog' = p
  /\ plan' = <<surface_init>> \o
       IF p = "calib" THEN <<>>
       ELSE <<surface_set_vsvideo(134), surface_set_irlevel(255), surface_set_preprocessor(TRUE)>>
  /\ mode' = 1 /\ voltage' = 1 /\ bias' = 1 /\ clean' = Normal
  /\ UNCHANGED <<callVars, faults, devVars>>

Calls == /\ at = "idle" /\ plan # <<>> /\ plan' = Tail(plan)
         /\ Begin(Head(plan)) /\ UNCHANGED <<prog, mode, voltage, bias, clean>>

\* display(): an image of the size of the mode, then the blobs.
Display == /\ Free /\ prog \in {"calib", "view"}
           /\ Begin(surface_get_image(mode * Half)) /\ UNCHANGED progVars

\* deinterlace: of each 8 rows of a full frame of 2 * h, four go to the one half of the output
\* and four to the other.  The input row for each output row, from 0.
Deinterlace(h) == [r \in 0 .. 2 * h - 1 |->
  LET s == r % h IN 8 * (s \div 4) + (s % 4) + IF r < h THEN 0 ELSE 4]

\* keyboard(), one action for each kind of key.
Key(calls) == /\ Free /\ prog = "calib" /\ plan' = calls
              /\ UNCHANGED <<callVars, faults, devVars, prog, clean>>
KeyC == Key(<<surface_calib_start>>) /\ mode' = 2 /\ UNCHANGED <<voltage, bias>>
KeyE == Key(<<surface_calib_end>>) /\ mode' = 1 /\ UNCHANGED <<voltage, bias>>
KeyRead == /\ \/ Key(<<surface_read_calib>>) \/ Key(<<surface_read_usb_flash>>)
              \/ Key([i \in 1 .. Cardinality(Page) |-> surface_read_spi_flash(SetToSeq(Page)[i])])
           /\ UNCHANGED <<mode, voltage, bias>>
\* The setting stays in its range; the panel gets it even if it is as before.
Clamp(n, max) == IF n > max THEN max ELSE IF n < 1 THEN 1 ELSE n
KeySetting ==
  \E dv, db \in {-1, 0, 1} :
    /\ dv = 0 <=> db # 0
    /\ voltage' = Clamp(voltage + dv, MaxVoltage) /\ bias' = Clamp(bias + db, MaxBias)
    /\ Key(<<surface_set_vsvideo(Setting'), surface_peek>>) /\ UNCHANGED mode

\* 'q', or the end of test by a signal: the interface is given back, the device stays as it is.
Quit == /\ Free /\ prog # None /\ prog' = None
        /\ clean' = FALSE /\ UNCHANGED <<callVars, faults, devVars, plan, mode, voltage, bias>>

ToolInit == /\ LibraryInit
            /\ prog = None /\ plan = <<>> /\ mode = 1 /\ voltage = 1 /\ bias = 1 /\ clean = FALSE

Working == /\ Library /\ UNCHANGED <<prog, plan, mode, voltage, bias>>
           /\ clean' = (clean /\ ~failed' /\ (torn' => call.op = "image"))
\* The device answers.
Answered == Working /\ UNCHANGED faults
ToolNext ==
  \/ \E p \in {"calib", "view", "test"} : Start(p)
  \/ Calls \/ Display \/ KeyC \/ KeyE \/ KeyRead \/ KeySetting \/ Quit
  \/ Working
  \/ (SpiDone \/ ReadDdrTimeout) /\ UNCHANGED progVars

\* The program goes on with what it is at, and draws when it has nothing else to do; the
\* device answers, and ends the copy of a page.
ToolSpec == /\ ToolInit /\ [][ToolNext]_toolVars
            /\ WF_toolVars(Answered) /\ WF_toolVars(Calls) /\ WF_toolVars(Display)

-----------------------------------------------------------------------------
Shown == at = "idle" /\ call.op = "image" /\ result /\ got = [i \in 1 .. call.size |-> i]
\* A program that only shows images gets a whole one again and again: after a change of mode it
\* throws away the frame of the old size packet by packet, until it finds a header, and so it
\* does after an image with holes that a failed transfer left.
ImagesComeBack == <>[](clean /\ prog \in {"calib", "view"} /\ plan = <<>>) => []<>Shown
=============================================================================
