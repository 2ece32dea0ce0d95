------------------------------- MODULE Surface -------------------------------
(***************************************************************************)
(* The library that drives the device from user space                      *)
(* (userspace/surface.cpp), one transfer after the other: scripts of       *)
(* control transfers whose results nobody looks at, and calls that read an *)
(* image, FPGA memory or flash in blocks.  surface_get_blobs is in         *)
(* Sur40Tuio.                                                              *)
(*                                                                         *)
(* The device is external: three module registers, the panel's registers   *)
(* behind a window of index and offset, a video endpoint that sends frames *)
(* in the size chosen when the frame begins, FPGA memory and flash.        *)
(***************************************************************************)
EXTENDS Integers, SequencesExt

CONSTANTS
  VideoReg,   \* the panel's registers for voltage and bias, of which it has four
  IrReg,      \* those for the infrared level, eight
  Half,       \* packets of an image; a full frame has twice as many
  PerRead,    \* packets of the largest video transfer
  Blocks,     \* transfers of a flash page, or of the calibration
  Page,       \* pages of the flash
  Tries,      \* polls for the end of a flash transfer
  MaxFaults   \* bound: transfers that fail

\* Offsets of the panel are not names of the modules that lead to it; nothing is empty.
ASSUME SurfaceAssumption ==
  /\ VideoReg \in Seq(STRING) /\ IrReg \in Seq(STRING)
  /\ (ToSet(VideoReg) \cup ToSet(IrReg)) \cap {"NVW1", "NVW2", "NVW3"} = {}
  /\ Half \in Nat \ {0} /\ PerRead \in Nat \ {0}
  /\ Blocks \in Nat \ {0} /\ Tries \in Nat \ {0}
  /\ IsFiniteSet(Page) /\ "none" \notin Page

VARIABLES
  call,    \* the library call that runs
  todo,    \* control transfers it has to make before it goes on at place at
  at,      \* "idle", or what it does when todo is empty
  got,     \* packets or blocks it has read, or polls it has made
  result,  \* of the last call: TRUE if it says that it worked
  failed,  \* history: a control transfer of the call failed
  torn,    \* history: a bulk transfer of the call failed and was counted as if it had worked
  stray,   \* history: it wrote to a register it has nothing to do with
  faults

VARIABLES
  reg,     \* module registers and panel registers
  window,  \* index and offset of the next panel write
  frame,   \* the frame the video endpoint sends
  spi,     \* flash page on its way to FPGA memory, or None
  ddr,     \* FPGA memory: flash area and calibration area
  cursor   \* the area that is read and how far

callVars == <<call, todo, at, got, result, failed, torn, stray>>
devVars == <<reg, window, frame, spi, ddr, cursor>>
None == "none"
NothingToSend == <<None, Blocks>>

Reg == {"INIT1", "INIT2", "INIT3", "REG17"} \cup ToSet(VideoReg) \cup ToSet(IrReg)

-----------------------------------------------------------------------------
(***************************************************************************)
(* Scripts.                                                                *)
(***************************************************************************)
Get == <<"get">>
PokeModule(module, value) == <<"poke", module, value>>

surface_poke(offset, value) ==
  <<PokeModule("NVW1", "panel"), PokeModule("NVW2", offset), PokeModule("NVW3", value)>>
PokeAll(regs, value) ==
  [n \in 1 .. 3 * Len(regs) |-> surface_poke(regs[(n + 2) \div 3], value)[((n - 1) % 3) + 1]]

\* A call that is a script: what it is to write, for the properties, and its transfers.
Script(writes, transfers) == [op |-> "script", writes |-> writes, transfers |-> transfers]
Written(regs, value) == [r \in ToSet(regs) |-> value]
NoWrites == [r \in {} |-> 0]

surface_init == Script(NoWrites, <<Get, Get, Get, Get, Get, Get>>)
surface_peek == Script(NoWrites, <<Get>>)
surface_set_vsvideo(v) == Script(Written(VideoReg, v), PokeAll(VideoReg, v))
surface_set_irlevel(v) == Script(Written(IrReg, v), PokeAll(IrReg, v))
surface_set_preprocessor(on) ==
  LET v7 == IF on THEN 0 ELSE 1
      v17 == IF on THEN 128 ELSE 133 IN
  Script([INIT2 |-> v7, INIT3 |-> v17], <<PokeModule("INIT2", v7), PokeModule("INIT3", v17)>>)
surface_calib_start ==
  Script([INIT1 |-> 4, INIT2 |-> 1, INIT3 |-> 133, REG17 |-> 0],
         <<PokeModule("INIT1", 4), PokeModule("INIT2", 1), PokeModule("INIT3", 133)>>
           \o surface_poke("REG17", 0) \o <<Get>>)
\* Mutant of calib_finish: the capture mode stays.
calib_finish_raw == <<PokeModule("INIT2", 0), PokeModule("INIT3", 128)>>
calib_finish == <<PokeModule("INIT1", 0), PokeModule("INIT2", 0), PokeModule("INIT3", 128)>>
surface_calib_end ==
  Script([INIT1 |-> 0, INIT2 |-> 0, INIT3 |-> 128, REG17 |-> 4],
         calib_finish \o surface_poke("REG17", 4) \o <<Get>>)

surface_get_image(size) == [op |-> "image", size |-> size]
surface_read_spi_flash(page) == [op |-> "page", page |-> page]
surface_read_calib == [op |-> "calib"]
surface_read_usb_flash == [op |-> "usb"]

DdrRead(area) == <<<<"ddr enable">>, <<"ddr read", area>>>>

-----------------------------------------------------------------------------
(***************************************************************************)
(* Calls.                                                                  *)
(***************************************************************************)
\* The first place of a call and the control transfers before it.
Begin(c) ==
  /\ at = "idle"
  /\ call' = c /\ got' = <<>> /\ failed' = FALSE /\ torn' = FALSE /\ stray' = FALSE
  /\ CASE c.op = "script" -> at' = "return" /\ todo' = c.transfers
       [] c.op = "image" -> at' = "header" /\ todo' = <<>>
       [] c.op = "page" -> at' = "enable" /\ todo' = <<>>
       [] c.op = "calib" -> at' = "blocks" /\ todo' = DdrRead("calib")
       [] c.op = "usb" -> at' = "i2c" /\ todo' = <<>>
  /\ result' = FALSE /\ UNCHANGED <<faults, devVars>>

Return(worked) == at' = "idle" /\ result' = worked
Fault == faults < MaxFaults /\ faults' = faults + 1
CallOn == UNCHANGED <<call, stray>>

\* What the device does with a control transfer.
Obey(t) ==
  /\ reg' = CASE t[1] = "poke" /\ t[2] \in Reg -> [reg EXCEPT ![t[2]] = t[3]]
              [] t[1] = "poke" /\ t[2] = "NVW3" /\ window[1] = "panel" /\ window[2] \in Reg ->
                   [reg EXCEPT ![window[2]] = t[3]]
              [] OTHER -> reg
  /\ window' = CASE t[1] = "poke" /\ t[2] = "NVW1" -> <<t[3], window[2]>>
                 [] t[1] = "poke" /\ t[2] = "NVW2" -> <<window[1], t[3]>>
                 [] OTHER -> window
  /\ cursor' = IF t[1] = "ddr read" THEN <<t[2], 0>> ELSE cursor

\* A transfer works, or it fails and the next one is made all the same.
Control ==
  /\ todo # <<>> /\ todo' = Tail(todo)
  /\ \/ Obey(Head(todo)) /\ UNCHANGED <<failed, faults>>
     \/ Fault /\ failed' = TRUE /\ UNCHANGED <<reg, window, cursor>>
  /\ stray' = (stray \/ \E r \in Reg : reg'[r] # reg[r] /\ r \notin DOMAIN call.writes)
  /\ UNCHANGED <<call, at, got, result, torn, frame, spi, ddr>>

ScriptDone == /\ todo = <<>> /\ at = "return" /\ Return(TRUE)
              /\ UNCHANGED <<todo, got, failed, torn, faults, devVars>> /\ CallOn

-----------------------------------------------------------------------------
(***************************************************************************)
(* Images.  The header comes in a packet of its own.                       *)
(***************************************************************************)
FrameSize(f) == IF f.full THEN 2 * Half ELSE Half
\* The packets that come next, the header being packet 0 of a frame.
Packets(n) == [i \in 1 .. n |-> frame.next + i - 1]
\* One transfer may bring so many: none goes on behind the end of a frame or behind a header.
Ready(n) == n <= IF frame.next = 0 THEN 1 ELSE FrameSize(frame) + 1 - frame.next
Taken(n) ==
  frame' = IF frame.next + n > FrameSize(frame)
           THEN [next |-> 0, full |-> reg["INIT1"] = 4]
           ELSE [frame EXCEPT !.next = @ + n]

\* Room in the image that counts as filled and is not.
Hole == -1
Holes(n) == [i \in 1 .. n |-> Hole]

\* It is a header, and of an image of the size asked for.
Fits(f, size) == f.next = 0 /\ FrameSize(f) = size

\* The image goes on with these packets; it is done when as many are counted as it has.
Counted(packets) ==
  /\ got' = got \o packets
  /\ IF Len(got') >= call.size THEN Return(TRUE) ELSE at' = "image" /\ UNCHANGED result

\* Pixels behind the header in its packet are counted, and moved to its place in the buffer of
\* the header, not into the image.
GetHeader ==
  /\ at = "header"
  /\ \/ /\ Taken(1) /\ UNCHANGED <<got, torn, faults>>
        /\ IF Fits(frame, call.size) THEN at' = "image" /\ UNCHANGED result ELSE Return(FALSE)
     \/ Fault /\ Return(FALSE) /\ (Taken(1) \/ UNCHANGED frame) /\ UNCHANGED <<got, torn>>
     \/ Fault /\ Fits(frame, call.size) /\ Taken(2) /\ Counted(Holes(1)) /\ torn' = TRUE
  /\ UNCHANGED <<todo, failed, reg, window, spi, ddr, cursor>> /\ CallOn

\* A transfer brings as much as there is before its time is over, or it fails.  What it returns
\* is not looked at: it may have lost packets, or it is not made at all, and what the transfer
\* before it brought is counted a second time.
GetImage ==
  /\ at = "image"
  /\ \E n \in 1 .. PerRead :
       \/ /\ n <= call.size - Len(got) /\ Ready(n) /\ Taken(n)
          /\ \/ Counted(Packets(n)) /\ UNCHANGED <<torn, faults>>
             \/ Fault /\ torn' = TRUE /\ \E kept \in 0 .. n - 1 : Counted(Packets(kept))
       \/ Fault /\ torn' = TRUE /\ Counted(Holes(n)) /\ UNCHANGED frame
  /\ UNCHANGED <<todo, failed, reg, window, spi, ddr, cursor>> /\ CallOn

-----------------------------------------------------------------------------
(***************************************************************************)
(* Flash and FPGA memory.                                                  *)
(***************************************************************************)
\* A control transfer whose failure ends the call.
Checked(place, next, worked) ==
  /\ todo = <<>> /\ at = place
  /\ \/ at' = next /\ worked /\ UNCHANGED <<result, faults, failed>>
     \/ Fault /\ failed' = TRUE /\ Return(FALSE) /\ UNCHANGED <<got, spi>>
  /\ UNCHANGED <<todo, torn, reg, window, frame, ddr, cursor>> /\ CallOn

SpiEnable == Checked("enable", "request", UNCHANGED <<got, spi>>)
SpiRequest == Checked("request", "poll", spi' = call.page /\ UNCHANGED got)

\* The device copies the page.
SpiDone == /\ spi # None /\ spi' = None /\ ddr' = [ddr EXCEPT !["flash"] = spi]
           /\ UNCHANGED <<callVars, faults, reg, window, frame, cursor>>

\* Mutant of Completed: one look at the status is enough.
CompletedAtOnce == TRUE
Completed == spi = None
PollCompletion ==
  /\ at = "poll" /\ todo = <<>>
  /\ \/ /\ Completed /\ at' = "blocks" /\ todo' = DdrRead("flash") /\ got' = <<>>
        /\ UNCHANGED <<result, failed, faults>>
     \/ /\ ~Completed /\ got' = Append(got, "poll")
        /\ IF Len(got') = Tries THEN Return(FALSE) ELSE UNCHANGED <<at, result>>
        /\ UNCHANGED <<todo, failed, faults>>
     \/ Fault /\ failed' = TRUE /\ Return(FALSE) /\ UNCHANGED <<todo, got>>
  /\ UNCHANGED <<torn, devVars>> /\ CallOn

\* surface_read_ddr.  What a transfer returns is not looked at here either.
NextBlock ==
  /\ cursor[2] < Blocks
  /\ cursor' = IF cursor[2] + 1 = Blocks THEN NothingToSend ELSE <<cursor[1], cursor[2] + 1>>
CountedBlock(b) ==
  /\ got' = Append(got, b)
  /\ IF Len(got') = Blocks THEN Return(TRUE) ELSE UNCHANGED <<at, result>>
Again == UNCHANGED <<got, at, result>>

\* A block comes; or it is lost, and the loop will wait for one more than there are; or the
\* transfer is not made, and what the last one brought, if anything, is counted again.
ReadDdr ==
  /\ at = "blocks" /\ todo = <<>>
  /\ \/ /\ NextBlock /\ CountedBlock(<<ddr[cursor[1]], cursor[2] + 1>>)
        /\ UNCHANGED <<torn, faults>>
     \/ Fault /\ torn' = TRUE /\ NextBlock /\ Again
     \/ /\ Fault /\ UNCHANGED cursor
        /\ \/ Again /\ UNCHANGED torn
           \/ got # <<>> /\ CountedBlock(<<None, 0>>) /\ torn' = TRUE
  /\ UNCHANGED <<todo, failed, reg, window, frame, spi, ddr>> /\ CallOn
\* There is nothing, and the loop has no end.
ReadDdrTimeout == at = "blocks" /\ todo = <<>> /\ cursor[2] = Blocks
                  /\ UNCHANGED <<callVars, faults, devVars>>

ReadUsbFlash ==
  /\ at = "i2c"
  /\ \/ /\ got' = Append(got, Len(got) + 1) /\ UNCHANGED faults
        /\ IF Len(got') = Blocks THEN Return(TRUE) ELSE UNCHANGED <<at, result>>
     \/ Fault /\ Return(FALSE) /\ UNCHANGED got
  /\ UNCHANGED <<todo, failed, torn, devVars>> /\ CallOn

Library == \/ Control \/ ScriptDone \/ GetHeader \/ GetImage
           \/ SpiEnable \/ SpiRequest \/ PollCompletion \/ ReadDdr \/ ReadUsbFlash

\* The device after power up: normal mode, dark panel.
LibraryInit ==
  /\ call = surface_peek /\ todo = <<>> /\ at = "idle" /\ got = <<>>
  /\ result = FALSE /\ failed = FALSE /\ torn = FALSE /\ faults = 0
  /\ reg = [r \in Reg |-> CASE r = "INIT3" -> 128 [] r = "REG17" -> 4 [] OTHER -> 0]
  /\ stray = FALSE /\ window = <<"other", "none">>
  /\ frame = [next |-> 0, full |-> FALSE]
  /\ spi = None /\ ddr = [area \in {"flash", "calib"} |-> area] /\ cursor = NothingToSend

-----------------------------------------------------------------------------
\* A call none of whose own transfers failed, whatever an earlier call that failed half way left
\* behind: a panel write without its register, a video endpoint in the middle of a frame, blocks
\* nobody fetched.  A script has written its registers and left the others alone.
ScriptsWrite ==
  at = "idle" /\ call.op = "script" /\ ~failed =>
    ~stray /\ \A r \in DOMAIN call.writes : reg[r] = call.writes[r]

\* A read that says it worked has what it was asked for: one frame from its first packet to its
\* last, the page and no other, each block once and in order.  (With a bulk transfer that failed
\* it may say so of a result with holes.)
ResultsWhole ==
  at = "idle" /\ result /\ ~failed /\ ~torn =>
    CASE call.op = "image" -> got = [i \in 1 .. call.size |-> i]
      [] call.op = "page" -> got = [i \in 1 .. Blocks |-> <<call.page, i>>]
      [] call.op = "calib" -> got = [i \in 1 .. Blocks |-> <<ddr["calib"], i>>]
      [] OTHER -> TRUE

\* Both: what the calls do that met no failure of their own.
CallsWork == ScriptsWrite /\ ResultsWhole
=============================================================================
