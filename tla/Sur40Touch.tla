----------------------------- MODULE Sur40Touch -----------------------------
(***************************************************************************)
(* How the sur40 kernel driver turns packets of the touch endpoint 0x86    *)
(* into the state of its input device (kernel/sur40.c).                    *)
(*                                                                         *)
(* A scan is a list of blobs, spread over as many packets as it needs.     *)
(* The first packet carries the number of blobs of the scan, the others a  *)
(* 0; nothing else tells them apart.  The completion handlers of the touch *)
(* URBs run one at a time, in the order of the packets, so a handler is    *)
(* one action.  The device and the slots of the input core are modelled    *)
(* from how sur40.c uses them.                                             *)
(***************************************************************************)
EXTENDS Integers, Sequences, FiniteSets, Functions

CONSTANTS
  Contact,     \* identifiers of blobs
  Tag,         \* those of blobs that are no touch (SUR40_BLOB, SUR40_TAG)
  NoContact,   \* the key of a free slot
  MaxContacts, \* MAX_CONTACTS, the number of slots (52 in the code)
  PerPacket,   \* blobs that fit a packet, 7 in the code
  MinBlobs,    \* blobs a packet has at least, empty ones included, 4
  MaxBlobs,    \* bound: blobs of a scan
  MaxFaults    \* bound: errors, lost packets and stops

ASSUME ContactAssumption ==
  NoContact \notin Contact /\ Tag \subseteq Contact /\ IsFiniteSet(Contact)
ASSUME TouchSizes ==
  /\ MaxContacts \in Nat \ {0} /\ PerPacket \in Nat \ {0}
  /\ MinBlobs \in 1 .. PerPacket
  /\ MaxBlobs \in Nat /\ MaxFaults \in Nat

\* A scan is a sequence of blobs, without repetition; NoContact is an empty one.
Scans == {s \in UNION {[1 .. n -> Contact] : n \in 0 .. MaxBlobs} : IsInjective(s)}
Slot == 1 .. MaxContacts

VARIABLES
  scan, sent,  \* the device: blobs of its scan, packets of it that are sent
  running,     \* the touch URBs are queued
  need_blobs,  \* of struct sur40_state
  slots,       \* of the input device: key of each slot, used in this frame
  shown,       \* contacts that the input device has reported as down
  \* history and bounds
  inStep,      \* this scan began at the start of a frame and met no fault
  begun,       \* a scan has begun since the one that the last fault led to
  lost,        \* that fault was a packet lost without an error
  faults

devVars  == <<scan, sent>>
drvVars  == <<running, need_blobs, slots, shown>>
histVars == <<inStep, begun, lost, faults>>
vars == <<devVars, drvVars, histVars>>

\* The touches among some blobs (type == SUR40_TOUCH).
Touches(s) == Range(s) \ (Tag \cup {NoContact})

-----------------------------------------------------------------------------
(***************************************************************************)
(* The device.                                                             *)
(***************************************************************************)
Packets(s) == IF s = <<>> THEN 1 ELSE (Len(s) + PerPacket - 1) \div PerPacket
LastPacket == sent + 1 = Packets(scan)

Smaller(m, n) == IF m < n THEN m ELSE n

\* The next packet of the scan, filled up with empty blobs.
Blobs == LET part == SubSeq(scan, sent * PerPacket + 1,
                            Smaller(Len(scan), (sent + 1) * PerPacket))
         IN  [i \in 1 .. Smaller(PerPacket, IF Len(part) < MinBlobs
                                            THEN MinBlobs ELSE Len(part)) |->
                IF i <= Len(part) THEN part[i] ELSE NoContact]
Count == IF sent = 0 THEN Len(scan) ELSE 0

\* A packet leaves the device; after the last one a new scan begins.
Send == IF LastPacket
        THEN scan' \in Scans /\ sent' = 0
        ELSE sent' = sent + 1 /\ UNCHANGED scan

-----------------------------------------------------------------------------
(***************************************************************************)
(* The slots of the input core: a frame uses slots, and the sync that ends *)
(* it frees those it has not used (INPUT_MT_DROP_UNUSED).                  *)
(***************************************************************************)
Down(sl) == {sl[i].key : i \in Slot} \ {NoContact}

\* The how-manieth number of a set n is.
Rank(n, numbers) == Cardinality({m \in numbers : m <= n})

\* sur40_report_blob for each blob: a touch goes to the slot that holds its key,
\* or else to the first free one; it is left out if there is none.
ReportBlobs(blobs) ==
  LET touches == Touches(blobs)
      free    == {i \in Slot : slots[i].key = NoContact}
      new     == {p \in DOMAIN blobs : blobs[p] \in touches \ Down(slots)}
      for(i)  == {p \in new : Rank(p, new) = Rank(i, free)}
  IN  [i \in Slot |->
         CASE slots[i].key \in touches   -> [key |-> slots[i].key, used |-> TRUE]
           [] i \in free /\ for(i) # {} -> [key |-> blobs[CHOOSE p \in for(i) : TRUE], used |-> TRUE]
           [] OTHER                      -> slots[i]]

SyncFrame(sl) ==
  [i \in Slot |-> [key |-> IF sl[i].used THEN sl[i].key ELSE NoContact,
                   used |-> FALSE]]

-----------------------------------------------------------------------------
(***************************************************************************)
(* sur40_touch_complete, sur40_touch_start and sur40_touch_stop.           *)
(***************************************************************************)
FrameDoneEarly(left) == left <= 1   \* mutant: off by one
FrameDone(left) == left <= 0

NeedAfterFrameZero == 0             \* mutant: need_blobs is left at 0
NeedAfterFrame == -1

NeedAfterErrorKept == need_blobs    \* mutant: need_blobs is not reset
NeedAfterError == -1

\* A new scan begins with the packet that was sent last.
NewScan ==
  /\ inStep' = IF LastPacket
               THEN need_blobs' = -1 /\ \A i \in Slot : ~slots'[i].used
               ELSE inStep
  /\ begun' = (begun \/ LastPacket)

\* After a fault the scan it hits does not count, even if no packet follows.
Fault(silent) ==
  /\ faults < MaxFaults
  /\ faults' = faults + 1
  /\ inStep' = FALSE
  /\ begun' = FALSE
  /\ lost' = silent

TouchPacket ==
  LET need == IF need_blobs < 0 THEN Count ELSE need_blobs
      n    == Smaller(Len(Blobs), need)
      sl   == ReportBlobs(SubSeq(Blobs, 1, n))
      left == need - n
  IN
  /\ running
  /\ Send
  /\ IF FrameDone(left)
     THEN /\ slots' = SyncFrame(sl)
          /\ shown' = Down(slots')
          /\ need_blobs' = NeedAfterFrame
     ELSE slots' = sl /\ need_blobs' = left /\ UNCHANGED shown
  /\ NewScan
  /\ UNCHANGED <<running, lost, faults>>

\* The URB fails, or has a length that no packet has; the packet may be lost.
TouchError ==
  /\ running
  /\ Send \/ UNCHANGED devVars
  /\ need_blobs' = NeedAfterError
  /\ Fault(FALSE)
  /\ UNCHANGED <<running, slots, shown>>

\* The device drops a packet, and no URB tells.
LosePacket ==
  /\ running
  /\ Send
  /\ Fault(TRUE)
  /\ UNCHANGED drvVars

TouchStop ==
  /\ running
  /\ running' = FALSE
  /\ Fault(FALSE)
  /\ UNCHANGED <<devVars, need_blobs, slots, shown>>

\* The device goes on while nothing reads from it.
Unread ==
  /\ ~running
  /\ Send
  /\ UNCHANGED <<drvVars, histVars>>

TouchStart ==
  /\ ~running
  /\ running' = TRUE
  /\ need_blobs' = -1
  /\ UNCHANGED <<devVars, slots, shown, histVars>>

-----------------------------------------------------------------------------
Init ==
  /\ scan \in Scans /\ sent \in 0 .. Packets(scan) - 1
  /\ running = FALSE /\ need_blobs = 0
  /\ slots = [i \in Slot |-> [key |-> NoContact, used |-> FALSE]]
  /\ shown = {}
  /\ inStep = FALSE /\ begun = FALSE /\ lost = FALSE /\ faults = 0

Next == \/ TouchPacket \/ TouchError \/ LosePacket
        \/ TouchStop \/ Unread \/ TouchStart

Spec == Init /\ [][Next]_vars

\* The device keeps sending what is read.
FairSpec == Spec /\ WF_vars(TouchPacket)

-----------------------------------------------------------------------------
(***************************************************************************)
(* Properties.                                                             *)
(***************************************************************************)

\* A scan that begins at the start of a frame and meets no fault ends a frame
\* with its last packet, not earlier, and then the input device shows the
\* touches of that scan and no others.  (A touch is left out only if slots run
\* short, which counts the touches of the scan before: they are freed last.)
WholeScans ==
  [][inStep /\ running /\ UNCHANGED <<running, faults>> =>
       /\ need_blobs' = -1 <=> LastPacket
       /\ LastPacket =>
            /\ shown' \subseteq Touches(scan)
            /\ Cardinality(Touches(scan) \cup shown) <= MaxContacts
                 => shown' = Touches(scan)]_vars

\* An URB that fails, or a stop of the pipeline in the middle of a scan, costs
\* the scan it hits; if it hits its last packet, it may cost the next one too,
\* whose frame still holds contacts of the first, and never a third: resetting
\* need_blobs is enough to be in step again.
ErrorsCostTwoScans == running /\ ~lost /\ begun => inStep

\* Whatever packets are lost, the driver finds the start of a scan again and
\* stays in step, once the faults have ended.
Realigns == <>[](running => inStep)
=============================================================================
