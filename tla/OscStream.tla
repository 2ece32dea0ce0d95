------------------------------ MODULE OscStream ------------------------------
(***************************************************************************)
(* osc::OutboundPacketStream of tuio/oscpack: bundles and messages are     *)
(* written into one buffer of fixed size.  While a message is built its    *)
(* arguments grow upwards behind its address and its type tags grow        *)
(* downwards from the end of the buffer; the end of the message moves the  *)
(* arguments up and puts the tags between.  The size slot of an open       *)
(* element holds the offset of the slot of the element around it.          *)
(*                                                                         *)
(* The buffer is modelled byte by byte, since what is at stake is which    *)
(* bytes overwrite which.  An operation the code answers with an exception *)
(* is not enabled: the exceptions are thrown before anything is written.   *)
(***************************************************************************)
EXTENDS Integers, Sequences, FiniteSets

CONSTANTS
  Capacity,     \* bytes of the buffer
  Addresses,    \* address patterns, sequences of characters
  Tags,         \* the type tags used
  Numbers,      \* values of arguments
  Strings,
  Junk,         \* what is in the buffer before it is written
  MaxElements,  \* bounds: messages and bundles begun, arguments written, in all
  MaxArguments

Nul == 0
Comma == 44
\* The type tags by the data they have, in ASCII.
Flags == {84, 70, 78, 73}        \* T F N I
Words == {105, 102, 99, 114, 109} \* i f c r m
Longs == {104, 116, 100}         \* h t d
Texts == {115, 83}               \* s S
Blob == 98                       \* b
ArrayBegin == 91                 \* [
ArrayEnd == 93                   \* ]

ASSUME StreamAssumption ==
  /\ Capacity \in Nat
  /\ Junk \in 0..255 /\ MaxElements \in Nat /\ MaxArguments \in Nat
  /\ Tags \subseteq Flags \cup Words \cup Longs \cup Texts \cup {Blob, ArrayBegin, ArrayEnd}
  /\ Numbers \subseteq Nat
  /\ Addresses \cup Strings \subseteq Seq(1..255)
  /\ << >> \notin Addresses

\* Sizes and numbers are four bytes wide in a packet.
Is32(n) == n \div 256^3 < 256
ASSUME WidthAssumption == Is32(Capacity) /\ \A n \in Numbers : Is32(n)

VARIABLES
  mem,      \* the buffer, from offset 0 (data_) to Capacity (end_)
  tagsAt,   \* typeTagsCurrent_
  cursor,   \* messageCursor_
  args,     \* argumentCurrent_
  slot,     \* elementSizePtr_, None is the null pointer
  inMessage,
  stack,    \* history: the elements that are open, the outermost first
  slots,    \* history: where their size slots are
  packet,   \* history: the finished element
  budget    \* history: elements and arguments written so far

streamVars == <<mem, tagsAt, cursor, args, slot, inMessage, stack, slots, packet, budget>>
None == -1

-----------------------------------------------------------------------------
RoundUp4(n) == ((n + 3) \div 4) * 4
\* An unsigned number of four or eight bytes, the most significant first.
Int32(n) == [i \in 1..4 |-> (n \div 256^(4 - i)) % 256]
Int64(n) == <<0, 0, 0, 0>> \o Int32(n)
Put(m, at, data) == [i \in DOMAIN m |->
  IF i \in at .. at + Len(data) - 1 THEN data[i - at + 1] ELSE m[i]]
Bytes(m, from, to) == [i \in 1 .. to - from |-> m[from + i - 1]]
Number(m, at) == m[at] * 256^3 + m[at + 1] * 256^2 + m[at + 2] * 256 + m[at + 3]
\* A string with the zeros that end it; there is at least one.
Padded(s) == s \o [i \in 1 .. RoundUp4(Len(s) + 1) - Len(s) |-> Nul]

TagCount == Capacity - tagsAt
\* Bytes of the packet so far, an unfinished message counted with the tags it will have.
Size == args + IF inMessage THEN RoundUp4(TagCount + 2) ELSE 0
IsReady == ~inMessage /\ slot = None
SlotSize == IF slot = None THEN 0 ELSE 4

-----------------------------------------------------------------------------
(***************************************************************************)
(* Elements.                                                               *)
(***************************************************************************)
StreamInit ==
  /\ mem = [i \in 0 .. Capacity - 1 |-> Junk]
  /\ tagsAt = Capacity /\ cursor = 0 /\ args = 0 /\ slot = None /\ inMessage = FALSE
  /\ stack = <<>> /\ slots = <<>> /\ packet = <<>> /\ budget = [elements |-> 0, arguments |-> 0]

\* The next packet starts where the buffer starts; old bytes stay in it.
Clear ==
  /\ tagsAt' = Capacity /\ cursor' = 0 /\ args' = 0 /\ slot' = None /\ inMessage' = FALSE
  /\ stack' = <<>> /\ slots' = <<>> /\ packet' = <<>>
  /\ UNCHANGED <<mem, budget>>

\* The way back that an open element keeps in its slot.
SavedSlot == Int32(slot)
\* An element with header bytes begins at the cursor, after its size slot if it is inside
\* another.
BeginElement(address, header) ==
  /\ budget.elements < MaxElements
  /\ budget' = [budget EXCEPT !.elements = @ + 1]
  /\ LET start == cursor + SlotSize
         m == IF slot = None THEN mem ELSE Put(mem, cursor, SavedSlot) IN
     /\ mem' = Put(m, start, header)
     /\ slot' = IF slot = None THEN 0 ELSE cursor
     /\ cursor' = start + Len(header) /\ args' = start + Len(header)
  /\ stack' = Append(stack, [address |-> address, items |-> <<>>])
  /\ slots' = Append(slots, IF slot = None THEN 0 ELSE cursor)
  /\ UNCHANGED packet

\* The element that began last ends at end; m is the buffer so far.
EndElement(m, end) ==
  LET n == Len(stack) IN
  /\ mem' = IF slot = 0 THEN m ELSE Put(m, slot, Int32(end - slot - 4))
  /\ slot' = IF slot = 0 THEN None ELSE Number(m, slot)
  /\ cursor' = end
  /\ stack' = IF n = 1 THEN <<>>
              ELSE [SubSeq(stack, 1, n - 1) EXCEPT ![n - 1].items = Append(@, stack[n])]
  /\ slots' = SubSeq(slots, 1, n - 1)
  /\ packet' = IF n = 1 THEN <<stack[n]>> ELSE packet
  /\ UNCHANGED budget

BundleTag == <<35, 98, 117, 110, 100, 108, 101, Nul>>  \* #bundle
\* A caller writes one packet: after the outermost element it reads the buffer or clears it.
Unfinished == packet = <<>>

BeginBundle ==
  /\ ~inMessage /\ Unfinished
  /\ Size + SlotSize + 16 <= Capacity
  /\ BeginElement(BundleTag, BundleTag \o Int64(1))
  /\ UNCHANGED <<tagsAt, inMessage>>

EndBundle ==
  /\ slot # None /\ ~inMessage
  /\ EndElement(mem, cursor)
  /\ UNCHANGED <<tagsAt, args, inMessage>>

BeginMessage ==
  /\ ~inMessage /\ Unfinished
  /\ \E a \in Addresses :
       /\ Size + SlotSize + RoundUp4(Len(a) + 1) + 4 <= Capacity
       /\ BeginElement(a, Padded(a))
  /\ tagsAt' = Capacity /\ inMessage' = TRUE

\* The arrays open in the message: a caller closes what it opened, before the message ends.
Count(t) == LET items == stack[Len(stack)].items IN
  Cardinality({i \in DOMAIN items : items[i].tag = t})
OpenArrays == Count(ArrayBegin) - Count(ArrayEnd)

\* The tags of the message in order.  They lie backwards at the end of the buffer.
TagString(m) == Padded(<<Comma>> \o [i \in 1 .. TagCount |-> m[Capacity - i]])
Moved == Put(mem, cursor + RoundUp4(TagCount + 2), Bytes(mem, cursor, args))
\* Mutant of Tagged: the tags are not saved before the arguments move over them.
TaggedLate == Put(Moved, cursor, TagString(Moved))
\* The arguments move up and the tags go before them.
Tagged == Put(Moved, cursor, TagString(mem))

EndMessage ==
  /\ inMessage /\ OpenArrays = 0
  /\ LET end == args + RoundUp4(TagCount + 2) IN
     EndElement(Tagged, end) /\ args' = end
  /\ tagsAt' = Capacity /\ inMessage' = FALSE

-----------------------------------------------------------------------------
(***************************************************************************)
(* Arguments.                                                              *)
(***************************************************************************)
\* Mutant of Fits: the tag that is added now is not counted.
FitsWithoutTag(n) == args + n + RoundUp4(TagCount + 2) <= Capacity
\* There is room for n bytes and one more tag, the comma and a zero.
Fits(n) == args + n + RoundUp4(TagCount + 3) <= Capacity

Add(tag, value, data) ==
  /\ inMessage /\ budget.arguments < MaxArguments
  /\ Fits(Len(data))
  /\ tagsAt' = tagsAt - 1
  /\ mem' = Put(Put(mem, tagsAt - 1, <<tag>>), args, data)
  /\ args' = args + Len(data)
  /\ stack' = [stack EXCEPT ![Len(stack)].items = Append(@, [tag |-> tag, value |-> value])]
  /\ budget' = [budget EXCEPT !.arguments = @ + 1]
  /\ UNCHANGED <<cursor, slot, slots, inMessage, packet>>

AddFlag == \E t \in Tags \cap Flags : Add(t, <<>>, <<>>)
AddWord == \E t \in Tags \cap Words, n \in Numbers : Add(t, <<n>>, Int32(n))
AddLong == \E t \in Tags \cap Longs, n \in Numbers : Add(t, <<0, n>>, Int64(n))
AddText == \E t \in Tags \cap Texts, s \in Strings : Add(t, s, Padded(s))
\* The size, the bytes, zeros up to a multiple of four.
AddBlob == \E s \in Strings :
  /\ Blob \in Tags
  /\ Add(Blob, s, Int32(Len(s)) \o s \o [i \in 1 .. RoundUp4(Len(s)) - Len(s) |-> Nul])
AddArrayMark ==
  \/ ArrayBegin \in Tags /\ Add(ArrayBegin, <<>>, <<>>)
  \/ inMessage /\ OpenArrays > 0 /\ Add(ArrayEnd, <<>>, <<>>)

StreamNext == \/ BeginBundle \/ EndBundle \/ BeginMessage \/ EndMessage \/ Clear
              \/ AddFlag \/ AddWord \/ AddLong \/ AddText \/ AddBlob \/ AddArrayMark

StreamSpec == StreamInit /\ [][StreamNext]_streamVars

-----------------------------------------------------------------------------
\* A packet never outgrows its buffer: the checks made when a message begins and when an
\* argument is added keep enough room for the tags and the moved arguments, since
\* operator<<( MessageTerminator ) checks nothing.
InBuffer == Size <= Capacity /\ args <= tagsAt
\* There is no stack of the open elements: each slot holds the offset of the one around it,
\* in bytes that the size overwrites later.  The pointer still comes back to the slot of the
\* innermost open element, however they nest.
SlotsNest == slot = IF slots = <<>> THEN None ELSE slots[Len(slots)]
=============================================================================
