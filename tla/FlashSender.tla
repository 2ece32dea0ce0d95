----------------------------- MODULE FlashSender -----------------------------
(***************************************************************************)
(* TUIO over a Flash LocalConnection (tuio/TUIO/FlashSender.cpp): the      *)
(* handles and the memory a connection opens, the list of listeners it     *)
(* reads in shared memory and the message it writes there.                 *)
(*                                                                         *)
(* Bytes are numbers, and strings are sequences of bytes without a zero.   *)
(***************************************************************************)
EXTENDS Integers, Sequences, FiniteSets

CONSTANTS
  NameMax,    \* TFLCS_LISTENER_NAME_MAX_LEN and TFLCS_LISTENER_METHOD_MAX_LEN, 64
  BufferSize, \* MAX_FLASH_SIZE, 40976
  Million     \* microseconds in a second

-----------------------------------------------------------------------------
(***************************************************************************)
(* Connecting.  fails is the first call that fails, or "none".             *)
(***************************************************************************)
PosixCalls == <<"malloc", "sem_open", "shmget", "shmat">>
WindowsCalls == <<"OpenMutex", "OpenFileMapping", "MapViewOfFile">>
Errno == [malloc |-> "OutOfMemory", sem_open |-> "SemaphoreCreationFailed", shmget |-> "ShmemIDNotFound",
          shmat |-> "ShmemOpeningFailed", OpenMutex |-> "SemaphoreCreationFailed",
          OpenFileMapping |-> "ShmemIDNotFound", MapViewOfFile |-> "ShmemOpeningFailed"]

\* The calls that succeed before the one that fails.
Made(calls, fails) ==
  {calls[k] : k \in {k \in DOMAIN calls : \A l \in 1..k : calls[l] # fails}}

\* The semaphore is closed, the segment detached and the structure freed, as far as they are
\* there; a segment that was made stays.
TFLCSDisconnect(held) == held \ {"malloc", "sem_open", "shmat"}

\* The name or the method is too long, or a call fails, or the connection is open.
TFLCSConnect(name, method, fails) ==
  LET made == Made(PosixCalls, fails)
      refused(held, errno) == [connection |-> FALSE, open |-> FALSE, held |-> held, errno |-> errno]
  IN  IF Len(name) > NameMax \/ Len(method) > NameMax THEN refused({}, "InvalidArgument")
      ELSE IF fails # "none" THEN refused(TFLCSDisconnect(made), Errno[fails])
      ELSE [connection |-> TRUE, open |-> TRUE, held |-> made, errno |-> "Success"]

\* On Windows a connection may not be open yet, and every use tries again.  opened counts the
\* handles of each kind that were opened; the connection knows the last of each.
TFLCSDelayedConnect(c, fails) ==
  IF c.open THEN c
  ELSE LET made == Made(WindowsCalls, fails) IN
       [open |-> fails = "none", opened |-> [h \in DOMAIN c.opened |-> c.opened[h] + IF h \in made THEN 1 ELSE 0]]
Unopened == [open |-> FALSE, opened |-> [h \in {"OpenMutex", "OpenFileMapping", "MapViewOfFile"} |-> 0]]
\* Handles that a later try has replaced: nobody can close them any more.
Replaced(c) == {h \in DOMAIN c.opened : c.opened[h] > 1}

\* The one known key, whether its segment exists or not.
TFLCSGuessShmemKey(known, existing) ==
  LET found == {k \in DOMAIN known : known[k] \in existing}
  IN  IF found = {} THEN known[1] ELSE known[CHOOSE k \in found : \A l \in found : k <= l]

\* strncpy into an array, which the other one follows: a name of full length has no end, and
\* the method is read behind it.  A method of full length has none either and is left out.
Copied(name) == SubSeq(name, 1, IF Len(name) < NameMax THEN Len(name) ELSE NameMax)
ListenerName(name, method) == Copied(name) \o IF Len(name) < NameMax THEN <<>> ELSE Copied(method)

-----------------------------------------------------------------------------
(***************************************************************************)
(* The listeners in shared memory: three strings for each.                 *)
(***************************************************************************)
HasPrefix(s, prefix) == Len(s) >= Len(prefix) /\ SubSeq(s, 1, Len(prefix)) = prefix

\* strncmp with the length of the name, on every string.
TFLCSConnectionHasConnectedClient(listeners, name) ==
  \E i \in DOMAIN listeners : HasPrefix(listeners[i], name)

TFLCSGetConnectedConnectionNames(listeners) ==
  [n \in 1..((Len(listeners) + 2) \div 3) |-> listeners[3*n - 2]]

-----------------------------------------------------------------------------
(***************************************************************************)
(* The message.                                                            *)
(***************************************************************************)
Bits(value, shift, n) == (value \div 2^shift) % 2^n
More(b) == IF b < 128 THEN 128 + b ELSE b

\* Seven bits in a byte, in the fourth one eight; 29 bits of the value are written.
TFLCSWriteAMF3Integer(value) ==
  CASE value <= 127 -> <<value>>
    [] value > 127 /\ value <= 16383 -> <<More(Bits(value, 7, 7)), Bits(value, 0, 7)>>
    [] value > 16383 /\ value <= 2097151 ->
         <<More(Bits(value, 14, 7)), More(Bits(value, 7, 7)), Bits(value, 0, 7)>>
    [] OTHER -> <<More(Bits(value, 22, 8)), More(Bits(value, 15, 7)), More(Bits(value, 8, 7)), Bits(value, 0, 8)>>

TFLCSWriteAMFString(str) == <<2, 0, Len(str) % 256>> \o str

TFLCSWriteAMF3ByteArray(bytes) == <<12>> \o TFLCSWriteAMF3Integer(2 * Len(bytes) + 1) \o bytes

\* localhost
ProtocolName == <<108, 111, 99, 97, 108, 104, 111, 115, 116>>
WeirdBytes == [i \in 1..31 |-> CASE i <= 3 -> 1 [] i = 15 -> 64 [] i = 16 -> 36
                                 [] i = 24 -> 64 [] i = 25 -> 8 [] OTHER -> 0]

\* Milliseconds since the system was started: the clock is nt, the start bt.
TFLCSGetTickCount(nt, bt) ==
  LET borrow == IF nt.usec < bt.usec THEN (bt.usec - nt.usec) \div Million + 1 ELSE 0
      usec == nt.usec - (bt.usec - Million * borrow)
      sec == nt.sec - (bt.sec + borrow)
  IN  sec * 1000 + usec \div (Million \div 1000)

\* What follows the 16 bytes with the timestamp and the size.
EnvelopeNames(name, method) ==
  TFLCSWriteAMFString(name) \o TFLCSWriteAMFString(ProtocolName) \o WeirdBytes \o TFLCSWriteAMFString(method)

LittleEndian(n) == [i \in 1..4 |-> (n \div 256^(i - 1)) % 256]
\* The size is put into the header last.
EnvelopeHeader(tick, size) == <<1, 0, 0, 0, 1, 0, 0, 0>> \o LittleEndian(tick) \o LittleEndian(size)

TFLCSSendByteArray(name, method, bytes, tick) ==
  LET body == EnvelopeNames(name, method) \o TFLCSWriteAMF3ByteArray(bytes)
  IN  EnvelopeHeader(tick, Len(body)) \o body

\* What is written of a packet, nothing if there is no connection or nobody listens.
sendOscPacket(connected, listeners, name, method, bytes, tick) ==
  IF /\ connected /\ TFLCSConnectionHasConnectedClient(listeners, ListenerName(name, method))
     /\ Len(bytes) \in 1..BufferSize
  THEN TFLCSSendByteArray(ListenerName(name, method), Copied(method), bytes, tick)
  ELSE <<>>
=============================================================================
