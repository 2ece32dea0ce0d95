------------------------------ MODULE OscMessage ------------------------------
(***************************************************************************)
(* Reading a message back: ReceivedMessage and its iterator                *)
(* (tuio/oscpack/osc/OscReceivedElements), on the bytes OscStream wrote.   *)
(*                                                                         *)
(* A message is read twice: Init checks every argument against the end of  *)
(* the message, and the iterator walks the arguments again unchecked.      *)
(***************************************************************************)
EXTENDS OscStream, FiniteSets, FiniteSetsExt

\* Four bytes, the most significant first.
ToUInt32(m, p) == Number(m, p)

\* The end of the string at p, None if it has none before e.  An empty string is four zeros.
StringEnd(m, p, e) ==
  LET zeros == {q \in p + 3 .. e - 1 : (q - p) % 4 = 3 /\ m[q] = Nul} IN
  CASE p >= e -> None
    [] p < e /\ m[p] = Nul -> p + 4
    [] OTHER -> IF zeros = {} THEN None ELSE Min(zeros) + 1
\* The characters at p, up to the first zero.
Text(m, p) == Bytes(m, p, Min({q \in p .. Capacity : q = Capacity \/ m[q] = Nul}))

\* Where the argument with tag t at p ends, None if it does not fit or is not terminated.
\* The size of a blob is not compared with e: the exceptions are made there, not thrown.
Checked(m, t, p, e) ==
  CASE t \in Flags \cup {ArrayBegin, ArrayEnd} -> p
    [] t \in Words -> IF p + 4 > e THEN None ELSE p + 4
    [] t \in Longs -> IF p + 8 > e THEN None ELSE p + 8
    [] t \in Texts -> StringEnd(m, p, e)
    [] t = Blob -> p + 4 + RoundUp4(ToUInt32(m, p))
    [] OTHER -> None

\* The tags of the message at p that ends at e: what is between the comma and the zeros.
TagsOf(m, p, e) == Tail(Text(m, StringEnd(m, p, e)))
ArgumentsStart(m, p, e) == StringEnd(m, StringEnd(m, p, e), e)

\* Where each argument ends that is checked, from the one that starts at p.
CheckedEnds(m, tags, p, e) ==
  LET ends[i \in 0 .. Len(tags)] ==
        IF i = 0 THEN p ELSE IF ends[i - 1] = None THEN None ELSE Checked(m, tags[i], ends[i - 1], e)
  IN  ends
\* The message is well formed.
MessageInit(m, p, e) ==
  LET t == StringEnd(m, p, e) IN
  /\ e > p /\ (e - p) % 4 = 0
  /\ t # None
  /\ t = e \/
     /\ m[t] = Comma
     /\ \/ m[t + 1] = Nul
        \/ /\ ArgumentsStart(m, p, e) # None
           /\ LET tags == TagsOf(m, p, e)
                  marks(g) == Cardinality({i \in DOMAIN tags : tags[i] = g}) IN
              /\ CheckedEnds(m, tags, ArgumentsStart(m, p, e), e)[Len(tags)] # None
              /\ marks(ArrayBegin) = marks(ArrayEnd)

\* The iterator: where the argument after this one starts.
Advance(m, t, p) ==
  CASE t \in Words -> p + 4
    [] t \in Longs -> p + 8
    [] t \in Texts -> StringEnd(m, p, Capacity)
    [] t = Blob -> p + 4 + RoundUp4(ToUInt32(m, p))
    [] OTHER -> p
\* What an argument is read as; eight bytes are a pair of numbers.
AsInt32(m, p) == <<ToUInt32(m, p)>>
AsInt64(m, p) == <<ToUInt32(m, p), ToUInt32(m, p + 4)>>
AsBlob(m, p) == Bytes(m, p + 4, p + 4 + ToUInt32(m, p))
Value(m, t, p) ==
  CASE t \in Words -> AsInt32(m, p)
    [] t \in Longs -> AsInt64(m, p)
    [] t \in Texts -> Text(m, p)
    [] t = Blob -> AsBlob(m, p)
    [] OTHER -> <<>>

\* Where each argument ends that is walked over.
WalkedEnds(m, tags, p) ==
  LET ends[i \in 0 .. Len(tags)] == IF i = 0 THEN p ELSE Advance(m, tags[i], ends[i - 1])
  IN  ends
Arguments(m, p, e) ==
  IF StringEnd(m, p, e) = e \/ m[StringEnd(m, p, e) + 1] = Nul THEN <<>>
  ELSE LET tags == TagsOf(m, p, e)
           ends == WalkedEnds(m, tags, ArgumentsStart(m, p, e)) IN
       [i \in DOMAIN tags |-> [tag |-> tags[i], value |-> Value(m, tags[i], ends[i - 1])]]

-----------------------------------------------------------------------------
\* A message ends: its arguments have moved over the tags that lay behind them, these have
\* gone in between, and its size is before it.  What is there then, from the address on, is
\* well formed and is read as the address, the tags and the values that were written, however
\* full the buffer is and whatever was in it before.
MessageEnds == inMessage /\ ~inMessage' /\ cursor' # 0
MessageRead == [][MessageEnds =>
  LET written == stack[Len(stack)]
      start == cursor - Len(Padded(written.address)) IN
  /\ MessageInit(mem', start, cursor')
  /\ Text(mem', start) = written.address
  /\ Arguments(mem', start, cursor') = written.items]_streamVars
=============================================================================
