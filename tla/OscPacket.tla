------------------------------ MODULE OscPacket ------------------------------
(***************************************************************************)
(* Reading a packet back: ReceivedPacket, ReceivedBundle and their         *)
(* iterator (tuio/oscpack/osc/OscReceivedElements), walked the way         *)
(* OscPacketListener does, and the arguments of a message taken one by one *)
(* as the types a program expects.                                         *)
(***************************************************************************)
EXTENDS OscMessage, SequencesExt

Malformed == [address |-> <<>>, items |-> <<>>]

-----------------------------------------------------------------------------
(***************************************************************************)
(* ReceivedMessageArgumentStream: a program takes the arguments one by     *)
(* one, each as the type it expects.  The first exception ends it.         *)
(***************************************************************************)
\* The types, and the tag of each; nil, infinitum and array marks have none.
TagsOfType == [bool |-> {84, 70}, int32 |-> {105}, float |-> {102}, char |-> {99},
               color |-> {114}, midi |-> {109}, int64 |-> {104}, time |-> {116},
               double |-> {100}, blob |-> {Blob}, text |-> {115}, symbol |-> {83}]
TypesOf(t) == {y \in DOMAIN TagsOfType : t \in TagsOfType[y]}

Extract(r, y) ==
  CASE r.thrown # "nothing" -> r
    [] r.thrown = "nothing" /\ r.rest = <<>> -> [r EXCEPT !.thrown = "missing"]
    [] OTHER ->
       IF y \in TypesOf(Head(r.rest).tag)
       THEN [r EXCEPT !.rest = Tail(@), !.got = Append(@, Head(r.rest).value)]
       ELSE [r EXCEPT !.rest = Tail(@), !.thrown = "wrong type"]
\* >> EndMessage
NoMore(r) == IF r.thrown = "nothing" /\ r.rest # <<>> THEN [r EXCEPT !.thrown = "excess"] ELSE r
ArgumentStream(items, types) ==
  NoMore(FoldLeft(Extract, [rest |-> items, got |-> <<>>, thrown |-> "nothing"], types))

-----------------------------------------------------------------------------
\* The first byte decides, a hash; all of the tag is looked at when the bundle is opened.
IsBundle(m, p, e) == e > p /\ Bytes(m, p, p + 1) = <<35>>

\* The sizes at p and after it lead exactly to the end of the bundle.
RECURSIVE BundleInit(_, _, _)
BundleInit(m, p, e) ==
  \/ p = e
  \/ /\ p + 4 <= e
     /\ LET n == ToUInt32(m, p) IN n % 4 = 0 /\ p + 4 + n <= e /\ BundleInit(m, p + 4 + n, e)

\* ReceivedBundleElementIterator: the next element follows the contents of this one.
NextElement(m, p) == p + 4 + ToUInt32(m, p)

RECURSIVE Element(_, _, _), Elements(_, _, _)
\* ProcessBundle: the elements from p to the end of the bundle.
Elements(m, p, e) ==
  IF p = e THEN <<>>
  ELSE LET q == NextElement(m, p) IN <<Element(m, p + 4, q)>> \o Elements(m, q, e)
\* ProcessPacket.
Element(m, p, e) ==
  IF IsBundle(m, p, e)
  THEN IF /\ e - p >= 16 /\ (e - p) % 4 = 0
          /\ Bytes(m, p, p + 8) = BundleTag /\ BundleInit(m, p + 16, e)
       THEN [address |-> BundleTag, items |-> Elements(m, p + 16, e)] ELSE Malformed
  ELSE IF MessageInit(m, p, e)
       THEN [address |-> Text(m, p), items |-> Arguments(m, p, e)] ELSE Malformed

-----------------------------------------------------------------------------
\* ComputeArrayItemCount for the array that begins with tag k: the loop over the tags.
CountTag(r, t) ==
  CASE r.done -> r
    [] ~r.done /\ t = ArrayBegin -> [r EXCEPT !.level = @ + 1]
    [] ~r.done /\ t = ArrayEnd -> IF r.level = 0 THEN [r EXCEPT !.done = TRUE]
                                  ELSE [r EXCEPT !.level = @ - 1]
    [] OTHER -> IF r.level = 0 THEN [r EXCEPT !.items = @ + 1] ELSE r
ItemCount(tags, k) ==
  FoldLeft(CountTag, [level |-> 0, items |-> 0, done |-> FALSE],
           SubSeq(tags, k + 1, Len(tags))).items

-----------------------------------------------------------------------------
\* A program that knows the types gets the values; one that takes too few or too many, or an
\* argument without a type, gets the exception for that.
Streamed(items) ==
  LET known == \A i \in DOMAIN items : TypesOf(items[i].tag) # {}
      types == [i \in DOMAIN items |-> CHOOSE y \in TypesOf(items[i].tag) : TRUE] IN
  IF known
  THEN /\ ArgumentStream(items, types) =
            [rest |-> <<>>, got |-> [i \in DOMAIN items |-> items[i].value], thrown |-> "nothing"]
       /\ ArgumentStream(items, Append(types, "int32")).thrown = "missing"
       /\ items # <<>> => ArgumentStream(items, Front(types)).thrown = "excess"
  ELSE \A y \in DOMAIN TagsOfType :
         ArgumentStream(items, [i \in DOMAIN items |-> y]).thrown = "wrong type"

\* What was written is what is read: elements, addresses, tags and values, however deep the
\* bundles are and whatever was in the buffer before; and what the arguments of a message
\* give when they are extracted by type.
RoundTrip == packet # <<>> =>
  LET read == Element(mem, 0, Size) IN
  read = packet[1] /\ (read.address # BundleTag => Streamed(read.items))
=============================================================================
