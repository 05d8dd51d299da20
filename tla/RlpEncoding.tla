----------------------------- MODULE RlpEncoding -----------------------------
(***************************************************************************)
(* What the RLP reader reads, seen from the other end: bytes that an       *)
(* encoder wrote for a list of items, in whatever form it chose for their  *)
(* lengths, and perhaps the beginning of one more item.                    *)
(***************************************************************************)
EXTENDS Rlp, SequencesExt

CONSTANTS
  Writable,   \* items: kind, content, and the length's digits if long
  Sources     \* lists of items to be written, and what is cut off

ShortMax(kind) == IF kind = "string" THEN StringShort ELSE ListShort
ShortMin(kind) == IF kind = "string" THEN BytePrefix ELSE StringLong
LongMax(kind)  == IF kind = "string" THEN StringLong ELSE ListLong

(* A byte is written as it is; without digits the length goes into the     *)
(* prefix, otherwise their number does.                                    *)
Encode(item) ==
  CASE item.kind = "byte" -> item.content
    [] item.kind # "byte" /\ item.digits = <<>> ->
         <<ShortMin(item.kind) + 1 + Len(item.content)>> \o item.content
    [] item.kind # "byte" /\ item.digits # <<>> ->
         <<ShortMax(item.kind) + Len(item.digits)>>
           \o item.digits \o item.content

(* Digits, also with zeros in front, are those of the length, and both     *)
(* forms stay in the range of their prefixes.                              *)
WellFormed(item) ==
  /\ item.kind \in {"byte", "string", "list"}
  /\ item.content \in Seq(Byte) /\ item.digits \in Seq(Byte)
  /\ item.kind = "byte" =>
       Len(item.content) = 1 /\ item.content[1] <= BytePrefix
  /\ item.kind # "byte" /\ item.digits = <<>> =>
       ShortMin(item.kind) + 1 + Len(item.content) <= ShortMax(item.kind)
  /\ item.kind # "byte" /\ item.digits # <<>> =>
       /\ ShortMax(item.kind) + Len(item.digits) <= LongMax(item.kind)
       /\ NumberOf(item.digits, Len(item.digits), Base) = Len(item.content)

(* A beginning of an item that is not all of it.                           *)
CutOff(tail) ==
  \E item \in Writable :
    \E k \in 1..(Len(Encode(item)) - 1) : tail = SubSeq(Encode(item), 1, k)

ASSUME SourceAssumption ==
  /\ \A item \in Writable : WellFormed(item)
  /\ \A s \in Sources : /\ s.items \in Seq(Writable)
                        /\ s.tail = <<>> \/ CutOff(s.tail)

EncodeAll(items) == FlattenSeq([i \in 1..Len(items) |-> Encode(items[i])])
Written(source)  == EncodeAll(source.items) \o source.tail
EncodedBuffers   == {Written(s) : s \in Sources}

(* Reading finds what was written, item by item, up to the room there is,  *)
(* whatever form the lengths were written in; a cut-off tail is noticed    *)
(* only if there is room to look at it.  This is how TxParser's ListError  *)
(* and ItemsRead see a list.                                               *)
ReadsWhatWasWritten ==
  start = 0 /\ pc \in {"ok", "buffer_end"} /\ buffer \in EncodedBuffers =>
    \A s \in Sources : Written(s) = buffer =>
      LET n == IF Len(s.items) < maxFields THEN Len(s.items) ELSE maxFields IN
      /\ Len(rlp) = n
      /\ \A i \in 1..n : /\ rlp[i].kind = s.items[i].kind
                         /\ SubSeq(buffer, rlp[i].ptr + 1, EndOf(rlp[i]))
                              = s.items[i].content
      /\ (pc = "buffer_end") <=> (s.tail # <<>> /\ Len(s.items) < maxFields)
==============================================================================
