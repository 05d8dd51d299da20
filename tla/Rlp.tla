--------------------------------- MODULE Rlp ---------------------------------
(***************************************************************************)
(* The RLP reader (app/src/rlp.c): rlp_parseStream reads the items of a    *)
(* stretch of bytes one after the other, rlp_readList does the same inside *)
(* a list that was read, with a context of its own.  Items only point into *)
(* the bytes; nothing is copied.  The prefixes and the widths of the       *)
(* lengths are parameters, so that all short inputs can be tried.          *)
(***************************************************************************)
EXTENDS Digits, Integers, Sequences

CONSTANTS
  Base,          \* 256
  Buffers,       \* the inputs
  MaxFields,     \* how many items callers have room for
  BytePrefix,    \* RLP_KIND_BYTE_PREFIX, 0x7F
  StringShort,   \* RLP_KIND_STRING_SHORT_MAX, 0xB7
  StringLong,    \* RLP_KIND_STRING_LONG_MAX, 0xBF
  ListShort,     \* RLP_KIND_LIST_SHORT_MAX, 0xF7
  LenModulus,    \* 2^16: parser_context_t has 16-bit lengths
  RlpModulus     \* 2^64: rlp_t has a 64-bit length

ListLong == Base - 1    \* RLP_KIND_LIST_LONG_MAX, 0xFF
Byte     == 0..ListLong

ASSUME RlpAssumption ==
  /\ Base \in Nat
  /\ MaxFields \subseteq Nat
  /\ {BytePrefix, StringShort, StringLong, ListShort} \subseteq Nat
  /\ BytePrefix < StringShort /\ StringShort < StringLong
  /\ StringLong < ListShort /\ ListShort < ListLong
  /\ LenModulus \in Nat \ {0} /\ RlpModulus \in Nat \ {0}
  /\ Buffers \subseteq Seq(Byte)
  /\ \A b \in Buffers : Len(b) < LenModulus

(* Any number of length bytes that a prefix can announce, up to 8, fits    *)
(* the type of the length.                                                 *)
ASSUME LengthAssumption ==
  \A n \in 1..(StringLong - StringShort) \cup 1..(ListLong - ListShort) :
    \A bytes \in [1..n -> Byte] :
      \A m \in 1..n : NumberOf(bytes, m, Base) < RlpModulus

VARIABLES
  buffer,       \* all the bytes
  start,        \* where in them ctx.buffer points
  bufferLen,    \* ctx.bufferLen
  offset,       \* ctx.offset
  rlp,          \* the items read; ptr is a position in buffer
  maxFields,
  head,         \* the item being read: kind, length, length bytes left
  pc            \* "reading", "length", "content", "ok", "buffer_end"

vars == <<buffer, start, bufferLen, offset, rlp, maxFields, head, pc>>

Header(kind, len, left) == [kind |-> kind, len |-> len, left |-> left]
NoHeader == Header("string", 0, 0)

Init ==
  /\ buffer \in Buffers
  /\ start = 0
  /\ bufferLen = Len(buffer)
  /\ offset = 0
  /\ rlp = <<>>
  /\ maxFields \in MaxFields
  /\ head = NoHeader
  /\ pc = "reading"

At(i) == buffer[start + i + 1]    \* ctx->buffer[i]

(* readBytes: the next n bytes are there, or the reading stops.            *)
AvailableAndOne(n) == n <= (bufferLen - offset) + 1    \* wrong

Available(n) == n <= bufferLen - offset

EndOfBuffer == pc' = "buffer_end" /\ UNCHANGED <<offset, head>>

Input == <<buffer, start, bufferLen, maxFields>>

-----------------------------------------------------------------------------
(* rlp_read, at the head of the loop of rlp_parseStream. *)

More == pc = "reading" /\ offset < bufferLen /\ Len(rlp) < maxFields

Prefix == At(offset)

Item(kind, ptr, len) == [kind |-> kind, ptr |-> start + ptr, rlpLen |-> len]

(* The prefix is the item: it points at itself and has no length.          *)
ReadByte ==
  /\ More
  /\ Prefix <= BytePrefix
  /\ rlp' = Append(rlp, Item("byte", offset, 0))
  /\ offset' = offset + 1
  /\ UNCHANGED <<head, pc, Input>>

(* A wrong variant: the shortest length is the one below zero.             *)
ReadShortOneLess(kind, min, max) ==
  /\ More
  /\ min < Prefix /\ Prefix <= max
  /\ head' = Header(kind, Prefix - (min + 2), 0)
  /\ offset' = offset + 1
  /\ pc' = "content"
  /\ UNCHANGED <<rlp, Input>>

(* The prefix holds the length.                                            *)
ReadShort(kind, min, max) ==
  /\ More
  /\ min < Prefix /\ Prefix <= max
  /\ head' = Header(kind, Prefix - (min + 1), 0)
  /\ offset' = offset + 1
  /\ pc' = "content"
  /\ UNCHANGED <<rlp, Input>>

(* The prefix holds the number of bytes the length is written in, which    *)
(* are read at once and added up after that.                               *)
ReadLong(kind, min, max) ==
  /\ More
  /\ min < Prefix /\ Prefix <= max
  /\ IF Available(1 + (Prefix - min))
     THEN /\ head' = Header(kind, 0, Prefix - min)
          /\ offset' = offset + 1 + (Prefix - min)
          /\ pc' = "length"
     ELSE EndOfBuffer
  /\ UNCHANGED <<rlp, Input>>

(* A wrong variant: least significant byte first.                          *)
AddLengthByteLow ==
  /\ pc = "length" /\ head.left > 0
  /\ head' = Header(head.kind,
                    (head.len + At(offset - head.left) * Base) % RlpModulus,
                    head.left - 1)
  /\ UNCHANGED <<offset, rlp, pc, Input>>

AddLengthByte ==
  /\ pc = "length" /\ head.left > 0
  /\ head' = Header(head.kind,
                    (head.len * Base + At(offset - head.left)) % RlpModulus,
                    head.left - 1)
  /\ UNCHANGED <<offset, rlp, pc, Input>>

LengthRead ==
  /\ pc = "length" /\ head.left = 0
  /\ pc' = "content"
  /\ UNCHANGED <<offset, rlp, head, Input>>

(* A wrong variant: the content is not skipped.                            *)
ReadContentAgain ==
  /\ pc = "content"
  /\ Available(head.len)
  /\ rlp' = Append(rlp, Item(head.kind, offset, head.len))
  /\ head' = NoHeader
  /\ pc' = "reading"
  /\ UNCHANGED <<offset, Input>>

(* The content is the next head.len bytes.                                 *)
ReadContent ==
  /\ pc = "content"
  /\ IF Available(head.len)
     THEN /\ rlp' = Append(rlp, Item(head.kind, offset, head.len))
          /\ offset' = (offset + head.len) % LenModulus
          /\ head' = NoHeader
          /\ pc' = "reading"
     ELSE EndOfBuffer /\ UNCHANGED rlp
  /\ UNCHANGED Input

(* No more bytes, or no more room: whatever is left is not looked at.      *)
StreamEnds ==
  /\ pc = "reading" /\ ~More
  /\ pc' = "ok"
  /\ UNCHANGED <<offset, rlp, head, Input>>

(* rlp_readList on an item that was read.                                  *)
ReadList(i) ==
  /\ pc = "ok"
  /\ rlp[i].kind = "list"
  /\ start' = rlp[i].ptr
  /\ bufferLen' = rlp[i].rlpLen % LenModulus
  /\ offset' = 0
  /\ rlp' = <<>>
  /\ maxFields' \in MaxFields
  /\ pc' = "reading"
  /\ UNCHANGED <<buffer, head>>

Next ==
  \/ ReadByte
  \/ ReadShort("string", BytePrefix, StringShort)
  \/ ReadLong("string", StringShort, StringLong)
  \/ ReadShort("list", StringLong, ListShort)
  \/ ReadLong("list", ListShort, ListLong)
  \/ AddLengthByte \/ LengthRead \/ ReadContent
  \/ StreamEnds
  \/ \E i \in DOMAIN rlp : ReadList(i)

Spec == Init /\ [][Next]_vars

-----------------------------------------------------------------------------
(* What must hold. *)

(* Lengths and positions are numbers; a header is in progress only between *)
(* its prefix and its content.                                             *)
TypeOK ==
  /\ buffer \in Buffers
  /\ start \in Nat /\ bufferLen \in Nat /\ offset \in Nat
  /\ rlp \in Seq([kind : {"byte", "string", "list"}, ptr : Nat, rlpLen : Nat])
  /\ maxFields \in MaxFields
  /\ head \in [kind : {"string", "list"}, len : Nat, left : Nat]
  /\ pc \in {"reading", "length", "content", "ok", "buffer_end"}

(* The bytes an item stands on; a byte has length zero but is one.         *)
Extent(item) == IF item.kind = "byte" THEN 1 ELSE item.rlpLen
EndOf(item)  == item.ptr + Extent(item)

(* The reader stays inside its input: its window, also that of a nested    *)
(* list, lies in the buffer, the offset and the length bytes it still has  *)
(* to look at lie in the window, and so does the content of every item.    *)
InBounds ==
  /\ start + bufferLen <= Len(buffer)
  /\ offset <= bufferLen
  /\ head.left <= offset
  /\ \A i \in DOMAIN rlp : /\ start <= rlp[i].ptr
                           /\ EndOf(rlp[i]) <= start + offset

(* What the bytes from a position on say of the item there: a byte, or     *)
(* short and long strings and lists.                                       *)
LengthBytes(prefix) ==
  CASE StringShort < prefix /\ prefix <= StringLong -> prefix - StringShort
    [] ListShort < prefix                           -> prefix - ListShort
    [] OTHER                                        -> 0

LengthDigits(bytes, p) ==
  [i \in 1..LengthBytes(bytes[p + 1]) |-> bytes[p + 1 + i]]

Announced(bytes, p) ==
  LET prefix == bytes[p + 1]
      n      == LengthBytes(prefix)
      long   == NumberOf(LengthDigits(bytes, p), n, Base)
      Content(kind, len) ==
        [kind |-> kind, ptr |-> p + 1 + n, rlpLen |-> len] IN
  CASE prefix <= BytePrefix -> [kind |-> "byte", ptr |-> p, rlpLen |-> 0]
    [] BytePrefix < prefix /\ prefix <= StringShort ->
         Content("string", prefix - (BytePrefix + 1))
    [] StringShort < prefix /\ prefix <= StringLong -> Content("string", long)
    [] StringLong < prefix /\ prefix <= ListShort ->
         Content("list", prefix - (StringLong + 1))
    [] ListShort < prefix -> Content("list", long)

(* Where the i-th item begins: behind the one before.                      *)
BeginsAt(i) == IF i = 1 THEN start ELSE EndOf(rlp[i - 1])

(* What is read is what the bytes say, item after item with nothing left   *)
(* out between, whatever form a length has, and no more than there is room *)
(* for.  The reader ends where the window or the room does, and gives up   *)
(* only before an item that has room and begins in the window, but whose   *)
(* length or content reaches out of it.                                    *)
ItemsAreAnnounced ==
  LET next == BeginsAt(Len(rlp) + 1)
      end  == start + bufferLen IN
  /\ \A i \in DOMAIN rlp : rlp[i] = Announced(buffer, BeginsAt(i))
  /\ Len(rlp) <= maxFields
  /\ pc \in {"reading", "ok"} => start + offset = next
  /\ pc = "ok" => next = end \/ Len(rlp) = maxFields
  /\ pc = "buffer_end" =>
       /\ next < end /\ Len(rlp) < maxFields
       /\ \/ next + 1 + LengthBytes(buffer[next + 1]) > end
          \/ EndOf(Announced(buffer, next)) > end

(* So no byte belongs to two items.                                        *)
ItemsInOrder ==
  \A i, j \in DOMAIN rlp : i < j => EndOf(rlp[i]) <= rlp[j].ptr
==============================================================================
