------------------------------ MODULE RlpProofs ------------------------------
(***************************************************************************)
(* Proofs about the RLP reader for every input shorter than 2^16 bytes and *)
(* every choice of prefixes: it never looks at a byte outside its input,   *)
(* and no byte belongs to two items.                                       *)
(***************************************************************************)
EXTENDS RlpEncoding, TLAPS

Numbers == INSTANCE UInt256Proofs WITH HalfBits <- 2  \* for its numbers in digits

(* Between items no length bytes are waiting to be added up: the offset of *)
(* a nested list can start from zero again.                                *)
HeaderDone == pc # "length" => head.left = 0

Inv == TypeOK /\ InBounds /\ HeaderDone /\ ItemsInOrder

-----------------------------------------------------------------------------
Items == [kind : {"byte", "string", "list"}, ptr : Nat, rlpLen : Nat]
Heads == [kind : {"string", "list"}, len : Nat, left : Nat]

(* A length that fits its type is not changed by it.                       *)
LEMMA NoTruncation ==
  ASSUME NEW n \in Nat, NEW m \in Nat \ {0}, n < m
  PROVE  n % m = n
  OBVIOUS

(* What an item stands on is given by numbers.                             *)
LEMMA ItemNumbers ==
  ASSUME NEW item \in Items
  PROVE  item.ptr \in Nat /\ Extent(item) \in Nat /\ EndOf(item) \in Nat
<1>1. item.ptr \in Nat /\ item.rlpLen \in Nat
  BY DEF Items
<1> QED
  BY <1>1 DEF Extent, EndOf

LEMMA RlpNumbers ==
  ASSUME TypeOK
  PROVE  \A i \in DOMAIN rlp : /\ rlp[i] \in Items
                               /\ rlp[i].ptr \in Nat
                               /\ EndOf(rlp[i]) \in Nat
<1>1. rlp \in Seq(Items)
  BY DEF TypeOK, Items
<1>2. \A i \in DOMAIN rlp : rlp[i] \in Items
  BY <1>1
<1> QED
  BY <1>2, ItemNumbers

(* A byte under the offset is a byte of the input.                         *)
LEMMA BytesRead ==
  ASSUME TypeOK, InBounds, NEW i \in Nat, i < bufferLen
  PROVE  At(i) \in Byte /\ At(i) \in Nat
<1>1. buffer \in Seq(Byte)
  BY RlpAssumption DEF TypeOK
<1>2. start + i + 1 \in 1..Len(buffer)
  BY <1>1 DEF TypeOK, InBounds
<1> QED
  BY <1>1, <1>2, RlpAssumption DEF At, Byte, ListLong

(* The buffer is shorter than the 16-bit lengths can say.                  *)
LEMMA WindowIsShort ==
  ASSUME TypeOK, InBounds
  PROVE  bufferLen < LenModulus
<1>1. buffer \in Seq(Byte) /\ Len(buffer) < LenModulus
  BY RlpAssumption DEF TypeOK
<1> QED
  BY <1>1, RlpAssumption DEF TypeOK, InBounds

(* Appending an item that starts at the offset keeps the items in bounds   *)
(* and in order.                                                           *)
LEMMA AppendItem ==
  ASSUME TypeOK, InBounds, ItemsInOrder,
         NEW item \in Items, NEW n \in Nat,
         item.ptr = start + offset, Extent(item) = n - offset, offset <= n
  PROVE  /\ Append(rlp, item) \in Seq(Items)
         /\ \A i \in DOMAIN Append(rlp, item) :
               /\ start <= Append(rlp, item)[i].ptr
               /\ EndOf(Append(rlp, item)[i]) <= start + n
         /\ \A i, j \in DOMAIN Append(rlp, item) :
               i < j => EndOf(Append(rlp, item)[i]) <= Append(rlp, item)[j].ptr
<1>1. rlp \in Seq(Items)
  BY DEF TypeOK, Items
<1>2. /\ Append(rlp, item) \in Seq(Items)
      /\ DOMAIN Append(rlp, item) = 1..(Len(rlp) + 1)
      /\ DOMAIN rlp = 1..Len(rlp)
      /\ \A i \in 1..Len(rlp) : Append(rlp, item)[i] = rlp[i]
      /\ Append(rlp, item)[Len(rlp) + 1] = item
      /\ Len(rlp) \in Nat
  BY <1>1
<1>3. \A i \in 1..Len(rlp) : rlp[i].ptr \in Nat /\ EndOf(rlp[i]) \in Nat
  BY <1>2, RlpNumbers
<1>4. EndOf(item) = start + n
  BY DEF EndOf, TypeOK
<1>5. \A i \in 1..Len(rlp) : /\ start <= rlp[i].ptr
                             /\ EndOf(rlp[i]) <= start + offset
  BY <1>2 DEF InBounds
<1>6. \A i \in DOMAIN Append(rlp, item) :
         /\ start <= Append(rlp, item)[i].ptr
         /\ EndOf(Append(rlp, item)[i]) <= start + n
  <2>1. start \in Nat /\ offset \in Nat
    BY DEF TypeOK
  <2>2. \A i \in 1..Len(rlp) : EndOf(rlp[i]) <= start + n
    BY <1>3, <1>5, <2>1
  <2>3. start <= item.ptr /\ EndOf(item) <= start + n
    BY <1>4, <2>1
  <2>4. \A i \in 1..(Len(rlp) + 1) : i \in 1..Len(rlp) \/ i = Len(rlp) + 1
    BY <1>2
  <2> QED
    BY <1>2, <1>5, <2>2, <2>3, <2>4
<1>7. ASSUME NEW i \in 1..(Len(rlp) + 1), NEW j \in 1..(Len(rlp) + 1), i < j
      PROVE  EndOf(Append(rlp, item)[i]) <= Append(rlp, item)[j].ptr
  <2>1. i \in 1..Len(rlp)
    BY <1>2, <1>7
  <2>2. CASE j \in 1..Len(rlp)
    BY <1>2, <1>7, <2>1, <2>2 DEF ItemsInOrder
  <2>3. CASE j = Len(rlp) + 1
    BY <1>2, <1>5, <2>1, <2>3
  <2> QED
    BY <1>2, <2>2, <2>3
<1> QED
  BY <1>2, <1>6, <1>7

(* A step that appends such an item and moves on behind it.               *)
LEMMA NewItem ==
  ASSUME TypeOK, InBounds, ItemsInOrder,
         NEW item \in Items, NEW n \in Nat,
         item.ptr = start + offset, Extent(item) = n - offset, offset <= n,
         n <= bufferLen,
         rlp' = Append(rlp, item), offset' = n, head'.left = 0,
         UNCHANGED <<buffer, start, bufferLen>>
  PROVE  InBounds' /\ ItemsInOrder' /\ rlp' \in Seq(Items)
<1>1. /\ rlp' \in Seq(Items)
      /\ \A i \in DOMAIN rlp' : /\ start <= rlp'[i].ptr
                                /\ EndOf(rlp'[i]) <= start + n
      /\ \A i, j \in DOMAIN rlp' : i < j => EndOf(rlp'[i]) <= rlp'[j].ptr
  BY AppendItem
<1> QED
  BY <1>1 DEF InBounds, ItemsInOrder

(* A step that leaves the items alone and moves on in the window.          *)
LEMMA SameItems ==
  ASSUME TypeOK, InBounds, ItemsInOrder,
         UNCHANGED <<buffer, start, bufferLen, rlp>>,
         NEW n \in Nat, offset' = n, offset <= n, n <= bufferLen,
         head'.left <= n
  PROVE  InBounds' /\ ItemsInOrder'
<1>1. \A i \in DOMAIN rlp : EndOf(rlp[i]) \in Nat
  BY RlpNumbers
<1>2. \A i \in DOMAIN rlp : start <= rlp[i].ptr /\ EndOf(rlp[i]) <= start + offset
  BY DEF InBounds
<1>3. start \in Nat /\ offset \in Nat
  BY DEF TypeOK
<1>4. \A i \in DOMAIN rlp : start <= rlp[i].ptr /\ EndOf(rlp[i]) <= start + n
  BY <1>1, <1>2, <1>3
<1> QED
  BY <1>4 DEF InBounds, ItemsInOrder

LEMMA NoDigits ==
  ASSUME NEW digits, NEW b
  PROVE  NumberOf(digits, 0, b) = 0
<1> DEFINE Follows(f) ==
      f = [i \in 0..0 |-> IF i = 0 THEN 0 ELSE f[i - 1] * b + digits[i]]
<1>1. Follows([i \in 0..0 |-> 0])
  OBVIOUS
<1>2. PICK f : f = CHOOSE g : Follows(g)
  OBVIOUS
<1>3. Follows(f)
  BY <1>1, <1>2
<1>4. f[0] = 0
  BY <1>3
<1>5. NumberOf(digits, 0, b) = f[0]
  BY <1>2, Zenon DEF NumberOf
<1> QED
  BY <1>4, <1>5

(* The digits one by one, as UInt256Proofs has them.                       *)
LEMMA FirstDigits ==
  ASSUME NEW digits, NEW n \in Nat, NEW b \in Nat,
         \A i \in 1..n : digits[i] \in Nat
  PROVE  /\ \A j \in 0..n : NumberOf(digits, j, b) \in Nat
         /\ NumberOf(digits, 0, b) = 0
         /\ \A j \in 1..n : NumberOf(digits, j, b)
                              = NumberOf(digits, j - 1, b) * b + digits[j]
<1>1. \A j : Numbers!NumberOf(digits, j, b) = NumberOf(digits, j, b)
  BY Zenon DEF Numbers!NumberOf, NumberOf
<1>2. Numbers!WordAssumption
  BY DEF Numbers!WordAssumption
<1> QED
  BY <1>1, <1>2, Numbers!OneDigitAfterAnother

-----------------------------------------------------------------------------
LEMMA InvInit == Init => Inv
<1> SUFFICES ASSUME Init PROVE Inv
  OBVIOUS
<1>1. buffer \in Seq(Byte) /\ Len(buffer) \in Nat
  BY RlpAssumption DEF Init
<1> QED
  BY <1>1 DEF Init, Inv, TypeOK, InBounds, HeaderDone, ItemsInOrder,
              NoHeader, Header

LEMMA InvStep == Inv /\ [Next]_vars => Inv'
<1> SUFFICES ASSUME Inv, [Next]_vars PROVE Inv'
  OBVIOUS
<1>t. /\ TypeOK /\ InBounds /\ HeaderDone /\ ItemsInOrder
      /\ bufferLen < LenModulus
      /\ head \in Heads /\ rlp \in Seq(Items)
  BY WindowIsShort DEF Inv, TypeOK, Heads, Items
<1>n. /\ offset \in Nat /\ bufferLen \in Nat /\ start \in Nat
      /\ head.left \in Nat /\ head.len \in Nat
      /\ head.kind \in {"string", "list"}
  BY <1>t DEF TypeOK, Heads
<1> USE DEF Input
<1>1. CASE ReadByte
  <2> DEFINE item == Item("byte", offset, 0)
             n    == offset + 1
  <2>1. item \in Items /\ item.ptr = start + offset
    BY <1>n DEF Item, Items
  <2>2. Extent(item) = n - offset
    BY <1>n DEF Item, Extent
  <2>3. n \in Nat /\ offset <= n /\ n <= bufferLen
    BY <1>1, <1>n DEF ReadByte, More
  <2>4. /\ rlp' = Append(rlp, item) /\ offset' = n
        /\ head' = head /\ head.left = 0
        /\ UNCHANGED <<buffer, start, bufferLen>>
    BY <1>1, <1>t DEF ReadByte, More, HeaderDone
  <2> HIDE DEF item, n
  <2>5. InBounds' /\ ItemsInOrder' /\ rlp' \in Seq(Items)
    BY <1>t, <1>n, <2>1, <2>2, <2>3, <2>4, NewItem
  <2> QED
    BY <1>1, <1>t, <2>3, <2>4, <2>5 DEF ReadByte, Inv, TypeOK, HeaderDone, Items
<1>2. ASSUME NEW kind \in {"string", "list"}, NEW min \in Nat, NEW max,
             ReadShort(kind, min, max)
      PROVE  Inv'
  <2>1. Prefix \in Nat /\ min < Prefix
    BY <1>2, <1>t, <1>n, BytesRead DEF ReadShort, More, Prefix
  <2>2. head' \in Heads /\ head'.left = 0
    BY <1>2, <2>1 DEF ReadShort, Header, Heads
  <2>3. PICK n : n = offset + 1
    OBVIOUS
  <2>4. n \in Nat /\ offset' = n /\ offset <= n /\ n <= bufferLen /\ 0 <= n
    BY <1>2, <1>n, <2>3 DEF ReadShort, More
  <2>5. UNCHANGED <<buffer, start, bufferLen, rlp>>
    BY <1>2 DEF ReadShort
  <2>6. InBounds' /\ ItemsInOrder'
    BY <1>t, <2>2, <2>4, <2>5, SameItems
  <2> QED
    BY <1>2, <1>t, <2>2, <2>4, <2>6
    DEF ReadShort, Inv, TypeOK, HeaderDone, Heads
<1>3. ASSUME NEW kind \in {"string", "list"}, NEW min \in Nat, NEW max,
             ReadLong(kind, min, max)
      PROVE  Inv'
  <2>1. Prefix \in Nat /\ Prefix - min \in Nat
    BY <1>3, <1>t, <1>n, BytesRead DEF ReadLong, More, Prefix
  <2>2. CASE Available(1 + (Prefix - min))
    <3>1. /\ head' \in Heads /\ head'.left = Prefix - min
          /\ pc' = "length"
          /\ offset' = offset + 1 + (Prefix - min)
      BY <1>3, <2>1, <2>2 DEF ReadLong, Header, Heads
    <3>2. PICK k, n : k = Prefix - min /\ n = offset + 1 + k
      OBVIOUS
    <3>3. /\ n \in Nat /\ offset <= n /\ n <= bufferLen /\ k <= n
      BY <1>n, <2>1, <2>2, <3>2 DEF Available
    <3>4. offset' = n /\ head'.left = k
      BY <3>1, <3>2
    <3>5. UNCHANGED <<buffer, start, bufferLen, rlp>>
      BY <1>3, <2>2 DEF ReadLong
    <3>6. InBounds' /\ ItemsInOrder'
      BY <1>t, <3>3, <3>4, <3>5, SameItems
    <3> QED
      BY <1>3, <1>t, <3>1, <3>3, <3>4, <3>5, <3>6
      DEF ReadLong, Inv, TypeOK, HeaderDone, Heads
  <2>3. CASE ~Available(1 + (Prefix - min))
    BY <1>3, <1>t, <2>3
    DEF ReadLong, More, EndOfBuffer, Inv, TypeOK, InBounds, HeaderDone,
        ItemsInOrder
  <2> QED
    BY <2>2, <2>3
<1>4. CASE AddLengthByte
  <2>1. At(offset - head.left) \in Nat
    <3>1. offset - head.left \in Nat /\ offset - head.left < bufferLen
      <4>1. offset <= bufferLen /\ head.left <= offset /\ head.left > 0
        BY <1>4, <1>t DEF AddLengthByte, InBounds
      <4> QED
        BY <1>n, <4>1
    <3> QED
      BY <1>t, <3>1, BytesRead
  <2>2. (head.len * Base + At(offset - head.left)) % RlpModulus \in Nat
    <3>1. head.len * Base \in Nat
      BY <1>n, RlpAssumption
    <3> QED
      BY <2>1, <3>1, RlpAssumption
  <2>3. head' \in Heads /\ head'.left = head.left - 1
    BY <1>4, <1>n, <2>2 DEF AddLengthByte, Header, Heads
  <2>4. offset' = offset /\ head'.left <= offset
    BY <1>4, <1>t, <1>n, <2>3 DEF AddLengthByte, InBounds
  <2>5. InBounds' /\ ItemsInOrder'
    BY <1>4, <1>t, <2>4 DEF AddLengthByte, InBounds, ItemsInOrder
  <2> QED
    BY <1>4, <1>t, <2>3, <2>5 DEF AddLengthByte, Inv, TypeOK, HeaderDone, Heads
<1>5. CASE LengthRead
  BY <1>5, <1>t
  DEF LengthRead, Inv, TypeOK, InBounds, HeaderDone, ItemsInOrder
<1>6. CASE ReadContent
  <2>1. CASE Available(head.len)
    <3> DEFINE item == Item(head.kind, offset, head.len)
               n    == offset + head.len
    <3>1. n \in Nat /\ offset <= n /\ n <= bufferLen /\ n < LenModulus
      <4>1. /\ head.len <= bufferLen - offset /\ bufferLen < LenModulus
            /\ LenModulus \in Nat
        BY <1>t, <2>1, RlpAssumption DEF Available
      <4> QED
        BY <1>n, <4>1
    <3>2. n % LenModulus = n
      BY <3>1, NoTruncation, RlpAssumption
    <3>3. item \in Items /\ item.ptr = start + offset
      BY <1>n DEF Item, Items
    <3>4. Extent(item) = n - offset
      BY <1>n DEF Item, Extent
    <3>5. rlp' = Append(rlp, item) /\ offset' = n
      BY <1>6, <2>1, <3>2 DEF ReadContent
    <3> HIDE DEF item, n
    <3>6. /\ head' \in Heads /\ head'.left = 0
          /\ UNCHANGED <<buffer, start, bufferLen>>
      BY <1>6, <2>1 DEF ReadContent, NoHeader, Header, Heads
    <3>7. InBounds' /\ ItemsInOrder' /\ rlp' \in Seq(Items)
      BY <1>t, <1>n, <3>1, <3>3, <3>4, <3>5, <3>6, NewItem
    <3> QED
      BY <1>6, <1>t, <2>1, <3>1, <3>5, <3>6, <3>7
      DEF ReadContent, Inv, TypeOK, HeaderDone, Items, Heads
  <2>2. CASE ~Available(head.len)
    BY <1>6, <1>t, <2>2
    DEF ReadContent, EndOfBuffer, Inv, TypeOK, InBounds, HeaderDone,
        ItemsInOrder
  <2> QED
    BY <2>1, <2>2
<1>7. CASE StreamEnds
  BY <1>7, <1>t
  DEF StreamEnds, Inv, TypeOK, InBounds, HeaderDone, ItemsInOrder
<1>8. ASSUME NEW i \in DOMAIN rlp, ReadList(i)
      PROVE  Inv'
  <2>1. rlp[i] \in Items /\ rlp[i].ptr \in Nat /\ rlp[i].rlpLen \in Nat
    BY <1>t, RlpNumbers DEF Items
  <2>2. EndOf(rlp[i]) = rlp[i].ptr + rlp[i].rlpLen
    BY <1>8 DEF ReadList, EndOf, Extent
  <2>3. /\ EndOf(rlp[i]) <= start + offset /\ start <= rlp[i].ptr
        /\ start + bufferLen <= Len(buffer) /\ offset <= bufferLen
    BY <1>t DEF InBounds
  <2>4. Len(buffer) \in Nat
    BY <1>t, RlpAssumption DEF TypeOK
  <2>5. /\ rlp[i].rlpLen < LenModulus
        /\ rlp[i].ptr + rlp[i].rlpLen <= Len(buffer)
    <3>1. PICK p, len, size : /\ p = rlp[i].ptr /\ len = rlp[i].rlpLen
                              /\ size = Len(buffer)
      OBVIOUS
    <3>2. /\ p \in Nat /\ len \in Nat /\ size \in Nat
          /\ p + len <= start + offset /\ start <= p
          /\ start + bufferLen <= size /\ offset <= bufferLen
      BY <2>1, <2>2, <2>3, <2>4, <3>1
    <3>3. len <= bufferLen /\ p + len <= size
      BY <1>n, <3>2
    <3>4. bufferLen < LenModulus /\ LenModulus \in Nat
      BY <1>t, RlpAssumption
    <3>5. len < LenModulus
      BY <1>n, <3>2, <3>3, <3>4
    <3> QED
      BY <3>1, <3>3, <3>5
  <2>6. rlp[i].rlpLen % LenModulus = rlp[i].rlpLen
    BY <2>1, <2>5, NoTruncation, RlpAssumption
  <2>7. /\ start' = rlp[i].ptr /\ bufferLen' = rlp[i].rlpLen
        /\ offset' = 0 /\ rlp' = <<>> /\ buffer' = buffer
        /\ head' = head /\ head.left = 0
    BY <1>8, <1>t, <2>6 DEF ReadList, HeaderDone
  <2>8. InBounds' /\ ItemsInOrder'
    BY <2>1, <2>5, <2>7 DEF InBounds, ItemsInOrder
  <2> QED
    BY <1>8, <1>t, <2>1, <2>7, <2>8 DEF ReadList, Inv, TypeOK, HeaderDone
<1>9. CASE UNCHANGED vars
  BY <1>9, <1>t DEF vars, Inv, TypeOK, InBounds, HeaderDone, ItemsInOrder
<1> QED
  BY <1>1, <1>2, <1>3, <1>4, <1>5, <1>6, <1>7, <1>8, <1>9, RlpAssumption
  DEF Next

LEMMA InvAlways == Spec => []Inv
  BY InvInit, InvStep, PTL DEF Spec

(* Lengths and positions stay numbers, whatever the input: no length is    *)
(* negative and none is cut off by the 16-bit fields of the context.       *)
THEOREM TypeCorrect == Spec => []TypeOK
<1>1. Inv => TypeOK
  BY DEF Inv
<1> QED
  BY <1>1, InvAlways, PTL

(* For every input shorter than 2^16 bytes, whatever its lengths claim and *)
(* however deep its lists, no byte outside the input is looked at and no   *)
(* item reaches outside the list it was found in.                          *)
THEOREM ReaderStaysInBounds == Spec => []InBounds
<1>1. Inv => InBounds
  BY DEF Inv
<1> QED
  BY <1>1, InvAlways, PTL

(* The items of a list never share a byte and come in the order of the     *)
(* bytes.                                                                  *)
THEOREM ItemsDoNotOverlap == Spec => []ItemsInOrder
<1>1. Inv => ItemsInOrder
  BY DEF Inv
<1> QED
  BY <1>1, InvAlways, PTL

-----------------------------------------------------------------------------
(* What is read is what the bytes say. *)

(* What the bytes say, by the kind of their prefix.                        *)
Says(bytes, p, kind, ptr, len) ==
  Announced(bytes, p) = [kind |-> kind, ptr |-> ptr, rlpLen |-> len]

LEMMA ByteSays ==
  ASSUME NEW bytes, NEW p, bytes[p + 1] \in Byte,
         bytes[p + 1] <= BytePrefix
  PROVE  LengthBytes(bytes[p + 1]) = 0 /\ Says(bytes, p, "byte", p, 0)
<1>1. PICK x : x = bytes[p + 1] /\ x \in Nat
  BY RlpAssumption DEF Byte, ListLong
<1>2. ~(StringShort < x /\ x <= StringLong) /\ ~(ListShort < x)
  BY <1>1, RlpAssumption
<1>3. LengthBytes(x) = 0
  BY <1>2 DEF LengthBytes
<1> QED
  BY <1>1, <1>2, <1>3, RlpAssumption DEF Announced, Says

ShortForm(kind, min, max) ==
  \/ kind = "string" /\ min = BytePrefix /\ max = StringShort
  \/ kind = "list" /\ min = StringLong /\ max = ListShort

LongForm(kind, min, max) ==
  \/ kind = "string" /\ min = StringShort /\ max = StringLong
  \/ kind = "list" /\ min = ListShort /\ max = ListLong

LEMMA ShortSays ==
  ASSUME NEW bytes, NEW p \in Nat, bytes[p + 1] \in Byte,
         NEW kind, NEW min, NEW max, ShortForm(kind, min, max),
         min < bytes[p + 1], bytes[p + 1] <= max
  PROVE  /\ LengthBytes(bytes[p + 1]) = 0
         /\ Says(bytes, p, kind, p + 1, bytes[p + 1] - (min + 1))
<1>1. PICK x : x = bytes[p + 1] /\ x \in Nat
  BY RlpAssumption DEF Byte, ListLong
<1>2. ~(StringShort < x /\ x <= StringLong) /\ ~(ListShort < x)
  BY <1>1, RlpAssumption DEF ShortForm
<1>3. LengthBytes(x) = 0 /\ (p + 1) + 0 = p + 1
  BY <1>2 DEF LengthBytes
<1>4. CASE kind = "string"
  <2>1. min = BytePrefix /\ BytePrefix < x /\ x <= StringShort
        /\ ~(x <= BytePrefix)
    BY <1>1, <1>4, RlpAssumption DEF ShortForm
  <2>2. ~(StringLong < x /\ x <= ListShort)
    BY <1>1, <2>1, RlpAssumption
  <2> QED
    BY <1>1, <1>2, <1>3, <1>4, <2>1, <2>2 DEF Announced, Says
<1>5. CASE kind = "list"
  <2>1. min = StringLong /\ StringLong < x /\ x <= ListShort
    BY <1>1, <1>5, RlpAssumption DEF ShortForm
  <2>2. ~(x <= BytePrefix) /\ ~(BytePrefix < x /\ x <= StringShort)
    BY <1>1, <2>1, RlpAssumption
  <2> QED
    BY <1>1, <1>2, <1>3, <1>5, <2>1, <2>2 DEF Announced, Says
<1> QED
  BY <1>4, <1>5 DEF ShortForm

LongSaid(bytes, p, kind, n) ==
  /\ LengthBytes(bytes[p + 1]) = n
  /\ n \in 1..(StringLong - StringShort) \cup 1..(ListLong - ListShort)
  /\ Says(bytes, p, kind, p + 1 + n,
          NumberOf(LengthDigits(bytes, p), n, Base))

LEMMA LongSays ==
  ASSUME NEW bytes, NEW p, bytes[p + 1] \in Byte,
         NEW kind, NEW min, NEW max, LongForm(kind, min, max),
         min < bytes[p + 1], bytes[p + 1] <= max,
         NEW n, n = bytes[p + 1] - min
  PROVE  LongSaid(bytes, p, kind, n)
<1>1. PICK x : x = bytes[p + 1] /\ x \in Nat /\ x <= ListLong
  BY RlpAssumption DEF Byte, ListLong
<1>2. CASE kind = "string"
  <2>1. min = StringShort /\ StringShort < x /\ x <= StringLong
        /\ ~(ListShort < x)
    BY <1>1, <1>2, RlpAssumption DEF LongForm
  <2>2. /\ ~(x <= BytePrefix) /\ ~(BytePrefix < x /\ x <= StringShort)
        /\ ~(StringLong < x /\ x <= ListShort)
    BY <1>1, <2>1, RlpAssumption
  <2>3. LengthBytes(x) = n
    BY <1>1, <2>1 DEF LengthBytes
  <2>4. n \in 1..(StringLong - StringShort)
    BY <1>1, <2>1, RlpAssumption
  <2> QED
    BY <1>1, <1>2, <2>1, <2>2, <2>3, <2>4 DEF Announced, Says, LongSaid
<1>3. CASE kind = "list"
  <2>1. min = ListShort /\ ListShort < x
        /\ ~(StringShort < x /\ x <= StringLong)
    BY <1>1, <1>3, RlpAssumption DEF LongForm
  <2>2. /\ ~(x <= BytePrefix) /\ ~(BytePrefix < x /\ x <= StringShort)
        /\ ~(StringLong < x /\ x <= ListShort)
    BY <1>1, <2>1, RlpAssumption
  <2>3. LengthBytes(x) = n
    BY <1>1, <2>1 DEF LengthBytes
  <2>4. n \in 1..(ListLong - ListShort)
    BY <1>1, <2>1, RlpAssumption DEF ListLong
  <2> QED
    BY <1>1, <1>3, <2>1, <2>2, <2>3, <2>4 DEF Announced, Says, LongSaid
<1> QED
  BY <1>2, <1>3 DEF LongForm

-----------------------------------------------------------------------------
(* The invariant: everything read is as announced, the offset is where the *)
(* next item begins, and while its length is added up, so far the first    *)
(* digits of that length are.                                              *)

AllAnnounced ==
  \A i \in DOMAIN rlp : /\ rlp[i] = Announced(buffer, BeginsAt(i))
                         /\ BeginsAt(i) < EndOf(rlp[i])

NextItem == BeginsAt(Len(rlp) + 1)

GivesUpRightly ==
  \/ NextItem + 1 + LengthBytes(buffer[NextItem + 1]) > start + bufferLen
  \/ EndOf(Announced(buffer, NextItem)) > start + bufferLen

LengthSoFar ==
  LET n      == LengthBytes(buffer[NextItem + 1])
      digits == LengthDigits(buffer, NextItem) IN
  /\ NextItem \in Nat
  /\ n \in 1..(StringLong - StringShort) \cup 1..(ListLong - ListShort)
  /\ start + offset = NextItem + 1 + n
  /\ head.left \in 0..n
  /\ head.len = NumberOf(digits, n - head.left, Base)
  /\ Says(buffer, NextItem, head.kind, start + offset,
          NumberOf(digits, n, Base))

ContentKnown ==
  /\ NextItem < start + offset
  /\ Says(buffer, NextItem, head.kind, start + offset, head.len)

(* An item is begun only where the window and the room go on.              *)
RoomLeft ==
  /\ Len(rlp) <= maxFields
  /\ pc = "ok" => NextItem = start + bufferLen \/ Len(rlp) = maxFields
  /\ pc \in {"length", "content", "buffer_end"} =>
       NextItem < start + bufferLen /\ Len(rlp) < maxFields

(* No list stands in front of all bytes.                                   *)
OutermostWindow == start = 0 => bufferLen = Len(buffer)

Following ==
  /\ AllAnnounced
  /\ pc \in {"reading", "ok"} => start + offset = NextItem
  /\ pc = "length" => LengthSoFar
  /\ pc = "content" => ContentKnown
  /\ pc = "buffer_end" => GivesUpRightly

Reading == Following /\ RoomLeft /\ OutermostWindow

LEMMA ReadingSuffices == Reading => ItemsAreAnnounced
  BY Zenon DEF Reading, Following, AllAnnounced, RoomLeft, NextItem, GivesUpRightly,
               ItemsAreAnnounced

(* While no item is added and the window stays, nothing changes.           *)
LEMMA NothingAdded ==
  ASSUME AllAnnounced, UNCHANGED <<buffer, start, rlp>>
  PROVE  AllAnnounced' /\ NextItem' = NextItem
  BY DEF AllAnnounced, NextItem, BeginsAt, EndOf, Extent

(* The item that begins next, added, is as announced, and the next one     *)
(* begins behind it.                                                       *)
LEMMA AnnouncedAdded ==
  ASSUME TypeOK, AllAnnounced,
         NEW item \in Items, item = Announced(buffer, NextItem),
         NextItem < EndOf(item),
         rlp' = Append(rlp, item), UNCHANGED <<buffer, start>>
  PROVE  AllAnnounced' /\ NextItem' = EndOf(item)
<1>1. rlp \in Seq(Items)
  BY DEF TypeOK, Items
<1>2. /\ DOMAIN rlp' = 1..(Len(rlp) + 1)
      /\ DOMAIN rlp = 1..Len(rlp)
      /\ Len(rlp') = Len(rlp) + 1
      /\ \A i \in 1..Len(rlp) : rlp'[i] = rlp[i]
      /\ rlp'[Len(rlp) + 1] = item
      /\ Len(rlp) \in Nat
  BY <1>1
<1>3. ASSUME NEW i \in 1..(Len(rlp) + 1)
      PROVE  BeginsAt(i)' = BeginsAt(i)
  <2>1. CASE i = 1
    BY <2>1 DEF BeginsAt
  <2>2. CASE i # 1
    <3>1. i - 1 \in 1..Len(rlp)
      BY <1>2, <2>2
    <3> QED
      BY <1>2, <2>2, <3>1 DEF BeginsAt, EndOf, Extent
  <2> QED
    BY <2>1, <2>2
<1>4. PICK k : k = Len(rlp) + 1
  OBVIOUS
<1>5. ASSUME NEW i \in 1..k
      PROVE  /\ rlp'[i] = Announced(buffer, BeginsAt(i)')
             /\ BeginsAt(i)' < EndOf(rlp'[i])
  <2>1. BeginsAt(i)' = BeginsAt(i)
    BY <1>3, <1>4
  <2>2. CASE i = k
    <3>1. rlp'[i] = item /\ BeginsAt(i) = NextItem
      BY <1>2, <1>4, <2>2 DEF NextItem
    <3> QED
      BY <2>1, <3>1
  <2>3. CASE i # k
    <3>1. i \in 1..Len(rlp)
      BY <1>2, <1>4, <2>3
    <3> QED
      BY <1>2, <2>1, <3>1 DEF AllAnnounced
  <2> QED
    BY <2>2, <2>3
<1>6. \A i \in DOMAIN rlp' : /\ rlp'[i] = Announced(buffer, BeginsAt(i)')
                            /\ BeginsAt(i)' < EndOf(rlp'[i])
  BY <1>2, <1>4, <1>5
<1>7. AllAnnounced'
  BY <1>6 DEF AllAnnounced, EndOf, Extent
<1>8. NextItem' = EndOf(item)
  BY <1>2 DEF NextItem, BeginsAt, EndOf, Extent
<1> QED
  BY <1>7, <1>8

LEMMA ReadingInit == Init => Reading
<1> SUFFICES ASSUME Init PROVE Reading
  OBVIOUS
<1>1. Following
  BY DEF Init, Following, AllAnnounced, NextItem, BeginsAt
<1>2. maxFields \in Nat
  BY RlpAssumption DEF Init
<1>3. RoomLeft /\ OutermostWindow
  BY <1>2 DEF Init, RoomLeft, OutermostWindow
<1> QED
  BY <1>1, <1>3 DEF Reading

LEMMA NextIsNumber ==
  ASSUME TypeOK
  PROVE  NextItem \in Nat
<1>1. rlp \in Seq(Items) /\ Len(rlp) \in Nat /\ DOMAIN rlp = 1..Len(rlp)
  BY DEF TypeOK, Items
<1>2. CASE Len(rlp) = 0
  BY <1>2 DEF NextItem, BeginsAt, TypeOK
<1>3. CASE Len(rlp) # 0
  <2>1. Len(rlp) \in DOMAIN rlp /\ Len(rlp) + 1 # 1 /\ (Len(rlp) + 1) - 1 = Len(rlp)
    BY <1>1, <1>3
  <2> QED
    BY <2>1, RlpNumbers DEF NextItem, BeginsAt
<1> QED
  BY <1>2, <1>3

LEMMA FollowingStep == Inv /\ Following /\ [Next]_vars => Following'
<1> SUFFICES ASSUME Inv, Following, [Next]_vars PROVE Following'
  OBVIOUS
<1>t. /\ TypeOK /\ InBounds /\ AllAnnounced
      /\ bufferLen < LenModulus
      /\ rlp \in Seq(Items) /\ head \in Heads
  BY WindowIsShort DEF Inv, TypeOK, Heads, Items, Following
<1>n. /\ offset \in Nat /\ bufferLen \in Nat /\ start \in Nat
      /\ head.left \in Nat /\ head.len \in Nat
      /\ head.kind \in {"string", "list"}
  BY <1>t DEF TypeOK, Heads
<1>p. ASSUME More
      PROVE  /\ start + offset = NextItem /\ NextItem \in Nat
             /\ Prefix = buffer[NextItem + 1]
             /\ buffer[NextItem + 1] \in Byte
  <2>1. start + offset = NextItem /\ offset < bufferLen
    BY <1>p DEF More, Following
  <2>2. At(offset) \in Byte
    BY <1>t, <1>n, <2>1, BytesRead
  <2>3. NextItem \in Nat /\ start + offset + 1 = NextItem + 1
    BY <1>n, <2>1
  <2> QED
    BY <2>1, <2>2, <2>3, Zenon DEF Prefix, At
<1> USE DEF Input
<1>1. CASE ReadByte
  <2> DEFINE item == Item("byte", offset, 0)
  <2>1. item \in Items /\ EndOf(item) = start + (offset + 1)
    BY <1>n DEF Item, Items, EndOf, Extent
  <2>2. Says(buffer, NextItem, "byte", NextItem, 0)
    BY <1>1, <1>p, ByteSays DEF ReadByte
  <2>3. item = Announced(buffer, NextItem)
    BY <1>1, <1>p, <2>2 DEF ReadByte, Says, Item
  <2>4. /\ rlp' = Append(rlp, item) /\ offset' = offset + 1
        /\ pc' = "reading" /\ UNCHANGED <<buffer, start>>
    BY <1>1 DEF ReadByte, More
  <2> HIDE DEF item
  <2>5. NextItem < EndOf(item)
    BY <1>1, <1>p, <1>n, <2>1 DEF ReadByte
  <2>6. AllAnnounced' /\ NextItem' = EndOf(item)
    BY <1>t, <2>1, <2>3, <2>4, <2>5, AnnouncedAdded
  <2>7. start' + offset' = EndOf(item)
    BY <1>n, <2>1, <2>4
  <2> QED
    BY <2>4, <2>6, <2>7 DEF Following
<1>2. ASSUME NEW kind, NEW min \in Nat, NEW max, ShortForm(kind, min, max),
             ReadShort(kind, min, max)
      PROVE  Following'
  <2>1. /\ start + offset = NextItem /\ NextItem \in Nat
        /\ Prefix = buffer[NextItem + 1] /\ buffer[NextItem + 1] \in Byte
        /\ min < Prefix /\ Prefix <= max
    BY <1>2, <1>p DEF ReadShort
  <2>2. Says(buffer, NextItem, kind, NextItem + 1, Prefix - (min + 1))
    BY <1>2, <2>1, ShortSays
  <2>3. /\ head'.kind = kind /\ head'.len = Prefix - (min + 1)
        /\ offset' = offset + 1 /\ pc' = "content"
        /\ UNCHANGED <<buffer, start, rlp>>
    BY <1>2 DEF ReadShort, Header
  <2>4. AllAnnounced' /\ NextItem' = NextItem
    BY <1>t, <2>3, NothingAdded
  <2>5. start' + offset' = NextItem + 1
    BY <1>n, <2>1, <2>3
  <2>6. ContentKnown'
    <3>1. NextItem < NextItem + 1
      BY <2>1
    <3> QED
      BY <2>2, <2>3, <2>4, <2>5, <3>1 DEF ContentKnown
  <2> QED
    BY <2>3, <2>4, <2>6 DEF Following
<1>3. ASSUME NEW kind, NEW min \in Nat, NEW max, LongForm(kind, min, max),
             ReadLong(kind, min, max)
      PROVE  Following'
  <2>1. /\ start + offset = NextItem /\ NextItem \in Nat
        /\ Prefix = buffer[NextItem + 1] /\ buffer[NextItem + 1] \in Byte
        /\ min < Prefix /\ Prefix <= max
    BY <1>3, <1>p DEF ReadLong
  <2>2. PICK n : n = Prefix - min
    OBVIOUS
  <2>3. /\ LengthBytes(buffer[NextItem + 1]) = n
        /\ n \in 1..(StringLong - StringShort) \cup 1..(ListLong - ListShort)
        /\ Says(buffer, NextItem, kind, NextItem + 1 + n,
                NumberOf(LengthDigits(buffer, NextItem), n, Base))
    BY <1>3, <2>1, <2>2, LongSays DEF LongSaid
  <2>4. n \in Nat /\ n >= 1
    BY <2>3, RlpAssumption DEF ListLong
  <2>5. UNCHANGED <<buffer, start, bufferLen, rlp>>
    BY <1>3 DEF ReadLong
  <2>6. AllAnnounced' /\ NextItem' = NextItem
    BY <1>t, <2>5, NothingAdded
  <2>7. CASE Available(1 + (Prefix - min))
    <3>1. /\ head'.kind = kind /\ head'.len = 0 /\ head'.left = n
          /\ offset' = offset + 1 + n /\ pc' = "length"
      BY <1>3, <2>2, <2>7 DEF ReadLong, Header
    <3>2. start' + offset' = NextItem + 1 + n
      BY <1>n, <2>1, <2>4, <2>5, <3>1
    <3>3. NumberOf(LengthDigits(buffer, NextItem), n - n, Base) = 0
      <4>1. n - n = 0
        BY <2>4
      <4>2. NumberOf(LengthDigits(buffer, NextItem), 0, Base) = 0
        BY NoDigits
      <4> QED
        BY <4>1, <4>2
    <3>4. head'.left \in 0..n
      BY <2>4, <3>1
    <3>5. LengthSoFar'
      BY <2>1, <2>3, <2>5, <2>6, <3>1, <3>2, <3>3, <3>4 DEF LengthSoFar
    <3> QED
      BY <2>6, <3>1, <3>5 DEF Following
  <2>8. CASE ~Available(1 + (Prefix - min))
    <3>1. pc' = "buffer_end" /\ ~(1 + n <= bufferLen - offset)
      BY <1>3, <2>2, <2>8 DEF ReadLong, EndOfBuffer, Available
    <3>2. NextItem + 1 + n > start + bufferLen
      BY <1>n, <2>1, <2>4, <3>1
    <3>3. GivesUpRightly'
      BY <2>3, <2>5, <2>6, <3>2 DEF GivesUpRightly
    <3> QED
      BY <2>6, <3>1, <3>3 DEF Following
  <2> QED
    BY <2>7, <2>8
<1>4. CASE AddLengthByte
  <2>1. pc = "length" /\ LengthSoFar /\ head.left > 0
    BY <1>4 DEF AddLengthByte, Following
  <2>2. PICK q, n, digits : /\ q = NextItem /\ n = LengthBytes(buffer[q + 1])
                            /\ digits = LengthDigits(buffer, q)
    OBVIOUS
  <2>3. /\ q \in Nat
        /\ n \in 1..(StringLong - StringShort) \cup 1..(ListLong - ListShort)
        /\ start + offset = q + 1 + n
        /\ head.left \in 0..n
        /\ head.len = NumberOf(digits, n - head.left, Base)
        /\ Says(buffer, q, head.kind, start + offset, NumberOf(digits, n, Base))
    BY <2>1, <2>2 DEF LengthSoFar
  <2>4. n \in Nat
    BY <2>3, RlpAssumption DEF ListLong
  <2>5. PICK j : j = n - head.left + 1
    OBVIOUS
  <2>6. /\ j \in 1..n /\ n - head.left = j - 1
        /\ n - (head.left - 1) = j /\ head.left - 1 \in 0..n
    BY <1>n, <2>1, <2>3, <2>4, <2>5
  <2>7. digits = [i \in 1..n |-> buffer[q + 1 + i]]
    BY <2>2 DEF LengthDigits
  <2>8. ASSUME NEW i \in 1..n PROVE buffer[q + 1 + i] \in Byte
    <3>1. buffer \in Seq(Byte) /\ Len(buffer) \in Nat
      BY <1>t, RlpAssumption DEF TypeOK
    <3>2. q + 1 + n <= Len(buffer)
      BY <1>t, <1>n, <2>3, <2>4, <3>1 DEF InBounds
    <3>3. q + 1 + i \in 1..Len(buffer)
      BY <2>3, <2>4, <3>1, <3>2
    <3> QED
      BY <3>1, <3>3
  <2>9. digits \in [1..n -> Byte]
    BY <2>7, <2>8
  <2>10. /\ NumberOf(digits, j, Base) \in Nat
         /\ NumberOf(digits, j, Base)
              = NumberOf(digits, j - 1, Base) * Base + digits[j]
    <3>1. Base \in Nat /\ \A i \in 1..n : digits[i] \in Nat
      BY <2>9, RlpAssumption DEF Byte, ListLong
    <3>2. j \in 0..n
      BY <2>6
    <3> QED
      BY <2>4, <2>6, <3>1, <3>2, FirstDigits
  <2>11. NumberOf(digits, j, Base) < RlpModulus
    BY <2>3, <2>6, <2>9, LengthAssumption
  <2>12. At(offset - head.left) = digits[j]
    <3>1. start + (offset - head.left) + 1 = q + 1 + j
      BY <1>n, <2>3, <2>4, <2>5
    <3>2. digits[j] = buffer[q + 1 + j]
      BY <2>6, <2>7
    <3> QED
      BY <3>1, <3>2 DEF At
  <2>13. (head.len * Base + At(offset - head.left)) % RlpModulus
           = NumberOf(digits, j, Base)
    <3>1. head.len * Base + At(offset - head.left) = NumberOf(digits, j, Base)
      BY <2>3, <2>6, <2>10, <2>12
    <3>2. NumberOf(digits, j, Base) % RlpModulus = NumberOf(digits, j, Base)
      BY <2>10, <2>11, NoTruncation, RlpAssumption
    <3> QED
      BY <3>1, <3>2
  <2>14. /\ head'.kind = head.kind /\ head'.left = head.left - 1
         /\ head'.len = NumberOf(digits, j, Base)
         /\ pc' = pc /\ UNCHANGED <<buffer, start, rlp, offset>>
    BY <1>4, <2>13 DEF AddLengthByte, Header
  <2>15. AllAnnounced' /\ NextItem' = NextItem
    BY <1>t, <2>14, NothingAdded
  <2>16. LengthSoFar'
    BY <2>2, <2>3, <2>6, <2>14, <2>15 DEF LengthSoFar
  <2> QED
    BY <2>1, <2>14, <2>15, <2>16 DEF Following
<1>5. CASE LengthRead
  <2>1. /\ pc = "length" /\ LengthSoFar /\ head.left = 0
        /\ pc' = "content"
        /\ UNCHANGED <<buffer, start, bufferLen, rlp, offset, head>>
    BY <1>5 DEF LengthRead, Following
  <2>2. AllAnnounced' /\ NextItem' = NextItem
    BY <1>t, <2>1, NothingAdded
  <2>3. PICK n : n = LengthBytes(buffer[NextItem + 1])
    OBVIOUS
  <2>4. n \in Nat
    BY <2>1, <2>3, RlpAssumption DEF LengthSoFar, ListLong
  <2>5. n - head.left = n
    BY <2>1, <2>4
  <2>6. Says(buffer, NextItem, head.kind, start + offset, head.len)
    BY <2>1, <2>3, <2>5 DEF LengthSoFar
  <2>7. NextItem < start + offset
    <3>1. NextItem \in Nat /\ start + offset = NextItem + 1 + n
      BY <2>1, <2>3 DEF LengthSoFar
    <3> QED
      BY <2>4, <3>1
  <2>8. ContentKnown'
    BY <2>1, <2>2, <2>6, <2>7 DEF ContentKnown
  <2> QED
    BY <2>1, <2>2, <2>8 DEF Following
<1>6. CASE ReadContent
  <2>1. /\ pc = "content" /\ UNCHANGED <<buffer, start, bufferLen>>
        /\ Says(buffer, NextItem, head.kind, start + offset, head.len)
        /\ NextItem < start + offset
    BY <1>6 DEF ReadContent, Following, ContentKnown
  <2> DEFINE item == Item(head.kind, offset, head.len)
  <2>2. item \in Items /\ EndOf(item) = start + offset + head.len
    BY <1>n DEF Item, Items, EndOf, Extent
  <2>3. item = Announced(buffer, NextItem)
    BY <2>1 DEF Says, Item
  <2>4. CASE Available(head.len)
    <3>1. /\ offset + head.len \in Nat /\ offset + head.len < LenModulus
      BY <1>t, <1>n, <2>4, RlpAssumption DEF Available
    <3>2. (offset + head.len) % LenModulus = offset + head.len
      BY <3>1, NoTruncation, RlpAssumption
    <3>3. /\ rlp' = Append(rlp, item) /\ offset' = offset + head.len
          /\ pc' = "reading"
      BY <1>6, <2>4, <3>2 DEF ReadContent
    <3> HIDE DEF item
    <3>4. AllAnnounced' /\ NextItem' = EndOf(item)
      <4>1. NextItem < EndOf(item)
        <5>1. NextItem \in Int
          BY <1>t, NextIsNumber
        <5> QED
          BY <1>n, <2>1, <2>2, <5>1
      <4> QED
        BY <1>t, <2>1, <2>2, <2>3, <3>3, <4>1, AnnouncedAdded
    <3>5. start' + offset' = EndOf(item)
      BY <1>n, <2>1, <2>2, <3>3
    <3> QED
      BY <3>3, <3>4, <3>5 DEF Following
  <2>5. CASE ~Available(head.len)
    <3>1. pc' = "buffer_end" /\ UNCHANGED rlp
      BY <1>6, <2>5 DEF ReadContent, EndOfBuffer
    <3>2. AllAnnounced' /\ NextItem' = NextItem
      BY <1>t, <2>1, <3>1, NothingAdded
    <3>3. start + offset + head.len > start + bufferLen
      BY <1>n, <2>5 DEF Available
    <3>4. EndOf(Announced(buffer, NextItem)) > start + bufferLen
      BY <2>2, <2>3, <3>3
    <3>5. GivesUpRightly'
      BY <2>1, <3>2, <3>4 DEF GivesUpRightly, EndOf, Extent
    <3> QED
      BY <3>1, <3>2, <3>5 DEF Following
  <2> QED
    BY <2>4, <2>5
<1>7. CASE StreamEnds
  <2>1. /\ pc = "reading" /\ pc' = "ok" /\ start + offset = NextItem
        /\ UNCHANGED <<buffer, start, rlp, offset>>
    BY <1>7 DEF StreamEnds, Following
  <2>2. AllAnnounced' /\ NextItem' = NextItem
    BY <1>t, <2>1, NothingAdded
  <2> QED
    BY <2>1, <2>2 DEF Following
<1>8. ASSUME NEW i \in DOMAIN rlp, ReadList(i)
      PROVE  Following'
  <2>1. /\ rlp' = <<>> /\ start' = rlp[i].ptr /\ offset' = 0
        /\ pc' = "reading"
    BY <1>8 DEF ReadList
  <2>2. rlp[i].ptr \in Nat
    BY <1>t, RlpNumbers
  <2>3. AllAnnounced'
    BY <2>1 DEF AllAnnounced
  <2>4. NextItem' = start'
    BY <2>1 DEF NextItem, BeginsAt
  <2>5. start' + offset' = start'
    BY <2>1, <2>2
  <2> QED
    BY <2>1, <2>3, <2>4, <2>5 DEF Following
<1>9. CASE UNCHANGED vars
  <2>1. UNCHANGED <<buffer, start, bufferLen, offset, rlp, head, pc>>
    BY <1>9 DEF vars
  <2>2. AllAnnounced' /\ NextItem' = NextItem
    BY <1>t, <2>1, NothingAdded
  <2>3. (LengthSoFar => LengthSoFar') /\ (ContentKnown => ContentKnown')
    BY <2>1, <2>2 DEF LengthSoFar, ContentKnown
  <2>4. GivesUpRightly => GivesUpRightly'
    BY <2>1, <2>2 DEF GivesUpRightly, EndOf, Extent
  <2> QED
    BY <2>1, <2>2, <2>3, <2>4 DEF Following
<1>10. ASSUME Next PROVE Following'
  <2>1. {BytePrefix, StringShort, StringLong, ListShort} \subseteq Nat
    BY RlpAssumption
  <2>2. /\ ShortForm("string", BytePrefix, StringShort)
        /\ ShortForm("list", StringLong, ListShort)
        /\ LongForm("string", StringShort, StringLong)
        /\ LongForm("list", ListShort, ListLong)
    BY DEF ShortForm, LongForm
  <2> QED
    BY <1>1, <1>2, <1>3, <1>4, <1>5, <1>6, <1>7, <1>8, <1>10, <2>1, <2>2
    DEF Next
<1> QED
  BY <1>9, <1>10

(* Everything that is not a byte stands behind its prefix.                 *)
LEMMA PrefixBefore ==
  ASSUME NEW bytes, NEW p \in Nat, bytes[p + 1] \in Byte,
         Announced(bytes, p).kind # "byte"
  PROVE  /\ LengthBytes(bytes[p + 1]) \in Nat
         /\ Announced(bytes, p).ptr = p + 1 + LengthBytes(bytes[p + 1])
<1>1. PICK x : x = bytes[p + 1] /\ x \in Nat /\ x <= ListLong
  BY RlpAssumption DEF Byte, ListLong
<1>2. ~(x <= BytePrefix)
  <2>1. SUFFICES ASSUME x <= BytePrefix PROVE FALSE
    OBVIOUS
  <2>2. Says(bytes, p, "byte", p, 0)
    BY <1>1, <2>1, ByteSays
  <2> QED
    BY <2>2 DEF Says
<1>3. \/ BytePrefix < x /\ x <= StringShort
      \/ StringShort < x /\ x <= StringLong
      \/ StringLong < x /\ x <= ListShort
      \/ ListShort < x /\ x <= ListLong
  BY <1>1, <1>2, RlpAssumption
<1>4. ASSUME NEW kind, NEW min, NEW max, ShortForm(kind, min, max),
             min < x, x <= max
      PROVE  /\ LengthBytes(x) \in Nat
             /\ Announced(bytes, p).ptr = p + 1 + LengthBytes(x)
  <2>1. LengthBytes(x) = 0 /\ Announced(bytes, p).ptr = p + 1
    BY <1>1, <1>4, ShortSays DEF Says
  <2> QED
    BY <2>1
<1>5. ASSUME NEW kind, NEW min, NEW max, LongForm(kind, min, max),
             min < x, x <= max
      PROVE  /\ LengthBytes(x) \in Nat
             /\ Announced(bytes, p).ptr = p + 1 + LengthBytes(x)
  <2>1. PICK n : n = x - min
    OBVIOUS
  <2>2. /\ LengthBytes(x) = n /\ Announced(bytes, p).ptr = p + 1 + n
        /\ n \in 1..(StringLong - StringShort) \cup 1..(ListLong - ListShort)
    BY <1>1, <1>5, <2>1, LongSays DEF LongSaid, Says
  <2> QED
    BY <2>2
<1>6. /\ ShortForm("string", BytePrefix, StringShort)
      /\ ShortForm("list", StringLong, ListShort)
      /\ LongForm("string", StringShort, StringLong)
      /\ LongForm("list", ListShort, ListLong)
  BY DEF ShortForm, LongForm
<1> QED
  BY <1>1, <1>3, <1>4, <1>5, <1>6

(* An item that was read begins at a byte of the input.                    *)
LEMMA BeginsInside ==
  ASSUME TypeOK, InBounds, AllAnnounced, NEW i \in DOMAIN rlp
  PROVE  /\ BeginsAt(i) \in Nat
         /\ BeginsAt(i) + 1 \in 1..Len(buffer)
         /\ buffer[BeginsAt(i) + 1] \in Byte
<1>1. /\ rlp \in Seq(Items) /\ i \in 1..Len(rlp) /\ Len(rlp) \in Nat
      /\ DOMAIN rlp = 1..Len(rlp)
  BY DEF TypeOK, Items
<1>2. BeginsAt(i) \in Nat
  <2>1. CASE i = 1
    BY <2>1 DEF BeginsAt, TypeOK
  <2>2. CASE i # 1
    <3>1. i - 1 \in DOMAIN rlp
      BY <1>1, <2>2
    <3> QED
      BY <2>2, <3>1, RlpNumbers DEF BeginsAt
  <2> QED
    BY <2>1, <2>2
<1>3. buffer \in Seq(Byte) /\ Len(buffer) \in Nat
  BY RlpAssumption DEF TypeOK
<1>4. /\ EndOf(rlp[i]) \in Nat /\ BeginsAt(i) < EndOf(rlp[i])
      /\ EndOf(rlp[i]) <= start + offset
  BY RlpNumbers DEF InBounds, AllAnnounced
<1>5. /\ start \in Nat /\ offset \in Nat /\ bufferLen \in Nat
      /\ offset <= bufferLen /\ start + bufferLen <= Len(buffer)
  BY DEF TypeOK, InBounds
<1>6. BeginsAt(i) + 1 \in 1..Len(buffer)
  BY <1>2, <1>3, <1>4, <1>5
<1> QED
  BY <1>2, <1>3, <1>6

(* Room and windows, step by step.                                         *)
LEMMA RoomStep == Inv /\ Reading /\ [Next]_vars => (RoomLeft /\ OutermostWindow)'
<1> SUFFICES ASSUME Inv, Reading, [Next]_vars
             PROVE  RoomLeft' /\ OutermostWindow'
  OBVIOUS
<1>t. /\ TypeOK /\ InBounds /\ AllAnnounced /\ Following
      /\ RoomLeft /\ OutermostWindow
      /\ rlp \in Seq(Items) /\ Len(rlp) \in Nat
      /\ maxFields \in Nat
  BY RlpAssumption DEF Inv, TypeOK, Items, Reading, Following
<1>n. /\ offset \in Nat /\ bufferLen \in Nat /\ start \in Nat
      /\ offset <= bufferLen
  BY <1>t DEF TypeOK, InBounds
<1>m. More => NextItem < start + bufferLen /\ Len(rlp) < maxFields
  BY <1>t, <1>n DEF More, Following
<1> USE DEF Input
<1>1. ASSUME UNCHANGED <<buffer, start, bufferLen>>
      PROVE  OutermostWindow'
  BY <1>1, <1>t DEF OutermostWindow
<1>2. ASSUME UNCHANGED <<buffer, start, bufferLen, maxFields, rlp>>, pc' # "ok",
             More \/ pc \in {"length", "content"}
      PROVE  RoomLeft' /\ OutermostWindow'
  <2>1. NextItem < start + bufferLen /\ Len(rlp) < maxFields
    BY <1>2, <1>m, <1>t DEF RoomLeft
  <2>2. NextItem' = NextItem
    BY <1>2, <1>t, NothingAdded
  <2> QED
    BY <1>1, <1>2, <1>t, <2>1, <2>2 DEF RoomLeft
<1>3. ASSUME UNCHANGED <<buffer, start, bufferLen, maxFields>>,
             pc' = "reading", Len(rlp) < maxFields,
             NEW item, rlp' = Append(rlp, item)
      PROVE  RoomLeft' /\ OutermostWindow'
  <2>1. Len(rlp') = Len(rlp) + 1
    BY <1>3, <1>t
  <2>2. Len(rlp') <= maxFields'
    BY <1>3, <1>t, <2>1
  <2> QED
    BY <1>1, <1>3, <2>2 DEF RoomLeft
<1>4. CASE ReadByte
  <2>1. /\ UNCHANGED <<buffer, start, bufferLen, maxFields>>
        /\ pc' = "reading" /\ Len(rlp) < maxFields
        /\ rlp' = Append(rlp, Item("byte", offset, 0))
    BY <1>4, <1>m DEF ReadByte, More
  <2> QED
    BY <1>3, <2>1
<1>5. ASSUME NEW kind, NEW min, NEW max, ReadShort(kind, min, max)
      PROVE  RoomLeft' /\ OutermostWindow'
  BY <1>2, <1>5 DEF ReadShort
<1>6. ASSUME NEW kind, NEW min, NEW max, ReadLong(kind, min, max)
      PROVE  RoomLeft' /\ OutermostWindow'
  BY <1>2, <1>6 DEF ReadLong, EndOfBuffer
<1>7. CASE AddLengthByte
  BY <1>2, <1>7 DEF AddLengthByte
<1>8. CASE LengthRead
  BY <1>2, <1>8 DEF LengthRead
<1>9. CASE ReadContent
  <2>1. CASE Available(head.len)
    <3>1. /\ UNCHANGED <<buffer, start, bufferLen, maxFields>>
          /\ pc' = "reading" /\ Len(rlp) < maxFields
          /\ rlp' = Append(rlp, Item(head.kind, offset, head.len))
      BY <1>9, <1>t, <2>1 DEF ReadContent, RoomLeft
    <3> QED
      BY <1>3, <3>1
  <2>2. CASE ~Available(head.len)
    BY <1>2, <1>9, <2>2 DEF ReadContent, EndOfBuffer
  <2> QED
    BY <2>1, <2>2
<1>10. CASE StreamEnds
  <2>1. /\ pc = "reading" /\ ~More /\ pc' = "ok"
        /\ UNCHANGED <<buffer, start, bufferLen, maxFields, rlp>>
    BY <1>10 DEF StreamEnds
  <2>2. Len(rlp) <= maxFields /\ start + offset = NextItem
    BY <1>t, <2>1 DEF RoomLeft, Following
  <2>3. NextItem = start + bufferLen \/ Len(rlp) = maxFields
    BY <1>t, <1>n, <2>1, <2>2 DEF More
  <2>4. NextItem' = NextItem
    BY <1>t, <2>1, NothingAdded
  <2> QED
    BY <1>1, <2>1, <2>2, <2>3, <2>4 DEF RoomLeft
<1>11. ASSUME NEW i \in DOMAIN rlp, ReadList(i)
       PROVE  RoomLeft' /\ OutermostWindow'
  <2>1. /\ rlp' = <<>> /\ start' = rlp[i].ptr /\ pc' = "reading"
        /\ rlp[i].kind = "list" /\ maxFields' \in Nat
    BY <1>11, RlpAssumption DEF ReadList
  <2>2. rlp[i].ptr > 0
    <3>1. PICK p, n : p = BeginsAt(i) /\ n = LengthBytes(buffer[p + 1])
      OBVIOUS
    <3>2. /\ rlp[i] = Announced(buffer, p)
          /\ p \in Nat /\ buffer[p + 1] \in Byte
      BY <1>t, <3>1, BeginsInside DEF AllAnnounced
    <3>3. n \in Nat /\ rlp[i].ptr = p + 1 + n
      BY <2>1, <3>1, <3>2, PrefixBefore
    <3> QED
      BY <3>2, <3>3
  <2> QED
    BY <2>1, <2>2 DEF RoomLeft, OutermostWindow
<1>12. CASE UNCHANGED vars
  <2>1. UNCHANGED <<buffer, start, bufferLen, maxFields, rlp, pc>>
    BY <1>12 DEF vars
  <2>2. NextItem' = NextItem
    BY <1>t, <2>1, NothingAdded
  <2> QED
    BY <1>1, <1>t, <2>1, <2>2 DEF RoomLeft
<1> QED
  BY <1>4, <1>5, <1>6, <1>7, <1>8, <1>9, <1>10, <1>11, <1>12 DEF Next

LEMMA ReadingAlways == Spec => []Reading
<1>1. Inv /\ Reading /\ [Next]_vars => Reading'
  BY FollowingStep, RoomStep DEF Reading
<1> QED
  BY <1>1, InvAlways, ReadingInit, PTL DEF Spec

(* Whatever the bytes are, the items read are those the bytes announce,    *)
(* one beginning where the one before ends, whatever form their lengths    *)
(* are written in; and the reader gives up only at an item that its list   *)
(* or the input cuts off.                                                  *)
THEOREM ItemsAreAsAnnounced == Spec => []ItemsAreAnnounced
  BY ReadingAlways, ReadingSuffices, PTL

-----------------------------------------------------------------------------
(* Where an encoder has put its items: f[i] is what the first i of them    *)
(* are written as.                                                         *)

Builds(f, seqs, n) ==
  /\ f \in [0..n -> Seq(Byte)]
  /\ f[0] = <<>>
  /\ \A i \in 1..n : f[i] = f[i - 1] \o seqs[i]

LEMMA Naturals ==
  ASSUME NEW S, S \subseteq Nat, 0 \in S, \A n \in S : n + 1 \in S
  PROVE  S = Nat
<1>1. Numbers!WordAssumption
  BY DEF Numbers!WordAssumption
<1> QED
  BY <1>1, Numbers!NaturalsByInduction

LEMMA Joined ==
  ASSUME NEW u \in Seq(Byte), NEW v \in Seq(Byte)
  PROVE  /\ u \o v \in Seq(Byte)
         /\ Len(u) \in Nat /\ Len(v) \in Nat
         /\ Len(u \o v) = Len(u) + Len(v)
         /\ \A j \in 1..Len(u) : (u \o v)[j] = u[j]
         /\ \A j \in 1..Len(v) : (u \o v)[Len(u) + j] = v[j]
  OBVIOUS

LEMMA BuildsExists ==
  ASSUME NEW seqs, NEW n \in Nat, \A i \in 1..n : seqs[i] \in Seq(Byte)
  PROVE  \E f : Builds(f, seqs, n)
<1> DEFINE S == {k \in Nat : k \in 0..n => \E f : Builds(f, seqs, k)}
<1>1. 0 \in S
  <2>1. PICK f : f = [i \in 0..0 |-> <<>>]
    OBVIOUS
  <2>2. Builds(f, seqs, 0)
    BY <2>1 DEF Builds
  <2> QED
    BY <2>2
<1>2. ASSUME NEW k \in S PROVE k + 1 \in S
  <2> SUFFICES ASSUME k + 1 \in 0..n
               PROVE  \E f : Builds(f, seqs, k + 1)
    OBVIOUS
  <2>1. k \in Nat /\ k \in 0..n /\ k + 1 \in 1..n
    OBVIOUS
  <2>2. PICK f : Builds(f, seqs, k)
    BY <2>1
  <2>3. PICK v : v = f[k] \o seqs[k + 1]
    OBVIOUS
  <2>4. v \in Seq(Byte)
    <3>1. f[k] \in Seq(Byte) /\ seqs[k + 1] \in Seq(Byte)
      BY <2>1, <2>2 DEF Builds
    <3> QED
      BY <2>3, <3>1
  <2>5. PICK g : g = [i \in 0..(k + 1) |-> IF i = k + 1 THEN v ELSE f[i]]
    OBVIOUS
  <2>6. \A i \in 0..k : i \in 0..(k + 1) /\ i # k + 1 /\ g[i] = f[i]
    BY <2>1, <2>5
  <2>7. \A i \in 0..(k + 1) : i = k + 1 \/ i \in 0..k
    BY <2>1
  <2>8. g \in [0..(k + 1) -> Seq(Byte)] /\ g[0] = <<>>
    <3>1. \A i \in 0..k : f[i] \in Seq(Byte)
      BY <2>2 DEF Builds
    <3>2. f[0] = <<>> /\ 0 \in 0..k
      BY <2>1, <2>2 DEF Builds
    <3> QED
      BY <2>4, <2>5, <2>6, <2>7, <3>1, <3>2
  <2>9. ASSUME NEW i \in 1..(k + 1) PROVE g[i] = g[i - 1] \o seqs[i]
    <3>1. CASE i = k + 1
      <4>1. i - 1 = k /\ k \in 0..k /\ k + 1 \in 0..(k + 1)
        BY <2>1, <3>1
      <4>2. g[i] = v /\ g[i - 1] = f[k]
        BY <2>5, <2>6, <3>1, <4>1
      <4> QED
        BY <2>3, <3>1, <4>2
    <3>2. CASE i # k + 1
      <4>1. i \in 1..k /\ i \in 0..k /\ i - 1 \in 0..k
        BY <2>1, <3>2
      <4> QED
        BY <2>2, <2>6, <4>1 DEF Builds
    <3> QED
      BY <3>1, <3>2
  <2>10. Builds(g, seqs, k + 1)
    BY <2>8, <2>9 DEF Builds
  <2> QED
    BY <2>10
<1>3. S = Nat
  <2>1. S \subseteq Nat
    OBVIOUS
  <2> HIDE DEF S
  <2> QED
    BY <1>1, <1>2, <2>1, Naturals
<1> QED
  BY <1>3

LEMMA FlattenIs ==
  ASSUME NEW seqs, NEW n \in Nat, Len(seqs) = n, seqs = <<>> <=> n = 0,
         \A i \in 1..n : seqs[i] \in Seq(Byte),
         NEW f, Builds(f, seqs, n)
  PROVE  FlattenSeq(seqs) = f[n]
<1>1. CASE n = 0
  BY <1>1 DEF FlattenSeq, Builds
<1>2. CASE n # 0
  <2> DEFINE upTo(g) ==
        [i \in 1..n |-> IF i = 1 THEN seqs[i] ELSE g[i - 1] \o seqs[i]]
      G == CHOOSE g : g = upTo(g)
  <2>1. PICK h : h = [i \in 1..n |-> f[i]]
    OBVIOUS
  <2>2. h = upTo(h)
    <3>1. ASSUME NEW i \in 1..n
          PROVE  h[i] = IF i = 1 THEN seqs[i] ELSE h[i - 1] \o seqs[i]
      <4>1. CASE i = 1
        <5>1. f[1] = <<>> \o seqs[1] /\ seqs[1] \in Seq(Byte)
          <6>1. 1 \in 1..n /\ 1 - 1 = 0
            BY <4>1
          <6> QED
            BY <6>1 DEF Builds
        <5>2. <<>> \o seqs[1] = seqs[1]
          BY <5>1
        <5> QED
          BY <2>1, <4>1, <5>1, <5>2
      <4>2. CASE i # 1
        <5>1. i - 1 \in 1..n
          BY <4>2
        <5> QED
          BY <2>1, <4>2, <5>1 DEF Builds
      <4> QED
        BY <4>1, <4>2
    <3> QED
      BY <2>1, <3>1
  <2>3. G = upTo(G)
    BY <2>2
  <2>4. FlattenSeq(seqs) = G[n]
    BY <1>2, Zenon DEF FlattenSeq
  <2> HIDE DEF G
  <2> DEFINE S == {i \in Nat : i + 1 \in 1..n => G[i + 1] = f[i + 1]}
  <2>5. S = Nat
    <3>1. 0 \in S
      <4> SUFFICES ASSUME 1 \in 1..n PROVE G[1] = f[1]
        OBVIOUS
      <4>1. G[1] = seqs[1] /\ h[1] = seqs[1] /\ h[1] = f[1]
        BY <2>1, <2>2, <2>3
      <4> QED
        BY <4>1
    <3>2. ASSUME NEW i \in S PROVE i + 1 \in S
      <4> SUFFICES ASSUME (i + 1) + 1 \in 1..n
                   PROVE  G[(i + 1) + 1] = f[(i + 1) + 1]
        OBVIOUS
      <4>1. /\ i + 1 \in 1..n /\ ((i + 1) + 1) - 1 = i + 1
            /\ (i + 1) + 1 # 1
        OBVIOUS
      <4>2. G[i + 1] = f[i + 1]
        BY <4>1
      <4>3. G[(i + 1) + 1] = G[i + 1] \o seqs[(i + 1) + 1]
        BY <2>3, <4>1
      <4>4. f[(i + 1) + 1] = f[i + 1] \o seqs[(i + 1) + 1]
        BY <4>1 DEF Builds
      <4> QED
        BY <4>2, <4>3, <4>4
    <3>3. S \subseteq Nat
      OBVIOUS
    <3> HIDE DEF S
    <3> QED
      BY <3>1, <3>2, <3>3, Naturals
  <2>6. n - 1 \in Nat /\ (n - 1) + 1 = n /\ n \in 1..n
    BY <1>2
  <2>7. \A i \in Nat : i + 1 \in 1..n => G[i + 1] = f[i + 1]
    BY <2>5
  <2>8. (n - 1) + 1 \in 1..n => G[(n - 1) + 1] = f[(n - 1) + 1]
    BY <2>6, <2>7
  <2> QED
    BY <2>4, <2>6, <2>8
<1> QED
  BY <1>1, <1>2

(* e[i] is where the i-th sequence ends in the whole.                      *)
Ends(e, seqs, n, whole) ==
  /\ e \in [0..n -> Nat]
  /\ e[0] = 0 /\ e[n] = Len(whole)
  /\ \A i \in 1..n : e[i] = e[i - 1] + Len(seqs[i])
  /\ \A i \in 0..n : e[i] <= e[n]
  /\ \A i \in 1..n : \A j \in 1..Len(seqs[i]) :
        whole[e[i - 1] + j] = seqs[i][j]

(* What is built stays as it is while more is added.                       *)
Stays(f, k, n) ==
  \A m \in k..n : /\ Len(f[k]) <= Len(f[m])
                  /\ \A j \in 1..Len(f[k]) : f[m][j] = f[k][j]

LEMMA PrefixStays ==
  ASSUME NEW seqs, NEW n \in Nat, \A i \in 1..n : seqs[i] \in Seq(Byte),
         NEW f, Builds(f, seqs, n), NEW k \in 0..n
  PROVE  Stays(f, k, n)
<1> DEFINE Same(m) == /\ Len(f[k]) <= Len(f[m])
                      /\ \A j \in 1..Len(f[k]) : f[m][j] = f[k][j]
           S == {m \in Nat : m \in k..n => Same(m)}
<1>1. \A i \in 0..n : f[i] \in Seq(Byte) /\ Len(f[i]) \in Nat
  BY DEF Builds
<1>2. 0 \in S
  <2> SUFFICES ASSUME 0 \in k..n PROVE Same(0)
    OBVIOUS
  <2>1. k = 0
    OBVIOUS
  <2> QED
    BY <1>1, <2>1
<1>3. ASSUME NEW m \in S PROVE m + 1 \in S
  <2> SUFFICES ASSUME m + 1 \in k..n PROVE Same(m + 1)
    OBVIOUS
  <2>1. CASE k = m + 1
    BY <1>1, <2>1
  <2>2. CASE k # m + 1
    <3>1. m \in k..n /\ m + 1 \in 1..n /\ m \in 0..n /\ (m + 1) - 1 = m
      BY <2>2
    <3>2. Same(m)
      BY <3>1
    <3>3. f[m + 1] = f[m] \o seqs[m + 1]
      BY <3>1 DEF Builds
    <3>4. f[m] \in Seq(Byte) /\ seqs[m + 1] \in Seq(Byte) /\ Len(f[k]) \in Nat
      BY <1>1, <3>1
    <3>5. /\ Len(f[m + 1]) = Len(f[m]) + Len(seqs[m + 1])
          /\ Len(f[m]) \in Nat /\ Len(seqs[m + 1]) \in Nat
          /\ \A j \in 1..Len(f[m]) : f[m + 1][j] = f[m][j]
      <4>1. PICK u, v : u = f[m] /\ v = seqs[m + 1]
        OBVIOUS
      <4>2. u \in Seq(Byte) /\ v \in Seq(Byte)
        BY <3>4, <4>1
      <4>3. /\ Len(u \o v) = Len(u) + Len(v)
            /\ Len(u) \in Nat /\ Len(v) \in Nat
            /\ \A j \in 1..Len(u) : (u \o v)[j] = u[j]
        BY <4>2, Joined
      <4>4. f[m + 1] = u \o v
        BY <3>3, <4>1
      <4> QED
        BY <4>1, <4>3, <4>4
    <3>6. Len(f[k]) <= Len(f[m + 1])
      <4>1. PICK a, b, c : a = Len(f[k]) /\ b = Len(f[m])
                           /\ c = Len(seqs[m + 1])
        OBVIOUS
      <4>2. a \in Nat /\ b \in Nat /\ c \in Nat /\ a <= b
        BY <3>2, <3>4, <3>5, <4>1
      <4>3. Len(f[m + 1]) = b + c
        BY <3>5, <4>1
      <4>4. a <= b + c
        BY <4>2
      <4> QED
        BY <4>1, <4>3, <4>4
    <3>7. ASSUME NEW j \in 1..Len(f[k]) PROVE f[m + 1][j] = f[k][j]
      <4>1. j \in 1..Len(f[m])
        BY <3>2, <3>4, <3>5
      <4> QED
        BY <3>2, <3>5, <4>1
    <3> QED
      BY <3>6, <3>7
  <2> QED
    BY <2>1, <2>2
<1>4. S = Nat
  <2>1. S \subseteq Nat
    OBVIOUS
  <2> HIDE DEF S
  <2> QED
    BY <1>2, <1>3, <2>1, Naturals
<1> QED
  BY <1>4 DEF Stays

LEMMA FlattenedEnds ==
  ASSUME NEW seqs, NEW n \in Nat, Len(seqs) = n, seqs = <<>> <=> n = 0,
         \A i \in 1..n : seqs[i] \in Seq(Byte)
  PROVE  /\ FlattenSeq(seqs) \in Seq(Byte)
         /\ \E e : Ends(e, seqs, n, FlattenSeq(seqs))
<1>1. PICK f : Builds(f, seqs, n)
  BY BuildsExists
<1>2. PICK whole : whole = FlattenSeq(seqs)
  OBVIOUS
<1>3. whole = f[n] /\ n \in 0..n /\ 0 \in 0..n
  BY <1>1, <1>2, FlattenIs
<1>4. \A i \in 0..n : f[i] \in Seq(Byte) /\ Len(f[i]) \in Nat
  BY <1>1 DEF Builds
<1>5. PICK e : e = [i \in 0..n |-> Len(f[i])]
  OBVIOUS
<1>6. \A i \in 0..n : e[i] = Len(f[i])
  BY <1>5
<1>7. e \in [0..n -> Nat] /\ e[0] = 0 /\ e[n] = Len(whole)
  <2>1. f[0] = <<>> /\ Len(<<>>) = 0
    BY <1>1 DEF Builds
  <2> QED
    BY <1>3, <1>4, <1>5, <2>1
<1>8. \A i \in 0..n : e[i] <= e[n]
  <2> TAKE i \in 0..n
  <2>1. n \in i..n
    OBVIOUS
  <2>2. Len(f[i]) <= Len(f[n])
    <3>1. Stays(f, i, n)
      BY <1>1, PrefixStays
    <3> QED
      BY <2>1, <3>1 DEF Stays
  <2> QED
    BY <1>3, <1>6, <2>2
<1>9. ASSUME NEW i \in 1..n
      PROVE  /\ e[i] = e[i - 1] + Len(seqs[i])
             /\ \A j \in 1..Len(seqs[i]) : whole[e[i - 1] + j] = seqs[i][j]
  <2>1. i \in 0..n /\ i - 1 \in 0..n /\ n \in i..n
    OBVIOUS
  <2>2. PICK u, v : u = f[i - 1] /\ v = seqs[i]
    OBVIOUS
  <2>3. u \in Seq(Byte) /\ v \in Seq(Byte)
    BY <1>4, <2>1, <2>2
  <2>4. f[i] = u \o v
    BY <1>1, <2>2 DEF Builds
  <2>5. /\ Len(f[i]) = Len(u) + Len(v)
        /\ Len(u) \in Nat /\ Len(v) \in Nat
        /\ \A j \in 1..Len(v) : f[i][Len(u) + j] = v[j]
    BY <2>3, <2>4, Joined
  <2>6. e[i] = Len(f[i]) /\ e[i - 1] = Len(u)
    BY <1>6, <2>1, <2>2
  <2>7. \A j \in 1..Len(f[i]) : f[n][j] = f[i][j]
    <3>1. Stays(f, i, n)
      BY <1>1, <2>1, PrefixStays
    <3> QED
      BY <2>1, <3>1 DEF Stays
  <2>8. ASSUME NEW j \in 1..Len(v) PROVE whole[e[i - 1] + j] = v[j]
    <3>1. Len(u) + j \in 1..Len(f[i])
      BY <2>5
    <3> QED
      BY <1>3, <2>5, <2>6, <2>7, <3>1
  <2> QED
    BY <2>2, <2>5, <2>6, <2>8
<1>10. Ends(e, seqs, n, whole)
  BY <1>7, <1>8, <1>9 DEF Ends
<1> QED
  BY <1>2, <1>3, <1>4, <1>10

-----------------------------------------------------------------------------
(* What an item is written as, and that its bytes announce it. *)

LEMMA PrefixRanges ==
  /\ Base \in Nat /\ ListLong \in Nat
  /\ \A kind : /\ ShortMin(kind) \in Nat /\ ShortMax(kind) \in Nat
               /\ LongMax(kind) \in Nat
               /\ BytePrefix <= ShortMin(kind)
               /\ ShortMin(kind) < ShortMax(kind)
               /\ ShortMax(kind) < LongMax(kind)
               /\ LongMax(kind) <= ListLong
<1>1. Base \in Nat /\ ListLong \in Int
  BY RlpAssumption DEF ListLong
<1> QED
  BY <1>1, RlpAssumption DEF ShortMin, ShortMax, LongMax

LEMMA FormsOfKinds ==
  ASSUME NEW kind \in {"string", "list"}
  PROVE  /\ ShortForm(kind, ShortMin(kind), ShortMax(kind))
         /\ LongForm(kind, ShortMax(kind), LongMax(kind))
  BY DEF ShortForm, LongForm, ShortMin, ShortMax, LongMax

(* The bytes from p on are those of a sequence.                            *)
StandsAt(bytes, p, seq) ==
  \A j \in 1..Len(seq) : bytes[p + j] = seq[j]

LEMMA ByteWritten ==
  ASSUME NEW x, WellFormed(x), x.kind = "byte"
  PROVE  /\ Encode(x) \in Seq(Byte) /\ Len(Encode(x)) = 1
         /\ Encode(x) = x.content
         /\ x.content[1] \in Byte /\ x.content[1] <= BytePrefix
<1>1. /\ x.content \in Seq(Byte) /\ Len(x.content) = 1
      /\ x.content[1] <= BytePrefix
  BY DEF WellFormed
<1>2. Encode(x) = x.content
  BY DEF Encode
<1>3. x.content[1] \in Byte
  BY <1>1
<1> QED
  BY <1>1, <1>2, <1>3

LEMMA ShortWritten ==
  ASSUME NEW x, WellFormed(x), x.kind # "byte", x.digits = <<>>,
         NEW prefix, prefix = ShortMin(x.kind) + 1 + Len(x.content)
  PROVE  /\ Len(x.content) \in Nat /\ x.content \in Seq(Byte)
         /\ prefix \in Byte
         /\ ShortMin(x.kind) < prefix /\ prefix <= ShortMax(x.kind)
         /\ Encode(x) \in Seq(Byte)
         /\ Len(Encode(x)) = 1 + Len(x.content)
         /\ Encode(x)[1] = prefix
         /\ \A j \in 1..Len(x.content) : Encode(x)[1 + j] = x.content[j]
<1>1. x.content \in Seq(Byte) /\ Len(x.content) \in Nat
  BY DEF WellFormed
<1>2. PICK min, max, c : /\ min = ShortMin(x.kind) /\ max = ShortMax(x.kind)
                         /\ c = x.content
  OBVIOUS
<1>3. /\ min \in Nat /\ max \in Nat /\ max <= ListLong /\ ListLong \in Nat
  <2>1. /\ ShortMax(x.kind) < LongMax(x.kind) /\ LongMax(x.kind) <= ListLong
        /\ LongMax(x.kind) \in Nat /\ ListLong \in Nat
        /\ ShortMax(x.kind) \in Nat /\ ShortMin(x.kind) \in Nat
    BY PrefixRanges
  <2> QED
    BY <1>2, <2>1
<1>4. prefix <= max
  BY <1>2 DEF WellFormed
<1>5. prefix = min + 1 + Len(c) /\ Len(c) \in Nat
  BY <1>1, <1>2
<1>6. prefix \in Nat /\ min < prefix /\ prefix <= ListLong
  BY <1>3, <1>4, <1>5
<1>7. prefix \in Byte
  BY <1>3, <1>6 DEF Byte
<1>8. Encode(x) = <<prefix>> \o c
  BY <1>2 DEF Encode
<1>9. <<prefix>> \in Seq(Byte) /\ Len(<<prefix>>) = 1 /\ <<prefix>>[1] = prefix
  BY <1>7
<1>10. c \in Seq(Byte)
  BY <1>1, <1>2
<1>11. PICK u : u = <<prefix>>
  OBVIOUS
<1>12. /\ u \o c \in Seq(Byte)
       /\ Len(u \o c) = 1 + Len(c)
       /\ (u \o c)[1] = prefix
       /\ \A j \in 1..Len(c) : (u \o c)[1 + j] = c[j]
  BY <1>9, <1>10, <1>11, Joined
<1> QED
  BY <1>1, <1>2, <1>4, <1>6, <1>7, <1>8, <1>11, <1>12

(* An item whose length is written in d digits.                            *)
LongLayout(x, d, prefix) ==
  /\ Len(x.content) \in Nat /\ x.content \in Seq(Byte)
  /\ d \in Nat /\ d > 0 /\ x.digits \in Seq(Byte)
  /\ prefix \in Byte
  /\ ShortMax(x.kind) < prefix /\ prefix <= LongMax(x.kind)
  /\ Encode(x) \in Seq(Byte)
  /\ Len(Encode(x)) = 1 + d + Len(x.content)
  /\ Encode(x)[1] = prefix
  /\ \A j \in 1..d : Encode(x)[1 + j] = x.digits[j]
  /\ \A j \in 1..Len(x.content) : Encode(x)[1 + d + j] = x.content[j]

LEMMA LongWritten ==
  ASSUME NEW x, WellFormed(x), x.kind # "byte", x.digits # <<>>,
         NEW d, d = Len(x.digits),
         NEW prefix, prefix = ShortMax(x.kind) + d
  PROVE  LongLayout(x, d, prefix)
<1>1. x.content \in Seq(Byte) /\ Len(x.content) \in Nat
      /\ x.digits \in Seq(Byte)
  BY DEF WellFormed
<1>2. PICK min, max, c, g : /\ min = ShortMax(x.kind) /\ max = LongMax(x.kind)
                            /\ c = x.content /\ g = x.digits
  OBVIOUS
<1>3. /\ c \in Seq(Byte) /\ g \in Seq(Byte) /\ Len(c) \in Nat
      /\ d \in Nat /\ d > 0 /\ d = Len(g)
  BY <1>1, <1>2
<1>4. min \in Nat /\ max \in Nat /\ max <= ListLong /\ ListLong \in Nat
  BY <1>2, PrefixRanges
<1>5. prefix <= max
  BY <1>2 DEF WellFormed
<1>6. prefix \in Nat /\ min < prefix /\ prefix <= ListLong
  BY <1>2, <1>3, <1>4, <1>5
<1>7. prefix \in Byte
  BY <1>4, <1>6 DEF Byte
<1>8. PICK u : u = <<prefix>>
  OBVIOUS
<1>9. u \in Seq(Byte) /\ Len(u) = 1 /\ u[1] = prefix
  BY <1>7, <1>8
<1>10. Encode(x) = u \o g \o c
  BY <1>2, <1>8 DEF Encode
<1>11. PICK v : v = u \o g
  OBVIOUS
<1>12. /\ v \in Seq(Byte) /\ Len(v) = 1 + d
       /\ v[1] = prefix /\ \A j \in 1..d : v[1 + j] = g[j]
  <2>1. /\ u \o g \in Seq(Byte)
        /\ Len(u \o g) = Len(u) + Len(g)
        /\ \A j \in 1..Len(u) : (u \o g)[j] = u[j]
        /\ \A j \in 1..Len(g) : (u \o g)[Len(u) + j] = g[j]
    BY <1>3, <1>9, Joined
  <2>2. 1 \in 1..1
    OBVIOUS
  <2> QED
    BY <1>3, <1>9, <1>11, <2>1, <2>2
<1>13. /\ v \o c \in Seq(Byte) /\ Len(v \o c) = 1 + d + Len(c)
       /\ \A j \in 1..(1 + d) : (v \o c)[j] = v[j]
       /\ \A j \in 1..Len(c) : (v \o c)[1 + d + j] = c[j]
  <2>1. /\ v \o c \in Seq(Byte)
        /\ Len(v \o c) = Len(v) + Len(c)
        /\ \A j \in 1..Len(v) : (v \o c)[j] = v[j]
        /\ \A j \in 1..Len(c) : (v \o c)[Len(v) + j] = c[j]
    BY <1>3, <1>12, Joined
  <2> QED
    BY <1>12, <2>1
<1>14. Encode(x) = v \o c
  BY <1>10, <1>11
<1>15. Encode(x)[1] = prefix
  <2>1. 1 \in 1..(1 + d)
    BY <1>3
  <2> QED
    BY <1>12, <1>13, <1>14, <2>1
<1>16. ASSUME NEW j \in 1..d PROVE Encode(x)[1 + j] = x.digits[j]
  <2>1. 1 + j \in 1..(1 + d)
    BY <1>3
  <2> QED
    BY <1>2, <1>12, <1>13, <1>14, <2>1
<1> QED
  BY <1>2, <1>3, <1>5, <1>6, <1>7, <1>13, <1>14, <1>15, <1>16 DEF LongLayout

LEMMA EncodedIsBytes ==
  ASSUME NEW x, WellFormed(x)
  PROVE  /\ Encode(x) \in Seq(Byte)
         /\ Len(Encode(x)) \in Nat /\ Len(Encode(x)) > 0
<1>1. CASE x.kind = "byte"
  BY <1>1, ByteWritten
<1>2. CASE x.kind # "byte" /\ x.digits = <<>>
  <2>1. /\ Encode(x) \in Seq(Byte) /\ Len(x.content) \in Nat
        /\ Len(Encode(x)) = 1 + Len(x.content)
    BY <1>2, ShortWritten
  <2> QED
    BY <2>1
<1>3. CASE x.kind # "byte" /\ x.digits # <<>>
  <2>1. PICK d, prefix : d = Len(x.digits) /\ prefix = ShortMax(x.kind) + d
    OBVIOUS
  <2>2. /\ Encode(x) \in Seq(Byte) /\ Len(x.content) \in Nat /\ d \in Nat
        /\ Len(Encode(x)) = 1 + d + Len(x.content)
    BY <1>3, <2>1, LongWritten DEF LongLayout
  <2>3. PICK c : c = Len(x.content)
    OBVIOUS
  <2>4. c \in Nat /\ d \in Nat
    BY <2>2, <2>3
  <2>5. 1 + d + c \in Nat /\ 1 + d + c > 0
    BY <2>4
  <2> QED
    BY <2>2, <2>3, <2>5
<1> QED
  BY <1>1, <1>2, <1>3

(* A sequence that stands behind p is the bytes behind p.                  *)
LEMMA BytesBehind ==
  ASSUME NEW bytes, NEW p \in Nat, NEW seq \in Seq(Byte),
         StandsAt(bytes, p, seq),
         NEW q, q = p + Len(seq)
  PROVE  SubSeq(bytes, p + 1, q) = seq
<1>1. Len(seq) \in Nat /\ q \in Nat
  OBVIOUS
<1>2. PICK n : n = Len(seq)
  OBVIOUS
<1>3. seq = [i \in 1..n |-> seq[i]]
  BY <1>2
<1>4. SubSeq(bytes, p + 1, q) = [i \in 1..n |-> bytes[p + i]]
  <2>1. q - (p + 1) + 1 = n
    BY <1>1, <1>2
  <2>2. \A i \in 1..n : i + (p + 1) - 1 = p + i
    BY <1>1, <1>2
  <2> QED
    BY <1>1, <1>2, <2>1, <2>2
<1>5. \A i \in 1..n : bytes[p + i] = seq[i]
  BY <1>2 DEF StandsAt
<1> QED
  BY <1>3, <1>4, <1>5

(* What the first k bytes of a written item announce: if its length is     *)
(* among them, all of it.                                                  *)
HeadSays(p, x, size, k, n, a) ==
  /\ size \in Nat /\ n \in Nat /\ 1 + n <= size
  /\ k >= 1 + n => /\ a.kind = x.kind
                   /\ EndOf(a) = p + size
                   /\ a.ptr = p + (size - Len(x.content))

LEMMA WrittenIsAnnounced ==
  ASSUME NEW bytes, NEW p \in Nat, NEW x, WellFormed(x),
         NEW size, size = Len(Encode(x)),
         NEW k \in 1..size, \A j \in 1..k : bytes[p + j] = Encode(x)[j],
         NEW n, n = LengthBytes(bytes[p + 1]),
         NEW a, a = Announced(bytes, p)
  PROVE  bytes[p + 1] \in Byte /\ HeadSays(p, x, size, k, n, a)
<1>1. size \in Nat /\ size > 0 /\ k \in Nat /\ 1 \in 1..k
  BY EncodedIsBytes
<1>2. bytes[p + 1] = Encode(x)[1]
  BY <1>1
<1>3. CASE x.kind = "byte"
  <2>1. /\ size = 1 /\ bytes[p + 1] \in Byte /\ bytes[p + 1] <= BytePrefix
        /\ Len(x.content) = 1
    BY <1>2, <1>3, ByteWritten
  <2>2. n = 0 /\ a = [kind |-> "byte", ptr |-> p, rlpLen |-> 0]
    BY <2>1, ByteSays DEF Says
  <2>3. EndOf(a) = p + 1 /\ a.ptr = p /\ a.kind = "byte"
    BY <2>2 DEF EndOf, Extent
  <2> QED
    BY <1>3, <2>1, <2>2, <2>3 DEF HeadSays
<1>4. CASE x.kind # "byte" /\ x.digits = <<>>
  <2>1. PICK min, max, prefix, len :
          /\ min = ShortMin(x.kind) /\ max = ShortMax(x.kind)
          /\ prefix = min + 1 + len /\ len = Len(x.content)
    OBVIOUS
  <2>2. /\ len \in Nat /\ prefix \in Byte /\ bytes[p + 1] = prefix
        /\ min < prefix /\ prefix <= max /\ size = 1 + len
    BY <1>2, <1>4, <2>1, ShortWritten
  <2>3. min \in Nat
    BY <2>1, PrefixRanges
  <2>4. ShortForm(x.kind, min, max) /\ x.kind \in {"string", "list"}
    BY <1>4, <2>1, FormsOfKinds DEF WellFormed
  <2>5. /\ LengthBytes(prefix) = 0
        /\ Says(bytes, p, x.kind, p + 1, prefix - (min + 1))
    BY <2>2, <2>4, ShortSays
  <2>6. prefix - (min + 1) = len
    <3>1. min \in Nat /\ len \in Nat /\ prefix = min + 1 + len
      BY <2>1, <2>2, <2>3
    <3> QED
      BY <3>1
  <2>7. n = 0 /\ a = [kind |-> x.kind, ptr |-> p + 1, rlpLen |-> len]
    BY <2>2, <2>5, <2>6 DEF Says
  <2>8. EndOf(a) = p + 1 + len /\ a.ptr = p + 1 /\ a.kind = x.kind
    BY <1>4, <2>7 DEF EndOf, Extent
  <2>9. p + 1 + len = p + size /\ size - len = 1 /\ 1 + 0 <= size
    BY <2>2
  <2> QED
    BY <1>1, <2>1, <2>2, <2>7, <2>8, <2>9 DEF HeadSays
<1>5. CASE x.kind # "byte" /\ x.digits # <<>>
  <2>1. PICK min, max, d, prefix, len :
          /\ min = ShortMax(x.kind) /\ max = LongMax(x.kind)
          /\ d = Len(x.digits) /\ prefix = min + d /\ len = Len(x.content)
    OBVIOUS
  <2>2. /\ len \in Nat /\ d \in Nat /\ d > 0 /\ x.digits \in Seq(Byte)
        /\ prefix \in Byte /\ bytes[p + 1] = prefix
        /\ min < prefix /\ prefix <= max /\ size = 1 + d + len
        /\ \A j \in 1..d : Encode(x)[1 + j] = x.digits[j]
    <3>1. LongLayout(x, d, prefix)
      BY <1>5, <2>1, LongWritten
    <3> QED
      BY <1>2, <2>1, <3>1 DEF LongLayout
  <2>3. min \in Nat
    BY <2>1, PrefixRanges
  <2>4. LongForm(x.kind, min, max) /\ x.kind \in {"string", "list"}
    BY <1>5, <2>1, FormsOfKinds DEF WellFormed
  <2>5. d = prefix - min
    BY <2>1, <2>2, <2>3
  <2>6. /\ LengthBytes(prefix) = d
        /\ Says(bytes, p, x.kind, p + 1 + d,
                NumberOf(LengthDigits(bytes, p), d, Base))
    <3>1. /\ bytes[p + 1] \in Byte /\ min < bytes[p + 1]
          /\ bytes[p + 1] <= max /\ d = bytes[p + 1] - min
      BY <2>2, <2>5
    <3>2. LongSaid(bytes, p, x.kind, d)
      BY <2>4, <3>1, LongSays
    <3> QED
      BY <2>2, <3>2 DEF LongSaid
  <2>7. n = d /\ 1 + d <= size
    BY <2>2, <2>6
  <2>8. ASSUME k >= 1 + d
        PROVE  /\ a.kind = x.kind /\ EndOf(a) = p + size
               /\ a.ptr = p + (size - len)
    <3>1. ASSUME NEW j \in 1..d PROVE bytes[p + 1 + j] = x.digits[j]
      <4>1. 1 + j \in 1..k /\ p + (1 + j) = p + 1 + j
        BY <1>1, <2>2, <2>8
      <4> QED
        BY <2>2, <4>1
    <3>2. LengthDigits(bytes, p) = [j \in 1..d |-> bytes[p + 1 + j]]
      BY <2>2, <2>6 DEF LengthDigits
    <3>3. x.digits = [j \in 1..d |-> x.digits[j]]
      BY <2>1, <2>2
    <3>4. LengthDigits(bytes, p) = x.digits
      BY <3>1, <3>2, <3>3
    <3>5. NumberOf(x.digits, d, Base) = len
      BY <1>5, <2>1 DEF WellFormed
    <3>6. a = [kind |-> x.kind, ptr |-> p + 1 + d, rlpLen |-> len]
      BY <2>6, <3>4, <3>5 DEF Says
    <3>7. EndOf(a) = p + 1 + d + len /\ a.ptr = p + 1 + d /\ a.kind = x.kind
      BY <1>5, <3>6 DEF EndOf, Extent
    <3>8. p + 1 + d + len = p + size /\ p + 1 + d = p + (size - len)
      BY <2>2
    <3> QED
      BY <3>7, <3>8
  <2> QED
    BY <1>1, <2>1, <2>2, <2>7, <2>8 DEF HeadSays
<1> QED
  BY <1>3, <1>4, <1>5

(* All bytes of a written item announce it.                                *)
LEMMA WholeIsAnnounced ==
  ASSUME NEW bytes, NEW p \in Nat, NEW x, WellFormed(x),
         StandsAt(bytes, p, Encode(x)),
         NEW q, q = p + Len(Encode(x)),
         NEW a, a = Announced(bytes, p)
  PROVE  /\ p < q
         /\ p + 1 + LengthBytes(bytes[p + 1]) <= q
         /\ a.kind = x.kind /\ EndOf(a) = q
         /\ SubSeq(bytes, a.ptr + 1, EndOf(a)) = x.content
<1>1. PICK size, n : size = Len(Encode(x)) /\ n = LengthBytes(bytes[p + 1])
  OBVIOUS
<1>2. size \in Nat /\ size > 0
  BY <1>1, EncodedIsBytes
<1>3. size \in 1..size /\ \A j \in 1..size : bytes[p + j] = Encode(x)[j]
  BY <1>1, <1>2 DEF StandsAt
<1>4. /\ n \in Nat /\ 1 + n <= size
      /\ size >= 1 + n => /\ a.kind = x.kind
                          /\ EndOf(a) = p + size
                          /\ a.ptr = p + (size - Len(x.content))
  <2>1. HeadSays(p, x, size, size, n, a)
    BY <1>1, <1>3, WrittenIsAnnounced
  <2> QED
    BY <2>1 DEF HeadSays
<1>5. /\ a.kind = x.kind /\ EndOf(a) = q
      /\ a.ptr = p + (size - Len(x.content))
      /\ p + 1 + n <= q /\ p < q
  <2>1. size >= 1 + n /\ q = p + size
    BY <1>1, <1>2, <1>4
  <2>2. p + 1 + n <= q /\ p < q
    BY <1>2, <1>4, <2>1
  <2> QED
    BY <1>4, <2>1, <2>2
<1>6. PICK c, r : c = x.content /\ r = size - Len(c)
  OBVIOUS
<1>7. /\ c \in Seq(Byte) /\ Len(c) \in Nat
      /\ r \in Nat /\ r + Len(c) = size
      /\ \A j \in 1..Len(c) : Encode(x)[r + j] = c[j]
  <2>1. CASE x.kind = "byte"
    <3>1. Encode(x) = c /\ Len(Encode(x)) = 1 /\ c \in Seq(Byte)
      BY <1>6, <2>1, ByteWritten
    <3>2. r = 0 /\ size = Len(c)
      BY <1>1, <1>6, <3>1
    <3> QED
      BY <3>1, <3>2
  <2>2. CASE x.kind # "byte" /\ x.digits = <<>>
    <3>1. /\ Len(c) \in Nat /\ c \in Seq(Byte) /\ Len(Encode(x)) = 1 + Len(c)
          /\ \A j \in 1..Len(c) : Encode(x)[1 + j] = c[j]
      BY <1>6, <2>2, ShortWritten
    <3>2. r = 1
      BY <1>1, <1>6, <3>1
    <3> QED
      BY <1>1, <3>1, <3>2
  <2>3. CASE x.kind # "byte" /\ x.digits # <<>>
    <3>1. PICK d, prefix : d = Len(x.digits) /\ prefix = ShortMax(x.kind) + d
      OBVIOUS
    <3>2. /\ Len(c) \in Nat /\ c \in Seq(Byte) /\ d \in Nat
          /\ Len(Encode(x)) = 1 + d + Len(c)
          /\ \A j \in 1..Len(c) : Encode(x)[1 + d + j] = c[j]
      <4>1. LongLayout(x, d, prefix)
        BY <2>3, <3>1, LongWritten
      <4> QED
        BY <1>6, <4>1 DEF LongLayout
    <3>3. r = 1 + d /\ r \in Nat /\ r + Len(c) = size
      BY <1>1, <1>6, <3>2
    <3> QED
      BY <3>2, <3>3
  <2> QED
    BY <2>1, <2>2, <2>3
<1>8. PICK f : f = p + r
  OBVIOUS
<1>9. f \in Nat /\ q = f + Len(c) /\ a.ptr = f
  BY <1>1, <1>5, <1>6, <1>7, <1>8
<1>10. StandsAt(bytes, f, c)
  <2>1. ASSUME NEW j \in 1..Len(c) PROVE bytes[f + j] = c[j]
    <3>1. r + j \in 1..size /\ p + (r + j) = f + j
      BY <1>7, <1>8
    <3> QED
      BY <1>3, <1>7, <3>1
  <2> QED
    BY <2>1 DEF StandsAt
<1>11. SubSeq(bytes, f + 1, q) = c
  BY <1>7, <1>9, <1>10, BytesBehind
<1> QED
  BY <1>1, <1>5, <1>6, <1>9, <1>11

LEMMA BytesAreShort ==
  ASSUME NEW bytes, NEW p \in Nat, bytes[p + 1] \in Byte,
         Announced(bytes, p).kind = "byte"
  PROVE  bytes[p + 1] <= BytePrefix
<1>1. PICK x : x = bytes[p + 1] /\ x \in Nat /\ x <= ListLong
  BY RlpAssumption DEF Byte, ListLong
<1>2. \/ x <= BytePrefix
      \/ BytePrefix < x /\ x <= StringShort
      \/ StringShort < x /\ x <= StringLong
      \/ StringLong < x /\ x <= ListShort
      \/ ListShort < x /\ x <= ListLong
  BY <1>1, RlpAssumption
<1>3. ASSUME NEW kind \in {"string", "list"}, NEW min, NEW max,
             ShortForm(kind, min, max), min < x, x <= max
      PROVE  FALSE
  BY <1>1, <1>3, ShortSays DEF Says
<1>4. ASSUME NEW kind \in {"string", "list"}, NEW min, NEW max,
             LongForm(kind, min, max), min < x, x <= max
      PROVE  FALSE
  <2>1. PICK n : n = x - min
    OBVIOUS
  <2> QED
    BY <1>1, <1>4, <2>1, LongSays DEF LongSaid, Says
<1>5. /\ ShortForm("string", BytePrefix, StringShort)
      /\ ShortForm("list", StringLong, ListShort)
      /\ LongForm("string", StringShort, StringLong)
      /\ LongForm("list", ListShort, ListLong)
  BY DEF ShortForm, LongForm
<1> QED
  BY <1>1, <1>2, <1>3, <1>4, <1>5

(* An item that is cut off announces bytes that are not there.             *)
LEMMA CutOffIsAnnounced ==
  ASSUME NEW bytes, NEW p \in Nat, NEW tail, CutOff(tail),
         StandsAt(bytes, p, tail),
         NEW a \in Items, a = Announced(bytes, p)
  PROVE  EndOf(a) > p + Len(tail)
<1>1. PICK x \in Writable : \E k \in 1..(Len(Encode(x)) - 1) :
                               tail = SubSeq(Encode(x), 1, k)
  BY DEF CutOff
<1>2. PICK k \in 1..(Len(Encode(x)) - 1) : tail = SubSeq(Encode(x), 1, k)
  BY <1>1
<1>3. WellFormed(x)
  BY SourceAssumption
<1>4. PICK w, size : w = Encode(x) /\ size = Len(w)
  OBVIOUS
<1>5. w \in Seq(Byte) /\ size \in Nat /\ size > 0 /\ k \in 1..(size - 1)
  BY <1>3, <1>4, EncodedIsBytes
<1>6. Len(tail) = k /\ \A j \in 1..k : tail[j] = w[j]
  BY <1>2, <1>4, <1>5
<1>7. k \in 1..size /\ k < size /\ \A j \in 1..k : bytes[p + j] = w[j]
  BY <1>5, <1>6 DEF StandsAt
<1>8. PICK n : n = LengthBytes(bytes[p + 1])
  OBVIOUS
<1>9. /\ n \in Nat /\ bytes[p + 1] \in Byte
      /\ k >= 1 + n => EndOf(a) = p + size
  <2>1. \A j \in 1..k : bytes[p + j] = Encode(x)[j]
    BY <1>4, <1>7
  <2>2. size = Len(Encode(x))
    BY <1>4
  <2>3. bytes[p + 1] \in Byte /\ HeadSays(p, x, size, k, n, a)
    BY <1>3, <1>7, <1>8, <2>1, <2>2, WrittenIsAnnounced
  <2> QED
    BY <2>3 DEF HeadSays
<1>10. CASE k >= 1 + n
  BY <1>5, <1>6, <1>7, <1>9, <1>10
<1>11. CASE ~(k >= 1 + n)
  <2>1. a.rlpLen \in Nat /\ a.ptr \in Nat
    BY DEF Items
  <2>2. CASE a.kind = "byte"
    <3>1. bytes[p + 1] <= BytePrefix
      BY <1>9, <2>2, BytesAreShort
    <3>2. n = 0
      BY <1>8, <1>9, <3>1, ByteSays
    <3> QED
      BY <1>5, <1>11, <3>2
  <2>3. CASE a.kind # "byte"
    <3>1. a.ptr = p + 1 + n
      BY <1>8, <1>9, <2>3, PrefixBefore
    <3>2. EndOf(a) = p + 1 + n + a.rlpLen
      BY <2>3, <3>1 DEF EndOf, Extent
    <3> QED
      BY <1>5, <1>6, <1>9, <1>11, <2>1, <3>2
  <2> QED
    BY <2>2, <2>3
<1> QED
  BY <1>10, <1>11

-----------------------------------------------------------------------------
(* Reading what was written. *)

(* The items of a source stand in the bytes one behind the other, e[i] is  *)
(* where the i-th ends, and the tail is the rest.                          *)
Laid(e, items, n, tail, bytes) ==
  /\ e \in [0..n -> Nat] /\ e[0] = 0
  /\ \A i \in 1..n : /\ WellFormed(items[i])
                     /\ StandsAt(bytes, e[i - 1], Encode(items[i]))
                     /\ e[i] = e[i - 1] + Len(Encode(items[i]))
                     /\ e[i - 1] < e[i]
  /\ \A i \in 0..n : e[i] <= e[n]
  /\ tail \in Seq(Byte) /\ Len(tail) \in Nat
  /\ StandsAt(bytes, e[n], tail)
  /\ Len(bytes) = e[n] + Len(tail)
  /\ tail = <<>> \/ CutOff(tail)

LEMMA TailIsBytes ==
  ASSUME NEW tail, tail = <<>> \/ CutOff(tail)
  PROVE  tail \in Seq(Byte) /\ Len(tail) \in Nat
<1>1. CASE tail = <<>>
  BY <1>1
<1>2. CASE CutOff(tail)
  <2>1. PICK x \in Writable : \E k \in 1..(Len(Encode(x)) - 1) :
                                 tail = SubSeq(Encode(x), 1, k)
    BY <1>2 DEF CutOff
  <2>2. PICK k \in 1..(Len(Encode(x)) - 1) : tail = SubSeq(Encode(x), 1, k)
    BY <2>1
  <2>3. WellFormed(x)
    BY SourceAssumption
  <2>4. PICK w : w = Encode(x)
    OBVIOUS
  <2>5. w \in Seq(Byte) /\ k \in 1..(Len(w) - 1) /\ tail = SubSeq(w, 1, k)
    BY <2>2, <2>3, <2>4, EncodedIsBytes
  <2> QED
    BY <2>5
<1> QED
  BY <1>1, <1>2

LEMMA FunctionsAreSequences ==
  ASSUME NEW S, NEW n \in Nat, NEW f \in [1..n -> S]
  PROVE  f \in Seq(S) /\ Len(f) = n /\ (f = <<>> <=> n = 0)
<1>1. f \in Seq(S)
  OBVIOUS
<1>2. Len(f) = n
  BY <1>1
<1> QED
  BY <1>1, <1>2

LEMMA WrittenIsLaid ==
  ASSUME NEW s \in Sources, NEW n, n = Len(s.items)
  PROVE  n \in Nat /\ \E e : Laid(e, s.items, n, s.tail, Written(s))
<1>1. /\ s.items \in Seq(Writable) /\ n \in Nat
      /\ s.tail = <<>> \/ CutOff(s.tail)
  BY SourceAssumption
<1>2. \A i \in 1..n : WellFormed(s.items[i])
  BY <1>1, SourceAssumption
<1>3. PICK seqs : seqs = [i \in 1..n |-> Encode(s.items[i])]
  OBVIOUS
<1>4. \A i \in 1..n : /\ seqs[i] = Encode(s.items[i])
                      /\ seqs[i] \in Seq(Byte)
                      /\ Len(seqs[i]) \in Nat /\ Len(seqs[i]) > 0
  BY <1>2, <1>3, EncodedIsBytes
<1>5. Len(seqs) = n /\ (seqs = <<>> <=> n = 0)
  <2>1. seqs \in [1..n -> Seq(Byte)]
    BY <1>3, <1>4
  <2> QED
    BY <1>1, <2>1, FunctionsAreSequences
<1>6. PICK flat : flat = FlattenSeq(seqs)
  OBVIOUS
<1>7. flat \in Seq(Byte) /\ \E e : Ends(e, seqs, n, flat)
  BY <1>1, <1>4, <1>5, <1>6, FlattenedEnds
<1>8. PICK e : Ends(e, seqs, n, flat)
  BY <1>7
<1>9. PICK tail : tail = s.tail
  OBVIOUS
<1>10. tail \in Seq(Byte) /\ Len(tail) \in Nat
  BY <1>1, <1>9, TailIsBytes
<1>11. PICK bytes : bytes = flat \o tail
  OBVIOUS
<1>12. bytes = Written(s)
  BY <1>3, <1>6, <1>9, <1>11, <1>1 DEF Written, EncodeAll
<1>13. /\ Len(flat) \in Nat
       /\ Len(bytes) = Len(flat) + Len(tail)
       /\ \A j \in 1..Len(flat) : bytes[j] = flat[j]
       /\ \A j \in 1..Len(tail) : bytes[Len(flat) + j] = tail[j]
  BY <1>7, <1>10, <1>11, Joined
<1>14. /\ e \in [0..n -> Nat] /\ e[0] = 0 /\ e[n] = Len(flat)
       /\ \A i \in 1..n : e[i] = e[i - 1] + Len(seqs[i])
       /\ \A i \in 0..n : e[i] <= e[n]
       /\ \A i \in 1..n : \A j \in 1..Len(seqs[i]) :
             flat[e[i - 1] + j] = seqs[i][j]
  BY <1>8 DEF Ends
<1>15. ASSUME NEW i \in 1..n
       PROVE  /\ StandsAt(bytes, e[i - 1], Encode(s.items[i]))
              /\ e[i] = e[i - 1] + Len(Encode(s.items[i]))
              /\ e[i - 1] < e[i]
  <2>1. i - 1 \in 0..n /\ i \in 0..n
    BY <1>1
  <2>2. PICK p, q, size, end : /\ p = e[i - 1] /\ q = e[i]
                               /\ size = Len(seqs[i]) /\ end = e[n]
    OBVIOUS
  <2>3. /\ p \in Nat /\ q \in Nat /\ size \in Nat /\ end \in Nat
        /\ size > 0 /\ q = p + size /\ q <= end
    <3>1. n \in 0..n
      BY <1>1
    <3> QED
      BY <1>4, <1>14, <2>1, <2>2, <3>1
  <2>4. ASSUME NEW j \in 1..size PROVE bytes[p + j] = seqs[i][j]
    <3>1. p + j \in 1..end
      BY <2>3
    <3> QED
      BY <1>13, <1>14, <2>2, <3>1
  <2>5. p < q
    BY <2>3
  <2> QED
    BY <1>4, <2>2, <2>3, <2>4, <2>5 DEF StandsAt
<1>16. StandsAt(bytes, e[n], tail)
  BY <1>13, <1>14 DEF StandsAt
<1>17. Laid(e, s.items, n, tail, bytes)
  <2>1. Len(bytes) = e[n] + Len(tail)
    BY <1>13, <1>14
  <2>2. tail = <<>> \/ CutOff(tail)
    BY <1>1, <1>9
  <2> QED
    BY <1>2, <1>10, <1>14, <1>15, <1>16, <2>1, <2>2 DEF Laid
<1> QED
  BY <1>1, <1>9, <1>12, <1>17

(* An item that begins where one was written is that one.                  *)
LEMMA WrittenItem ==
  ASSUME AllAnnounced, NEW items, NEW n \in Nat, NEW tail, NEW e,
         Laid(e, items, n, tail, buffer),
         NEW i \in 1..n, i \in DOMAIN rlp, BeginsAt(i) = e[i - 1]
  PROVE  /\ rlp[i].kind = items[i].kind
         /\ EndOf(rlp[i]) = e[i]
         /\ SubSeq(buffer, rlp[i].ptr + 1, EndOf(rlp[i])) = items[i].content
<1>1. PICK p, q, x, a : /\ p = e[i - 1] /\ q = e[i]
                        /\ x = items[i] /\ a = rlp[i]
  OBVIOUS
<1>2. /\ p \in Nat /\ WellFormed(x) /\ StandsAt(buffer, p, Encode(x))
      /\ q = p + Len(Encode(x))
  <2>1. i - 1 \in 0..n
    OBVIOUS
  <2> QED
    BY <1>1, <2>1 DEF Laid
<1>3. a = Announced(buffer, p)
  BY <1>1 DEF AllAnnounced
<1>4. /\ a.kind = x.kind /\ EndOf(a) = q
      /\ SubSeq(buffer, a.ptr + 1, EndOf(a)) = x.content
  BY <1>2, <1>3, WholeIsAnnounced
<1> QED
  BY <1>1, <1>4

(* Item by item, reading keeps to where the items were written.            *)
LEMMA BeginsWhereWritten ==
  ASSUME TypeOK, AllAnnounced, start = 0,
         NEW items, NEW n \in Nat, NEW tail, NEW e,
         Laid(e, items, n, tail, buffer)
  PROVE  \A m \in Nat : m <= n /\ m <= Len(rlp) => BeginsAt(m + 1) = e[m]
<1>1. Len(rlp) \in Nat /\ DOMAIN rlp = 1..Len(rlp)
  BY DEF TypeOK
<1>2. ASSUME NEW i \in 1..n, i \in DOMAIN rlp, BeginsAt(i) = e[i - 1]
      PROVE  BeginsAt(i + 1) = e[i]
  <2>1. EndOf(rlp[i]) = e[i]
    <3>1. /\ rlp[i].kind = items[i].kind
          /\ EndOf(rlp[i]) = e[i]
          /\ SubSeq(buffer, rlp[i].ptr + 1, EndOf(rlp[i])) = items[i].content
      BY <1>2, WrittenItem
    <3> QED
      BY <3>1
  <2>2. i + 1 # 1 /\ (i + 1) - 1 = i
    OBVIOUS
  <2> QED
    BY <2>1, <2>2 DEF BeginsAt
<1> DEFINE S == {m \in Nat : m <= n /\ m <= Len(rlp) => BeginsAt(m + 1) = e[m]}
<1>3. 0 \in S
  BY DEF BeginsAt, Laid
<1>4. ASSUME NEW m \in S PROVE m + 1 \in S
  <2> SUFFICES ASSUME m + 1 <= n, m + 1 <= Len(rlp)
               PROVE  BeginsAt((m + 1) + 1) = e[m + 1]
    OBVIOUS
  <2>1. m \in Nat /\ m <= n /\ m <= Len(rlp)
    BY <1>1
  <2>2. PICK i : i = m + 1
    OBVIOUS
  <2>3. i \in 1..n /\ i \in DOMAIN rlp /\ i - 1 = m
    BY <1>1, <2>1, <2>2
  <2>4. BeginsAt(i) = e[i - 1]
    BY <2>1, <2>2, <2>3
  <2>5. BeginsAt(i + 1) = e[i]
    BY <1>2, <2>3, <2>4
  <2> QED
    BY <2>2, <2>5
<1>5. S \subseteq Nat
  OBVIOUS
<1>6. S = Nat
  <2> HIDE DEF S
  <2> QED
    BY <1>3, <1>4, <1>5, Naturals
<1> QED
  BY <1>6

(* Nothing is read out of the tail.                                        *)
LEMMA NoMoreThanWritten ==
  ASSUME TypeOK, InBounds, AllAnnounced, start = 0,
         NEW items, NEW n \in Nat, NEW tail, NEW e,
         Laid(e, items, n, tail, buffer)
  PROVE  Len(rlp) <= n
<1>1. Len(rlp) \in Nat /\ DOMAIN rlp = 1..Len(rlp) /\ rlp \in Seq(Items)
  BY DEF TypeOK, Items
<1> SUFFICES ASSUME ~(Len(rlp) <= n) PROVE FALSE
  OBVIOUS
<1>2. n + 1 \in DOMAIN rlp /\ n <= Len(rlp) /\ n \in 0..n /\ n <= n
  BY <1>1
<1>3. BeginsAt(n + 1) = e[n]
  BY <1>2, BeginsWhereWritten
<1>4. PICK p, size, a, all : /\ p = e[n] /\ size = Len(tail)
                             /\ a = rlp[n + 1] /\ all = Len(buffer)
  OBVIOUS
<1>5. /\ p \in Nat /\ size \in Nat /\ all = p + size
      /\ StandsAt(buffer, p, tail) /\ (tail = <<>> \/ CutOff(tail))
  BY <1>2, <1>4 DEF Laid
<1>6. a \in Items /\ a = Announced(buffer, p) /\ p + 1 \in 1..all
  BY <1>1, <1>2, <1>3, <1>4, BeginsInside DEF AllAnnounced
<1>7. EndOf(a) <= all /\ EndOf(a) \in Nat
  <2>1. /\ EndOf(a) <= start + offset /\ EndOf(a) \in Nat
        /\ offset <= bufferLen /\ start + bufferLen <= all
    BY <1>2, <1>4, <1>6, ItemNumbers DEF InBounds
  <2>2. offset \in Nat /\ bufferLen \in Nat /\ all \in Nat
    BY <1>5 DEF TypeOK
  <2> QED
    BY <2>1, <2>2
<1>8. CASE tail = <<>>
  <2>1. size = 0
    BY <1>4, <1>8
  <2> QED
    BY <1>5, <1>6, <2>1
<1>9. CASE CutOff(tail)
  <2>1. EndOf(a) > p + size
    BY <1>4, <1>5, <1>6, <1>9, CutOffIsAnnounced
  <2> QED
    BY <1>5, <1>7, <2>1
<1> QED
  BY <1>5, <1>8, <1>9

LEMMA LengthBytesNumber ==
  ASSUME NEW b \in Byte
  PROVE  LengthBytes(b) \in Nat
  BY RlpAssumption DEF LengthBytes, Byte, ListLong

(* The reader ends at the end of what was written or where the room ends,  *)
(* and gives up exactly before a tail there is room for.                   *)
LEMMA EndsWhereWritten ==
  ASSUME TypeOK, InBounds, Reading, start = 0, pc \in {"ok", "buffer_end"},
         NEW items, NEW n \in Nat, NEW tail, NEW e,
         Laid(e, items, n, tail, buffer),
         NEW k, k = Len(rlp), NEW m, m = maxFields
  PROVE  /\ k \in Nat /\ m \in Nat /\ k <= n /\ k <= m
         /\ k = n \/ k = m
         /\ pc = "buffer_end" <=> tail # <<>> /\ n < m
<1>1. k \in Nat /\ m \in Nat /\ AllAnnounced /\ Following /\ RoomLeft
  BY RlpAssumption DEF TypeOK, Reading, Following
<1>2. k <= n /\ k <= m
  BY <1>1, NoMoreThanWritten DEF RoomLeft
<1>3. NextItem = e[k]
  <2>1. k <= n /\ k <= Len(rlp) => BeginsAt(k + 1) = e[k]
    BY <1>1, BeginsWhereWritten
  <2>2. k <= Len(rlp)
    BY <1>1
  <2> QED
    BY <1>2, <2>1, <2>2 DEF NextItem
<1>4. PICK p, size, last, all : /\ p = e[k] /\ size = Len(tail)
                                /\ last = e[n] /\ all = Len(buffer)
  OBVIOUS
<1>5. /\ p \in Nat /\ last \in Nat /\ size \in Nat
      /\ p <= last /\ all = last + size
      /\ k = n => p = last
  <2>1. k \in 0..n /\ n \in 0..n
    BY <1>1, <1>2
  <2> QED
    BY <1>4, <2>1 DEF Laid
<1>6. start + bufferLen = all
  <2>1. bufferLen = all
    BY <1>4 DEF Reading, OutermostWindow
  <2> QED
    BY <1>5, <2>1
<1>7. ASSUME k < n
      PROVE  /\ p < all
             /\ p + 1 + LengthBytes(buffer[p + 1]) <= all
             /\ EndOf(Announced(buffer, p)) <= all
             /\ LengthBytes(buffer[p + 1]) \in Nat
             /\ EndOf(Announced(buffer, p)) \in Nat
  <2>1. k + 1 \in 1..n /\ (k + 1) - 1 = k /\ k + 1 \in 0..n
    BY <1>1, <1>7
  <2>2. PICK q, x, c : /\ q = e[k + 1] /\ x = items[k + 1]
                       /\ c = LengthBytes(buffer[p + 1])
    OBVIOUS
  <2>3. /\ WellFormed(x) /\ StandsAt(buffer, p, Encode(x))
        /\ q = p + Len(Encode(x)) /\ q \in Nat /\ q <= last
    BY <1>4, <2>1, <2>2 DEF Laid
  <2>4. /\ p < q /\ p + 1 + LengthBytes(buffer[p + 1]) <= q
        /\ EndOf(Announced(buffer, p)) = q
    BY <1>5, <2>3, WholeIsAnnounced
  <2>5. q <= all
    BY <1>5, <2>3
  <2>6. p < all
    BY <1>5, <2>3, <2>4, <2>5
  <2>7. c \in Nat
    <3>1. buffer \in Seq(Byte)
      BY RlpAssumption DEF TypeOK
    <3>2. p + 1 \in 1..all
      BY <1>5, <2>6
    <3>3. p + 1 \in 1..Len(buffer)
      BY <1>4, <3>2
    <3>4. buffer[p + 1] \in Byte
      BY <3>1, <3>3
    <3> QED
      BY <2>2, <3>4, LengthBytesNumber
  <2>8. p + 1 + c <= all
    <3>1. p + 1 + c <= q
      BY <2>2, <2>4
    <3>2. all \in Nat
      BY <1>5
    <3> QED
      BY <1>5, <2>3, <2>5, <2>7, <3>1, <3>2
  <2> QED
    BY <2>2, <2>3, <2>4, <2>5, <2>6, <2>7, <2>8
<1>8. size = 0 <=> tail = <<>>
  BY <1>4 DEF Laid
<1>9. CASE pc = "ok"
  <2>1. p = all \/ k = m
    <3>1. NextItem = start + bufferLen \/ Len(rlp) = maxFields
      BY <1>1, <1>9 DEF RoomLeft
    <3> QED
      BY <1>3, <1>4, <1>6, <3>1
  <2>2. CASE k = m
    BY <1>1, <1>2, <1>9, <2>2
  <2>3. CASE p = all
    <3>1. k = n
      BY <1>1, <1>2, <1>5, <1>7, <2>3
    <3>2. tail = <<>>
      BY <1>5, <1>8, <2>3
    <3> QED
      BY <1>1, <1>2, <1>9, <3>1, <3>2
  <2> QED
    BY <2>1, <2>2, <2>3
<1>10. CASE pc = "buffer_end"
  <2>1. /\ p < all /\ k < m
        /\ \/ p + 1 + LengthBytes(buffer[p + 1]) > all
           \/ EndOf(Announced(buffer, p)) > all
    <3>1. NextItem < start + bufferLen /\ Len(rlp) < maxFields
      BY <1>1, <1>10 DEF RoomLeft
    <3>2. GivesUpRightly
      BY <1>1, <1>10 DEF Following
    <3>3. \/ NextItem + 1 + LengthBytes(buffer[NextItem + 1]) > start + bufferLen
          \/ EndOf(Announced(buffer, NextItem)) > start + bufferLen
      BY <3>2, Zenon DEF GivesUpRightly
    <3> QED
      BY <1>3, <1>4, <1>6, <3>1, <3>3
  <2>2. k = n
    <3>1. SUFFICES ASSUME k < n PROVE FALSE
      BY <1>1, <1>2
    <3>2. PICK c, d : /\ c = LengthBytes(buffer[p + 1])
                      /\ d = EndOf(Announced(buffer, p))
      OBVIOUS
    <3>3. c \in Nat /\ d \in Nat /\ p + 1 + c <= all /\ d <= all
      BY <1>7, <3>1, <3>2
    <3>4. p + 1 + c > all \/ d > all
      BY <2>1, <3>2
    <3> QED
      BY <1>5, <3>3, <3>4
  <2>3. tail # <<>>
    BY <1>5, <1>8, <2>1, <2>2
  <2> QED
    BY <1>1, <1>2, <1>10, <2>1, <2>2, <2>3
<1> QED
  BY <1>9, <1>10

LEMMA ReadBack == Inv /\ Reading => ReadsWhatWasWritten
<1> SUFFICES ASSUME TypeOK, InBounds, Reading, start = 0,
                    pc \in {"ok", "buffer_end"},
                    NEW s \in Sources, Written(s) = buffer,
                    NEW k, k = IF Len(s.items) < maxFields
                               THEN Len(s.items) ELSE maxFields
             PROVE  /\ Len(rlp) = k
                    /\ \A i \in 1..k :
                          /\ rlp[i].kind = s.items[i].kind
                          /\ SubSeq(buffer, rlp[i].ptr + 1, EndOf(rlp[i]))
                               = s.items[i].content
                    /\ (pc = "buffer_end") <=>
                         (s.tail # <<>> /\ Len(s.items) < maxFields)
  BY Zenon DEF Inv, ReadsWhatWasWritten
<1>1. PICK items, tail, n, m, l : /\ items = s.items /\ tail = s.tail
                                  /\ n = Len(s.items) /\ m = maxFields
                                  /\ l = Len(rlp)
  OBVIOUS
<1>2. n \in Nat /\ \E e : Laid(e, items, n, tail, buffer)
  BY <1>1, WrittenIsLaid
<1>3. PICK e : Laid(e, items, n, tail, buffer)
  BY <1>2
<1>4. /\ l \in Nat /\ m \in Nat /\ l <= n /\ l <= m
      /\ l = n \/ l = m
      /\ pc = "buffer_end" <=> tail # <<>> /\ n < m
  BY <1>1, <1>2, <1>3, EndsWhereWritten
<1>5. l = k
  BY <1>1, <1>2, <1>4
<1>6. ASSUME NEW i \in 1..l
      PROVE  /\ rlp[i].kind = items[i].kind
             /\ SubSeq(buffer, rlp[i].ptr + 1, EndOf(rlp[i]))
                  = items[i].content
  <2>1. /\ i \in 1..n /\ i \in DOMAIN rlp
        /\ i - 1 \in Nat /\ i - 1 <= n /\ i - 1 <= Len(rlp)
        /\ (i - 1) + 1 = i
    <3>1. DOMAIN rlp = 1..Len(rlp)
      BY DEF TypeOK
    <3>2. i \in 1..l /\ l <= n /\ l \in Nat /\ n \in Nat
      BY <1>2, <1>4
    <3>3. i \in 1..n /\ i - 1 \in Nat /\ i - 1 <= n /\ i - 1 <= l
      BY <3>2
    <3>4. (i - 1) + 1 = i
      BY <3>2
    <3> QED
      BY <1>1, <3>1, <3>3, <3>4
  <2>2. AllAnnounced
    BY DEF Reading, Following
  <2>3. BeginsAt(i) = e[i - 1]
    <3>1. PICK j : j = i - 1
      OBVIOUS
    <3>2. j \in Nat /\ j <= n /\ j <= Len(rlp) /\ j + 1 = i
      BY <2>1, <3>1
    <3>3. BeginsAt(j + 1) = e[j]
      BY <1>2, <1>3, <2>2, <3>2, BeginsWhereWritten
    <3> QED
      BY <3>1, <3>2, <3>3
  <2> QED
    BY <1>2, <1>3, <2>1, <2>2, <2>3, WrittenItem
<1> QED
  BY <1>1, <1>4, <1>5, <1>6

(* Whatever items an encoder writes, as many as there are and in any of    *)
(* the forms that RLP allows, the reader finds these items and their       *)
(* contents again, up to the room it is given, and gives up only if the    *)
(* last one was cut off and there is room for it.                          *)
THEOREM WrittenIsReadBack == Spec => []ReadsWhatWasWritten
  BY InvAlways, ReadingAlways, ReadBack, PTL
==============================================================================
