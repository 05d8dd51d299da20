--------------------------- MODULE TxParserProofs ---------------------------
(***************************************************************************)
(* Proofs about the transaction parser for all the texts a reader can find:*)
(* whatever the static tx_obj still holds of refused texts, what is shown  *)
(* was read from the text that will be signed, and what was validated can  *)
(* be shown.                                                               *)
(***************************************************************************)
EXTENDS TxParser, SequenceTheorems, TLAPS

AnItem == RlpItem \cup {Cleared}

TxObjects ==
  [fields             : [1..MANTX_ROOTFIELD_COUNT -> AnItem],
   extraFields        : [1..MANTX_EXTRAFIELD_COUNT -> AnItem],
   extraToListFields  : [1..MANTX_EXTRALISTFIELD_COUNT -> AnItem],
   extraToFieldsItems : 0..MANTX_EXTRALISTFIELD_COUNT,
   extraTxType        : 0..255]

Typed ==
  /\ text \in Seq(RlpItem)
  /\ tx_obj \in TxObjects
  /\ pc \in {"root", "extra", "txtype", "recipients", "inner", "validate",
             "rejected", "review"}

(* What has been read when tx_parse has come so far.                       *)
PastInner      == {"validate", "review"}
PastRecipients == {"inner"} \cup PastInner
PastExtra      == {"txtype", "recipients"} \cup PastRecipients
PastRoot       == {"extra"} \cup PastExtra

RootRead ==
  pc \in PastRoot =>
    /\ Len(text) = 1
    /\ \A i \in 1..MANTX_ROOTFIELD_COUNT :
         i \in DOMAIN RootOf /\ tx_obj.fields[i] = RootOf[i]

ExtraRead ==
  pc \in PastExtra =>
    \A i \in 1..MANTX_EXTRAFIELD_COUNT :
      i \in DOMAIN ExtraOf /\ tx_obj.extraFields[i] = ExtraOf[i]

NoneCounted ==
  pc \in {"root", "extra", "txtype", "recipients"} =>
    tx_obj.extraToFieldsItems = 0

RecipientsRead ==
  pc \in PastRecipients =>
    \A i \in 1..tx_obj.extraToFieldsItems :
      i \in DOMAIN RecipientsOf /\ tx_obj.extraToListFields[i] = RecipientsOf[i]

RecipientsWhole ==
  pc \in PastInner =>
    \A i \in 1..tx_obj.extraToFieldsItems :
      WholeRecipient(tx_obj.extraToListFields[i])

Validated ==
  pc = "review" =>
    \A idx \in 0..(NumItems - 1) : GetItem(idx, TmpLen).err = "ok"

Inv ==
  /\ Typed
  /\ RootRead
  /\ ExtraRead
  /\ NoneCounted
  /\ RecipientsRead
  /\ RecipientsWhole
  /\ Validated

-----------------------------------------------------------------------------
(* The helpers. *)

LEMMA ItemFacts ==
  ASSUME NEW x \in AnItem
  PROVE  /\ x.digits \in Nat /\ x.rlpLen \in Nat
         /\ x.low \in 0..255
         /\ x.items \in Seq(AnItem)
<1>1. CASE x \in RlpItem
  <2>1. x.items \in Seq(RlpItem)
    BY <1>1, ItemAssumption
  <2>2. x.digits \in Nat /\ x.low \in 0..255
    BY <1>1, ItemAssumption
  <2>3. x.rlpLen \in Nat
    BY <1>1, ItemAssumption
  <2> QED
    BY <2>1, <2>2, <2>3 DEF AnItem
<1>2. CASE x = Cleared
  BY <1>2 DEF Cleared, Item
<1> QED
  BY <1>1, <1>2 DEF AnItem

LEMMA ItemsReadCounts ==
  ASSUME NEW list \in AnItem, NEW max \in Nat
  PROVE  /\ ItemsRead(list, max) \in 0..max
         /\ \A i \in 1..ItemsRead(list, max) :
              i \in DOMAIN list.items /\ list.items[i] \in AnItem
<1>1. list.items \in Seq(AnItem)
  BY ItemFacts
<1>2. Len(list.items) \in Nat
  BY <1>1
<1>3. ItemsRead(list, max) \in 0..max /\ ItemsRead(list, max) <= Len(list.items)
  BY <1>2 DEF ItemsRead
<1> QED
  BY <1>1, <1>3

LEMMA ReadIntoTyped ==
  ASSUME NEW n \in Nat, NEW f \in [1..n -> AnItem], NEW list \in AnItem
  PROVE  /\ Len(f) = n
         /\ ReadInto(f, list) \in [1..n -> AnItem]
         /\ \A i \in 1..ItemsRead(list, n) :
              i \in 1..n /\ ReadInto(f, list)[i] = list.items[i]
<1>1. Len(f) = n
  BY SMT
<1>2. ItemsRead(list, n) \in 0..n
  BY ItemsReadCounts
<1>3. \A i \in 1..ItemsRead(list, n) : list.items[i] \in AnItem
  BY ItemsReadCounts
<1>4. ReadInto(f, list) = [i \in 1..n |-> IF i <= ItemsRead(list, n)
                                          THEN list.items[i] ELSE f[i]]
  BY <1>1 DEF ReadInto
<1> QED
  BY <1>1, <1>2, <1>3, <1>4

LEMMA FirstOfTwo ==
  ASSUME NEW a, NEW b
  PROVE  FirstError(<<a, b>>) = "ok" <=> a = "ok" /\ b = "ok"
<1> DEFINE errs == <<a, b>>
           Bad  == {i \in DOMAIN errs : errs[i] # "ok"}
<1>1. CASE a = "ok" /\ b = "ok"
  <2>1. Bad = {}
    BY <1>1
  <2> QED
    BY <1>1, <2>1 DEF FirstError
<1>2. CASE ~(a = "ok" /\ b = "ok")
  <2>1. \E i \in Bad : \A j \in Bad : i <= j
    <3>1. CASE a # "ok"
      BY <3>1
    <3>2. CASE a = "ok"
      BY <1>2, <3>2
    <3> QED
      BY <3>1, <3>2
  <2>2. PICK i \in Bad : i = CHOOSE k \in Bad : \A j \in Bad : k <= j
    BY <2>1
  <2>3. FirstError(errs) = errs[i]
    BY <2>2 DEF FirstError
  <2> QED
    BY <1>2, <2>2, <2>3
<1> QED
  BY <1>1, <1>2

LEMMA FirstOfThree ==
  ASSUME NEW a, NEW b, NEW c
  PROVE  FirstError(<<a, b, c>>) = "ok" <=> a = "ok" /\ b = "ok" /\ c = "ok"
<1> DEFINE errs == <<a, b, c>>
           Bad  == {i \in DOMAIN errs : errs[i] # "ok"}
<1>1. CASE a = "ok" /\ b = "ok" /\ c = "ok"
  <2>1. Bad = {}
    BY <1>1
  <2> QED
    BY <1>1, <2>1 DEF FirstError
<1>2. CASE ~(a = "ok" /\ b = "ok" /\ c = "ok")
  <2>1. \E i \in Bad : \A j \in Bad : i <= j
    <3>1. CASE a # "ok"
      BY <3>1
    <3>2. CASE a = "ok" /\ b # "ok"
      BY <3>2
    <3>3. CASE a = "ok" /\ b = "ok"
      BY <1>2, <3>3
    <3> QED
      BY <3>1, <3>2, <3>3
  <2>2. PICK i \in Bad : i = CHOOSE k \in Bad : \A j \in Bad : k <= j
    BY <2>1
  <2>3. FirstError(errs) = errs[i]
    BY <2>2 DEF FirstError
  <2> QED
    BY <1>2, <2>2, <2>3
<1> QED
  BY <1>1, <1>2

LEMMA CheckOk ==
  ASSUME NEW ok \in BOOLEAN, NEW err, err # "ok"
  PROVE  Check(ok, err) = "ok" <=> ok
BY DEF Check

(* A list that was read without an error is a list.                        *)
LEMMA ListOk ==
  ASSUME NEW list, NEW max, ListError(list, max) = "ok"
  PROVE  list.kind = "list"
BY DEF ListError

(* A number that fits a width fits any larger one.                         *)
LEMMA WiderIsNoWorse ==
  ASSUME NEW item \in AnItem, NEW v \in Nat, NEW w \in Nat, v <= w,
         Decimal(item, v) = "ok"
  PROVE  Decimal(item, w) = "ok"
<1>1. NumberError(item) = "ok" /\ Check(item.digits < v, "unexpected_error") = "ok"
  BY FirstOfTwo DEF Decimal
<1>2. item.digits \in Nat
  BY ItemFacts
<1>3. item.digits < v
  BY <1>1 DEF Check
<1>4. item.digits < w
  BY <1>2, <1>3
<1>5. Check(item.digits < w, "unexpected_error") = "ok"
  BY <1>4 DEF Check
<1> QED
  BY <1>1, <1>5, FirstOfTwo DEF Decimal

-----------------------------------------------------------------------------
(* What parser_getItem shows, index by index. *)

LEMMA FieldsAreItems ==
  ASSUME Typed
  PROVE  /\ \A i \in 1..MANTX_ROOTFIELD_COUNT : tx_obj.fields[i] \in AnItem
         /\ \A i \in 1..MANTX_EXTRAFIELD_COUNT : tx_obj.extraFields[i] \in AnItem
         /\ \A i \in 1..MANTX_EXTRALISTFIELD_COUNT :
              tx_obj.extraToListFields[i] \in AnItem
         /\ tx_obj.extraToFieldsItems \in Nat
         /\ tx_obj.extraToFieldsItems <= MANTX_EXTRALISTFIELD_COUNT
         /\ NumItems \in Nat
         /\ NumItems = 12 + tx_obj.extraToFieldsItems * 3
<1>1. tx_obj \in TxObjects
  BY DEF Typed
<1>2. /\ tx_obj.extraToFieldsItems \in 0..MANTX_EXTRALISTFIELD_COUNT
      /\ MANTX_EXTRALISTFIELD_COUNT \in 0..38
  BY <1>1, ParserAssumption DEF TxObjects
<1>3. /\ tx_obj.fields \in [1..MANTX_ROOTFIELD_COUNT -> AnItem]
      /\ tx_obj.extraFields \in [1..MANTX_EXTRAFIELD_COUNT -> AnItem]
      /\ tx_obj.extraToListFields \in [1..MANTX_EXTRALISTFIELD_COUNT -> AnItem]
  BY <1>1 DEF TxObjects
<1>4. PICK n \in Nat : n = tx_obj.extraToFieldsItems /\ n <= MANTX_EXTRALISTFIELD_COUNT
  BY <1>2
<1>5. NumItems = 12 + n * 3
  <2>1. 12 + n * 3 \in 0..255
    BY <1>2, <1>4
  <2>2. (12 + n * 3) % 256 = 12 + n * 3
    BY <2>1
  <2> QED
    BY <1>4, <2>2 DEF NumItems, MANTX_DISPLAY_COUNT
<1>6. NumItems \in Nat
  BY <1>4, <1>5
<1>7. /\ \A i \in 1..MANTX_ROOTFIELD_COUNT : tx_obj.fields[i] \in AnItem
      /\ \A i \in 1..MANTX_EXTRAFIELD_COUNT : tx_obj.extraFields[i] \in AnItem
      /\ \A i \in 1..MANTX_EXTRALISTFIELD_COUNT :
           tx_obj.extraToListFields[i] \in AnItem
  BY <1>3
<1> QED
  BY <1>4, <1>5, <1>6, <1>7, Zenon

(* The page of a recipient's part: which recipient, and which part.        *)
LEMMA RecipientPages ==
  ASSUME Typed, NEW idx \in 12..(NumItems - 1)
  PROVE  /\ (idx - 12) \div 3 + 1 \in 1..tx_obj.extraToFieldsItems
         /\ ((idx - 12) % 3) + 1 \in 1..3
<1>1. PICK n \in Nat : n = tx_obj.extraToFieldsItems /\ NumItems = 12 + n * 3
  BY FieldsAreItems
<1>2. idx - 12 \in Nat /\ idx - 12 < n * 3
  BY <1>1
<1>3. (idx - 12) \div 3 \in Nat /\ (idx - 12) \div 3 < n
  BY <1>2
<1>4. (idx - 12) % 3 \in 0..2
  BY <1>2
<1> QED
  BY <1>1, <1>3, <1>4

(* The twelve pages every transaction has.                                 *)
LEMMA PagesByIndex ==
  ASSUME Typed, NEW w
  PROVE  /\ GetItem(0, w) = Number("Nonce", tx_obj.fields[1], w)
         /\ GetItem(1, w) = Number("Gas Price", tx_obj.fields[2], w)
         /\ GetItem(2, w) = Number("Gas Limit", tx_obj.fields[3], w)
         /\ GetItem(3, w) = Shown("ok", "To", tx_obj.fields[4], "text")
         /\ GetItem(4, w) = Number("Value", tx_obj.fields[5], w)
         /\ GetItem(5, w) = PrintDataField(tx_obj.fields[6])
         /\ GetItem(6, w) = PrintChainID(tx_obj.fields[7])
         /\ GetItem(7, w) = Number("EnterType", tx_obj.fields[8], w)
         /\ GetItem(8, w) = Number("IsEntrustTx", tx_obj.fields[11], w)
         /\ GetItem(9, w) = PrintCommitTime(tx_obj.fields[12])
         /\ GetItem(10, w) = PrintTxType
         /\ GetItem(11, w) = Number("Lock Height", tx_obj.extraFields[2], w)
<1>1. \A idx \in 0..11 : ~(idx >= NumItems)
  BY FieldsAreItems
<1>2. GetItem(0, w) = Number("Nonce", tx_obj.fields[1], w)
  BY <1>1 DEF GetItem
<1>3. GetItem(1, w) = Number("Gas Price", tx_obj.fields[2], w)
  BY <1>1 DEF GetItem
<1>4. GetItem(2, w) = Number("Gas Limit", tx_obj.fields[3], w)
  BY <1>1 DEF GetItem
<1>5. GetItem(3, w) = Shown("ok", "To", tx_obj.fields[4], "text")
  BY <1>1 DEF GetItem
<1>6. GetItem(4, w) = Number("Value", tx_obj.fields[5], w)
  BY <1>1 DEF GetItem
<1>7. GetItem(5, w) = PrintDataField(tx_obj.fields[6])
  BY <1>1 DEF GetItem
<1>8. GetItem(6, w) = PrintChainID(tx_obj.fields[7])
  BY <1>1 DEF GetItem
<1>9. GetItem(7, w) = Number("EnterType", tx_obj.fields[8], w)
  BY <1>1 DEF GetItem
<1>10. GetItem(8, w) = Number("IsEntrustTx", tx_obj.fields[11], w)
  BY <1>1 DEF GetItem, AfterSignature
<1>11. GetItem(9, w) = PrintCommitTime(tx_obj.fields[12])
  BY <1>1 DEF GetItem, AfterSignature
<1>12. GetItem(10, w) = PrintTxType
  BY <1>1 DEF GetItem
<1>13. GetItem(11, w) = Number("Lock Height", tx_obj.extraFields[2], w)
  BY <1>1 DEF GetItem
<1> QED
  BY <1>2, <1>3, <1>4, <1>5, <1>6, <1>7, <1>8, <1>9, <1>10, <1>11, <1>12,
     <1>13, Zenon

(* What a page shows does not depend on the width, save for an error.      *)
LEMMA FixedPages ==
  ASSUME NEW idx \in 0..11, Typed
  PROVE
    \/ \E key : \E i \in 1..MANTX_ROOTFIELD_COUNT : \A w :
         GetItem(idx, w) = Number(key, tx_obj.fields[i], w)
    \/ \A w : GetItem(idx, w) = Shown("ok", "To", tx_obj.fields[4], "text")
    \/ \A w : GetItem(idx, w) = PrintDataField(tx_obj.fields[6])
    \/ \A w : GetItem(idx, w) = PrintChainID(tx_obj.fields[7])
    \/ \A w : GetItem(idx, w) = PrintCommitTime(tx_obj.fields[12])
    \/ \A w : GetItem(idx, w) = PrintTxType
    \/ \A w : GetItem(idx, w) = Number("Lock Height", tx_obj.extraFields[2], w)
<1>1. /\ idx = 0 \/ idx = 1 \/ idx = 2 \/ idx = 3 \/ idx = 4 \/ idx = 5
         \/ idx = 6 \/ idx = 7 \/ idx = 8 \/ idx = 9 \/ idx = 10 \/ idx = 11
      /\ {1, 2, 3, 5, 8, 11} \subseteq 1..MANTX_ROOTFIELD_COUNT
  BY DEF MANTX_ROOTFIELD_COUNT
<1>2. CASE idx = 0
  <2>1. \A w : GetItem(idx, w) = Number("Nonce", tx_obj.fields[1], w)
    BY <1>2, PagesByIndex
  <2> QED
    BY <1>1, <2>1, Zenon
<1>3. CASE idx = 1
  <2>1. \A w : GetItem(idx, w) = Number("Gas Price", tx_obj.fields[2], w)
    BY <1>3, PagesByIndex
  <2> QED
    BY <1>1, <2>1, Zenon
<1>4. CASE idx = 2
  <2>1. \A w : GetItem(idx, w) = Number("Gas Limit", tx_obj.fields[3], w)
    BY <1>4, PagesByIndex
  <2> QED
    BY <1>1, <2>1, Zenon
<1>5. CASE idx = 4
  <2>1. \A w : GetItem(idx, w) = Number("Value", tx_obj.fields[5], w)
    BY <1>5, PagesByIndex
  <2> QED
    BY <1>1, <2>1, Zenon
<1>6. CASE idx = 7
  <2>1. \A w : GetItem(idx, w) = Number("EnterType", tx_obj.fields[8], w)
    BY <1>6, PagesByIndex
  <2> QED
    BY <1>1, <2>1, Zenon
<1>7. CASE idx = 8
  <2>1. \A w : GetItem(idx, w) = Number("IsEntrustTx", tx_obj.fields[11], w)
    BY <1>7, PagesByIndex
  <2> QED
    BY <1>1, <2>1, Zenon
<1>8. CASE idx = 3
  BY <1>8, PagesByIndex, Zenon
<1>9. CASE idx = 5
  BY <1>9, PagesByIndex, Zenon
<1>10. CASE idx = 6
  BY <1>10, PagesByIndex, Zenon
<1>11. CASE idx = 9
  BY <1>11, PagesByIndex, Zenon
<1>12. CASE idx = 10
  BY <1>12, PagesByIndex, Zenon
<1>13. CASE idx = 11
  BY <1>13, PagesByIndex, Zenon
<1> QED
  BY <1>1, <1>2, <1>3, <1>4, <1>5, <1>6, <1>7, <1>8, <1>9, <1>10, <1>11,
     <1>12, <1>13, Zenon

LEMMA RecipientsPages ==
  ASSUME NEW idx \in 12..(NumItems - 1), NEW w, Typed
  PROVE  GetItem(idx, w) = PrintExtraFields(idx, w)
<1>1. NumItems \in Nat
  BY FieldsAreItems
<1>2. ~(idx >= NumItems)
  BY <1>1
<1>3. /\ idx # 0 /\ idx # 1 /\ idx # 2 /\ idx # 3 /\ idx # 4 /\ idx # 5
      /\ idx # 6 /\ idx # 7 /\ idx # 8 /\ idx # 9 /\ idx # 10 /\ idx # 11
  BY <1>1
<1> QED
  BY <1>2, <1>3 DEF GetItem

(* Part k of the recipient in row r of tx_obj, and its page.               *)
Part(r, k)   == tx_obj.extraToListFields[r].items[k]
PageOf(r, k) == MANTX_DISPLAY_COUNT + 3 * (r - 1) + (k - 1)

PartLabel(r, k) == <<<<"To", "Amount", "Payload">>[k], r - 1>>

(* The page shows that part, and fails if it is a number that does not fit.*)
ShowsPart(idx, r, k) ==
  /\ Part(r, k) \in AnItem
  /\ k \in DOMAIN tx_obj.extraToListFields[r].items
  /\ \A w : /\ GetItem(idx, w).from = Part(r, k)
            /\ GetItem(idx, w).key = PartLabel(r, k)
            /\ GetItem(idx, w).err = "ok"
                 <=> k # 2 \/ Decimal(Part(r, k), w) = "ok"

LEMMA PagesOfParts ==
  ASSUME Typed,
         NEW r \in 1..tx_obj.extraToFieldsItems, NEW k \in 1..3
  PROVE  /\ PageOf(r, k) \in 12..(NumItems - 1)
         /\ (PageOf(r, k) - 12) \div 3 = r - 1
         /\ (PageOf(r, k) - 12) % 3 = k - 1
<1>1. PICK n \in Nat : n = tx_obj.extraToFieldsItems /\ NumItems = 12 + n * 3
  BY FieldsAreItems
<1>2. r \in 1..n
  BY <1>1
<1>3. PageOf(r, k) = 12 + 3 * (r - 1) + (k - 1)
  BY DEF PageOf, MANTX_DISPLAY_COUNT
<1>4. k = 1 \/ k = 2 \/ k = 3
  OBVIOUS
<1> QED
  BY <1>1, <1>2, <1>3, <1>4

LEMMA EveryPageIsOfAPart ==
  ASSUME Typed, NEW idx \in 12..(NumItems - 1)
  PROVE  \E r \in 1..tx_obj.extraToFieldsItems : \E k \in 1..3 :
           idx = PageOf(r, k)
<1> DEFINE r == ((idx - 12) \div 3) + 1
           k == ((idx - 12) % 3) + 1
<1>1. r \in 1..tx_obj.extraToFieldsItems /\ k \in 1..3
  BY RecipientPages
<1>2. idx - 12 \in Nat
  BY FieldsAreItems
<1>3. idx = PageOf(r, k)
  BY <1>2 DEF PageOf, MANTX_DISPLAY_COUNT
<1> QED
  BY <1>1, <1>3

LEMMA PartIsShown ==
  ASSUME Typed,
         NEW r \in 1..tx_obj.extraToFieldsItems, NEW k \in 1..3,
         WholeRecipient(tx_obj.extraToListFields[r])
  PROVE  ShowsPart(PageOf(r, k), r, k)
<1> DEFINE idx  == PageOf(r, k)
           list == tx_obj.extraToListFields[r]
           none == [i \in 1..3 |-> Cleared]
           item == list.items[k]
<1>1. /\ idx \in 12..(NumItems - 1)
      /\ (idx - 12) \div 3 = r - 1
      /\ (idx - 12) % 3 = k - 1
  BY PagesOfParts
<1>2. r \in 1..MANTX_EXTRALISTFIELD_COUNT
  BY FieldsAreItems, ParserAssumption
<1>3. list \in AnItem
  BY <1>2, FieldsAreItems
<1>4. ListError(list, 3) = "ok" /\ ItemsRead(list, 3) = 3
  BY DEF WholeRecipient, MANTX_EXTRATOFIELD_COUNT
<1>5. none \in [1..3 -> AnItem]
  BY DEF AnItem
<1>6. ReadInto(none, list)[k] = item
  <2>1. \A f \in [1..3 -> AnItem] : \A i \in 1..ItemsRead(list, 3) :
          ReadInto(f, list)[i] = list.items[i]
    <3>1. 3 \in Nat
      OBVIOUS
    <3> QED
      BY <1>3, <3>1, ReadIntoTyped, Zenon
  <2> QED
    BY <1>4, <1>5, <2>1
<1>7. k \in DOMAIN list.items /\ item \in AnItem
  BY <1>3, <1>4, ItemsReadCounts
<1>8. /\ r - 1 + 1 = r /\ k - 1 + 1 = k
      /\ k - 1 = 1 <=> k = 2
  OBVIOUS
<1>9. ASSUME NEW w
      PROVE  /\ GetItem(idx, w).from = item
             /\ GetItem(idx, w).key = PartLabel(r, k)
             /\ GetItem(idx, w).err = "ok" <=> k # 2 \/ Decimal(item, w) = "ok"
  <2>1. GetItem(idx, w) = PrintExtraFields(idx, w)
    BY <1>1, RecipientsPages
  <2>2. PrintExtraFields(idx, w)
          = Shown(FirstError(<<ListError(list, 3),
                               IF k - 1 = 1 THEN Decimal(item, w) ELSE "ok">>),
                  PartLabel(r, k), item,
                  OrEmpty(item, IF k - 1 = 1 THEN "decimal" ELSE "text"))
    <3>1. ~(idx >= 12 + tx_obj.extraToFieldsItems * 3)
      BY <1>1, FieldsAreItems
    <3> HIDE DEF idx
    <3> QED
      BY <1>1, <1>6, <1>8, <3>1 DEF PrintExtraFields, PartLabel,
                              MANTX_DISPLAY_COUNT, MANTX_EXTRATOFIELD_COUNT
  <2>3. FirstError(<<"ok", IF k - 1 = 1 THEN Decimal(item, w) ELSE "ok">>) = "ok"
          <=> k # 2 \/ Decimal(item, w) = "ok"
    BY <1>8, FirstOfTwo
  <2>4. \A e, key, from, form : /\ Shown(e, key, from, form).err = e
                                /\ Shown(e, key, from, form).key = key
                                /\ Shown(e, key, from, form).from = from
    BY DEF Shown
  <2> QED
    <3> HIDE DEF idx, item
    <3> QED
      BY <1>4, <2>1, <2>2, <2>3, <2>4
<1>10. item = Part(r, k)
  BY DEF Part
<1> QED
  BY <1>7, <1>9, <1>10, Zenon DEF ShowsPart

LEMMA PartOfRecipient ==
  ASSUME NEW idx \in 12..(NumItems - 1), Typed,
         \A i \in 1..tx_obj.extraToFieldsItems :
           WholeRecipient(tx_obj.extraToListFields[i])
  PROVE  \E r \in 1..tx_obj.extraToFieldsItems : \E k \in 1..3 :
           ShowsPart(idx, r, k)
BY EveryPageIsOfAPart, PartIsShown, Zenon

(* Every page of a transaction that parses shows an item of the text.      *)
LEMMA PagesAreOfTheText ==
  ASSUME Inv, pc = "review", NEW idx \in Nat, NEW w,
         GetItem(idx, w).err = "ok"
  PROVE  GetItem(idx, w).from \in ItemsOfText
<1>1. /\ Typed
      /\ \A i \in 1..MANTX_ROOTFIELD_COUNT :
           i \in DOMAIN RootOf /\ tx_obj.fields[i] = RootOf[i]
      /\ \A i \in 1..MANTX_EXTRAFIELD_COUNT :
           i \in DOMAIN ExtraOf /\ tx_obj.extraFields[i] = ExtraOf[i]
      /\ \A i \in 1..tx_obj.extraToFieldsItems :
           /\ i \in DOMAIN RecipientsOf
           /\ tx_obj.extraToListFields[i] = RecipientsOf[i]
           /\ WholeRecipient(tx_obj.extraToListFields[i])
  BY DEF Inv, RootRead, ExtraRead, RecipientsRead, RecipientsWhole,
         PastRoot, PastExtra, PastRecipients, PastInner
<1>2. idx < NumItems
  <2>1. CASE idx >= NumItems
    BY <2>1 DEF GetItem, Shown
  <2> QED
    BY <1>1, <2>1, FieldsAreItems
<1>3. \A i \in 1..MANTX_ROOTFIELD_COUNT : tx_obj.fields[i] \in ItemsOfText
  BY <1>1, Zenon DEF ItemsOfText, ItemsIn
<1>4. \A i \in 1..MANTX_EXTRAFIELD_COUNT : tx_obj.extraFields[i] \in ItemsOfText
  BY <1>1, Zenon DEF ItemsOfText, ItemsIn
<1>5. \A r \in 1..tx_obj.extraToFieldsItems :
        \A k \in DOMAIN tx_obj.extraToListFields[r].items :
          Part(r, k) \in ItemsOfText
  <2> SUFFICES ASSUME NEW r \in 1..tx_obj.extraToFieldsItems,
                      NEW k \in DOMAIN tx_obj.extraToListFields[r].items
               PROVE  Part(r, k) \in ItemsOfText
    OBVIOUS
  <2>1. RecipientsOf[r] \in ItemsIn(RecipientsOf)
    BY <1>1, Zenon DEF ItemsIn
  <2>2. RecipientsOf[r].items[k] \in ItemsIn(RecipientsOf[r].items)
    BY <1>1, Zenon DEF ItemsIn
  <2> QED
    BY <1>1, <2>1, <2>2, Zenon DEF ItemsOfText, Part
<1>6. CASE idx \in 0..11
  <2>1. /\ {4, 6, 7, 12} \subseteq 1..MANTX_ROOTFIELD_COUNT
        /\ {1, 2} \subseteq 1..MANTX_EXTRAFIELD_COUNT
    BY DEF MANTX_ROOTFIELD_COUNT, MANTX_EXTRAFIELD_COUNT
  <2>2. \A key, item : Number(key, item, w).from = item
    BY DEF Number, Shown
  <2>3. \A item : /\ Shown("ok", "To", item, "text").from = item
                  /\ PrintDataField(item).from = item
                  /\ PrintChainID(item).from = item
                  /\ PrintCommitTime(item).from = item
    BY DEF Shown, PrintDataField, PrintChainID, PrintCommitTime
  <2>4. PrintTxType.from = tx_obj.extraFields[1]
    BY DEF PrintTxType, Shown
  <2>5. /\ tx_obj.fields[4] \in ItemsOfText
        /\ tx_obj.fields[6] \in ItemsOfText
        /\ tx_obj.fields[7] \in ItemsOfText
        /\ tx_obj.fields[12] \in ItemsOfText
        /\ tx_obj.extraFields[1] \in ItemsOfText
        /\ tx_obj.extraFields[2] \in ItemsOfText
    BY <1>3, <1>4, <2>1
  <2>6. CASE \E key : \E i \in 1..MANTX_ROOTFIELD_COUNT : \A u :
               GetItem(idx, u) = Number(key, tx_obj.fields[i], u)
    BY <1>3, <2>2, <2>6
  <2>7. CASE \A u : GetItem(idx, u) = Shown("ok", "To", tx_obj.fields[4], "text")
    BY <2>3, <2>5, <2>7
  <2>8. CASE \A u : GetItem(idx, u) = PrintDataField(tx_obj.fields[6])
    BY <2>3, <2>5, <2>8
  <2>9. CASE \A u : GetItem(idx, u) = PrintChainID(tx_obj.fields[7])
    BY <2>3, <2>5, <2>9
  <2>10. CASE \A u : GetItem(idx, u) = PrintCommitTime(tx_obj.fields[12])
    BY <2>3, <2>5, <2>10
  <2>11. CASE \A u : GetItem(idx, u) = PrintTxType
    BY <2>4, <2>5, <2>11
  <2>12. CASE \A u : GetItem(idx, u)
                       = Number("Lock Height", tx_obj.extraFields[2], u)
    <3>1. Number("Lock Height", tx_obj.extraFields[2], w).from
            = tx_obj.extraFields[2]
      BY DEF Number, Shown
    <3> QED
      BY <2>5, <2>12, <3>1
  <2>13. Typed
    BY <1>1
  <2> QED
    BY <1>6, <2>6, <2>7, <2>8, <2>9, <2>10, <2>11, <2>12, <2>13, FixedPages
<1>7. CASE idx \in 12..(NumItems - 1)
  <2>1. \A i \in 1..tx_obj.extraToFieldsItems :
          WholeRecipient(tx_obj.extraToListFields[i])
    BY <1>1, Zenon
  <2>2. PICK r \in 1..tx_obj.extraToFieldsItems : \E k \in 1..3 :
          ShowsPart(idx, r, k)
    BY <1>1, <1>7, <2>1, PartOfRecipient, Zenon
  <2>3. PICK k \in 1..3 : ShowsPart(idx, r, k)
    BY <2>2, Zenon
  <2>4. /\ GetItem(idx, w).from = Part(r, k)
        /\ k \in DOMAIN tx_obj.extraToListFields[r].items
    BY <2>3 DEF ShowsPart
  <2> QED
    BY <1>5, <2>2, <2>4
<1> QED
  BY <1>1, <1>2, <1>6, <1>7, FieldsAreItems

(* What can be shown on a screen can be shown on any larger one.           *)
LEMMA LargerScreens ==
  ASSUME Typed, NEW idx \in 0..(NumItems - 1),
         \A i \in 1..tx_obj.extraToFieldsItems :
           WholeRecipient(tx_obj.extraToListFields[i]),
         NEW v \in Nat, NEW w \in Nat, v <= w,
         GetItem(idx, v).err = "ok"
  PROVE  GetItem(idx, w).err = "ok"
<1>1. \A key, item, u : Number(key, item, u).err = Decimal(item, u)
  BY DEF Number, Shown
<1>2. \A item \in AnItem : Decimal(item, v) = "ok" => Decimal(item, w) = "ok"
  BY WiderIsNoWorse
<1>3. CASE idx \in 0..11
  <2>1. CASE \E key : \E i \in 1..MANTX_ROOTFIELD_COUNT : \A u :
               GetItem(idx, u) = Number(key, tx_obj.fields[i], u)
    <3>1. PICK key, i : /\ i \in 1..MANTX_ROOTFIELD_COUNT
                        /\ \A u : GetItem(idx, u) = Number(key, tx_obj.fields[i], u)
      BY <2>1
    <3>2. tx_obj.fields[i] \in AnItem
      BY <3>1, FieldsAreItems
    <3> QED
      BY <1>1, <1>2, <3>1, <3>2
  <2>2. CASE \A u : GetItem(idx, u)
                      = Number("Lock Height", tx_obj.extraFields[2], u)
    <3>1. \A item, u : Number("Lock Height", item, u).err = Decimal(item, u)
      BY DEF Number, Shown
    <3>2. tx_obj.extraFields[2] \in AnItem
      BY FieldsAreItems DEF MANTX_EXTRAFIELD_COUNT
    <3> QED
      BY <1>2, <2>2, <3>1, <3>2
  <2>3. CASE GetItem(idx, v) = GetItem(idx, w)
    BY <2>3
  <2> QED
    BY <1>3, <2>1, <2>2, <2>3, FixedPages, Zenon
<1>4. CASE idx \in 12..(NumItems - 1)
  <2>1. PICK r \in 1..tx_obj.extraToFieldsItems : \E k \in 1..3 :
          ShowsPart(idx, r, k)
    BY <1>4, PartOfRecipient, Zenon
  <2>2. PICK k \in 1..3 : ShowsPart(idx, r, k)
    BY <2>1, Zenon
  <2> QED
    BY <1>2, <2>2 DEF ShowsPart
<1> QED
  BY <1>3, <1>4, FieldsAreItems

-----------------------------------------------------------------------------
(* The invariant. *)

LEMMA ClearedTxTyped ==
  /\ ClearedTx \in TxObjects
  /\ ClearedTx.extraToFieldsItems = 0
<1>1. MANTX_EXTRALISTFIELD_COUNT \in Nat /\ Cleared \in AnItem
  BY ParserAssumption DEF AnItem
<1> QED
  BY <1>1 DEF ClearedTx, TxObjects

LEMMA InitInv ==
  ASSUME Init
  PROVE  Inv
BY ClearedTxTyped
   DEF Init, Inv, Typed, RootRead, ExtraRead, NoneCounted, RecipientsRead,
       RecipientsWhole, Validated, PastRoot, PastExtra, PastRecipients, PastInner

LEMMA ParserInitContextStep ==
  ASSUME Inv, NEW t \in Texts, ParserInitContext(t)
  PROVE  Inv'
<1>1. t \in Seq(RlpItem)
  BY ItemAssumption
<1>2. Typed'
  BY <1>1, ClearedTxTyped DEF Inv, Typed, ParserInitContext
<1>3. NoneCounted'
  BY ClearedTxTyped DEF NoneCounted, ParserInitContext
<1>4. pc' \in {"rejected", "root"}
  BY DEF ParserInitContext
<1> QED
  BY <1>2, <1>3, <1>4
     DEF Inv, RootRead, ExtraRead, RecipientsRead, RecipientsWhole, Validated,
         PastRoot, PastExtra, PastRecipients, PastInner

(* A part that fails ends the parsing, and nothing is known of a rest.     *)
LEMMA RejectedStep ==
  ASSUME Typed', pc' = "rejected"
  PROVE  Inv'
BY DEF Inv, RootRead, ExtraRead, NoneCounted, RecipientsRead, RecipientsWhole,
       Validated, PastRoot, PastExtra, PastRecipients, PastInner

LEMMA ReadRootStep ==
  ASSUME Inv, ReadRoot
  PROVE  Inv'
<1> DEFINE root == text[1]
           one  == FirstError(<<Check(Len(text) = 1, "unexpected_unparsed_bytes"),
                                Check(root.kind = "list", "unexpected_type")>>)
           all  == Check(ItemsRead(root, MANTX_ROOTFIELD_COUNT)
                           = MANTX_ROOTFIELD_COUNT, "unexpected_number_items")
           err  == FirstError(<<one, ListError(root, MANTX_ROOTFIELD_COUNT), all>>)
<1>1. /\ pc = "root" /\ UNCHANGED <<text, screen>>
      /\ pc' = IF err = "ok" THEN "extra" ELSE "rejected"
      /\ tx_obj' = IF one = "ok"
                   THEN [tx_obj EXCEPT !.fields = ReadInto(@, root)]
                   ELSE tx_obj
  BY DEF ReadRoot, Step
<1>2. tx_obj \in TxObjects /\ text \in Seq(RlpItem) /\ tx_obj.extraToFieldsItems = 0
  BY <1>1 DEF Inv, Typed, NoneCounted
<1>3. ASSUME one = "ok"
      PROVE  Len(text) = 1 /\ root \in AnItem
  <2>1. Len(text) = 1
    BY <1>3, FirstOfTwo DEF Check
  <2> QED
    BY <1>2, <2>1 DEF AnItem
<1>4. MANTX_ROOTFIELD_COUNT \in Nat
  BY DEF MANTX_ROOTFIELD_COUNT
<1>5. tx_obj.fields \in [1..MANTX_ROOTFIELD_COUNT -> AnItem]
  BY <1>2 DEF TxObjects
<1>6. ASSUME one = "ok"
      PROVE  ReadInto(tx_obj.fields, root) \in [1..MANTX_ROOTFIELD_COUNT -> AnItem]
  BY <1>3, <1>4, <1>5, <1>6, ReadIntoTyped
<1>7. /\ tx_obj' \in TxObjects
      /\ tx_obj'.extraToFieldsItems = 0
      /\ one = "ok" => tx_obj'.fields = ReadInto(tx_obj.fields, root)
  BY <1>1, <1>2, <1>6 DEF TxObjects
<1>8. Typed'
  BY <1>1, <1>2, <1>7 DEF Typed
<1>9. CASE pc' = "extra"
  <2>1. one = "ok" /\ all = "ok"
    BY <1>1, <1>9, FirstOfThree
  <2>2. ItemsRead(root, MANTX_ROOTFIELD_COUNT) = MANTX_ROOTFIELD_COUNT
    BY <2>1 DEF Check
  <2>3. \A i \in 1..MANTX_ROOTFIELD_COUNT :
          i \in DOMAIN root.items /\ tx_obj'.fields[i] = root.items[i]
    BY <1>3, <1>4, <1>5, <1>7, <2>1, <2>2, ReadIntoTyped, ItemsReadCounts
  <2>4. RootRead'
    BY <1>1, <1>3, <2>1, <2>3 DEF RootRead, RootOf
  <2> QED
    BY <1>7, <1>8, <1>9, <2>4
       DEF Inv, ExtraRead, NoneCounted, RecipientsRead, RecipientsWhole,
           Validated, PastExtra, PastRecipients, PastInner
<1> QED
  BY <1>1, <1>8, <1>9, RejectedStep

(* A member of tx_obj is overwritten, the others stay.                     *)
LEMMA TxObjectUpdates ==
  ASSUME NEW o \in TxObjects
  PROVE  /\ \A f \in [1..MANTX_EXTRAFIELD_COUNT -> AnItem] :
              [o EXCEPT !.extraFields = f] \in TxObjects
         /\ \A n \in 0..255 : [o EXCEPT !.extraTxType = n] \in TxObjects
<1>1. ASSUME NEW A, NEW B, NEW C, NEW D, NEW E,
             NEW r \in [fields : A, extraFields : B, extraToListFields : C,
                        extraToFieldsItems : D, extraTxType : E]
      PROVE  /\ \A x \in B : [r EXCEPT !.extraFields = x]
                  \in [fields : A, extraFields : B, extraToListFields : C,
                       extraToFieldsItems : D, extraTxType : E]
             /\ \A x \in E : [r EXCEPT !.extraTxType = x]
                  \in [fields : A, extraFields : B, extraToListFields : C,
                       extraToFieldsItems : D, extraTxType : E]
  OBVIOUS
<1> QED
  BY <1>1, ZenonT(30) DEF TxObjects

LEMMA ReadExtraFieldsStep ==
  ASSUME Inv, ReadExtraFields
  PROVE  Inv'
<1> DEFINE outer == tx_obj.fields[MANTX_ROOTFIELD_COUNT]
           inner == ReadInto(<<Cleared>>, outer)[1]
           all   == Check(ItemsRead(inner, MANTX_EXTRAFIELD_COUNT)
                            = MANTX_EXTRAFIELD_COUNT, "unexpected_number_items")
           err   == FirstError(<<ListError(outer, 1),
                                 ListError(inner, MANTX_EXTRAFIELD_COUNT), all>>)
<1>1. /\ pc = "extra" /\ UNCHANGED <<text, screen>>
      /\ pc' = IF err = "ok" THEN "txtype" ELSE "rejected"
      /\ tx_obj' = [tx_obj EXCEPT !.extraFields = ReadInto(@, inner)]
  BY DEF ReadExtraFields, Step
<1>2. tx_obj \in TxObjects /\ text \in Seq(RlpItem) /\ tx_obj.extraToFieldsItems = 0
  BY <1>1 DEF Inv, Typed, NoneCounted
<1>3. outer \in AnItem
  BY <1>2, FieldsAreItems DEF Inv, MANTX_ROOTFIELD_COUNT
<1>4. /\ <<Cleared>> \in [1..1 -> AnItem]
      /\ MANTX_EXTRAFIELD_COUNT \in Nat
      /\ tx_obj.extraFields \in [1..MANTX_EXTRAFIELD_COUNT -> AnItem]
  BY <1>2 DEF AnItem, MANTX_EXTRAFIELD_COUNT, TxObjects
<1>5. ReadInto(<<Cleared>>, outer) \in [1..1 -> AnItem]
  BY <1>3, <1>4, ReadIntoTyped
<1>6. inner \in AnItem
  BY <1>5
<1>7. ReadInto(tx_obj.extraFields, inner) \in [1..MANTX_EXTRAFIELD_COUNT -> AnItem]
  <2> HIDE DEF inner
  <2> QED
    BY <1>4, <1>6, ReadIntoTyped
<1>8. /\ tx_obj' \in TxObjects
      /\ tx_obj'.extraToFieldsItems = 0
      /\ tx_obj'.fields = tx_obj.fields
      /\ tx_obj'.extraFields = ReadInto(tx_obj.extraFields, inner)
  <2> DEFINE read == ReadInto(tx_obj.extraFields, inner)
  <2>1. /\ tx_obj' = [tx_obj EXCEPT !.extraFields = read]
        /\ read \in [1..MANTX_EXTRAFIELD_COUNT -> AnItem]
    BY <1>1, <1>7
  <2> HIDE DEF read
  <2>2. /\ tx_obj' \in TxObjects
        /\ tx_obj'.extraToFieldsItems = 0
        /\ tx_obj'.fields = tx_obj.fields
        /\ tx_obj'.extraFields = read
    <3>1. tx_obj' \in TxObjects
      BY <1>2, <2>1, TxObjectUpdates
    <3>2. tx_obj'.extraToFieldsItems = 0 /\ tx_obj'.fields = tx_obj.fields
      BY <1>2, <2>1 DEF TxObjects
    <3>3. tx_obj'.extraFields = read
      BY <1>2, <2>1 DEF TxObjects
    <3> QED
      BY <3>1, <3>2, <3>3
  <2> QED
    BY <2>2 DEF read
<1>9. Typed'
  BY <1>1, <1>2, <1>8 DEF Typed
<1>10. CASE pc' = "txtype"
  <2>1. /\ all = "ok"
        /\ inner.kind = "list"
    BY <1>1, <1>10, FirstOfThree, ListOk
  <2>2. ItemsRead(inner, MANTX_EXTRAFIELD_COUNT) = MANTX_EXTRAFIELD_COUNT
    BY <2>1 DEF Check
  <2>3. Len(text) = 1 /\ outer = RootOf[MANTX_ROOTFIELD_COUNT]
    BY <1>1 DEF Inv, RootRead, PastRoot, MANTX_ROOTFIELD_COUNT
  <2>4. inner = outer.items[1]
    <3>1. Len(<<Cleared>>) = 1 /\ ItemsRead(outer, 1) \in 0..1
      BY <1>3, ItemsReadCounts
    <3>2. ReadInto(<<Cleared>>, outer)
            = [i \in {1} |-> IF i <= ItemsRead(outer, 1)
                             THEN outer.items[i] ELSE <<Cleared>>[i]]
      BY <3>1 DEF ReadInto
    <3>3. inner = IF 1 <= ItemsRead(outer, 1) THEN outer.items[1] ELSE Cleared
      BY <3>2
    <3>4. Cleared.kind # "list"
      BY DEF Cleared, Item
    <3> QED
      BY <2>1, <3>3, <3>4
  <2>5. inner = RootOf[MANTX_ROOTFIELD_COUNT].items[1]
    BY <2>3, <2>4
  <2>6. \A i \in 1..MANTX_EXTRAFIELD_COUNT :
          i \in DOMAIN inner.items /\ tx_obj'.extraFields[i] = inner.items[i]
    <3> HIDE DEF inner
    <3> QED
      BY <1>4, <1>6, <1>8, <2>2, ReadIntoTyped, ItemsReadCounts
  <2>7. RootRead'
    BY <1>1, <1>8 DEF Inv, RootRead, PastRoot, RootOf
  <2>8. ExtraRead'
    <3> HIDE DEF inner
    <3> QED
      BY <1>1, <2>5, <2>6 DEF ExtraRead, ExtraOf, RootOf
  <2> QED
    BY <1>8, <1>9, <1>10, <2>7, <2>8
       DEF Inv, NoneCounted, RecipientsRead, RecipientsWhole, Validated,
           PastRecipients, PastInner
<1> QED
  BY <1>1, <1>9, <1>10, RejectedStep

LEMMA ReadTxTypeStep ==
  ASSUME Inv, ReadTxType
  PROVE  Inv'
<1> DEFINE type == tx_obj.extraFields[1]
<1>1. /\ pc = "txtype" /\ UNCHANGED <<text, screen>>
      /\ pc' \in {"recipients", "rejected"}
      /\ \/ tx_obj' = [tx_obj EXCEPT !.extraTxType = type.low]
         \/ tx_obj' = tx_obj
  BY DEF ReadTxType, Step
<1>2. tx_obj \in TxObjects /\ text \in Seq(RlpItem) /\ tx_obj.extraToFieldsItems = 0
  BY <1>1 DEF Inv, Typed, NoneCounted
<1>3. type.low \in 0..255
  BY FieldsAreItems, ItemFacts DEF Inv, MANTX_EXTRAFIELD_COUNT
<1>4. /\ tx_obj' \in TxObjects
      /\ tx_obj'.extraToFieldsItems = 0
      /\ tx_obj'.fields = tx_obj.fields
      /\ tx_obj'.extraFields = tx_obj.extraFields
  <2> HIDE DEF type
  <2>1. CASE tx_obj' = [tx_obj EXCEPT !.extraTxType = type.low]
    <3>1. tx_obj' \in TxObjects
      BY <1>2, <1>3, <2>1, TxObjectUpdates
    <3>2. /\ tx_obj'.extraToFieldsItems = 0
          /\ tx_obj'.fields = tx_obj.fields
          /\ tx_obj'.extraFields = tx_obj.extraFields
      BY <1>2, <2>1 DEF TxObjects
    <3> QED
      BY <3>1, <3>2
  <2>2. CASE tx_obj' = tx_obj
    BY <1>2, <2>2
  <2> QED
    BY <1>1, <2>1, <2>2
<1>5. Typed'
  BY <1>1, <1>2, <1>4 DEF Typed
<1>6. CASE pc' = "recipients"
  <2>1. RootRead' /\ ExtraRead'
    BY <1>1, <1>4
       DEF Inv, RootRead, ExtraRead, PastRoot, PastExtra, RootOf, ExtraOf
  <2> QED
    BY <1>4, <1>5, <1>6, <2>1
       DEF Inv, NoneCounted, RecipientsRead, RecipientsWhole, Validated,
           PastRecipients, PastInner
<1> QED
  BY <1>1, <1>5, <1>6, RejectedStep

LEMMA ReadRecipientsStep ==
  ASSUME Inv, ReadRecipients
  PROVE  Inv'
<1> DEFINE extraToList == tx_obj.extraFields[MANTX_EXTRAFIELD_COUNT]
           max         == MANTX_EXTRALISTFIELD_COUNT
           some        == extraToList.kind = "list" /\ extraToList.rlpLen > 0
<1>1. /\ pc = "recipients" /\ UNCHANGED <<text, screen>>
      /\ pc' \in {"inner", "rejected"}
      /\ tx_obj' = IF some
                   THEN [tx_obj EXCEPT
                           !.extraToListFields = ReadInto(@, extraToList),
                           !.extraToFieldsItems = ItemsRead(extraToList, max)]
                   ELSE tx_obj
  BY DEF ReadRecipients, Step
<1>2. tx_obj \in TxObjects /\ text \in Seq(RlpItem) /\ tx_obj.extraToFieldsItems = 0
  BY <1>1 DEF Inv, Typed, NoneCounted
<1>3. extraToList \in AnItem /\ max \in Nat
  BY FieldsAreItems, ParserAssumption DEF Inv, MANTX_EXTRAFIELD_COUNT
<1>4. tx_obj.extraToListFields \in [1..max -> AnItem]
  BY <1>2 DEF TxObjects
<1>5. /\ ItemsRead(extraToList, max) \in 0..max
      /\ \A i \in 1..ItemsRead(extraToList, max) : i \in DOMAIN extraToList.items
      /\ ReadInto(tx_obj.extraToListFields, extraToList) \in [1..max -> AnItem]
      /\ \A i \in 1..ItemsRead(extraToList, max) :
           ReadInto(tx_obj.extraToListFields, extraToList)[i] = extraToList.items[i]
  <2> HIDE DEF extraToList
  <2> QED
    BY <1>3, <1>4, ReadIntoTyped, ItemsReadCounts
<1>6. /\ tx_obj' \in TxObjects
      /\ tx_obj'.fields = tx_obj.fields
      /\ tx_obj'.extraFields = tx_obj.extraFields
      /\ \A i \in 1..tx_obj'.extraToFieldsItems :
           /\ i \in DOMAIN extraToList.items
           /\ tx_obj'.extraToListFields[i] = extraToList.items[i]
  <2> HIDE DEF extraToList
  <2>1. CASE some
    <3>1. /\ tx_obj'.fields = tx_obj.fields
          /\ tx_obj'.extraFields = tx_obj.extraFields
          /\ tx_obj'.extraToListFields
               = ReadInto(tx_obj.extraToListFields, extraToList)
          /\ tx_obj'.extraToFieldsItems = ItemsRead(extraToList, max)
          /\ tx_obj' \in TxObjects
      BY <1>1, <1>2, <1>5, <2>1 DEF TxObjects
    <3> QED
      BY <1>5, <3>1
  <2>2. CASE ~some
    BY <1>1, <1>2, <2>2
  <2> QED
    BY <2>1, <2>2
<1>7. Typed'
  BY <1>1, <1>2, <1>6 DEF Typed
<1>8. CASE pc' = "inner"
  <2>1. RootRead' /\ ExtraRead'
    BY <1>1, <1>6
       DEF Inv, RootRead, ExtraRead, PastRoot, PastExtra, RootOf, ExtraOf
  <2>2. extraToList = ExtraOf[MANTX_EXTRAFIELD_COUNT]
    BY <1>1 DEF Inv, ExtraRead, PastExtra, MANTX_EXTRAFIELD_COUNT
  <2>3. RecipientsRead'
    <3> HIDE DEF extraToList
    <3> QED
      BY <1>1, <1>6, <2>2 DEF RecipientsRead, RecipientsOf, ExtraOf, RootOf
  <2> QED
    BY <1>7, <1>8, <2>1, <2>3
       DEF Inv, NoneCounted, RecipientsWhole, Validated, PastInner
<1> QED
  BY <1>1, <1>7, <1>8, RejectedStep

(* What was read stays read while tx_obj and the text do.                  *)
LEMMA ReadingsStay ==
  ASSUME Inv, UNCHANGED <<text, tx_obj>>
  PROVE  /\ text' \in Seq(RlpItem) /\ tx_obj' \in TxObjects
         /\ pc \in PastRoot => RootRead'
         /\ pc \in PastExtra => ExtraRead'
         /\ pc \in PastRecipients => RecipientsRead'
         /\ pc \in PastInner => RecipientsWhole'
BY DEF Inv, Typed, RootRead, ExtraRead, RecipientsRead, RecipientsWhole,
       RootOf, ExtraOf, RecipientsOf, WholeRecipient, ListError, ItemsRead

LEMMA CheckRecipientsStep ==
  ASSUME Inv, CheckRecipients
  PROVE  Inv'
<1> DEFINE all == \A i \in 1..tx_obj.extraToFieldsItems :
                    WholeRecipient(tx_obj.extraToListFields[i])
<1>1. /\ pc = "inner" /\ UNCHANGED <<text, tx_obj>>
      /\ pc' = IF Check(all, "unexpected_value") = "ok" THEN "validate" ELSE "rejected"
  BY DEF CheckRecipients, Step
<1>2. Typed'
  BY <1>1, ReadingsStay DEF Typed
<1>3. CASE pc' = "validate"
  <2>1. all
    BY <1>1, <1>3 DEF Check
  <2>2. RecipientsWhole'
    BY <1>1, <2>1 DEF RecipientsWhole, WholeRecipient, ListError, ItemsRead
  <2>3. RootRead' /\ ExtraRead' /\ RecipientsRead'
    BY <1>1, ReadingsStay DEF PastRoot, PastExtra, PastRecipients
  <2> QED
    BY <1>2, <1>3, <2>2, <2>3 DEF Inv, NoneCounted, Validated
<1> QED
  BY <1>1, <1>2, <1>3, RejectedStep

(* What a page shows depends on tx_obj alone.                              *)
LEMMA PagesStay ==
  ASSUME UNCHANGED tx_obj, NEW idx, NEW w
  PROVE  /\ NumItems' = NumItems
         /\ GetItem(idx, w)' = GetItem(idx, w)
<1>1. NumItems' = NumItems
  BY DEF NumItems
<1>2. /\ PrintExtraFields(idx, w)' = PrintExtraFields(idx, w)
      /\ PrintTxType' = PrintTxType
      /\ PrintDataField(tx_obj.fields[6])' = PrintDataField(tx_obj.fields[6])
  BY DEF PrintExtraFields, PrintTxType, PrintDataField
<1> QED
  BY <1>1, <1>2 DEF GetItem

LEMMA ParserValidateStep ==
  ASSUME Inv, ParserValidate
  PROVE  Inv'
<1> DEFINE all == \A idx \in 0..(NumItems - 1) : GetItem(idx, TmpLen).err = "ok"
<1>1. /\ pc = "validate" /\ UNCHANGED <<text, tx_obj>>
      /\ pc' = IF Check(all, "unexpected_value") = "ok" THEN "review" ELSE "rejected"
  BY DEF ParserValidate, Step
<1>2. Typed'
  BY <1>1, ReadingsStay DEF Typed
<1>3. CASE pc' = "review"
  <2>1. all
    BY <1>1, <1>3 DEF Check
  <2>2. Validated'
    BY <1>1, <2>1, PagesStay DEF Validated
  <2>3. RootRead' /\ ExtraRead' /\ RecipientsRead' /\ RecipientsWhole'
    BY <1>1, ReadingsStay DEF PastRoot, PastExtra, PastRecipients, PastInner
  <2> QED
    BY <1>2, <1>3, <2>2, <2>3 DEF Inv, NoneCounted
<1> QED
  BY <1>1, <1>2, <1>3, RejectedStep

LEMMA ParseStays ==
  ASSUME Inv, UNCHANGED <<text, tx_obj, pc>>
  PROVE  Inv'
<1>1. Typed'
  BY ReadingsStay DEF Inv, Typed
<1>2. RootRead' /\ ExtraRead' /\ RecipientsRead' /\ RecipientsWhole'
  BY ReadingsStay DEF RootRead, ExtraRead, RecipientsRead, RecipientsWhole
<1>3. NoneCounted'
  BY DEF Inv, NoneCounted
<1>4. Validated'
  BY PagesStay DEF Inv, Validated
<1> QED
  BY <1>1, <1>2, <1>3, <1>4 DEF Inv

LEMMA InvStep ==
  ASSUME Inv, [Next]_vars
  PROVE  Inv'
<1>1. CASE \E t \in Texts : ParserInitContext(t)
  BY <1>1, ParserInitContextStep
<1>2. CASE ReadRoot
  BY <1>2, ReadRootStep
<1>3. CASE ReadExtraFields
  BY <1>3, ReadExtraFieldsStep
<1>4. CASE ReadTxType
  BY <1>4, ReadTxTypeStep
<1>5. CASE ReadRecipients
  BY <1>5, ReadRecipientsStep
<1>6. CASE CheckRecipients
  BY <1>6, CheckRecipientsStep
<1>7. CASE ParserValidate
  BY <1>7, ParserValidateStep
<1>8. CASE \E i \in 0..(MANTX_DISPLAY_COUNT + 3 * MANTX_EXTRALISTFIELD_COUNT),
              w \in Widths : TxGetItem(i, w)
  BY <1>8, ParseStays DEF TxGetItem
<1>9. CASE UNCHANGED vars
  BY <1>9, ParseStays DEF vars
<1> QED
  BY <1>1, <1>2, <1>3, <1>4, <1>5, <1>6, <1>7, <1>8, <1>9 DEF Next

LEMMA InvAlways == Spec => []Inv
<1>1. Init => Inv
  BY InitInv
<1>2. Inv /\ [Next]_vars => Inv'
  BY InvStep
<1> QED
  BY <1>1, <1>2, PTL DEF Spec

-----------------------------------------------------------------------------
(* The verdict.  What the text has, of what a reviewed one must have, when *)
(* tx_parse has come so far.                                               *)

PastType == {"recipients"} \cup PastRecipients

RootPassed ==
  pc \in PastRoot => Whole(text[1], MANTX_ROOTFIELD_COUNT)

ExtraPassed ==
  pc \in PastExtra =>
    /\ Whole(RootOf[MANTX_ROOTFIELD_COUNT], 1)
    /\ Whole(RootOf[MANTX_ROOTFIELD_COUNT].items[1], MANTX_EXTRAFIELD_COUNT)

TypePassed ==
  pc \in PastType =>
    IsNumber(ExtraOf[1]) /\ tx_obj.extraTxType = ExtraOf[1].low

HasRecipients(list) == list.kind = "list" /\ list.rlpLen > 0

RecipientsPassed ==
  pc \in PastRecipients =>
    /\ HasRecipients(ExtraOf[3]) =>
         /\ ExtraOf[3].broken =>
              Len(RecipientsOf) >= MANTX_EXTRALISTFIELD_COUNT
         /\ tx_obj.extraToFieldsItems
              = ItemsRead(ExtraOf[3], MANTX_EXTRALISTFIELD_COUNT)
    /\ ~HasRecipients(ExtraOf[3]) => tx_obj.extraToFieldsItems = 0

VerdictInv ==
  /\ Inv
  /\ RootPassed
  /\ ExtraPassed
  /\ TypePassed
  /\ RecipientsPassed
  /\ VerdictIsOfText

(* A list is whole when it is read without an error and to its end.        *)
LEMMA WholeIsReadWhole ==
  ASSUME NEW list \in AnItem, NEW n \in Nat
  PROVE  /\ Whole(list, n)
              <=> ListError(list, n) = "ok" /\ ItemsRead(list, n) = n
         /\ Whole(list, n) => \A i \in 1..n : i \in DOMAIN list.items
<1>1. list.items \in Seq(AnItem)
  BY ItemFacts
<1>2. Len(list.items) \in Nat /\ DOMAIN list.items = 1..Len(list.items)
  BY <1>1
<1> QED
  BY <1>2 DEF Whole, ListError, ItemsRead

LEMMA NumbersFit ==
  ASSUME NEW item \in AnItem
  PROVE  /\ NumberError(item) = "ok" <=> IsNumber(item)
         /\ Decimal(item, TmpLen) = "ok" <=> NumberFits(item)
<1>1. NumberError(item) = "ok" <=> IsNumber(item)
  BY ItemFacts DEF NumberError, IsNumber
<1>2. Decimal(item, TmpLen) = "ok"
        <=> NumberError(item) = "ok"
            /\ Check(item.digits < TmpLen, "unexpected_error") = "ok"
  BY FirstOfTwo, Zenon DEF Decimal
<1>3. Check(item.digits < TmpLen, "unexpected_error") = "ok"
        <=> item.digits < TmpLen
  BY DEF Check
<1> QED
  BY <1>1, <1>2, <1>3, Zenon DEF NumberFits

LEMMA ReadRootVerdict ==
  ASSUME VerdictInv, ReadRoot
  PROVE  VerdictInv'
<1> DEFINE root == text[1]
           n    == MANTX_ROOTFIELD_COUNT
           one  == FirstError(<<Check(Len(text) = 1, "unexpected_unparsed_bytes"),
                                Check(root.kind = "list", "unexpected_type")>>)
           all  == Check(ItemsRead(root, n) = n, "unexpected_number_items")
           err  == FirstError(<<one, ListError(root, n), all>>)
<1>1. /\ pc = "root" /\ UNCHANGED text
      /\ pc' = IF err = "ok" THEN "extra" ELSE "rejected"
  BY DEF ReadRoot, Step
<1>2. err = "ok" <=> Len(text) = 1 /\ Whole(root, n)
  <2>1. one = "ok" <=> Len(text) = 1 /\ root.kind = "list"
    <3>1. /\ Check(Len(text) = 1, "unexpected_unparsed_bytes") = "ok"
               <=> Len(text) = 1
          /\ Check(root.kind = "list", "unexpected_type") = "ok"
               <=> root.kind = "list"
      BY DEF Check
    <3> QED
      BY <3>1, FirstOfTwo, Zenon
  <2>2. err = "ok" <=> one = "ok" /\ ListError(root, n) = "ok" /\ all = "ok"
    BY FirstOfThree
  <2>3. all = "ok" <=> ItemsRead(root, n) = n
    BY DEF Check
  <2>4. CASE Len(text) = 1
    <3>1. root \in AnItem
      <4>1. text \in Seq(RlpItem)
        BY DEF VerdictInv, Inv, Typed
      <4> QED
        BY <2>4, <4>1 DEF AnItem
    <3>2. n \in Nat
      BY DEF MANTX_ROOTFIELD_COUNT
    <3>3. Whole(root, n) <=> ListError(root, n) = "ok" /\ ItemsRead(root, n) = n
      BY <3>1, <3>2, WholeIsReadWhole, Zenon
    <3>4. Whole(root, n) => root.kind = "list"
      BY DEF Whole
    <3> QED
      BY <2>1, <2>2, <2>3, <2>4, <3>3, <3>4, Zenon
  <2> QED
    BY <2>1, <2>2, <2>4, Zenon
<1>3. Inv'
  BY ReadRootStep DEF VerdictInv
<1>4. pc' = "extra" => Len(text') = 1 /\ Whole(text'[1], n)
  BY <1>1, <1>2
<1>5. pc' = "rejected" => ~Acceptable(text')
  BY <1>1, <1>2 DEF Acceptable
<1>6. pc' \in {"extra", "rejected"}
  BY <1>1
<1> QED
  BY <1>3, <1>4, <1>5, <1>6
     DEF VerdictInv, RootPassed, ExtraPassed, TypePassed, RecipientsPassed,
         VerdictIsOfText, PastRoot, PastExtra, PastType, PastRecipients, PastInner

LEMMA ReadExtraFieldsVerdict ==
  ASSUME VerdictInv, ReadExtraFields
  PROVE  VerdictInv'
<1> DEFINE outer == tx_obj.fields[MANTX_ROOTFIELD_COUNT]
           inner == ReadInto(<<Cleared>>, outer)[1]
           n     == MANTX_EXTRAFIELD_COUNT
           all   == Check(ItemsRead(inner, n) = n, "unexpected_number_items")
           err   == FirstError(<<ListError(outer, 1), ListError(inner, n), all>>)
<1>1. /\ pc = "extra" /\ UNCHANGED text
      /\ pc' = IF err = "ok" THEN "txtype" ELSE "rejected"
  BY DEF ReadExtraFields, Step
<1>2. /\ Typed
      /\ Whole(text[1], MANTX_ROOTFIELD_COUNT)
      /\ Len(text) = 1
      /\ outer = RootOf[MANTX_ROOTFIELD_COUNT]
  BY <1>1 DEF VerdictInv, Inv, RootPassed, RootRead, PastRoot,
              MANTX_ROOTFIELD_COUNT
<1>3. outer \in AnItem
  BY <1>2, FieldsAreItems DEF MANTX_ROOTFIELD_COUNT
<1>4. inner = IF 1 <= ItemsRead(outer, 1) THEN outer.items[1] ELSE Cleared
  <2>1. Len(<<Cleared>>) = 1
    OBVIOUS
  <2>2. ReadInto(<<Cleared>>, outer)
          = [i \in {1} |-> IF i <= ItemsRead(outer, 1)
                           THEN outer.items[i] ELSE <<Cleared>>[i]]
    BY <2>1 DEF ReadInto
  <2> QED
    BY <2>2
<1>5. inner \in AnItem
  <2>1. ItemsRead(outer, 1) \in 0..1
    BY <1>3, ItemsReadCounts
  <2>2. 1 <= ItemsRead(outer, 1) => outer.items[1] \in AnItem
    BY <1>3, <2>1, ItemsReadCounts
  <2> QED
    BY <1>4, <2>2 DEF AnItem
<1>6. ListError(outer, 1) = "ok" /\ inner.kind = "list"
        => Whole(outer, 1) /\ inner = outer.items[1]
  <2>1. Cleared.kind # "list"
    BY DEF Cleared, Item
  <2>2. ItemsRead(outer, 1) \in 0..1
    BY <1>3, ItemsReadCounts
  <2>3. inner.kind = "list" => ItemsRead(outer, 1) = 1
    BY <1>4, <2>1, <2>2
  <2> QED
    BY <1>3, <1>4, <2>3, WholeIsReadWhole
<1>7. Whole(outer, 1) => ListError(outer, 1) = "ok" /\ inner = outer.items[1]
  BY <1>3, <1>4, WholeIsReadWhole
<1>8. err = "ok" <=> Whole(outer, 1) /\ Whole(outer.items[1], n)
  <2> HIDE DEF inner, outer
  <2>1. err = "ok" <=> ListError(outer, 1) = "ok" /\ ListError(inner, n) = "ok"
                         /\ all = "ok"
    BY FirstOfThree
  <2>2. all = "ok" <=> ItemsRead(inner, n) = n
    BY DEF Check
  <2>3. n \in Nat
    BY DEF MANTX_EXTRAFIELD_COUNT
  <2>4. Whole(inner, n) <=> ListError(inner, n) = "ok" /\ ItemsRead(inner, n) = n
    BY <1>5, <2>3, WholeIsReadWhole, Zenon
  <2>5. Whole(inner, n) => inner.kind = "list"
    BY DEF Whole
  <2> QED
    BY <1>6, <1>7, <2>1, <2>2, <2>4, <2>5, Zenon
<1>9. Inv'
  BY ReadExtraFieldsStep DEF VerdictInv
<1>10. pc' = "txtype" =>
         /\ Whole(text'[1], MANTX_ROOTFIELD_COUNT)
         /\ Whole(text'[1].items[MANTX_ROOTFIELD_COUNT], 1)
         /\ Whole(text'[1].items[MANTX_ROOTFIELD_COUNT].items[1], n)
  <2> HIDE DEF inner
  <2> QED
    BY <1>1, <1>2, <1>8 DEF RootOf
<1>11. pc' = "rejected" => ~Acceptable(text')
  <2> HIDE DEF inner
  <2> QED
    BY <1>1, <1>2, <1>8 DEF Acceptable, RootOf
<1>12. pc' \in {"txtype", "rejected"}
  BY <1>1
<1> QED
  BY <1>9, <1>10, <1>11, <1>12
     DEF VerdictInv, RootPassed, ExtraPassed, TypePassed, RecipientsPassed, RootOf,
         VerdictIsOfText, PastRoot, PastExtra, PastType, PastRecipients, PastInner

(* What passed stays passed while the text and what was read of it do.     *)
LEMMA PassedStays ==
  ASSUME VerdictInv, UNCHANGED text
  PROVE  /\ pc \in PastRoot => RootPassed'
         /\ pc \in PastExtra => ExtraPassed'
         /\ pc \in PastType /\ UNCHANGED tx_obj.extraTxType => TypePassed'
         /\ pc \in PastRecipients /\ UNCHANGED tx_obj.extraToFieldsItems
              => RecipientsPassed'
<1>1. RootOf' = RootOf /\ ExtraOf' = ExtraOf /\ RecipientsOf' = RecipientsOf
  BY DEF RootOf, ExtraOf, RecipientsOf
<1>2. pc \in PastRoot => RootPassed'
  BY DEF VerdictInv, RootPassed
<1>3. pc \in PastExtra => ExtraPassed'
  BY <1>1 DEF VerdictInv, ExtraPassed
<1>4. pc \in PastType /\ UNCHANGED tx_obj.extraTxType => TypePassed'
  BY <1>1 DEF VerdictInv, TypePassed
<1>5. pc \in PastRecipients /\ UNCHANGED tx_obj.extraToFieldsItems
        => RecipientsPassed'
  BY <1>1 DEF VerdictInv, RecipientsPassed, ItemsRead
<1> QED
  BY <1>2, <1>3, <1>4, <1>5

LEMMA ReadTxTypeVerdict ==
  ASSUME VerdictInv, ReadTxType
  PROVE  VerdictInv'
<1> DEFINE type == tx_obj.extraFields[1]
           err  == FirstError(<<NumberError(type),
                                Check(type.low <= MANTX_TXTYPE_SUPERBLOCK,
                                      "value_out_of_range")>>)
<1>1. /\ pc = "txtype" /\ UNCHANGED text
      /\ pc' = IF err = "ok" THEN "recipients" ELSE "rejected"
      /\ tx_obj' = IF NumberError(type) = "ok"
                   THEN [tx_obj EXCEPT !.extraTxType = type.low]
                   ELSE tx_obj
  BY DEF ReadTxType, Step
<1>2. tx_obj \in TxObjects /\ type = ExtraOf[1]
  BY <1>1 DEF VerdictInv, Inv, Typed, ExtraRead, PastExtra, MANTX_EXTRAFIELD_COUNT
<1> type \in AnItem
  BY FieldsAreItems DEF VerdictInv, Inv, MANTX_EXTRAFIELD_COUNT
<1>3. err = "ok" <=> IsNumber(type) /\ type.low <= MANTX_TXTYPE_SUPERBLOCK
  <2>1. err = "ok"
          <=> NumberError(type) = "ok"
              /\ Check(type.low <= MANTX_TXTYPE_SUPERBLOCK,
                       "value_out_of_range") = "ok"
    BY FirstOfTwo, Zenon
  <2>2. Check(type.low <= MANTX_TXTYPE_SUPERBLOCK, "value_out_of_range") = "ok"
          <=> type.low <= MANTX_TXTYPE_SUPERBLOCK
    BY DEF Check
  <2> QED
    BY <2>1, <2>2, NumbersFit, Zenon
<1>4. type.low \in NamedTypes => type.low <= MANTX_TXTYPE_SUPERBLOCK
  BY DEF NamedTypes, MANTX_TXTYPE_SUPERBLOCK
<1>5. Inv'
  BY ReadTxTypeStep DEF VerdictInv
<1>6. RootPassed' /\ ExtraPassed'
  BY <1>1, PassedStays DEF PastRoot, PastExtra
<1>7. pc' = "recipients" => TypePassed'
  <2>1. ExtraOf' = ExtraOf
    BY <1>1 DEF ExtraOf, RootOf
  <2>2. IsNumber(type) => tx_obj'.extraTxType = type.low
    <3> HIDE DEF type
    <3> QED
      BY <1>1, <1>2, NumbersFit DEF TxObjects
  <2>3. pc' = "recipients" => IsNumber(type)
    BY <1>1, <1>3
  <2> QED
    BY <1>2, <2>1, <2>2, <2>3 DEF TypePassed
<1>8. pc' = "rejected" => ~Acceptable(text')
  <2>1. Acceptable(text) => IsNumber(ExtraOf[1]) /\ ExtraOf[1].low \in NamedTypes
    BY DEF Acceptable, ExtraFits, ExtraOf, RootOf
  <2> QED
    BY <1>1, <1>2, <1>3, <1>4, <2>1
<1>9. pc' \in {"recipients", "rejected"}
  BY <1>1
<1> QED
  BY <1>5, <1>6, <1>7, <1>8, <1>9
     DEF VerdictInv, TypePassed, RecipientsPassed, VerdictIsOfText,
         PastType, PastRecipients, PastInner

LEMMA ReadRecipientsVerdict ==
  ASSUME VerdictInv, ReadRecipients
  PROVE  VerdictInv'
<1> DEFINE list == tx_obj.extraFields[MANTX_EXTRAFIELD_COUNT]
           max  == MANTX_EXTRALISTFIELD_COUNT
<1>1. /\ pc = "recipients" /\ UNCHANGED text
      /\ pc' = IF (IF HasRecipients(list) THEN ListError(list, max) ELSE "ok") = "ok"
               THEN "inner" ELSE "rejected"
      /\ tx_obj' = IF HasRecipients(list)
                   THEN [tx_obj EXCEPT
                           !.extraToListFields = ReadInto(@, list),
                           !.extraToFieldsItems = ItemsRead(list, max)]
                   ELSE tx_obj
  BY DEF ReadRecipients, Step, HasRecipients
<1>2. /\ tx_obj \in TxObjects /\ tx_obj.extraToFieldsItems = 0
      /\ list = ExtraOf[3]
  BY <1>1 DEF VerdictInv, Inv, Typed, ExtraRead, PastExtra, NoneCounted,
              MANTX_EXTRAFIELD_COUNT
<1>3. list \in AnItem /\ max \in Nat
  BY FieldsAreItems, ParserAssumption DEF VerdictInv, Inv, MANTX_EXTRAFIELD_COUNT
<1>4. Len(list.items) \in Nat
  <2>1. list.items \in Seq(AnItem)
    BY <1>3, ItemFacts
  <2> QED
    BY <2>1
<1>5. HasRecipients(list) =>
        (ListError(list, max) = "ok" <=> (list.broken => Len(list.items) >= max))
  <2> HIDE DEF list
  <2> QED
    BY <1>3, <1>4 DEF ListError, HasRecipients
<1>6. /\ HasRecipients(list) => tx_obj'.extraToFieldsItems = ItemsRead(list, max)
      /\ ~HasRecipients(list) => tx_obj'.extraToFieldsItems = 0
      /\ tx_obj'.extraTxType = tx_obj.extraTxType
  <2> HIDE DEF list
  <2> QED
    BY <1>1, <1>2 DEF TxObjects
<1>7. Inv'
  BY ReadRecipientsStep DEF VerdictInv
<1>8. RootPassed' /\ ExtraPassed' /\ TypePassed'
  BY <1>1, <1>6, PassedStays DEF PastRoot, PastExtra, PastType
<1>9. pc' = "inner" => RecipientsPassed'
  <2>1. ExtraOf' = ExtraOf /\ RecipientsOf' = ExtraOf[3].items
    BY <1>1 DEF RecipientsOf, ExtraOf, RootOf, MANTX_EXTRAFIELD_COUNT
  <2>2. ItemsRead(ExtraOf[3], max)' = ItemsRead(ExtraOf[3], max)
    BY <2>1 DEF ItemsRead
  <2>3. HasRecipients(ExtraOf[3])' <=> HasRecipients(ExtraOf[3])
    BY <2>1 DEF HasRecipients
  <2> QED
    BY <1>1, <1>2, <1>5, <1>6, <2>1, <2>2, <2>3 DEF RecipientsPassed
<1>10. pc' = "rejected" => ~Acceptable(text')
  <2>1. Acceptable(text) /\ HasRecipients(ExtraOf[3]) =>
          (ExtraOf[3].broken => Len(ExtraOf[3].items) >= max)
    BY DEF Acceptable, ExtraFits, RecipientsFit, HasRecipients, ExtraOf, RootOf
  <2> QED
    BY <1>1, <1>2, <1>5, <2>1
<1>11. pc' \in {"inner", "rejected"}
  BY <1>1
<1> QED
  BY <1>7, <1>8, <1>9, <1>10, <1>11
     DEF VerdictInv, RecipientsPassed, VerdictIsOfText, PastRecipients, PastInner
(* The recipients counted are those of the text tx_obj has room for.       *)
LEMMA RecipientsCounted ==
  ASSUME VerdictInv, pc \in PastRecipients
  PROVE  /\ \A r \in 1..tx_obj.extraToFieldsItems :
              tx_obj.extraToListFields[r] \in AnItem
         /\ RecipientsFit(ExtraOf[3])
              <=> \A r \in 1..tx_obj.extraToFieldsItems :
                    /\ Whole(tx_obj.extraToListFields[r], 3)
                    /\ NumberFits(Part(r, 2))
<1> DEFINE list == ExtraOf[3]
           max  == MANTX_EXTRALISTFIELD_COUNT
           n    == tx_obj.extraToFieldsItems
<1>1. /\ Typed
      /\ \A r \in 1..n : r \in DOMAIN RecipientsOf
                         /\ tx_obj.extraToListFields[r] = RecipientsOf[r]
  BY DEF VerdictInv, Inv, RecipientsRead
<1>2. RecipientsOf = list.items
  BY DEF RecipientsOf, MANTX_EXTRAFIELD_COUNT
<1>3. n \in Nat /\ max \in Nat /\ n <= max
  BY <1>1, FieldsAreItems, ParserAssumption
<1>4. \A r \in 1..n : tx_obj.extraToListFields[r] \in AnItem
  BY <1>1, <1>3, FieldsAreItems
<1>5. list \in AnItem
  <2>1. pc \in PastExtra
    BY DEF PastExtra
  <2>2. list = tx_obj.extraFields[3]
    BY <2>1 DEF VerdictInv, Inv, ExtraRead, MANTX_EXTRAFIELD_COUNT
  <2> QED
    BY <1>1, <2>2, FieldsAreItems DEF MANTX_EXTRAFIELD_COUNT
<1>6. CASE HasRecipients(list)
  <2>1. /\ list.broken => Len(list.items) >= max
        /\ n = ItemsRead(list, max)
    BY <1>2, <1>6 DEF VerdictInv, RecipientsPassed
  <2>2. Len(list.items) \in Nat /\ DOMAIN list.items = 1..Len(list.items)
    <3>1. list.items \in Seq(AnItem)
      BY <1>5, ItemFacts
    <3> QED
      BY <3>1
  <2>3. \A r : r \in 1..n <=> r \in DOMAIN list.items /\ r <= max
    BY <1>3, <2>1, <2>2 DEF ItemsRead
  <2>4. \A r \in 1..n : /\ tx_obj.extraToListFields[r] = list.items[r]
                        /\ Part(r, 2) = list.items[r].items[2]
    BY <1>1, <1>2 DEF Part
  <2>5. RecipientsFit(list)
          <=> \A r \in DOMAIN list.items : r <= max =>
                Whole(list.items[r], 3) /\ NumberFits(list.items[r].items[2])
    BY <1>6, <2>1 DEF RecipientsFit, HasRecipients, MANTX_EXTRATOFIELD_COUNT
  <2> HIDE DEF list, n, max
  <2>6. RecipientsFit(list)
          <=> \A r \in 1..n : /\ Whole(tx_obj.extraToListFields[r], 3)
                              /\ NumberFits(Part(r, 2))
    BY <2>3, <2>4, <2>5, Zenon
  <2> QED
    BY <1>4, <2>6 DEF list, n
<1>7. CASE ~HasRecipients(list)
  <2>1. n = 0
    BY <1>7 DEF VerdictInv, RecipientsPassed
  <2>2. RecipientsFit(list)
    BY <1>7 DEF RecipientsFit, HasRecipients
  <2> QED
    BY <1>4, <2>1, <2>2
<1> QED
  BY <1>6, <1>7

LEMMA FitIsAcceptable ==
  ASSUME VerdictInv, pc \in {"inner", "validate"}
  PROVE  Acceptable(text) <=> FieldsFit(RootOf) /\ ExtraFits(ExtraOf)
BY DEF VerdictInv, Inv, RootRead, RootPassed, ExtraPassed, Acceptable, RootOf,
       ExtraOf, PastRoot, PastExtra, PastRecipients, PastInner

LEMMA CheckRecipientsVerdict ==
  ASSUME VerdictInv, CheckRecipients
  PROVE  VerdictInv'
<1> DEFINE all == \A i \in 1..tx_obj.extraToFieldsItems :
                    WholeRecipient(tx_obj.extraToListFields[i])
<1>1. /\ pc = "inner" /\ UNCHANGED <<text, tx_obj>>
      /\ pc' = IF Check(all, "unexpected_value") = "ok" THEN "validate" ELSE "rejected"
  BY DEF CheckRecipients, Step
<1>2. pc' = IF all THEN "validate" ELSE "rejected"
  BY <1>1 DEF Check
<1>3. Inv'
  BY CheckRecipientsStep DEF VerdictInv
<1>4. RootPassed' /\ ExtraPassed' /\ TypePassed' /\ RecipientsPassed'
  BY <1>1, PassedStays DEF PastRoot, PastExtra, PastType, PastRecipients
<1>5. Acceptable(text) => all
  <2>1. SUFFICES ASSUME Acceptable(text),
                        NEW i \in 1..tx_obj.extraToFieldsItems
                 PROVE  WholeRecipient(tx_obj.extraToListFields[i])
    BY Zenon
  <2>2. pc \in PastRecipients
    BY <1>1 DEF PastRecipients
  <2>3. RecipientsFit(ExtraOf[3])
    BY <1>1, <2>1, FitIsAcceptable DEF ExtraFits
  <2>4. /\ Whole(tx_obj.extraToListFields[i], 3)
        /\ tx_obj.extraToListFields[i] \in AnItem
    BY <2>2, <2>3, RecipientsCounted
  <2>5. 3 \in Nat
    OBVIOUS
  <2> QED
    BY <2>4, <2>5, WholeIsReadWhole DEF WholeRecipient, MANTX_EXTRATOFIELD_COUNT
<1>6. pc' = "rejected" => ~Acceptable(text')
  BY <1>1, <1>2, <1>5
<1>7. pc' \in {"validate", "rejected"}
  BY <1>2
<1> QED
  BY <1>3, <1>4, <1>6, <1>7 DEF VerdictInv, VerdictIsOfText

(* parser_validate asks for every page; each tests one of the conditions.  *)
LEMMA PagesFit ==
  ASSUME VerdictInv, pc = "validate"
  PROVE  (\A idx \in 0..(NumItems - 1) : GetItem(idx, TmpLen).err = "ok")
           <=> FieldsFit(RootOf) /\ ExtraFits(ExtraOf)
<1> DEFINE field(i)  == tx_obj.fields[i]
           ok(idx)   == GetItem(idx, TmpLen).err = "ok"
           n         == tx_obj.extraToFieldsItems
           recipient == tx_obj.extraToListFields
<1>1. /\ Typed
      /\ \A i \in 1..13 : field(i) = RootOf[i]
      /\ \A i \in 1..3 : tx_obj.extraFields[i] = ExtraOf[i]
      /\ \A r \in 1..n : WholeRecipient(recipient[r])
      /\ IsNumber(ExtraOf[1]) /\ tx_obj.extraTxType = ExtraOf[1].low
  BY DEF VerdictInv, Inv, RootRead, ExtraRead, RecipientsWhole, TypePassed,
         PastRoot, PastExtra, PastType, PastRecipients, PastInner,
         MANTX_ROOTFIELD_COUNT, MANTX_EXTRAFIELD_COUNT
<1>2. /\ tx_obj.fields[1] = RootOf[1] /\ tx_obj.fields[2] = RootOf[2]
      /\ tx_obj.fields[3] = RootOf[3] /\ tx_obj.fields[5] = RootOf[5]
      /\ tx_obj.fields[7] = RootOf[7] /\ tx_obj.fields[8] = RootOf[8]
      /\ tx_obj.fields[11] = RootOf[11] /\ tx_obj.fields[12] = RootOf[12]
      /\ tx_obj.extraFields[2] = ExtraOf[2]
  BY <1>1
<1>3. \A i \in 1..13 : RootOf[i] \in AnItem
  BY <1>1, FieldsAreItems DEF MANTX_ROOTFIELD_COUNT
<1>4. \A i \in 1..3 : ExtraOf[i] \in AnItem
  BY <1>1, FieldsAreItems DEF MANTX_EXTRAFIELD_COUNT
<1>5. \A key : \A item \in AnItem :
        Number(key, item, TmpLen).err = "ok" <=> NumberFits(item)
  <2>1. \A key, item : Number(key, item, TmpLen).err = Decimal(item, TmpLen)
    BY DEF Number, Shown
  <2> QED
    BY <2>1, NumbersFit, Zenon
<1>6. /\ ok(0) <=> NumberFits(RootOf[1])
      /\ ok(1) <=> NumberFits(RootOf[2])
      /\ ok(2) <=> NumberFits(RootOf[3])
      /\ ok(4) <=> NumberFits(RootOf[5])
      /\ ok(7) <=> NumberFits(RootOf[8])
      /\ ok(8) <=> NumberFits(RootOf[11])
      /\ ok(11) <=> NumberFits(ExtraOf[2])
  <2>1. /\ GetItem(0, TmpLen) = Number("Nonce", RootOf[1], TmpLen)
        /\ GetItem(1, TmpLen) = Number("Gas Price", RootOf[2], TmpLen)
        /\ GetItem(2, TmpLen) = Number("Gas Limit", RootOf[3], TmpLen)
        /\ GetItem(4, TmpLen) = Number("Value", RootOf[5], TmpLen)
    BY <1>2, <1>1, PagesByIndex, Zenon
  <2>2. /\ GetItem(7, TmpLen) = Number("EnterType", RootOf[8], TmpLen)
        /\ GetItem(8, TmpLen) = Number("IsEntrustTx", RootOf[11], TmpLen)
        /\ GetItem(11, TmpLen) = Number("Lock Height", ExtraOf[2], TmpLen)
    BY <1>2, <1>1, PagesByIndex, Zenon
  <2>3. /\ RootOf[1] \in AnItem /\ RootOf[2] \in AnItem /\ RootOf[3] \in AnItem
        /\ RootOf[5] \in AnItem /\ RootOf[8] \in AnItem
        /\ RootOf[11] \in AnItem /\ ExtraOf[2] \in AnItem
    BY <1>3, <1>4
  <2>4. ASSUME NEW idx, NEW key, NEW item \in AnItem,
               GetItem(idx, TmpLen) = Number(key, item, TmpLen)
        PROVE  ok(idx) <=> NumberFits(item)
    BY <1>5, <2>4, Zenon
  <2>5. ok(0) <=> NumberFits(RootOf[1])
    BY <2>1, <2>3, <2>4
  <2>6. ok(1) <=> NumberFits(RootOf[2])
    BY <2>1, <2>3, <2>4
  <2>7. ok(2) <=> NumberFits(RootOf[3])
    BY <2>1, <2>3, <2>4
  <2>8. ok(4) <=> NumberFits(RootOf[5])
    BY <2>1, <2>3, <2>4
  <2>9. ok(7) <=> NumberFits(RootOf[8])
    BY <2>2, <2>3, <2>4
  <2>10. ok(8) <=> NumberFits(RootOf[11])
    BY <2>2, <2>3, <2>4
  <2>11. ok(11) <=> NumberFits(ExtraOf[2])
    BY <2>2, <2>3, <2>4
  <2> QED
    BY <2>5, <2>6, <2>7, <2>8, <2>9, <2>10, <2>11
<1>7. ok(3)
  <2>1. Shown("ok", "To", field(4), "text").err = "ok"
    BY DEF Shown
  <2> QED
    BY <1>1, <2>1, PagesByIndex
<1>8. ok(5) <=> ExtraOf[1].low \in NamedTypes
  <2>1. \A item : PrintDataField(item).err = "ok"
                    <=> tx_obj.extraTxType \in NamedTypes
    BY DEF PrintDataField, Shown, TextForms, HexForms, NamedTypes
  <2> QED
    BY <1>1, <2>1, PagesByIndex
<1>9. ok(10) <=> ExtraOf[1].low \in NamedTypes
  <2>1. PrintTxType.err = "ok" <=> tx_obj.extraTxType \in NamedTypes
    BY DEF PrintTxType, Shown, Check, TextForms, HexForms, NamedTypes
  <2> QED
    BY <1>1, <2>1, PagesByIndex
<1>10. ok(6) <=> RootOf[7].kind = "byte" /\ RootOf[7].rlpLen = 0
  <2>1. \A item : PrintChainID(item).err = "ok"
                    <=> item.kind = "byte" /\ item.rlpLen = 0
    BY DEF PrintChainID, Shown, Check
  <2>2. GetItem(6, TmpLen) = PrintChainID(RootOf[7])
    BY <1>2, <1>1, PagesByIndex, Zenon
  <2> QED
    BY <2>1, <2>2, Zenon
<1>11. ok(9) <=> IsNumber(RootOf[12]) /\ RootOf[12].date
  <2>1. ASSUME NEW item \in AnItem
        PROVE  PrintCommitTime(item).err = "ok" <=> IsNumber(item) /\ item.date
    <3>1. PrintCommitTime(item).err
            = FirstError(<<NumberError(item), Check(item.date, "unexpected_error")>>)
      BY DEF PrintCommitTime, Shown
    <3>2. Check(item.date, "unexpected_error") = "ok" <=> item.date
      BY DEF Check
    <3>3. PrintCommitTime(item).err = "ok"
            <=> NumberError(item) = "ok"
                /\ Check(item.date, "unexpected_error") = "ok"
      BY <3>1, FirstOfTwo
    <3> QED
      BY <3>2, <3>3, NumbersFit
  <2>2. GetItem(9, TmpLen) = PrintCommitTime(RootOf[12])
    BY <1>2, <1>1, PagesByIndex, Zenon
  <2>3. RootOf[12] \in AnItem
    BY <1>3
  <2> QED
    BY <2>1, <2>2, <2>3, Zenon
<1>12. (\A idx \in 0..11 : ok(idx))
         <=> /\ FieldsFit(RootOf)
             /\ ExtraOf[1].low \in NamedTypes
             /\ NumberFits(ExtraOf[2])
  <2>1. (\A idx \in 0..11 : ok(idx))
          <=> ok(0) /\ ok(1) /\ ok(2) /\ ok(3) /\ ok(4) /\ ok(5) /\ ok(6) /\ ok(7)
                /\ ok(8) /\ ok(9) /\ ok(10) /\ ok(11)
    <3> HIDE DEF ok
    <3> QED
      OBVIOUS
  <2>2. FieldsFit(RootOf)
          <=> /\ NumberFits(RootOf[1]) /\ NumberFits(RootOf[2])
              /\ NumberFits(RootOf[3]) /\ NumberFits(RootOf[5])
              /\ NumberFits(RootOf[8]) /\ NumberFits(RootOf[11])
              /\ RootOf[7].kind = "byte" /\ RootOf[7].rlpLen = 0
              /\ IsNumber(RootOf[12]) /\ RootOf[12].date
    BY DEF FieldsFit
  <2> HIDE DEF ok
  <2> QED
    BY <1>6, <1>7, <1>8, <1>9, <1>10, <1>11, <2>1, <2>2, Zenon
<1>13. (\A idx \in 12..(NumItems - 1) : ok(idx))
         <=> \A r \in 1..n : NumberFits(Part(r, 2))
  <2>1. ASSUME NEW r \in 1..n, NEW k \in 1..3
        PROVE  ok(PageOf(r, k)) <=> k # 2 \/ NumberFits(Part(r, k))
    <3>1. ShowsPart(PageOf(r, k), r, k)
      BY <1>1, PartIsShown
    <3> QED
      BY <3>1, NumbersFit DEF ShowsPart
  <2>2. ASSUME NEW r \in 1..n
        PROVE  PageOf(r, 2) \in 12..(NumItems - 1)
    BY <1>1, PagesOfParts
  <2>3. \A idx \in 12..(NumItems - 1) : \E r \in 1..n : \E k \in 1..3 :
          idx = PageOf(r, k)
    BY <1>1, EveryPageIsOfAPart
  <2>4. 2 \in 1..3
    OBVIOUS
  <2> HIDE DEF ok, n
  <2> QED
    BY <2>1, <2>2, <2>3, <2>4
<1>14. RecipientsFit(ExtraOf[3]) <=> \A r \in 1..n : NumberFits(Part(r, 2))
  <2>1. pc \in PastRecipients
    BY DEF PastRecipients, PastInner
  <2>2. 3 \in Nat
    OBVIOUS
  <2>3. \A r \in 1..n : Whole(recipient[r], 3)
    BY <1>1, <2>1, <2>2, RecipientsCounted, WholeIsReadWhole
       DEF WholeRecipient, MANTX_EXTRATOFIELD_COUNT
  <2> QED
    BY <2>1, <2>3, RecipientsCounted
<1>15. (\A idx \in 0..(NumItems - 1) : ok(idx))
         <=> /\ \A idx \in 0..11 : ok(idx)
             /\ \A idx \in 12..(NumItems - 1) : ok(idx)
  <2>1. PICK m \in Nat : NumItems = 12 + m * 3
    BY <1>1, FieldsAreItems
  <2> HIDE DEF ok
  <2> QED
    BY <2>1
<1> QED
  BY <1>1, <1>12, <1>13, <1>14, <1>15, Zenon DEF ExtraFits

LEMMA ParserValidateVerdict ==
  ASSUME VerdictInv, ParserValidate
  PROVE  VerdictInv'
<1> DEFINE all == \A idx \in 0..(NumItems - 1) : GetItem(idx, TmpLen).err = "ok"
<1>1. /\ pc = "validate" /\ UNCHANGED <<text, tx_obj>>
      /\ pc' = IF Check(all, "unexpected_value") = "ok" THEN "review" ELSE "rejected"
  BY DEF ParserValidate, Step
<1>2. pc' = IF all THEN "review" ELSE "rejected"
  BY <1>1 DEF Check
<1>3. all <=> Acceptable(text)
  BY <1>1, PagesFit, FitIsAcceptable
<1>4. VerdictIsOfText'
  <2> HIDE DEF all
  <2> QED
    BY <1>1, <1>2, <1>3 DEF VerdictIsOfText
<1>5. Inv'
  BY ParserValidateStep DEF VerdictInv
<1>6. RootPassed' /\ ExtraPassed' /\ TypePassed' /\ RecipientsPassed'
  BY <1>1, PassedStays DEF PastRoot, PastExtra, PastType, PastRecipients,
                           PastInner
<1> QED
  BY <1>4, <1>5, <1>6 DEF VerdictInv

LEMMA ParserInitContextVerdict ==
  ASSUME VerdictInv, NEW t \in Texts, ParserInitContext(t)
  PROVE  VerdictInv'
<1>1. /\ pc' \in {"rejected", "root"}
      /\ pc' = "rejected" => text' = <<>>
  BY DEF ParserInitContext
<1>2. ~Acceptable(<<>>)
  BY DEF Acceptable
<1>3. Inv'
  BY ParserInitContextStep DEF VerdictInv
<1> QED
  BY <1>1, <1>2, <1>3
     DEF VerdictInv, RootPassed, ExtraPassed, TypePassed, RecipientsPassed,
         VerdictIsOfText, PastRoot, PastExtra, PastType, PastRecipients, PastInner

LEMMA InitVerdict ==
  ASSUME Init
  PROVE  VerdictInv
<1>1. pc = "rejected" /\ text = <<>> /\ Inv
  BY InitInv DEF Init
<1>2. ~Acceptable(<<>>)
  BY DEF Acceptable
<1> QED
  BY <1>1, <1>2
     DEF VerdictInv, RootPassed, ExtraPassed, TypePassed, RecipientsPassed,
         VerdictIsOfText, PastRoot, PastExtra, PastType, PastRecipients, PastInner

LEMMA VerdictStays ==
  ASSUME VerdictInv, UNCHANGED <<text, tx_obj, pc>>
  PROVE  VerdictInv'
<1>1. Inv'
  BY ParseStays DEF VerdictInv
<1>2. VerdictIsOfText'
  BY DEF VerdictInv, VerdictIsOfText
<1>3. RootPassed' /\ ExtraPassed' /\ TypePassed' /\ RecipientsPassed'
  BY PassedStays DEF RootPassed, ExtraPassed, TypePassed, RecipientsPassed
<1> QED
  BY <1>1, <1>2, <1>3 DEF VerdictInv

LEMMA VerdictStep ==
  ASSUME VerdictInv, [Next]_vars
  PROVE  VerdictInv'
<1>1. CASE \E t \in Texts : ParserInitContext(t)
  BY <1>1, ParserInitContextVerdict
<1>2. CASE ReadRoot
  BY <1>2, ReadRootVerdict
<1>3. CASE ReadExtraFields
  BY <1>3, ReadExtraFieldsVerdict
<1>4. CASE ReadTxType
  BY <1>4, ReadTxTypeVerdict
<1>5. CASE ReadRecipients
  BY <1>5, ReadRecipientsVerdict
<1>6. CASE CheckRecipients
  BY <1>6, CheckRecipientsVerdict
<1>7. CASE ParserValidate
  BY <1>7, ParserValidateVerdict
<1>8. CASE \E i \in 0..(MANTX_DISPLAY_COUNT + 3 * MANTX_EXTRALISTFIELD_COUNT),
              w \in Widths : TxGetItem(i, w)
  BY <1>8, VerdictStays DEF TxGetItem
<1>9. CASE UNCHANGED vars
  BY <1>9, VerdictStays DEF vars
<1> QED
  BY <1>1, <1>2, <1>3, <1>4, <1>5, <1>6, <1>7, <1>8, <1>9 DEF Next


-----------------------------------------------------------------------------
(* What the pages say of the places their items have in the text.          *)

PlaceInv ==
  /\ VerdictInv
  /\ text \in Texts \cup {<<>>}

LEMMA PlaceStep ==
  ASSUME PlaceInv, [Next]_vars
  PROVE  PlaceInv'
<1>1. VerdictInv'
  BY VerdictStep DEF PlaceInv
<1>2. text' \in Texts \/ text' = text
  BY DEF Next, vars, ParserInitContext, ReadRoot, ReadExtraFields, ReadTxType,
         ReadRecipients, CheckRecipients, ParserValidate, TxGetItem, Step
<1> QED
  BY <1>1, <1>2 DEF PlaceInv

LEMMA PlaceAlways == Spec => []PlaceInv
<1>1. Init => PlaceInv
  BY InitVerdict DEF PlaceInv, Init
<1> QED
  BY <1>1, PlaceStep, PTL DEF Spec

(* What is known of a reviewed text, and where its items stand.            *)
LEMMA ReviewedItems ==
  ASSUME ItemsArePlaced, PlaceInv, pc = "review"
  PROVE  /\ Typed
         /\ \A i \in 1..13 : /\ tx_obj.fields[i] = RootOf[i]
                             /\ tx_obj.fields[i].at = <<"root", i>>
         /\ \A i \in 1..3 : /\ tx_obj.extraFields[i] = ExtraOf[i]
                            /\ tx_obj.extraFields[i].at = <<"extra", i>>
         /\ \A r \in 1..tx_obj.extraToFieldsItems :
              /\ r \in DOMAIN RecipientsOf
              /\ tx_obj.extraToListFields[r] = RecipientsOf[r]
              /\ WholeRecipient(tx_obj.extraToListFields[r])
              /\ \A k \in 1..3 : Part(r, k).at = <<"to", r, k>>
<1>1. /\ Typed
      /\ Len(text) = 1
      /\ \A i \in 1..13 : tx_obj.fields[i] = RootOf[i]
      /\ \A i \in 1..3 : tx_obj.extraFields[i] = ExtraOf[i]
      /\ \A r \in 1..tx_obj.extraToFieldsItems :
           /\ r \in DOMAIN RecipientsOf
           /\ tx_obj.extraToListFields[r] = RecipientsOf[r]
           /\ WholeRecipient(tx_obj.extraToListFields[r])
  BY DEF PlaceInv, VerdictInv, Inv, RootRead, ExtraRead, RecipientsRead,
         RecipientsWhole, PastRoot, PastExtra, PastRecipients, PastInner,
         MANTX_ROOTFIELD_COUNT, MANTX_EXTRAFIELD_COUNT
<1>2. IsPlaced(text)
  <2>1. text # <<>>
    <3>1. Len(text) = 1 /\ Len(<<>>) = 0
      BY <1>1
    <3> QED
      BY <3>1
  <2>2. Acceptable(text)
    BY DEF PlaceInv, VerdictInv, VerdictIsOfText
  <2> QED
    BY <2>1, <2>2 DEF PlaceInv, ItemsArePlaced
<1>3. /\ \A i \in 1..13 : RootOf[i].at = <<"root", i>>
      /\ \A i \in 1..3 : ExtraOf[i].at = <<"extra", i>>
      /\ \A r \in DOMAIN RecipientsOf : r <= MANTX_EXTRALISTFIELD_COUNT =>
           \A k \in 1..3 : RecipientsOf[r].items[k].at = <<"to", r, k>>
  BY <1>2, Zenon
     DEF IsPlaced, RootOf, ExtraOf, RecipientsOf, MANTX_ROOTFIELD_COUNT,
         MANTX_EXTRAFIELD_COUNT, MANTX_EXTRATOFIELD_COUNT
<1>4. ASSUME NEW r \in 1..tx_obj.extraToFieldsItems, NEW k \in 1..3
      PROVE  Part(r, k).at = <<"to", r, k>>
  <2>1. r <= MANTX_EXTRALISTFIELD_COUNT
    BY <1>1, FieldsAreItems, ParserAssumption
  <2> QED
    BY <1>1, <1>3, <2>1 DEF Part
<1> QED
  BY <1>1, <1>3, <1>4

(* A page carries the label of the place its item has in the text.         *)
LEMMA LabelsOfPages ==
  ASSUME ItemsArePlaced, PlaceInv, pc = "review",
         NEW idx \in Nat, NEW w, GetItem(idx, w).err = "ok",
         GetItem(idx, w).key # "EnterType"
  PROVE  LabelOf(GetItem(idx, w).from.at) = GetItem(idx, w).key
<1>1. Typed
  BY ReviewedItems
<1>2. idx < NumItems
  <2>1. CASE idx >= NumItems
    BY <2>1 DEF GetItem, Shown
  <2> QED
    BY <1>1, <2>1, FieldsAreItems
<1>3. \A e, key, item, form : /\ Shown(e, key, item, form).key = key
                              /\ Shown(e, key, item, form).from = item
  BY DEF Shown
<1>4. \A i \in 1..13 : LabelOf(tx_obj.fields[i].at) = RootLabels[i]
  <2>1. \A i \in 1..13 : LabelOf(<<"root", i>>) = RootLabels[i]
    BY DEF LabelOf
  <2> QED
    BY <2>1, ReviewedItems
<1>5. \A i \in 1..3 : LabelOf(tx_obj.extraFields[i].at) = ExtraLabels[i]
  <2>1. \A i \in 1..3 : LabelOf(<<"extra", i>>) = ExtraLabels[i]
    BY DEF LabelOf
  <2> QED
    BY <2>1, ReviewedItems
<1>6. ASSUME NEW item, NEW key, LabelOf(item.at) = key,
             GetItem(idx, w).from = item, GetItem(idx, w).key = key
      PROVE  LabelOf(GetItem(idx, w).from.at) = GetItem(idx, w).key
  BY <1>6
<1>7. \A key, item, u : /\ Number(key, item, u).key = key
                        /\ Number(key, item, u).from = item
  BY DEF Number, Shown
<1>8. CASE idx = 0
  <2>1. LabelOf(tx_obj.fields[1].at) = "Nonce"
    <3>1. 1 \in 1..13 /\ RootLabels[1] = "Nonce"
      BY DEF RootLabels
    <3> QED
      BY <1>4, <3>1, Zenon
  <2>2. GetItem(idx, w) = Number("Nonce", tx_obj.fields[1], w)
    BY <1>1, <1>8, PagesByIndex
  <2>3. Number("Nonce", tx_obj.fields[1], w).key = "Nonce"
        /\ Number("Nonce", tx_obj.fields[1], w).from = tx_obj.fields[1]
    BY DEF Number, Shown
  <2> QED
    BY <1>6, <2>1, <2>2, <2>3, Zenon
<1>9. CASE idx = 1
  <2>1. LabelOf(tx_obj.fields[2].at) = "Gas Price"
    <3>1. 2 \in 1..13 /\ RootLabels[2] = "Gas Price"
      BY DEF RootLabels
    <3> QED
      BY <1>4, <3>1, Zenon
  <2>2. GetItem(idx, w) = Number("Gas Price", tx_obj.fields[2], w)
    BY <1>1, <1>9, PagesByIndex
  <2>3. Number("Gas Price", tx_obj.fields[2], w).key = "Gas Price"
        /\ Number("Gas Price", tx_obj.fields[2], w).from = tx_obj.fields[2]
    BY DEF Number, Shown
  <2> QED
    BY <1>6, <2>1, <2>2, <2>3, Zenon
<1>10. CASE idx = 2
  <2>1. LabelOf(tx_obj.fields[3].at) = "Gas Limit"
    <3>1. 3 \in 1..13 /\ RootLabels[3] = "Gas Limit"
      BY DEF RootLabels
    <3> QED
      BY <1>4, <3>1, Zenon
  <2>2. GetItem(idx, w) = Number("Gas Limit", tx_obj.fields[3], w)
    BY <1>1, <1>10, PagesByIndex
  <2>3. Number("Gas Limit", tx_obj.fields[3], w).key = "Gas Limit"
        /\ Number("Gas Limit", tx_obj.fields[3], w).from = tx_obj.fields[3]
    BY DEF Number, Shown
  <2> QED
    BY <1>6, <2>1, <2>2, <2>3, Zenon
<1>11. CASE idx = 3
  <2>1. LabelOf(tx_obj.fields[4].at) = "To"
    <3>1. 4 \in 1..13 /\ RootLabels[4] = "To"
      BY DEF RootLabels
    <3> QED
      BY <1>4, <3>1, Zenon
  <2>2. GetItem(idx, w) = Shown("ok", "To", tx_obj.fields[4], "text")
    BY <1>1, <1>11, PagesByIndex
  <2>3. Shown("ok", "To", tx_obj.fields[4], "text").key = "To"
        /\ Shown("ok", "To", tx_obj.fields[4], "text").from = tx_obj.fields[4]
    BY <1>3
  <2> QED
    BY <1>6, <2>1, <2>2, <2>3, Zenon
<1>12. CASE idx = 4
  <2>1. LabelOf(tx_obj.fields[5].at) = "Value"
    <3>1. 5 \in 1..13 /\ RootLabels[5] = "Value"
      BY DEF RootLabels
    <3> QED
      BY <1>4, <3>1, Zenon
  <2>2. GetItem(idx, w) = Number("Value", tx_obj.fields[5], w)
    BY <1>1, <1>12, PagesByIndex
  <2>3. Number("Value", tx_obj.fields[5], w).key = "Value"
        /\ Number("Value", tx_obj.fields[5], w).from = tx_obj.fields[5]
    BY DEF Number, Shown
  <2> QED
    BY <1>6, <2>1, <2>2, <2>3, Zenon
<1>13. CASE idx = 5
  <2>1. LabelOf(tx_obj.fields[6].at) = "Data"
    <3>1. 6 \in 1..13 /\ RootLabels[6] = "Data"
      BY DEF RootLabels
    <3> QED
      BY <1>4, <3>1, Zenon
  <2>2. GetItem(idx, w) = PrintDataField(tx_obj.fields[6])
    BY <1>1, <1>13, PagesByIndex
  <2>3. PrintDataField(tx_obj.fields[6]).key = "Data" /\ PrintDataField(tx_obj.fields[6]).from = tx_obj.fields[6]
    BY DEF PrintDataField, Shown
  <2> QED
    BY <1>6, <2>1, <2>2, <2>3, Zenon
<1>14. CASE idx = 6
  <2>1. LabelOf(tx_obj.fields[7].at) = "ChainID"
    <3>1. 7 \in 1..13 /\ RootLabels[7] = "ChainID"
      BY DEF RootLabels
    <3> QED
      BY <1>4, <3>1, Zenon
  <2>2. GetItem(idx, w) = PrintChainID(tx_obj.fields[7])
    BY <1>1, <1>14, PagesByIndex
  <2>3. PrintChainID(tx_obj.fields[7]).key = "ChainID" /\ PrintChainID(tx_obj.fields[7]).from = tx_obj.fields[7]
    BY DEF PrintChainID, Shown
  <2> QED
    BY <1>6, <2>1, <2>2, <2>3, Zenon
<1>15. CASE idx = 8
  <2>1. LabelOf(tx_obj.fields[11].at) = "IsEntrustTx"
    <3>1. 11 \in 1..13 /\ RootLabels[11] = "IsEntrustTx"
      BY DEF RootLabels
    <3> QED
      BY <1>4, <3>1, Zenon
  <2>2. GetItem(idx, w) = Number("IsEntrustTx", tx_obj.fields[11], w)
    BY <1>1, <1>15, PagesByIndex
  <2>3. Number("IsEntrustTx", tx_obj.fields[11], w).key = "IsEntrustTx"
        /\ Number("IsEntrustTx", tx_obj.fields[11], w).from = tx_obj.fields[11]
    BY DEF Number, Shown
  <2> QED
    BY <1>6, <2>1, <2>2, <2>3, Zenon
<1>16. CASE idx = 9
  <2>1. LabelOf(tx_obj.fields[12].at) = "CommitTime"
    <3>1. 12 \in 1..13 /\ RootLabels[12] = "CommitTime"
      BY DEF RootLabels
    <3> QED
      BY <1>4, <3>1, Zenon
  <2>2. GetItem(idx, w) = PrintCommitTime(tx_obj.fields[12])
    BY <1>1, <1>16, PagesByIndex
  <2>3. PrintCommitTime(tx_obj.fields[12]).key = "CommitTime" /\ PrintCommitTime(tx_obj.fields[12]).from = tx_obj.fields[12]
    BY DEF PrintCommitTime, Shown
  <2> QED
    BY <1>6, <2>1, <2>2, <2>3, Zenon
<1>17. CASE idx = 10
  <2>1. LabelOf(tx_obj.extraFields[1].at) = "TxType"
    <3>1. 1 \in 1..3 /\ ExtraLabels[1] = "TxType"
      BY DEF ExtraLabels
    <3> QED
      BY <1>5, <3>1, Zenon
  <2>2. GetItem(idx, w) = PrintTxType
    BY <1>1, <1>17, PagesByIndex
  <2>3. PrintTxType.key = "TxType" /\ PrintTxType.from = tx_obj.extraFields[1]
    BY DEF PrintTxType, Shown
  <2> QED
    BY <1>6, <2>1, <2>2, <2>3, Zenon
<1>18. CASE idx = 11
  <2>1. LabelOf(tx_obj.extraFields[2].at) = "Lock Height"
    <3>1. 2 \in 1..3 /\ ExtraLabels[2] = "Lock Height"
      BY DEF ExtraLabels
    <3> QED
      BY <1>5, <3>1, Zenon
  <2>2. GetItem(idx, w) = Number("Lock Height", tx_obj.extraFields[2], w)
    BY <1>1, <1>18, PagesByIndex
  <2>3. Number("Lock Height", tx_obj.extraFields[2], w).key = "Lock Height"
        /\ Number("Lock Height", tx_obj.extraFields[2], w).from = tx_obj.extraFields[2]
    BY DEF Number, Shown
  <2> QED
    BY <1>6, <2>1, <2>2, <2>3, Zenon
<1>19. idx # 7
  <2>1. CASE idx = 7
    <3>1. GetItem(idx, w) = Number("EnterType", tx_obj.fields[8], w)
      BY <1>1, <2>1, PagesByIndex
    <3>2. GetItem(idx, w).key = "EnterType"
      BY <1>7, <3>1
    <3> QED
      BY <3>2
  <2> QED
    BY <2>1
<1>20. CASE idx \in 12..(NumItems - 1)
  <2>1. PICK r \in 1..tx_obj.extraToFieldsItems : \E k \in 1..3 :
          idx = PageOf(r, k)
    BY <1>1, <1>20, EveryPageIsOfAPart
  <2>2. PICK k \in 1..3 : idx = PageOf(r, k)
    BY <2>1
  <2>3. /\ GetItem(idx, w).from = Part(r, k)
        /\ GetItem(idx, w).key = PartLabel(r, k)
    BY <1>1, <2>2, PartIsShown, ReviewedItems DEF ShowsPart
  <2>4. LabelOf(<<"to", r, k>>) = PartLabel(r, k)
    BY DEF LabelOf, PartLabel
  <2> QED
    BY <2>3, <2>4, ReviewedItems
<1>21. \/ idx = 0 \/ idx = 1 \/ idx = 2 \/ idx = 3 \/ idx = 4 \/ idx = 5
       \/ idx = 6 \/ idx = 7 \/ idx = 8 \/ idx = 9 \/ idx = 10 \/ idx = 11
       \/ idx \in 12..(NumItems - 1)
  BY <1>1, <1>2, FieldsAreItems
<1> QED
  BY <1>8, <1>9, <1>10, <1>11, <1>12, <1>13, <1>14, <1>15,
     <1>16, <1>17, <1>18, <1>19, <1>20, <1>21, Zenon

(* None of the twelve pages every transaction has shows a recipient.       *)
LEMMA FixedPagesShowNoRecipient ==
  ASSUME ItemsArePlaced, PlaceInv, pc = "review", NEW idx \in 0..11, NEW w
  PROVE  GetItem(idx, w).from.at[1] # "to"
<1>1. Typed
  BY ReviewedItems
<1>2. \A i \in 1..13 : tx_obj.fields[i].at[1] # "to"
  BY ReviewedItems
<1>3. \A i \in 1..3 : tx_obj.extraFields[i].at[1] # "to"
  BY ReviewedItems
<1>4. \A key, item, u : Number(key, item, u).from = item
  BY DEF Number, Shown
<1>5. \A item : /\ Shown("ok", "To", item, "text").from = item
                /\ PrintDataField(item).from = item
                /\ PrintChainID(item).from = item
                /\ PrintCommitTime(item).from = item
  BY DEF Shown, PrintDataField, PrintChainID, PrintCommitTime
<1>6. PrintTxType.from = tx_obj.extraFields[1]
  BY DEF PrintTxType, Shown
<1>7. /\ 4 \in 1..13 /\ 6 \in 1..13 /\ 7 \in 1..13 /\ 12 \in 1..13
      /\ 1 \in 1..3 /\ 2 \in 1..3
      /\ 1..MANTX_ROOTFIELD_COUNT = 1..13
  BY DEF MANTX_ROOTFIELD_COUNT
<1>8. \/ \E i \in 1..13 : GetItem(idx, w).from = tx_obj.fields[i]
      \/ \E i \in 1..3 : GetItem(idx, w).from = tx_obj.extraFields[i]
  <2>1. CASE \E key : \E i \in 1..MANTX_ROOTFIELD_COUNT : \A u :
               GetItem(idx, u) = Number(key, tx_obj.fields[i], u)
    BY <1>4, <1>7, <2>1
  <2>2. CASE \A u : GetItem(idx, u) = Shown("ok", "To", tx_obj.fields[4], "text")
    <3>1. GetItem(idx, w).from = tx_obj.fields[4]
      BY <1>5, <2>2
    <3> QED
      BY <1>7, <3>1, Zenon
  <2>3. CASE \A u : GetItem(idx, u) = PrintDataField(tx_obj.fields[6])
    <3>1. GetItem(idx, w).from = tx_obj.fields[6]
      BY <1>5, <2>3
    <3> QED
      BY <1>7, <3>1, Zenon
  <2>4. CASE \A u : GetItem(idx, u) = PrintChainID(tx_obj.fields[7])
    <3>1. GetItem(idx, w).from = tx_obj.fields[7]
      BY <1>5, <2>4
    <3> QED
      BY <1>7, <3>1, Zenon
  <2>5. CASE \A u : GetItem(idx, u) = PrintCommitTime(tx_obj.fields[12])
    <3>1. GetItem(idx, w).from = tx_obj.fields[12]
      BY <1>5, <2>5
    <3> QED
      BY <1>7, <3>1, Zenon
  <2>6. CASE \A u : GetItem(idx, u) = PrintTxType
    <3>1. GetItem(idx, w).from = tx_obj.extraFields[1]
      BY <1>6, <2>6
    <3> QED
      BY <1>7, <3>1, Zenon
  <2>7. CASE \A u : GetItem(idx, u)
                      = Number("Lock Height", tx_obj.extraFields[2], u)
    <3>1. GetItem(idx, w) = Number("Lock Height", tx_obj.extraFields[2], w)
      BY <2>7, Zenon
    <3>2. Number("Lock Height", tx_obj.extraFields[2], w).from
            = tx_obj.extraFields[2]
      BY DEF Number, Shown
    <3>3. GetItem(idx, w).from = tx_obj.extraFields[2]
      BY <3>1, <3>2, Zenon
    <3> QED
      BY <1>7, <3>3, Zenon
  <2> QED
    BY <1>1, <2>1, <2>2, <2>3, <2>4, <2>5, <2>6, <2>7, FixedPages, Zenon
<1> QED
  BY <1>2, <1>3, <1>8

-----------------------------------------------------------------------------
(* The theorems. *)

(* The counters of tx_obj never pass the arrays they count, whatever text  *)
(* _read is given.                                                         *)
THEOREM ParserTypeCorrect == Spec => []TypeOK
<1>1. Inv => TypeOK
  BY DEF Inv, Typed, TxObjects, TypeOK
<1> QED
  BY <1>1, InvAlways, PTL

(* The parser's decision is a function of the text: in whatever order the  *)
(* parts are tried, and whatever the static tx_obj holds, a text is        *)
(* reviewed exactly if it has all its fields and all of them can be shown. *)
THEOREM VerdictDependsOnText == Spec => []VerdictIsOfText
<1>1. Init => VerdictInv
  BY InitVerdict
<1>2. VerdictInv /\ [Next]_vars => VerdictInv'
  BY VerdictStep
<1>3. VerdictInv => VerdictIsOfText
  BY DEF VerdictInv
<1> QED
  BY <1>1, <1>2, <1>3, PTL DEF Spec

(* _read and parser_validate accept only the types printTxType has a name  *)
(* for, although validateTxType lets every number up to 122 pass.          *)
THEOREM AcceptedTypesAreNamed == Spec => []OnlyNamedTypes
<1>1. ASSUME Inv, pc = "review"
      PROVE  tx_obj.extraTxType \in NamedTypes
  <2>1. Typed /\ Validated
    BY <1>1 DEF Inv
  <2>2. 10 \in 0..(NumItems - 1) /\ ~(10 >= NumItems)
    BY <2>1, FieldsAreItems
  <2>3. GetItem(10, TmpLen) = PrintTxType
    BY <2>2 DEF GetItem
  <2>4. PrintTxType.err = "ok"
    BY <1>1, <2>1, <2>2, <2>3 DEF Validated
  <2>5. tx_obj.extraTxType \in DOMAIN TextForms \cup DOMAIN HexForms
    BY <2>4 DEF PrintTxType, Shown, Check
  <2> QED
    BY <2>5 DEF TextForms, HexForms, NamedTypes
<1>2. Inv => OnlyNamedTypes
  BY <1>1 DEF OnlyNamedTypes
<1> QED
  BY <1>2, InvAlways, PTL

(* The assertion of the fuzz target, which asks with 16384 bytes: on a     *)
(* screen no smaller than the buffer of parser_validate, no item of a      *)
(* validated transaction can fail.                                         *)
THEOREM ValidatedIsShown == Spec => []ValidatedCanBeShown
<1>1. ASSUME Inv, pc = "review", NEW i \in 0..(NumItems - 1)
      PROVE  GetItem(i, 16384).err = "ok"
  <2>1. /\ Typed
        /\ GetItem(i, TmpLen).err = "ok"
        /\ \A r \in 1..tx_obj.extraToFieldsItems :
             WholeRecipient(tx_obj.extraToListFields[r])
    BY <1>1 DEF Inv, Validated, RecipientsWhole, PastInner
  <2>2. TmpLen \in Nat /\ 16384 \in Nat /\ TmpLen <= 16384
    BY DEF TmpLen
  <2> QED
    BY <2>1, <2>2, LargerScreens
<1>2. Inv => ValidatedCanBeShown
  BY <1>1 DEF ValidatedCanBeShown
<1> QED
  BY <1>2, InvAlways, PTL

(* tx_obj is static and is not cleared by a refused text, but what a page  *)
(* shows was read from the text that will be signed.                       *)
THEOREM PagesShowThisText == Spec => []ShowsThisText
<1>1. Init => ShowsThisText
  BY DEF Init, ShowsThisText, NoScreen
<1>2. ASSUME Inv, ShowsThisText, [Next]_vars
      PROVE  ShowsThisText'
  <2>1. ASSUME NEW t \in Texts, ParserInitContext(t)
        PROVE  ShowsThisText'
    BY <2>1 DEF ParserInitContext, ShowsThisText, NoScreen
  <2>2. CASE UNCHANGED <<text, screen>>
    BY <1>2, <2>2
       DEF ShowsThisText, ItemsOfText, RootOf, ExtraOf, RecipientsOf
  <2>3. ASSUME NEW i \in 0..(MANTX_DISPLAY_COUNT + 3 * MANTX_EXTRALISTFIELD_COUNT),
               NEW w \in Widths, TxGetItem(i, w)
        PROVE  ShowsThisText'
    <3>1. pc = "review" /\ screen' = GetItem(i, w) /\ text' = text
      BY <2>3 DEF TxGetItem
    <3>2. i \in Nat
      OBVIOUS
    <3>3. screen'.err = "ok" => screen'.from \in ItemsOfText
      BY <1>2, <3>1, <3>2, PagesAreOfTheText
    <3>4. ItemsOfText' = ItemsOfText
      BY <3>1 DEF ItemsOfText, RootOf, ExtraOf, RecipientsOf
    <3> QED
      BY <3>3, <3>4 DEF ShowsThisText
  <2>4. \/ \E t \in Texts : ParserInitContext(t)
        \/ \E i \in 0..(MANTX_DISPLAY_COUNT + 3 * MANTX_EXTRALISTFIELD_COUNT),
             w \in Widths : TxGetItem(i, w)
        \/ UNCHANGED <<text, screen>>
    BY <1>2
       DEF Next, vars, ReadRoot, ReadExtraFields, ReadTxType, ReadRecipients,
           CheckRecipients, ParserValidate, Step
  <2> QED
    BY <2>1, <2>2, <2>3, <2>4
<1> QED
  BY <1>1, <1>2, InvAlways, PTL DEF Spec

(* Where every item says truthfully where it stands, the label over a      *)
(* value names the field the value was read from, on every page but that   *)
(* of EnterType, whatever the width of the screen.                         *)
THEOREM LabelsNameTheirFields ==
  ASSUME ItemsArePlaced
  PROVE  Spec => []LabelsFitFields
<1>1. Init => LabelsFitFields
  BY DEF Init, LabelsFitFields, NoScreen
<1>2. ASSUME PlaceInv, LabelsFitFields, [Next]_vars
      PROVE  LabelsFitFields'
  <2>1. ASSUME NEW i \in 0..(MANTX_DISPLAY_COUNT + 3 * MANTX_EXTRALISTFIELD_COUNT),
               NEW w \in Widths, TxGetItem(i, w)
        PROVE  LabelsFitFields'
    <3>1. pc = "review" /\ screen' = GetItem(i, w)
      BY <2>1 DEF TxGetItem
    <3>2. i \in Nat
      OBVIOUS
    <3>3. screen'.err = "ok" /\ screen'.key # "EnterType"
            => LabelOf(screen'.from.at) = screen'.key
      BY <1>2, <3>1, <3>2, LabelsOfPages
    <3> QED
      BY <3>3 DEF LabelsFitFields
  <2>2. CASE \/ screen' = NoScreen
             \/ UNCHANGED screen
    BY <1>2, <2>2 DEF LabelsFitFields, NoScreen
  <2>3. \/ \E i \in 0..(MANTX_DISPLAY_COUNT + 3 * MANTX_EXTRALISTFIELD_COUNT),
             w \in Widths : TxGetItem(i, w)
        \/ screen' = NoScreen
        \/ UNCHANGED screen
    BY <1>2
       DEF Next, vars, ParserInitContext, ReadRoot, ReadExtraFields, ReadTxType,
           ReadRecipients, CheckRecipients, ParserValidate, Step
  <2> QED
    BY <2>1, <2>2, <2>3
<1> QED
  BY <1>1, <1>2, PlaceAlways, PTL DEF Spec

(* Where every item says truthfully where it stands, each part of each     *)
(* recipient tx_obj has room for is on one page of the review and on no    *)
(* other: none is left out, and none is shown as another's.                *)
THEOREM EveryRecipientIsShown ==
  ASSUME ItemsArePlaced
  PROVE  Spec => []RecipientsShown
<1>1. ASSUME PlaceInv, pc = "review",
             NEW r \in DOMAIN RecipientsOf, r <= MANTX_EXTRALISTFIELD_COUNT,
             NEW k \in 1..3
      PROVE  {i \in 0..(NumItems - 1) :
                GetItem(i, TmpLen).from = RecipientsOf[r].items[k]}
               = {PageOf(r, k)}
  <2>1. Typed
    BY <1>1, ReviewedItems
  <2>2. r \in 1..tx_obj.extraToFieldsItems
    <3>1. ExtraOf[3] \in AnItem /\ RecipientsOf = ExtraOf[3].items
      <4>1. ExtraOf[3] = tx_obj.extraFields[3]
        BY <1>1, ReviewedItems
      <4> QED
        BY <2>1, <4>1, FieldsAreItems DEF RecipientsOf, MANTX_EXTRAFIELD_COUNT
    <3>2. RecipientsOf \in Seq(AnItem)
      BY <3>1, ItemFacts
    <3>3. /\ Len(RecipientsOf) \in Nat /\ r \in 1..Len(RecipientsOf)
          /\ RecipientsOf # <<>>
      BY <3>2
    <3>4. HasRecipients(ExtraOf[3])
      <4>1. \A x \in RlpItem : x.items # <<>> => HasRecipients(x)
        BY ItemAssumption, Zenon DEF HasRecipients
      <4>2. Cleared.items = <<>>
        BY DEF Cleared, Item
      <4> QED
        BY <3>1, <3>3, <4>1, <4>2, Zenon DEF AnItem
    <3>5. tx_obj.extraToFieldsItems
            = ItemsRead(ExtraOf[3], MANTX_EXTRALISTFIELD_COUNT)
      BY <1>1, <3>4
         DEF PlaceInv, VerdictInv, RecipientsPassed, PastRecipients, PastInner
    <3> QED
      BY <1>1, <3>1, <3>3, <3>5, ParserAssumption DEF ItemsRead
  <2>3. RecipientsOf[r].items[k] = Part(r, k) /\ Part(r, k).at = <<"to", r, k>>
    BY <1>1, <2>2, ReviewedItems DEF Part
  <2>4. PageOf(r, k) \in 12..(NumItems - 1)
    BY <2>1, <2>2, PagesOfParts
  <2>5. GetItem(PageOf(r, k), TmpLen).from = Part(r, k)
    BY <1>1, <2>1, <2>2, PartIsShown, ReviewedItems DEF ShowsPart
  <2>6. ASSUME NEW i \in 0..(NumItems - 1), GetItem(i, TmpLen).from = Part(r, k)
        PROVE  i = PageOf(r, k)
    <3>1. CASE i \in 0..11
      <4>1. GetItem(i, TmpLen).from.at[1] # "to"
        BY <1>1, <3>1, FixedPagesShowNoRecipient
      <4> QED
        BY <2>3, <2>6, <4>1
    <3>2. CASE i \in 12..(NumItems - 1)
      <4>1. PICK s \in 1..tx_obj.extraToFieldsItems : \E j \in 1..3 :
              i = PageOf(s, j)
        BY <2>1, <3>2, EveryPageIsOfAPart
      <4>2. PICK j \in 1..3 : i = PageOf(s, j)
        BY <4>1
      <4>3. GetItem(i, TmpLen).from = Part(s, j)
        BY <1>1, <2>1, <4>2, PartIsShown, ReviewedItems DEF ShowsPart
      <4>4. Part(s, j).at = <<"to", s, j>>
        BY <1>1, ReviewedItems
      <4>5. s = r /\ j = k
        BY <2>3, <2>6, <4>3, <4>4
      <4> QED
        BY <4>2, <4>5
    <3> QED
      BY <2>1, <3>1, <3>2, FieldsAreItems
  <2>7. PageOf(r, k) \in 0..(NumItems - 1)
    BY <2>1, <2>4, FieldsAreItems
  <2> QED
    BY <2>3, <2>5, <2>6, <2>7
<1>2. PlaceInv => RecipientsShown
  BY <1>1 DEF RecipientsShown, PageOf, MANTX_EXTRATOFIELD_COUNT
<1> QED
  BY <1>2, PlaceAlways, PTL
=============================================================================
