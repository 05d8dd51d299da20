------------------------------ MODULE TxParser ------------------------------
(***************************************************************************)
(* The transaction parser (app/src/parser.c, parser_impl.c) over the items *)
(* the RLP reader finds.  A text is a list of items, each a single byte, a *)
(* string or a list; _read takes it apart into the static tx_obj,          *)
(* parser_validate asks once for every item of the review, and the review  *)
(* asks again, with a buffer of its own, whenever it shows one.            *)
(***************************************************************************)
EXTENDS Naturals, Sequences

CONSTANTS
  RlpItem,                      \* the items the RLP reader can find
  Texts,                        \* the texts a host may sign
  MANTX_EXTRALISTFIELD_COUNT,   \* recipients tx_obj has room for
  Widths                        \* outValLen of the screens

(* With more than 38 recipients an int8_t would not count the items.       *)
ASSUME ParserAssumption ==
  /\ MANTX_EXTRALISTFIELD_COUNT \in 0..38
  /\ Widths \subseteq Nat

(* An item has a length, items of its own, none if it is no list or has no *)
(* length, and a last byte.                                                *)
ASSUME ItemAssumption ==
  /\ Texts \cup {x.items : x \in RlpItem} \subseteq Seq(RlpItem)
  /\ \A x \in RlpItem :
       /\ x.kind \in {"byte", "string", "list"}
       /\ x.rlpLen \in Nat /\ x.digits \in Nat
       /\ x.low \in 0..255
       /\ x.items # <<>> => x.kind = "list" /\ x.rlpLen > 0

(* Items.  A leaf has the length of its content, its number of decimal     *)
(* digits, its last byte and whether it is a date printTime can write; a   *)
(* list has its items, and is broken if bytes follow the last of them that *)
(* are no item.  at tells where in the transaction an item belongs.        *)
Item(kind, len, digits, low, date, at) ==
  [kind |-> kind, rlpLen |-> len, digits |-> digits, low |-> low,
   date |-> date, items |-> <<>>, broken |-> FALSE, at |-> at]

List(items, broken, at) ==
  [Item("list", IF items = <<>> /\ ~broken THEN 0 ELSE 1, 0, 0, FALSE, at)
     EXCEPT !.items = items, !.broken = broken]

Cleared == Item("byte", 0, 0, 0, FALSE, <<>>)    \* an rlp_t of zeros

MANTX_ROOTFIELD_COUNT    == 13
MANTX_EXTRAFIELD_COUNT   == 3
MANTX_DISPLAY_COUNT      == 12
MANTX_EXTRATOFIELD_COUNT == 3
MANTX_TXTYPE_SUPERBLOCK  == 122
TmpLen                   == 40    \* the buffers of parser_validate

VARIABLES
  text,      \* the text in the buffer: what will be signed
  tx_obj,    \* the static parser_tx_t
  pc,        \* what tx_parse does next, or "rejected", or "review"
  screen     \* what parser_getItem last put on the screen, or NoScreen

vars == <<text, tx_obj, pc, screen>>

NoScreen == [err |-> "none"]

ClearedTx ==
  [fields             |-> [i \in 1..MANTX_ROOTFIELD_COUNT |-> Cleared],
   extraFields        |-> [i \in 1..MANTX_EXTRAFIELD_COUNT |-> Cleared],
   extraToListFields  |-> [i \in 1..MANTX_EXTRALISTFIELD_COUNT |-> Cleared],
   extraToFieldsItems |-> 0,
   extraTxType        |-> 0]

Init ==
  /\ text = <<>>
  /\ tx_obj = ClearedTx
  /\ pc = "rejected"
  /\ screen = NoScreen

-----------------------------------------------------------------------------
(* rlp_readList stops after max items; what is left is not looked at.      *)
ItemsReadAll(list, max) == Len(list.items)    \* wrong: never stops

ItemsRead(list, max) == IF Len(list.items) < max THEN Len(list.items) ELSE max

ListError(list, max) ==
  CASE list.kind # "list"                         -> "unexpected_error"
    [] list.broken /\ Len(list.items) < max       -> "unexpected_buffer_end"
    [] OTHER                                      -> "ok"

(* The array a list is read into keeps its tail.                           *)
ReadInto(fields, list) ==
  [i \in DOMAIN fields |-> IF i <= ItemsRead(list, Len(fields))
                           THEN list.items[i] ELSE fields[i]]

NumberError(item) ==
  CASE item.kind = "list"                       -> "unexpected_type"
    [] item.kind = "string" /\ item.rlpLen > 32 -> "value_out_of_range"
    [] OTHER                                    -> "ok"

(* Tests in the order the code makes them; CHECK_ERROR leaves at the first *)
(* that fails.                                                             *)
Check(ok, err) == IF ok THEN "ok" ELSE err

FirstError(errs) ==
  LET Bad == {i \in DOMAIN errs : errs[i] # "ok"}
  IN  IF Bad = {} THEN "ok"
      ELSE errs[CHOOSE i \in Bad : \A j \in Bad : i <= j]

(* tostring256 keeps a byte for the termination.                           *)
Decimal(item, width) ==
  FirstError(<<NumberError(item),
               Check(item.digits < width, "unexpected_error")>>)

-----------------------------------------------------------------------------
(* parser_getItem: the error, the label, the item the value is made from   *)
(* and the form it is written in.                                          *)

Shown(err, key, from, form) ==
  [err |-> err, key |-> key, from |-> from, form |-> form]

(* A value of length zero is written as "Empty".                           *)
OrEmpty(item, form) == IF item.rlpLen = 0 THEN "Empty" ELSE form

Number(key, item, width) ==
  Shown(Decimal(item, width), key, item, "decimal")

TextForms == [t \in {5, 6, 9} |-> "text"]

HexFormsAndBroadcast == [t \in {0, 1, 3, 4} |-> "hex"]    \* wrong

HexForms == [t \in {0, 3, 4} |-> "hex"]

PrintDataField(item) ==
  LET t == tx_obj.extraTxType IN
  CASE t \in DOMAIN TextForms ->
         Shown("ok", "Data", item, OrEmpty(item, TextForms[t]))
    [] t \in DOMAIN HexForms ->
         Shown("ok", "Data", item, OrEmpty(item, HexForms[t]))
    [] OTHER -> Shown("unexpected_type", "Data", item, "none")

PrintTxType ==
  LET t == tx_obj.extraTxType IN
  Shown(Check(t \in DOMAIN TextForms \cup DOMAIN HexForms, "unexpected_type"),
        "TxType", tx_obj.extraFields[1], "name")

PrintChainID(item) ==
  Shown(Check(item.kind = "byte" /\ item.rlpLen = 0, "unexpected_value"),
        "ChainID", item, "decimal")

PrintCommitTime(item) ==
  Shown(FirstError(<<NumberError(item),
                     Check(item.date, "unexpected_error")>>),
        "CommitTime", item, "time")

(* A wrong variant: two parts for each recipient.                          *)
NumItemsTooFew == (MANTX_DISPLAY_COUNT + tx_obj.extraToFieldsItems * 2) % 256

NumItems == (MANTX_DISPLAY_COUNT + tx_obj.extraToFieldsItems * 3) % 256

PrintExtraFields(displayIdx, width) ==
  LET extraToIdx == (displayIdx - MANTX_DISPLAY_COUNT) \div 3
      fieldIdx   == (displayIdx - MANTX_DISPLAY_COUNT) % 3
      list       == tx_obj.extraToListFields[extraToIdx + 1]
      tmpList    == ReadInto([i \in 1..MANTX_EXTRATOFIELD_COUNT |-> Cleared],
                             list)
      item       == tmpList[fieldIdx + 1]
      key        == <<<<"To", "Amount", "Payload">>[fieldIdx + 1], extraToIdx>>
  IN  IF displayIdx >= MANTX_DISPLAY_COUNT + tx_obj.extraToFieldsItems * 3
      THEN Shown("no_data", "?", Cleared, "none")
      ELSE Shown(FirstError(<<ListError(list, MANTX_EXTRATOFIELD_COUNT),
                              IF fieldIdx = 1 THEN Decimal(item, width)
                                              ELSE "ok">>),
                 key, item,
                 OrEmpty(item, IF fieldIdx = 1 THEN "decimal" ELSE "text"))

(* R and S are not shown, so the fields after them are two further on; the *)
(* item after ChainID takes its value from fields[displayIdx] all the same.*)
AtDisplayIdx(displayIdx) == displayIdx    \* wrong

AfterSignature(displayIdx) == displayIdx + 2

GetItem(displayIdx, width) ==
  LET field(i) == tx_obj.fields[i + 1] IN
  IF displayIdx >= NumItems
  THEN Shown("display_idx_out_of_range", "?", Cleared, "none")
  ELSE CASE displayIdx = 0  -> Number("Nonce", field(0), width)
         [] displayIdx = 1  -> Number("Gas Price", field(1), width)
         [] displayIdx = 2  -> Number("Gas Limit", field(2), width)
         [] displayIdx = 3  -> Shown("ok", "To", field(3), "text")
         [] displayIdx = 4  -> Number("Value", field(4), width)
         [] displayIdx = 5  -> PrintDataField(field(5))
         [] displayIdx = 6  -> PrintChainID(field(6))
         [] displayIdx = 7  -> Number("EnterType", field(7), width)
         [] displayIdx = 8  -> Number("IsEntrustTx",
                                      field(AfterSignature(8)), width)
         [] displayIdx = 9  -> PrintCommitTime(field(AfterSignature(9)))
         [] displayIdx = 10 -> PrintTxType
         [] displayIdx = 11 -> Number("Lock Height", tx_obj.extraFields[2],
                                      width)
         [] OTHER           -> PrintExtraFields(displayIdx, width)

-----------------------------------------------------------------------------
(* tx_parse, one action per part of the transaction it takes apart. *)

Step(from, err, next) ==
  /\ pc = from
  /\ pc' = IF err = "ok" THEN next ELSE "rejected"
  /\ UNCHANGED <<text, screen>>

(* The end of an upload hands over a text; parser_init_context clears the  *)
(* object the previous text was read into.                                 *)
InitContextUncleared(t) ==    \* wrong: no MEMZERO
  /\ pc \in {"rejected", "review"}
  /\ text' = t
  /\ screen' = NoScreen
  /\ pc' = IF t = <<>> THEN "rejected" ELSE "root"
  /\ UNCHANGED tx_obj

ParserInitContext(t) ==
  /\ pc \in {"rejected", "review"}
  /\ text' = t
  /\ screen' = NoScreen
  /\ IF t = <<>> THEN pc' = "rejected" /\ UNCHANGED tx_obj
                 ELSE pc' = "root" /\ tx_obj' = ClearedTx

(* The text must be one list and nothing after it, with all its fields.    *)
ReadRoot ==
  LET root == text[1]
      one  == FirstError(<<Check(Len(text) = 1, "unexpected_unparsed_bytes"),
                           Check(root.kind = "list", "unexpected_type")>>) IN
  /\ Step("root",
          FirstError(<<one, ListError(root, MANTX_ROOTFIELD_COUNT),
                       Check(ItemsRead(root, MANTX_ROOTFIELD_COUNT)
                               = MANTX_ROOTFIELD_COUNT,
                             "unexpected_number_items")>>),
          "extra")
  /\ tx_obj' = IF one = "ok"
               THEN [tx_obj EXCEPT !.fields = ReadInto(@, root)]
               ELSE tx_obj

(* The last field is a list whose first item is the list of extra fields.  *)
ReadExtraFields ==
  LET outer == tx_obj.fields[MANTX_ROOTFIELD_COUNT]
      inner == ReadInto(<<Cleared>>, outer)[1] IN
  /\ Step("extra",
          FirstError(<<ListError(outer, 1),
                       ListError(inner, MANTX_EXTRAFIELD_COUNT),
                       Check(ItemsRead(inner, MANTX_EXTRAFIELD_COUNT)
                               = MANTX_EXTRAFIELD_COUNT,
                             "unexpected_number_items")>>),
          "txtype")
  /\ tx_obj' = [tx_obj EXCEPT !.extraFields = ReadInto(@, inner)]

(* Only the last byte of the type is kept; validateTxType takes any of     *)
(* those up to the largest type.                                           *)
ReadTxType ==
  LET type == tx_obj.extraFields[1] IN
  /\ Step("txtype",
          FirstError(<<NumberError(type),
                       Check(type.low <= MANTX_TXTYPE_SUPERBLOCK,
                             "value_out_of_range")>>),
          "recipients")
  /\ tx_obj' = IF NumberError(type) = "ok"
               THEN [tx_obj EXCEPT !.extraTxType = type.low]
               ELSE tx_obj

(* The recipients, if the third extra field is a list that has any.        *)
ReadRecipients ==
  LET extraToList == tx_obj.extraFields[MANTX_EXTRAFIELD_COUNT]
      max         == MANTX_EXTRALISTFIELD_COUNT
      some        == extraToList.kind = "list" /\ extraToList.rlpLen > 0 IN
  /\ Step("recipients", IF some THEN ListError(extraToList, max) ELSE "ok",
          "inner")
  /\ tx_obj' = IF some
               THEN [tx_obj EXCEPT
                       !.extraToListFields = ReadInto(@, extraToList),
                       !.extraToFieldsItems = ItemsRead(extraToList, max)]
               ELSE tx_obj

WholeRecipient(list) ==
  /\ ListError(list, MANTX_EXTRATOFIELD_COUNT) = "ok"
  /\ ItemsRead(list, MANTX_EXTRATOFIELD_COUNT) = MANTX_EXTRATOFIELD_COUNT

CheckRecipients ==
  /\ Step("inner",
          Check(\A i \in 1..tx_obj.extraToFieldsItems :
                   WholeRecipient(tx_obj.extraToListFields[i]),
                "unexpected_value"),
          "validate")
  /\ UNCHANGED tx_obj

(* A wrong variant: the items of the recipients are not tried.             *)
ValidateFixedItems ==
  /\ Step("validate",
          Check(\A idx \in 0..(MANTX_DISPLAY_COUNT - 1) :
                   GetItem(idx, TmpLen).err = "ok",
                "unexpected_value"),
          "review")
  /\ UNCHANGED tx_obj

ParserValidate ==
  /\ Step("validate",
          Check(\A idx \in 0..(NumItems - 1) :
                   GetItem(idx, TmpLen).err = "ok",
                "unexpected_value"),
          "review")
  /\ UNCHANGED tx_obj

(* The review shows an item, through tx_getItem.  Its own check lets one   *)
(* index too many through.                                                 *)
TxGetItem(displayIdx, width) ==
  /\ pc = "review"
  /\ displayIdx <= NumItems
  /\ screen' = GetItem(displayIdx, width)
  /\ UNCHANGED <<text, tx_obj, pc>>

Next ==
  \/ \E t \in Texts : ParserInitContext(t)
  \/ ReadRoot \/ ReadExtraFields \/ ReadTxType \/ ReadRecipients
  \/ CheckRecipients \/ ParserValidate
  \/ \E i \in 0..(MANTX_DISPLAY_COUNT + 3 * MANTX_EXTRALISTFIELD_COUNT),
        w \in Widths : TxGetItem(i, w)

Spec == Init /\ [][Next]_vars

-----------------------------------------------------------------------------
(* What must hold.  The parts of the text, read without the parser.        *)

RootOf       == text[1].items
ExtraOf      == RootOf[MANTX_ROOTFIELD_COUNT].items[1].items
RecipientsOf == ExtraOf[MANTX_EXTRAFIELD_COUNT].items

ItemsIn(list)  == {list[i] : i \in DOMAIN list}
ItemsOfText == ItemsIn(RootOf) \cup ItemsIn(ExtraOf)
                 \cup UNION {ItemsIn(r.items) : r \in ItemsIn(RecipientsOf)}

(* The names parser_txdef.h gives the fields, in their order.              *)
RootLabels  == <<"Nonce", "Gas Price", "Gas Limit", "To", "Value", "Data",
                 "ChainID", "R", "S", "EnterType", "IsEntrustTx",
                 "CommitTime", "Extra">>
ExtraLabels == <<"TxType", "Lock Height", "Recipients">>

LabelOf(at) ==
  CASE at[1] = "root"  -> RootLabels[at[2]]
    [] at[1] = "extra" -> ExtraLabels[at[2]]
    [] at[1] = "to"    -> <<<<"To", "Amount", "Payload">>[at[3]], at[2] - 1>>
    [] OTHER           -> "?"

(* The texts the parser should accept, said of the text alone: it has all  *)
(* its fields, and everything parser_validate writes can be written.       *)
Whole(list, count) == list.kind = "list" /\ Len(list.items) >= count

IsNumber(item) ==
  item.kind # "list" /\ (item.kind = "string" => item.rlpLen <= 32)

NumberFits(item) == IsNumber(item) /\ item.digits < TmpLen

FieldsFit(fields) ==
  /\ \A i \in {1, 2, 3, 5, 8, 11} : NumberFits(fields[i])
  /\ fields[7].kind = "byte" /\ fields[7].rlpLen = 0
  /\ IsNumber(fields[12]) /\ fields[12].date

NamedTypes == {0, 3, 4, 5, 6, 9}

RecipientsFit(list) ==
  list.kind = "list" /\ list.rlpLen > 0 =>
    /\ list.broken => Len(list.items) >= MANTX_EXTRALISTFIELD_COUNT
    /\ \A r \in DOMAIN list.items : r <= MANTX_EXTRALISTFIELD_COUNT =>
         /\ Whole(list.items[r], MANTX_EXTRATOFIELD_COUNT)
         /\ NumberFits(list.items[r].items[2])

ExtraFits(extra) ==
  /\ IsNumber(extra[1]) /\ extra[1].low \in NamedTypes
  /\ NumberFits(extra[2])
  /\ RecipientsFit(extra[3])

Acceptable(t) ==
  /\ Len(t) = 1
  /\ Whole(t[1], MANTX_ROOTFIELD_COUNT)
  /\ FieldsFit(t[1].items)
  /\ LET last == t[1].items[MANTX_ROOTFIELD_COUNT] IN
     /\ Whole(last, 1)
     /\ Whole(last.items[1], MANTX_EXTRAFIELD_COUNT)
     /\ ExtraFits(last.items[1].items)

(* at is what the comment at Item says, in the texts that can be reviewed. *)
IsPlaced(t) ==
  LET root == t[1].items
      extra == root[MANTX_ROOTFIELD_COUNT].items[1].items
      recipients == extra[MANTX_EXTRAFIELD_COUNT].items IN
  /\ \A i \in 1..MANTX_ROOTFIELD_COUNT : root[i].at = <<"root", i>>
  /\ \A i \in 1..MANTX_EXTRAFIELD_COUNT : extra[i].at = <<"extra", i>>
  /\ \A r \in DOMAIN recipients : r <= MANTX_EXTRALISTFIELD_COUNT =>
       \A k \in 1..MANTX_EXTRATOFIELD_COUNT :
         recipients[r].items[k].at = <<"to", r, k>>

ItemsArePlaced == \A t \in Texts : Acceptable(t) => IsPlaced(t)

(* The parser's object keeps its bounds; its counters never pass the       *)
(* arrays they count.                                                      *)
TypeOK ==
  /\ pc \in {"root", "extra", "txtype", "recipients", "inner", "validate",
             "rejected", "review"}
  /\ DOMAIN tx_obj.fields = 1..MANTX_ROOTFIELD_COUNT
  /\ DOMAIN tx_obj.extraFields = 1..MANTX_EXTRAFIELD_COUNT
  /\ DOMAIN tx_obj.extraToListFields = 1..MANTX_EXTRALISTFIELD_COUNT
  /\ tx_obj.extraToFieldsItems \in 0..MANTX_EXTRALISTFIELD_COUNT
  /\ tx_obj.extraTxType \in 0..255

(* tx_obj is static and outlives a transaction, but whatever the screen    *)
(* shows was read from the text that is about to be signed.                *)
ShowsThisText == screen.err = "ok" => screen.from \in ItemsOfText

(* The label over a value is the name of the field the value was read from *)
(* (for EnterType see EnterTypeShown).                                     *)
LabelsFitFields ==
  screen.err = "ok" /\ screen.key # "EnterType" =>
    LabelOf(screen.from.at) = screen.key

(* An accepted transaction has all its fields, and each recipient tx_obj   *)
(* has room for is shown with its three parts, no part twice.              *)
RecipientsShown ==
  pc = "review" =>
    \A r \in DOMAIN RecipientsOf : r <= MANTX_EXTRALISTFIELD_COUNT =>
      \A k \in 1..MANTX_EXTRATOFIELD_COUNT :
        {i \in 0..(NumItems - 1) :
           GetItem(i, TmpLen).from = RecipientsOf[r].items[k]}
          = {MANTX_DISPLAY_COUNT + 3 * (r - 1) + (k - 1)}

(* _read and parser_validate decide by the text alone, whatever the static *)
(* tx_obj still holds of earlier ones: a text is reviewed if and only if it*)
(* is one of those the parser should accept.                               *)
VerdictIsOfText ==
  /\ pc = "review"   => Acceptable(text)
  /\ pc = "rejected" => ~Acceptable(text)

(* Only the types printTxType has a name for are accepted, although        *)
(* validateTxType lets every number up to 122 pass.                        *)
OnlyNamedTypes == pc = "review" => tx_obj.extraTxType \in NamedTypes

(* The assertion of the fuzz target: on a large screen every item of a     *)
(* validated transaction can be shown.                                     *)
ValidatedCanBeShown ==
  pc = "review" => \A i \in 0..(NumItems - 1) : GetItem(i, 16384).err = "ok"

(* parser_txdef.h leaves out R and S before EnterType: the value shown as  *)
(* EnterType is field 9.                                                   *)
EnterTypeShown ==
  screen.err = "ok" /\ screen.key = "EnterType" =>
    LabelOf(screen.from.at) = "EnterType"

(* _read refuses a wrong number of items: an accepted list has no items    *)
(* but the ones that were read.                                            *)
NoUnreadItems ==
  pc = "review" =>
    /\ Len(RootOf) = MANTX_ROOTFIELD_COUNT
    /\ Len(ExtraOf) = MANTX_EXTRAFIELD_COUNT
    /\ Len(RecipientsOf) <= MANTX_EXTRALISTFIELD_COUNT
    /\ \A r \in ItemsIn(RecipientsOf) : Len(r.items) = MANTX_EXTRATOFIELD_COUNT

(* parser_getItem gives a readable output for each field: what is shown as *)
(* "Empty" is an empty string or list, not a byte.                         *)
EmptyIsEmpty ==
  screen.err = "ok" /\ screen.form = "Empty" => screen.from.kind # "byte"
=============================================================================
