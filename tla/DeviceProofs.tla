---------------------------- MODULE DeviceProofs ----------------------------
(***************************************************************************)
(* Proofs about the whole device, for all paths, blocks, texts and         *)
(* capacities: with a host that waits, what the user reads is what a       *)
(* button will send.  It takes the invariants of both halves: the handler  *)
(* keeps the text and the path while a review is on the screen, and the    *)
(* parser's object holds items of that text.                               *)
(***************************************************************************)
EXTENDS Device, ApduAppProofs

(* The device's parser, with the lemmas about it.                          *)
P == INSTANCE TxParserProofs
     WITH Texts <- {Items[t] : t \in DOMAIN Items}, Widths <- {Width}

-----------------------------------------------------------------------------
(* P's definitions are those of Parser.                                    *)

LEMMA ParserAssumptions == P!ParserAssumption /\ P!ItemAssumption
  BY DeviceAssumption
     DEF Parser!ParserAssumption, P!ParserAssumption,
         Parser!ItemAssumption, P!ItemAssumption

LEMMA SameNumItems == Parser!NumItems = P!NumItems
  BY Zenon
     DEF Parser!NumItems, P!NumItems,
         Parser!MANTX_DISPLAY_COUNT, P!MANTX_DISPLAY_COUNT

LEMMA SameGetItem ==
  ASSUME NEW i, NEW w
  PROVE  Parser!GetItem(i, w) = P!GetItem(i, w)
  BY Zenon
     DEF Parser!Shown, P!Shown,
         Parser!OrEmpty, P!OrEmpty,
         Parser!NumberError, P!NumberError,
         Parser!Decimal, P!Decimal,
         Parser!Number, P!Number,
         Parser!TextForms, P!TextForms,
         Parser!HexForms, P!HexForms,
         Parser!PrintDataField, P!PrintDataField,
         Parser!PrintTxType, P!PrintTxType,
         Parser!PrintChainID, P!PrintChainID,
         Parser!PrintCommitTime, P!PrintCommitTime,
         Parser!NumItems, P!NumItems,
         Parser!PrintExtraFields, P!PrintExtraFields,
         Parser!AfterSignature, P!AfterSignature,
         Parser!GetItem, P!GetItem,
         Parser!ReadInto, P!ReadInto,
         Parser!Item, P!Item,
         Parser!Cleared, P!Cleared,
         Parser!Check, P!Check,
         Parser!FirstError, P!FirstError,
         Parser!ListError, P!ListError,
         Parser!ItemsRead, P!ItemsRead,
         Parser!MANTX_ROOTFIELD_COUNT, P!MANTX_ROOTFIELD_COUNT,
         Parser!MANTX_EXTRAFIELD_COUNT, P!MANTX_EXTRAFIELD_COUNT,
         Parser!MANTX_DISPLAY_COUNT, P!MANTX_DISPLAY_COUNT,
         Parser!MANTX_EXTRATOFIELD_COUNT, P!MANTX_EXTRATOFIELD_COUNT

LEMMA SameItemsOfText == Parser!ItemsOfText = P!ItemsOfText
  BY Zenon
     DEF Parser!ItemsOfText, P!ItemsOfText,
         Parser!ItemsIn, P!ItemsIn,
         Parser!RootOf, P!RootOf,
         Parser!ExtraOf, P!ExtraOf,
         Parser!RecipientsOf, P!RecipientsOf,
         Parser!MANTX_ROOTFIELD_COUNT, P!MANTX_ROOTFIELD_COUNT,
         Parser!MANTX_EXTRAFIELD_COUNT, P!MANTX_EXTRAFIELD_COUNT

LEMMA SameReadRoot ==
  ASSUME Parser!ReadRoot
  PROVE  P!ReadRoot
  BY Zenon
     DEF Parser!ReadRoot, P!ReadRoot,
         Parser!Step, P!Step,
         Parser!ReadInto, P!ReadInto,
         Parser!Check, P!Check,
         Parser!FirstError, P!FirstError,
         Parser!ListError, P!ListError,
         Parser!ItemsRead, P!ItemsRead,
         Parser!MANTX_ROOTFIELD_COUNT, P!MANTX_ROOTFIELD_COUNT

LEMMA SameReadExtraFields ==
  ASSUME Parser!ReadExtraFields
  PROVE  P!ReadExtraFields
  BY Zenon
     DEF Parser!ReadExtraFields, P!ReadExtraFields,
         Parser!Step, P!Step,
         Parser!ReadInto, P!ReadInto,
         Parser!Item, P!Item,
         Parser!Cleared, P!Cleared,
         Parser!Check, P!Check,
         Parser!FirstError, P!FirstError,
         Parser!ListError, P!ListError,
         Parser!ItemsRead, P!ItemsRead,
         Parser!MANTX_ROOTFIELD_COUNT, P!MANTX_ROOTFIELD_COUNT,
         Parser!MANTX_EXTRAFIELD_COUNT, P!MANTX_EXTRAFIELD_COUNT

LEMMA SameReadTxType ==
  ASSUME Parser!ReadTxType
  PROVE  P!ReadTxType
  BY Zenon
     DEF Parser!ReadTxType, P!ReadTxType,
         Parser!Step, P!Step,
         Parser!NumberError, P!NumberError,
         Parser!Check, P!Check,
         Parser!FirstError, P!FirstError,
         Parser!MANTX_TXTYPE_SUPERBLOCK, P!MANTX_TXTYPE_SUPERBLOCK

LEMMA SameReadRecipients ==
  ASSUME Parser!ReadRecipients
  PROVE  P!ReadRecipients
  BY Zenon
     DEF Parser!ReadRecipients, P!ReadRecipients,
         Parser!Step, P!Step,
         Parser!ReadInto, P!ReadInto,
         Parser!ListError, P!ListError,
         Parser!ItemsRead, P!ItemsRead,
         Parser!MANTX_EXTRAFIELD_COUNT, P!MANTX_EXTRAFIELD_COUNT

LEMMA SameCheckRecipients ==
  ASSUME Parser!CheckRecipients
  PROVE  P!CheckRecipients
  BY Zenon
     DEF Parser!CheckRecipients, P!CheckRecipients,
         Parser!Step, P!Step,
         Parser!WholeRecipient, P!WholeRecipient,
         Parser!Check, P!Check,
         Parser!ListError, P!ListError,
         Parser!ItemsRead, P!ItemsRead,
         Parser!MANTX_EXTRATOFIELD_COUNT, P!MANTX_EXTRATOFIELD_COUNT

LEMMA SameParserValidate ==
  ASSUME Parser!ParserValidate
  PROVE  P!ParserValidate
  BY SameNumItems, SameGetItem, Zenon
     DEF Parser!ParserValidate, P!ParserValidate,
         Parser!Step, P!Step,
         Parser!Check, P!Check,
         Parser!TmpLen, P!TmpLen

LEMMA SameClearedTx == Parser!ClearedTx = P!ClearedTx
  BY Zenon
     DEF Parser!ClearedTx, P!ClearedTx,
         Parser!Item, P!Item,
         Parser!Cleared, P!Cleared,
         Parser!MANTX_ROOTFIELD_COUNT, P!MANTX_ROOTFIELD_COUNT,
         Parser!MANTX_EXTRAFIELD_COUNT, P!MANTX_EXTRAFIELD_COUNT

LEMMA SameParserInitContext ==
  ASSUME NEW t, Parser!ParserInitContext(t)
  PROVE  P!ParserInitContext(t)
  BY SameClearedTx, Zenon
     DEF Parser!ParserInitContext, P!ParserInitContext,
         Parser!NoScreen, P!NoScreen

-----------------------------------------------------------------------------
(* The invariant. *)

(* An address review has the address of hdPath in the buffer.              *)
AddressOwned == view = "address" => G_io_apdu_buffer = hdPath

(* While the last block is parsed nothing is reviewed, and what is parsed  *)
(* is the text it completes.                                               *)
Parsing ==
  lastBlock # None =>
    /\ view = "idle"
    /\ lastBlock \in Payload
    /\ Fits(lastBlock)
    /\ text = Items[txBuffer \o lastBlock]

DeviceInv ==
  /\ DeviceTypeOK
  /\ AnswerOwedIffReview
  /\ OpenUploadIsMainnet
  /\ AddressOwned
  /\ P!Inv
  /\ Parsing
  /\ ScreenIsOfTheAnswer

(* A text that fits the buffer is one the reader finds something in.       *)
LEMMA TextsHaveItems ==
  ASSUME TypeOK, NEW d \in Payload, Fits(d)
  PROVE  Items[txBuffer \o d] \in {Items[t] : t \in DOMAIN Items}
<1>1. txBuffer \o d \in Seq(Byte) /\ Len(txBuffer \o d) <= Capacity
  BY AppendFits DEF TypeOK
<1>2. \A s \in Seq(Byte) : Len(s) \in Nat /\ s \in [1..Len(s) -> Byte]
  OBVIOUS
<1>3. Len(txBuffer \o d) \in 0..Capacity
  BY <1>1, <1>2, ConstantsAssumption
<1>4. txBuffer \o d \in DOMAIN Items
  BY <1>1, <1>2, <1>3, DeviceAssumption
<1> QED
  BY <1>4

(* The items of the text are those of the same text.                       *)
LEMMA ItemsStay ==
  ASSUME UNCHANGED text
  PROVE  Parser!ItemsOfText' = Parser!ItemsOfText
  BY DEF Parser!ItemsOfText, Parser!RootOf, Parser!ExtraOf, Parser!RecipientsOf

(* A step of the app leaves at most an address on a screen that is new.    *)
LEMMA AppStepPost ==
  ASSUME HostsWait, TypeOK, AnswerOwedIffReview, OpenUploadIsMainnet,
         Commands \/ UserDecides \/ IoReset
  PROVE  /\ TypeOK' /\ AnswerOwedIffReview' /\ OpenUploadIsMainnet'
         /\ AddressOwned'
         /\ view' \in {"idle", "address"}
         /\ view' = "address" => view = "idle"
<1>1. [Next]_vars
  BY DEF Commands, Next
<1>2. TypeOK' /\ OpenUploadIsMainnet'
  BY <1>1, TypeStep, MainnetStep
<1>3. CASE Commands
  <2>1. CommandArrives
    BY <1>3 DEF Commands, HandleGetVersion, RefuseCommand, HandleGetAddr,
                SignInit, SignNotInitialized, SignTooLong, SignAdd
  <2>2. view = "idle"
    BY <2>1, NoCommandDuringReview
  <2>3. Inv
    BY <2>2 DEF Inv, ReviewOwnsGlobals
  <2>4. Inv'
    BY <1>1, <2>3, InvStep
  <2>5. view' \in {"idle", "address"}
    BY <1>3, <2>2
       DEF Commands, HandleGetVersion, RefuseCommand, HandleGetAddr,
           GetAddrRefused, GetAddrFails, GetAddrAnswered, GetAddrReviewed,
           SignInit, SignNotInitialized, SignTooLong, SignAdd
  <2> QED
    BY <1>2, <2>2, <2>4, <2>5 DEF Inv, ReviewOwnsGlobals, AddressOwned
<1>4. CASE UserDecides
  BY <1>2, <1>4, DecisionsAnswer DEF AnswerOwedIffReview, AddressOwned
<1>5. CASE IoReset
  <2>1. view' = "idle" /\ reply' # None
    BY <1>5, AnswersAreReplies DEF IoReset, Send
  <2> QED
    BY <1>2, <2>1 DEF AnswerOwedIffReview, AddressOwned
<1> QED
  BY <1>3, <1>4, <1>5

LEMMA AppStepKeeps ==
  ASSUME HostsWait, DeviceInv,
         AppStep(Commands) \/ AppStep(UserDecides) \/ AppStep(IoReset)
  PROVE  DeviceInv'
<1>1. /\ lastBlock = None /\ lastBlock' = None
      /\ Commands \/ UserDecides \/ IoReset
      /\ screen' = IF view' = view THEN screen ELSE NoScreen
      /\ UNCHANGED <<text, tx_obj, pc, expert>>
  BY DEF AppStep, parserVars
<1>2. /\ TypeOK' /\ AnswerOwedIffReview' /\ OpenUploadIsMainnet' /\ AddressOwned'
      /\ view' \in {"idle", "address"}
      /\ view' = "address" => view = "idle"
  BY <1>1, AppStepPost DEF DeviceInv, DeviceTypeOK
<1>3. DeviceTypeOK'
  BY <1>1, <1>2 DEF DeviceInv, DeviceTypeOK
<1>4. P!Inv'
  BY <1>1, ParserAssumptions, P!ParseStays DEF DeviceInv
<1>5. screen' = NoScreen
  BY <1>1, <1>2 DEF DeviceInv, ScreenIsOfTheAnswer
<1>6. ScreenIsOfTheAnswer'
  BY <1>2, <1>5 DEF ScreenIsOfTheAnswer, NoScreen
<1> QED
  BY <1>1, <1>2, <1>3, <1>4, <1>6 DEF DeviceInv, Parsing

LEMMA ParseBeginsKeeps ==
  ASSUME HostsWait, DeviceInv, NEW d \in Payload, ParseBegins(d)
  PROVE  DeviceInv'
<1>1. /\ CommandArrives /\ tx_initialized /\ Fits(d)
      /\ lastBlock' = d
      /\ Parser!ParserInitContext(Items[txBuffer \o d])
      /\ UNCHANGED <<vars, expert>>
  BY DEF ParseBegins
<1>2. view = "idle"
  BY <1>1, NoCommandDuringReview DEF DeviceInv
<1>3. text' = Items[txBuffer \o d] /\ screen' = NoScreen
  BY <1>1 DEF Parser!ParserInitContext, NoScreen
<1>4. P!Inv'
  BY <1>1, ParserAssumptions, SameParserInitContext, TextsHaveItems,
     P!ParserInitContextStep
     DEF DeviceInv, DeviceTypeOK
<1>5. /\ TypeOK' /\ AnswerOwedIffReview' /\ OpenUploadIsMainnet' /\ AddressOwned'
      /\ view' = "idle"
  BY <1>1, <1>2
     DEF DeviceInv, DeviceTypeOK, TypeOK, AnswerOwedIffReview,
         OpenUploadIsMainnet, AddressOwned, vars
<1>6. DeviceTypeOK'
  BY <1>1, <1>5, DeviceAssumption DEF DeviceInv, DeviceTypeOK
<1>7. Parsing'
  BY <1>1, <1>3, <1>5 DEF Parsing, Fits, vars
<1>8. ScreenIsOfTheAnswer'
  BY <1>3, <1>5 DEF ScreenIsOfTheAnswer, NoScreen
<1> QED
  BY <1>4, <1>5, <1>6, <1>7, <1>8 DEF DeviceInv

LEMMA ParseStepKeeps ==
  ASSUME DeviceInv, ParseStep
  PROVE  DeviceInv'
<1>1. /\ lastBlock # None
      /\ UNCHANGED <<vars, lastBlock, expert>>
  BY DEF ParseStep
<1>2. UNCHANGED <<text, screen>>
  BY DEF ParseStep, Parser!ReadRoot, Parser!ReadExtraFields, Parser!ReadTxType,
         Parser!ReadRecipients, Parser!CheckRecipients, Parser!ParserValidate,
         Parser!Step
<1>3. P!Inv'
  BY ParserAssumptions, SameReadRoot, SameReadExtraFields, SameReadTxType,
     SameReadRecipients, SameCheckRecipients, SameParserValidate,
     P!ReadRootStep, P!ReadExtraFieldsStep, P!ReadTxTypeStep,
     P!ReadRecipientsStep, P!CheckRecipientsStep, P!ParserValidateStep
     DEF DeviceInv, ParseStep
<1>4. /\ TypeOK' /\ AnswerOwedIffReview' /\ OpenUploadIsMainnet' /\ AddressOwned'
      /\ view' = view
  BY <1>1
     DEF DeviceInv, DeviceTypeOK, TypeOK, AnswerOwedIffReview,
         OpenUploadIsMainnet, AddressOwned, vars
<1>5. DeviceTypeOK'
  BY <1>1, <1>4 DEF DeviceInv, DeviceTypeOK
<1>6. Parsing' /\ view = "idle"
  BY <1>1, <1>2 DEF DeviceInv, Parsing, Fits, vars
<1>7. ScreenIsOfTheAnswer'
  BY <1>2, <1>4, <1>6 DEF DeviceInv, ScreenIsOfTheAnswer, NoScreen
<1> QED
  BY <1>3, <1>4, <1>5, <1>6, <1>7 DEF DeviceInv

(* The verdict: a review starts with no page shown, of the text that was   *)
(* parsed.                                                                 *)
LEMMA ParseEndsKeeps ==
  ASSUME DeviceInv, ParseEnds
  PROVE  DeviceInv'
<1>1. /\ lastBlock # None /\ lastBlock' = None
      /\ pc \in {"rejected", "review"}
      /\ SignLastParsed(lastBlock, pc = "review")
      /\ screen' = NoScreen
      /\ UNCHANGED <<text, tx_obj, pc, expert>>
  BY DEF ParseEnds, parserVars
<1>2. /\ view = "idle" /\ lastBlock \in Payload /\ Fits(lastBlock)
      /\ text = Items[txBuffer \o lastBlock]
  BY <1>1 DEF DeviceInv, Parsing
<1>3. /\ tx_initialized' = FALSE
      /\ txBuffer' = txBuffer \o lastBlock
      /\ \/ view' = "idle" /\ Send(Refusal("DATA_INVALID"))
         \/ view' = "txn" /\ reply' = None /\ G_io_apdu_buffer' = None
             /\ pc = "review"
      /\ ctx_parsed_tx' = txBuffer'
      /\ UNCHANGED <<hdPath, action_addrResponseLen>>
  BY <1>1, <1>2 DEF SignLastParsed
<1>4. TypeOK'
  BY <1>2, <1>3, AppendFits, AnswersAreReplies
     DEF DeviceInv, DeviceTypeOK, TypeOK, Send, Errors
<1>5. AnswerOwedIffReview' /\ OpenUploadIsMainnet' /\ AddressOwned'
  BY <1>3, AnswersAreReplies
     DEF AnswerOwedIffReview, OpenUploadIsMainnet, AddressOwned, Send, Errors
<1>6. DeviceTypeOK'
  BY <1>1, <1>4 DEF DeviceInv, DeviceTypeOK
<1>7. P!Inv'
  BY <1>1, ParserAssumptions, P!ParseStays DEF DeviceInv
<1>8. ScreenIsOfTheAnswer'
  BY <1>1, <1>2, <1>3 DEF ScreenIsOfTheAnswer, NoScreen
<1> QED
  BY <1>1, <1>5, <1>6, <1>7, <1>8 DEF DeviceInv, Parsing

(* A page that is shown is one of the parser's, whose items are the text's.*)
LEMMA ShowItemKeeps ==
  ASSUME DeviceInv, NEW i \in 0..Parser!NumItems, ShowItem(i)
  PROVE  DeviceInv'
<1>1. /\ view = "txn"
      /\ screen' = Parser!GetItem(i, Width)
      /\ screen'.err = "ok"
      /\ UNCHANGED <<vars, lastBlock, expert, text, tx_obj, pc>>
  BY DEF ShowItem, Parser!TxGetItem
<1>2. text = Items[txBuffer] /\ pc = "review"
  BY <1>1 DEF DeviceInv, ScreenIsOfTheAnswer
<1>3. screen'.from \in Parser!ItemsOfText
  <2>1. i \in Nat
    OBVIOUS
  <2>2. P!GetItem(i, Width).err = "ok"
    BY <1>1, SameGetItem
  <2>3. P!GetItem(i, Width).from \in P!ItemsOfText
    BY <1>2, <2>1, <2>2, ParserAssumptions, P!PagesAreOfTheText DEF DeviceInv
  <2> QED
    BY <1>1, <2>3, SameGetItem, SameItemsOfText
<1>4. screen'.from \in Parser!ItemsOfText'
  BY <1>1, <1>3, ItemsStay
<1>5. /\ TypeOK' /\ AnswerOwedIffReview' /\ OpenUploadIsMainnet' /\ AddressOwned'
      /\ view' = "txn"
  BY <1>1
     DEF DeviceInv, DeviceTypeOK, TypeOK, AnswerOwedIffReview,
         OpenUploadIsMainnet, AddressOwned, vars
<1>6. DeviceTypeOK'
  BY <1>1, <1>5 DEF DeviceInv, DeviceTypeOK
<1>7. P!Inv'
  BY <1>1, ParserAssumptions, P!ParseStays DEF DeviceInv
<1>8. Parsing'
  BY <1>1 DEF DeviceInv, Parsing, vars
<1>9. ScreenIsOfTheAnswer'
  BY <1>1, <1>2, <1>4, <1>5 DEF ScreenIsOfTheAnswer, vars
<1> QED
  BY <1>5, <1>6, <1>7, <1>8, <1>9 DEF DeviceInv

LEMMA ItemFailsKeeps ==
  ASSUME DeviceInv, NEW i \in 0..Parser!NumItems, ItemFails(i)
  PROVE  DeviceInv'
<1>1. /\ ItemNotShown
      /\ UNCHANGED <<lastBlock, expert, text, tx_obj, pc>>
  BY DEF ItemFails, Parser!TxGetItem
<1>2. /\ TypeOK' /\ AnswerOwedIffReview' /\ OpenUploadIsMainnet' /\ AddressOwned'
      /\ view = "txn" /\ view' = "error" /\ txBuffer' = txBuffer
  BY <1>1
     DEF DeviceInv, DeviceTypeOK, TypeOK, AnswerOwedIffReview,
         OpenUploadIsMainnet, AddressOwned, ItemNotShown
<1>3. DeviceTypeOK'
  BY <1>1, <1>2 DEF DeviceInv, DeviceTypeOK
<1>4. P!Inv'
  BY <1>1, ParserAssumptions, P!ParseStays DEF DeviceInv
<1>5. Parsing'
  BY <1>1, <1>2 DEF DeviceInv, Parsing
<1>6. ScreenIsOfTheAnswer'
  BY <1>1, <1>2 DEF DeviceInv, ScreenIsOfTheAnswer
<1> QED
  BY <1>2, <1>3, <1>4, <1>5, <1>6 DEF DeviceInv

(* Both items of an address review are the path the address was made from. *)
LEMMA ShowAddressKeeps ==
  ASSUME DeviceInv, ShowAddress
  PROVE  DeviceInv'
<1>1. /\ view = "address"
      /\ UNCHANGED <<vars, lastBlock, expert, text, tx_obj, pc>>
  BY DEF ShowAddress, parserVars
<1>2. PICK i \in 0..(AddrGetNumItems - 1) : screen' = AddrGetItem(i)
  BY DEF ShowAddress
<1>3. G_io_apdu_buffer = hdPath
  BY <1>1 DEF DeviceInv, AddressOwned
<1>4. i = 0 \/ (i = 1 /\ expert)
  BY <1>2 DEF AddrGetNumItems, DeviceInv, DeviceTypeOK
<1>5. screen'.path = hdPath
  <2>1. CASE i = 0
    BY <1>2, <1>3, <2>1 DEF AddrGetItem, AddrItem
  <2>2. CASE i = 1 /\ expert
    BY <1>2, <1>3, <2>2 DEF AddrGetItem, AddrItem
  <2> QED
    BY <1>4, <2>1, <2>2
<1>6. /\ TypeOK' /\ AnswerOwedIffReview' /\ OpenUploadIsMainnet' /\ AddressOwned'
      /\ view' = "address"
  BY <1>1
     DEF DeviceInv, DeviceTypeOK, TypeOK, AnswerOwedIffReview,
         OpenUploadIsMainnet, AddressOwned, vars
<1>7. DeviceTypeOK'
  BY <1>1, <1>6 DEF DeviceInv, DeviceTypeOK
<1>8. P!Inv'
  BY <1>1, ParserAssumptions, P!ParseStays DEF DeviceInv
<1>9. Parsing'
  BY <1>1, <1>6 DEF DeviceInv, Parsing, vars
<1>10. ScreenIsOfTheAnswer'
  BY <1>1, <1>3, <1>5, <1>6 DEF ScreenIsOfTheAnswer, vars
<1> QED
  BY <1>6, <1>7, <1>8, <1>9, <1>10 DEF DeviceInv

LEMMA ToggleExpertKeeps ==
  ASSUME DeviceInv, ToggleExpert
  PROVE  DeviceInv'
<1>1. /\ expert' = ~expert
      /\ UNCHANGED <<vars, lastBlock, text, tx_obj, pc, screen>>
  BY DEF ToggleExpert, parserVars
<1>2. expert' \in BOOLEAN
  BY <1>1
<1>3. /\ TypeOK' /\ AnswerOwedIffReview' /\ OpenUploadIsMainnet' /\ AddressOwned'
  BY <1>1
     DEF DeviceInv, DeviceTypeOK, TypeOK, AnswerOwedIffReview,
         OpenUploadIsMainnet, AddressOwned, vars
<1>4. DeviceTypeOK'
  BY <1>1, <1>2, <1>3 DEF DeviceInv, DeviceTypeOK
<1>5. P!Inv'
  BY <1>1, ParserAssumptions, P!ParseStays DEF DeviceInv
<1>6. Parsing'
  BY <1>1 DEF DeviceInv, Parsing, Fits, vars
<1>7. Parser!ItemsOfText' = Parser!ItemsOfText
  BY <1>1, ItemsStay
<1>8. ScreenIsOfTheAnswer'
  BY <1>1, <1>7 DEF DeviceInv, ScreenIsOfTheAnswer, NoScreen, Parser!NoScreen, vars
<1> QED
  BY <1>3, <1>4, <1>5, <1>6, <1>8 DEF DeviceInv

LEMMA DeviceRestartKeeps ==
  ASSUME DeviceInv, DeviceRestart
  PROVE  DeviceInv'
<1>1. /\ Restart
      /\ lastBlock' = None
      /\ text' = <<>> /\ tx_obj' = P!ClearedTx /\ pc' = "rejected"
      /\ screen' = NoScreen
      /\ UNCHANGED expert
  BY SameClearedTx DEF DeviceRestart
<1>2. TypeOK'
  BY <1>1, TypeStep DEF DeviceInv, DeviceTypeOK, Next
<1>3. AnswerOwedIffReview' /\ OpenUploadIsMainnet' /\ AddressOwned' /\ view' = "idle"
  BY <1>1, AnswersAreReplies
     DEF Restart, Send, AnswerOwedIffReview, OpenUploadIsMainnet, AddressOwned
<1>4. DeviceTypeOK'
  BY <1>1, <1>2 DEF DeviceInv, DeviceTypeOK
<1>5. P!Typed'
  BY <1>1, ParserAssumptions, P!ClearedTxTyped DEF P!Typed
<1>6. P!Inv'
  BY <1>1, <1>5, ParserAssumptions, P!RejectedStep
<1>7. ScreenIsOfTheAnswer'
  BY <1>1, <1>3 DEF ScreenIsOfTheAnswer, NoScreen
<1> QED
  BY <1>1, <1>3, <1>4, <1>6, <1>7 DEF DeviceInv, Parsing

LEMMA DeviceStutters ==
  ASSUME DeviceInv, UNCHANGED deviceVars
  PROVE  DeviceInv'
<1>1. UNCHANGED <<vars, lastBlock, text, tx_obj, pc, screen, expert>>
  BY DEF deviceVars, parserVars
<1>2. /\ TypeOK' /\ AnswerOwedIffReview' /\ OpenUploadIsMainnet' /\ AddressOwned'
  BY <1>1
     DEF DeviceInv, DeviceTypeOK, TypeOK, AnswerOwedIffReview,
         OpenUploadIsMainnet, AddressOwned, vars
<1>3. DeviceTypeOK' /\ Parsing'
  BY <1>1, <1>2 DEF DeviceInv, DeviceTypeOK, Parsing, Fits, vars
<1>4. P!Inv'
  BY <1>1, ParserAssumptions, P!ParseStays DEF DeviceInv
<1>5. Parser!ItemsOfText' = Parser!ItemsOfText
  BY <1>1, ItemsStay
<1>6. ScreenIsOfTheAnswer'
  BY <1>1, <1>5 DEF DeviceInv, ScreenIsOfTheAnswer, NoScreen, Parser!NoScreen, vars
<1> QED
  BY <1>2, <1>3, <1>4, <1>6 DEF DeviceInv

-----------------------------------------------------------------------------
LEMMA DeviceInvInit == DeviceInit => DeviceInv
<1> SUFFICES ASSUME DeviceInit PROVE DeviceInv
  OBVIOUS
<1>1. Init /\ lastBlock = None /\ expert = FALSE
  BY DEF DeviceInit
<1>2. text = <<>> /\ tx_obj = P!ClearedTx /\ pc = "rejected"
      /\ screen = NoScreen
  BY SameClearedTx DEF DeviceInit, Parser!Init, NoScreen
<1>3. DeviceTypeOK
  BY <1>1, <1>2, TypeInit DEF DeviceTypeOK
<1>4. /\ AnswerOwedIffReview /\ OpenUploadIsMainnet /\ AddressOwned
      /\ view = "idle"
  BY <1>1, AnswersAreReplies
     DEF Init, AnswerOwedIffReview, OpenUploadIsMainnet, AddressOwned
<1>5. P!Init
  BY <1>2 DEF P!Init, P!NoScreen, NoScreen, Parser!NoScreen
<1>6. P!Inv
  BY <1>5, ParserAssumptions, P!InitInv
<1>7. ScreenIsOfTheAnswer
  BY <1>2, <1>4 DEF ScreenIsOfTheAnswer
<1> QED
  BY <1>1, <1>3, <1>4, <1>6, <1>7 DEF DeviceInv, Parsing

LEMMA DeviceInvStep ==
  ASSUME HostsWait, DeviceInv, [DeviceNext]_deviceVars
  PROVE  DeviceInv'
<1>1. CASE DeviceCommand \/ DeviceDecides \/ DeviceIoReset
  BY <1>1, AppStepKeeps DEF DeviceCommand, DeviceDecides, DeviceIoReset
<1>2. CASE DeviceRestart \/ ToggleExpert \/ ShowAddress
  BY <1>2, DeviceRestartKeeps, ToggleExpertKeeps, ShowAddressKeeps
<1>3. CASE \E d \in Payload : ParseBegins(d)
  BY <1>3, ParseBeginsKeeps
<1>4. CASE ParseStep \/ ParseEnds
  BY <1>4, ParseStepKeeps, ParseEndsKeeps
<1>5. CASE \E i \in 0..Parser!NumItems : ShowItem(i) \/ ItemFails(i)
  BY <1>5, ShowItemKeeps, ItemFailsKeeps
<1>6. CASE UNCHANGED deviceVars
  BY <1>6, DeviceStutters
<1> QED
  BY <1>1, <1>2, <1>3, <1>4, <1>5, <1>6 DEF DeviceNext

LEMMA DeviceInvAlways ==
  ASSUME HostsWait
  PROVE  DeviceSpec => []DeviceInv
<1>1. DeviceInv /\ [DeviceNext]_deviceVars => DeviceInv'
  BY DeviceInvStep
<1> QED
  BY <1>1, DeviceInvInit, PTL DEF DeviceSpec

(* With a host that waits, every variable of the device keeps its type: the*)
(* buffer holds no more than its page, and when no block is being parsed   *)
(* the parser has given its verdict.                                       *)
THEOREM DeviceTypesCorrect ==
  ASSUME HostsWait
  PROVE  DeviceSpec => []DeviceTypeOK
<1>1. DeviceInv => DeviceTypeOK
  BY DEF DeviceInv
<1> QED
  BY <1>1, DeviceInvAlways, PTL

(* With a host that waits, what the user reads on any page of a review     *)
(* (tx_getItem, addr_getItem) belongs to what the button under it will     *)
(* send: the items are of the text that will be signed, and the address    *)
(* and the path beside it are those of the answer.                         *)
THEOREM ScreensAreOfTheAnswer ==
  ASSUME HostsWait
  PROVE  DeviceSpec => []ScreenIsOfTheAnswer
<1>1. DeviceInv => ScreenIsOfTheAnswer
  BY DEF DeviceInv
<1> QED
  BY <1>1, DeviceInvAlways, PTL
-----------------------------------------------------------------------------
(* Whatever the host does, the device is the app of ApduApp.  What that    *)
(* needs of the parser is its verdict: that it is about the text that the  *)
(* last block completes, and depends on that text alone.                   *)

VerdictOwned ==
  lastBlock # None =>
    /\ lastBlock \in Payload
    /\ Fits(lastBlock)
    /\ text = Items[txBuffer \o lastBlock]

AppInv ==
  /\ TypeOK
  /\ P!VerdictInv
  /\ VerdictOwned

LEMMA SameAcceptable ==
  ASSUME NEW t
  PROVE  Parser!Acceptable(t) <=> P!Acceptable(t)
  BY Zenon
     DEF Parser!Acceptable, P!Acceptable,
         Parser!Whole, P!Whole,
         Parser!IsNumber, P!IsNumber,
         Parser!NumberFits, P!NumberFits,
         Parser!FieldsFit, P!FieldsFit,
         Parser!NamedTypes, P!NamedTypes,
         Parser!RecipientsFit, P!RecipientsFit,
         Parser!ExtraFits, P!ExtraFits,
         Parser!TmpLen, P!TmpLen,
         Parser!MANTX_ROOTFIELD_COUNT, P!MANTX_ROOTFIELD_COUNT,
         Parser!MANTX_EXTRAFIELD_COUNT, P!MANTX_EXTRAFIELD_COUNT,
         Parser!MANTX_EXTRATOFIELD_COUNT, P!MANTX_EXTRATOFIELD_COUNT

(* A text that fits the buffer is one the reader has been run on.          *)
LEMMA FittingTextIsRead ==
  ASSUME TypeOK, NEW d \in Payload, Fits(d)
  PROVE  txBuffer \o d \in DOMAIN Items
<1>1. txBuffer \o d \in Seq(Byte) /\ Len(txBuffer \o d) <= Capacity
  BY AppendFits DEF TypeOK
<1>2. \A s \in Seq(Byte) : Len(s) \in Nat /\ s \in [1..Len(s) -> Byte]
  OBVIOUS
<1>3. Len(txBuffer \o d) \in 0..Capacity
  BY <1>1, <1>2, ConstantsAssumption
<1> QED
  BY <1>1, <1>2, <1>3, DeviceAssumption

LEMMA AppInvInit == DeviceInit => AppInv
<1> SUFFICES ASSUME DeviceInit PROVE AppInv
  OBVIOUS
<1>1. Init /\ lastBlock = None
  BY DEF DeviceInit
<1>2. text = <<>> /\ tx_obj = P!ClearedTx /\ pc = "rejected"
      /\ screen = NoScreen
  BY SameClearedTx DEF DeviceInit, Parser!Init, NoScreen
<1>3. P!Init
  BY <1>2 DEF P!Init, P!NoScreen, NoScreen, Parser!NoScreen
<1>4. P!VerdictInv
  BY <1>3, ParserAssumptions, P!InitVerdict
<1> QED
  BY <1>1, <1>4, TypeInit DEF AppInv, VerdictOwned

(* The parser's verdict on the last block is AcceptedTx's.                 *)
LEMMA VerdictIsAccepted ==
  ASSUME AppInv, lastBlock # None, pc \in {"rejected", "review"}
  PROVE  (pc = "review") <=> (txBuffer \o lastBlock \in AcceptedTx)
<1>1. /\ lastBlock \in Payload /\ Fits(lastBlock)
      /\ text = Items[txBuffer \o lastBlock]
  BY DEF AppInv, VerdictOwned
<1>2. txBuffer \o lastBlock \in DOMAIN Items
  BY <1>1, FittingTextIsRead DEF AppInv
<1>3. txBuffer \o lastBlock \in AcceptedTx <=> Parser!Acceptable(text)
  BY <1>1, <1>2, AcceptedAssumption
<1>4. (pc = "review") <=> P!Acceptable(text)
  BY DEF AppInv, P!VerdictInv, P!VerdictIsOfText
<1> QED
  BY <1>3, <1>4, SameAcceptable

(* Every step of the device is one of the app, or none.                    *)
LEMMA DeviceStepIsAppStep ==
  ASSUME AppInv, [DeviceNext]_deviceVars
  PROVE  [Next]_vars
<1>1. CASE DeviceCommand \/ DeviceDecides \/ DeviceIoReset
  BY <1>1 DEF DeviceCommand, DeviceDecides, DeviceIoReset, AppStep, Commands, Next
<1>2. CASE DeviceRestart
  BY <1>2 DEF DeviceRestart, Next
<1>3. CASE ParseEnds
  <2>1. /\ SignLastParsed(lastBlock, pc = "review")
        /\ lastBlock # None /\ pc \in {"rejected", "review"}
    BY <1>3 DEF ParseEnds
  <2>2. (pc = "review") = (txBuffer \o lastBlock \in AcceptedTx)
    BY <2>1, VerdictIsAccepted
  <2>3. SignLast(lastBlock)
    BY <2>1, <2>2 DEF SignLast, SignLastParsed
  <2>4. lastBlock \in Payload
    BY <2>1 DEF AppInv, VerdictOwned
  <2> QED
    BY <2>3, <2>4 DEF Next
<1>4. CASE \E i \in 0..Parser!NumItems : ItemFails(i)
  BY <1>4 DEF ItemFails, Next
<1>5. CASE \/ ToggleExpert \/ ParseStep \/ ShowAddress
           \/ \E d \in Payload : ParseBegins(d)
           \/ \E i \in 0..Parser!NumItems : ShowItem(i)
           \/ UNCHANGED deviceVars
  BY <1>5 DEF ToggleExpert, ParseStep, ShowAddress, ParseBegins, ShowItem,
              deviceVars
<1> QED
  BY <1>1, <1>2, <1>3, <1>4, <1>5 DEF DeviceNext

LEMMA AppInvStep ==
  ASSUME AppInv, [DeviceNext]_deviceVars
  PROVE  AppInv'
<1>1. TypeOK'
  BY DeviceStepIsAppStep, TypeStep DEF AppInv
<1>2. CASE \/ DeviceCommand \/ DeviceDecides \/ DeviceIoReset \/ ToggleExpert
  <2>1. lastBlock' = None /\ UNCHANGED <<text, tx_obj, pc>>
    BY <1>2 DEF DeviceCommand, DeviceDecides, DeviceIoReset, AppStep,
                ToggleExpert, parserVars
  <2>2. P!VerdictInv'
    BY <2>1, ParserAssumptions, P!VerdictStays DEF AppInv
  <2> QED
    BY <1>1, <2>1, <2>2 DEF AppInv, VerdictOwned
<1>3. CASE DeviceRestart
  <2>1. /\ lastBlock' = None
        /\ text' = <<>> /\ tx_obj' = P!ClearedTx /\ pc' = "rejected"
        /\ screen' = P!NoScreen
    BY <1>3, SameClearedTx DEF DeviceRestart, NoScreen, Parser!NoScreen, P!NoScreen
  <2>2. P!Init'
    BY <2>1 DEF P!Init
  <2>3. P!VerdictInv'
    BY <2>2, ParserAssumptions, P!InitVerdict, PTL
  <2> QED
    BY <1>1, <2>1, <2>3 DEF AppInv, VerdictOwned
<1>4. ASSUME NEW d \in Payload, ParseBegins(d)
      PROVE  AppInv'
  <2>1. /\ Fits(d) /\ lastBlock' = d
        /\ Parser!ParserInitContext(Items[txBuffer \o d])
        /\ UNCHANGED vars
    BY <1>4 DEF ParseBegins
  <2>2. text' = Items[txBuffer \o d]
    BY <2>1 DEF Parser!ParserInitContext
  <2>3. P!VerdictInv'
    BY <2>1, ParserAssumptions, SameParserInitContext, TextsHaveItems,
       P!ParserInitContextVerdict
       DEF AppInv
  <2> QED
    BY <1>1, <2>1, <2>2, <2>3 DEF AppInv, VerdictOwned, Fits, vars
<1>5. CASE ParseStep
  <2>1. UNCHANGED <<vars, lastBlock>>
    BY <1>5 DEF ParseStep
  <2>2. UNCHANGED text
    BY <1>5
       DEF ParseStep, Parser!ReadRoot, Parser!ReadExtraFields, Parser!ReadTxType,
           Parser!ReadRecipients, Parser!CheckRecipients, Parser!ParserValidate,
           Parser!Step
  <2>3. P!VerdictInv'
    BY <1>5, ParserAssumptions, SameReadRoot, SameReadExtraFields,
       SameReadTxType, SameReadRecipients, SameCheckRecipients,
       SameParserValidate, P!ReadRootVerdict, P!ReadExtraFieldsVerdict,
       P!ReadTxTypeVerdict, P!ReadRecipientsVerdict, P!CheckRecipientsVerdict,
       P!ParserValidateVerdict
       DEF AppInv, ParseStep
  <2> QED
    BY <1>1, <2>1, <2>2, <2>3 DEF AppInv, VerdictOwned, Fits, vars
<1>6. CASE \/ ParseEnds \/ ShowAddress \/ UNCHANGED deviceVars
           \/ \E i \in 0..Parser!NumItems : ShowItem(i) \/ ItemFails(i)
  <2>1. /\ UNCHANGED <<text, tx_obj, pc>>
        /\ lastBlock' = None \/ UNCHANGED <<lastBlock, txBuffer>>
    BY <1>6 DEF ParseEnds, ShowAddress, ShowItem, ItemFails, ItemNotShown,
                Parser!TxGetItem, deviceVars, parserVars, vars
  <2>2. P!VerdictInv'
    BY <2>1, ParserAssumptions, P!VerdictStays DEF AppInv
  <2> QED
    BY <1>1, <2>1, <2>2 DEF AppInv, VerdictOwned, Fits
<1> QED
  BY <1>2, <1>3, <1>4, <1>5, <1>6 DEF DeviceNext

(* Whatever the host does, the device with its parser is the app of        *)
(* ApduApp: the static object tx_parse works in makes no difference, a     *)
(* text is reviewed exactly if it is one of AcceptedTx.                    *)
THEOREM DeviceIsAnApp == DeviceSpec => ImplementsApp
<1>1. DeviceInit => Init
  BY DEF DeviceInit
<1>2. AppInv /\ [DeviceNext]_deviceVars => AppInv'
  BY AppInvStep
<1>3. AppInv /\ [DeviceNext]_deviceVars => [Next]_vars
  BY DeviceStepIsAppStep
<1> QED
  BY <1>1, <1>2, <1>3, AppInvInit, PTL DEF DeviceSpec, ImplementsApp, Spec

(* With a host that waits for its answers the whole device is a signing    *)
(* session: what the user approved, and nothing else, is signed or handed  *)
(* out.                                                                    *)
THEOREM DeviceIsASession ==
  ASSUME HostsWait
  PROVE  DeviceSpec => Implements
BY DeviceIsAnApp, AppIsASession, PTL DEF ImplementsApp
=============================================================================
