------------------------------- MODULE Device -------------------------------
(***************************************************************************)
(* The whole device: the command handler with the parser it runs on the    *)
(* last block (common/tx.c), and with what the screens of its reviews read *)
(* (tx_getItem, addr_getItem).  Between the last block and the parser's    *)
(* verdict nothing else of the app runs.  The parser's object is static:   *)
(* it outlives refused texts, reviews and resets, and is read again for    *)
(* every page the user turns to.                                           *)
(***************************************************************************)
EXTENDS ApduApp

CONSTANTS
  RlpItem,                      \* the items the RLP reader can find
  Items,                        \* what the RLP reader finds in a text
  MANTX_EXTRALISTFIELD_COUNT,
  Width                         \* outValLen of the screen

VARIABLES
  lastBlock,               \* the block whose text is being parsed, or None
  text, tx_obj, pc,        \* the parser's
  screen,                  \* the page on the screen, or NoScreen
  expert                   \* app_mode_expert()

parserVars == <<text, tx_obj, pc>>
deviceVars == <<vars, lastBlock, parserVars, screen, expert>>

Parser == INSTANCE TxParser
          WITH Texts <- {Items[t] : t \in DOMAIN Items}, Widths <- {Width}

(* The reader finds something in every text that fits the buffer.          *)
ASSUME DeviceAssumption ==
  /\ Parser!ParserAssumption
  /\ Parser!ItemAssumption
  /\ \A n \in 0..Capacity : [1..n -> Byte] \subseteq DOMAIN Items
  /\ None \notin Payload

(* AcceptedTx is what the parser should accept.                            *)
ASSUME AcceptedAssumption ==
  \A t \in DOMAIN Items : t \in AcceptedTx <=> Parser!Acceptable(Items[t])

NoScreen == Parser!NoScreen

DeviceInit ==
  /\ Init
  /\ Parser!Init
  /\ lastBlock = None
  /\ expert = FALSE

-----------------------------------------------------------------------------
(* Steps of the app while nothing is parsed.  A screen that is left, or    *)
(* another, shows nothing of the last one.                                 *)

AppStep(A) ==
  /\ lastBlock = None
  /\ A
  /\ screen' = IF view' = view THEN screen ELSE NoScreen
  /\ UNCHANGED <<lastBlock, parserVars, expert>>

Commands ==
  \/ HandleGetVersion \/ RefuseCommand
  \/ \E p \in Path \cup {Truncated} : HandleGetAddr(p) \/ SignInit(p)
  \/ SignNotInitialized
  \/ \E d \in Payload : SignTooLong(d) \/ SignAdd(d)

DeviceCommand == AppStep(Commands)
DeviceDecides == AppStep(UserDecides)

(* A restart clears the parser's object too, and keeps the setting.        *)
DeviceIoReset == AppStep(IoReset)

DeviceRestart ==
  /\ Restart
  /\ lastBlock' = None
  /\ text' = <<>> /\ tx_obj' = Parser!ClearedTx /\ pc' = "rejected"
  /\ screen' = NoScreen
  /\ UNCHANGED expert

(* The setting is changed in the menu, which no review shows.              *)
ToggleExpert ==
  /\ lastBlock = None
  /\ view = "idle"
  /\ expert' = ~expert
  /\ UNCHANGED <<vars, lastBlock, parserVars, screen>>

-----------------------------------------------------------------------------
(* The last block, the parser, and the verdict.  Parts of the handler, so  *)
(* that nothing of the app runs between them.                              *)

ParseBegins(d) ==
  /\ lastBlock = None
  /\ CommandArrives
  /\ tx_initialized
  /\ Fits(d)
  /\ lastBlock' = d
  /\ Parser!ParserInitContext(Items[txBuffer \o d])
  /\ UNCHANGED <<vars, expert>>

ParseStep ==
  /\ lastBlock # None
  /\ \/ Parser!ReadRoot \/ Parser!ReadExtraFields \/ Parser!ReadTxType
     \/ Parser!ReadRecipients \/ Parser!CheckRecipients
     \/ Parser!ParserValidate
  /\ UNCHANGED <<vars, lastBlock, expert>>

ParseEnds ==
  /\ lastBlock # None
  /\ pc \in {"rejected", "review"}
  /\ SignLastParsed(lastBlock, pc = "review")
  /\ lastBlock' = None
  /\ screen' = NoScreen
  /\ UNCHANGED <<parserVars, expert>>

-----------------------------------------------------------------------------
(* Pages.  An item that cannot be shown turns the review into an error;    *)
(* one past the last is no item.                                           *)

ShowItem(i) ==
  /\ view = "txn"
  /\ Parser!TxGetItem(i, Width)
  /\ screen'.err = "ok"
  /\ UNCHANGED <<vars, lastBlock, expert>>

ItemFails(i) ==
  /\ view = "txn"
  /\ Parser!TxGetItem(i, Width)
  /\ screen'.err \notin {"ok", "display_idx_out_of_range"}
  /\ ItemNotShown
  /\ UNCHANGED <<lastBlock, expert>>

(* addr_getItem: the address in the command buffer, and in expert mode the *)
(* path, which it reads from hdPath.                                       *)
AddrItem(key, path) == [err |-> "ok", key |-> key, path |-> path]

AddrGetItem(displayIdx) ==
  CASE displayIdx = 0            -> AddrItem("Address", G_io_apdu_buffer)
    [] displayIdx = 1 /\ expert  -> AddrItem("Your Path", hdPath)
    [] OTHER                     -> [err |-> "no_data"]

AddrGetNumItems == IF expert THEN 2 ELSE 1

ShowAddress ==
  /\ view = "address"
  /\ \E i \in 0..(AddrGetNumItems - 1) : screen' = AddrGetItem(i)
  /\ UNCHANGED <<vars, lastBlock, parserVars, expert>>

-----------------------------------------------------------------------------
DeviceNext ==
  \/ DeviceCommand \/ DeviceDecides
  \/ DeviceIoReset \/ DeviceRestart \/ ToggleExpert
  \/ \E d \in Payload : ParseBegins(d)
  \/ ParseStep \/ ParseEnds
  \/ \E i \in 0..Parser!NumItems : ShowItem(i) \/ ItemFails(i)
  \/ ShowAddress

DeviceSpec == DeviceInit /\ [][DeviceNext]_deviceVars

(* The handler runs on, and somebody presses a button of a review in the   *)
(* end; the code has no timeout of its own.                                *)
FairDeviceSpec ==
  /\ DeviceSpec
  /\ WF_<<vars, lastBlock, pc>>(ParseStep \/ ParseEnds)
  /\ WF_vars(DeviceDecides)

-----------------------------------------------------------------------------
(* Properties. *)

(* Types of the app, the parser's verdict, and the app's last step.        *)
DeviceTypeOK ==
  /\ TypeOK
  /\ lastBlock \in Payload \cup {None}
  /\ lastBlock = None => pc \in {"rejected", "review"}
  /\ expert \in BOOLEAN

(* With the parser in place of AcceptedTx the device is the app of         *)
(* ApduApp: whether a text is accepted depends on the text alone, whatever *)
(* the parser's static object still holds of earlier ones.                 *)
ImplementsApp == Spec

(* What the user reads belongs to what a button will send: every item of   *)
(* a transaction was read from the text in the buffer that will be signed, *)
(* the address is that of the buffer that will be sent, and the path beside*)
(* it is the path of that address.                                         *)
ScreenIsOfTheAnswer ==
  /\ view \in {"txn", "error"} => text = Items[txBuffer] /\ pc = "review"
  /\ view = "txn" /\ screen # NoScreen => screen.from \in Parser!ItemsOfText
  /\ view = "address" /\ screen # NoScreen =>
       screen.path = G_io_apdu_buffer /\ screen.path = hdPath
  /\ view = "idle" => screen = NoScreen

(* With a user who presses a button in the end, every command is answered, *)
(* last blocks included, whatever the parser makes of them.                *)
EveryCommandAnswered ==
  (reply = None \/ lastBlock # None) ~> (reply # None /\ lastBlock = None)
=============================================================================
