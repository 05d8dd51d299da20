------------------------------- MODULE ApduApp -------------------------------
(***************************************************************************)
(* The command handler of the Matrix AI app (app/src/apdu_handler.c) with  *)
(* the transaction buffer it fills (common/tx.c), the reply callbacks a    *)
(* review screen runs (common/actions.h) and the global variables they     *)
(* share.  handleApdu runs to completion between two waits for the host,   *)
(* so each command is one step; a command that needs the user leaves its   *)
(* answer to a callback that runs later, and the globals that callback     *)
(* will read stay exposed until then.                                      *)
(***************************************************************************)
EXTENDS Naturals, Sequences, Answers

CONSTANTS
  Path,        \* derivation paths of five components a host may send
  Mainnet,     \* those that start with 44'/318'
  Truncated,   \* a path of fewer than five components
  Byte,        \* what transactions are written in
  Payload,     \* blocks of transaction bytes a command can carry
  AcceptedTx,  \* texts that tx_parse accepts
  Capacity,    \* FLASH_BUFFER_SIZE
  HostsWait    \* TRUE: no command arrives while an answer is owed

(* The answers, open uploads and reviews there can be.                     *)
Replies == [sw : Errors \cup {"OK"},
            kind : {"empty", "version", "address", "signature"},
            path : Path \cup {None}, text : Seq(Byte)]
Uploads == [path : Path, text : Seq(Byte)]
Reviews == [kind : {"txn", "address"}, path : Path, text : Seq(Byte)]

ASSUME ConstantsAssumption ==
  /\ Mainnet \subseteq Path
  /\ None \notin Path /\ Truncated \notin Path
  /\ Payload \subseteq Seq(Byte)
  /\ Capacity \in Nat
  /\ HostsWait \in BOOLEAN
  /\ None \notin Replies \cup Uploads \cup Reviews

VARIABLES
  tx_initialized,          \* an upload is open
  hdPath,                  \* the path every key is derived from
  txBuffer,                \* the bytes buffering_append has stored
  ctx_parsed_tx,           \* the text tx_parse last read; items come from it
  G_io_apdu_buffer,        \* the path whose address it holds, or None
  action_addrResponseLen,  \* length of the address answer kept for later
  view,                    \* the screen; its buttons run the callbacks
  reply                    \* the last answer; None while it is owed

vars == <<tx_initialized, hdPath, txBuffer, ctx_parsed_tx, G_io_apdu_buffer,
          action_addrResponseLen, view, reply>>

(* SECP256K1_PUBKEY_LEN and an address of 33 characters.                   *)
AddrResponseLen == 98

Init ==
  /\ tx_initialized = FALSE
  /\ hdPath = None
  /\ txBuffer = <<>>
  /\ ctx_parsed_tx = <<>>
  /\ G_io_apdu_buffer = None
  /\ action_addrResponseLen = 0
  /\ view = "idle"
  /\ reply = Ack

(* The host's side of the link.  A host that waits sends nothing between   *)
(* IO_ASYNCH_REPLY and the answer a callback sends.                        *)
CommandArrives == HostsWait => reply # None

(* The status word, and data if there is any, go out in the buffer the     *)
(* command came in.                                                        *)
Send(answer) ==
  /\ reply' = answer
  /\ G_io_apdu_buffer' = None

-----------------------------------------------------------------------------
(* Commands that touch nothing but the buffer they came in. *)

(* INS_GET_VERSION answers even while the device is locked.                *)
HandleGetVersion ==
  /\ CommandArrives
  /\ Send(Version)
  /\ UNCHANGED <<tx_initialized, hdPath, txBuffer, ctx_parsed_tx,
                 action_addrResponseLen, view>>

(* Refused before any handler looked at the command: unknown CLA or INS,   *)
(* no room for the header, a locked device, or an unknown payload type.    *)
RefuseCommand ==
  /\ CommandArrives
  /\ \E sw \in {"CLA_NOT_SUPPORTED", "WRONG_LENGTH", "INS_NOT_SUPPORTED",
                "COMMAND_NOT_ALLOWED", "INVALIDP1P2"} : Send(Refusal(sw))
  /\ UNCHANGED <<tx_initialized, hdPath, txBuffer, ctx_parsed_tx,
                 action_addrResponseLen, view>>

-----------------------------------------------------------------------------
(* extractHDPath: the path is copied before it is checked. *)

ExtractHDPath(p, sw) ==
  \/ /\ p = Truncated
     /\ sw = "WRONG_LENGTH"
     /\ UNCHANGED hdPath
  \/ /\ p \in Path \ Mainnet
     /\ sw = "DATA_INVALID"
     /\ hdPath' = p
  \/ /\ p \in Mainnet
     /\ sw = "OK"
     /\ hdPath' = p

(* INS_GET_ADDR.  extractHDPath closes any open upload first.  The key     *)
(* derivation may fail; if the caller asked for confirmation, the address  *)
(* waits in the buffer for the user.                                       *)
GetAddrRefused(p) ==
  /\ \E sw \in Errors : ExtractHDPath(p, sw) /\ Send(Refusal(sw))
  /\ UNCHANGED <<action_addrResponseLen, view>>

GetAddrFails(p) ==
  /\ ExtractHDPath(p, "OK")
  /\ action_addrResponseLen' = 0
  /\ Send(Refusal("EXECUTION_ERROR"))
  /\ UNCHANGED view

GetAddrAnswered(p) ==
  /\ ExtractHDPath(p, "OK")
  /\ action_addrResponseLen' = AddrResponseLen
  /\ G_io_apdu_buffer' = hdPath'
  /\ reply' = Address(hdPath')
  /\ UNCHANGED view

GetAddrReviewed(p) ==
  /\ ExtractHDPath(p, "OK")
  /\ action_addrResponseLen' = AddrResponseLen
  /\ G_io_apdu_buffer' = hdPath'
  /\ view' = "address"
  /\ reply' = None

(* A wrong variant: the address command leaves an upload open. *)
HandleGetAddrLeavesUpload(p) ==
  /\ CommandArrives
  /\ GetAddrRefused(p) \/ GetAddrFails(p) \/ GetAddrAnswered(p)
       \/ GetAddrReviewed(p)
  /\ UNCHANGED <<tx_initialized, txBuffer, ctx_parsed_tx>>

HandleGetAddr(p) ==
  /\ CommandArrives
  /\ tx_initialized' = FALSE
  /\ GetAddrRefused(p) \/ GetAddrFails(p) \/ GetAddrAnswered(p)
       \/ GetAddrReviewed(p)
  /\ UNCHANGED <<txBuffer, ctx_parsed_tx>>

-----------------------------------------------------------------------------
(* INS_SIGN, one action per payload type (process_chunk). *)

(* A wrong variant: tx_reset is forgotten. *)
SignInitKeepsText(p) ==
  /\ CommandArrives
  /\ \/ /\ ExtractHDPath(p, "OK")
        /\ tx_initialized' = TRUE
        /\ Send(Ack)
     \/ /\ \E sw \in Errors : ExtractHDPath(p, sw) /\ Send(Refusal(sw))
        /\ tx_initialized' = FALSE
  /\ UNCHANGED <<txBuffer, ctx_parsed_tx, action_addrResponseLen, view>>

SignInit(p) ==
  /\ CommandArrives
  /\ txBuffer' = <<>>
  /\ \/ /\ ExtractHDPath(p, "OK")
        /\ tx_initialized' = TRUE
        /\ Send(Ack)
     \/ /\ \E sw \in Errors : ExtractHDPath(p, sw) /\ Send(Refusal(sw))
        /\ tx_initialized' = FALSE
  /\ UNCHANGED <<ctx_parsed_tx, action_addrResponseLen, view>>

(* tx_append stores the whole block or reports that it did not.            *)
FitsWithOneMore(d) == Len(txBuffer) + Len(d) <= Capacity + 1  \* wrong

Fits(d) == Len(txBuffer) + Len(d) <= Capacity

SignNotInitialized ==
  /\ CommandArrives
  /\ ~tx_initialized
  /\ Send(Refusal("TX_NOT_INITIALIZED"))
  /\ UNCHANGED <<tx_initialized, hdPath, txBuffer, ctx_parsed_tx,
                 action_addrResponseLen, view>>

(* A wrong variant: the block is refused but the upload stays open. *)
SignTooLongStaysOpen(d) ==
  /\ CommandArrives
  /\ tx_initialized
  /\ ~Fits(d)
  /\ Send(Refusal("OUTPUT_BUFFER_TOO_SMALL"))
  /\ UNCHANGED <<tx_initialized, hdPath, txBuffer, ctx_parsed_tx,
                 action_addrResponseLen, view>>

SignTooLong(d) ==
  /\ CommandArrives
  /\ tx_initialized
  /\ ~Fits(d)
  /\ tx_initialized' = FALSE
  /\ Send(Refusal("OUTPUT_BUFFER_TOO_SMALL"))
  /\ UNCHANGED <<hdPath, txBuffer, ctx_parsed_tx, action_addrResponseLen,
                 view>>

SignAdd(d) ==
  /\ CommandArrives
  /\ tx_initialized
  /\ Fits(d)
  /\ txBuffer' = txBuffer \o d
  /\ Send(Ack)
  /\ UNCHANGED <<tx_initialized, hdPath, ctx_parsed_tx,
                 action_addrResponseLen, view>>

(* A wrong variant: an upload that stays open behind its review.           *)
SignLastStaysOpen(d, accepted) ==
  /\ CommandArrives
  /\ tx_initialized
  /\ Fits(d)
  /\ txBuffer' = txBuffer \o d
  /\ ctx_parsed_tx' = txBuffer'
  /\ accepted
  /\ view' = "txn"
  /\ reply' = None
  /\ G_io_apdu_buffer' = None
  /\ UNCHANGED <<tx_initialized, hdPath, action_addrResponseLen>>

(* handleSign after the last block, with the verdict of tx_parse.          *)
SignLastParsed(d, accepted) ==
  /\ CommandArrives
  /\ tx_initialized
  /\ Fits(d)
  /\ tx_initialized' = FALSE
  /\ txBuffer' = txBuffer \o d
  /\ ctx_parsed_tx' = txBuffer'
  /\ \/ /\ ~accepted
        /\ Send(Refusal("DATA_INVALID"))
        /\ UNCHANGED view
     \/ /\ accepted
        /\ view' = "txn"
        /\ reply' = None
        /\ G_io_apdu_buffer' = None
  /\ UNCHANGED <<hdPath, action_addrResponseLen>>

(* A wrong variant: a last block that is taken without P1_INIT.            *)
SignLastUnopened(d) ==
  /\ CommandArrives
  /\ Fits(d)
  /\ tx_initialized' = FALSE
  /\ txBuffer' = txBuffer \o d
  /\ ctx_parsed_tx' = txBuffer'
  /\ txBuffer' \in AcceptedTx
  /\ view' = "txn"
  /\ reply' = None
  /\ G_io_apdu_buffer' = None
  /\ UNCHANGED <<hdPath, action_addrResponseLen>>

SignLast(d) == SignLastParsed(d, txBuffer \o d \in AcceptedTx)

-----------------------------------------------------------------------------
(* The buttons of a screen, and the callback each one runs. *)

Leave(screens) ==
  /\ view \in screens
  /\ view' = "idle"
  /\ UNCHANGED <<tx_initialized, hdPath, txBuffer, ctx_parsed_tx,
                 action_addrResponseLen>>

(* Hashes what the buffer holds now and signs it with the key of the path  *)
(* hdPath holds now.                                                       *)
AppSign ==
  /\ Leave({"txn"})
  /\ \/ Send(Signature(hdPath, txBuffer))
     \/ Send(Refusal("SIGN_VERIFY_ERROR"))

(* A wrong variant: the screen closes and the host is told nothing. *)
AppRejectSilently ==
  /\ Leave({"txn", "address"})
  /\ UNCHANGED <<reply, G_io_apdu_buffer>>

AppReject ==
  /\ Leave({"txn", "address"})
  /\ Send(Refusal("COMMAND_NOT_ALLOWED"))

(* Sends what the buffer holds, to the length computed with the address.   *)
AppReplyAddress ==
  /\ Leave({"address"})
  /\ reply' = IF action_addrResponseLen > 0 THEN Address(G_io_apdu_buffer)
                                            ELSE Ack
  /\ UNCHANGED G_io_apdu_buffer

(* An item of the transaction cannot be shown on this screen.              *)
ItemNotShown ==
  /\ view = "txn"
  /\ view' = "error"
  /\ UNCHANGED <<tx_initialized, hdPath, txBuffer, ctx_parsed_tx,
                 G_io_apdu_buffer, action_addrResponseLen, reply>>

(* A wrong variant: the error screen closes without an answer. *)
AppReplyErrorSilently ==
  /\ Leave({"error"})
  /\ UNCHANGED <<reply, G_io_apdu_buffer>>

AppReplyError ==
  /\ Leave({"error"})
  /\ Send(Refusal("DATA_INVALID"))

UserDecides == AppSign \/ AppReject \/ AppReplyAddress \/ AppReplyError

-----------------------------------------------------------------------------
(* EXCEPTION_IO_RESET is passed on to the main loop, which starts the link *)
(* and the screen afresh and leaves the app's variables as they are.       *)
IoReset ==
  /\ view' = "idle"
  /\ Send(Ack)
  /\ UNCHANGED <<tx_initialized, hdPath, txBuffer, ctx_parsed_tx,
                 action_addrResponseLen>>

(* The app is left and started again: every variable is initialised anew.  *)
Restart ==
  /\ tx_initialized' = FALSE
  /\ hdPath' = None
  /\ txBuffer' = <<>>
  /\ ctx_parsed_tx' = <<>>
  /\ action_addrResponseLen' = 0
  /\ view' = "idle"
  /\ Send(Ack)

Next ==
  \/ HandleGetVersion \/ RefuseCommand
  \/ \E p \in Path \cup {Truncated} : HandleGetAddr(p) \/ SignInit(p)
  \/ SignNotInitialized
  \/ \E d \in Payload : SignTooLong(d) \/ SignAdd(d) \/ SignLast(d)
  \/ UserDecides \/ ItemNotShown
  \/ IoReset \/ Restart

Spec == Init /\ [][Next]_vars

-----------------------------------------------------------------------------
(* What must hold. *)

(* Each variable has its type; the transaction buffer never holds more     *)
(* than its flash page.                                                    *)
TypeOK ==
  /\ tx_initialized \in BOOLEAN
  /\ hdPath \in Path \cup {None}
  /\ txBuffer \in Seq(Byte) /\ Len(txBuffer) <= Capacity
  /\ ctx_parsed_tx \in Seq(Byte)
  /\ G_io_apdu_buffer \in Path \cup {None}
  /\ action_addrResponseLen \in {0, AddrResponseLen}
  /\ view \in {"idle", "address", "txn", "error"}
  /\ reply \in Replies \cup {None}

(* While a review is on the screen the globals its callbacks will read are *)
(* the ones it was made from: no upload is open that could change them,    *)
(* the buffer to be signed is the text that was parsed and accepted, the   *)
(* key is a mainnet one, and the address answer is still whole.            *)
ReviewOwnsGlobals ==
  /\ view \in {"txn", "error"} => /\ ~tx_initialized
                                  /\ ctx_parsed_tx = txBuffer
                                  /\ txBuffer \in AcceptedTx
                                  /\ hdPath \in Mainnet
  /\ view = "address" => /\ ~tx_initialized
                         /\ G_io_apdu_buffer = hdPath
                         /\ action_addrResponseLen = AddrResponseLen
                         /\ hdPath \in Mainnet

(* An answer is owed (IO_ASYNCH_REPLY) exactly while a screen is up whose  *)
(* callbacks will send it: none is forgotten and none is sent twice.       *)
AnswerOwedIffReview == (reply = None) <=> (view # "idle")

(* Whatever the host does, early commands included, an upload is open only *)
(* under a path extractHDPath has accepted.                                *)
OpenUploadIsMainnet == tx_initialized => hdPath \in Mainnet

(* Whatever the host does, an upload that stays open keeps its path and    *)
(* only ever grows, or is begun again from nothing by P1_INIT.             *)
UploadOnlyGrows ==
  [][tx_initialized /\ tx_initialized' =>
       \/ txBuffer' = <<>>
       \/ /\ hdPath' = hdPath
          /\ Len(txBuffer) <= Len(txBuffer')
          /\ txBuffer = SubSeq(txBuffer', 1, Len(txBuffer))]_vars

(* Whatever the host does, a transaction review starts by closing an open  *)
(* upload, and shows the accepted text that upload and its last block made *)
(* under the path the upload was opened with.                              *)
ReviewStartsFromUpload ==
  [][view # "txn" /\ view' = "txn" =>
       /\ tx_initialized /\ ~tx_initialized'
       /\ hdPath' = hdPath /\ hdPath' \in Mainnet
       /\ \E d \in Payload : ctx_parsed_tx' = txBuffer \o d
       /\ txBuffer' = ctx_parsed_tx' /\ ctx_parsed_tx' \in AcceptedTx]_vars

(* The app's globals seen as a signing session: an upload exists while     *)
(* tx_initialized is set, and what is reviewed is what the screen reads.   *)
OpenUpload == IF tx_initialized THEN [path |-> hdPath, text |-> txBuffer]
                                ELSE None

Screen == CASE view = "idle"    -> None
            [] view = "address" -> AddressReview(G_io_apdu_buffer)
            [] OTHER            -> TxReview(hdPath, ctx_parsed_tx)

Session == INSTANCE SigningSession
           WITH upload <- OpenUpload, review <- Screen, answer <- reply

(* With a host that waits for its answers the app is a signing session:    *)
(* what the user approved, and nothing else, is signed or handed out.      *)
Implements == Session!Spec
=============================================================================
