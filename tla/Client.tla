------------------------------- MODULE Client -------------------------------
(***************************************************************************)
(* The JavaScript client (js/src/index.ts, helper.ts) and the device it    *)
(* calls.  A call is an async method: it sends a command, awaits the       *)
(* answer, and goes on; between two sends of one call the methods of       *)
(* another may run, for all of them share one transport.  The transport    *)
(* carries one exchange at a time and refuses a second one (hw-transport,  *)
(* not in this repository); a send may also fail because the link does,    *)
(* and the next one may work again.  The device is ApduApp, which may be   *)
(* locked, reset or restarted at any time.  A link that breaks during an   *)
(* exchange is reset at both ends.                                         *)
(***************************************************************************)
EXTENDS ApduApp

CONSTANTS
  Caller,       \* who calls the client's methods
  HostPath,     \* paths serializePath accepts: four to six components
  DevicePath,   \* the five components extractHDPath reads of each
  PathBytes,    \* the bytes of each, as a block of text
  Message,      \* what callers want signed
  Request,      \* for each caller, the method calls it may make
  ChunkSize     \* the client's chunkSize

ASSUME ClientAssumption ==
  /\ DevicePath \in [HostPath -> Path \cup {Truncated}]
  /\ PathBytes \in [HostPath -> Payload]
  /\ Message \subseteq Seq(Byte)
  /\ Request \in [Caller -> SUBSET [kind : {"get", "show", "sign"},
                                    path : HostPath, message : Message]]
  /\ ChunkSize \in Nat \ {0}
  /\ None \notin Caller

VARIABLES
  calls,      \* what each caller last called, and how far that has got
  exchange    \* whose command the transport is busy with, or None

clientVars == <<calls, exchange>>
allVars    == <<vars, clientVars>>

(* The error of a send that failed.                                        *)
LinkError == Refusal("LINK_ERROR")

(* A call.  Of the answers so far it keeps the last; approved and whole    *)
(* are not in the code: what the user approved during the call, and        *)
(* whether the device took its P1_INIT and no command of another caller    *)
(* since.                                                                  *)
Call(kind, path, message) ==
  [kind |-> kind, path |-> path, message |-> message, chunkIdx |-> 1,
   pc |-> "send", result |-> None, approved |-> None, whole |-> FALSE]

Returned(r) == r.pc = "returned"

(* Before its first call, as after one that failed.                        *)
NoCall == [Call("none", None, <<>>) EXCEPT !.pc = "returned",
                                           !.result = LinkError]

ClientInit ==
  /\ Init
  /\ calls = [c \in Caller |-> NoCall]
  /\ exchange = None

-----------------------------------------------------------------------------
(* The chunks of a signature: the path, and the message in pieces. *)

Pieces(m) == (Len(m) + ChunkSize - 1) \div ChunkSize

Piece(m, k) ==
  SubSeq(m, (k - 1) * ChunkSize + 1,
            IF k = Pieces(m) THEN Len(m) ELSE k * ChunkSize)

ASSUME PiecesAssumption ==
  \A m \in Message : \A k \in 1..Pieces(m) : Piece(m, k) \in Payload

ChunkNum(r) == 1 + Pieces(r.message)

Chunk(r) == IF r.chunkIdx = 1 THEN PathBytes[r.path]
                              ELSE Piece(r.message, r.chunkIdx - 1)

PayloadType(r) ==
  IF r.chunkIdx = ChunkNum(r) THEN "LAST"
  ELSE IF r.chunkIdx = 1 THEN "INIT"
  ELSE "ADD"

-----------------------------------------------------------------------------
(* What the device does with a command of this client.  A locked device    *)
(* refuses it.                                                             *)

Locked == RefuseCommand /\ reply' = Refusal("COMMAND_NOT_ALLOWED")

DeviceGetAddr(r) ==
  /\ HandleGetAddr(DevicePath[r.path])
  /\ IF r.kind = "get" THEN view' = view
     ELSE reply' # None => reply'.sw # "OK"

DeviceSign(r) ==
  \/ PayloadType(r) = "INIT" /\ SignInit(DevicePath[r.path])
  \/ PayloadType(r) # "INIT" /\ (SignNotInitialized \/ SignTooLong(Chunk(r)))
  \/ PayloadType(r) = "ADD"  /\ SignAdd(Chunk(r))
  \/ PayloadType(r) = "LAST" /\ SignLast(Chunk(r))

DeviceHandles(r) ==
  \/ Locked
  \/ r.kind # "sign" /\ DeviceGetAddr(r)
  \/ r.kind = "sign" /\ DeviceSign(r)

-----------------------------------------------------------------------------
(* The client's side. *)

(* A method is called; a caller awaits it before its next.                 *)
Start(c, kind) ==
  /\ Returned(calls[c])
  /\ \E r \in Request[c] :
        /\ r.kind = kind
        /\ calls' = [calls EXCEPT ![c] = Call(kind, r.path, r.message)]
  /\ UNCHANGED <<vars, exchange>>

GetAddressAndPubKey(c)  == Start(c, "get")
ShowAddressAndPubKey(c) == Start(c, "show")
Sign(c)                 == Start(c, "sign")

(* The next command goes out and the device handles it.                    *)
SendCommand(c) ==
  /\ calls[c].pc = "send"
  /\ DeviceHandles(calls[c])
  /\ exchange' = c
  /\ calls' =
       [d \in Caller |->
          IF d = c
            THEN [calls[d] EXCEPT !.pc = "await",
                    !.whole = @ \/ (calls[d].kind = "sign" /\ reply' = Ack
                                      /\ PayloadType(calls[d]) = "INIT")]
            ELSE [calls[d] EXCEPT !.whole = FALSE]]

(* A wrong variant: the transport does not say that it is busy.            *)
TransportSendAnyTime(c) == SendCommand(c)

TransportSend(c) == exchange = None /\ SendCommand(c)

(* The answer or the error of a send, then what the method does with it.   *)
(* sign() does not look at what its first chunk came to, and keeps only    *)
(* the status of it; a later chunk that failed ends the call.              *)
ReturnedWith(r, answer) ==
  [r EXCEPT !.pc = "returned", !.result = answer]

(* Wrong variants: an error does not end the loop; the loop ends one chunk *)
(* early; or one late.                                                     *)
AfterNoBreak(r, answer) ==
  IF r.kind = "sign" /\ r.chunkIdx < ChunkNum(r)
    THEN [r EXCEPT !.pc = "send", !.chunkIdx = @ + 1]
    ELSE ReturnedWith(r, answer)

AfterEarly(r, answer) ==
  IF /\ r.kind = "sign"
     /\ r.chunkIdx + 1 < ChunkNum(r)
     /\ r.chunkIdx = 1 \/ answer.sw = "OK"
    THEN [r EXCEPT !.pc = "send", !.chunkIdx = @ + 1]
    ELSE ReturnedWith(r, answer)

AfterLate(r, answer) ==
  IF /\ r.kind = "sign"
     /\ r.chunkIdx <= ChunkNum(r)
     /\ r.chunkIdx = 1 \/ answer.sw = "OK"
    THEN [r EXCEPT !.pc = "send", !.chunkIdx = @ + 1]
    ELSE ReturnedWith(r, answer)

After(r, answer) ==
  IF r.kind = "sign" /\ r.chunkIdx = 1 /\ ChunkNum(r) = 1
    THEN ReturnedWith(r, Answer(answer.sw, "empty", None, <<>>))
  ELSE IF /\ r.kind = "sign"
          /\ r.chunkIdx < ChunkNum(r)
          /\ r.chunkIdx = 1 \/ answer.sw = "OK"
    THEN [r EXCEPT !.pc = "send", !.chunkIdx = @ + 1]
  ELSE ReturnedWith(r, answer)

Receive(c) ==
  /\ exchange = c
  /\ reply # None
  /\ exchange' = None
  /\ calls' = [calls EXCEPT ![c] = After(@, reply)]
  /\ UNCHANGED vars

(* The link fails before the command is out, or another exchange is in     *)
(* progress.                                                               *)
SendFails(c) ==
  /\ calls[c].pc = "send"
  /\ calls' = [calls EXCEPT ![c] = After(@, LinkError)]
  /\ UNCHANGED <<vars, exchange>>

-----------------------------------------------------------------------------
(* The user, the link and the device. *)

(* The user's decision belongs to the call that waits for it.              *)
UserSigns ==
  /\ AppSign
  /\ calls' = [c \in Caller |->
                 IF c = exchange /\ reply'.sw = "OK"
                   THEN [calls[c] EXCEPT !.approved =
                           TxReview(hdPath, ctx_parsed_tx)]
                   ELSE calls[c]]
  /\ UNCHANGED exchange

UserDecidesOtherwise ==
  /\ AppReject \/ AppReplyAddress \/ AppReplyError
  /\ UNCHANGED clientVars

ScreenFails == ItemNotShown /\ UNCHANGED clientVars

(* The device is reset or restarted, and an exchange in progress ends.     *)
LinkDown ==
  /\ IoReset \/ Restart
  /\ exchange' = None
  /\ calls' = [c \in Caller |-> IF c = exchange THEN After(calls[c], LinkError)
                                                ELSE calls[c]]

ClientStep(c) == TransportSend(c) \/ SendFails(c) \/ Receive(c)

UserStep == UserSigns \/ UserDecidesOtherwise

ClientNext ==
  \/ \E c \in Caller : \/ GetAddressAndPubKey(c) \/ ShowAddressAndPubKey(c)
                       \/ Sign(c)
                       \/ ClientStep(c)
  \/ UserStep \/ ScreenFails
  \/ LinkDown

ClientSpec == ClientInit /\ [][ClientNext]_allVars

(* Promises are settled and their callbacks run, and somebody presses a    *)
(* button of a review in the end.                                          *)
FairClientSpec ==
  /\ ClientSpec
  /\ \A c \in Caller : WF_allVars(ClientStep(c))
  /\ WF_allVars(UserStep)

-----------------------------------------------------------------------------
(* Properties. *)

ClientTypeOK ==
  /\ exchange \in Caller \cup {None}
  /\ \A c \in Caller :
       /\ calls[c].kind \in {"none", "get", "show", "sign"}
       /\ calls[c].path \in HostPath \cup {None}
       /\ calls[c].message \in Message \cup {<<>>}
       /\ calls[c].chunkIdx \in 1..ChunkNum(calls[c])
       /\ calls[c].pc \in {"send", "await", "returned"}
       /\ calls[c].whole \in BOOLEAN

(* The device's handlers count on a host that sends nothing while an       *)
(* answer is owed.  With the transport's lock this client is such a host,  *)
(* however many methods are called at once, however sends fail and devices *)
(* restart: the two together are an ApduApp whose host waits.              *)
Device == INSTANCE ApduApp WITH HostsWait <- TRUE

DeviceIsServed == Device!Spec

(* A signature a call returns is of a text and a path which the user saw   *)
(* and approved during that very call: it is never the answer to another   *)
(* call, or a late one.                                                    *)
SignatureWasApproved ==
  \A c \in Caller :
    Returned(calls[c]) /\ calls[c].result.kind = "signature" =>
      calls[c].approved = TxReview(calls[c].result.path, calls[c].result.text)

(* Once the device has taken a call's P1_INIT and hears from no other      *)
(* caller, the signature the call returns is of its message and of its     *)
(* path, whatever blocks were lost on the way.                             *)
SignedAsAskedOnceBegun ==
  \A c \in Caller :
    LET r == calls[c] IN
    Returned(r) /\ r.result.kind = "signature" /\ r.whole =>
      r.result = Signature(DevicePath[r.path], r.message)

(* What the device test takes for granted of every call: the signature it  *)
(* gets is of the path and the message it gave.                            *)
SignedAsAsked ==
  \A c \in Caller :
    Returned(calls[c]) /\ calls[c].result.kind = "signature" =>
      calls[c].result = Signature(DevicePath[calls[c].path], calls[c].message)

(* A call that returns OK returns what was asked for: an address of the    *)
(* path the device read, or, if there was anything to sign, a signature.   *)
OkMeansDone ==
  \A c \in Caller :
    Returned(calls[c]) /\ calls[c].result.sw = "OK" =>
      \/ calls[c].kind # "sign"
           /\ calls[c].result = Address(DevicePath[calls[c].path])
      \/ calls[c].kind = "sign" /\ calls[c].result.kind = "signature"
      \/ calls[c].kind = "sign" /\ calls[c].message = <<>>

(* Every call returns in the end, with a result or with an error.          *)
CallsReturn ==
  \A c \in Caller : (calls[c].pc # "returned") ~> (calls[c].pc = "returned")
=============================================================================
