---------------------------- MODULE ClientProofs ----------------------------
(***************************************************************************)
(* Proofs about the client and the device it calls, for any number of      *)
(* callers, all messages and all sizes of chunks, whether or not the       *)
(* device's handlers count on a host that waits: the client is such a      *)
(* host, and then the invariant of ApduAppProofs holds for the device.     *)
(***************************************************************************)
EXTENDS Client, ApduAppProofs, SequenceTheorems

(* What a send can come to.                                                *)
Results == [sw : Errors \cup {"OK", "LINK_ERROR"},
            kind : {"empty", "version", "address", "signature"},
            path : Path \cup {None}, text : Seq(Byte)]

CallStates ==
  [kind : {"none", "get", "show", "sign"}, path : HostPath \cup {None},
   message : Message \cup {<<>>}, chunkIdx : Nat \ {0},
   pc : {"send", "await", "returned"}, result : Results \cup {None},
   approved : Reviews \cup {None}, whole : BOOLEAN]

(* A call is at one of its chunks, and knows its arguments until it        *)
(* returns.                                                                *)
GoodCall(r) ==
  /\ r \in CallStates
  /\ r.chunkIdx <= ChunkNum(r)
  /\ r.pc # "returned" =>
       r.kind # "none" /\ r.path \in HostPath /\ r.message \in Message

(* The transport carries the exchange of the call that awaits, and while   *)
(* it carries none the device owes no answer.                              *)
CallsInv ==
  /\ calls = [c \in Caller |-> calls[c]]
  /\ \A c \in Caller : GoodCall(calls[c])
  /\ exchange \in Caller \cup {None}
  /\ \A c \in Caller : calls[c].pc = "await" <=> exchange = c
  /\ exchange = None => reply # None

-----------------------------------------------------------------------------
(* The operators of the client. *)

LEMMA ClientConstants ==
  /\ None \notin Caller
  /\ ChunkSize \in Nat /\ ChunkSize > 0
  /\ \A p \in HostPath : DevicePath[p] \in Path \cup {Truncated}
  /\ \A p \in HostPath : PathBytes[p] \in Payload
  /\ \A m \in Message : m \in Seq(Byte) /\ Len(m) \in Nat
  BY ClientAssumption

LEMMA PiecesIsNat ==
  ASSUME NEW m \in Message \cup {<<>>}
  PROVE  Pieces(m) \in Nat
<1>1. Len(m) \in Nat
  BY ClientConstants
<1>2. /\ Len(m) + ChunkSize - 1 \in Nat
      /\ ChunkSize \in Nat /\ ChunkSize > 0
  BY <1>1, ClientConstants
<1>3. \A n, k \in Nat : k > 0 => n \div k \in Nat
  OBVIOUS
<1> QED
  BY <1>2, <1>3 DEF Pieces

LEMMA ChunkNumIsPositive ==
  ASSUME NEW r, r.message \in Message \cup {<<>>}
  PROVE  Pieces(r.message) \in Nat /\ ChunkNum(r) \in Nat /\ ChunkNum(r) >= 1
<1>1. Pieces(r.message) \in Nat
  BY PiecesIsNat
<1>2. \A n \in Nat : 1 + n \in Nat /\ 1 + n >= 1
  OBVIOUS
<1> QED
  BY <1>1, <1>2 DEF ChunkNum

(* What a chunk carries is a block the device can take.                    *)
LEMMA ChunkIsPayload ==
  ASSUME NEW r, GoodCall(r), r.pc = "send"
  PROVE  Chunk(r) \in Payload
<1>1. CASE r.chunkIdx = 1
  BY <1>1, ClientConstants DEF Chunk, GoodCall
<1>2. CASE r.chunkIdx # 1
  <2>1. /\ r.chunkIdx \in Nat /\ r.chunkIdx >= 1 /\ r.message \in Message
        /\ r.chunkIdx <= ChunkNum(r)
    BY DEF GoodCall, CallStates
  <2>2. Pieces(r.message) \in Nat
    BY <2>1, ChunkNumIsPositive
  <2>3. r.chunkIdx - 1 \in 1..Pieces(r.message)
    BY <1>2, <2>1, <2>2 DEF ChunkNum
  <2> QED
    BY <1>2, <2>1, <2>3, PiecesAssumption DEF Chunk
<1> QED
  BY <1>1, <1>2

LEMMA ResultsAreAnswers ==
  /\ Replies \subseteq Results
  /\ LinkError \in Results
  /\ LinkError.sw = "LINK_ERROR" /\ LinkError.kind = "empty"
  /\ \A a \in Results : Answer(a.sw, "empty", None, <<>>) \in Results
<1>1. <<>> \in Seq(Byte)
  OBVIOUS
<1> QED
  BY <1>1 DEF Replies, Results, LinkError, Refusal, Answer

(* After an answer a call returns, with the answer or without its data, or *)
(* goes on to its next chunk; it goes on after an error of the first only. *)
LEMMA AfterPost ==
  ASSUME NEW r, GoodCall(r), r.pc # "returned",
         NEW answer \in Results, NEW s, s = After(r, answer)
  PROVE  /\ GoodCall(s) /\ s.pc # "await"
         /\ s.kind = r.kind /\ s.path = r.path /\ s.message = r.message
         /\ s.approved = r.approved /\ s.whole = r.whole
         /\ s.pc = "send" => /\ s.chunkIdx = r.chunkIdx + 1
                             /\ r.kind = "sign"
                             /\ r.chunkIdx = 1 \/ answer.sw = "OK"
         /\ s.pc = "returned" =>
              /\ s.result.sw = answer.sw
              /\ s.result = answer \/ s.result.kind = "empty"
              /\ r.kind = "sign" /\ answer.sw = "OK" =>
                   r.chunkIdx = ChunkNum(r)
<1>1. /\ r \in CallStates /\ r.chunkIdx \in Nat /\ r.chunkIdx >= 1
      /\ r.chunkIdx <= ChunkNum(r)
      /\ r.kind # "none" /\ r.path \in HostPath /\ r.message \in Message
  BY DEF GoodCall, CallStates
<1>2. ChunkNum(r) \in Nat
  BY <1>1, ChunkNumIsPositive
<1>3. ASSUME NEW a \in Results, s = ReturnedWith(r, a)
      PROVE  /\ s \in CallStates
             /\ s.pc = "returned" /\ s.result = a /\ s.chunkIdx = r.chunkIdx
             /\ s.kind = r.kind /\ s.path = r.path /\ s.message = r.message
             /\ s.approved = r.approved /\ s.whole = r.whole
  BY <1>1, <1>3 DEF ReturnedWith, CallStates
<1>4. ASSUME s.message = r.message PROVE ChunkNum(s) = ChunkNum(r)
  BY <1>4 DEF ChunkNum
<1>5. CASE r.kind = "sign" /\ r.chunkIdx = 1 /\ ChunkNum(r) = 1
  <2>1. s = ReturnedWith(r, Answer(answer.sw, "empty", None, <<>>))
    BY <1>5 DEF After
  <2>2. Answer(answer.sw, "empty", None, <<>>) \in Results
    BY ResultsAreAnswers
  <2> QED
    BY <1>1, <1>3, <1>4, <1>5, <2>1, <2>2 DEF GoodCall, Answer
<1>6. CASE /\ ~(r.kind = "sign" /\ r.chunkIdx = 1 /\ ChunkNum(r) = 1)
           /\ r.kind = "sign"
           /\ r.chunkIdx < ChunkNum(r)
           /\ r.chunkIdx = 1 \/ answer.sw = "OK"
  <2>1. s = [r EXCEPT !.pc = "send", !.chunkIdx = @ + 1]
    BY <1>6 DEF After
  <2>2. /\ s \in CallStates /\ s.pc = "send"
        /\ s.chunkIdx = r.chunkIdx + 1
        /\ s.kind = r.kind /\ s.path = r.path /\ s.message = r.message
        /\ s.approved = r.approved /\ s.whole = r.whole
    <3>1. r.chunkIdx + 1 \in Nat \ {0}
      BY <1>1
    <3> DEFINE n == r.chunkIdx + 1
    <3>2. s = [r EXCEPT !.pc = "send", !.chunkIdx = n]
      BY <2>1
    <3>3. n \in Nat \ {0}
      BY <3>1
    <3> HIDE DEF n
    <3>4. /\ s \in CallStates /\ s.pc = "send" /\ s.chunkIdx = n
          /\ s.kind = r.kind /\ s.path = r.path /\ s.message = r.message
          /\ s.approved = r.approved /\ s.whole = r.whole
      BY <1>1, <3>2, <3>3 DEF CallStates
    <3> QED
      BY <3>4 DEF n
  <2>3. s.chunkIdx <= ChunkNum(s)
    BY <1>1, <1>2, <1>4, <1>6, <2>2
  <2> QED
    BY <1>1, <1>6, <2>2, <2>3 DEF GoodCall
<1>7. CASE /\ ~(r.kind = "sign" /\ r.chunkIdx = 1 /\ ChunkNum(r) = 1)
           /\ ~(/\ r.kind = "sign"
                /\ r.chunkIdx < ChunkNum(r)
                /\ r.chunkIdx = 1 \/ answer.sw = "OK")
  <2>1. s = ReturnedWith(r, answer)
    BY <1>7 DEF After
  <2>2. r.kind = "sign" /\ answer.sw = "OK" => r.chunkIdx = ChunkNum(r)
    BY <1>1, <1>2, <1>7
  <2> QED
    BY <1>1, <1>3, <1>4, <2>1, <2>2 DEF GoodCall
<1> QED
  BY <1>5, <1>6, <1>7

-----------------------------------------------------------------------------
(* What the device is sent. *)

Command ==
  \/ RefuseCommand
  \/ \E p \in Path \cup {Truncated} : HandleGetAddr(p) \/ SignInit(p)
  \/ SignNotInitialized
  \/ \E d \in Payload : SignTooLong(d) \/ SignAdd(d) \/ SignLast(d)

LEMMA HandlesIsCommand ==
  ASSUME NEW r, GoodCall(r), r.pc = "send", DeviceHandles(r)
  PROVE  Command
<1>1. DevicePath[r.path] \in Path \cup {Truncated}
  BY ClientConstants DEF GoodCall
<1>2. Chunk(r) \in Payload
  BY ChunkIsPayload
<1> QED
  BY <1>1, <1>2 DEF DeviceHandles, Locked, DeviceGetAddr, DeviceSign, Command

(* Only a button of a review sends a signature.                            *)
LEMMA CommandsDoNotSign ==
  ASSUME Command
  PROVE  reply' = None \/ reply'.kind # "signature"
<1> USE DEF Refusal, Ack, Address, Answer, Send
<1>1. CASE RefuseCommand
  BY <1>1 DEF RefuseCommand
<1>2. ASSUME NEW p \in Path \cup {Truncated}, HandleGetAddr(p)
      PROVE  reply' = None \/ reply'.kind # "signature"
  BY <1>2 DEF HandleGetAddr, GetAddrRefused, GetAddrFails, GetAddrAnswered,
              GetAddrReviewed
<1>3. ASSUME NEW p \in Path \cup {Truncated}, SignInit(p)
      PROVE  reply' = None \/ reply'.kind # "signature"
  BY <1>3 DEF SignInit
<1>4. CASE SignNotInitialized
  BY <1>4 DEF SignNotInitialized
<1>5. ASSUME NEW d \in Payload, SignTooLong(d) \/ SignAdd(d) \/ SignLast(d)
      PROVE  reply' = None \/ reply'.kind # "signature"
  BY <1>5 DEF SignTooLong, SignAdd, SignLast, SignLastParsed
<1> QED
  BY <1>1, <1>2, <1>3, <1>4, <1>5 DEF Command

(* A step of the client and its device is one of a call, of the device, or *)
(* none.                                                                   *)
LEMMA ClientSteps ==
  ASSUME [ClientNext]_allVars
  PROVE  \/ \E c \in Caller, kind \in {"get", "show", "sign"} : Start(c, kind)
         \/ \E c \in Caller : TransportSend(c) \/ SendFails(c) \/ Receive(c)
         \/ UserSigns \/ UserDecidesOtherwise \/ ScreenFails \/ LinkDown
         \/ UNCHANGED allVars
  BY DEF ClientNext, ClientStep, UserStep, GetAddressAndPubKey,
         ShowAddressAndPubKey, Sign

(* To the device it is a command, or something of its own accord.          *)
LEMMA DeviceSteps ==
  ASSUME CallsInv, [ClientNext]_allVars
  PROVE  \/ \E c \in Caller : exchange = None /\ TransportSend(c) /\ Command
         \/ OwnStep
<1>1. ASSUME NEW c \in Caller, NEW kind, Start(c, kind) PROVE OwnStep
  BY <1>1 DEF Start, OwnStep
<1>2. ASSUME NEW c \in Caller, TransportSend(c)
      PROVE  exchange = None /\ Command
  <2>1. GoodCall(calls[c]) /\ calls[c].pc = "send" /\ DeviceHandles(calls[c])
    BY <1>2 DEF TransportSend, SendCommand, CallsInv
  <2> QED
    BY <1>2, <2>1, HandlesIsCommand DEF TransportSend
<1>3. ASSUME NEW c \in Caller, SendFails(c) \/ Receive(c) PROVE OwnStep
  BY <1>3 DEF SendFails, Receive, OwnStep
<1>4. CASE UserSigns \/ UserDecidesOtherwise \/ ScreenFails \/ LinkDown
  BY <1>4 DEF UserSigns, UserDecidesOtherwise, ScreenFails, LinkDown, OwnStep,
              UserDecides
<1>5. CASE UNCHANGED allVars
  BY <1>5 DEF allVars, OwnStep
<1> QED
  BY <1>1, <1>2, <1>3, <1>4, <1>5, ClientSteps

LEMMA DeviceStepIsAppStep ==
  ASSUME CallsInv, [ClientNext]_allVars
  PROVE  [Next]_vars
  BY DeviceSteps DEF Command, OwnStep, Next

-----------------------------------------------------------------------------
(* The calls. *)

LEMMA CallsInit == ClientInit => CallsInv
<1> SUFFICES ASSUME ClientInit PROVE CallsInv
  OBVIOUS
<1>1. /\ NoCall \in CallStates
      /\ NoCall.chunkIdx = 1 /\ NoCall.pc = "returned"
      /\ NoCall.message = <<>>
  <2>0. Call("none", None, <<>>) \in CallStates
    BY DEF Call, CallStates
  <2>1. PICK r \in CallStates : r = Call("none", None, <<>>)
    BY <2>0
  <2>2. NoCall = [r EXCEPT !.pc = "returned", !.result = LinkError]
    BY <2>1 DEF NoCall
  <2>3. r.chunkIdx = 1 /\ r.message = <<>>
    BY <2>1 DEF Call
  <2> QED
    BY <2>1, <2>2, <2>3, ResultsAreAnswers DEF CallStates
<1>2. GoodCall(NoCall)
  BY <1>1, ChunkNumIsPositive DEF GoodCall
<1>3. reply # None
  BY AnswersAreReplies DEF ClientInit, Init
<1> QED
  BY <1>1, <1>2, <1>3, ClientConstants DEF ClientInit, CallsInv

(* A call that has just been made.                                         *)
LEMMA NewCallPost ==
  ASSUME NEW c \in Caller, NEW kind \in {"get", "show", "sign"},
         NEW r \in Request[c], NEW s, s = Call(kind, r.path, r.message)
  PROVE  /\ GoodCall(s) /\ s.pc = "send" /\ s.approved = None
         /\ s.whole = FALSE /\ s.chunkIdx = 1 /\ s.kind = kind
<1>1. r.path \in HostPath /\ r.message \in Message
  BY ClientAssumption
<1>2. /\ s \in CallStates /\ s.kind = kind /\ s.pc = "send"
      /\ s.path = r.path /\ s.message = r.message /\ s.chunkIdx = 1
      /\ s.approved = None /\ s.whole = FALSE
  BY <1>1 DEF Call, CallStates
<1>3. ChunkNum(s) >= 1
  BY <1>1, <1>2, ChunkNumIsPositive
<1> QED
  BY <1>1, <1>2, <1>3 DEF GoodCall

(* A call whose command went out, and the others meanwhile.                *)
SentCall(r, w)   == [r EXCEPT !.pc = "await", !.whole = w]
OvertakenCall(r) == [r EXCEPT !.whole = FALSE]

LEMMA SentPost ==
  ASSUME NEW r, GoodCall(r), r.pc = "send", NEW w \in BOOLEAN,
         NEW s, s = SentCall(r, w)
  PROVE  /\ GoodCall(s) /\ s.pc = "await" /\ s.whole = w
         /\ s.kind = r.kind /\ s.path = r.path /\ s.message = r.message
         /\ s.chunkIdx = r.chunkIdx
         /\ s.approved = r.approved /\ s.result = r.result
<1>1. r \in CallStates
  BY DEF GoodCall
<1>2. /\ s \in CallStates /\ s.pc = "await" /\ s.whole = w
      /\ s.kind = r.kind /\ s.path = r.path /\ s.message = r.message
      /\ s.chunkIdx = r.chunkIdx
      /\ s.approved = r.approved /\ s.result = r.result
  BY <1>1 DEF CallStates, SentCall
<1>3. ChunkNum(s) = ChunkNum(r)
  BY <1>2 DEF ChunkNum
<1> QED
  BY <1>2, <1>3 DEF GoodCall

LEMMA OvertakenPost ==
  ASSUME NEW r, GoodCall(r), NEW s, s = OvertakenCall(r)
  PROVE  /\ GoodCall(s) /\ s.pc = r.pc /\ s.whole = FALSE
         /\ s.kind = r.kind /\ s.path = r.path /\ s.message = r.message
         /\ s.chunkIdx = r.chunkIdx
         /\ s.approved = r.approved /\ s.result = r.result
<1>1. r \in CallStates
  BY DEF GoodCall
<1>2. /\ s \in CallStates /\ s.pc = r.pc /\ s.whole = FALSE
      /\ s.kind = r.kind /\ s.path = r.path /\ s.message = r.message
      /\ s.chunkIdx = r.chunkIdx
      /\ s.approved = r.approved /\ s.result = r.result
  BY <1>1 DEF CallStates, OvertakenCall
<1>3. ChunkNum(s) = ChunkNum(r)
  BY <1>2 DEF ChunkNum
<1> QED
  BY <1>2, <1>3 DEF GoodCall

(* The device has taken the P1_INIT of a call.                             *)
Begun(r) == r.kind = "sign" /\ reply' = Ack /\ PayloadType(r) = "INIT"

LEMMA TransportSendPost ==
  ASSUME CallsInv, NEW c \in Caller, TransportSend(c)
  PROVE  /\ exchange = None /\ exchange' = c /\ calls[c].pc = "send"
         /\ Command /\ DeviceHandles(calls[c])
         /\ calls' = [d \in Caller |-> calls'[d]]
         /\ \E w \in BOOLEAN :
              /\ w = (calls[c].whole \/ Begun(calls[c]))
              /\ calls'[c] = SentCall(calls[c], w)
         /\ \A d \in Caller : d # c =>
              calls'[d] = OvertakenCall(calls[d])
<1>1. /\ exchange = None /\ exchange' = c /\ calls[c].pc = "send"
      /\ DeviceHandles(calls[c])
  BY DEF TransportSend, SendCommand
<1>2. calls' = [d \in Caller |->
         IF d = c
           THEN [calls[d] EXCEPT !.pc = "await",
                   !.whole = @ \/ (calls[d].kind = "sign" /\ reply' = Ack
                                     /\ PayloadType(calls[d]) = "INIT")]
           ELSE [calls[d] EXCEPT !.whole = FALSE]]
  BY DEF TransportSend, SendCommand
<1>3. Command
  BY <1>1, HandlesIsCommand DEF CallsInv
<1>4. \A d \in Caller : d # c =>
        calls'[d] = OvertakenCall(calls[d])
  BY <1>2 DEF OvertakenCall
<1>5. calls'[c] = [calls[c] EXCEPT !.pc = "await",
                     !.whole = @ \/ (calls[c].kind = "sign" /\ reply' = Ack
                                       /\ PayloadType(calls[c]) = "INIT")]
  BY <1>2
<1>6. calls[c].whole \in BOOLEAN
  BY DEF CallsInv, GoodCall, CallStates
<1>7. \E w \in BOOLEAN :
        /\ w = (calls[c].whole \/ Begun(calls[c]))
        /\ calls'[c] = SentCall(calls[c], w)
  <2>1. PICK w \in BOOLEAN : w = (calls[c].whole \/ Begun(calls[c]))
    BY <1>6
  <2>2. calls'[c] = SentCall(calls[c], w)
    BY <1>5, <2>1 DEF Begun, SentCall
  <2> QED
    BY <2>1, <2>2
<1>8. calls' = [d \in Caller |-> calls'[d]]
  BY <1>2
<1> QED
  BY <1>1, <1>3, <1>4, <1>7, <1>8

(* One call changes, the others do not.                                    *)
LEMMA CallUpdate ==
  ASSUME CallsInv, NEW c \in Caller, NEW s,
         calls' = [calls EXCEPT ![c] = s]
  PROVE  /\ calls' = [d \in Caller |-> calls'[d]]
         /\ calls'[c] = s
         /\ \A d \in Caller : d # c => calls'[d] = calls[d]
  BY DEF CallsInv

LEMMA LinkErrorPost ==
  ASSUME NEW r, GoodCall(r), r.pc # "returned",
         NEW s, s = After(r, LinkError)
  PROVE  /\ GoodCall(s) /\ s.pc # "await"
         /\ s.kind = r.kind /\ s.path = r.path /\ s.message = r.message
         /\ s.approved = r.approved /\ s.whole = r.whole
         /\ s.pc = "send" => r.chunkIdx = 1 /\ s.chunkIdx = 2
                               /\ r.kind = "sign"
         /\ s.pc = "returned" => s.result.kind = "empty"
                                   /\ s.result.sw = "LINK_ERROR"
<1>1. LinkError \in Results /\ LinkError.sw = "LINK_ERROR"
        /\ LinkError.kind = "empty"
  BY ResultsAreAnswers
<1>2. r.chunkIdx \in Nat
  BY DEF GoodCall, CallStates
<1> QED
  BY <1>1, <1>2, AfterPost

LEMMA ApprovedPost ==
  ASSUME NEW r, GoodCall(r), NEW v \in Reviews,
         NEW s, s = [r EXCEPT !.approved = v]
  PROVE  /\ GoodCall(s) /\ s.approved = v
         /\ s.kind = r.kind /\ s.path = r.path /\ s.message = r.message
         /\ s.chunkIdx = r.chunkIdx /\ s.pc = r.pc
         /\ s.result = r.result /\ s.whole = r.whole
<1>1. r \in CallStates
  BY DEF GoodCall
<1>2. /\ s \in CallStates /\ s.approved = v
      /\ s.kind = r.kind /\ s.path = r.path /\ s.message = r.message
      /\ s.chunkIdx = r.chunkIdx /\ s.pc = r.pc
      /\ s.result = r.result /\ s.whole = r.whole
  BY <1>1 DEF CallStates
<1>3. ChunkNum(s) = ChunkNum(r)
  BY <1>2 DEF ChunkNum
<1> QED
  BY <1>2, <1>3 DEF GoodCall

LEMMA CallsStep == Inv /\ CallsInv /\ [ClientNext]_allVars => CallsInv'
<1> SUFFICES ASSUME Inv, CallsInv, [ClientNext]_allVars PROVE CallsInv'
  OBVIOUS
<1>t. TypeOK
  BY DEF Inv
<1>n. None \notin Caller
  BY ClientConstants
<1>i. /\ calls = [c \in Caller |-> calls[c]]
      /\ \A c \in Caller : GoodCall(calls[c])
      /\ exchange \in Caller \cup {None}
      /\ \A c \in Caller : calls[c].pc = "await" <=> exchange = c
      /\ exchange = None => reply # None
  BY DEF CallsInv
(* It is enough to see what becomes of each call and of the exchange.      *)
<1>s. ASSUME calls' = [d \in Caller |-> calls'[d]],
             \A d \in Caller : GoodCall(calls'[d]),
             exchange' \in Caller \cup {None},
             \A d \in Caller : calls'[d].pc = "await" <=> exchange' = d,
             exchange' = None => reply' # None
      PROVE  CallsInv'
  BY <1>s DEF CallsInv
<1>1. ASSUME NEW c \in Caller, NEW kind \in {"get", "show", "sign"},
             Start(c, kind)
      PROVE  CallsInv'
  <2>1. PICK r \in Request[c] :
          calls' = [calls EXCEPT ![c] = Call(kind, r.path, r.message)]
    BY <1>1 DEF Start
  <2>2. /\ calls[c].pc = "returned" /\ exchange' = exchange /\ reply' = reply
    BY <1>1 DEF Start, Returned, vars
  <2>3. GoodCall(calls'[c]) /\ calls'[c].pc = "send"
    <3>1. PICK s : s = Call(kind, r.path, r.message)
      OBVIOUS
    <3>2. GoodCall(s) /\ s.pc = "send"
      <4>1. kind \in {"get", "show", "sign"} /\ r \in Request[c]
        BY <1>1, <2>1
      <4>2. GoodCall(s)
        BY <3>1, <4>1, NewCallPost
      <4>3. s.pc = "send"
        BY <3>1 DEF Call
      <4> QED
        BY <4>2, <4>3
    <3>3. calls' = [calls EXCEPT ![c] = s]
      BY <2>1, <3>1
    <3>4. calls'[c] = s
      BY <3>3, CallUpdate
    <3> QED
      BY <3>2, <3>4
  <2> QED
    BY <1>i, <1>s, <2>1, <2>2, <2>3, CallUpdate
<1>2. ASSUME NEW c \in Caller, TransportSend(c) PROVE CallsInv'
  <2>1. /\ exchange = None /\ exchange' = c /\ calls[c].pc = "send"
        /\ calls' = [d \in Caller |-> calls'[d]]
    BY <1>2, TransportSendPost
  <2>2. GoodCall(calls'[c]) /\ calls'[c].pc = "await"
    <3>1. PICK w \in BOOLEAN :
            calls'[c] = SentCall(calls[c], w)
      BY <1>2, TransportSendPost
    <3> QED
      BY <1>i, <2>1, <3>1, SentPost
  <2>3. \A d \in Caller : d # c =>
          GoodCall(calls'[d]) /\ calls'[d].pc = calls[d].pc
    <3>1. \A d \in Caller : d # c =>
            calls'[d] = OvertakenCall(calls[d])
      BY <1>2, TransportSendPost
    <3> QED
      BY <1>i, <3>1, OvertakenPost
  <2> QED
    BY <1>i, <1>n, <1>s, <2>1, <2>2, <2>3
<1>3. ASSUME NEW c \in Caller, SendFails(c) PROVE CallsInv'
  <2>1. /\ calls[c].pc = "send" /\ exchange' = exchange /\ reply' = reply
        /\ calls' = [calls EXCEPT ![c] = After(calls[c], LinkError)]
    BY <1>3 DEF SendFails, vars
  <2>2. GoodCall(calls'[c]) /\ calls'[c].pc # "await"
    BY <1>i, <2>1, CallUpdate, LinkErrorPost
  <2> QED
    BY <1>i, <1>s, <2>1, <2>2, CallUpdate
<1>4. ASSUME NEW c \in Caller, Receive(c) PROVE CallsInv'
  <2>1. /\ exchange = c /\ exchange' = None /\ reply' = reply /\ reply # None
        /\ calls' = [calls EXCEPT ![c] = After(calls[c], reply)]
    BY <1>4 DEF Receive, vars
  <2>2. reply \in Results
    BY <1>t, <2>1, ResultsAreAnswers DEF TypeOK
  <2>3. GoodCall(calls'[c]) /\ calls'[c].pc # "await"
    BY <1>i, <2>1, <2>2, CallUpdate, AfterPost
  <2> QED
    BY <1>i, <1>n, <1>s, <2>1, <2>3, CallUpdate
<1>5. CASE UserSigns
  <2>1. /\ exchange' = exchange /\ reply' # None
        /\ calls' = [c \in Caller |-> calls'[c]]
        /\ \A c \in Caller :
             calls'[c] \in {calls[c], [calls[c] EXCEPT !.approved =
                                         TxReview(hdPath, ctx_parsed_tx)]}
    BY <1>5, <1>t, DecisionsAnswer DEF UserSigns, UserDecides
  <2>2. hdPath \in Path /\ ctx_parsed_tx \in Seq(Byte)
    BY <1>5, ConstantsAssumption
    DEF UserSigns, AppSign, Leave, Inv, ReviewOwnsGlobals, TypeOK
  <2>3. TxReview(hdPath, ctx_parsed_tx) \in Reviews
    BY <2>2 DEF TxReview, Reviews
  <2>4. \A c \in Caller : GoodCall(calls'[c]) /\ calls'[c].pc = calls[c].pc
    BY <1>i, <2>1, <2>3, ApprovedPost
  <2> QED
    BY <1>i, <1>s, <2>1, <2>4
<1>6. CASE UserDecidesOtherwise
  <2>1. calls' = calls /\ exchange' = exchange /\ reply' # None
    BY <1>6, <1>t, DecisionsAnswer
    DEF UserDecidesOtherwise, clientVars, UserDecides
  <2> QED
    BY <1>i, <1>s, <2>1
<1>7. CASE ScreenFails
  BY <1>7, <1>i, <1>s DEF ScreenFails, clientVars, ItemNotShown
<1>8. CASE LinkDown
  <2>1. /\ exchange' = None /\ reply' = Ack
        /\ calls' = [c \in Caller |-> calls'[c]]
        /\ \A c \in Caller :
             calls'[c] = IF c = exchange THEN After(calls[c], LinkError)
                                         ELSE calls[c]
    BY <1>8 DEF LinkDown, IoReset, Restart, Send
  <2>2. \A c \in Caller : GoodCall(calls'[c]) /\ calls'[c].pc # "await"
    BY <1>i, <2>1, LinkErrorPost
  <2> QED
    BY <1>n, <1>s, <2>1, <2>2, AnswersAreReplies
<1>9. CASE UNCHANGED allVars
  BY <1>9, <1>i, <1>s DEF allVars, clientVars, vars
<1> QED
  BY <1>1, <1>2, <1>3, <1>4, <1>5, <1>6, <1>7, <1>8, <1>9, ClientSteps

(* The device's invariant, which ApduAppProofs has for a host that waits:  *)
(* this one does.                                                          *)
LEMMA DeviceInvStep ==
  Inv /\ CallsInv /\ [ClientNext]_allVars => Inv'
<1> SUFFICES ASSUME Inv, CallsInv, [ClientNext]_allVars PROVE Inv'
  OBVIOUS
<1>1. [Next]_vars
  BY DeviceStepIsAppStep
<1>2. reply # None \/ OwnStep
  BY DeviceSteps DEF CallsInv
<1> QED
  BY <1>1, <1>2, InvStep

LEMMA ClientInvAlways == ClientSpec => [](Inv /\ CallsInv)
<1>1. ClientInit => Inv /\ CallsInv
  BY InvInit, CallsInit DEF ClientInit
<1>2. Inv /\ CallsInv /\ [ClientNext]_allVars => (Inv /\ CallsInv)'
  BY CallsStep, DeviceInvStep
<1> QED
  BY <1>1, <1>2, PTL DEF ClientSpec

(* A call is always at one of its chunks; with AfterPost it never sends    *)
(* one too many.                                                           *)
THEOREM ClientTypeCorrect == ClientSpec => []ClientTypeOK
<1>1. CallsInv => ClientTypeOK
  <2> SUFFICES ASSUME CallsInv PROVE ClientTypeOK
    OBVIOUS
  <2>1. ASSUME NEW c \in Caller
        PROVE  /\ calls[c] \in CallStates
               /\ calls[c].chunkIdx \in 1..ChunkNum(calls[c])
    <3>1. GoodCall(calls[c])
      BY DEF CallsInv
    <3>2. ChunkNum(calls[c]) \in Nat
      BY <3>1, ChunkNumIsPositive DEF GoodCall, CallStates
    <3> QED
      BY <3>1, <3>2 DEF GoodCall, CallStates
  <2> QED
    BY <2>1 DEF CallsInv, CallStates, ClientTypeOK
<1> QED
  BY <1>1, ClientInvAlways, PTL

-----------------------------------------------------------------------------
(* The client and its device are a device whose host waits. *)

LEMMA CommandToWaitingDevice ==
  ASSUME reply # None, Command
  PROVE  Device!Next
<1> USE DEF CommandArrives, Device!CommandArrives, Send, Device!Send,
            Refusal, Device!Refusal, Ack, Device!Ack, Answer, Device!Answer
<1>1. CASE RefuseCommand
  BY <1>1 DEF RefuseCommand, Device!RefuseCommand, Device!Next
<1>2. ASSUME NEW p, NEW sw, ExtractHDPath(p, sw)
      PROVE  Device!ExtractHDPath(p, sw)
  BY <1>2 DEF ExtractHDPath, Device!ExtractHDPath
<1>3. ASSUME NEW p \in Path \cup {Truncated}, HandleGetAddr(p)
      PROVE  Device!HandleGetAddr(p)
  <2>1. GetAddrRefused(p) => Device!GetAddrRefused(p)
    BY <1>2 DEF GetAddrRefused, Device!GetAddrRefused, Errors, Device!Errors
  <2>2. GetAddrFails(p) => Device!GetAddrFails(p)
    BY <1>2 DEF GetAddrFails, Device!GetAddrFails
  <2>3. GetAddrAnswered(p) => Device!GetAddrAnswered(p)
    BY <1>2 DEF GetAddrAnswered, Device!GetAddrAnswered, AddrResponseLen,
                Device!AddrResponseLen, Address, Device!Address
  <2>4. GetAddrReviewed(p) => Device!GetAddrReviewed(p)
    BY <1>2 DEF GetAddrReviewed, Device!GetAddrReviewed, AddrResponseLen,
                Device!AddrResponseLen
  <2> QED
    BY <1>3, <2>1, <2>2, <2>3, <2>4 DEF HandleGetAddr, Device!HandleGetAddr
<1>4. ASSUME NEW p \in Path \cup {Truncated}, SignInit(p)
      PROVE  Device!SignInit(p)
  BY <1>2, <1>4 DEF SignInit, Device!SignInit, Errors, Device!Errors
<1>5. CASE SignNotInitialized
  BY <1>5 DEF SignNotInitialized, Device!SignNotInitialized, Device!Next
<1>6. ASSUME NEW d \in Payload, SignTooLong(d) \/ SignAdd(d) \/ SignLast(d)
      PROVE  Device!SignTooLong(d) \/ Device!SignAdd(d) \/ Device!SignLast(d)
  BY <1>6 DEF SignTooLong, Device!SignTooLong, SignAdd, Device!SignAdd,
              SignLast, Device!SignLast, SignLastParsed,
              Device!SignLastParsed, Fits, Device!Fits
<1> QED
  BY <1>1, <1>3, <1>4, <1>5, <1>6 DEF Command, Device!Next

LEMMA OwnStepOfDevice ==
  ASSUME OwnStep
  PROVE  [Device!Next]_(Device!vars)
<1> USE DEF Send, Device!Send, Refusal, Device!Refusal, Ack, Device!Ack,
            Answer, Device!Answer
<1>1. UserDecides => Device!UserDecides
  BY DEF UserDecides, Device!UserDecides, AppSign, Device!AppSign,
         AppReject, Device!AppReject, AppReplyAddress, Device!AppReplyAddress,
         AppReplyError, Device!AppReplyError, Leave, Device!Leave,
         Signature, Device!Signature, Address, Device!Address
<1>2. ItemNotShown => Device!ItemNotShown
  BY DEF ItemNotShown, Device!ItemNotShown
<1>3. IoReset => Device!IoReset
  BY DEF IoReset, Device!IoReset
<1>4. Restart => Device!Restart
  BY DEF Restart, Device!Restart
<1>5. UNCHANGED vars => UNCHANGED Device!vars
  BY DEF vars, Device!vars
<1> QED
  BY <1>1, <1>2, <1>3, <1>4, <1>5 DEF OwnStep, Device!Next

(* However many calls are made at once, whatever sends fail and however    *)
(* often the device restarts, the device never gets a command while it     *)
(* owes an answer.  This discharges the assumption of ApduAppProofs.       *)
THEOREM DeviceHasWaitingHost == ClientSpec => DeviceIsServed
<1>1. ClientInit => Device!Init
  BY DEF ClientInit, Init, Device!Init, Ack, Device!Ack, Answer, Device!Answer
<1>2. Inv /\ CallsInv /\ [ClientNext]_allVars => [Device!Next]_(Device!vars)
  <2> SUFFICES ASSUME CallsInv, [ClientNext]_allVars
               PROVE  [Device!Next]_(Device!vars)
    OBVIOUS
  <2>1. CASE exchange = None /\ Command
    BY <2>1, CommandToWaitingDevice DEF CallsInv
  <2>2. CASE OwnStep
    BY <2>2, OwnStepOfDevice
  <2> QED
    BY <2>1, <2>2, DeviceSteps
<1> QED
  BY <1>1, <1>2, ClientInvAlways, PTL
  DEF ClientSpec, DeviceIsServed, Device!Spec

-----------------------------------------------------------------------------
(* A signature reaches the call whose review it answers. *)

Approved ==
  \A c \in Caller :
    /\ Returned(calls[c]) /\ calls[c].result.kind = "signature" =>
         calls[c].approved = TxReview(calls[c].result.path,
                                      calls[c].result.text)
    /\ exchange = c /\ reply # None /\ reply.kind = "signature" =>
         calls[c].approved = TxReview(reply.path, reply.text)

LEMMA NotASignature ==
  /\ \A sw : Refusal(sw).kind = "empty"
  /\ Ack.kind = "empty"
  /\ \A p : Address(p).kind = "address"
  /\ \A p, t : /\ Signature(p, t).path = p /\ Signature(p, t).text = t
               /\ Signature(p, t).sw = "OK"
  /\ \A sw \in Errors : Refusal(sw).sw # "OK"
  BY DEF Refusal, Ack, Address, Signature, Answer, Errors

LEMMA ApprovedStep ==
  Inv /\ CallsInv /\ Approved /\ [ClientNext]_allVars => Approved'
<1> SUFFICES ASSUME Inv, CallsInv, Approved, [ClientNext]_allVars
             PROVE  Approved'
  OBVIOUS
<1>t. TypeOK
  BY DEF Inv
<1>n. None \notin Caller
  BY ClientConstants
<1>i. /\ \A c \in Caller : GoodCall(calls[c])
      /\ \A c \in Caller : calls[c].pc = "await" <=> exchange = c
  BY DEF CallsInv
(* It is enough to see a call that is returned or awaits now.              *)
<1>s. ASSUME \A d \in Caller :
               /\ /\ calls'[d].pc = "returned"
                  /\ calls'[d].result.kind = "signature"
                  => calls'[d].approved = TxReview(calls'[d].result.path,
                                                   calls'[d].result.text)
               /\ exchange' = d /\ reply' # None /\ reply'.kind = "signature"
                  => calls'[d].approved = TxReview(reply'.path, reply'.text)
      PROVE  Approved'
  BY <1>s DEF Approved, Returned, TxReview
<1>a. \A d \in Caller :
        /\ calls[d].pc = "returned" /\ calls[d].result.kind = "signature"
           => calls[d].approved = TxReview(calls[d].result.path,
                                           calls[d].result.text)
        /\ exchange = d /\ reply # None /\ reply.kind = "signature"
           => calls[d].approved = TxReview(reply.path, reply.text)
  BY DEF Approved, Returned
<1>1. ASSUME NEW c \in Caller, NEW kind \in {"get", "show", "sign"},
             Start(c, kind)
      PROVE  Approved'
  <2>1. PICK r \in Request[c] :
          calls' = [calls EXCEPT ![c] = Call(kind, r.path, r.message)]
    BY <1>1 DEF Start
  <2>2. /\ calls[c].pc = "returned" /\ exchange' = exchange /\ reply' = reply
    BY <1>1 DEF Start, Returned, vars
  <2>3. calls'[c].pc = "send"
    BY <2>1, CallUpdate DEF Call
  <2> QED
    BY <1>a, <1>i, <1>s, <2>1, <2>2, <2>3, CallUpdate
<1>2. ASSUME NEW c \in Caller, TransportSend(c) PROVE Approved'
  <2>1. exchange' = c /\ calls[c].pc = "send" /\ Command
    BY <1>2, TransportSendPost
  <2>2. reply' = None \/ reply'.kind # "signature"
    BY <2>1, CommandsDoNotSign
  <2>3. calls'[c].pc = "await"
    <3>1. PICK w \in BOOLEAN : calls'[c] = SentCall(calls[c], w)
      BY <1>2, TransportSendPost
    <3> QED
      BY <1>i, <2>1, <3>1, SentPost
  <2>4. \A d \in Caller : d # c => /\ calls'[d].pc = calls[d].pc
                                  /\ calls'[d].approved = calls[d].approved
                                  /\ calls'[d].result = calls[d].result
    <3>1. \A d \in Caller : d # c => calls'[d] = OvertakenCall(calls[d])
      BY <1>2, TransportSendPost
    <3> QED
      BY <1>i, <3>1, OvertakenPost
  <2> QED
    BY <1>a, <1>s, <2>1, <2>2, <2>3, <2>4
<1>3. ASSUME NEW c \in Caller, SendFails(c) PROVE Approved'
  <2>1. /\ calls[c].pc = "send" /\ exchange' = exchange /\ reply' = reply
        /\ calls' = [calls EXCEPT ![c] = After(calls[c], LinkError)]
    BY <1>3 DEF SendFails, vars
  <2>2. /\ calls'[c].approved = calls[c].approved
        /\ calls'[c].pc = "returned" => calls'[c].result.kind = "empty"
    BY <1>i, <2>1, CallUpdate, LinkErrorPost
  <2> QED
    BY <1>a, <1>i, <1>s, <2>1, <2>2, CallUpdate
<1>4. ASSUME NEW c \in Caller, Receive(c) PROVE Approved'
  <2>1. /\ exchange = c /\ exchange' = None /\ reply' = reply /\ reply # None
        /\ calls' = [calls EXCEPT ![c] = After(calls[c], reply)]
    BY <1>4 DEF Receive, vars
  <2>2. reply \in Results
    BY <1>t, <2>1, ResultsAreAnswers DEF TypeOK
  <2>3. /\ calls'[c].approved = calls[c].approved
        /\ calls'[c].pc = "returned" => \/ calls'[c].result = reply
                                        \/ calls'[c].result.kind = "empty"
    BY <1>i, <2>1, <2>2, CallUpdate, AfterPost
  <2> QED
    BY <1>a, <1>n, <1>s, <2>1, <2>3, CallUpdate
<1>5. CASE UserSigns
  <2>1. /\ view = "txn" /\ exchange' = exchange
        /\ reply' \in {Signature(hdPath, txBuffer),
                       Refusal("SIGN_VERIFY_ERROR")}
        /\ \A c \in Caller :
             calls'[c] = IF c = exchange /\ reply'.sw = "OK"
                         THEN [calls[c] EXCEPT !.approved =
                                 TxReview(hdPath, ctx_parsed_tx)]
                         ELSE calls[c]
    BY <1>5 DEF UserSigns, AppSign, Leave, Send
  <2>2. /\ txBuffer = ctx_parsed_tx
        /\ hdPath \in Path /\ ctx_parsed_tx \in Seq(Byte)
    BY <2>1, ConstantsAssumption DEF Inv, ReviewOwnsGlobals, TypeOK
  <2>3. TxReview(hdPath, ctx_parsed_tx) \in Reviews
    BY <2>2 DEF TxReview, Reviews
  <2>4. \A c \in Caller :
          /\ calls'[c].pc = calls[c].pc /\ calls'[c].result = calls[c].result
          /\ c # exchange => calls'[c].approved = calls[c].approved
          /\ c = exchange /\ reply'.sw = "OK" =>
               calls'[c].approved = TxReview(hdPath, ctx_parsed_tx)
    <3> TAKE c \in Caller
    <3>1. CASE c = exchange /\ reply'.sw = "OK"
      <4>1. PICK r \in CallStates, v \in Reviews :
              r = calls[c] /\ v = TxReview(hdPath, ctx_parsed_tx)
        BY <1>i, <2>3 DEF GoodCall
      <4>2. calls'[c] = [r EXCEPT !.approved = v] /\ GoodCall(r)
        BY <1>i, <2>1, <3>1, <4>1
      <4>3. PICK s : s = [r EXCEPT !.approved = v]
        OBVIOUS
      <4>4. s.approved = v /\ s.pc = r.pc /\ s.result = r.result
        BY <4>2, <4>3, ApprovedPost
      <4>5. calls'[c] = s
        BY <4>2, <4>3
      <4> QED
        BY <3>1, <4>1, <4>4, <4>5
    <3>2. CASE ~(c = exchange /\ reply'.sw = "OK")
      BY <2>1, <3>2
    <3> QED
      BY <3>1, <3>2
  <2>5. reply'.kind = "signature" =>
          /\ reply'.sw = "OK"
          /\ reply'.path = hdPath /\ reply'.text = ctx_parsed_tx
    BY <2>1, <2>2, NotASignature
  <2> QED
    BY <1>a, <1>i, <1>s, <2>1, <2>4, <2>5
<1>6. CASE UserDecidesOtherwise
  <2>1. calls' = calls /\ exchange' = exchange /\ reply'.kind # "signature"
    BY <1>6, NotASignature
    DEF UserDecidesOtherwise, clientVars, AppReject, AppReplyAddress,
        AppReplyError, Send
  <2> QED
    BY <1>a, <1>s, <2>1
<1>7. CASE ScreenFails
  BY <1>7, <1>a, <1>s DEF ScreenFails, clientVars, ItemNotShown
<1>8. CASE LinkDown
  <2>1. /\ exchange' = None
        /\ \A c \in Caller :
             calls'[c] = IF c = exchange THEN After(calls[c], LinkError)
                                         ELSE calls[c]
    BY <1>8 DEF LinkDown
  <2>2. \A c \in Caller : c = exchange /\ calls'[c].pc = "returned" =>
          calls'[c].result.kind = "empty"
    BY <1>i, <2>1, LinkErrorPost
  <2> QED
    BY <1>a, <1>n, <1>s, <2>1, <2>2
<1>9. CASE UNCHANGED allVars
  BY <1>9, <1>a, <1>s DEF allVars, clientVars, vars
<1> QED
  BY <1>1, <1>2, <1>3, <1>4, <1>5, <1>6, <1>7, <1>8, <1>9, ClientSteps

LEMMA ApprovedAlways == ClientSpec => []Approved
<1>1. ClientInit => Approved
  BY ClientConstants, ResultsAreAnswers
  DEF ClientInit, Approved, Returned, NoCall, Call
<1> QED
  BY <1>1, ApprovedStep, ClientInvAlways, PTL DEF ClientSpec

(* No signature reaches a caller but one whose text and path the user saw  *)
(* and approved during that very call.                                     *)
THEOREM SignaturesWereApproved == ClientSpec => []SignatureWasApproved
<1>1. Approved => SignatureWasApproved
  BY DEF Approved, SignatureWasApproved
<1> QED
  BY <1>1, ApprovedAlways, PTL

-----------------------------------------------------------------------------
(* The pieces of a message, one after the other, are the message. *)

(* The first k pieces.                                                     *)
Upto(m, k) == IF k = Pieces(m) THEN Len(m) ELSE k * ChunkSize

Prefix(m, k) == SubSeq(m, 1, Upto(m, k))

LEMMA PiecesFit ==
  ASSUME NEW m \in Message, NEW k \in Nat, k < Pieces(m)
  PROVE  k * ChunkSize \in Nat /\ k * ChunkSize <= Len(m)
<1> DEFINE n == Len(m) + ChunkSize - 1
           q == n \div ChunkSize
<1>1. Len(m) \in Nat /\ ChunkSize \in Nat /\ ChunkSize > 0
  BY ClientConstants
<1>2. n \in Nat
  BY <1>1
<1>3. q \in Int /\ q * ChunkSize <= n
  <2> HIDE DEF n
  <2> QED
    BY <1>1, <1>2
<1>4. k + 1 <= q
  BY <1>3 DEF Pieces
<1> HIDE DEF q
<1>5. (k + 1) * ChunkSize <= q * ChunkSize
  BY <1>1, <1>3, <1>4
<1>6. (k + 1) * ChunkSize = k * ChunkSize + ChunkSize
  BY <1>1
<1>7. k * ChunkSize \in Nat
  BY <1>1
<1> QED
  BY <1>1, <1>3, <1>5, <1>6, <1>7

LEMMA PieceExtendsPrefix ==
  ASSUME NEW m \in Message, NEW k \in Nat \ {0}, k <= Pieces(m)
  PROVE  Prefix(m, k - 1) \o Piece(m, k) = Prefix(m, k)
<1>1. /\ m \in Seq(Byte) /\ Len(m) \in Nat
      /\ ChunkSize \in Nat /\ ChunkSize > 0
  BY ClientConstants
<1>2. Pieces(m) \in Nat
  BY PiecesIsNat
<1> DEFINE i == (k - 1) * ChunkSize
           j == Upto(m, k)
<1>3. i \in Nat /\ i <= Len(m)
  BY <1>2, PiecesFit
<1>4. j \in Nat /\ j <= Len(m) /\ i <= j
  <2>1. CASE k = Pieces(m)
    BY <1>1, <1>3, <2>1 DEF Upto
  <2>2. CASE k # Pieces(m)
    <3>1. k * ChunkSize \in Nat /\ k * ChunkSize <= Len(m)
      BY <1>2, <2>2, PiecesFit
    <3>2. k * ChunkSize = i + ChunkSize
      BY <1>1
    <3> QED
      BY <1>1, <1>3, <2>2, <3>1, <3>2 DEF Upto
  <2> QED
    BY <2>1, <2>2
<1>5. Prefix(m, k - 1) = SubSeq(m, 1, i)
  <2>1. k - 1 # Pieces(m)
    BY <1>2
  <2> QED
    BY <2>1 DEF Prefix, Upto
<1>6. Piece(m, k) = SubSeq(m, i + 1, j)
  BY DEF Piece, Upto
<1>7. Prefix(m, k) = SubSeq(m, 1, j)
  BY DEF Prefix
<1> HIDE DEF i, j
<1>8. /\ 1 \in 1..(Len(m) + 1) /\ i \in (1 - 1)..Len(m)
      /\ j \in i..Len(m)
  BY <1>1, <1>3, <1>4
<1> QED
  BY <1>1, <1>5, <1>6, <1>7, <1>8, ConcatAdjacentSubSeq

LEMMA PrefixEnds ==
  ASSUME NEW m \in Message
  PROVE  /\ Prefix(m, 0) = <<>>
         /\ Prefix(m, Pieces(m)) = m
<1>1. m \in Seq(Byte) /\ Len(m) \in Nat /\ ChunkSize \in Nat /\ ChunkSize > 0
  BY ClientConstants
<1>2. Prefix(m, Pieces(m)) = m
  BY <1>1, SubSeqFull DEF Prefix, Upto
<1>3. Upto(m, 0) = 0
  <2>1. CASE Pieces(m) = 0
    <3> DEFINE n == Len(m) + ChunkSize - 1
    <3>1. n \in Nat /\ n \div ChunkSize = 0
      BY <1>1, <2>1 DEF Pieces
    <3> HIDE DEF n
    <3>2. n < ChunkSize
      BY <1>1, <3>1
    <3>3. Len(m) = 0
      BY <1>1, <3>2 DEF n
    <3> QED
      BY <2>1, <3>3 DEF Upto
  <2>2. CASE Pieces(m) # 0
    BY <1>1, <2>2 DEF Upto
  <2> QED
    BY <2>1, <2>2
<1>4. Prefix(m, 0) = <<>>
  BY <1>1, <1>3, SubSeqEmpty DEF Prefix
<1> QED
  BY <1>2, <1>4

-----------------------------------------------------------------------------
(* A call whose P1_INIT was taken, and whom no other caller has disturbed: *)
(* between its chunks an upload that is open has its path and what it has  *)
(* sent so far, and a review is of its whole message.                      *)
Asked(r) ==
  r.whole =>
    /\ r.kind = "sign"
    /\ r.pc = "send" =>
         /\ r.chunkIdx >= 2
         /\ tx_initialized => /\ hdPath = DevicePath[r.path]
                              /\ txBuffer = Prefix(r.message, r.chunkIdx - 2)
    /\ r.pc = "await" /\ reply = None =>
         /\ r.chunkIdx >= 2
         /\ ~tx_initialized
         /\ hdPath = DevicePath[r.path] /\ txBuffer = r.message
    /\ r.pc = "await" /\ reply # None =>
         /\ reply.sw = "OK" /\ tx_initialized =>
              /\ hdPath = DevicePath[r.path]
              /\ txBuffer = Prefix(r.message, r.chunkIdx - 1)
         /\ r.chunkIdx = 1 => reply = Ack
         /\ reply.kind = "signature" =>
              reply = Signature(DevicePath[r.path], r.message)
    /\ r.pc = "returned" /\ r.result.kind = "signature" =>
         r.result = Signature(DevicePath[r.path], r.message)

AskedInv == \A c \in Caller : Asked(calls[c])

(* The device takes the P1_INIT of a call.                                 *)
LEMMA AskedByInit ==
  ASSUME TypeOK, NEW r, GoodCall(r), r.pc = "send",
         DeviceHandles(r), Begun(r)
  PROVE  /\ r.kind = "sign" /\ r.chunkIdx = 1
         /\ hdPath' = DevicePath[r.path]
         /\ txBuffer' = Prefix(r.message, 0)
<1>1. r.kind = "sign" /\ r.chunkIdx = 1 /\ PayloadType(r) = "INIT"
  BY DEF Begun, PayloadType
<1>2. Ack.sw = "OK" /\ \A sw \in Errors : Refusal(sw).sw # "OK"
  BY DEF Ack, Refusal, Answer, Errors
<1>3. reply' = Ack
  BY DEF Begun
<1>4. ~Locked
  BY <1>2, <1>3 DEF Locked, Errors
<1>5. SignInit(DevicePath[r.path])
  BY <1>1, <1>4 DEF DeviceHandles, DeviceSign
<1>6. ExtractHDPath(DevicePath[r.path], "OK") /\ txBuffer' = <<>>
  BY <1>2, <1>3, <1>5 DEF SignInit, Send
<1>7. DevicePath[r.path] \in Path \cup {Truncated} /\ r.message \in Message
  BY ClientConstants DEF GoodCall
<1>8. hdPath' = DevicePath[r.path]
  BY <1>6, <1>7, ExtractHDPathPost DEF TypeOK
<1> QED
  BY <1>1, <1>6, <1>7, <1>8, PrefixEnds

(* The device gets a later chunk of it.                                    *)
LEMMA AskedBySend ==
  ASSUME NEW r, GoodCall(r), r.pc = "send", r.whole, Asked(r),
         DeviceHandles(r)
  PROVE  /\ r.kind = "sign" /\ r.chunkIdx >= 2
         /\ reply' = None =>
              /\ ~tx_initialized'
              /\ hdPath' = DevicePath[r.path] /\ txBuffer' = r.message
         /\ reply' # None /\ reply'.sw = "OK" /\ tx_initialized' =>
              /\ hdPath' = DevicePath[r.path]
              /\ txBuffer' = Prefix(r.message, r.chunkIdx - 1)
<1> DEFINE m == r.message
           k == r.chunkIdx - 1
<1>1. /\ r.kind = "sign" /\ r.chunkIdx >= 2
      /\ tx_initialized => /\ hdPath = DevicePath[r.path]
                           /\ txBuffer = Prefix(m, r.chunkIdx - 2)
  BY DEF Asked
<1>2. /\ m \in Message /\ r.chunkIdx \in Nat /\ Pieces(m) \in Nat
      /\ r.chunkIdx <= 1 + Pieces(m) /\ ChunkNum(r) = 1 + Pieces(m)
  BY PiecesIsNat DEF GoodCall, CallStates, ChunkNum
<1>3. /\ k \in Nat \ {0} /\ k <= Pieces(m)
      /\ k - 1 = r.chunkIdx - 2
  BY <1>1, <1>2
<1>4. Prefix(m, k - 1) \o Chunk(r) = Prefix(m, k)
  <2>1. Chunk(r) = Piece(m, k)
    BY <1>1 DEF Chunk
  <2> HIDE DEF k, m
  <2> QED
    BY <1>2, <1>3, <2>1, PieceExtendsPrefix
<1>5. \A sw \in Errors : Refusal(sw) # None /\ Refusal(sw).sw # "OK"
  BY AnswersAreReplies DEF Refusal, Answer, Errors
<1>6. PayloadType(r) # "INIT"
  BY <1>1 DEF PayloadType
<1>7. \/ \E sw \in Errors : reply' = Refusal(sw)
      \/ SignAdd(Chunk(r))
      \/ PayloadType(r) = "LAST" /\ SignLast(Chunk(r))
  BY <1>1, <1>6
  DEF DeviceHandles, DeviceSign, Locked, SignNotInitialized, SignTooLong,
      Send, Errors
<1>8. CASE \E sw \in Errors : reply' = Refusal(sw)
  BY <1>1, <1>5, <1>8
<1>9. CASE SignAdd(Chunk(r))
  <2>1. reply' # None
    BY <1>9, AnswersAreReplies DEF SignAdd, Send
  <2>2. hdPath' = DevicePath[r.path] /\ txBuffer' = Prefix(m, k)
    BY <1>1, <1>3, <1>4, <1>9 DEF SignAdd
  <2> QED
    BY <1>1, <2>1, <2>2
<1>10. CASE PayloadType(r) = "LAST" /\ SignLast(Chunk(r))
  <2>1. r.chunkIdx = ChunkNum(r)
    BY <1>10 DEF PayloadType
  <2>2. k = Pieces(m)
    BY <1>2, <2>1
  <2>3. txBuffer' = m
    BY <1>1, <1>2, <1>3, <1>4, <1>10, <2>2, PrefixEnds
    DEF SignLast, SignLastParsed
  <2>4. ~tx_initialized' /\ hdPath' = DevicePath[r.path]
    BY <1>1, <1>10 DEF SignLast, SignLastParsed
  <2> QED
    BY <1>1, <2>3, <2>4
<1> QED
  BY <1>7, <1>8, <1>9, <1>10

(* After a button, a reset or a restart.                                   *)
LEMMA AskedOwnStep ==
  ASSUME NEW r, NEW s, Asked(r), r.pc # "await",
         s.kind = r.kind, s.path = r.path, s.message = r.message,
         s.chunkIdx = r.chunkIdx, s.pc = r.pc, s.result = r.result,
         s.whole = r.whole,
         tx_initialized' => /\ tx_initialized
                            /\ hdPath' = hdPath /\ txBuffer' = txBuffer
  PROVE  s.whole =>
           /\ s.kind = "sign"
           /\ s.pc = "send" =>
                /\ s.chunkIdx >= 2
                /\ tx_initialized' =>
                     /\ hdPath' = DevicePath[s.path]
                     /\ txBuffer' = Prefix(s.message, s.chunkIdx - 2)
           /\ s.pc = "returned" /\ s.result.kind = "signature" =>
                s.result = Signature(DevicePath[s.path], s.message)
  BY DEF Asked

LEMMA AskedStep ==
  Inv /\ CallsInv /\ AskedInv /\ [ClientNext]_allVars => AskedInv'
<1> SUFFICES ASSUME Inv, CallsInv, AskedInv, [ClientNext]_allVars
             PROVE  AskedInv'
  OBVIOUS
<1>t. TypeOK
  BY DEF Inv
<1>n. None \notin Caller
  BY ClientConstants
<1>i. /\ \A c \in Caller : GoodCall(calls[c])
      /\ \A c \in Caller : calls[c].pc = "await" <=> exchange = c
      /\ \A c \in Caller : calls[c].chunkIdx \in Nat \ {0}
      /\ \A c \in Caller : Asked(calls[c])
  BY DEF CallsInv, GoodCall, CallStates, AskedInv
(* What is to be seen of each call now.                                    *)
<1> DEFINE AskedThen(s) ==
      s.whole =>
        /\ s.kind = "sign"
        /\ s.pc = "send" =>
             /\ s.chunkIdx >= 2
             /\ tx_initialized' =>
                  /\ hdPath' = DevicePath[s.path]
                  /\ txBuffer' = Prefix(s.message, s.chunkIdx - 2)
        /\ s.pc = "await" /\ reply' = None =>
             /\ s.chunkIdx >= 2
             /\ ~tx_initialized'
             /\ hdPath' = DevicePath[s.path] /\ txBuffer' = s.message
        /\ s.pc = "await" /\ reply' # None =>
             /\ reply'.sw = "OK" /\ tx_initialized' =>
                  /\ hdPath' = DevicePath[s.path]
                  /\ txBuffer' = Prefix(s.message, s.chunkIdx - 1)
             /\ s.chunkIdx = 1 => reply' = Ack
             /\ reply'.kind = "signature" =>
                  reply' = Signature(DevicePath[s.path], s.message)
        /\ s.pc = "returned" /\ s.result.kind = "signature" =>
             s.result = Signature(DevicePath[s.path], s.message)
<1>s. ASSUME \A d \in Caller : AskedThen(calls'[d])
      PROVE  AskedInv'
  BY <1>s DEF AskedInv, Asked, Signature, Answer, Ack
<1>u. ASSUME UNCHANGED vars, NEW d \in Caller, calls'[d] = calls[d]
      PROVE  AskedThen(calls'[d])
  BY <1>i, <1>u DEF Asked, vars
<1>f. ASSUME NEW s, s.whole = FALSE PROVE AskedThen(s)
  BY <1>f
<1> HIDE DEF AskedThen
<1>1. ASSUME NEW c \in Caller, NEW kind \in {"get", "show", "sign"},
             Start(c, kind)
      PROVE  AskedInv'
  <2>1. PICK r \in Request[c] :
          calls' = [calls EXCEPT ![c] = Call(kind, r.path, r.message)]
    BY <1>1 DEF Start
  <2>2. UNCHANGED vars
    BY <1>1 DEF Start
  <2>3. calls'[c].whole = FALSE
    BY <2>1, CallUpdate DEF Call
  <2> QED
    BY <1>f, <1>s, <1>u, <2>1, <2>2, <2>3, CallUpdate
<1>2. ASSUME NEW c \in Caller, TransportSend(c) PROVE AskedInv'
  <2>1. /\ calls[c].pc = "send" /\ Command /\ DeviceHandles(calls[c])
    BY <1>2, TransportSendPost
  <2>2. PICK w \in BOOLEAN : /\ w = (calls[c].whole \/ Begun(calls[c]))
                             /\ calls'[c] = SentCall(calls[c], w)
    BY <1>2, TransportSendPost
  <2>3. \A d \in Caller : d # c => calls'[d].whole = FALSE
    <3>1. \A d \in Caller : d # c => calls'[d] = OvertakenCall(calls[d])
      BY <1>2, TransportSendPost
    <3>2. ASSUME NEW d \in Caller, d # c PROVE calls'[d].whole = FALSE
      <4>1. PICK r, s : r = calls[d] /\ s = OvertakenCall(r) /\ GoodCall(r)
        BY <1>i
      <4>2. s.whole = FALSE
        BY <4>1, OvertakenPost
      <4> QED
        BY <3>1, <3>2, <4>1, <4>2
    <3> QED
      BY <3>2
  <2>p. PICK r, s : /\ r = calls[c] /\ s = SentCall(r, w) /\ s = calls'[c]
                    /\ GoodCall(r) /\ Asked(r)
    BY <1>i, <2>2
  <2>r. /\ r.pc = "send" /\ DeviceHandles(r)
        /\ w = (r.whole \/ Begun(r))
    BY <2>1, <2>2, <2>p
  <2>4. /\ s.pc = "await" /\ s.whole = w /\ s.kind = r.kind
        /\ s.path = r.path /\ s.message = r.message
        /\ s.chunkIdx = r.chunkIdx
    <3>1. GoodCall(r) /\ r.pc = "send" /\ s = SentCall(r, w)
      BY <2>p, <2>r
    <3>2. s.whole = w
      BY <3>1, SentPost
    <3>3. /\ s.pc = "await" /\ s.kind = r.kind
          /\ s.path = r.path /\ s.message = r.message
          /\ s.chunkIdx = r.chunkIdx
      BY <3>1, SentPost
    <3> QED
      BY <3>2, <3>3
  <2>5. reply' = None \/ reply'.kind # "signature"
    BY <2>1, CommandsDoNotSign
  <2>6. ASSUME r.whole PROVE AskedThen(s)
    <3>1. /\ r.kind = "sign" /\ r.chunkIdx >= 2
          /\ reply' = None =>
               /\ ~tx_initialized'
               /\ hdPath' = DevicePath[r.path] /\ txBuffer' = r.message
          /\ reply' # None /\ reply'.sw = "OK" /\ tx_initialized' =>
               /\ hdPath' = DevicePath[r.path]
               /\ txBuffer' = Prefix(r.message, r.chunkIdx - 1)
      BY <2>6, <2>p, <2>r, AskedBySend
    <3>2. s.chunkIdx # 1
      BY <2>4, <3>1
    <3> QED
      BY <2>4, <2>5, <3>1, <3>2 DEF AskedThen
  <2>7. ASSUME Begun(r) PROVE AskedThen(s)
    <3>1. /\ r.kind = "sign" /\ r.chunkIdx = 1
          /\ hdPath' = DevicePath[r.path]
          /\ txBuffer' = Prefix(r.message, 0)
      BY <1>t, <2>7, <2>p, <2>r, AskedByInit
    <3>2. reply' = Ack /\ reply' # None
      BY <2>7, AnswersAreReplies DEF Begun
    <3>3. s.chunkIdx - 1 = 0
      BY <2>4, <3>1
    <3> QED
      BY <2>4, <2>5, <3>1, <3>2, <3>3 DEF AskedThen
  <2>8. ASSUME ~r.whole, ~Begun(r) PROVE AskedThen(s)
    <3>1. w = FALSE
      BY <2>8, <2>r
    <3> QED
      BY <1>f, <2>4, <3>1
  <2>9. AskedThen(calls'[c])
    BY <2>6, <2>7, <2>8, <2>p
  <2> QED
    BY <1>f, <1>s, <2>3, <2>9
<1>3. ASSUME NEW c \in Caller, SendFails(c) PROVE AskedInv'
  <2>1. /\ calls[c].pc = "send" /\ UNCHANGED vars
        /\ calls' = [calls EXCEPT ![c] = After(calls[c], LinkError)]
    BY <1>3 DEF SendFails
  <2>p. PICK r, s : /\ r = calls[c] /\ s = After(r, LinkError)
                    /\ GoodCall(r) /\ Asked(r)
    BY <1>i
  <2>2. r.pc = "send" /\ s = calls'[c]
    BY <2>1, <2>p, CallUpdate
  <2>3. /\ s.pc # "await" /\ s.kind = r.kind /\ s.whole = r.whole
        /\ s.pc = "send" => r.chunkIdx = 1
        /\ s.pc = "returned" => s.result.kind = "empty"
        /\ GoodCall(s)
    BY <2>2, <2>p, LinkErrorPost
  <2>4. r.whole => r.kind = "sign" /\ r.chunkIdx >= 2
    BY <2>2, <2>p DEF Asked
  <2>5. s.pc \in {"send", "await", "returned"} /\ ~(1 >= 2)
    BY <2>3 DEF GoodCall, CallStates
  <2>6. AskedThen(calls'[c])
    BY <2>2, <2>3, <2>4, <2>5 DEF AskedThen
  <2> QED
    BY <1>s, <1>u, <2>1, <2>6, CallUpdate
<1>4. ASSUME NEW c \in Caller, Receive(c) PROVE AskedInv'
  <2>1. /\ exchange = c /\ reply # None /\ UNCHANGED vars
        /\ calls' = [calls EXCEPT ![c] = After(calls[c], reply)]
    BY <1>4 DEF Receive
  <2>2. reply \in Results
    BY <1>t, <2>1, ResultsAreAnswers DEF TypeOK
  <2>p. PICK r, s : /\ r = calls[c] /\ s = After(r, reply)
                    /\ GoodCall(r) /\ Asked(r)
    BY <1>i
  <2>r. r.pc = "await" /\ r.chunkIdx \in Nat \ {0} /\ s = calls'[c]
    BY <1>i, <2>1, <2>p, CallUpdate
  <2>3. /\ s.pc # "await" /\ s.kind = r.kind /\ s.whole = r.whole
        /\ s.path = r.path /\ s.message = r.message
        /\ s.pc = "send" => /\ s.chunkIdx = r.chunkIdx + 1
                            /\ r.chunkIdx = 1 \/ reply.sw = "OK"
        /\ s.pc = "returned" => \/ s.result = reply
                                \/ s.result.kind = "empty"
    <3>1. PICK answer \in Results : answer = reply /\ s = After(r, answer)
      BY <2>2, <2>p
    <3>2. GoodCall(r) /\ r.pc # "returned"
      BY <2>p, <2>r
    <3>3. /\ s.pc # "await" /\ s.kind = r.kind
          /\ s.path = r.path /\ s.message = r.message
          /\ s.pc = "send" => /\ s.chunkIdx = r.chunkIdx + 1
                              /\ r.chunkIdx = 1 \/ answer.sw = "OK"
          /\ s.pc = "returned" => \/ s.result = answer
                                  \/ s.result.kind = "empty"
      BY <3>1, <3>2, AfterPost
    <3>4. s.whole = r.whole
      BY <3>1, <3>2, AfterPost
    <3> QED
      BY <3>1, <3>3, <3>4
  <2>5. r.whole =>
          /\ r.kind = "sign"
          /\ reply.sw = "OK" /\ tx_initialized =>
               /\ hdPath = DevicePath[r.path]
               /\ txBuffer = Prefix(r.message, r.chunkIdx - 1)
          /\ r.chunkIdx = 1 => reply = Ack
          /\ reply.kind = "signature" =>
               reply = Signature(DevicePath[r.path], r.message)
    BY <2>1, <2>p, <2>r DEF Asked
  <2>6. Ack.sw = "OK"
    BY DEF Ack, Answer
  <2>7. s.pc = "send" => s.chunkIdx >= 2 /\ s.chunkIdx - 2 = r.chunkIdx - 1
    BY <2>3, <2>r
  <2>8. tx_initialized' = tx_initialized /\ hdPath' = hdPath
          /\ txBuffer' = txBuffer
    BY <2>1 DEF vars
  <2>9. AskedThen(calls'[c])
    BY <2>r, <2>3, <2>5, <2>6, <2>7, <2>8 DEF AskedThen
  <2> QED
    BY <1>s, <1>u, <2>1, <2>9, CallUpdate
(* A button of a review.                                                   *)
<1>b. ASSUME UserDecides,
             \A d \in Caller :
               /\ calls'[d].kind = calls[d].kind
               /\ calls'[d].path = calls[d].path
               /\ calls'[d].message = calls[d].message
               /\ calls'[d].chunkIdx = calls[d].chunkIdx
               /\ calls'[d].pc = calls[d].pc
               /\ calls'[d].result = calls[d].result
               /\ calls'[d].whole = calls[d].whole
      PROVE  AskedInv'
  <2>1. view # "idle"
    BY <1>b DEF UserDecides, AppSign, AppReject, AppReplyAddress,
                AppReplyError, Leave
  <2>2. reply = None
    BY <2>1 DEF Inv, AnswerOwedIffReview
  <2>3. reply' # None
    BY <1>b, <1>t, DecisionsAnswer
  <2>4. /\ tx_initialized' = tx_initialized /\ hdPath' = hdPath
        /\ txBuffer' = txBuffer
    BY <1>b DEF UserDecides, AppSign, AppReject, AppReplyAddress,
                AppReplyError, Leave
  <2>5. reply'.kind = "signature" => reply' = Signature(hdPath, txBuffer)
    BY <1>b, NotASignature
    DEF UserDecides, AppSign, AppReject, AppReplyAddress, AppReplyError, Send
  <2>6. ASSUME NEW d \in Caller PROVE AskedThen(calls'[d])
    <3>1. CASE calls[d].pc = "await"
      <4>1. calls[d].whole =>
              /\ calls[d].kind = "sign"
              /\ calls[d].chunkIdx >= 2 /\ ~tx_initialized
              /\ hdPath = DevicePath[calls[d].path]
              /\ txBuffer = calls[d].message
        BY <1>i, <2>2, <3>1 DEF Asked
      <4> QED
        BY <1>b, <1>i, <2>3, <2>4, <2>5, <3>1, <4>1 DEF AskedThen
    <3>2. CASE calls[d].pc # "await"
      <4>1. Asked(calls[d])
        BY <1>i
      <4>2. calls'[d].pc # "await"
        BY <1>b, <3>2
      <4> QED
        BY <1>b, <2>4, <3>2, <4>1, <4>2, AskedOwnStep DEF AskedThen
    <3> QED
      BY <3>1, <3>2
  <2> QED
    BY <1>s, <2>6
<1>5. CASE UserSigns
  <2>1. /\ view = "txn" /\ UserDecides
        /\ \A c \in Caller :
             \/ calls'[c] = calls[c]
             \/ calls'[c] = [calls[c] EXCEPT !.approved =
                               TxReview(hdPath, ctx_parsed_tx)]
    BY <1>5 DEF UserSigns, AppSign, Leave, UserDecides
  <2>2. hdPath \in Path /\ ctx_parsed_tx \in Seq(Byte)
    BY <2>1, ConstantsAssumption DEF Inv, ReviewOwnsGlobals, TypeOK
  <2>3. PICK v \in Reviews : v = TxReview(hdPath, ctx_parsed_tx)
    BY <2>2 DEF TxReview, Reviews
  <2>4. ASSUME NEW d \in Caller
        PROVE  /\ calls'[d].kind = calls[d].kind
               /\ calls'[d].path = calls[d].path
               /\ calls'[d].message = calls[d].message
               /\ calls'[d].chunkIdx = calls[d].chunkIdx
               /\ calls'[d].pc = calls[d].pc
               /\ calls'[d].result = calls[d].result
               /\ calls'[d].whole = calls[d].whole
    <3>1. PICK r : r = calls[d] /\ GoodCall(r)
      BY <1>i
    <3>2. PICK s : s = [r EXCEPT !.approved = v]
      OBVIOUS
    <3>3. calls'[d] = r \/ calls'[d] = s
      BY <2>1, <2>3, <3>1, <3>2
    <3>4. /\ s.kind = r.kind /\ s.path = r.path /\ s.message = r.message
          /\ s.chunkIdx = r.chunkIdx /\ s.pc = r.pc
          /\ s.result = r.result /\ s.whole = r.whole
      BY <3>1, <3>2, ApprovedPost
    <3> QED
      BY <3>1, <3>3, <3>4
  <2> QED
    BY <1>b, <2>1, <2>4
<1>6. CASE UserDecidesOtherwise
  <2>1. calls' = calls /\ UserDecides
    BY <1>6 DEF UserDecidesOtherwise, clientVars, UserDecides
  <2> QED
    BY <1>b, <2>1
<1>7. CASE ScreenFails
  <2>1. /\ calls' = calls /\ tx_initialized' = tx_initialized
        /\ hdPath' = hdPath /\ txBuffer' = txBuffer /\ reply' = reply
    BY <1>7 DEF ScreenFails, clientVars, ItemNotShown
  <2> QED
    BY <1>i, <1>s, <2>1 DEF Asked, AskedThen
<1>8. CASE LinkDown
  <2>1. \A c \in Caller :
          calls'[c] = IF c = exchange THEN After(calls[c], LinkError)
                                      ELSE calls[c]
    BY <1>8 DEF LinkDown
  <2>2. tx_initialized' => /\ tx_initialized
                           /\ hdPath' = hdPath /\ txBuffer' = txBuffer
    BY <1>8 DEF LinkDown, IoReset, Restart
  <2>3. ASSUME NEW d \in Caller PROVE AskedThen(calls'[d])
    <3>1. CASE d = exchange
      <4> DEFINE r == calls[d]
                 s == calls'[d]
      <4>1. r.pc = "await"
        BY <1>i, <3>1
      <4>2. /\ s.pc # "await" /\ s.kind = r.kind /\ s.whole = r.whole
            /\ s.path = r.path /\ s.message = r.message
            /\ s.pc = "send" => r.chunkIdx = 1 /\ s.chunkIdx = 2
            /\ s.pc = "returned" => s.result.kind = "empty"
        BY <1>i, <2>1, <3>1, <4>1, LinkErrorPost
      <4>3. /\ r.whole => r.kind = "sign"
            /\ r.whole /\ r.chunkIdx = 1 /\ tx_initialized =>
                 hdPath = DevicePath[r.path] /\ txBuffer = Prefix(r.message, 0)
        <5>1. Asked(r)
          BY <1>i
        <5>2. Ack.sw = "OK" /\ 1 - 1 = 0 /\ ~(1 >= 2)
          BY DEF Ack, Answer
        <5> HIDE DEF r
        <5>3. ASSUME r.whole, r.chunkIdx = 1, tx_initialized
              PROVE  /\ hdPath = DevicePath[r.path]
                     /\ txBuffer = Prefix(r.message, 0)
          <6>1. reply # None
            BY <4>1, <5>1, <5>2, <5>3 DEF Asked
          <6>2. reply.sw = "OK"
            BY <4>1, <5>1, <5>2, <5>3, <6>1 DEF Asked
          <6> QED
            BY <4>1, <5>1, <5>2, <5>3, <6>1, <6>2 DEF Asked
        <5>4. r.whole => r.kind = "sign"
          BY <5>1 DEF Asked
        <5> QED
          BY <5>3, <5>4
      <4>4. s.pc = "send" => s.chunkIdx >= 2 /\ s.chunkIdx - 2 = 0
        BY <4>2
      <4> QED
        BY <2>2, <4>2, <4>3, <4>4 DEF AskedThen
    <3>2. CASE d # exchange
      <4>1. calls'[d] = calls[d] /\ calls[d].pc # "await" /\ Asked(calls[d])
        BY <1>i, <2>1, <3>2
      <4> QED
        BY <2>2, <4>1, AskedOwnStep DEF AskedThen
    <3> QED
      BY <3>1, <3>2
  <2> QED
    BY <1>s, <2>3
<1>9. CASE UNCHANGED allVars
  BY <1>9, <1>s, <1>u DEF allVars, clientVars
<1> QED
  BY <1>1, <1>2, <1>3, <1>4, <1>5, <1>6, <1>7, <1>8, <1>9, ClientSteps

LEMMA AskedAlways == ClientSpec => []AskedInv
<1>1. ClientInit => AskedInv
  BY DEF ClientInit, AskedInv, Asked, NoCall, Call
<1> QED
  BY <1>1, AskedStep, ClientInvAlways, PTL DEF ClientSpec

(* Once the device has taken a call's P1_INIT and hears from no other      *)
(* caller, a signature the call returns is of its own message and path:    *)
(* whatever is lost, refused, reset or restarted on the way, no piece of   *)
(* the message is missing, doubled or out of order.                        *)
THEOREM SignaturesAreAsAsked == ClientSpec => []SignedAsAskedOnceBegun
<1>1. AskedInv => SignedAsAskedOnceBegun
  BY DEF AskedInv, Asked, SignedAsAskedOnceBegun, Returned
<1> QED
  BY <1>1, AskedAlways, PTL

-----------------------------------------------------------------------------
(* What a call that succeeds returns. *)

(* A call that awaits an address will get the one of its path, from the    *)
(* buffer of a review if need be; one that awaits the answer to its last   *)
(* chunk gets a signature or an error; one that has returned has got it.   *)
Done(r) ==
  /\ r.pc = "await" /\ r.kind # "sign" =>
       IF reply = None
         THEN view = "address" /\ hdPath = DevicePath[r.path]
         ELSE reply.sw = "OK" => reply = Address(DevicePath[r.path])
  /\ r.pc = "await" /\ r.kind = "sign" =>
       IF reply = None
         THEN view # "address"
         ELSE r.chunkIdx = ChunkNum(r) /\ reply.sw = "OK" =>
                reply.kind = "signature"
  /\ r.pc = "returned" /\ r.result.sw = "OK" =>
       \/ r.kind # "sign" /\ r.result = Address(DevicePath[r.path])
       \/ /\ r.kind = "sign"
          /\ r.result.kind = "signature" \/ r.message = <<>>

DoneInv == \A c \in Caller : Done(calls[c])

(* The device handles a call for an address.                               *)
LEMMA DoneByGetAddr ==
  ASSUME TypeOK, NEW r, GoodCall(r), r.pc = "send", r.kind # "sign",
         DeviceHandles(r)
  PROVE  IF reply' = None
           THEN view' = "address" /\ hdPath' = DevicePath[r.path]
           ELSE reply'.sw = "OK" => reply' = Address(DevicePath[r.path])
<1> DEFINE p == DevicePath[r.path]
<1>1. p \in Path \cup {Truncated}
  BY ClientConstants DEF GoodCall
<1>2. \A sw \in Errors : Refusal(sw) # None /\ Refusal(sw).sw # "OK"
  BY AnswersAreReplies DEF Refusal, Answer, Errors
<1>3. \A q \in Path \cup {None} : Address(q) # None
  BY AnswersAreReplies
<1>4. "COMMAND_NOT_ALLOWED" \in Errors /\ "EXECUTION_ERROR" \in Errors
  BY DEF Errors
<1>5. Locked \/ HandleGetAddr(p)
  BY DEF DeviceHandles, DeviceGetAddr
<1> HIDE DEF p
<1>6. CASE Locked
  BY <1>2, <1>4, <1>6 DEF Locked, p
<1>7. CASE HandleGetAddr(p)
  <2>1. CASE GetAddrRefused(p)
    BY <1>2, <2>1 DEF GetAddrRefused, Send
  <2>2. CASE GetAddrFails(p)
    BY <1>2, <1>4, <2>2 DEF GetAddrFails, Send
  <2>3. CASE GetAddrAnswered(p)
    <3>1. hdPath' = p /\ hdPath' \in Path \cup {None}
      BY <1>1, <2>3, ExtractHDPathPost DEF GetAddrAnswered, TypeOK
    <3>2. reply' = Address(hdPath')
      BY <2>3 DEF GetAddrAnswered
    <3> QED
      BY <1>3, <3>1, <3>2 DEF p
  <2>4. CASE GetAddrReviewed(p)
    <3>1. hdPath' = p
      BY <1>1, <2>4, ExtractHDPathPost DEF GetAddrReviewed, TypeOK
    <3> QED
      BY <2>4, <3>1 DEF GetAddrReviewed, p
  <2> QED
    BY <1>7, <2>1, <2>2, <2>3, <2>4 DEF HandleGetAddr
<1> QED
  BY <1>5, <1>6, <1>7

(* The device handles a chunk of a signature.                              *)
LEMMA DoneBySign ==
  ASSUME NEW r, GoodCall(r), r.pc = "send", r.kind = "sign",
         DeviceHandles(r)
  PROVE  IF reply' = None
           THEN view' # "address"
           ELSE r.chunkIdx = ChunkNum(r) => reply'.sw # "OK"
<1>1. \A sw \in Errors : Refusal(sw) # None /\ Refusal(sw).sw # "OK"
  BY AnswersAreReplies DEF Refusal, Answer, Errors
<1>2. Ack # None
  BY AnswersAreReplies
<1>3. r.chunkIdx = ChunkNum(r) => PayloadType(r) = "LAST"
  BY DEF PayloadType
<1>4. "COMMAND_NOT_ALLOWED" \in Errors /\ "TX_NOT_INITIALIZED" \in Errors
      /\ "OUTPUT_BUFFER_TOO_SMALL" \in Errors /\ "DATA_INVALID" \in Errors
  BY DEF Errors
<1>5. \/ Locked \/ SignNotInitialized \/ SignTooLong(Chunk(r))
      \/ PayloadType(r) = "INIT" /\ SignInit(DevicePath[r.path])
      \/ PayloadType(r) = "ADD" /\ SignAdd(Chunk(r))
      \/ SignLast(Chunk(r))
  BY DEF DeviceHandles, DeviceSign
<1>6. CASE Locked \/ SignNotInitialized \/ SignTooLong(Chunk(r))
  BY <1>1, <1>4, <1>6 DEF Locked, SignNotInitialized, SignTooLong, Send
<1>7. CASE PayloadType(r) = "INIT" /\ SignInit(DevicePath[r.path])
  <2>1. reply' # None
    BY <1>1, <1>2, <1>7 DEF SignInit, Send
  <2> QED
    BY <1>3, <1>7, <2>1
<1>8. CASE PayloadType(r) = "ADD" /\ SignAdd(Chunk(r))
  <2>1. reply' # None
    BY <1>2, <1>8 DEF SignAdd, Send
  <2> QED
    BY <1>3, <1>8, <2>1
<1>9. CASE SignLast(Chunk(r))
  BY <1>1, <1>4, <1>9 DEF SignLast, SignLastParsed, Send
<1> QED
  BY <1>5, <1>6, <1>7, <1>8, <1>9

(* A call drops the data of an answer only if it had nothing to sign.      *)
LEMMA AnswerIsKept ==
  ASSUME NEW r, GoodCall(r), r.pc # "returned",
         NEW answer, NEW s, s = After(r, answer), s.pc = "returned"
  PROVE  s.result = answer \/ (r.kind = "sign" /\ r.message = <<>>)
<1>1. /\ r \in CallStates /\ r.message \in Message /\ Len(r.message) \in Nat
      /\ r.message \in Seq(Byte)
  BY ClientConstants DEF GoodCall
<1>2. \A a : /\ s = ReturnedWith(r, a) => s.result = a
  BY <1>1 DEF ReturnedWith, CallStates
<1>3. CASE r.kind = "sign" /\ ChunkNum(r) = 1
  <2> DEFINE n == Len(r.message) + ChunkSize - 1
  <2>1. Pieces(r.message) \in Nat /\ ChunkNum(r) = 1 + Pieces(r.message)
    BY <1>1, PiecesIsNat DEF ChunkNum
  <2>2. ChunkSize \in Nat /\ ChunkSize > 0
    BY ClientConstants
  <2>3. n \in Nat
    BY <1>1, <2>2
  <2>4. n \div ChunkSize = 0
    BY <1>3, <2>1 DEF Pieces
  <2> HIDE DEF n
  <2>5. n < ChunkSize
    BY <2>2, <2>3, <2>4
  <2>6. Len(r.message) = 0
    BY <1>1, <2>2, <2>5 DEF n
  <2>7. r.message = <<>>
    BY <1>1, <2>6, EmptySeq
  <2> QED
    BY <1>3, <2>7
<1>4. CASE ~(r.kind = "sign" /\ ChunkNum(r) = 1)
  <2>1. \/ s = ReturnedWith(r, answer)
        \/ s = [r EXCEPT !.pc = "send", !.chunkIdx = @ + 1]
    BY <1>4 DEF After
  <2>2. s # [r EXCEPT !.pc = "send", !.chunkIdx = @ + 1]
    BY <1>1 DEF CallStates
  <2> QED
    BY <1>2, <2>1, <2>2
<1> QED
  BY <1>3, <1>4

LEMMA DoneStep ==
  Inv /\ CallsInv /\ DoneInv /\ [ClientNext]_allVars => DoneInv'
<1> SUFFICES ASSUME Inv, CallsInv, DoneInv, [ClientNext]_allVars
             PROVE  DoneInv'
  OBVIOUS
<1>t. TypeOK
  BY DEF Inv
<1>n. None \notin Caller
  BY ClientConstants
<1>e. /\ Refusal("SIGN_VERIFY_ERROR").sw # "OK"
      /\ Refusal("COMMAND_NOT_ALLOWED").sw # "OK"
      /\ Refusal("DATA_INVALID").sw # "OK"
      /\ LinkError.sw # "OK"
  BY DEF Refusal, LinkError, Answer
<1>i. /\ \A c \in Caller : GoodCall(calls[c])
      /\ \A c \in Caller : calls[c].pc = "await" <=> exchange = c
      /\ \A c \in Caller : Done(calls[c])
  BY DEF CallsInv, DoneInv
(* What is to be seen of each call now.                                    *)
<1> DEFINE DoneThen(s) ==
      /\ s.pc = "await" /\ s.kind # "sign" =>
           IF reply' = None
             THEN view' = "address" /\ hdPath' = DevicePath[s.path]
             ELSE reply'.sw = "OK" => reply' = Address(DevicePath[s.path])
      /\ s.pc = "await" /\ s.kind = "sign" =>
           IF reply' = None
             THEN view' # "address"
             ELSE s.chunkIdx = ChunkNum(s) /\ reply'.sw = "OK" =>
                    reply'.kind = "signature"
      /\ s.pc = "returned" /\ s.result.sw = "OK" =>
           \/ s.kind # "sign" /\ s.result = Address(DevicePath[s.path])
           \/ /\ s.kind = "sign"
              /\ s.result.kind = "signature" \/ s.message = <<>>
<1>s. ASSUME \A d \in Caller : DoneThen(calls'[d])
      PROVE  DoneInv'
  BY <1>s DEF DoneInv, Done, Address, Answer, ChunkNum, Pieces
(* A call that awaits nothing, and has returned no sooner than now.        *)
<1>u. ASSUME NEW d \in Caller, calls[d].pc # "await",
             NEW s, s.pc = calls[d].pc, s.kind = calls[d].kind,
             s.path = calls[d].path, s.message = calls[d].message,
             s.result = calls[d].result
      PROVE  DoneThen(s)
  BY <1>i, <1>u DEF Done
<1>v. ASSUME NEW d \in Caller, calls'[d] = calls[d], UNCHANGED vars
      PROVE  DoneThen(calls'[d])
  BY <1>i, <1>v DEF Done, vars
<1>p. \A s : s.pc = "send" => DoneThen(s)
  OBVIOUS
<1> HIDE DEF DoneThen
<1>1. ASSUME NEW c \in Caller, NEW kind \in {"get", "show", "sign"},
             Start(c, kind)
      PROVE  DoneInv'
  <2>1. PICK r \in Request[c] :
          calls' = [calls EXCEPT ![c] = Call(kind, r.path, r.message)]
    BY <1>1 DEF Start
  <2>2. UNCHANGED vars
    BY <1>1 DEF Start
  <2>3. calls'[c].pc = "send"
    BY <2>1, CallUpdate DEF Call
  <2> QED
    BY <1>p, <1>s, <1>v, <2>1, <2>2, <2>3, CallUpdate
<1>2. ASSUME NEW c \in Caller, TransportSend(c) PROVE DoneInv'
  <2>1. /\ exchange = None /\ calls[c].pc = "send" /\ DeviceHandles(calls[c])
    BY <1>2, TransportSendPost
  <2>2. PICK w \in BOOLEAN : calls'[c] = SentCall(calls[c], w)
    BY <1>2, TransportSendPost
  <2>3. ASSUME NEW d \in Caller, d # c PROVE DoneThen(calls'[d])
    <3>1. calls'[d] = OvertakenCall(calls[d])
      BY <1>2, <2>3, TransportSendPost
    <3>2. PICK r, s : r = calls[d] /\ s = OvertakenCall(r) /\ GoodCall(r)
      BY <1>i
    <3>3. /\ s.pc = r.pc /\ s.kind = r.kind /\ s.path = r.path
          /\ s.message = r.message /\ s.result = r.result
      <4>1. GoodCall(r) /\ s = OvertakenCall(r)
        BY <3>2
      <4> QED
        BY <4>1, OvertakenPost
    <3>4. calls[d].pc # "await"
      BY <1>i, <1>n, <2>1
    <3> QED
      BY <1>u, <3>1, <3>2, <3>3, <3>4
  <2>4. DoneThen(calls'[c])
    <3>1. PICK r, s : r = calls[c] /\ s = SentCall(r, w) /\ GoodCall(r)
      BY <1>i
    <3>2. /\ s.pc = "await" /\ s.kind = r.kind /\ s.path = r.path
          /\ s.message = r.message /\ s.chunkIdx = r.chunkIdx
      BY <2>1, <3>1, SentPost
    <3>3. ChunkNum(s) = ChunkNum(r)
      BY <3>2 DEF ChunkNum
    <3>4. r.pc = "send" /\ DeviceHandles(r)
      BY <2>1, <3>1
    <3>5. CASE r.kind # "sign"
      <4>1. IF reply' = None
              THEN view' = "address" /\ hdPath' = DevicePath[r.path]
              ELSE reply'.sw = "OK" => reply' = Address(DevicePath[r.path])
        BY <1>t, <3>1, <3>4, <3>5, DoneByGetAddr
      <4> QED
        BY <2>2, <3>1, <3>2, <3>5, <4>1 DEF DoneThen
    <3>6. CASE r.kind = "sign"
      <4>1. IF reply' = None
              THEN view' # "address"
              ELSE r.chunkIdx = ChunkNum(r) => reply'.sw # "OK"
        BY <3>1, <3>4, <3>6, DoneBySign
      <4> QED
        BY <2>2, <3>1, <3>2, <3>3, <3>6, <4>1 DEF DoneThen
    <3> QED
      BY <3>5, <3>6
  <2> QED
    BY <1>s, <2>3, <2>4
<1>3. ASSUME NEW c \in Caller, SendFails(c) PROVE DoneInv'
  <2>1. /\ calls[c].pc = "send" /\ UNCHANGED vars
        /\ calls' = [calls EXCEPT ![c] = After(calls[c], LinkError)]
    BY <1>3 DEF SendFails
  <2>2. DoneThen(calls'[c])
    <3>1. PICK r, s : r = calls[c] /\ s = After(r, LinkError) /\ GoodCall(r)
      BY <1>i
    <3>2. s.pc # "await" /\ (s.pc = "returned" => s.result.sw = "LINK_ERROR")
      BY <2>1, <3>1, LinkErrorPost
    <3>3. s = calls'[c]
      BY <2>1, <3>1, CallUpdate
    <3> QED
      BY <3>2, <3>3 DEF DoneThen
  <2> QED
    BY <1>s, <1>v, <2>1, <2>2, CallUpdate
<1>4. ASSUME NEW c \in Caller, Receive(c) PROVE DoneInv'
  <2>1. /\ exchange = c /\ reply # None /\ UNCHANGED vars
        /\ calls' = [calls EXCEPT ![c] = After(calls[c], reply)]
    BY <1>4 DEF Receive
  <2>2. reply \in Results
    BY <1>t, <2>1, ResultsAreAnswers DEF TypeOK
  <2>3. DoneThen(calls'[c])
    <3>1. PICK r, s : /\ r = calls[c] /\ s = After(r, reply)
                      /\ GoodCall(r) /\ Done(r)
      BY <1>i
    <3>2. PICK answer \in Results : answer = reply
      BY <2>2
    <3>3. r.pc = "await" /\ s = calls'[c] /\ s = After(r, answer)
      BY <1>i, <2>1, <3>1, <3>2, CallUpdate
    <3>4. /\ s.pc # "await" /\ s.kind = r.kind /\ s.path = r.path
          /\ s.message = r.message
          /\ s.pc = "returned" =>
               /\ s.result.sw = answer.sw
               /\ r.kind = "sign" /\ answer.sw = "OK" =>
                    r.chunkIdx = ChunkNum(r)
      BY <3>1, <3>3, AfterPost
    <3>5. s.pc = "returned" =>
            s.result = answer \/ (r.kind = "sign" /\ r.message = <<>>)
      BY <3>1, <3>3, AnswerIsKept
    <3>6. r.kind # "sign" /\ reply.sw = "OK" =>
            reply = Address(DevicePath[r.path])
      BY <2>1, <3>1, <3>3 DEF Done
    <3>7. r.kind = "sign" /\ r.chunkIdx = ChunkNum(r) /\ reply.sw = "OK" =>
            reply.kind = "signature"
      BY <2>1, <3>1, <3>3 DEF Done
    <3>8. CASE r.kind # "sign"
      BY <3>2, <3>3, <3>4, <3>5, <3>6, <3>8 DEF DoneThen
    <3>9. CASE r.kind = "sign"
      BY <3>2, <3>3, <3>4, <3>5, <3>7, <3>9 DEF DoneThen
    <3> QED
      BY <3>8, <3>9
  <2> QED
    BY <1>s, <1>v, <2>1, <2>3, CallUpdate
(* A button of a review: the call that waits for it has its answer.        *)
<1>b. ASSUME UserDecides,
             NEW d \in Caller, calls[d].pc = "await",
             NEW s, s.pc = "await", s.kind = calls[d].kind,
             s.path = calls[d].path
      PROVE  DoneThen(s)
  <2>1. view # "idle"
    BY <1>b DEF UserDecides, AppSign, AppReject, AppReplyAddress,
                AppReplyError, Leave
  <2>2. reply = None
    BY <2>1 DEF Inv, AnswerOwedIffReview
  <2>3. reply' # None
    BY <1>b, <1>t, DecisionsAnswer
  <2>4. Done(calls[d])
    BY <1>i
  <2>5. CASE s.kind # "sign"
    <3>1. view = "address" /\ hdPath = DevicePath[s.path]
      BY <1>b, <2>2, <2>4, <2>5 DEF Done
    <3>2. G_io_apdu_buffer = hdPath /\ action_addrResponseLen > 0
      BY <3>1 DEF Inv, ReviewOwnsGlobals, AddrResponseLen
    <3>3. AppReject \/ AppReplyAddress
      BY <1>b, <3>1 DEF UserDecides, AppSign, AppReplyError, Leave
    <3>4. reply'.sw = "OK" => reply' = Address(DevicePath[s.path])
      BY <1>e, <3>1, <3>2, <3>3 DEF AppReject, AppReplyAddress, Send
    <3> QED
      BY <1>b, <2>3, <2>5, <3>4 DEF DoneThen
  <2>6. CASE s.kind = "sign"
    <3>1. view # "address"
      BY <1>b, <2>2, <2>4, <2>6 DEF Done
    <3>2. AppSign \/ AppReject \/ AppReplyError
      BY <1>b, <3>1 DEF UserDecides, AppReplyAddress, Leave
    <3>3. Signature(hdPath, txBuffer).kind = "signature"
      BY DEF Signature, Answer
    <3>4. reply'.sw = "OK" => reply'.kind = "signature"
      BY <1>e, <3>2, <3>3 DEF AppSign, AppReject, AppReplyError, Send
    <3> QED
      BY <1>b, <2>3, <2>6, <3>4 DEF DoneThen
  <2> QED
    BY <2>5, <2>6
<1>5. CASE UserSigns
  <2>1. /\ view = "txn" /\ UserDecides
        /\ \A c \in Caller :
             \/ calls'[c] = calls[c]
             \/ calls'[c] = [calls[c] EXCEPT !.approved =
                               TxReview(hdPath, ctx_parsed_tx)]
    BY <1>5 DEF UserSigns, AppSign, Leave, UserDecides
  <2>2. hdPath \in Path /\ ctx_parsed_tx \in Seq(Byte)
    BY <2>1, ConstantsAssumption DEF Inv, ReviewOwnsGlobals, TypeOK
  <2>3. PICK v \in Reviews : v = TxReview(hdPath, ctx_parsed_tx)
    BY <2>2 DEF TxReview, Reviews
  <2>4. ASSUME NEW d \in Caller PROVE DoneThen(calls'[d])
    <3>1. PICK r : r = calls[d] /\ GoodCall(r)
      BY <1>i
    <3>2. PICK s : s = [r EXCEPT !.approved = v]
      OBVIOUS
    <3>3. /\ s.pc = r.pc /\ s.kind = r.kind /\ s.path = r.path
          /\ s.message = r.message /\ s.result = r.result
      BY <3>1, <3>2, ApprovedPost
    <3>4. calls'[d] = r \/ calls'[d] = s
      BY <2>1, <2>3, <3>1, <3>2
    <3>5. CASE calls[d].pc = "await"
      BY <1>b, <2>1, <3>1, <3>3, <3>4, <3>5
    <3>6. CASE calls[d].pc # "await"
      BY <1>u, <3>1, <3>3, <3>4, <3>6
    <3> QED
      BY <3>5, <3>6
  <2> QED
    BY <1>s, <2>4
<1>6. CASE UserDecidesOtherwise
  <2>1. calls' = calls /\ UserDecides
    BY <1>6 DEF UserDecidesOtherwise, clientVars, UserDecides
  <2>2. ASSUME NEW d \in Caller PROVE DoneThen(calls'[d])
    <3>1. CASE calls[d].pc = "await"
      BY <1>b, <2>1, <3>1
    <3>2. CASE calls[d].pc # "await"
      BY <1>u, <2>1, <3>2
    <3> QED
      BY <3>1, <3>2
  <2> QED
    BY <1>s, <2>2
<1>7. CASE ScreenFails
  <2>1. /\ calls' = calls /\ hdPath' = hdPath /\ reply' = reply
        /\ view = "txn" /\ view' = "error"
    BY <1>7 DEF ScreenFails, clientVars, ItemNotShown
  <2>2. ASSUME NEW d \in Caller PROVE DoneThen(calls'[d])
    <3>1. Done(calls[d])
      BY <1>i
    <3> QED
      BY <2>1, <3>1 DEF Done, DoneThen
  <2> QED
    BY <1>s, <2>2
<1>8. CASE LinkDown
  <2>1. \A c \in Caller :
          calls'[c] = IF c = exchange THEN After(calls[c], LinkError)
                                      ELSE calls[c]
    BY <1>8 DEF LinkDown
  <2>2. ASSUME NEW d \in Caller PROVE DoneThen(calls'[d])
    <3>1. CASE d = exchange
      <4>1. PICK r, s : r = calls[d] /\ s = After(r, LinkError) /\ GoodCall(r)
        BY <1>i
      <4>2. r.pc = "await" /\ s = calls'[d]
        BY <1>i, <2>1, <3>1, <4>1
      <4>3. r.pc # "returned"
        BY <4>2
      <4>4. /\ s.pc # "await"
            /\ s.pc = "returned" => s.result.sw = "LINK_ERROR"
        <5>1. s = After(r, LinkError) /\ GoodCall(r)
          BY <4>1
        <5>2. s.pc # "await"
          BY <4>3, <5>1, LinkErrorPost
        <5>3. s.pc = "returned" => s.result.sw = "LINK_ERROR"
          BY <4>3, <5>1, LinkErrorPost
        <5> QED
          BY <5>2, <5>3
      <4> QED
        BY <4>2, <4>4, <1>e DEF DoneThen
    <3>2. CASE d # exchange
      <4>1. calls'[d] = calls[d] /\ calls[d].pc # "await"
        BY <1>i, <2>1, <3>2
      <4> QED
        BY <1>u, <4>1
    <3> QED
      BY <3>1, <3>2
  <2> QED
    BY <1>s, <2>2
<1>9. CASE UNCHANGED allVars
  BY <1>9, <1>s, <1>v DEF allVars, clientVars
<1> QED
  BY <1>1, <1>2, <1>3, <1>4, <1>5, <1>6, <1>7, <1>8, <1>9, ClientSteps

(* A call that returns OK has what it was made for: the address of its own *)
(* path, or a signature.  No lost, late or refused answer, reset or        *)
(* restart passes for success, whatever is asked, in whatever order.       *)
THEOREM SuccessIsReal == ClientSpec => []OkMeansDone
<1>1. ClientInit => DoneInv
  BY ResultsAreAnswers
  DEF ClientInit, DoneInv, Done, NoCall, Call
<1>2. DoneInv => OkMeansDone
  BY DEF DoneInv, Done, OkMeansDone, Returned
<1> QED
  BY <1>1, <1>2, DoneStep, ClientInvAlways, PTL DEF ClientSpec
=============================================================================
