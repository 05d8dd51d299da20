---------------------------- MODULE ApduAppProofs ----------------------------
(***************************************************************************)
(* Proofs about ApduApp, for all paths, blocks, accepted texts and buffer  *)
(* capacities.  Inv is the inductive invariant of an app whose host waits  *)
(* for its answers; from it follows that the app is a signing session.     *)
(* OpenUploadIsMainnet needs no waiting host and is proved without it.     *)
(***************************************************************************)
EXTENDS ApduApp, TLAPS

(* What the callbacks rely on, made inductive: an open upload must be      *)
(* under a mainnet path for the review that ends it to be.                 *)
Inv ==
  /\ TypeOK
  /\ ReviewOwnsGlobals
  /\ AnswerOwedIffReview
  /\ OpenUploadIsMainnet

-----------------------------------------------------------------------------
(* The operators the actions are built from. *)

(* Every answer the app can give is one of Replies, hence not None.        *)
LEMMA AnswersAreReplies ==
  /\ \A sw \in Errors : Refusal(sw) \in Replies
  /\ Ack \in Replies
  /\ Version \in Replies
  /\ \A p \in Path \cup {None} : Address(p) \in Replies
  /\ \A p \in Path \cup {None}, t \in Seq(Byte) : Signature(p, t) \in Replies
  /\ None \notin Replies
<1>1. <<>> \in Seq(Byte)
  OBVIOUS
<1>2. \A sw \in Errors \cup {"OK"},
         k \in {"empty", "version", "address", "signature"},
         p \in Path \cup {None}, t \in Seq(Byte) : Answer(sw, k, p, t) \in Replies
  BY DEF Answer, Replies
<1> QED
  BY <1>1, <1>2, ConstantsAssumption
  DEF Refusal, Ack, Version, Address, Signature

(* extractHDPath ends with a mainnet path, or refuses with an error and    *)
(* leaves the path as it was or as the host sent it.                       *)
LEMMA ExtractHDPathPost ==
  ASSUME NEW p \in Path \cup {Truncated}, NEW sw,
         hdPath \in Path \cup {None},
         ExtractHDPath(p, sw)
  PROVE  /\ sw = "OK" \/ sw \in Errors
         /\ hdPath' \in Path \cup {None}
         /\ sw = "OK" <=> sw \notin Errors
         /\ sw = "OK" => hdPath' = p /\ p \in Mainnet
  BY ConstantsAssumption DEF ExtractHDPath, Errors

(* A block that fits extends the buffer without passing its capacity.      *)
LEMMA AppendFits ==
  ASSUME NEW d \in Payload, txBuffer \in Seq(Byte), Fits(d)
  PROVE  /\ txBuffer \o d \in Seq(Byte)
         /\ Len(txBuffer \o d) <= Capacity
<1>1. d \in Seq(Byte)
  BY ConstantsAssumption
<1>2. /\ txBuffer \o d \in Seq(Byte)
      /\ Len(txBuffer \o d) = Len(txBuffer) + Len(d)
  BY <1>1
<1> QED
  BY <1>2 DEF Fits

-----------------------------------------------------------------------------
(* Types, with any host. *)

LEMMA TypeInit == Init => TypeOK
<1> SUFFICES ASSUME Init PROVE TypeOK
  OBVIOUS
<1>1. <<>> \in Seq(Byte) /\ Len(<<>>) = 0 /\ 0 <= Capacity
  BY ConstantsAssumption
<1>2. txBuffer \in Seq(Byte) /\ Len(txBuffer) <= Capacity
  BY <1>1 DEF Init
<1>3. Ack \in Replies
  BY AnswersAreReplies
<1> QED
  BY <1>1, <1>2, <1>3 DEF Init, TypeOK

LEMMA TypeStep == TypeOK /\ [Next]_vars => TypeOK'
<1> SUFFICES ASSUME TypeOK, [Next]_vars PROVE TypeOK'
  OBVIOUS
<1> USE DEF TypeOK
<1>e. <<>> \in Seq(Byte) /\ Len(<<>>) = 0 /\ 0 <= Capacity
  BY ConstantsAssumption
<1>1. CASE HandleGetVersion
  BY <1>1, AnswersAreReplies DEF HandleGetVersion, Send
<1>2. CASE RefuseCommand
  BY <1>2, AnswersAreReplies DEF RefuseCommand, Send, Errors
<1>3. ASSUME NEW p \in Path \cup {Truncated}, HandleGetAddr(p)
      PROVE  TypeOK'
  <2>1. CASE GetAddrRefused(p)
    BY <1>3, <2>1, ExtractHDPathPost, AnswersAreReplies
    DEF HandleGetAddr, GetAddrRefused, Send
  <2>2. CASE GetAddrFails(p)
    <3>1. Refusal("EXECUTION_ERROR") \in Replies
      BY AnswersAreReplies DEF Errors
    <3> QED
      BY <1>3, <2>2, <3>1, ExtractHDPathPost
      DEF HandleGetAddr, GetAddrFails, Send
  <2>3. CASE GetAddrAnswered(p)
    BY <1>3, <2>3, ExtractHDPathPost, AnswersAreReplies
    DEF HandleGetAddr, GetAddrAnswered
  <2>4. CASE GetAddrReviewed(p)
    BY <1>3, <2>4, ExtractHDPathPost, ConstantsAssumption
    DEF HandleGetAddr, GetAddrReviewed
  <2> QED
    BY <1>3, <2>1, <2>2, <2>3, <2>4 DEF HandleGetAddr
<1>4. ASSUME NEW p \in Path \cup {Truncated}, SignInit(p)
      PROVE  TypeOK'
  BY <1>e, <1>4, ExtractHDPathPost, AnswersAreReplies DEF SignInit, Send
<1>5. CASE SignNotInitialized
  BY <1>5, AnswersAreReplies DEF SignNotInitialized, Send, Errors
<1>6. ASSUME NEW d \in Payload, SignTooLong(d)
      PROVE  TypeOK'
  BY <1>6, AnswersAreReplies DEF SignTooLong, Send, Errors
<1>7. ASSUME NEW d \in Payload, SignAdd(d)
      PROVE  TypeOK'
  BY <1>7, AppendFits, AnswersAreReplies DEF SignAdd, Send
<1>8. ASSUME NEW d \in Payload, SignLast(d)
      PROVE  TypeOK'
  BY <1>8, AppendFits, AnswersAreReplies
  DEF SignLast, SignLastParsed, Send, Errors
<1>9. CASE UserDecides
  <2>1. CASE AppSign
    BY <2>1, AnswersAreReplies DEF AppSign, Leave, Send, Errors
  <2>2. CASE AppReject
    BY <2>2, AnswersAreReplies DEF AppReject, Leave, Send, Errors
  <2>3. CASE AppReplyAddress
    BY <2>3, AnswersAreReplies DEF AppReplyAddress, Leave
  <2>4. CASE AppReplyError
    BY <2>4, AnswersAreReplies DEF AppReplyError, Leave, Send, Errors
  <2> QED
    BY <1>9, <2>1, <2>2, <2>3, <2>4 DEF UserDecides
<1>10. CASE ItemNotShown
  BY <1>10 DEF ItemNotShown
<1>11. CASE IoReset
  BY <1>11, AnswersAreReplies DEF IoReset, Send
<1>12. CASE Restart
  BY <1>e, <1>12, AnswersAreReplies DEF Restart, Send
<1>13. CASE UNCHANGED vars
  BY <1>13 DEF vars
<1> QED
  BY <1>1, <1>2, <1>3, <1>4, <1>5, <1>6, <1>7, <1>8, <1>9, <1>10, <1>11,
     <1>12, <1>13 DEF Next

(* Type correctness of the handler, with any host: in particular the text  *)
(* in the buffer never outgrows FLASH_BUFFER_SIZE.                         *)
THEOREM TypeCorrect == Spec => []TypeOK
  BY TypeInit, TypeStep, PTL DEF Spec

-----------------------------------------------------------------------------
(* An open upload is under a mainnet path, with any host. *)

LEMMA MainnetStep ==
  TypeOK /\ OpenUploadIsMainnet /\ [Next]_vars => OpenUploadIsMainnet'
<1> SUFFICES ASSUME TypeOK, OpenUploadIsMainnet, [Next]_vars
             PROVE  OpenUploadIsMainnet'
  OBVIOUS
<1> USE DEF OpenUploadIsMainnet
<1>1. ASSUME UNCHANGED <<tx_initialized, hdPath>> PROVE OpenUploadIsMainnet'
  BY <1>1
<1>2. ASSUME tx_initialized' = FALSE PROVE OpenUploadIsMainnet'
  BY <1>2
<1>3. ASSUME NEW p \in Path \cup {Truncated}, SignInit(p)
      PROVE  OpenUploadIsMainnet'
  BY <1>3, ExtractHDPathPost DEF SignInit, TypeOK
<1>4. \/ UNCHANGED <<tx_initialized, hdPath>>
      \/ tx_initialized' = FALSE
      \/ \E p \in Path \cup {Truncated} : SignInit(p)
  BY DEF Next, vars, HandleGetVersion, RefuseCommand, HandleGetAddr,
         SignNotInitialized, SignTooLong, SignAdd, SignLast, SignLastParsed,
         UserDecides, AppSign, AppReject, AppReplyAddress, AppReplyError, Leave,
         ItemNotShown, IoReset, Restart
<1> QED
  BY <1>1, <1>2, <1>3, <1>4

(* No order of commands, however early they come, leaves an upload open    *)
(* under a path that is not 44'/318': extractHDPath closes the upload      *)
(* before it overwrites hdPath.                                            *)
THEOREM OpenUploadsAreMainnet == Spec => []OpenUploadIsMainnet
<1>1. Init => OpenUploadIsMainnet
  BY DEF Init, OpenUploadIsMainnet
<1> QED
  BY <1>1, MainnetStep, TypeCorrect, PTL DEF Spec

-----------------------------------------------------------------------------
(* What a step may do to an upload, with any host. *)

(* Only P1_INIT opens an upload, with nothing in it; while it stays open   *)
(* only a block that fits changes it.                                      *)
LEMMA UploadStep ==
  TypeOK /\ [Next]_vars =>
    \/ ~tx_initialized'
    \/ txBuffer' = <<>>
    \/ tx_initialized /\ UNCHANGED <<hdPath, txBuffer>>
    \/ /\ tx_initialized /\ UNCHANGED hdPath
       /\ \E d \in Payload : txBuffer' = txBuffer \o d
<1> SUFFICES ASSUME TypeOK, [Next]_vars, tx_initialized', txBuffer' # <<>>
             PROVE  /\ tx_initialized /\ UNCHANGED hdPath
                    /\ \/ UNCHANGED txBuffer
                       \/ \E d \in Payload : txBuffer' = txBuffer \o d
  OBVIOUS
<1>1. ASSUME NEW p \in Path \cup {Truncated}, HandleGetAddr(p) \/ SignInit(p)
      PROVE  FALSE
  BY <1>1 DEF HandleGetAddr, SignInit
<1>2. ASSUME NEW d \in Payload, SignTooLong(d) \/ SignLast(d)
      PROVE  FALSE
  BY <1>2 DEF SignTooLong, SignLast, SignLastParsed
<1>3. ASSUME NEW d \in Payload, SignAdd(d)
      PROVE  /\ tx_initialized /\ UNCHANGED hdPath
             /\ txBuffer' = txBuffer \o d
  BY <1>3 DEF SignAdd
<1>4. CASE UNCHANGED <<tx_initialized, hdPath, txBuffer>>
  BY <1>4
<1>5. ~Restart
  BY DEF Restart
<1>6. \/ UNCHANGED <<tx_initialized, hdPath, txBuffer>>
      \/ \E p \in Path \cup {Truncated} : HandleGetAddr(p) \/ SignInit(p)
      \/ \E d \in Payload : SignTooLong(d) \/ SignAdd(d) \/ SignLast(d)
      \/ Restart
  BY DEF Next, vars, HandleGetVersion, RefuseCommand, SignNotInitialized,
         UserDecides, AppSign, AppReject, AppReplyAddress, AppReplyError,
         Leave, ItemNotShown, IoReset
<1> QED
  BY <1>1, <1>2, <1>3, <1>4, <1>5, <1>6

(* Whatever the host does, an upload that stays open is under one path and *)
(* only grows: no block is lost from it, replaced in it or put before it.  *)
THEOREM UploadsOnlyGrow == Spec => UploadOnlyGrows
<1> DEFINE Grows == tx_initialized /\ tx_initialized' =>
              \/ txBuffer' = <<>>
              \/ /\ hdPath' = hdPath
                 /\ Len(txBuffer) <= Len(txBuffer')
                 /\ txBuffer = SubSeq(txBuffer', 1, Len(txBuffer))
<1>1. TypeOK /\ [Next]_vars => Grows
  <2> SUFFICES ASSUME TypeOK, [Next]_vars, tx_initialized, tx_initialized',
                      txBuffer' # <<>>
               PROVE  /\ hdPath' = hdPath
                      /\ Len(txBuffer) <= Len(txBuffer')
                      /\ txBuffer = SubSeq(txBuffer', 1, Len(txBuffer))
    OBVIOUS
  <2>0. txBuffer \in Seq(Byte)
    BY DEF TypeOK
  <2>1. CASE UNCHANGED <<hdPath, txBuffer>>
    BY <2>0, <2>1
  <2>2. ASSUME UNCHANGED hdPath, NEW d \in Payload,
               txBuffer' = txBuffer \o d
        PROVE  /\ hdPath' = hdPath
               /\ Len(txBuffer) <= Len(txBuffer')
               /\ txBuffer = SubSeq(txBuffer', 1, Len(txBuffer))
    <3>1. d \in Seq(Byte)
      BY ConstantsAssumption
    <3>2. Len(txBuffer \o d) = Len(txBuffer) + Len(d) /\ Len(d) \in Nat
      BY <2>0, <3>1
    <3>3. txBuffer = SubSeq(txBuffer \o d, 1, Len(txBuffer))
      BY <2>0, <3>1
    <3> QED
      BY <2>0, <2>2, <3>2, <3>3
  <2> QED
    BY <2>1, <2>2, UploadStep
<1> QED
  BY <1>1, TypeCorrect, PTL DEF Spec, UploadOnlyGrows

(* Whatever the host does, only the last block of an open upload starts a  *)
(* review of a transaction, and the review is of that upload.              *)
THEOREM ReviewsStartFromUploads == Spec => ReviewStartsFromUpload
<1> DEFINE Starts == view # "txn" /\ view' = "txn" =>
       /\ tx_initialized /\ ~tx_initialized'
       /\ hdPath' = hdPath /\ hdPath' \in Mainnet
       /\ \E d \in Payload : ctx_parsed_tx' = txBuffer \o d
       /\ txBuffer' = ctx_parsed_tx' /\ ctx_parsed_tx' \in AcceptedTx
<1>1. OpenUploadIsMainnet /\ [Next]_vars => Starts
  <2> SUFFICES ASSUME OpenUploadIsMainnet, [Next]_vars,
                      view # "txn", view' = "txn"
               PROVE  Starts
    OBVIOUS
  <2>1. PICK d \in Payload : SignLast(d)
    BY DEF Next, vars, HandleGetVersion, RefuseCommand, HandleGetAddr,
           GetAddrRefused, GetAddrFails, GetAddrAnswered, GetAddrReviewed,
           SignInit, SignNotInitialized, SignTooLong, SignAdd, UserDecides,
           AppSign, AppReject, AppReplyAddress, AppReplyError, Leave,
           ItemNotShown, IoReset, Restart
  <2>2. txBuffer \o d \in AcceptedTx
    BY <2>1 DEF SignLast, SignLastParsed
  <2> QED
    BY <2>1, <2>2 DEF SignLast, SignLastParsed, OpenUploadIsMainnet
<1> QED
  BY <1>1, OpenUploadsAreMainnet, PTL DEF Spec, ReviewStartsFromUpload

-----------------------------------------------------------------------------
(* The reviews, with a host that waits for its answers. *)

(* No command is served while a screen is up.                              *)
LEMMA NoCommandDuringReview ==
  ASSUME HostsWait, AnswerOwedIffReview, CommandArrives
  PROVE  view = "idle"
  BY DEF AnswerOwedIffReview, CommandArrives

(* A step that sends an answer and leaves no screen up keeps Inv, as long  *)
(* as types and the path of an open upload are right.                      *)
LEMMA Answered ==
  ASSUME TypeOK', OpenUploadIsMainnet', view' = "idle", reply' # None
  PROVE  Inv'
  BY DEF Inv, ReviewOwnsGlobals, AnswerOwedIffReview

LEMMA InvInit == Init => Inv
<1> SUFFICES ASSUME Init PROVE Inv
  OBVIOUS
<1>1. Ack # None
  BY AnswersAreReplies
<1> QED
  BY <1>1, TypeInit DEF Init, Inv, ReviewOwnsGlobals, AnswerOwedIffReview,
                       OpenUploadIsMainnet

(* Every button leaves the screen and sends an answer.                     *)
LEMMA DecisionsAnswer ==
  ASSUME TypeOK, UserDecides
  PROVE  view' = "idle" /\ reply' # None
<1>1. ASSUME NEW sw \in Errors, Send(Refusal(sw)) PROVE reply' # None
  BY <1>1, AnswersAreReplies DEF Send
<1>2. CASE AppSign
  BY <1>1, <1>2, AnswersAreReplies DEF AppSign, Leave, Send, Errors, TypeOK
<1>3. CASE AppReject
  BY <1>1, <1>3 DEF AppReject, Leave, Errors
<1>4. CASE AppReplyAddress
  BY <1>4, AnswersAreReplies DEF AppReplyAddress, Leave, TypeOK
<1>5. CASE AppReplyError
  BY <1>1, <1>5 DEF AppReplyError, Leave, Errors
<1> QED
  BY <1>2, <1>3, <1>4, <1>5 DEF UserDecides

(* What the device does of its own accord keeps Inv, with any host.        *)
OwnStep == UserDecides \/ ItemNotShown \/ IoReset \/ Restart \/ UNCHANGED vars

LEMMA InvOwnStep == Inv /\ OwnStep => Inv'
<1> SUFFICES ASSUME Inv, OwnStep PROVE Inv'
  OBVIOUS
<1>a. TypeOK'
  BY TypeStep DEF Inv, OwnStep, Next
<1>b. OpenUploadIsMainnet'
  BY MainnetStep DEF Inv, OwnStep, Next
<1>9. CASE UserDecides
  BY <1>9, <1>a, <1>b, DecisionsAnswer, Answered DEF Inv
<1>10. CASE ItemNotShown
  BY <1>10, <1>a, <1>b
  DEF ItemNotShown, Inv, ReviewOwnsGlobals, AnswerOwedIffReview
<1>11. CASE IoReset
  BY <1>11, <1>a, <1>b, Answered, AnswersAreReplies DEF IoReset, Send
<1>12. CASE Restart
  BY <1>12, <1>a, <1>b, Answered, AnswersAreReplies DEF Restart, Send
<1>13. CASE UNCHANGED vars
  BY <1>13, <1>a, <1>b
  DEF vars, Inv, ReviewOwnsGlobals, AnswerOwedIffReview
<1> QED
  BY <1>9, <1>10, <1>11, <1>12, <1>13 DEF OwnStep

(* A command keeps Inv if it finds no screen up.                           *)
LEMMA InvStep ==
  (HostsWait \/ reply # None \/ OwnStep) /\ Inv /\ [Next]_vars => Inv'
<1> SUFFICES ASSUME HostsWait \/ reply # None, Inv, [Next]_vars PROVE Inv'
  BY InvOwnStep
<1>a. TypeOK'
  BY TypeStep DEF Inv
<1>b. OpenUploadIsMainnet'
  BY MainnetStep DEF Inv
<1>c. CommandArrives => view = "idle"
  BY DEF Inv, AnswerOwedIffReview, CommandArrives
<1>d. ASSUME NEW sw \in Errors, Send(Refusal(sw)) PROVE reply' # None
  BY <1>d, AnswersAreReplies DEF Send
<1>1. CASE HandleGetVersion
  BY <1>1, <1>a, <1>b, <1>c, Answered, AnswersAreReplies
  DEF HandleGetVersion, Send
<1>2. CASE RefuseCommand
  <2>1. reply' # None
    BY <1>2, <1>d DEF RefuseCommand, Errors
  <2> QED
    BY <1>2, <2>1, <1>a, <1>b, <1>c, Answered DEF RefuseCommand
<1>3. ASSUME NEW p \in Path \cup {Truncated}, HandleGetAddr(p)
      PROVE  Inv'
  <2>0. view = "idle"
    BY <1>3, <1>c DEF HandleGetAddr
  <2>1. CASE GetAddrRefused(p)
    <3>1. PICK sw \in Errors : Send(Refusal(sw))
      BY <2>1 DEF GetAddrRefused
    <3> QED
      BY <2>0, <2>1, <3>1, <1>a, <1>b, <1>d, Answered DEF GetAddrRefused
  <2>2. CASE GetAddrFails(p)
    <3>1. reply' # None
      BY <2>2, <1>d DEF GetAddrFails, Errors
    <3> QED
      BY <2>0, <2>2, <3>1, <1>a, <1>b, Answered DEF GetAddrFails
  <2>3. CASE GetAddrAnswered(p)
    <3>1. reply' # None
      BY <2>3, <1>a, AnswersAreReplies DEF GetAddrAnswered, TypeOK
    <3> QED
      BY <2>0, <2>3, <3>1, <1>a, <1>b, Answered DEF GetAddrAnswered
  <2>4. CASE GetAddrReviewed(p)
    <3>1. hdPath' = p /\ p \in Mainnet
      BY <2>4, ExtractHDPathPost DEF GetAddrReviewed, Inv, TypeOK
    <3>2. ReviewOwnsGlobals' /\ AnswerOwedIffReview'
      BY <1>3, <2>4, <3>1 DEF HandleGetAddr, GetAddrReviewed,
                              ReviewOwnsGlobals, AnswerOwedIffReview
    <3> QED
      BY <3>2, <1>a, <1>b DEF Inv
  <2> QED
    BY <1>3, <2>1, <2>2, <2>3, <2>4 DEF HandleGetAddr
<1>4. ASSUME NEW p \in Path \cup {Truncated}, SignInit(p)
      PROVE  Inv'
  <2>1. reply' # None
    BY <1>4, <1>d, AnswersAreReplies DEF SignInit, Send
  <2> QED
    BY <1>4, <2>1, <1>a, <1>b, <1>c, Answered DEF SignInit
<1>5. CASE SignNotInitialized
  <2>1. reply' # None
    BY <1>5, <1>d DEF SignNotInitialized, Errors
  <2> QED
    BY <1>5, <2>1, <1>a, <1>b, <1>c, Answered DEF SignNotInitialized
<1>6. ASSUME NEW d \in Payload, SignTooLong(d)
      PROVE  Inv'
  <2>1. reply' # None
    BY <1>6, <1>d DEF SignTooLong, Errors
  <2> QED
    BY <1>6, <2>1, <1>a, <1>b, <1>c, Answered DEF SignTooLong
<1>7. ASSUME NEW d \in Payload, SignAdd(d)
      PROVE  Inv'
  BY <1>7, <1>a, <1>b, <1>c, Answered, AnswersAreReplies DEF SignAdd, Send
<1>8. ASSUME NEW d \in Payload, SignLast(d)
      PROVE  Inv'
  <2>1. CASE txBuffer' \notin AcceptedTx
    <3>1. reply' # None /\ view' = view
      BY <1>8, <2>1, <1>d DEF SignLast, SignLastParsed, Errors
    <3> QED
      BY <1>8, <3>1, <1>a, <1>b, <1>c, Answered DEF SignLast, SignLastParsed
  <2>2. CASE txBuffer' \in AcceptedTx
    <3>1. hdPath \in Mainnet
      BY <1>8 DEF SignLast, SignLastParsed, Inv, OpenUploadIsMainnet
    <3>2. ReviewOwnsGlobals' /\ AnswerOwedIffReview'
      BY <1>8, <2>2, <3>1
      DEF SignLast, SignLastParsed, ReviewOwnsGlobals, AnswerOwedIffReview
    <3> QED
      BY <3>2, <1>a, <1>b DEF Inv
  <2> QED
    BY <2>1, <2>2
<1>9. CASE OwnStep
  BY <1>9, InvOwnStep
<1> QED
  BY <1>1, <1>2, <1>3, <1>4, <1>5, <1>6, <1>7, <1>8, <1>9 DEF Next, OwnStep

LEMMA InvAlways ==
  ASSUME HostsWait
  PROVE  Spec => []Inv
<1>1. Inv /\ [Next]_vars => Inv'
  BY InvStep
<1> QED
  BY <1>1, InvInit, PTL DEF Spec

(* As long as the host waits for its answers, nothing a review callback    *)
(* will read can change under the review.                                  *)
THEOREM ReviewsOwnTheirGlobals ==
  ASSUME HostsWait
  PROVE  Spec => []ReviewOwnsGlobals
<1>1. Inv => ReviewOwnsGlobals
  BY DEF Inv
<1> QED
  BY <1>1, InvAlways, PTL

(* As long as the host waits for its answers, it is owed one exactly while *)
(* there is a screen whose callbacks will send it.                         *)
THEOREM AnswersAreOwedToReviews ==
  ASSUME HostsWait
  PROVE  Spec => []AnswerOwedIffReview
<1>1. Inv => AnswerOwedIffReview
  BY DEF Inv
<1> QED
  BY <1>1, InvAlways, PTL

-----------------------------------------------------------------------------
(* The app implements SigningSession. *)

(* What the session sees of the app's state.                               *)
LEMMA ScreenSeen ==
  /\ view = "idle" => Screen = None
  /\ view = "address" => Screen = AddressReview(G_io_apdu_buffer)
  /\ view \in {"txn", "error"} => Screen = TxReview(hdPath, ctx_parsed_tx)
  BY DEF Screen

LEMMA ScreenSeenNext ==
  /\ view' = "idle" => Screen' = None
  /\ view' = "address" => Screen' = AddressReview(G_io_apdu_buffer)'
  /\ view' \in {"txn", "error"} => Screen' = TxReview(hdPath, ctx_parsed_tx)'
  BY DEF Screen

LEMMA ReviewsAreSomething ==
  ASSUME NEW p \in Path, NEW t \in Seq(Byte)
  PROVE  /\ TxReview(p, t) # None
         /\ AddressReview(p) # None
         /\ [path |-> p, text |-> t] # None
<1>1. /\ TxReview(p, t) \in Reviews
      /\ [path |-> p, text |-> t] \in Uploads
  BY DEF TxReview, Reviews, Uploads
<1>2. <<>> \in Seq(Byte)
  OBVIOUS
<1>3. AddressReview(p) \in Reviews
  BY <1>2 DEF AddressReview, Reviews
<1> QED
  BY <1>1, <1>3, ConstantsAssumption

(* The session and the app speak of the same answers and reviews.          *)
LEMMA SameWords ==
  /\ Session!Ack = Ack /\ Session!Version = Version
  /\ Session!Errors = Errors
  /\ \A sw : Session!Refusal(sw) = Refusal(sw)
  /\ \A p : Session!Address(p) = Address(p)
  /\ \A p, t : Session!Signature(p, t) = Signature(p, t)
  /\ \A p, t : Session!TxReview(p, t) = TxReview(p, t)
  /\ \A p : Session!AddressReview(p) = AddressReview(p)
  BY DEF Session!Ack, Ack, Session!Version, Version, Session!Errors, Errors,
         Session!Refusal, Refusal, Session!Address, Address,
         Session!Signature, Signature, Session!TxReview, TxReview,
         Session!AddressReview, AddressReview, Session!Answer, Answer

LEMMA SessionInit == Init => Session!Init
<1> SUFFICES ASSUME Init PROVE Session!Init
  OBVIOUS
<1> QED
  BY ScreenSeen, SameWords DEF Init, Session!Init, OpenUpload

LEMMA SessionStep ==
  HostsWait /\ Inv /\ Inv' /\ [Next]_vars => [Session!Next]_(Session!vars)
<1> SUFFICES ASSUME HostsWait, Inv, Inv', [Next]_vars
             PROVE  [Session!Next]_(Session!vars)
  OBVIOUS
<1> USE DEF Session!Free
<1>t. /\ TypeOK /\ TypeOK'
      /\ Mainnet \subseteq Path
  BY ConstantsAssumption DEF Inv
<1>c. CommandArrives => view = "idle" /\ Session!Free
  BY NoCommandDuringReview, ScreenSeen DEF Inv
<1>i. ASSUME view = "idle", view' = view PROVE Screen' = Screen
  BY <1>i, ScreenSeen, ScreenSeenNext
<1>n. OpenUpload # None <=> tx_initialized
  BY <1>t, ReviewsAreSomething DEF OpenUpload, Inv, OpenUploadIsMainnet, TypeOK
(* A refusal that leaves the screen idle, and the upload alone or closed.  *)
<1>r. ASSUME NEW sw \in Errors, sw # "OUTPUT_BUFFER_TOO_SMALL",
             CommandArrives, view' = view,
             OpenUpload' \in {OpenUpload, None}, reply' = Refusal(sw)
      PROVE  Session!Next
  <2>1. Session!Refuse(sw)
    BY <1>c, <1>i, <1>r, SameWords DEF Session!Refuse
  <2> QED
    BY <2>1, SameWords DEF Session!Next
<1>1. CASE HandleGetVersion
  <2>1. Session!TellVersion
    BY <1>1, <1>c, <1>i, SameWords
    DEF HandleGetVersion, Send, Session!TellVersion, OpenUpload
  <2> QED
    BY <2>1 DEF Session!Next
<1>2. CASE RefuseCommand
  <2>1. PICK sw \in {"CLA_NOT_SUPPORTED", "WRONG_LENGTH", "INS_NOT_SUPPORTED",
                     "COMMAND_NOT_ALLOWED", "INVALIDP1P2"} :
          Send(Refusal(sw))
    BY <1>2 DEF RefuseCommand
  <2> QED
    BY <1>2, <2>1, <1>r DEF RefuseCommand, Send, OpenUpload, Errors
<1>3. ASSUME NEW p \in Path \cup {Truncated}, HandleGetAddr(p)
      PROVE  Session!Next
  <2>0. OpenUpload' = None /\ CommandArrives
    BY <1>3 DEF HandleGetAddr, OpenUpload
  <2>1. CASE GetAddrRefused(p)
    <3>1. PICK sw \in Errors : ExtractHDPath(p, sw) /\ Send(Refusal(sw))
      BY <2>1 DEF GetAddrRefused
    <3>2. sw # "OUTPUT_BUFFER_TOO_SMALL"
      BY <3>1 DEF ExtractHDPath
    <3> QED
      BY <2>0, <2>1, <3>1, <3>2, <1>r DEF GetAddrRefused, Send
  <2>2. CASE GetAddrFails(p)
    BY <2>0, <2>2, <1>r DEF GetAddrFails, Send, Errors
  <2>3. CASE GetAddrAnswered(p)
    <3>1. hdPath' = p /\ p \in Mainnet
      BY <2>3, <1>t, ExtractHDPathPost DEF GetAddrAnswered, TypeOK
    <3>2. Session!TellAddress(p)
      BY <2>0, <2>3, <3>1, <1>c, <1>i, SameWords
      DEF GetAddrAnswered, Session!TellAddress
    <3> QED
      BY <3>1, <3>2 DEF Session!Next
  <2>4. CASE GetAddrReviewed(p)
    <3>1. hdPath' = p /\ p \in Mainnet
      BY <2>4, <1>t, ExtractHDPathPost DEF GetAddrReviewed, TypeOK
    <3>2. Screen' = AddressReview(p)
      BY <2>4, <3>1, ScreenSeenNext DEF GetAddrReviewed, AddressReview
    <3>3. Session!AskForAddress(p)
      BY <2>0, <2>4, <3>2, <1>c, SameWords
      DEF GetAddrReviewed, Session!AskForAddress
    <3> QED
      BY <3>1, <3>3 DEF Session!Next
  <2> QED
    BY <1>3, <2>1, <2>2, <2>3, <2>4 DEF HandleGetAddr
<1>4. ASSUME NEW p \in Path \cup {Truncated}, SignInit(p)
      PROVE  Session!Next
  <2>1. CASE ExtractHDPath(p, "OK") /\ tx_initialized' = TRUE /\ Send(Ack)
    <3>1. hdPath' = p /\ p \in Mainnet
      BY <2>1, <1>t, ExtractHDPathPost DEF TypeOK
    <3>2. OpenUpload' = [path |-> p, text |-> <<>>]
      BY <1>4, <2>1, <3>1 DEF SignInit, OpenUpload
    <3>3. Session!Begin(p)
      BY <1>4, <2>1, <3>2, <1>c, <1>i, SameWords
      DEF SignInit, Send, Session!Begin
    <3> QED
      BY <3>1, <3>3 DEF Session!Next
  <2>2. ASSUME NEW sw \in Errors, ExtractHDPath(p, sw), Send(Refusal(sw)),
               tx_initialized' = FALSE
        PROVE  Session!Next
    <3>1. sw # "OUTPUT_BUFFER_TOO_SMALL"
      BY <2>2 DEF ExtractHDPath
    <3> QED
      BY <1>4, <2>2, <3>1, <1>r DEF SignInit, Send, OpenUpload
  <2> QED
    BY <1>4, <2>1, <2>2 DEF SignInit
<1>5. CASE SignNotInitialized
  BY <1>5, <1>r DEF SignNotInitialized, Send, OpenUpload, Errors
<1>6. ASSUME NEW d \in Payload, SignTooLong(d)
      PROVE  Session!Next
  <2>1. Session!Overflow
    BY <1>6, <1>c, <1>i, <1>n, SameWords
    DEF SignTooLong, Send, Session!Overflow, OpenUpload
  <2> QED
    BY <2>1 DEF Session!Next
<1>7. ASSUME NEW d \in Payload, SignAdd(d)
      PROVE  Session!Next
  <2>1. /\ OpenUpload = [path |-> hdPath, text |-> txBuffer]
        /\ OpenUpload' = [path |-> hdPath, text |-> txBuffer \o d]
    BY <1>7 DEF SignAdd, OpenUpload
  <2>2. Session!Extend(d)
    BY <1>7, <2>1, <1>c, <1>i, <1>n, SameWords, SMTT(30)
    DEF SignAdd, Send, Session!Extend
  <2> QED
    BY <2>2 DEF Session!Next
<1>8. ASSUME NEW d \in Payload, SignLast(d)
      PROVE  Session!Next
  <2>1. CASE txBuffer' \notin AcceptedTx
    BY <1>8, <2>1, <1>r DEF SignLast, SignLastParsed, Send, OpenUpload, Errors
  <2>2. CASE txBuffer' \in AcceptedTx
    <3>1. /\ OpenUpload = [path |-> hdPath, text |-> txBuffer]
          /\ OpenUpload' = None
      BY <1>8 DEF SignLast, SignLastParsed, OpenUpload
    <3>2. Screen' = TxReview(hdPath, txBuffer \o d)
      BY <1>8, <2>2, ScreenSeenNext DEF SignLast, SignLastParsed, TxReview
    <3>3. Session!Finish(d)
      BY <1>8, <2>2, <3>1, <3>2, <1>c, <1>n, SameWords
      DEF SignLast, SignLastParsed, Session!Finish
    <3> QED
      BY <3>3 DEF Session!Next
  <2> QED
    BY <2>1, <2>2
<1>9. CASE UserDecides
  <2>1. view \in {"txn", "address", "error"} => Screen # None
    BY <1>t, ScreenSeen, ReviewsAreSomething
    DEF Inv, ReviewOwnsGlobals, TypeOK
  <2>2. ASSUME NEW screens, Leave(screens)
        PROVE  Screen' = None /\ OpenUpload' = OpenUpload
    BY <2>2, ScreenSeenNext DEF Leave, OpenUpload
  <2>3. ASSUME NEW sw \in Errors, Session!Decline(sw) PROVE Session!Next
    BY <2>3, SameWords DEF Session!Next
  <2>4. CASE AppSign
    <3>1. Screen = TxReview(hdPath, txBuffer)
      BY <2>4, ScreenSeen DEF AppSign, Leave, Inv, ReviewOwnsGlobals
    <3>2. CASE Send(Signature(hdPath, txBuffer))
      <4>1. Session!Approve
        BY <2>1, <2>2, <2>4, <3>1, <3>2, SameWords
        DEF AppSign, Leave, Send, Session!Approve, TxReview
      <4> QED
        BY <4>1 DEF Session!Next
    <3>3. CASE Send(Refusal("SIGN_VERIFY_ERROR"))
      BY <2>1, <2>2, <2>3, <2>4, <3>3, SameWords
      DEF AppSign, Leave, Send, Session!Decline, Errors
    <3> QED
      BY <2>4, <3>2, <3>3 DEF AppSign
  <2>5. CASE AppReject
    BY <2>1, <2>2, <2>3, <2>5, SameWords
    DEF AppReject, Leave, Send, Session!Decline, Errors
  <2>6. CASE AppReplyAddress
    <3>1. /\ Screen = AddressReview(G_io_apdu_buffer)
          /\ reply' = Address(G_io_apdu_buffer)
      BY <2>6, ScreenSeen
      DEF AppReplyAddress, Leave, Inv, ReviewOwnsGlobals, AddrResponseLen
    <3>2. Session!Approve
      BY <2>1, <2>2, <2>6, <3>1, SameWords
      DEF AppReplyAddress, Leave, Session!Approve, AddressReview
    <3> QED
      BY <3>2 DEF Session!Next
  <2>7. CASE AppReplyError
    BY <2>1, <2>2, <2>3, <2>7, SameWords
    DEF AppReplyError, Leave, Send, Session!Decline, Errors
  <2> QED
    BY <1>9, <2>4, <2>5, <2>6, <2>7 DEF UserDecides
<1>10. CASE ItemNotShown
  <2>1. Screen' = Screen /\ OpenUpload' = OpenUpload /\ reply' = reply
    BY <1>10, ScreenSeen, ScreenSeenNext
    DEF ItemNotShown, OpenUpload, TxReview
  <2> QED
    BY <2>1 DEF Session!vars
<1>11. CASE IoReset
  <2>1. Session!Interrupt
    BY <1>11, ScreenSeenNext, SameWords
    DEF IoReset, Send, Session!Interrupt, OpenUpload
  <2> QED
    BY <2>1 DEF Session!Next
<1>12. CASE Restart
  <2>1. Session!Interrupt
    BY <1>12, ScreenSeenNext, SameWords
    DEF Restart, Send, Session!Interrupt, OpenUpload
  <2> QED
    BY <2>1 DEF Session!Next
<1>13. CASE UNCHANGED vars
  <2>1. Screen' = Screen /\ OpenUpload' = OpenUpload /\ reply' = reply
    BY <1>13 DEF vars, Screen, OpenUpload, AddressReview, TxReview
  <2> QED
    BY <2>1 DEF Session!vars
<1> QED
  BY <1>1, <1>2, <1>3, <1>4, <1>5, <1>6, <1>7, <1>8, <1>9, <1>10, <1>11,
     <1>12, <1>13 DEF Next

(* With a host that waits for its answers the app is a signing session:    *)
(* every signature is over the text the user was shown and by the key of   *)
(* the path it was uploaded under, and every reviewed address is the one   *)
(* that was on the screen.                                                 *)
THEOREM AppIsASession ==
  ASSUME HostsWait
  PROVE  Spec => Implements
<1>1. Inv /\ Inv' /\ [Next]_vars => [Session!Next]_(Session!vars)
  BY SessionStep
<1> QED
  BY <1>1, SessionInit, InvAlways, PTL DEF Spec, Implements, Session!Spec
=============================================================================
