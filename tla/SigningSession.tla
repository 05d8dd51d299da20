--------------------------- MODULE SigningSession ---------------------------
(***************************************************************************)
(* What the Matrix AI app promises to a host and to its user, told without *)
(* the app's global variables: a transaction is uploaded in pieces under   *)
(* one derivation path, is shown to the user only when it is complete and  *)
(* accepted, stays the same while it is shown, and what the user approves  *)
(* is what gets signed.  ApduApp, the model of the code, implements this   *)
(* specification.                                                          *)
(***************************************************************************)
EXTENDS Sequences, Answers

CONSTANTS
  Mainnet,     \* derivation paths under 44'/318'
  Payload,     \* blocks of transaction bytes a command can carry
  AcceptedTx   \* texts that tx_parse accepts

VARIABLES
  upload,      \* the open upload: its path and the text received, or None
  review,      \* what the user is asked to approve, or None
  answer       \* the last answer; None while the host waits for the user

vars == <<upload, review, answer>>

Init == upload = None /\ review = None /\ answer = Ack

(* Nothing is being asked of the user, so a command can be served.         *)
Free == review = None

-----------------------------------------------------------------------------
(* Commands served at once. *)

Begin(p) == /\ Free
            /\ upload' = [path |-> p, text |-> <<>>]
            /\ answer' = Ack
            /\ UNCHANGED review

Extend(d) == /\ Free /\ upload # None
             /\ upload' = [upload EXCEPT !.text = @ \o d]
             /\ answer' = Ack
             /\ UNCHANGED review

(* A block that finds no room ends the upload: no text with a hole in it.  *)
Overflow == /\ Free /\ upload # None
            /\ upload' = None
            /\ answer' = Refusal("OUTPUT_BUFFER_TOO_SMALL")
            /\ UNCHANGED review

(* Any other refusal leaves the open upload alone or abandons it.          *)
Refuse(sw) == /\ Free
              /\ sw # "OUTPUT_BUFFER_TOO_SMALL"
              /\ upload' \in {upload, None}
              /\ answer' = Refusal(sw)
              /\ UNCHANGED review

TellVersion == Free /\ answer' = Version /\ UNCHANGED <<upload, review>>

(* An address request abandons the upload: the path it names is another.   *)
TellAddress(p) == /\ Free
                  /\ upload' = None
                  /\ answer' = Address(p)
                  /\ UNCHANGED review

-----------------------------------------------------------------------------
(* Commands that need the user. *)

AskForAddress(p) == /\ Free
                    /\ upload' = None
                    /\ review' = AddressReview(p)
                    /\ answer' = None

Finish(d) == /\ Free /\ upload # None
             /\ upload.text \o d \in AcceptedTx
             /\ review' = TxReview(upload.path, upload.text \o d)
             /\ upload' = None
             /\ answer' = None

(* The answer is made from what was shown, and from nothing else.          *)
Approve == /\ review # None
           /\ review' = None
           /\ answer' = IF review.kind = "txn"
                        THEN Signature(review.path, review.text)
                        ELSE Address(review.path)
           /\ UNCHANGED upload

Decline(sw) == /\ review # None
               /\ review' = None
               /\ answer' = Refusal(sw)
               /\ UNCHANGED upload

(* The link is reset or the app restarted: the review is gone.             *)
Interrupt == /\ review' = None
             /\ upload' \in {upload, None}
             /\ answer' = Ack

Next == \/ \E p \in Mainnet : Begin(p) \/ TellAddress(p) \/ AskForAddress(p)
        \/ \E d \in Payload : Extend(d) \/ Finish(d)
        \/ \E sw \in Errors : Refuse(sw) \/ Decline(sw)
        \/ Overflow \/ TellVersion \/ Approve \/ Interrupt

Spec == Init /\ [][Next]_vars
=============================================================================
