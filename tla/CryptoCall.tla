----------------------------- MODULE CryptoCall -----------------------------
(***************************************************************************)
(* What ApduApp assumes of a signature or of an address: the whole call is *)
(* one step, which gives the answer that was asked for or an error, and    *)
(* nothing in between.  KeyUse, the calls one by one, implements it.       *)
(***************************************************************************)
EXTENDS Answers

CONSTANTS
  hdPath,     \* the path of the key
  message     \* the text to sign

VARIABLES
  job,        \* "sign" or "address"
  answer      \* None until it is sent

vars == <<job, answer>>

Outcomes ==
  [sign    |-> {Signature(hdPath, message), Refusal("SIGN_VERIFY_ERROR")},
   address |-> {Address(hdPath), Refusal("EXECUTION_ERROR"),
                Refusal("COMMAND_NOT_ALLOWED")}]

Init == job \in {"sign", "address"} /\ answer = None

Next == /\ answer = None
        /\ answer' \in Outcomes[job]
        /\ UNCHANGED job

Spec == Init /\ [][Next]_vars
=============================================================================
