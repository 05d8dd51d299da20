------------------------------- MODULE Answers -------------------------------
(***************************************************************************)
(* The answers of the Matrix AI app and what it can ask the user to        *)
(* approve.  An answer has a status word and, when the status is OK, what  *)
(* the host uses of it: for an address the path it belongs to, for a       *)
(* signature the path of the key and the text that was hashed.             *)
(***************************************************************************)
CONSTANT None    \* "not set"

Errors == {"WRONG_LENGTH", "DATA_INVALID", "TX_NOT_INITIALIZED",
           "OUTPUT_BUFFER_TOO_SMALL", "INVALIDP1P2", "INS_NOT_SUPPORTED",
           "CLA_NOT_SUPPORTED", "COMMAND_NOT_ALLOWED", "EXECUTION_ERROR",
           "SIGN_VERIFY_ERROR"}

Answer(sw, kind, p, t) == [sw |-> sw, kind |-> kind, path |-> p, text |-> t]

Refusal(sw)     == Answer(sw, "empty", None, <<>>)
Ack             == Answer("OK", "empty", None, <<>>)
Version         == Answer("OK", "version", None, <<>>)
Address(p)      == Answer("OK", "address", p, <<>>)
Signature(p, t) == Answer("OK", "signature", p, t)

TxReview(p, t)   == [kind |-> "txn", path |-> p, text |-> t]
AddressReview(p) == [kind |-> "address", path |-> p, text |-> <<>>]
==============================================================================
