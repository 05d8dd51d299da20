------------------------------- MODULE KeyUse -------------------------------
(***************************************************************************)
(* A key in use (app/src/crypto.c, crypto_helper.c): crypto_sign and       *)
(* crypto_fillAddress call the SDK step by step, each call may fail and    *)
(* leave its output half written, and the key material is on the stack     *)
(* meanwhile.  The callers in common/actions.h send what is then in the    *)
(* command buffer, up to the length that was computed.                     *)
(***************************************************************************)
EXTENDS Integers, Answers

CONSTANTS
  hdPath,       \* the path of the key
  message,      \* the text to sign
  DerLens,      \* lengths of a DER signature
  Base58Lens    \* lengths of an address in base 58

SECP256K1_PUBKEY_LEN           == 65
SECP256K1_DER_SIGNATURE_MAXLEN == 73
IO_APDU_BUFFER_SIZE            == 260
RSV_SIGNATURE_LEN              == 65    \* r, s and v of signature_t
PrefixLen                      == 4     \* "MAN."
ADDRESS_LEN                    == 50    \* the room crypto_fillAddress asks for

(* Twenty bytes take at most 28 digits of base 58.                         *)
ASSUME LengthAssumption ==
  /\ DerLens \subseteq 1..SECP256K1_DER_SIGNATURE_MAXLEN
  /\ Base58Lens \subseteq 1..28

VARIABLES
  job,               \* "sign" or "address"
  pc,                \* the call to make next
  privateKeyData, cx_privateKey, messageDigest,    \* on the stack
  ok,                \* err is zxerr_ok
  responseLen,       \* signatureLength or action_addrResponseLen
  G_io_apdu_buffer,  \* byte by byte: what each was written as
  tx                 \* the number of bytes sent

stack == <<privateKeyData, cx_privateKey, messageDigest>>
vars  == <<job, pc, stack, ok, responseLen, G_io_apdu_buffer, tx>>

(* A value is known by what it is and what it was made of.                 *)
Thing(is, of) == [is |-> is, of |-> of]

Zero    == Thing("zero", None)       \* cleared
Stale   == Thing("stale", None)      \* from before the call
Partial == Thing("partial", None)    \* left by a call that failed

Seed        == Thing("seed", hdPath)
Key(seed)   == Thing("key", seed)
Pubkey(key) == Thing("pubkey", key)
Digest(m)   == Thing("digest", m)
Base58(h)   == Thing("base58", h)
Code(sw)    == Thing("sw", sw)
SigPart(part, key, digest) == Thing(part, [key |-> key, digest |-> digest])

Write(from, len, byte) ==
  [i \in DOMAIN G_io_apdu_buffer |->
     IF i \in from..(from + len - 1) THEN byte ELSE G_io_apdu_buffer[i]]

Filled(byte) == [i \in 0..(IO_APDU_BUFFER_SIZE - 1) |-> byte]

(* app_sign leaves the buffer as it is, app_fill_address clears it.        *)
Init ==
  /\ job \in {"sign", "address"}
  /\ pc = "derive"
  /\ privateKeyData = Zero
  /\ cx_privateKey = IF job = "sign" THEN Stale ELSE Zero
  /\ messageDigest = Zero
  /\ ok = FALSE
  /\ responseLen = IF job = "sign" THEN SECP256K1_DER_SIGNATURE_MAXLEN ELSE 0
  /\ G_io_apdu_buffer = Filled(IF job = "sign" THEN Stale ELSE Zero)
  /\ tx = 0

-----------------------------------------------------------------------------
(* The calls under CATCH_CXERROR: the first that fails goes to             *)
(* catch_cx_error, whatever it left in its output.                         *)

CxCall(from, next) ==
  /\ pc = from
  /\ pc' = next
  /\ UNCHANGED <<job, ok, tx>>

Fails(from) == CxCall(from, "catch")

Derive ==
  /\ \/ CxCall("derive", "initkey") /\ privateKeyData' = Seed
     \/ Fails("derive") /\ privateKeyData' \in {Zero, Partial}
  /\ UNCHANGED <<cx_privateKey, messageDigest, responseLen, G_io_apdu_buffer>>

InitPrivateKey ==
  /\ \/ /\ CxCall("initkey", IF job = "sign" THEN "hash" ELSE "pair")
        /\ cx_privateKey' = Key(privateKeyData)
     \/ Fails("initkey") /\ cx_privateKey' \in {cx_privateKey, Partial}
  /\ UNCHANGED <<privateKeyData, messageDigest, responseLen, G_io_apdu_buffer>>

(* The two calls of the hash, the first of which has no output of use.     *)
HashMessage ==
  /\ \/ CxCall("hash", "ecdsa") /\ messageDigest' = Digest(message)
     \/ Fails("hash") /\ messageDigest' \in {Zero, Partial}
  /\ UNCHANGED <<privateKeyData, cx_privateKey, responseLen, G_io_apdu_buffer>>

EcdsaSign ==
  /\ \/ /\ CxCall("ecdsa", "convert")
        /\ responseLen' \in DerLens
        /\ G_io_apdu_buffer' = Write(RSV_SIGNATURE_LEN, responseLen',
                             SigPart("der", cx_privateKey, messageDigest))
     \/ /\ Fails("ecdsa")
        /\ G_io_apdu_buffer' = Write(RSV_SIGNATURE_LEN,
                                SECP256K1_DER_SIGNATURE_MAXLEN, Partial)
        /\ UNCHANGED responseLen
  /\ UNCHANGED stack

(* convertDERtoRSV reads the DER signature back.                           *)
Rsv(der) ==
  [i \in DOMAIN G_io_apdu_buffer |->
     CASE i \in 0..31  -> Thing("r", der.of)
       [] i \in 32..63 -> Thing("s", der.of)
       [] i = 64       -> Thing("v", der.of)
       [] OTHER        -> G_io_apdu_buffer[i]]

(* A wrong variant: the whole structure is added to the length, with the   *)
(* room for a DER signature that it has.                                   *)
ConvertDERtoRSVWhole ==
  /\ pc = "convert"
  /\ pc' = "catch"
  /\ G_io_apdu_buffer' = Rsv(G_io_apdu_buffer[RSV_SIGNATURE_LEN])
  /\ responseLen' = RSV_SIGNATURE_LEN + SECP256K1_DER_SIGNATURE_MAXLEN
                      + responseLen
  /\ ok' = TRUE
  /\ UNCHANGED <<job, stack, tx>>

ConvertDERtoRSV ==
  /\ pc = "convert"
  /\ pc' = "catch"
  /\ \/ /\ G_io_apdu_buffer' = Rsv(G_io_apdu_buffer[RSV_SIGNATURE_LEN])
        /\ responseLen' = RSV_SIGNATURE_LEN + responseLen
        /\ ok' = TRUE
     \/ /\ G_io_apdu_buffer' = Write(0, RSV_SIGNATURE_LEN, Partial)
        /\ UNCHANGED <<responseLen, ok>>
  /\ UNCHANGED <<job, stack, tx>>

(* cx_ecfp_init_public_key and cx_ecfp_generate_pair, then the copy.       *)
GeneratePair ==
  /\ pc = "pair"
  /\ pc' = "catch"
  /\ \/ /\ G_io_apdu_buffer' = Write(0, SECP256K1_PUBKEY_LEN,
                                     Pubkey(cx_privateKey))
        /\ ok' = TRUE
     \/ UNCHANGED <<G_io_apdu_buffer, ok>>
  /\ UNCHANGED <<job, stack, responseLen, tx>>

(* A wrong variant: after an error the keys stay on the stack.             *)
CatchCxErrorEarly ==
  /\ pc = "catch"
  /\ pc' = IF job = "sign" \/ ~ok THEN "reply" ELSE "encode"
  /\ IF ~ok THEN UNCHANGED <<cx_privateKey, privateKeyData>>
             ELSE cx_privateKey' = Zero /\ privateKeyData' = Zero
  /\ UNCHANGED <<job, messageDigest, ok, responseLen, G_io_apdu_buffer, tx>>

(* catch_cx_error clears the keys on every way out.                        *)
CatchCxError ==
  /\ pc = "catch"
  /\ pc' = IF job = "sign" \/ ~ok THEN "reply" ELSE "encode"
  /\ cx_privateKey' = Zero
  /\ privateKeyData' = Zero
  /\ UNCHANGED <<job, messageDigest, ok, responseLen, G_io_apdu_buffer, tx>>

-----------------------------------------------------------------------------
(* The address, after the public key. *)

(* The prefix, the last twenty bytes of the public key's hash in base 58,  *)
(* a check character over both, and a zero.                                *)
Text(n) == [i \in 1..(PrefixLen + n) |->
              IF i <= PrefixLen THEN Thing("prefix", None)
              ELSE Base58(Digest(G_io_apdu_buffer[1]))]

(* A wrong variant: the length counts the termination.                     *)
AddressLenLong(n) == PrefixLen + n + 2

AddressLen(n) == PrefixLen + n + 1

Encoded(n) ==
  [i \in DOMAIN G_io_apdu_buffer |->
     LET k == i - SECP256K1_PUBKEY_LEN + 1 IN
     CASE k \in DOMAIN Text(n)  -> Text(n)[k]
       [] k = PrefixLen + n + 1 -> Thing("crc", Text(n))
       [] k = PrefixLen + n + 2 -> Zero
       [] OTHER                 -> G_io_apdu_buffer[i]]

EncodePubkey ==
  /\ pc = "encode"
  /\ pc' = "reply"
  /\ \/ \E n \in Base58Lens :
          /\ responseLen' = SECP256K1_PUBKEY_LEN + AddressLen(n)
          /\ G_io_apdu_buffer' = Encoded(n)
          /\ UNCHANGED ok
     \/ /\ G_io_apdu_buffer' = Filled(Zero)
        /\ ok' = FALSE
        /\ UNCHANGED responseLen
  /\ UNCHANGED <<job, stack, tx>>

-----------------------------------------------------------------------------
(* The callers. *)

Send(len, sw) ==
  /\ pc' = "sent"
  /\ G_io_apdu_buffer' = Write(len, 2, Code(sw))
  /\ tx' = len + 2
  /\ UNCHANGED <<job, stack, ok, responseLen>>

(* A wrong variant: the length is not taken back after a failure.          *)
ReplyFailureLong ==
  /\ pc = "reply"
  /\ ~ok
  /\ Send(responseLen, IF job = "sign" THEN "SIGN_VERIFY_ERROR"
                                       ELSE "EXECUTION_ERROR")

ReplyFailure ==
  /\ pc = "reply"
  /\ ~ok
  /\ Send(0, IF job = "sign" THEN "SIGN_VERIFY_ERROR" ELSE "EXECUTION_ERROR")

Reply ==
  /\ pc = "reply"
  /\ ok
  /\ Send(responseLen, "OK")

(* Or the address waits in the buffer until the user has seen it.          *)
ReviewAddress ==
  /\ pc = "reply"
  /\ ok /\ job = "address"
  /\ pc' = "review"
  /\ UNCHANGED <<job, stack, ok, responseLen, G_io_apdu_buffer, tx>>

AppReplyAddress == pc = "review" /\ Send(responseLen, "OK")

AppReject ==
  /\ pc = "review"
  /\ pc' = "sent"
  /\ G_io_apdu_buffer' = [i \in 0..(IO_APDU_BUFFER_SIZE - 1) |->
                            IF i < 2 THEN Code("COMMAND_NOT_ALLOWED")
                                     ELSE Zero]
  /\ tx' = 2
  /\ UNCHANGED <<job, stack, ok, responseLen>>

Next ==
  \/ Derive \/ InitPrivateKey
  \/ HashMessage \/ EcdsaSign \/ ConvertDERtoRSV
  \/ GeneratePair
  \/ CatchCxError
  \/ EncodePubkey
  \/ ReplyFailure \/ Reply \/ ReviewAddress \/ AppReplyAddress \/ AppReject

Spec == Init /\ [][Next]_vars

-----------------------------------------------------------------------------
(* Properties. *)

(* The room of an answer: signature_t, or the public key and an address    *)
(* without its zero.                                                       *)
MaxLen(j) == IF j = "sign"
             THEN RSV_SIGNATURE_LEN + SECP256K1_DER_SIGNATURE_MAXLEN
             ELSE SECP256K1_PUBKEY_LEN + ADDRESS_LEN - 1

(* The lengths never leave the room of what was written, and there are two *)
(* bytes more for the status word in what io_exchange may send.            *)
TypeOK ==
  /\ job \in {"sign", "address"}
  /\ ok \in BOOLEAN
  /\ responseLen \in 0..MaxLen(job)
  /\ tx \in 0..(MaxLen(job) + 2)
  /\ DOMAIN G_io_apdu_buffer = 0..(IO_APDU_BUFFER_SIZE - 1)
  /\ pc \in IF job = "sign"
           THEN {"derive", "initkey", "hash", "ecdsa", "convert", "catch",
                 "reply", "sent"}
           ELSE {"derive", "initkey", "pair", "catch", "encode", "reply",
                 "review", "sent"}

(* Whichever call failed, and whatever it left behind, no key material is  *)
(* on the stack once the call has returned: not while the address is       *)
(* encoded, not while the user reads it, not when an answer is out.        *)
SecretsCleared ==
  pc \in {"encode", "reply", "review", "sent"} =>
    privateKeyData = Zero /\ cx_privateKey = Zero

(* The screen shows the text up to its zero, the answer has it up to a     *)
(* computed length (addr.c, app_reply_address): the user confirms exactly  *)
(* the bytes that are sent.                                                *)
ShownIsAnswered ==
  pc = "review" =>
    /\ responseLen > SECP256K1_PUBKEY_LEN
    /\ G_io_apdu_buffer[responseLen] = Zero
    /\ \A i \in SECP256K1_PUBKEY_LEN..(responseLen - 1) :
         G_io_apdu_buffer[i] # Zero

(* What the host makes of the bytes that were sent (index.ts, helper.ts):  *)
(* the status word last, r, s, v and DER, or public key and text.          *)
Sw == G_io_apdu_buffer[tx - 1]

Signed == [key |-> Key(Seed), digest |-> Digest(message)]

IsSignature ==
  /\ tx > RSV_SIGNATURE_LEN + 2
  /\ \A i \in 0..(tx - 3) :
       G_io_apdu_buffer[i] = Thing(CASE i < 32 -> "r"
                                     [] i \in 32..63 -> "s"
                                     [] i = 64 -> "v"
                                     [] OTHER -> "der", Signed)

IsAddress ==
  LET n    == tx - 2 - SECP256K1_PUBKEY_LEN - PrefixLen - 1
      text == [i \in 1..(PrefixLen + n) |->
                 IF i <= PrefixLen THEN Thing("prefix", None)
                 ELSE Base58(Digest(Pubkey(Key(Seed))))]
  IN /\ n > 0
     /\ \A i \in 0..(SECP256K1_PUBKEY_LEN - 1) :
          G_io_apdu_buffer[i] = Pubkey(Key(Seed))
     /\ \A i \in 1..(PrefixLen + n) :
          G_io_apdu_buffer[SECP256K1_PUBKEY_LEN + i - 1] = text[i]
     /\ G_io_apdu_buffer[tx - 3] = Thing("crc", text)

(* Bytes that are none of these are no answer of Answers.tla.              *)
Garbage == [sw |-> "garbage"]

Answered ==
  CASE pc # "sent"                 -> None
    [] pc = "sent" /\ ~(Sw.is = "sw" /\ Sw = G_io_apdu_buffer[tx - 2])
                                   -> Garbage
    [] pc = "sent" /\ tx = 2       -> Refusal(Sw.of)
    [] pc = "sent" /\ job = "sign" /\ Sw = Code("OK") /\ IsSignature
                                   -> Signature(hdPath, message)
    [] pc = "sent" /\ job = "address" /\ Sw = Code("OK") /\ IsAddress
                                   -> Address(hdPath)
    [] OTHER                       -> Garbage

(* The call is atomic to the host: it gets the whole signature, or the     *)
(* whole address, of the key and the text it was made for, or a bare       *)
(* status word, and never a byte that was stale, half written or secret.   *)
Call == INSTANCE CryptoCall WITH answer <- Answered

Implements == Call!Spec
=============================================================================
