---------------------------- MODULE KeyUseProofs ----------------------------
(***************************************************************************)
(* Proofs about a key in use, for every path and text and all lengths that *)
(* fit the buffer: whichever call fails and whatever it leaves behind, the *)
(* keys are cleared and the host gets the whole answer or a bare status    *)
(* word.  The invariant says what each call may count on.                  *)
(***************************************************************************)
EXTENDS KeyUse, TLAPS

(* The key is that of the path, and the digest that of the text.           *)
KeyMade ==
  /\ pc = "initkey" => privateKeyData = Seed
  /\ pc \in {"hash", "pair", "ecdsa", "convert"} => cx_privateKey = Key(Seed)
  /\ pc \in {"ecdsa", "convert"} => messageDigest = Digest(message)

(* What an answer is made of, once the calls have succeeded.               *)
DerWritten ==
  pc = "convert" =>
    /\ responseLen \in DerLens
    /\ \A i \in 65..(64 + responseLen) :
         G_io_apdu_buffer[i] = Thing("der", Signed)

SignatureWritten ==
  pc \in {"catch", "reply"} /\ ok /\ job = "sign" =>
    /\ responseLen \in 66..138
    /\ \A i \in 0..31  : G_io_apdu_buffer[i] = Thing("r", Signed)
    /\ \A i \in 32..63 : G_io_apdu_buffer[i] = Thing("s", Signed)
    /\ G_io_apdu_buffer[64] = Thing("v", Signed)
    /\ \A i \in 65..(responseLen - 1) :
         G_io_apdu_buffer[i] = Thing("der", Signed)

ItsPubkey == Pubkey(Key(Seed))

PubkeyWritten ==
  pc \in {"catch", "encode"} /\ ok /\ job = "address" =>
    \A i \in 0..64 : G_io_apdu_buffer[i] = ItsPubkey

(* Prefix and digits of an address of n digits; its check character.       *)
TextOf(n) == [i \in 1..(4 + n) |-> IF i <= 4 THEN Thing("prefix", None)
                                             ELSE Base58(Digest(ItsPubkey))]

AddressOf(n) ==
  /\ responseLen = 70 + n
  /\ \A i \in 0..64 : G_io_apdu_buffer[i] = ItsPubkey
  /\ \A i \in 65..(68 + n) : G_io_apdu_buffer[i] = TextOf(n)[i - 64]
  /\ G_io_apdu_buffer[69 + n] = Thing("crc", TextOf(n))
  /\ G_io_apdu_buffer[70 + n] = Zero

AddressWritten ==
  pc \in {"reply", "review"} /\ ok /\ job = "address" =>
    \E n \in Base58Lens : AddressOf(n)

(* A call that goes on has not failed, and one that failed has no answer.  *)
Succeeded ==
  /\ pc \in {"encode", "review"} => ok
  /\ ok => pc \in {"catch", "encode", "reply", "review", "sent"}

Inv ==
  /\ TypeOK
  /\ KeyMade
  /\ DerWritten
  /\ SignatureWritten
  /\ PubkeyWritten
  /\ AddressWritten
  /\ Succeeded
  /\ SecretsCleared

-----------------------------------------------------------------------------
LEMMA Numbers ==
  /\ SECP256K1_PUBKEY_LEN = 65 /\ SECP256K1_DER_SIGNATURE_MAXLEN = 73
  /\ IO_APDU_BUFFER_SIZE = 260 /\ RSV_SIGNATURE_LEN = 65 /\ PrefixLen = 4
  /\ MaxLen("sign") = 138 /\ MaxLen("address") = 114
  /\ DerLens \subseteq 1..73
  /\ Base58Lens \subseteq 1..28
  BY LengthAssumption
     DEF SECP256K1_PUBKEY_LEN, SECP256K1_DER_SIGNATURE_MAXLEN, ADDRESS_LEN,
         IO_APDU_BUFFER_SIZE, RSV_SIGNATURE_LEN, PrefixLen, MaxLen

(* What Write leaves where it writes, and before.                          *)
LEMMA WriteKeepsDomain ==
  \A from, len, byte :
    DOMAIN Write(from, len, byte) = DOMAIN G_io_apdu_buffer
  BY Zenon DEF Write

LEMMA Written ==
  ASSUME NEW from \in Nat, NEW len \in Nat, NEW byte, from + len <= 260,
         DOMAIN G_io_apdu_buffer = 0..259
  PROVE  \A i \in from..(from + len - 1) : Write(from, len, byte)[i] = byte
<1>1. \A i \in from..(from + len - 1) : i \in 0..259
  OBVIOUS
<1> QED
  BY <1>1, Zenon DEF Write

LEMMA InvInit == Init => Inv
<1> SUFFICES ASSUME Init PROVE Inv
  OBVIOUS
<1>1. TypeOK
  <2>1. DOMAIN G_io_apdu_buffer = 0..(IO_APDU_BUFFER_SIZE - 1)
    BY Zenon DEF Init, Filled
  <2>2. responseLen \in 0..MaxLen(job)
    BY Numbers DEF Init
  <2>3. tx \in 0..(MaxLen(job) + 2)
    BY Numbers DEF Init
  <2>4. /\ job \in {"sign", "address"} /\ ok \in BOOLEAN
        /\ pc \in {"derive"}
    BY DEF Init
  <2> QED
    BY <2>1, <2>2, <2>3, <2>4 DEF TypeOK
<1> QED
  BY <1>1 DEF Init, Inv, KeyMade, DerWritten, SignatureWritten, PubkeyWritten,
              AddressWritten, Succeeded, SecretsCleared

(* The calls that work on the stack.                                       *)
LEMMA StackCallStep ==
  ASSUME Inv, Derive \/ InitPrivateKey \/ HashMessage
  PROVE  Inv'
<1>1. /\ pc \in {"derive", "initkey", "hash"}
      /\ pc' = "catch" \/ /\ pc = "derive" /\ pc' = "initkey"
                          /\ privateKeyData' = Seed
                       \/ /\ pc = "initkey" /\ pc' \in {"hash", "pair"}
                          /\ pc' = (IF job = "sign" THEN "hash" ELSE "pair")
                          /\ cx_privateKey' = Key(privateKeyData)
                       \/ /\ pc = "hash" /\ pc' = "ecdsa"
                          /\ cx_privateKey' = cx_privateKey
                          /\ messageDigest' = Digest(message)
      /\ UNCHANGED <<job, ok, tx, responseLen, G_io_apdu_buffer>>
  BY DEF Derive, InitPrivateKey, HashMessage, CxCall, Fails
<1>2. ~ok
  BY <1>1 DEF Inv, Succeeded
<1>3. TypeOK'
  BY <1>1 DEF Inv, TypeOK
<1>4. KeyMade'
  BY <1>1 DEF Inv, KeyMade
<1> QED
  BY <1>1, <1>2, <1>3, <1>4
     DEF Inv, DerWritten, SignatureWritten, PubkeyWritten, AddressWritten,
         Succeeded, SecretsCleared

LEMMA EcdsaSignStep ==
  ASSUME Inv, EcdsaSign
  PROVE  Inv'
<1>1. /\ pc = "ecdsa"
      /\ UNCHANGED <<job, ok, tx, privateKeyData, cx_privateKey, messageDigest>>
  BY DEF EcdsaSign, CxCall, Fails, stack
<1>2. /\ ~ok /\ DOMAIN G_io_apdu_buffer = 0..259 /\ job = "sign"
      /\ cx_privateKey = Key(Seed) /\ messageDigest = Digest(message)
  BY <1>1, Numbers DEF Inv, Succeeded, TypeOK, KeyMade
<1>3. CASE pc' = "convert"
  <2>1. PICK len \in DerLens :
          /\ responseLen' = len
          /\ G_io_apdu_buffer' = Write(65, len, Thing("der", Signed))
    BY <1>2, <1>3, Numbers DEF EcdsaSign, CxCall, Fails, SigPart, Signed
  <2>2. /\ len \in 1..73 /\ len \in Nat /\ 65 \in Nat /\ 65 + len <= 260
        /\ 65 + len - 1 = 64 + len
    BY <2>1, Numbers
  <2>3. /\ DOMAIN G_io_apdu_buffer' = 0..259
        /\ \A i \in 65..(64 + len) :
             G_io_apdu_buffer'[i] = Thing("der", Signed)
    <3>1. DOMAIN Write(65, len, Thing("der", Signed)) = 0..259
      BY <1>2, WriteKeepsDomain, Zenon
    <3>2. \A i \in 65..(65 + len - 1) :
            Write(65, len, Thing("der", Signed))[i] = Thing("der", Signed)
      BY <1>2, <2>2, Written
    <3> QED
      BY <2>1, <2>2, <3>1, <3>2, Zenon
  <2>4. TypeOK'
    <3>1. responseLen' \in 0..MaxLen(job)
      BY <1>2, <2>1, <2>2, Numbers
    <3> QED
      BY <1>1, <1>2, <1>3, <2>3, <3>1, Numbers DEF Inv, TypeOK
  <2>5. DerWritten'
    BY <2>1, <2>3, Zenon DEF DerWritten, Signed
  <2> QED
    BY <1>1, <1>2, <1>3, <2>4, <2>5
       DEF Inv, KeyMade, SignatureWritten, PubkeyWritten,
           AddressWritten, Succeeded, SecretsCleared
<1>4. CASE pc' = "catch"
  <2>1. /\ G_io_apdu_buffer' = Write(65, 73, Partial)
        /\ responseLen' = responseLen
    BY <1>4, Numbers DEF EcdsaSign, CxCall, Fails
  <2>2. DOMAIN G_io_apdu_buffer' = 0..259
    BY <1>2, <2>1, WriteKeepsDomain, Zenon
  <2>3. TypeOK'
    BY <1>1, <1>2, <1>4, <2>1, <2>2, Numbers DEF Inv, TypeOK
  <2> QED
    BY <1>1, <1>2, <1>4, <2>3
       DEF Inv, KeyMade, DerWritten, SignatureWritten, PubkeyWritten,
           AddressWritten, Succeeded, SecretsCleared
<1> QED
  BY <1>3, <1>4 DEF EcdsaSign, CxCall, Fails

LEMMA ConvertDERtoRSVStep ==
  ASSUME Inv, ConvertDERtoRSV
  PROVE  Inv'
<1>1. /\ pc = "convert" /\ pc' = "catch"
      /\ UNCHANGED <<job, tx, privateKeyData, cx_privateKey, messageDigest>>
  BY DEF ConvertDERtoRSV, stack
<1>2. /\ ~ok /\ DOMAIN G_io_apdu_buffer = 0..259 /\ job = "sign"
      /\ responseLen \in DerLens /\ responseLen \in 1..73
      /\ \A i \in 65..(64 + responseLen) :
           G_io_apdu_buffer[i] = Thing("der", Signed)
  BY <1>1, Numbers DEF Inv, Succeeded, TypeOK, DerWritten
<1>3. CASE /\ G_io_apdu_buffer' = Rsv(G_io_apdu_buffer[65])
           /\ responseLen' = 65 + responseLen
           /\ ok' = TRUE
  <2>1. G_io_apdu_buffer[65].of = Signed
    BY <1>2 DEF Thing
  <2>2. /\ DOMAIN G_io_apdu_buffer' = 0..259
        /\ \A i \in 0..31  : G_io_apdu_buffer'[i] = Thing("r", Signed)
        /\ \A i \in 32..63 : G_io_apdu_buffer'[i] = Thing("s", Signed)
        /\ G_io_apdu_buffer'[64] = Thing("v", Signed)
        /\ \A i \in 65..259 : G_io_apdu_buffer'[i] = G_io_apdu_buffer[i]
    BY <1>2, <1>3, <2>1 DEF Rsv
  <2>3. PICK len \in 66..138 :
          responseLen' = len /\ len - 1 = 64 + responseLen
    BY <1>2, <1>3
  <2>4. TypeOK'
    <3>1. responseLen' \in 0..MaxLen(job)
      BY <1>2, <2>3, Numbers
    <3>2. DOMAIN G_io_apdu_buffer' = 0..(260 - 1)
      BY <2>2
    <3> QED
      BY <1>1, <1>2, <1>3, <3>1, <3>2, Numbers DEF Inv, TypeOK
  <2>5. \A i \in 65..(len - 1) :
          G_io_apdu_buffer'[i] = Thing("der", Signed)
    <3>1. \A i \in 65..(len - 1) : i \in 65..259 /\ i \in 65..(64 + responseLen)
      BY <1>2, <2>3
    <3> QED
      BY <1>2, <2>2, <3>1, Zenon
  <2>6. SignatureWritten'
    BY <2>2, <2>3, <2>5, Zenon DEF SignatureWritten, Signed
  <2> QED
    BY <1>1, <1>2, <1>3, <2>4, <2>6
       DEF Inv, KeyMade, DerWritten, PubkeyWritten,
           AddressWritten, Succeeded, SecretsCleared
<1>4. CASE /\ G_io_apdu_buffer' = Write(0, 65, Partial)
           /\ UNCHANGED <<responseLen, ok>>
  <2>1. DOMAIN G_io_apdu_buffer' = 0..259
    BY <1>2, <1>4, WriteKeepsDomain, Zenon
  <2>2. TypeOK'
    BY <1>1, <1>2, <1>4, <2>1, Numbers DEF Inv, TypeOK
  <2> QED
    BY <1>1, <1>2, <1>4, <2>2
       DEF Inv, KeyMade, DerWritten, SignatureWritten, PubkeyWritten,
           AddressWritten, Succeeded, SecretsCleared
<1> QED
  BY <1>3, <1>4, Numbers DEF ConvertDERtoRSV

LEMMA GeneratePairStep ==
  ASSUME Inv, GeneratePair
  PROVE  Inv'
<1>1. /\ pc = "pair" /\ pc' = "catch"
      /\ UNCHANGED <<job, tx, responseLen, privateKeyData, cx_privateKey,
                     messageDigest>>
  BY DEF GeneratePair, stack
<1>2. /\ ~ok /\ DOMAIN G_io_apdu_buffer = 0..259 /\ job = "address"
      /\ cx_privateKey = Key(Seed)
  BY <1>1, Numbers DEF Inv, Succeeded, TypeOK, KeyMade
<1>3. CASE G_io_apdu_buffer' = Write(0, 65, ItsPubkey) /\ ok' = TRUE
  <2>2. DOMAIN Write(0, 65, ItsPubkey) = 0..259
    BY <1>2, WriteKeepsDomain, Zenon
  <2>3. TypeOK'
    BY <1>1, <1>2, <1>3, <2>2, Numbers DEF Inv, TypeOK
  <2>4. \A i \in 0..64 : Write(0, 65, ItsPubkey)[i] = ItsPubkey
    <3>1. \A i \in 0..64 : i \in 0..259 /\ i \in 0..(0 + 65 - 1)
      OBVIOUS
    <3> QED
      BY <1>2, <3>1, ZenonT(60) DEF Write
  <2>5. PubkeyWritten'
    BY <1>3, <2>4, Zenon DEF PubkeyWritten, ItsPubkey
  <2> QED
    BY <1>1, <1>2, <1>3, <2>3, <2>5
       DEF Inv, KeyMade, DerWritten, SignatureWritten,
           AddressWritten, Succeeded, SecretsCleared
<1>4. CASE UNCHANGED <<G_io_apdu_buffer, ok>>
  <2>1. TypeOK'
    BY <1>1, <1>2, <1>4, Numbers DEF Inv, TypeOK
  <2> QED
    BY <1>1, <1>2, <1>4, <2>1
       DEF Inv, KeyMade, DerWritten, SignatureWritten, PubkeyWritten,
           AddressWritten, Succeeded, SecretsCleared
<1> QED
  BY <1>2, <1>3, <1>4, Numbers DEF GeneratePair, ItsPubkey

LEMMA CatchCxErrorStep ==
  ASSUME Inv, CatchCxError
  PROVE  Inv'
<1>1. /\ pc = "catch"
      /\ pc' = IF job = "sign" \/ ~ok THEN "reply" ELSE "encode"
      /\ cx_privateKey' = Zero /\ privateKeyData' = Zero
      /\ UNCHANGED <<job, ok, responseLen, G_io_apdu_buffer, tx>>
  BY DEF CatchCxError
<1>2. TypeOK'
  BY <1>1 DEF Inv, TypeOK
<1>3. SignatureWritten'
  BY <1>1 DEF Inv, SignatureWritten, Signed
<1>4. PubkeyWritten'
  BY <1>1 DEF Inv, PubkeyWritten, ItsPubkey
<1>5. AddressWritten' /\ Succeeded' /\ SecretsCleared'
  BY <1>1 DEF Inv, TypeOK, AddressWritten, Succeeded, SecretsCleared
<1> QED
  BY <1>1, <1>2, <1>3, <1>4, <1>5 DEF Inv, KeyMade, DerWritten

(* What crypto_encodePubkey writes for the public key of the path.         *)
LEMMA EncodedIsAddress ==
  ASSUME NEW n \in 1..28, DOMAIN G_io_apdu_buffer = 0..259,
         \A i \in 0..64 : G_io_apdu_buffer[i] = ItsPubkey
  PROVE  /\ DOMAIN Encoded(n) = 0..259
         /\ \A i \in 0..64 : Encoded(n)[i] = ItsPubkey
         /\ \A i \in 65..(68 + n) : Encoded(n)[i] = TextOf(n)[i - 64]
         /\ Encoded(n)[69 + n] = Thing("crc", TextOf(n))
         /\ Encoded(n)[70 + n] = Zero
<1>1. G_io_apdu_buffer[1] = ItsPubkey
  OBVIOUS
<1>2. Text(n) = TextOf(n)
  BY <1>1, Numbers DEF Text, TextOf
<1>3. DOMAIN TextOf(n) = 1..(4 + n)
  BY DEF TextOf
<1> DEFINE At(i) ==
      LET k == i - 64 IN
      CASE k \in 1..(4 + n) -> TextOf(n)[k]
        [] k = 5 + n        -> Thing("crc", TextOf(n))
        [] k = 6 + n        -> Zero
        [] OTHER            -> G_io_apdu_buffer[i]
<1>4. /\ DOMAIN Encoded(n) = 0..259
      /\ \A i \in 0..259 : Encoded(n)[i] = At(i)
  <2>1. \A i \in 0..259 : i - 65 + 1 = i - 64
    OBVIOUS
  <2>2. 4 + n + 1 = 5 + n /\ 4 + n + 2 = 6 + n
    OBVIOUS
  <2> QED
    BY <1>2, <1>3, <2>1, <2>2, Numbers, ZenonT(60) DEF Encoded
<1>5. \A i \in 0..64 : At(i) = G_io_apdu_buffer[i]
  OBVIOUS
<1>6. \A i \in 65..(68 + n) : At(i) = TextOf(n)[i - 64]
  OBVIOUS
<1>7. At(69 + n) = Thing("crc", TextOf(n)) /\ At(70 + n) = Zero
  OBVIOUS
<1> HIDE DEF At
<1>8. /\ \A i \in 0..64 : i \in 0..259
      /\ \A i \in 65..(68 + n) : i \in 0..259
      /\ 69 + n \in 0..259 /\ 70 + n \in 0..259
  OBVIOUS
<1> QED
  BY <1>4, <1>5, <1>6, <1>7, <1>8

LEMMA EncodePubkeyStep ==
  ASSUME Inv, EncodePubkey
  PROVE  Inv'
<1>1. /\ pc = "encode" /\ pc' = "reply"
      /\ UNCHANGED <<job, tx, privateKeyData, cx_privateKey, messageDigest>>
  BY DEF EncodePubkey, stack
<1>2. /\ ok /\ DOMAIN G_io_apdu_buffer = 0..259 /\ job = "address"
      /\ \A i \in 0..64 : G_io_apdu_buffer[i] = ItsPubkey
  BY <1>1, Numbers DEF Inv, Succeeded, TypeOK, PubkeyWritten
<1>3. CASE \E n \in Base58Lens :
             /\ responseLen' = SECP256K1_PUBKEY_LEN + AddressLen(n)
             /\ G_io_apdu_buffer' = Encoded(n)
             /\ UNCHANGED ok
  <2>1. PICK n \in Base58Lens :
          /\ responseLen' = SECP256K1_PUBKEY_LEN + AddressLen(n)
          /\ G_io_apdu_buffer' = Encoded(n)
          /\ UNCHANGED ok
    BY <1>3
  <2>2. n \in 1..28 /\ responseLen' = 70 + n
    BY <2>1, Numbers DEF AddressLen
  <2>3. DOMAIN Encoded(n) = 0..259
    BY <1>2, <2>2, EncodedIsAddress
  <2>4. TypeOK'
    <3>1. responseLen' \in 0..MaxLen(job)
      BY <1>2, <2>2, Numbers
    <3> QED
      BY <1>1, <1>2, <2>1, <2>3, <3>1, Numbers DEF Inv, TypeOK
  <2>5. /\ \A i \in 0..64 : Encoded(n)[i] = ItsPubkey
        /\ \A i \in 65..(68 + n) : Encoded(n)[i] = TextOf(n)[i - 64]
        /\ Encoded(n)[69 + n] = Thing("crc", TextOf(n))
        /\ Encoded(n)[70 + n] = Zero
    BY <1>2, <2>2, EncodedIsAddress
  <2>6. AddressOf(n)'
    BY <2>1, <2>2, <2>5 DEF AddressOf, TextOf, ItsPubkey
  <2> QED
    BY <1>1, <1>2, <2>1, <2>4, <2>6
       DEF Inv, KeyMade, DerWritten, SignatureWritten, PubkeyWritten,
           AddressWritten, Succeeded, SecretsCleared
<1>4. CASE /\ G_io_apdu_buffer' = Filled(Zero)
           /\ ok' = FALSE
           /\ UNCHANGED responseLen
  <2>1. DOMAIN G_io_apdu_buffer' = 0..(IO_APDU_BUFFER_SIZE - 1)
    BY <1>4, Zenon DEF Filled
  <2>2. TypeOK'
    BY <1>1, <1>2, <1>4, <2>1 DEF Inv, TypeOK
  <2> QED
    BY <1>1, <1>2, <1>4, <2>2
       DEF Inv, KeyMade, DerWritten, SignatureWritten, PubkeyWritten,
           AddressWritten, Succeeded, SecretsCleared
<1> QED
  BY <1>3, <1>4 DEF EncodePubkey

LEMMA ReviewAddressStep ==
  ASSUME Inv, ReviewAddress
  PROVE  Inv'
<1>1. /\ pc = "reply" /\ pc' = "review" /\ ok /\ job = "address"
      /\ UNCHANGED <<job, ok, responseLen, G_io_apdu_buffer, tx,
                     privateKeyData, cx_privateKey, messageDigest>>
  BY DEF ReviewAddress, stack
<1>2. TypeOK'
  BY <1>1 DEF Inv, TypeOK
<1>3. AddressWritten'
  BY <1>1 DEF Inv, AddressWritten, AddressOf, TextOf, ItsPubkey
<1> QED
  BY <1>1, <1>2, <1>3
     DEF Inv, KeyMade, DerWritten, SignatureWritten, PubkeyWritten,
         Succeeded, SecretsCleared

-----------------------------------------------------------------------------
(* What the host reads. *)

NothingReads == pc # "sent" => Answered = None

RefusalReads ==
  \A sw : /\ pc = "sent" /\ tx = 2
          /\ G_io_apdu_buffer[0] = Code(sw)
          /\ G_io_apdu_buffer[1] = Code(sw)
          => Answered = Refusal(sw)

SignatureReads ==
  \A len \in 66..138 :
    /\ pc = "sent" /\ job = "sign" /\ tx = len + 2
    /\ \A i \in 0..31  : G_io_apdu_buffer[i] = Thing("r", Signed)
    /\ \A i \in 32..63 : G_io_apdu_buffer[i] = Thing("s", Signed)
    /\ G_io_apdu_buffer[64] = Thing("v", Signed)
    /\ \A i \in 65..(len - 1) : G_io_apdu_buffer[i] = Thing("der", Signed)
    /\ G_io_apdu_buffer[len] = Code("OK")
    /\ G_io_apdu_buffer[len + 1] = Code("OK")
    => Answered = Signature(hdPath, message)

AddressSent(n) ==
  /\ pc = "sent" /\ job = "address" /\ tx = 72 + n
  /\ \A i \in 0..64 : G_io_apdu_buffer[i] = ItsPubkey
  /\ \A i \in 65..(68 + n) : G_io_apdu_buffer[i] = TextOf(n)[i - 64]
  /\ G_io_apdu_buffer[69 + n] = Thing("crc", TextOf(n))
  /\ G_io_apdu_buffer[70 + n] = Code("OK")
  /\ G_io_apdu_buffer[71 + n] = Code("OK")

AddressReads == \A n \in 1..28 : AddressSent(n) => Answered = Address(hdPath)

LEMMA NothingRead == NothingReads
  BY DEF NothingReads, Answered

LEMMA CodeIsSw == \A sw : Code(sw).is = "sw" /\ Code(sw).of = sw
  BY DEF Code, Thing

LEMMA RefusalRead == RefusalReads
<1> SUFFICES ASSUME NEW sw, pc = "sent", tx = 2,
                    G_io_apdu_buffer[0] = Code(sw),
                    G_io_apdu_buffer[1] = Code(sw)
             PROVE  Answered = Refusal(sw)
  BY DEF RefusalReads
<1>1. Sw = Code(sw) /\ G_io_apdu_buffer[tx - 2] = Code(sw)
  BY DEF Sw
<1>2. ~IsSignature /\ ~IsAddress
  BY Numbers DEF IsSignature, IsAddress
<1> QED
  BY <1>1, <1>2, CodeIsSw DEF Answered

LEMMA SignatureRead == SignatureReads
<1> SUFFICES ASSUME NEW len \in 66..138,
                    pc = "sent", job = "sign", tx = len + 2,
                    \A i \in 0..31  : G_io_apdu_buffer[i] = Thing("r", Signed),
                    \A i \in 32..63 : G_io_apdu_buffer[i] = Thing("s", Signed),
                    G_io_apdu_buffer[64] = Thing("v", Signed),
                    \A i \in 65..(len - 1) :
                      G_io_apdu_buffer[i] = Thing("der", Signed),
                    G_io_apdu_buffer[len] = Code("OK"),
                    G_io_apdu_buffer[len + 1] = Code("OK")
             PROVE  Answered = Signature(hdPath, message)
  BY DEF SignatureReads
<1>1. tx - 1 = len + 1 /\ tx - 2 = len /\ tx - 3 = len - 1 /\ tx # 2
  OBVIOUS
<1>2. Sw = Code("OK") /\ G_io_apdu_buffer[tx - 2] = Code("OK")
  BY <1>1 DEF Sw
<1>3. IsSignature
  <2>1. tx > RSV_SIGNATURE_LEN + 2
    BY Numbers
  <2>2. ASSUME NEW i \in 0..(tx - 3)
        PROVE  G_io_apdu_buffer[i] = Thing(CASE i < 32 -> "r"
                                             [] i \in 32..63 -> "s"
                                             [] i = 64 -> "v"
                                             [] OTHER -> "der", Signed)
    <3>1. CASE i \in 0..31
      BY <3>1
    <3>2. CASE i \in 32..63
      BY <3>2
    <3>3. CASE i = 64
      BY <3>3
    <3>4. CASE i \in 65..(len - 1)
      BY <3>4
    <3> QED
      BY <1>1, <3>1, <3>2, <3>3, <3>4
  <2> QED
    BY <2>1, <2>2 DEF IsSignature
<1> QED
  BY <1>1, <1>2, <1>3, CodeIsSw DEF Answered

LEMMA AddressRead == AddressReads
<1> SUFFICES ASSUME NEW n \in 1..28,
                    pc = "sent", job = "address", tx = 72 + n,
                    \A i \in 0..64 : G_io_apdu_buffer[i] = ItsPubkey,
                    \A i \in 65..(68 + n) :
                      G_io_apdu_buffer[i] = TextOf(n)[i - 64],
                    G_io_apdu_buffer[69 + n] = Thing("crc", TextOf(n)),
                    G_io_apdu_buffer[70 + n] = Code("OK"),
                    G_io_apdu_buffer[71 + n] = Code("OK")
             PROVE  Answered = Address(hdPath)
  BY DEF AddressReads, AddressSent
<1> DEFINE m == tx - 2 - SECP256K1_PUBKEY_LEN - PrefixLen - 1
<1>1. /\ tx - 1 = 71 + n /\ tx - 2 = 70 + n /\ tx - 3 = 69 + n /\ tx # 2
      /\ m = n
  BY Numbers
<1>2. Sw = Code("OK") /\ G_io_apdu_buffer[tx - 2] = Code("OK")
  BY <1>1 DEF Sw
<1>8. m > 0
  BY <1>1
<1> HIDE DEF m
<1> DEFINE text == [i \in 1..(PrefixLen + m) |->
                      IF i <= PrefixLen THEN Thing("prefix", None)
                      ELSE Base58(Digest(Pubkey(Key(Seed))))]
<1>3. TextOf(n) = text
  BY <1>1, Numbers DEF TextOf, ItsPubkey
<1>4. \A i \in 0..(SECP256K1_PUBKEY_LEN - 1) :
        G_io_apdu_buffer[i] = Pubkey(Key(Seed))
  BY Numbers DEF ItsPubkey
<1>5. \A i \in 1..(PrefixLen + m) :
        G_io_apdu_buffer[SECP256K1_PUBKEY_LEN + i - 1] = text[i]
  <2> HIDE DEF text
  <2> QED
    BY <1>1, <1>3, Numbers
<1>6. G_io_apdu_buffer[tx - 3] = Thing("crc", text)
  <2> HIDE DEF text
  <2> QED
    BY <1>1, <1>3
<1>7. IsAddress
  BY <1>4, <1>5, <1>6, <1>8, Zenon DEF IsAddress, m
<1> QED
  BY <1>1, <1>2, <1>7, CodeIsSw DEF Answered

-----------------------------------------------------------------------------
(* Answers go out. *)

CallOutcomes == Call!Outcomes[job]

LEMMA OutcomesOfJobs ==
  /\ job = "sign" => /\ Signature(hdPath, message) \in CallOutcomes
                     /\ Refusal("SIGN_VERIFY_ERROR") \in CallOutcomes
  /\ job = "address" => /\ Address(hdPath) \in CallOutcomes
                        /\ Refusal("EXECUTION_ERROR") \in CallOutcomes
                        /\ Refusal("COMMAND_NOT_ALLOWED") \in CallOutcomes
<1>1. job = "sign" =>
        CallOutcomes = {Signature(hdPath, message), Refusal("SIGN_VERIFY_ERROR")}
  BY DEF CallOutcomes, Call!Outcomes, Call!Signature, Call!Refusal, Call!Answer,
         Signature, Refusal, Answer
<1>2. job = "address" =>
        CallOutcomes = {Address(hdPath), Refusal("EXECUTION_ERROR"),
                        Refusal("COMMAND_NOT_ALLOWED")}
  BY DEF CallOutcomes, Call!Outcomes, Call!Address, Call!Refusal, Call!Answer,
         Address, Refusal, Answer
<1> QED
  BY <1>1, <1>2, Zenon

(* After the answer nothing is left to count on.                           *)
LEMMA SentStep ==
  ASSUME Inv, pc \in {"reply", "review"}, pc' = "sent",
         UNCHANGED <<job, stack, ok, responseLen>>,
         DOMAIN G_io_apdu_buffer' = 0..259, tx' \in 0..(MaxLen(job) + 2)
  PROVE  Inv'
<1>1. TypeOK'
  BY Numbers DEF Inv, TypeOK
<1> QED
  BY <1>1 DEF Inv, KeyMade, DerWritten, SignatureWritten, PubkeyWritten,
              AddressWritten, Succeeded, SecretsCleared, stack

LEMMA SendWrites ==
  ASSUME Inv, NEW len \in 0..258, NEW sw, Send(len, sw)
  PROVE  /\ DOMAIN G_io_apdu_buffer' = 0..259
         /\ G_io_apdu_buffer'[len] = Code(sw)
         /\ G_io_apdu_buffer'[len + 1] = Code(sw)
         /\ \A i \in 0..(len - 1) : G_io_apdu_buffer'[i] = G_io_apdu_buffer[i]
<1>1. DOMAIN G_io_apdu_buffer = 0..259
  BY Numbers DEF Inv, TypeOK
<1>2. len \in Nat /\ 2 \in Nat /\ len + 2 <= 260
  OBVIOUS
<1>3. G_io_apdu_buffer' = Write(len, 2, Code(sw))
  BY DEF Send
<1>4. DOMAIN Write(len, 2, Code(sw)) = 0..259
  BY <1>1, WriteKeepsDomain, Zenon
<1>5. \A i \in len..(len + 2 - 1) : Write(len, 2, Code(sw))[i] = Code(sw)
  BY <1>1, <1>2, Written
<1>6. \A i \in 0..(len - 1) :
        Write(len, 2, Code(sw))[i] = G_io_apdu_buffer[i]
  <2>1. \A i \in 0..(len - 1) : i \in 0..259 /\ i \notin len..(len + 2 - 1)
    OBVIOUS
  <2> QED
    BY <1>1, <2>1, ZenonT(60) DEF Write
<1>7. len \in len..(len + 2 - 1) /\ len + 1 \in len..(len + 2 - 1)
  OBVIOUS
<1>8. Write(len, 2, Code(sw))[len] = Code(sw)
        /\ Write(len, 2, Code(sw))[len + 1] = Code(sw)
  BY <1>5, <1>7, Zenon
<1> QED
  BY <1>3, <1>4, <1>6, <1>8, Zenon

LEMMA ReplyFailureStep ==
  ASSUME Inv, ReplyFailure
  PROVE  Inv' /\ Answered' \in CallOutcomes
<1> DEFINE sw == IF job = "sign" THEN "SIGN_VERIFY_ERROR" ELSE "EXECUTION_ERROR"
<1>1. /\ pc = "reply" /\ pc' = "sent" /\ tx' = 0 + 2
      /\ Send(0, sw)
      /\ UNCHANGED <<job, stack, ok, responseLen>>
  BY DEF ReplyFailure, Send
<1>2. job \in {"sign", "address"}
  BY DEF Inv, TypeOK
<1>3. Refusal(sw) \in CallOutcomes
  BY <1>2, OutcomesOfJobs
<1> HIDE DEF sw
<1>4. 0 \in 0..258
  OBVIOUS
<1>5. DOMAIN G_io_apdu_buffer' = 0..259
  BY <1>1, <1>4, SendWrites
<1>6. G_io_apdu_buffer'[0] = Code(sw) /\ G_io_apdu_buffer'[0 + 1] = Code(sw)
  BY <1>1, <1>4, SendWrites
<1>7. Inv'
  <2>1. tx' \in 0..(MaxLen(job) + 2)
    BY <1>1, <1>2, Numbers
  <2> QED
    BY <1>1, <1>5, <2>1, SentStep
<1>8. RefusalReads'
  BY RefusalRead, PTL
<1>9. Answered' = Refusal(sw)
  BY <1>1, <1>6, <1>8 DEF RefusalReads, Code, Thing
<1> QED
  BY <1>3, <1>7, <1>9

(* A success is answered at once, or after the review of an address.       *)
LEMMA AnswerStep ==
  ASSUME Inv, Reply \/ AppReplyAddress
  PROVE  Inv' /\ Answered' \in CallOutcomes
<1>1. /\ pc \in {"reply", "review"} /\ ok /\ pc' = "sent"
      /\ Send(responseLen, "OK") /\ tx' = responseLen + 2
      /\ UNCHANGED <<job, stack, ok, responseLen>>
  BY DEF Reply, AppReplyAddress, Send, Inv, Succeeded
<1>2. CASE job = "sign"
  <2>1. pc = "reply"
    BY <1>1, <1>2 DEF Inv, TypeOK
  <2>2. PICK len \in 66..138 :
          /\ responseLen = len
          /\ \A i \in 0..31  : G_io_apdu_buffer[i] = Thing("r", Signed)
          /\ \A i \in 32..63 : G_io_apdu_buffer[i] = Thing("s", Signed)
          /\ G_io_apdu_buffer[64] = Thing("v", Signed)
          /\ \A i \in 65..(len - 1) :
               G_io_apdu_buffer[i] = Thing("der", Signed)
    BY <1>1, <1>2, <2>1 DEF Inv, SignatureWritten
  <2>3. len \in 0..258 /\ Send(len, "OK")
    BY <1>1, <2>2
  <2>4. DOMAIN G_io_apdu_buffer' = 0..259
    BY <2>3, SendWrites
  <2>5. /\ G_io_apdu_buffer'[len] = Code("OK")
        /\ G_io_apdu_buffer'[len + 1] = Code("OK")
    BY <2>3, SendWrites
  <2>6. \A i \in 0..(len - 1) : G_io_apdu_buffer'[i] = G_io_apdu_buffer[i]
    BY <2>3, SendWrites
  <2>7. /\ \A i \in 0..31  : G_io_apdu_buffer'[i] = Thing("r", Signed)
        /\ \A i \in 32..63 : G_io_apdu_buffer'[i] = Thing("s", Signed)
        /\ G_io_apdu_buffer'[64] = Thing("v", Signed)
        /\ \A i \in 65..(len - 1) :
             G_io_apdu_buffer'[i] = Thing("der", Signed)
    <3>1. /\ \A i \in 0..31  : i \in 0..(len - 1)
          /\ \A i \in 32..63 : i \in 0..(len - 1)
          /\ 64 \in 0..(len - 1)
          /\ \A i \in 65..(len - 1) : i \in 0..(len - 1)
      OBVIOUS
    <3> QED
      BY <2>2, <2>6, <3>1
  <2>8. SignatureReads'
    BY SignatureRead, PTL
  <2>9. Answered' = Signature(hdPath, message)
    BY <1>1, <1>2, <2>2, <2>5, <2>7, <2>8 DEF SignatureReads, Signed, Code
  <2>10. tx' \in 0..(MaxLen(job) + 2)
    BY <1>1, <1>2, <2>2, Numbers
  <2> QED
    BY <1>1, <1>2, <2>4, <2>9, <2>10, SentStep, OutcomesOfJobs
<1>3. CASE job = "address"
  <2>1. PICK n \in Base58Lens : AddressOf(n)
    BY <1>1, <1>3 DEF Inv, AddressWritten
  <2>2. n \in 1..28
    BY Numbers
  <2>3. /\ responseLen = 70 + n
        /\ \A i \in 0..64 : G_io_apdu_buffer[i] = ItsPubkey
        /\ \A i \in 65..(68 + n) : G_io_apdu_buffer[i] = TextOf(n)[i - 64]
        /\ G_io_apdu_buffer[69 + n] = Thing("crc", TextOf(n))
    BY <2>1 DEF AddressOf
  <2>4. PICK len \in 0..258 : len = 70 + n
    BY <2>2
  <2>5. Send(len, "OK")
    BY <1>1, <2>3, <2>4
  <2>6. /\ DOMAIN G_io_apdu_buffer' = 0..259
        /\ G_io_apdu_buffer'[len] = Code("OK")
        /\ G_io_apdu_buffer'[len + 1] = Code("OK")
    BY <2>5, SendWrites
  <2>7. \A i \in 0..(len - 1) : G_io_apdu_buffer'[i] = G_io_apdu_buffer[i]
    BY <2>5, SendWrites
  <2>8. /\ \A i \in 0..64 : G_io_apdu_buffer'[i] = ItsPubkey
        /\ \A i \in 65..(68 + n) : G_io_apdu_buffer'[i] = TextOf(n)[i - 64]
        /\ G_io_apdu_buffer'[69 + n] = Thing("crc", TextOf(n))
    <3>1. /\ \A i \in 0..64 : i \in 0..(len - 1)
          /\ \A i \in 65..(68 + n) : i \in 0..(len - 1)
          /\ 69 + n \in 0..(len - 1)
      BY <2>2, <2>4
    <3> QED
      BY <2>3, <2>7, <3>1
  <2>9. AddressReads'
    BY AddressRead, PTL
  <2>10. tx' = 72 + n /\ tx' \in 0..(MaxLen(job) + 2)
    BY <1>1, <1>3, <2>2, <2>3, Numbers
  <2>11. Answered' = Address(hdPath)
    <3>1. len = 70 + n /\ len + 1 = 71 + n
      BY <2>2, <2>4
    <3>2. /\ G_io_apdu_buffer'[70 + n] = Code("OK")
          /\ G_io_apdu_buffer'[71 + n] = Code("OK")
      BY <2>6, <3>1
    <3>3. pc' = "sent" /\ job' = "address" /\ tx' = 72 + n
      BY <1>1, <1>3, <2>10
    <3>4. AddressSent(n)'
      BY <2>8, <3>2, <3>3 DEF AddressSent
    <3> QED
      BY <2>2, <2>9, <3>4 DEF AddressReads
  <2> QED
    BY <1>1, <1>3, <2>6, <2>10, <2>11, SentStep, OutcomesOfJobs
<1> QED
  BY <1>2, <1>3 DEF Inv, TypeOK

LEMMA AppRejectStep ==
  ASSUME Inv, AppReject
  PROVE  Inv' /\ Answered' \in CallOutcomes
<1>1. /\ pc = "review" /\ pc' = "sent" /\ tx' = 2
      /\ UNCHANGED <<job, stack, ok, responseLen>>
      /\ G_io_apdu_buffer' = [i \in 0..259 |->
                                IF i < 2 THEN Code("COMMAND_NOT_ALLOWED")
                                         ELSE Zero]
  BY Numbers DEF AppReject
<1>2. /\ DOMAIN G_io_apdu_buffer' = 0..259
      /\ G_io_apdu_buffer'[0] = Code("COMMAND_NOT_ALLOWED")
      /\ G_io_apdu_buffer'[1] = Code("COMMAND_NOT_ALLOWED")
  BY <1>1
<1>3. job = "address"
  BY <1>1 DEF Inv, TypeOK
<1>4. Inv'
  <2>1. tx' \in 0..(MaxLen(job) + 2)
    BY <1>1, <1>3, Numbers
  <2> QED
    BY <1>1, <1>2, <2>1, SentStep
<1>5. RefusalReads'
  BY RefusalRead, PTL
<1>6. Answered' = Refusal("COMMAND_NOT_ALLOWED")
  BY <1>1, <1>2, <1>5 DEF RefusalReads, Code, Thing
<1> QED
  BY <1>3, <1>4, <1>6, OutcomesOfJobs

-----------------------------------------------------------------------------
(* Every step keeps the invariant, and is a step of CryptoCall or none.    *)

Calls ==
  \/ Derive \/ InitPrivateKey \/ HashMessage \/ EcdsaSign \/ ConvertDERtoRSV
  \/ GeneratePair \/ CatchCxError \/ EncodePubkey \/ ReviewAddress

Sends == ReplyFailure \/ Reply \/ AppReplyAddress \/ AppReject

LEMMA InvStep == Inv /\ [Next]_vars => Inv'
<1> SUFFICES ASSUME Inv, [Next]_vars PROVE Inv'
  OBVIOUS
<1>1. CASE Calls
  BY <1>1, StackCallStep, EcdsaSignStep, ConvertDERtoRSVStep, GeneratePairStep,
     CatchCxErrorStep, EncodePubkeyStep, ReviewAddressStep DEF Calls
<1>2. CASE Sends
  BY <1>2, ReplyFailureStep, AnswerStep, AppRejectStep DEF Sends
<1>3. CASE UNCHANGED vars
  <2>1. UNCHANGED <<job, pc, privateKeyData, cx_privateKey, messageDigest, ok,
                    responseLen, G_io_apdu_buffer, tx>>
    BY <1>3 DEF vars, stack
  <2>2. TypeOK' /\ KeyMade' /\ Succeeded' /\ SecretsCleared'
    BY <2>1 DEF Inv, TypeOK, KeyMade, Succeeded, SecretsCleared
  <2>3. DerWritten' /\ SignatureWritten'
    BY <2>1 DEF Inv, DerWritten, SignatureWritten, Signed
  <2>4. PubkeyWritten' /\ AddressWritten'
    BY <2>1 DEF Inv, PubkeyWritten, AddressWritten, AddressOf, TextOf, ItsPubkey
  <2> QED
    BY <2>2, <2>3, <2>4 DEF Inv
<1> QED
  BY <1>1, <1>2, <1>3 DEF Next, Calls, Sends

LEMMA InvAlways == Spec => []Inv
  BY InvInit, InvStep, PTL DEF Spec

LEMMA CallStep == Inv /\ [Next]_vars => [Call!Next]_Call!vars
<1> SUFFICES ASSUME Inv, [Next]_vars PROVE [Call!Next]_Call!vars
  OBVIOUS
<1>n. NothingReads /\ NothingReads'
  BY NothingRead, PTL
<1>1. CASE Calls
  <2>1. pc # "sent" /\ pc' # "sent" /\ job' = job
    BY <1>1
       DEF Calls, Derive, InitPrivateKey, HashMessage, EcdsaSign,
           ConvertDERtoRSV, GeneratePair, CatchCxError, EncodePubkey,
           ReviewAddress, CxCall, Fails
  <2> QED
    BY <1>n, <2>1 DEF NothingReads, Call!vars
<1>2. CASE Sends
  <2>1. pc # "sent" /\ job' = job
    BY <1>2 DEF Sends, ReplyFailure, Reply, AppReplyAddress, AppReject, Send
  <2>2. Answered' \in CallOutcomes
    BY <1>2, ReplyFailureStep, AnswerStep, AppRejectStep DEF Sends
  <2> QED
    BY <1>n, <2>1, <2>2 DEF NothingReads, CallOutcomes, Call!Next
<1>3. CASE UNCHANGED vars
  <2>1. Answered' = Answered /\ job' = job
    BY <1>3
       DEF vars, Answered, Sw, IsSignature, IsAddress, Signed
  <2> QED
    BY <2>1 DEF Call!vars
<1> QED
  BY <1>1, <1>2, <1>3 DEF Next, Calls, Sends

(* For all lengths a signature or an address can have, what is computed    *)
(* stays inside the command buffer, with room for the status word.         *)
THEOREM LengthsFit == Spec => []TypeOK
<1>1. Inv => TypeOK
  BY DEF Inv
<1> QED
  BY <1>1, InvAlways, PTL

(* Whichever SDK call fails, and whatever it leaves behind, catch_cx_error *)
(* clears the keys before anything is encoded, shown or sent.              *)
THEOREM KeysAreCleared == Spec => []SecretsCleared
<1>1. Inv => SecretsCleared
  BY DEF Inv
<1> QED
  BY <1>1, InvAlways, PTL

(* The address screen (addr.c) and the answer (app_reply_address) end at   *)
(* the same byte, whatever the length of the address.                      *)
THEOREM ReviewsShowTheAnswer == Spec => []ShownIsAnswered
<1>1. Inv => ShownIsAnswered
  <2> SUFFICES ASSUME Inv, pc = "review" PROVE ShownIsAnswered
    BY DEF ShownIsAnswered
  <2>1. ok /\ job = "address"
    BY DEF Inv, Succeeded, TypeOK
  <2>2. PICK n \in Base58Lens : AddressOf(n)
    BY <2>1 DEF Inv, AddressWritten
  <2>3. n \in 1..28 /\ responseLen = 70 + n /\ G_io_apdu_buffer[70 + n] = Zero
    BY <2>2, Numbers DEF AddressOf
  <2>4. \A i \in 65..(68 + n) : G_io_apdu_buffer[i] # Zero
    <3>1. \A k \in 1..(4 + n) : TextOf(n)[k] # Zero
      BY <2>3 DEF TextOf, Zero, Thing, Base58
    <3>2. \A i \in 65..(68 + n) : i - 64 \in 1..(4 + n)
      BY <2>3
    <3> QED
      BY <2>2, <3>1, <3>2 DEF AddressOf
  <2>5. G_io_apdu_buffer[69 + n] # Zero
    BY <2>2 DEF AddressOf, Zero, Thing
  <2> QED
    BY <2>3, <2>4, <2>5, Numbers DEF ShownIsAnswered
<1> QED
  BY <1>1, InvAlways, PTL

(* A signature or an address computed call by call is, to the host, one    *)
(* step: the whole answer for the key and text it was asked for, or a bare *)
(* status word.  It is what the command handler's model takes it for.      *)
THEOREM KeyUseIsACall == Spec => Implements
<1>1. Init => Call!Init
  BY NothingRead DEF Init, Call!Init, NothingReads
<1> QED
  BY <1>1, CallStep, InvAlways, PTL DEF Spec, Implements, Call!Spec
=============================================================================
