# Verification of the Matrix AI Ledger app

TLA+ models of the app in `src/app/src` and of its client in `src/js/src`,
checked with TLC and, where it matters most, proved with TLAPS. `PROJECT.json`
lists every run, theorem, mapped source line, hazard and finding; this file
explains them.

## 1. The system

The app runs on a hardware wallet. A host (the client in `src/js`, or any
other program) sends it commands over a serial link, one buffer at a time; the
app answers in the same buffer. Two kinds of command need the user: an address
to confirm, and a transaction to sign.

| component | state it keeps | operations | modelled in |
|---|---|---|---|
| Command handler, `apdu_handler.c`, `common/actions.h` | `tx_initialized`, `hdPath`, the command buffer `G_io_apdu_buffer`, `action_addrResponseLen`, whether an answer is owed | `handleApdu` and the handlers under it; the callbacks `app_sign`, `app_reject`, `app_reply_address`, `app_reply_error` | `ApduApp` |
| Transaction buffer, `common/tx.c` | the bytes received, the parsed context | `tx_initialize`, `tx_reset`, `tx_append`, `tx_parse`, `tx_getItem` | `ApduApp` (buffer), `TxParser` (items), `Device` (both) |
| Transaction parser, `parser.c`, `parser_impl.c` | the static `tx_obj` | `parser_parse`, `parser_validate`, `parser_getItem` | `TxParser` |
| RLP reader, `rlp.c` | a context: buffer, length, offset | `rlp_parseStream`, `rlp_read`, `rlp_readList`, `rlp_readUInt256` | `Rlp`, and `UInt256` for the last |
| 256-bit arithmetic, `uint256.c` | none | sums, shifts, products, division, `tostring256` | `UInt256`, `ToString256` |
| Keys and addresses, `crypto.c`, `crypto_helper.c` | keys on the stack, for the length of a call | `crypto_sign`, `crypto_fillAddress`, `crypto_encodePubkey` | `KeyUse`; as one step in `ApduApp` |
| Address review, `addr.c` | the expert setting (external) | `addr_getItem`, `addr_getNumItems` | `Device` |
| Client, `js/src` | for each call, the chunk to send next and the last result | `sign`, `getAddressAndPubKey`, `showAddressAndPubKey` | `Client` |
| SDK, ledger-zxlib, hw-transport | the screen, the link, the append buffer, the transport's lock | `io_exchange`, `view_*`, `buffering_*`, `send` | external, as used |

The interaction that matters: `handleApdu` runs to completion for each command.
If a command needs the user it sets `IO_ASYNCH_REPLY`, returns without an
answer, and leaves a screen whose buttons run a callback. The callback runs
later and reads the *same globals again*: `hdPath`, the transaction buffer, the
command buffer. Screens read `ctx_parsed_tx` and `tx_obj` whenever an item is
shown. Nothing in the handler says that these globals belong to a review; that
they do is a matter of which commands can arrive when, and so of the client: a
signature takes it several commands, nothing keeps two of its methods from
running at once, and any `send` may fail.

What is hard here, and therefore what the properties are about:

* globals shared between a command, the screen and a later callback, and
  commands in orders nobody tests (a block without INIT, an address request in
  the middle of an upload, a second INIT with a bad path);
* an upload cut off by a full buffer, a refused block, a reset or a restart, and
  taken up by a client that does not know;
* calls of several callers, whose chunks alternate on one transport;
* a static object that outlives the transaction it was read from;
* three numberings (fields of the transaction, items of the review, parts of
  a recipient) with gaps between them;
* lengths chosen by the host, in 64, 16 and 8 bits;
* values checked with one buffer size and shown with another;
* a chain of SDK calls, each of which may fail, with keys on the stack and the
  answer half written in a buffer that is not cleared;
* multi-word arithmetic, where carries show only at the limits of a word.

## 2. Modules

```
SigningSession  <--implements--  ApduApp  <--implements--  Device = ApduApp + TxParser + screens
                                    ^                                         |
                                    |---implements---  Client = ApduApp + callers and link
CryptoCall      <--implements--  KeyUse
Rlp  <--  RlpEncoding       UInt256  <--  ToString256
```

`Answers` holds the answers and reviews, shared by the modules about commands,
and `Digits` what a sequence of digits stands for, for the properties of the
modules that read and write numbers.

**`ApduApp`** is the command handler with its globals. A command is one action,
since nothing can come between its first and last statement; a callback is one
action. The state is the code's: each global is a variable of the same name,
`view` is the screen, and `reply` is the last answer, `None` from
`IO_ASYNCH_REPLY` until a callback sends one. `SignInit`, `SignAdd`, `SignLast`,
`SignTooLong`, `SignNotInitialized` are the branches of `process_chunk` with
what `handleSign` does after it; `ExtractHDPath(p, sw)` gives the path, in the
code's order (copied, then checked), and its status word; `GetAddrRefused` to
`GetAddrReviewed` are the outcomes of `handleGetAddr`. `RefuseCommand` stands
for the refusals made before any handler reads the command. Paths are values,
split into mainnet paths, others, and one too short; blocks and texts are
sequences of abstract bytes; which texts the parser accepts is a constant.
`IoReset` loses the screen and keeps the globals; `Restart` initialises all.

`HostsWait` says what is assumed of the host. `TRUE`: it sends nothing while an
answer is owed. `FALSE`: a command may arrive at any time, since the SDK's event
loop takes one while a review is on the screen and the handler has no guard
against it. That the client *is* a host that waits is not assumed but shown, by
`Client`.

**`SigningSession`** is the abstract specification: an upload under one path, a
review, an answer, and no globals. Its `Approve` makes the answer from the
review and from nothing else. `ApduApp` implements it under
`upload <- OpenUpload, review <- Screen, answer <- reply`, where `Screen` is
what the user sees (`ctx_parsed_tx`, or the address in the command buffer) while
`AppSign` reads `hdPath` and `txBuffer`: the refinement is the claim that the
two are the same.

**`TxParser`** is the parser above the RLP reader. A text is a list of items; an
item has what the parser can tell apart: kind, length, number of decimal
digits, last byte, whether it is a date `printTime` can write, and, for a list,
its items and whether bytes that are no item follow them. `at` records where in
the transaction an item belongs; only the properties read it. Each part of
`_read` is an action, so that `tx_obj` can be seen half read; `GetItem` is
`parser_getItem`, used by `ParserValidate` with 40-byte buffers and by
`TxGetItem` with the screen's. `RlpItem` is the set of items the reader can
find, closed under taking the items of a list (`ItemAssumption`).
`Acceptable` says, part by part and with no `tx_obj`, which texts must be
reviewed: `VerdictIsOfText` compares it with what the actions come to. Paging
and error texts are left out. `NumItems` is counted in eight bits as in the code;
`ParserAssumption` bounds the recipients there is room for (ten in the code) so
that the count and an index, an `int8_t` in `tx_getItem`, stay exact.
`ParserInitContext(<<>>)` stands both for an empty text and for one in which the
reader finds no item at all. Both are refused; that the second clears `tx_obj`
first is seen by nobody, since nothing is shown before another text is accepted.

**`Device`** puts the two together. The last block starts the parser on the text
it completes (`ParseBegins`), the parser's steps follow with nothing of the app
in between, and `ParseEnds` is the rest of `handleSign`, with the parser's
verdict in the place of `AcceptedTx`. `tx_obj` lives on from one text to the
next. Pages are read from it one at a time (`ShowItem`); one that cannot be
shown turns the review into an error (`ItemFails`). `AddrGetItem` is the address
review: the command buffer on the first page, and, with the expert setting, the
path of `hdPath` on the second. `ImplementsApp` says that the whole is an
`ApduApp`: whether a text is accepted depends on that text alone. For this
`AcceptedTx` must be the texts whose items are acceptable
(`AcceptedAssumption`).

**`KeyUse`** is a signature or an address SDK call by SDK call, in the order of
`crypto.c`, each call succeeding or failing with its output untouched or half
written. The command buffer is an array whose bytes are known by what wrote
them, so that a stale, partial or secret byte in the answer is visible. The end
of each job is that of its caller in `common/actions.h`. **`CryptoCall`** is what
`ApduApp` takes it for: one step, the whole answer or a bare status word.
`KeyUse` implements it under `answer <- Answered`, which reads the bytes that were
sent as the client does (`index.ts`, `helper.ts`).

**`Client`** is any number of callers of the JavaScript client over one
transport, and `ApduApp` behind it with `HostsWait = FALSE`. A method is a
sequence of sends; between two of them the methods of other callers run. The
transport carries one exchange at a time and refuses a second (hw-transport,
which is not in the repository, so this is external). `After` is what a method
does with an answer or an error: `sign` goes on after its first chunk whatever
came of it, ends at the first later chunk that failed, and returns nothing but a
status if the message was empty. The device may be locked (`Locked`), a send may
fail before the command is out (`SendFails`), and a link that breaks during an
exchange is reset at both ends (`LinkDown`, with `IoReset` or `Restart`).
`DevicePath` gives what the device reads of the four to six components the
client lets through. Two fields of a call are not in the code and are read
only by properties: `approved`, what the user approved during the call, and
`whole`, that the device took the call's `P1_INIT` and no command of another
caller since.

**`Rlp`** is the reader byte by byte, the base, the prefixes and the widths of
the lengths being parameters. The loop that adds up a long length is an action
per byte. `ReadList` starts again inside any list that was read, so every
nesting is a behaviour. `Announced` is what the bytes at a place say of the item
there, whatever the reader does. `LengthAssumption` says that a length written in
as many bytes as a prefix can announce fits its type, as eight bytes do in the
code. **`RlpEncoding`** is the other end, for one property: `Encode` writes an
item, its length in the prefix or in digits, `Sources` are the lists of items
that are written, each perhaps followed by the beginning of one more, and
`SourceAssumption` says that every item is well-formed (a length's digits are
those of the length, leading zeros allowed) and that what follows is cut off.

**`UInt256`** has the functions of `uint256.c` as operators on pairs of pairs of
words, and `rlp_readUInt256` with the buffer it pads. **`ToString256`** is
`tostring256` with `divmod256`, an action for each turn of their loops.

`MCApduApp`, `MCDevice`, `MCClient`, `MCKeyUse`, `MCTxParser`, `MCRlp` and
`MCArithmetic` give the constants values. `MCArithmetic` has the runs of both
arithmetic modules: a behaviour is a call of `tostring256` or of one other
function. Operators marked *a wrong variant* are not part of any specification:
they are plausible bugs, one for each property, each of which is put in the
place of the right definition to see that the property notices.

## 3. Runs

| run | question | bounds, and why they are enough |
|---|---|---|
| `device_sequential` | with a host that waits: `DeviceTypeOK`, `ReviewOwnsGlobals`, `AnswerOwedIffReview`, `ScreenIsOfTheAnswer`, the refinements `Implements` and `ImplementsApp`, and, with fairness, `EveryCommandAnswered` | two mainnet paths (an upload and something else), one other, one short; two bytes; blocks of 0, 1 and 2 bytes into a buffer of 2, so that it is filled exactly, overflows, and holds more than one block; texts accepted with no, one and two recipients, one with a number too long for the screen, one refused at once and one only after its recipients were read |
| `device_impatient` | what holds whatever the host sends and when: `OpenUploadIsMainnet`, `UploadOnlyGrows`, `ReviewStartsFromUpload` | the same paths and blocks, a buffer of 3 |
| `client` | `ClientTypeOK`, `SignatureWasApproved`, `SignedAsAskedOnceBegun`, `OkMeansDone`, `DeviceIsServed`, and, with fairness, `CallsReturn` | two callers, each with a path of its own; messages that take one, two and three chunks, so that there is a block between the first and the last for another caller to get behind; a text of one caller is the end of a text of the other; a device of two bytes |
| `client_asked` | finding, section 6 | one caller, two paths |
| `keyuse` | `TypeOK`, `SecretsCleared`, `ShownIsAnswered`, `Implements` | both jobs, every call failing, with the real buffer sizes; every length of a DER signature from 64 to 73 bytes (the largest fills `signature_t`) and of base 58 from 20 to 28 characters |
| `parser` | what a review shows: `TypeOK`, `ShowsThisText`, `LabelsFitFields`, `RecipientsShown`, `VerdictIsOfText`, `ValidatedCanBeShown` | a whole transaction, and for each field, extra field, recipient and list the variants that the code tells apart: other kinds, empty, too long, 36 to 40 digits, too few and too many items, broken; room for two recipients and texts with none to three; any text after any other |
| `parser_entertype`, `parser_unread`, `parser_empty` | findings, section 6 | the same |
| `rlp` | `TypeOK`, `InBounds`, `ItemsAreAnnounced`, `ReadsWhatWasWritten` | bytes 0 to 15 with every kind of prefix; all inputs of up to 3 bytes and some of 4; up to two encoded items of every kind, lengths written short, in one byte and in two, one of them zero, followed by nothing or by a cut-off item; room for one or two items |
| `arithmetic` | `TypeOK`, `StaysInBuffer`, `DivisionIsExact`, `WritesTheNumber`, `RefusesOnlyTooLong`, `Returns` of `tostring256`; `AddsAndSubtracts`, `Shifts`, `Mul128IsProduct`, `ReadsBigEndian` | words of four bits. `tostring256`: the values 0, 1, 9, 15 in every place, bases 2, 3 and 10 (and 1, refused), buffers too small for most numbers, for some, for none. The others: 0, 9, 15 in every place of both numbers, which gives every pattern of carries; shifts from 0 past the whole width; numbers of 0 to 8 bytes |
| `arithmetic_mul` | finding, section 6 | words 0 and 15, squares |

`CHECK_DEADLOCK FALSE` is used where a call ends and nothing follows: `rlp`,
`arithmetic`, `arithmetic_mul` and `keyuse`. Everything else is checked for
deadlock.

**Fairness.**

* `FairDeviceSpec`: the handler runs on (weak fairness of `ParseStep` and
  `ParseEnds`, code without a wait in it), and a user in front of a review
  presses one of its buttons in the end (`DeviceDecides`). The code has no
  timeout, so without the second nothing need ever happen after a review.
  Commands, pages, resets and restarts are not assumed.
* `FairClientSpec`: for each caller, a promise that can be settled is settled and
  the method runs on to its next send (`ClientStep`), and again the user
  (`UserStep`). A method may find the transport busy each time it looks; weak
  fairness is enough because the send then fails, which is a step too.
* `arithmetic`: a call of `tostring256` runs on.

**What connects the modules.** The refinements above; and, between modules that
have no state in common, one property of the lower for each assumption of the
upper. `ListError` and `ItemsRead` of `TxParser` are what `ItemsAreAnnounced` and
`ReadsWhatWasWritten` say of `Rlp`. `Decimal` of `TxParser` (a number fits if it has fewer digits
than the buffer has bytes) is what `WritesTheNumber` and `RefusesOnlyTooLong`
say of `ToString256`, and its number is that of the bytes by `ReadsBigEndian`.
The outcomes of `AppSign` and `GetAddrAnswered` are those of `CryptoCall`.

## 4. Proofs

All are for every value of the constants, from the named `ASSUME`s of the
modules, which TLC evaluates in the runs.

**`ApduAppProofs`**, for all paths, blocks, accepted texts and capacities:

* `TypeCorrect`: `[]TypeOK`, which includes that the transaction buffer never
  exceeds its capacity. `TypeOK` is inductive.
* `OpenUploadsAreMainnet`, `UploadsOnlyGrow`, `ReviewsStartFromUploads`: whatever
  the host does. The first is inductive with `TypeOK`: any command that changes
  `hdPath` also closes the upload or has checked the path. The other two are
  action properties: `UploadStep` lists what a step can do to an upload, and
  from `OpenUploadIsMainnet` a review gets a mainnet path.
* `ReviewsOwnTheirGlobals` and `AnswersAreOwedToReviews`, assuming `HostsWait`.
  Neither is inductive alone. A review keeps its globals because no command
  runs while it is on the screen, which follows from `AnswerOwedIffReview`; a
  transaction review gets a mainnet path because the upload it came from had
  one, which is `OpenUploadIsMainnet`. Their conjunction with `TypeOK` is the
  inductive invariant.
* `AppIsASession`: `Spec => Implements`, assuming `HostsWait`. Every step of the
  app maps to a step of `SigningSession` or to a stutter; the invariant is used
  for the callbacks, where what the code reads must be what the screen showed.

**`ClientProofs`**, for any number of callers, all messages and chunk sizes, and
with no assumption about the host. The invariant is built in layers, each using
those before it:

1. `CallsInv`: types, and that exactly the call whose exchange is open awaits an
   answer, and only then can the device owe one.
2. From this every step of the two is a step of a device whose host waits:
   `DeviceHasWaitingHost`, `ClientSpec => DeviceIsServed`. It discharges
   `HostsWait`, and brings the invariant of `ApduAppProofs` with it.
3. A review, and then a signature, belongs to the call that is awaited:
   `SignaturesWereApproved`.
4. While a call is `whole`, the device's open upload has its path and exactly
   the pieces it has sent (`Prefix`, which a further piece extends by
   `PieceExtendsPrefix`): `SignaturesAreAsAsked`.
5. `Done`: a call that awaits an address will get that of its path, from the
   buffer of a review if need be, and one that awaits a signature gets one or
   an error; no other call's exchange comes between: `SuccessIsReal`.

**`TxParserProofs`**, for all texts, of any nesting, any number of recipients and
any screen:

* `ParserTypeCorrect`, `PagesShowThisText`, `ValidatedIsShown`,
  `AcceptedTypesAreNamed`. The invariant says, for each place `tx_parse` can have come
  to, which parts of the static object have been overwritten with parts of this
  text (`RootRead`, `ExtraRead`, `RecipientsRead`); that recipients counted are
  recipients read, so that nothing older is within reach of an index; and that a
  text under review has passed every page with the smaller buffer. That wider
  screens fail no more often than narrow ones is the lemma `LargerScreens`.
* `VerdictDependsOnText`. The invariant adds, for each place, what of
  `Acceptable` the text has passed (`RootPassed`, `ExtraPassed`, `TypePassed`,
  `RecipientsPassed`); a refusal is then a part it has not, and `PagesFit` says
  that validation fails for no page of a text whose parts fit. No induction over
  the text is needed: both sides look at each part once.
* `LabelsNameTheirFields`, `EveryRecipientIsShown`, if each item says truthfully
  where it stands (`ItemsArePlaced`, which only these two properties depend on
  and TLC checks of the texts of the run, `PlaceAssumption`). Pages and parts of
  recipients are matched by `PageOf`: every page after the fixed ones is of one
  part of one recipient (`EveryPageIsOfAPart`), every part has a page
  (`PartIsShown`), and no fixed page shows a recipient.

**`DeviceProofs`**, for all blocks and texts:

* `DeviceTypesCorrect`, `ScreensAreOfTheAnswer`, with a host that waits. The invariant joins the two
  above: the handler's keeps the buffer and the path while a review is up, the
  parser's keeps the object made from that text, and `Parsing` says that what is
  parsed is the buffer with the block that completes it.
* `DeviceIsAnApp`: `DeviceSpec => ImplementsApp`, whatever the host does. The
  steps of the parser are stutters, and the one that ends it is `SignLast` with
  the verdict of `AcceptedTx`: by `VerdictInv` the verdict is about the text
  that is parsed, and by `VerdictOwned` this is the buffer with the last block.
* `DeviceIsASession`, with a host that waits: by the first, everything that
  holds of `ApduApp` holds of the device, its being a session included.

**`RlpProofs`**, for every base, every choice of prefixes and every input
shorter than 2^16 bytes:

* `TypeCorrect`, `ReaderStaysInBounds`, `ItemsDoNotOverlap`, the last
  (`ItemsInOrder`) also a part of the invariant. The invariant adds
  `HeaderDone`, that no length bytes are left to add up outside that loop,
  because a nested list starts its offset from zero while `head` stays. That
  the 64-bit length is cut to 16 bits for a nested list is harmless because a
  list lies inside an input shorter than that (`WindowIsShort`), and this is
  where the bound on the input is used.
* `ItemsAreAsAnnounced`. `Reading` says that the offset is where the next item
  begins, that a length which is being added up is so far the number of its
  first digits (`LengthSoFar`), and that kind and length are then those the
  bytes say (`ContentKnown`). That no length is cut off on the way is
  `LengthAssumption`. `RoomLeft` says that an item is begun only where the
  window and the room go on. So a list is read to its end, to the room there is,
  or to an item it cuts off, at every nesting and not only where an encoder wrote
  it.
* `WrittenIsReadBack`, for every list of well-formed items: what is announced is
  what was written. Where the items of a source end in its bytes is a sequence
  `e` (`Laid`), which `FlattenedEnds` gets from the definition of `FlattenSeq`;
  the bytes of an item announce its kind, its content and where it ends
  (`WholeIsAnnounced`), and those of a beginning announce an end that is not
  there (`CutOffIsAnnounced`). By induction on the items read, the one after the
  first `m` begins at `e[m]` (`BeginsWhereWritten`). A tail is read by nobody, and
  the reader gives up before it exactly if there is room for it
  (`EndsWhereWritten`). `OutermostWindow` is part of the invariant because the
  property is about the outermost list: no list inside stands at position zero.

**`KeyUseProofs`**, for all DER signatures of up to 73 bytes and all addresses of
up to 28 characters, whichever call fails:

* `LengthsFit` (no length passes the room of what was written, `MaxLen`),
  `KeysAreCleared`, `ReviewsShowTheAnswer`. The invariant says, for
  each place the code can have come to, what the buffer holds: the DER bytes
  before the conversion (`DerWritten`) and r, s and v in front of them after it
  (`SignatureWritten`), the public key (`PubkeyWritten`) and then the address up
  to the zero after it (`AddressWritten`); that the private key is that of the
  path until it is cleared (`KeyMade`); and that nothing is answered before
  `ok` says so (`Succeeded`).
* `KeyUseIsACall`: `Spec => Implements`. Until the answer is sent the host reads
  nothing, so every call is a stutter of `CryptoCall`. Sending is its one step:
  what the host reads from those bytes (`SignatureRead`, `AddressRead`,
  `RefusalRead`) is one of the outcomes it allows.

**`UInt256Proofs`**, for words of any width of at least four bits (the code's
have 64), has the lemmas about the operators of `UInt256`:

* Sums, differences, products and shifts go by two digits at a time: a word is
  two half-words, a half two words, a number two halves, and one lemma about
  numbers of two digits (carries, borrows, what a shift moves from one digit to
  the other) serves each.
* The provers know `2^n` only by name. Its laws are obtained by counting the
  subsets of `1..n` (`FS_SUBSET`), and induction over numbers by looking at the
  least counterexample (`NaturalsByInduction`, from the library's theorem that
  `<` is well founded), since the library's own induction theorems cannot be
  used.
* `NumberOf` is a recursive function; that it exists and is unique, and so that
  each further digit multiplies what is before it, is `OneDigitAfterAnother`.

**`ArithmeticProofs`**, for all words, bases and buffer sizes:

* `SumsAndDifferences`, `ShiftsArePowers`, `ProductsOfHalves`,
  `BytesAreBigEndian` follow from those lemmas, given that the words of the run
  are words (`CallWordsAssumption`).
* `NumbersStayWide`, `NothingPastTheBuffer`, `QuotientIsExact`. The invariant of
  the division is `NextBit`: the shifted copy of the divisor is the divisor times
  the power of two that `adder` holds, the remainder is less than twice that, and
  the quotient has no bit up to there. So adding that bit is setting it, no
  shift loses anything, and when `adder` has been shifted out the remainder is
  less than the divisor.
* `TheNumberIsWritten`, `OnlyTooLongIsRefused`. The invariant (`Writing`) has a
  sequence of quotients, the number first and what is left to divide last, each
  of which is the next times the base and a digit. Read backwards it is how
  `NumberOf` builds the number from the digits; and if room ends while something
  is left, the number is at least a one and as many zeros as there was room for.

## 5. Only model-checked, and not modelled

Only liveness (`EveryCommandAnswered`, `CallsReturn`, `Returns`) is only
model-checked: it is out of the prover's reach. Every other property of a run that passes is a theorem.

Not modelled:

* `divmod128` and `tostring128`: the same code again for 128 bits, which nothing
  calls.
* What a hash, a curve operation or base 58 computes; a result is known by what
  it was computed from.
* Paging of long values, the wording of errors, `printTime`'s calendar.
* `INS_TEST`, which exists only in test builds.
* `app_main` and everything of the SDK and ledger-zxlib: submodules whose
  directories are empty. They appear as the code uses them.
* `getVersion`, `appInfo` and `deviceInfo` of the client, inherited from
  ledger-js, and the transport, which is known only by what it refuses.
* The Rust stub, which is not linked; the Keccak of host builds; the tests.

## 6. Where the code and its documentation disagree

* **`SignedAsAsked`**: `sign()` does not look at what its first chunk came to
  (`index.ts:126`). After a refused or lost INIT its blocks go into an upload
  that an earlier call left open, and it returns, with OK, a signature of
  another text or path than it was asked for. `SignatureWasApproved` still
  holds: the user has seen that text. `SignedAsAskedOnceBegun` says that this
  is the only way, other than a second caller.
* **`EnterTypeShown`**: the review's EnterType is `fields[7]`, the R of the
  signature. `parser_txdef.h` leaves R and S out of the numbering and the two
  items after EnterType add 2; EnterType does not (`parser.c:317-320`).
* **`NoUnreadItems`**: lists are read up to the number of items there is room
  for, so the checks for a wrong number of items notice only missing ones;
  surplus items are signed unseen (`parser_impl.c:39`, `rlp.c:27`).
* **`EmptyIsEmpty`**: values from 1 to 127 are encoded as a single byte, which
  the reader gives length 0, and a recipient's amount of length 0 is shown as
  "Empty" (`parser.c:253`).
* **`Mul256IsProduct`**: `mul256` puts a carry one word too far to the left
  (`uint256.c:411`). Nothing in the app calls it.

Met on the way, and written into properties as the code has it:

* Validation uses 40-byte buffers; on a 37-byte screen a number of 37 to 39
  digits passes it and then turns the review into an error. `ValidatedCanBeShown`
  is therefore about screens of at least 40, and `Device` has the error screen.
* The client lets paths of four to six components through; the device refuses
  four, and reads five of six. The client's properties are about the path the
  device read.
* A message without bytes is sent as a single LAST with the path as its data;
  whatever the device answers, no signature is returned. `OkMeansDone` leaves
  it out.

`docs/APDUSPEC.md` is a template that was never adapted (another class byte and
coin, "TODO Update"). It says nothing about this app, so no property and no
finding is taken from it.

## 7. Plan

Done: `ApduApp` with `SigningSession`; `TxParser`; `Rlp`; `UInt256` and
`ToString256`; `Client`; `KeyUse` with `CryptoCall`; `Device`; the proofs of
section 4.

What could follow:

1. The link between `Rlp` and `TxParser` as a refinement: items of the one made
   from the bytes of the other. The items in a list depend on those in its
   lists, so the items of some bytes are a recursive definition; what is needed
   is a relation of items and bytes that each level has to the next.
