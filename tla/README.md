# Formal model of the Skycoin application for Ledger Nano

TLA+ specifications of this repository's program, the TLC runs that check them
on small instances, and theorems about them checked by TLAPS.

Paths below are relative to the repository; the C sources are under `src/`.

## 1. The system

A host script sends APDUs to a hardware wallet; the wallet answers them, some
only after its user has pressed a button. The program is single-threaded: one
loop (`sky_main`) blocks in `io_exchange`, inside which button and ticker events
are dispatched, so that *between* two APDUs any button handler may run, and
inside a handler nothing else does.

| part | state it keeps | operations | interacts through |
|---|---|---|---|
| transaction decoder, `skycoin-api/txn.c` | `signTxnContext_t`: state, counters, slots, running hash, saved bytes, pointer into the APDU buffer | `txn_next_elem`: reads elements, saves the tail of a packet, signs, fills responses | called by the command handler *and* by the right button; "returns" by throwing |
| signing command, `handleSignTxn` | none of its own | offers, feeds the decoder, redisplays, refuses | sets the decoder's buffer pointer, answers later (`IO_ASYNCH_REPLY`) |
| transaction screen, `ui/newTransaction.c` | the strings of the approval screen | left: cancel; right: set the decoder up, run it, answer | the decoder's state decides what the screen shows |
| message screen, `ui/info_message.c` | a text | any button: back to the menu | |
| command loop, `main.c` | `tx`, `flags`, the APDU buffer | dispatch, status words | `tx` is shared with the decoder by pointer |
| `GET_*` commands | `getPublicKeyContext_t`: BIP44 path, address | derive a key, answer at once | the path is the one signing uses |
| address screen, menu and ticker, `ui/getPublicKey.c`, `ui/main_ui.c` | scrolling offset and direction, `ux_step_count` | open and leave the screen, redraw it at every interval | the globals are shared with the transaction screen, and the copied address runs over its lines |
| conversions, `skycoin-api/skycoin_crypto.c` | none | address to base58, TLV signature to R and S | called by the handlers, the decoder and the approval screen |
| `scripts/sign_transaction.py` | packet number, replies kept | stream the transaction, then collect hash and signatures with empty packets | one exchange at a time |

What is hard here: the decoder is a resumable parser driven from two places; an
APDU's unread bytes stay in a buffer that the next command overwrites; the same
numbers mean a decoder state and a thrown value (`TXN_OUT` = `TXN_APPROVE_OUT` = 3,
`TXN_READY` = `TXN_COMPUTE_SIGS` = 4) and the code relies on it; a session can be
abandoned at any point by the script, the user or the power supply; and the
order in which a command, its answer and a press meet decides whether bytes are
lost. The hazards are listed, each at its line, in `PROJECT.json`.

What makes each part correct:

- decoder: however a transaction is cut into packets it is hashed whole and in
  order, slot *i* holds input *i* and then its signature, a response is never longer
  than an APDU;
- signing: keys are used after one confirmation for every output, each of which was
  displayed; a cancelled transaction is not signed; a command is always answered;
- session: the script ends, and ends with its own signatures; what another
  script or another session did leaves no trace in it;
- screens: what scrolls and switches on the approval screen is the output to be
  approved, its address under `Address:` and its amount under `SKY:`, and both come up;
- conversions: an address decodes back from its text, an amount reads as the
  number of coins, a signature keeps its bytes, and no index leaves its array;
- commands: an answer contains what was asked for, and inputs are signed with
  the keys of a path that was accepted.

## 2. Modules

| module | what it models |
|---|---|
| `TxnDecoder` | `txn.c`: one action for each branch of `__txn_next_elem`, the two buffer primitives |
| `SignTxn` (extends it) | `handleSignTxn`, the buttons of the transaction and message screens, `io_async_exchange_*` |
| `SigningSession` (extends it) | the script, the user, faults; the properties; the refinement mapping |
| `SigningPromise` | the abstract specification: what the device promises its user |
| `CommandLoop` (extends `SigningSession`) | `sky_main`, the `GET_*` commands, `get_bip44_path`, a second script |
| `DeviceScreens` (extends `CommandLoop`) | the two preprocessors, the ticker, `ui_idle`, the address screen: every pass over a scrolled text |
| `Base58` | `encode_base_58`, one action for each step of a loop, and the bytes of an address |
| `AmountText` | the text of an amount: cut, print, strip zeros |
| `SignatureTLV` | `convert_signature_from_TLV_to_RS` |
| `Conversions` (extends these three) | one conversion per behaviour |
| `SigningInvariants` | the inductive invariants of the session |
| `SigningSession_proofs`, `SigningRefinement_proofs`, `SigningWhole_proofs`, `SigningResult_proofs` | theorems about the session |
| `Numerals_proofs` | lemmas about the numbers that digits are, in any base, and induction over them |
| `CommandLoop_proofs`, `DeviceScreens_proofs`, `Conversions_proofs` | theorems about the loop, the screens, the conversions |
| `MCSigningSession`, `MCCommandLoop`, `MCDeviceScreens`, `MCConversions` | instances for TLC |

### How the model corresponds to the code

**Bytes are places.** A byte is identified by the transaction it belongs to and its
position there, `[txn, pos]`. `buffer` is the place of the first saved byte and
`offset` their number, `dataBuffer` and `dataLength` the same for the packet. Joining
saved bytes to the packet's gives an element of the transaction exactly when they
are adjacent (`Element`), otherwise `Garbled`. The running hash is the place up to which
it has absorbed a transaction from its start, `Garbled` once something else went in,
`EmptyHash` after `cx_sha256_init`. A signature is the pair of the hash and the
input it signs. So a lost, repeated or swapped byte shows in the hash, and no
byte string is built. `CountsAt` says which numbers the decoder may read where;
misaligned bytes yield any count in the constant `Junk`.

**The decoder's loop.** `txn_next_elem` loops until something is thrown. `caller` says
who called it; while it is set and nothing is thrown (`Running`) only the actions of
`txn_next_elem` are enabled; then the action of the caller for that value
(`HandlerShowsOutput`, `ButtonReleases`, ...) runs and clears `caller`. Commands and
buttons need `Idle`. This keeps the program's atomicity (no handler is
interrupted) and lets each branch be an action. Dead code is left out:
`TXN_ERROR` is thrown nowhere, so its two cases have no action.

**Answers.** `awaiting` says that a command is unanswered, `reply` is the answer on its
way. The SDK's `io_exchange` is external: an answer sent when no command waits
reaches nobody. `tx` and `response` are `*ctx->tx` and the content of the APDU buffer up to it.

**Host, user, faults.** `HostSend` is `send_to_ledger` together with the device's taking
the packet up (the exchange is a blocking call on one wire; nothing can come between
but a button, which commutes with the packet's journey). `HostReceive` keeps the replies as
the script's two loops do and fails on a status other than success, which
raises in `ledgerblue`. An ordinary user presses when a command waits, an
`Eager` one whenever the transaction screen is up. `HostDies` and `DeviceRestarts`
may happen at any point.

**Screens.** A pass of a preprocessor over the elements of a screen is atomic and ends
the action that displays the screen (`go_to_transaction_screen`, `Redraw`); the
passes that the ticker asks for are the action `Ticker`. The passes keep the order of the
code: the lower line (0x83) is drawn before the upper (0x80), so the label and the
interval follow an offset that has already moved. A line is what kind of text it holds
and of which output; that the text is cut to 15 characters is not modelled, where
the copy starts is. Where an offset that has missed its turn walks on, it is followed
up to `FarOut = 40`, past the end of any address; the program's goes on. `UX_ALLOWED`
(a locked device) is external, as are the SDK's drawing calls. A new address's
length is any of `AddressLengths`: base58 texts differ in length, and the bytes of an
address are in `Base58` only.

**Conversions.** `encode_base_58` is the code's loops over the code's arrays (`b58`, `size`,
`carry`, `i`, `j`), with digits for letters; input and result are the same memory in the
program, but the first is read before the second is written. `DigitsFor` is the estimate `size`.
The printing of an amount is `SPRINTF`, an external function that truncates to its
field; its widths are constants, and `AmountAssumption` says that there are decimals and that an int
holds every number of coins that leaves the decimals room (`Room`, 10^8 in the program). SHA-256 is the operator constant `Checksum`, and what
`cx_ecdsa_sign` returns is `TLV` of two numbers of 32 or 33 bytes.

**History.** `confirmed`, `seen`, `cancelled` and `accepted` are for properties only;
no guard reads them.

## 3. Runs

All bounds: `MaxSessions` (transactions started, 1 to 3) and `MaxCommands`
(commands of the other script). They stop the environment for good, hence
`CHECK_DEADLOCK FALSE`; the absence of a wait for ever is checked as
`SessionEnds`, `SessionSucceeds` and `OwedReplyHasAButton` instead. `Chunk` is the
script's own 254 bytes.

| run | instance | shows |
|---|---|---|
| `session_faults` | four sizes, three sessions, both buttons, faults, junk counts | `TypeOK`, `SignsOneWholeTransaction`, `CancelledIsNeverSigned`, `SessionEnds` |
| `shared_script` | 1 to 20 inputs with 1, 2, 3 or 8 outputs, a user who accepts; a command of a second script between any two exchanges, every check of a path passed and failed | `SignsOneWholeTransaction`, `SavedBytesPrecedePacket`, `ResponseFits`, `HostGetsItsSignatures`, `SoftWordsNeverEnter`, `SessionSucceeds` |
| `shared_eager` | six sizes, two sessions, buttons at any time, faults, junk counts, a command over abandoned reviews too | `LoopTypeOK`, `OwedReplyHasAButton`, `MessageMeansClosed`, `EveryOutputConfirmed`, `KeepsPromise` |
| `screens` | transactions whose outputs begin in the first packet, two sessions, one GET_ADDRESS, the address screen at any time, faults; addresses of 35 characters | `ScreensTypeOK`, `ScrollStaysInside`, `LabelFitsText`, `PlainTextIsWhole`, `EveryOutputSeen`, `ApprovalShowsCurrentOutput`, `AmountIsShown` |
| `conversions` | 48 addresses, 1400 amounts, 16 signatures | `StaysInBuffers`, `NoCarryIsLost`, `AddressDecodesBack`, `AmountIsExact`, `SignatureIsConverted` |

Why the bounds are enough: with 20 inputs allowed and steps of 36 and 37 bytes, the
80 sizes of `shared_script` put packet boundaries at many different offsets
inside inputs, before and after the output count, and inside outputs, and fill up to
seven responses. The position of a byte is all the data there is, so contents need
no enumeration. State that survives a session (`txn_state`, saved bytes, counters,
the screen) is met by the next one; three sessions let an abandoned one be
followed by the refused one that closes it and by one that is offered.

`screens` leaves out the transactions of `unseen_output` and addresses of different lengths,
with which what it checks fails (`runaway_text`); the default address has 24
characters, so the address screen leaves offsets of two lengths. Of the 35 characters
every offset from -1 to 20 is passed both ways. In `conversions` the addresses have 0
to 20 zero bytes at their front, and the largest number behind them; that the text is the same number is
checked by its remainders for nine primes whose product is beyond 58^35. An amount has two
decimals, an int 11 bits and the field 7 characters where the program has six, 32 and 16: the same
assumption (`AmountAssumption`) relates both triples, and every pattern of zeros, both sides of the
limit of the field and of the sign of an int are met. Numbers R and S have each of their
two lengths and bytes that are all different.

### Where the code does otherwise

Each of these runs checks one property that a comment, a text or a script of the
repository states and TLC finds violated; `PROJECT.json` quotes the line.

| run | what happens |
|---|---|
| `unseen_output` | an output decoded by `handleSignTxn` that ends its packet (`TXN_PARTIAL_OUT`, the `default` case) is never put on the screen, yet its confirmation is asked for and counted (7 inputs, 1 output). `screens` shows that when the outputs begin in the first packet, which the right button decodes, the screen is right. With 6 inputs, where the first packet ends inside the first output, an approval is asked for before any output has been read; the press that answers it is not counted (`EveryOutputConfirmed`), and the run leaves this case out to show the first. |
| `stale_offer` | cancel (and refusal) leaves `txn_state = TXN_OUT`: the next offer is drawn as an approval of the old output |
| `late_cancel` | cancel leaves the session open: a script that goes on is served, and its transaction signed |
| `early_press` | a press between an answer and the next packet runs the decoder on no data and overwrites the saved bytes |
| `runaway_text` | the scroll turns where the offset *equals* the end of the text, and a new address is put under an offset that is not reset: after 35 characters an address of 34 is run past, and the amount of that output never comes up |
| `refused_path` | a refused path request leaves the words it stored, and signing uses them; with no `GET_*` command at all it uses the zeros the path holds at the start |
| `stale_length` | `tx` keeps the 32 bytes of the inner hash, so the next `GET_VERSION` is answered with 35 |

One more disagreement needs no run: `skycoin_crypto.h:24` says of the base58 text
"length can be between 27 and 34 bytes + \0", while 35 digits are reached (`conversions`, and the
constant below the comment says 35); `StaysInBuffers` shows that 35 and the 0 byte fit
the 36 bytes of the fields.

`late_cancel` needs a script that does not stop at the error status of its pending
command: in the model, as in the code, the press of a button that answers no
pending command (or one whose script was replaced) sends that error to nobody.

## 4. Fairness

`FairSpec` assumes weak fairness of the device's computation, of the script's two steps
(it is a sequential program that blocks only in the exchange), and of the user's answer
while a command waits (`awaiting /\ (UserPressesRight \/ UserPressesLeft)`).
Nothing obliges a script to start, a fault to happen, or a user to press
otherwise. Under it `SessionEnds` holds with faults, and `SessionSucceeds` without
faults and with a user who accepts. With an `Eager` user `SessionEnds` does not
hold: after an early press the script may collect for ever.

`ScreensFairSpec` assumes weak fairness of the device's computation and of the ticker only, an
interrupt of the hardware at every interval. The user owes nothing there: `AmountIsShown`
says that the amount comes up *while* an approval is not answered.

## 5. Proofs

For every set of transactions and of junk counts, packet size, set of buttons, `Eager`,
`Faults` and `MaxSessions` allowed by the assumptions (`TxnsAssumption`,
`SessionAssumption`):

- `SessionTypeOK`: `Spec => []TypeOK`. `TypeOK` is not inductive: the index
  into `sig_input` and the bound on `offset` depend on the decoder's state.
  `Basics` adds `Counters` (saved bytes are fewer than the current element, `curr_obj` is
  within its count, counts are known once read) and `Control` (what a
  thrown value says of the state it was thrown in), and is.
- `SessionConfirmed`: `Spec => []EveryOutputConfirmed`, from `Approvals`, which adds
  that while the decoder is running in `TXN_OUT` every output read is confirmed:
  it is inductive relative to `Basics`. The point is that only the button enters
  the decoder in `TXN_OUT` (`Unattended`), or a handler that came from the inputs, where nothing
  is confirmed nor read yet.
- `SessionScreens`: `Spec => [](OwedReplyHasAButton /\ MessageMeansClosed)`, from `Screens`.
- `SessionKeepsPromise`: `Spec => KeepsPromise`, step by step: each action
  is a step of `SigningPromise` or leaves its variables alone.
- `SessionSignsWhole` and `SessionJoinsPackets`: if the user is not `Eager`,
  `Spec => []SignsOneWholeTransaction` and `Spec => []SavedBytesPrecedePacket`, faults
  included. Three more conjuncts are needed. `Exchanges`: between an answer and the next
  packet nothing touches the decoder, and a packet is used up when more data is
  asked for (this is where `~Eager` enters, and `early_press` shows that it must).
  `Feed`: the unread bytes belong to one transaction and end where the script has
  got to. `Progress`: the decoder has read that transaction up to its cursor, hashed
  all of it, and saved bytes are followed by enough to complete their element, so
  that `save_data_to_buffer`, which overwrites, never saves twice. The branch where
  `TXN_START_OUT` forgets the saved bytes in its guard is harmless for this reason:
  41 bytes of the transaction are still to come there (`SavesOnce`).

- `SessionReturnsSignatures`: for the same user `Spec => []HostGetsItsSignatures`. Three layers
  say where the host's items are: `Serving` (which of the two loops the script is in while the
  decoder returns items, and that `ret`, the reply under way and the response being filled,
  put together, are the first items due, their bytes being `got`, the reply's length
  and `tx`), `Owner` (the transaction being signed is the host's, and all of it was sent) and `Delivered`
  (a script that has enough bytes has all the items: this is where 32 + 65 n bytes
  determine n). `SessionResponseFits` and `SessionCancels` rest on `Responses` (`tx` counts the
  response, between two exchanges too) and `Cancelled` (a cancelled review has an error under way,
  or no script).

Among the commands of another script (`CommandLoop_proofs`), for every set of commands:
`LoopKeepsTypes`, `LoopConfirmed`, `LoopAnswersByButton`, `LoopMessages` and `LoopKeepsPromise` carry the
results of `Basics`, `Approvals`, `Screens` and the refinement over: a command changes nothing of the session but the
APDU buffer, `tx`, `response` and `awaiting` (`OtherLeaves`), and each layer is shown to survive that.
`LoopHardensPaths` is new: by cases on how far `get_bip44_path` has written.

`LoopSignsWhole`, `LoopJoinsPackets`, `LoopResponseFits`, `LoopReturnsSignatures`, `LoopCancels`: the same for the layers
of a user who is not `Eager` (`Patience` is their conjunction). This is where a command that overwrites
the APDU buffer could do harm. `Feed`, and the part of `Progress` that is about the packet, are therefore claimed
only of a command that waits: a command of another script finds none waiting, and leaves the counters
and the saved bytes, by which the script's next packet must begin (`Reads`). A review that was abandoned
is read on by nobody: the next first packet sets the decoder up anew or is refused.

What the user sees (`SessionShowsOutputs`, `SessionShowsCurrent`, and `LoopShowsOutputs`, `LoopShowsCurrent` with other
commands): no key is used before every output was on the screen at a press, and an approval that waits is of the output read
last. Besides `~Eager` they suppose `FirstOutputFits`: the first packet of a transaction holds its first output (up to 5 inputs
with the script's 254 bytes). `unseen_output` shows that without it they fail. `ButtonReads` says
that then only the right button reads outputs; `OutputsSeen` ties `cur_output` to the place of output
`curr_obj - 1` in the very transaction that is hashed, `shown` to `cur_output` except between reading and displaying, and
each confirmation counted to an output seen.

With the screens (`DeviceScreens_proofs`), for addresses of any lengths:

- `ScreensAddNothing`: `ScreensSpec => LoopSpec`, so each theorem about the loop holds with the screens.
- `ScreensKeepTypes`: `ScreensTypeOK`, from `ScreensTypes`, which adds that an offset of -1 goes
  up (otherwise -2 would be reached).
- `ScreensPlainTextIsWhole`: for a user who is not `Eager`. `Attended` says that a script being served
  has the transaction screen before it, so a packet is never decoded under the address
  screen, which tears the lines; `PlainLines` that the lines hold a plain text before the
  decoder leaves or enters `TXN_OUT`.

- `ScreensShowOutputs`: the two properties above, with the screens.
- `ScreensScrollInside` and `ScreensLabelFits`: besides, every address has the same length (`OneLength`; `runaway_text`
  shows that two lengths are enough to fail). `StringsReady` says that the strings are there before an approval is
  drawn, `TextsInside` that the shared offset and direction are within the text of whichever screen is up,
  and stay there when one screen takes them over from the other.
- `ScreensReadTrue`: the lower line of a waiting approval, unless blank, is the amount or the address of
  the output that the decoder has read last. It joins the results about the strings and about the lines.

For the conversions (`Conversions_proofs`), for all inputs:

- `ConversionStaysInBuffers`, from the place of each cursor (`Cursors`) and the arithmetic of the
  sizes (`SizeFits`: leading zeros and digits are never more than 35).
- `AddressIsItsText`: no carry is lost, and the text is the number that the 25 bytes are. `WholeNumber` says that between two bytes the
  digits in use are the number of the bytes taken so far, `HalfNumber` that in the loop over the digits those
  not yet passed are still the number of the bytes before, and those passed are, with `carry`, that of the byte being taken. That `size` is enough is
  256^n <= 58^`DigitsFor(n)` for n up to 25: `EightBytesMore` adds 8 bytes and 11 digits, `FewBytesFit` begins. A text is read by its
  remainders (`Remainder`), of which the digits' own number has the same.
- `AmountIsItsText`: an amount of at most `Room` whole coins reads as it is from the moment it is printed until
  its last zero is gone (`AmountReads`). `Decimal` is the printed text, `DecimalIs` its number; the one amount whose text is
  cut by the field loses a zero. The proof showed two conditions on the widths that small instances had not:
  without decimals the last amount loses its point, and an int must hold `Room`.
- `ConversionOfSignature`, for all R and S.

These need induction over numbers of digits. Theorems of the library that take a predicate as a parameter cannot be used with
the provers at hand; `SetInduction` of `Numerals_proofs` states induction for a *set* of
numbers, from the well-foundedness of `<`, and a predicate is used as the set where it holds. What recursive
functions compute (`Power`, `ReadAmount`, the remainders of a text) is proved by this.

Model-checked only: liveness (`SessionEnds`, `SessionSucceeds`, `AmountIsShown`), which needs fairness and `ENABLED`.

The layers of the session, of the loop and of the screens were checked by TLC as invariants before they were proved; those of the
conversions quantify over functions of numbers too large for it, so there TLC checks what follows from them.

## 6. What is not modelled

- Elliptic-curve operations, hashing and key derivation of the SDK (external), the
  compression of a public key and the recovery byte, which only pass bits of theirs on.
- SDK exceptions, in particular between two signatures, where `path[4]` and half of the slots are left
  changed and the number of the exception is read as a `txn_ui_state_t`.
- Counts beyond `MAX_INPUTS`, and writes outside of arrays: what they reach depends on
  the build. The same goes for a signature of 71 or 72 bytes in `tle_sign_tx[70]`. The address
  screen's copy over the next fields of `ux.h` is modelled for the two lines it reaches.
- Which characters of an address are on the screen, fonts and icons; the counter "1/6".
- Navigation in the menu, leaving the application (it is `DeviceRestarts`), an empty
  APDU, a locked device, the transport, answers that reach a later command.

## 7. Plan

1. *Done*: decoder, signing, session, promise, command loop, screens, conversions.
2. *Done*: every safety property that a passing run checks is a theorem, for the session, among other
   commands and with the screens as far as each concerns them.
3. SDK exceptions inside `TXN_COMPUTE_SIGS` and their aliasing with `txn_ui_state_t`.
4. `EveryOutputSeen` for transactions whose first output does not fit the first packet: for which of them it holds, and for
   which it fails as in `unseen_output`.
5. The progress of `SessionEnds` as a measure that every step of the device and the script decreases.
