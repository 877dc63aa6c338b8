----------------------------- MODULE TxnDecoder -----------------------------
(***************************************************************************)
(* The streaming transaction decoder of skycoin-api/txn.c.                 *)
(*                                                                         *)
(* A transaction reaches the device as a byte stream cut into APDUs.  The  *)
(* decoder consumes it element by element (number of inputs, inputs,       *)
(* number of outputs, outputs), keeps the tail of an APDU that ends inside *)
(* an element, hashes what it consumes, and finally signs every input.     *)
(*                                                                         *)
(* Bytes are not modelled: a byte is identified by its PLACE, that is the  *)
(* transaction it belongs to and its position in that transaction.         *)
(* txn_next_elem is a loop that runs until an exception is thrown; one     *)
(* action below is one iteration of that loop, and nothing else of the     *)
(* program runs while Running holds.                                       *)
(***************************************************************************)
EXTENDS Integers, Sequences

CONSTANTS
  Txns,   \* the transactions a host may send: records with in_num, out_num
  NoTxn,  \* the "transaction" of bytes that belong to no transaction
  Junk    \* the counts that decoding misaligned bytes may yield

COUNT_LEN  == 4     \* bytes of in_num and of out_num
INPUT_LEN  == 36    \* bytes of an input: 32 of uxid, 4 of address index
OUTPUT_LEN == 37    \* bytes of an output: 21 of address, 8 + 8 of amounts
MAX_INPUTS == 20
HASH_LEN   == 32
SIG_LEN    == 65
APDU_LEN   == 255   \* bytes an APDU response may carry

\* The code checks neither count; it works for transactions of up to
\* MAX_INPUTS inputs (the slots of sig_input) and 255 outputs (curr_obj).
ASSUME TxnsAssumption ==
  /\ \A t \in Txns : t.in_num \in 1..MAX_INPUTS /\ t.out_num \in 1..255
  /\ NoTxn \notin Txns
  /\ Junk \subseteq 1..MAX_INPUTS

\* txn_state_t
TXN_START_IN     == 0
TXN_IN           == 1
TXN_START_OUT    == 2
TXN_OUT          == 3
TXN_COMPUTE_SIGS == 4
TXN_RET_SIGS     == 5

\* txn_ui_state_t, whose values the code also compares with txn_state_t's
NotThrown       == 0
TXN_PARTIAL     == 1
TXN_PARTIAL_OUT == 2
TXN_APPROVE_OUT == 3
TXN_READY       == 4
TXN_FINISHED    == 5

VARIABLES
  initialized, txn_state, in_num, out_num, curr_obj,
  sig_input,    \* slot i holds input i, later overwritten by its signature
  cur_output,   \* place of the output decoded last
  hash,         \* the running hash, as the place up to which it has absorbed
  inner_hash,   \* the final hash, in the same representation
  buffer,       \* place of the first byte saved from the previous APDU
  offset,       \* number of bytes saved
  dataBuffer,   \* place of the next unread byte of the current APDU
  dataLength,   \* number of unread bytes of the current APDU
  response,     \* what G_io_apdu_buffer holds up to *tx
  tx,           \* *ctx->tx, the length of the response
  caller,       \* which function called txn_next_elem: "none" when none did
  result        \* what the loop of txn_next_elem has thrown

dataVars   == <<buffer, offset, dataBuffer, dataLength>>
txnVars    == <<in_num, out_num, sig_input, cur_output, hash, inner_hash>>
outVars    == <<response, tx>>
decoderVars == <<initialized, txn_state, curr_obj, txnVars, dataVars, outVars,
                 caller, result>>

-----------------------------------------------------------------------------
(* Places and the layout of a transaction.                                 *)

Place     == [txn : Txns \cup {NoTxn}, pos : Nat]
Garbled   == [txn |-> NoTxn, pos |-> 0]
EmptyHash == [txn |-> NoTxn, pos |-> 1]   \* a hash that has absorbed nothing

At(t, p)      == [txn |-> t, pos |-> p]
Advance(p, n) == [p EXCEPT !.pos = @ + n]

InputAt(i)     == COUNT_LEN + INPUT_LEN * i
OutCountAt(t)  == InputAt(t.in_num)
OutputAt(t, i) == OutCountAt(t) + COUNT_LEN + OUTPUT_LEN * i
TxnLen(t)      == OutputAt(t, t.out_num)

\* Slots of sig_input and items of a response: the union of txn.c's inputs,
\* signatures and hashes.
Item == [kind : {"input", "signature", "hash"}, input : Place, digest : Place]

Input(p)        == [kind |-> "input", input |-> p, digest |-> Garbled]
Signature(h, p) == [kind |-> "signature", input |-> p, digest |-> h]
HashItem(h)     == [kind |-> "hash", input |-> Garbled, digest |-> h]

\* Signing reads the slot as an input: over a signature it signs garbage.
Sign(h, slot) ==
  Signature(h, IF slot.kind = "input" THEN slot.input ELSE Garbled)

\* Hashing the element at e: the hash stands for a prefix of one transaction
\* as long as the elements it absorbs follow one another from its start.
Absorb(h, e, len) ==
  IF e.txn # NoTxn /\ (h = e \/ (h = EmptyHash /\ e.pos = 0))
  THEN Advance(e, len) ELSE Garbled

\* The numbers U4LE may read from the element at e.
CountsAt(e) ==
  IF e.txn = NoTxn THEN Junk
  ELSE IF e.pos = 0 THEN {e.txn.in_num}
  ELSE IF e.pos = OutCountAt(e.txn) THEN {e.txn.out_num}
  ELSE Junk

-----------------------------------------------------------------------------
(* The two buffer primitives.                                              *)

\* The element made of the saved bytes followed by bytes of the APDU.
Element ==
  IF offset = 0 THEN dataBuffer
  ELSE IF Advance(buffer, offset) = dataBuffer THEN buffer
  ELSE Garbled

\* Broken forms, named Definition_Fault, stand before the definitions they
\* break; each makes a property fail, which shows that the property can.
save_data_to_buffer_DropsAByte ==
  /\ buffer' = dataBuffer
  /\ offset' = dataLength - 1
  /\ dataBuffer' = Advance(dataBuffer, dataLength)
  /\ dataLength' = 0

\* Saving overwrites the buffer from its start, whatever it held.
save_data_to_buffer ==
  /\ buffer' = dataBuffer
  /\ offset' = dataLength
  /\ dataBuffer' = Advance(dataBuffer, dataLength)
  /\ dataLength' = 0

read_data_to_buffer(size) ==
  /\ dataBuffer' = Advance(dataBuffer, size - offset)
  /\ dataLength' = dataLength - (size - offset)
  /\ offset' = 0
  /\ UNCHANGED buffer

-----------------------------------------------------------------------------
(* __txn_next_elem, one action per branch.                                 *)

Running == caller # "none" /\ result = NotThrown

Throw(r) == result' = r

\* The guard of TXN_START_OUT leaves the saved bytes out of account.
Starved ==
  \/ txn_state = TXN_START_IN  /\ offset + dataLength < COUNT_LEN
  \/ txn_state = TXN_IN        /\ offset + dataLength < INPUT_LEN
  \/ txn_state = TXN_START_OUT /\ dataLength < COUNT_LEN
  \/ /\ txn_state = TXN_OUT /\ curr_obj # out_num
     /\ offset + dataLength < OUTPUT_LEN

SavePartial ==
  /\ Running /\ Starved
  /\ save_data_to_buffer
  /\ Throw(TXN_PARTIAL)
  /\ UNCHANGED <<initialized, txn_state, curr_obj, txnVars, outVars, caller>>

\* A count beyond MAX_INPUTS, which overruns sig_input, is not followed.
ReadInCount ==
  /\ Running /\ txn_state = TXN_START_IN /\ ~Starved
  /\ read_data_to_buffer(COUNT_LEN)
  /\ hash' = Absorb(hash, Element, COUNT_LEN)
  /\ in_num' \in CountsAt(Element) \cap 1..MAX_INPUTS
  /\ txn_state' = TXN_IN
  /\ curr_obj' = 0
  /\ UNCHANGED <<initialized, out_num, sig_input, cur_output, inner_hash,
                 outVars, caller, result>>

\* The hash takes the uxid and leaves the address index out.
ReadInput ==
  /\ Running /\ txn_state = TXN_IN /\ ~Starved
  /\ read_data_to_buffer(INPUT_LEN)
  /\ hash' = Absorb(hash, Element, INPUT_LEN)
  /\ sig_input' = [sig_input EXCEPT ![curr_obj] = Input(Element)]
  /\ curr_obj' = (curr_obj + 1) % 256
  /\ txn_state' = IF curr_obj' = in_num THEN TXN_START_OUT ELSE TXN_IN
  /\ UNCHANGED <<initialized, in_num, out_num, cur_output, inner_hash,
                 outVars, caller, result>>

ReadOutCount ==
  /\ Running /\ txn_state = TXN_START_OUT /\ ~Starved
  /\ read_data_to_buffer(COUNT_LEN)
  /\ hash' = Absorb(hash, Element, COUNT_LEN)
  /\ out_num' \in CountsAt(Element)
  /\ txn_state' = TXN_OUT
  /\ curr_obj' = 0
  /\ UNCHANGED <<initialized, in_num, sig_input, cur_output, inner_hash,
                 outVars, caller, result>>

CannotHoldOutput_Always(rest) == rest >= 0

\* Whether the unread bytes are less than an output, and so are saved.
CannotHoldOutput(rest) == rest < OUTPUT_LEN

\* The output read from the stream, then the tail of the APDU saved if it
\* cannot hold another output.
ReadOutput ==
  LET next == Advance(dataBuffer, OUTPUT_LEN - offset)
      rest == dataLength - (OUTPUT_LEN - offset)
  IN
  /\ Running /\ txn_state = TXN_OUT /\ curr_obj # out_num /\ ~Starved
  /\ cur_output' = Element
  /\ hash' = Absorb(hash, Element, OUTPUT_LEN)
  /\ curr_obj' = (curr_obj + 1) % 256
  /\ inner_hash' = IF curr_obj' = out_num THEN hash' ELSE inner_hash
  /\ \/ /\ CannotHoldOutput(rest)
        /\ buffer' = next
        /\ offset' = rest
        /\ dataBuffer' = Advance(next, rest)
        /\ dataLength' = 0
        /\ Throw(TXN_PARTIAL_OUT)
     \/ /\ ~CannotHoldOutput(rest)
        /\ dataBuffer' = next
        /\ dataLength' = rest
        /\ offset' = 0
        /\ UNCHANGED buffer
        /\ Throw(TXN_APPROVE_OUT)
  /\ UNCHANGED <<initialized, txn_state, in_num, out_num, sig_input, outVars,
                 caller>>

OutputsRead_OneEarly ==
  /\ Running /\ txn_state = TXN_OUT /\ curr_obj + 1 >= out_num
  /\ txn_state' = TXN_READY
  /\ curr_obj' = 0
  /\ Throw(TXN_READY)
  /\ UNCHANGED <<initialized, txnVars, dataVars, outVars, caller>>

\* All outputs are read: TXN_READY is stored in txn_state, where its value
\* reads as TXN_COMPUTE_SIGS.
OutputsRead ==
  /\ Running /\ txn_state = TXN_OUT /\ curr_obj = out_num
  /\ txn_state' = TXN_READY
  /\ curr_obj' = 0
  /\ Throw(TXN_READY)
  /\ UNCHANGED <<initialized, txnVars, dataVars, outVars, caller>>

\* Every input is signed in place; control falls through to TXN_RET_SIGS.
ComputeSigs ==
  /\ Running /\ txn_state = TXN_COMPUTE_SIGS
  /\ sig_input' = [i \in DOMAIN sig_input |->
                     IF i < in_num THEN Sign(inner_hash, sig_input[i])
                     ELSE sig_input[i]]
  /\ curr_obj' = 0
  /\ txn_state' = TXN_RET_SIGS
  /\ UNCHANGED <<initialized, in_num, out_num, cur_output, hash, inner_hash,
                 dataVars, outVars, caller, result>>

ReturnSig_NoRoomCheck ==
  /\ Running /\ txn_state = TXN_RET_SIGS /\ curr_obj # in_num
  /\ tx <= APDU_LEN
  /\ response' = Append(response, sig_input[curr_obj])
  /\ tx' = tx + SIG_LEN
  /\ curr_obj' = (curr_obj + 1) % 256
  /\ UNCHANGED <<initialized, txn_state, txnVars, dataVars, caller, result>>

\* The loop of TXN_RET_SIGS: one more signature, response full, or all sent.
ReturnSig ==
  /\ Running /\ txn_state = TXN_RET_SIGS /\ curr_obj # in_num
  /\ tx + SIG_LEN <= APDU_LEN
  /\ response' = Append(response, sig_input[curr_obj])
  /\ tx' = tx + SIG_LEN
  /\ curr_obj' = (curr_obj + 1) % 256
  /\ UNCHANGED <<initialized, txn_state, txnVars, dataVars, caller, result>>

ResponseFull ==
  /\ Running /\ txn_state = TXN_RET_SIGS /\ curr_obj # in_num
  /\ tx + SIG_LEN > APDU_LEN
  /\ Throw(TXN_PARTIAL)
  /\ UNCHANGED <<initialized, txn_state, curr_obj, txnVars, dataVars, outVars,
                 caller>>

SigsReturned ==
  /\ Running /\ txn_state = TXN_RET_SIGS /\ curr_obj = in_num
  /\ initialized' = FALSE
  /\ Throw(TXN_FINISHED)
  /\ UNCHANGED <<txn_state, curr_obj, txnVars, dataVars, outVars, caller>>

txn_next_elem ==
  \/ SavePartial
  \/ ReadInCount \/ ReadInput \/ ReadOutCount
  \/ ReadOutput \/ OutputsRead
  \/ ComputeSigs \/ ReturnSig \/ ResponseFull \/ SigsReturned

-----------------------------------------------------------------------------
DecoderInit ==
  /\ initialized = FALSE
  /\ txn_state = TXN_START_IN
  /\ in_num = 0 /\ out_num = 0 /\ curr_obj = 0
  /\ sig_input = [i \in 0..MAX_INPUTS-1 |-> Input(Garbled)]
  /\ cur_output = Garbled /\ hash = Garbled /\ inner_hash = Garbled
  /\ buffer = Garbled /\ offset = 0
  /\ dataBuffer = Garbled /\ dataLength = 0
  /\ response = <<>> /\ tx = 0
  /\ caller = "none" /\ result = NotThrown

DecoderTypeOK ==
  /\ initialized \in BOOLEAN
  /\ txn_state \in TXN_START_IN..TXN_RET_SIGS
  /\ in_num \in 0..MAX_INPUTS /\ out_num \in 0..255 /\ curr_obj \in 0..255
  /\ sig_input \in [0..MAX_INPUTS-1 -> Item]
  /\ cur_output \in Place /\ hash \in Place /\ inner_hash \in Place
  /\ buffer \in Place /\ offset \in 0..OUTPUT_LEN-1
  /\ dataBuffer \in Place /\ dataLength \in Nat
  /\ response \in Seq(Item) /\ tx \in Nat
  /\ caller \in {"none", "handler", "button"}
  /\ result \in NotThrown..TXN_FINISHED
=============================================================================
