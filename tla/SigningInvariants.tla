------------------------- MODULE SigningInvariants -------------------------
(***************************************************************************)
(* The inductive invariants of SigningSession from which its safety        *)
(* properties are proved.  Each layer is inductive relative to the ones    *)
(* before it.                                                              *)
(***************************************************************************)
EXTENDS SigningSession

-----------------------------------------------------------------------------
(* First layer: what the decoder's counters mean in each of its states.    *)

\* Saved bytes are fewer than an element, counters stay within their counts.
Counters ==
  /\ txn_state = TXN_START_IN  => offset < COUNT_LEN
  /\ txn_state = TXN_IN        => offset < INPUT_LEN /\ curr_obj < in_num
  /\ txn_state = TXN_START_OUT => offset < COUNT_LEN
  /\ txn_state = TXN_OUT       => curr_obj <= out_num
  /\ txn_state = TXN_COMPUTE_SIGS => curr_obj = 0
  /\ txn_state = TXN_RET_SIGS  => curr_obj <= in_num
  /\ txn_state >= TXN_START_OUT => in_num >= 1
  /\ txn_state >= TXN_OUT       => out_num >= 1

\* What a thrown value says of the state in which it was thrown.
Control ==
  /\ Running => initialized
  /\ result # NotThrown => caller # "none"
  /\ result \in {TXN_PARTIAL, TXN_PARTIAL_OUT, TXN_APPROVE_OUT, TXN_READY}
       => initialized
  /\ result \in {TXN_PARTIAL_OUT, TXN_APPROVE_OUT} => txn_state = TXN_OUT
  /\ result = TXN_READY => txn_state = TXN_COMPUTE_SIGS

Basics == TypeOK /\ Counters /\ Control

-----------------------------------------------------------------------------
(* Second layer, whoever presses and whenever: approvals and screens.      *)

\* The decoder reads an output only when every earlier one is approved.
Approvals ==
  initialized =>
    /\ txn_state < TXN_OUT => confirmed = 0
    /\ txn_state = TXN_OUT => /\ confirmed <= curr_obj
                              /\ curr_obj <= confirmed + 1
                              /\ Running => curr_obj = confirmed
    /\ txn_state \in {TXN_COMPUTE_SIGS, TXN_RET_SIGS} => confirmed = out_num

Screens ==
  /\ OwedReplyHasAButton
  /\ MessageMeansClosed
  /\ caller = "button" => screen = "transaction"

-----------------------------------------------------------------------------
(* Third layer, for a user who is not Eager: whose packet the decoder has. *)

Decoding == initialized /\ txn_state < TXN_COMPUTE_SIGS

\* More data has been asked for, and has not come yet.
Fed ==
  \/ reply.sw = INS_RET_SUCCESS
  \/ result \in {TXN_PARTIAL, TXN_PARTIAL_OUT}
  \/ host \in {"streaming", "collecting"} /\ sent > 0

\* Between an answer and the next packet nothing happens to the decoder, which
\* has used up the last one unless the answer was an error.
Exchanges ==
  /\ caller # "none" => awaiting
  /\ reply # NoReply => ~awaiting
  /\ host \in {"streaming", "collecting"} /\ sent > 0 => ~awaiting
  /\ Decoding /\ Fed => dataLength = 0
  /\ Decoding /\ result = TXN_APPROVE_OUT => offset = 0
  \* The keys are used by the handler, never by the button.
  /\ initialized /\ awaiting /\ (Idle \/ (caller = "button" /\ Running))
       => txn_state < TXN_COMPUTE_SIGS
  /\ caller = "button" => result # TXN_FINISHED

\* The script has sent a packet, and waits for the device or goes on.
Served == Active /\ sent > 0

\* While a command waits its unread bytes are the next ones of a transaction, up
\* to those sent.
Feed ==
  awaiting =>
    /\ dataBuffer.txn \in Txns
    /\ dataBuffer.pos + dataLength <= TxnLen(dataBuffer.txn)
    /\ Served => dataBuffer.txn = txn /\ dataBuffer.pos + dataLength = sent
    /\ Idle /\ ~initialized => dataBuffer.pos = 0

-----------------------------------------------------------------------------
(* Fourth layer: what the decoder has read of that transaction.            *)

\* Where the element to be read next begins.
Cursor(t) ==
  IF txn_state = TXN_START_IN THEN 0
  ELSE IF txn_state = TXN_IN THEN InputAt(curr_obj)
  ELSE IF txn_state = TXN_START_OUT THEN OutCountAt(t)
  ELSE OutputAt(t, curr_obj)

InputsRead ==
  IF txn_state = TXN_START_IN THEN 0
  ELSE IF txn_state = TXN_IN THEN curr_obj
  ELSE in_num

\* Everything before p, where the next byte is to come from.
Reads(t, p) ==
  /\ p.pos = Cursor(t) + offset
  /\ offset > 0 => Advance(buffer, offset) = p
  /\ hash = IF txn_state = TXN_START_IN THEN EmptyHash ELSE At(t, Cursor(t))
  /\ txn_state > TXN_START_IN => in_num = t.in_num
  /\ txn_state = TXN_OUT => out_num = t.out_num
  /\ \A i \in 0..InputsRead - 1 : sig_input[i] = Input(At(t, InputAt(i)))
  /\ txn_state = TXN_OUT /\ curr_obj = out_num => inner_hash = At(t, TxnLen(t))

\* Saved bytes are followed by enough to complete their element.
Completes(t) ==
  awaiting /\ result = NotThrown /\ offset > 0 =>
    \/ dataLength >= OUTPUT_LEN
    \/ dataBuffer.pos + dataLength = TxnLen(t)

\* Between two packets another command may overwrite the used bytes of the last.
\* A review that was abandoned is not read on: the next packet ends it.
Progress ==
  /\ Decoding /\ awaiting => /\ Reads(dataBuffer.txn, dataBuffer)
                             /\ Completes(dataBuffer.txn)
  /\ Decoding /\ ~awaiting /\ Fed /\ Served => Reads(txn, At(txn, sent))
  /\ Signing => offset = 0
  /\ SignsOneWholeTransaction

-----------------------------------------------------------------------------
(* Fifth layer, for the same user: what the device answers.                *)

\* A press that answers a command finds the response empty; only the handler
\* fills it with signatures, and the button sends the hash at once.
Responses ==
  /\ \A i \in 0..MAX_INPUTS-1 : sig_input[i].kind # "hash"
  /\ caller = "button" \/ (Idle /\ awaiting) => response = <<>> /\ tx = 0
  /\ tx <= APDU_LEN
  /\ \/ response = <<HashItem(inner_hash)>> /\ tx = HASH_LEN /\ Idle
     \/ /\ \A i \in 1..Len(response) : response[i].kind # "hash"
        /\ tx = Len(response) * SIG_LEN

\* A script whose transaction has been cancelled is about to learn it.
Cancelled ==
  initialized /\ cancelled =>
    /\ Idle /\ ~awaiting /\ txn_state < TXN_COMPUTE_SIGS
    /\ Active /\ sent > 0 => Waiting /\ reply.sw = SW_ERROR

-----------------------------------------------------------------------------
(* Sixth layer: what the script has of its signatures.                     *)

\* The first n items of what the script is to get.
Prefix(t, n) ==
  LET h == At(t, TxnLen(t)) IN
  [k \in 1..n |-> IF k = 1 THEN HashItem(h) ELSE Signature(h, At(t, InputAt(k - 2)))]

Bytes(n) == IF n = 0 THEN 0 ELSE HASH_LEN + SIG_LEN * (n - 1)

\* How many of them the device has put in its answers.
Items ==
  IF ~Signing \/ result = TXN_READY THEN 0
  ELSE IF txn_state = TXN_COMPUTE_SIGS THEN 1
  ELSE 1 + curr_obj

\* What the script keeps of the answers it has, and what is on its way.
Collecting == host \in {"collecting", "asked"}
Answered   == Waiting /\ reply.sw = INS_RET_SUCCESS

Kept      == IF Collecting THEN ret ELSE <<>>
KeptBytes == IF Collecting THEN got ELSE 0

Pending      == IF caller = "handler" THEN response
                ELSE IF Answered THEN reply.data ELSE <<>>
PendingBytes == IF caller = "handler" THEN tx
                ELSE IF Answered THEN reply.len ELSE 0

Has(n) == Kept \o Pending = Prefix(txn, n) /\ KeptBytes + PendingBytes = Bytes(n)

\* Who runs the decoder when, and how far the script then is.
Serving ==
  /\ host \in {"posted", "collecting", "asked"} => sent > 0
  /\ caller = "handler" => result # TXN_READY
  /\ caller = "handler" /\ Running => txn_state # TXN_OUT \/ curr_obj = 0
  /\ result = TXN_FINISHED => ~initialized
  /\ Idle /\ awaiting /\ ~initialized /\ Waiting => host = "posted"

\* The signatures of a transaction are computed for the script that sent it.
Owner == Served /\ Signing => inner_hash.txn = txn /\ sent = TxnLen(txn)

Delivered ==
  /\ Served /\ initialized => Has(Items)
  /\ Served /\ ~initialized /\ (result = TXN_FINISHED \/ Answered) =>
       Has(txn.in_num + 1) /\ sent = TxnLen(txn)

Returns == Serving /\ Owner /\ Delivered /\ HostGetsItsSignatures

-----------------------------------------------------------------------------
(* Seventh layer: what the user sees of the outputs, where the first packet *)
(* brings the first of them and so leaves every one to the right button.   *)

FirstOutputFits == \A t \in Txns : OutputAt(t, 1) <= Chunk

\* The press that accepts a transaction reads its first output.
ButtonReads ==
  /\ txn_state = TXN_OUT /\ caller # "button" => curr_obj > 0
  /\ Decoding /\ caller # "button" => txn_state = TXN_OUT /\ Idle
  /\ Decoding /\ caller = "button" /\ (txn_state < TXN_OUT \/ curr_obj = 0) =>
       /\ Running /\ offset = 0
       /\ dataBuffer.pos + dataLength >= OutputAt(dataBuffer.txn, 1)
  /\ Idle /\ awaiting /\ ~initialized => dataLength >= OutputAt(dataBuffer.txn, 1)

OutputPlace(t, i) == At(t, OutputAt(t, i))

\* The output read last is the one on the screen, unless it has just been read;
\* those confirmed have been there.
OutputsSeen ==
  /\ Decoding /\ txn_state = TXN_OUT /\ curr_obj > 0 =>
       /\ cur_output = OutputPlace(hash.txn, curr_obj - 1)
       /\ result \notin {TXN_PARTIAL_OUT, TXN_APPROVE_OUT} => shown = cur_output
  /\ Decoding /\ txn_state = TXN_OUT =>
       \A i \in 0..confirmed - 1 : OutputPlace(hash.txn, i) \in seen
  /\ EveryOutputSeen
=============================================================================
