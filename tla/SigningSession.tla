--------------------------- MODULE SigningSession ---------------------------
(***************************************************************************)
(* A transaction signed from end to end: the host script                   *)
(* (scripts/sign_transaction.py), the device (SignTxn) and the user who    *)
(* presses its buttons.                                                    *)
(*                                                                         *)
(* The host cuts the transaction into packets, sends the next one when the *)
(* last is answered, then asks with empty packets for the inner hash and   *)
(* the signatures.  The user presses a button when the transaction screen  *)
(* is up and a command waits; an Eager user presses at any time.  The host *)
(* may be killed, and the device restarted, at any time.                   *)
(***************************************************************************)
EXTENDS SignTxn

CONSTANTS
  Chunk,      \* bytes of data in a packet; 254 in the script
  Buttons,    \* the buttons the user may press: "left", "right"
  Eager,      \* whether the user presses while no command waits
  Faults,     \* whether the host may be killed and the device restarted
  MaxSessions \* bound on the number of transactions sent

ASSUME SessionAssumption ==
  /\ Chunk \in OUTPUT_LEN..APDU_LEN
  /\ Buttons \subseteq {"left", "right"}
  /\ Eager \in BOOLEAN /\ Faults \in BOOLEAN
  /\ MaxSessions \in Nat

VARIABLES
  host,      \* the control of the script
  txn,       \* the transaction it sends
  sent,      \* the bytes of it already sent
  ret, got,  \* the replies it has kept, and their length in bytes
  sessions,  \* transactions started so far
  \* history, for the properties only:
  confirmed, \* outputs decoded when the user last pressed right to approve
  seen,      \* outputs that were on the screen at such a press
  cancelled  \* the user has pressed left since the transaction was accepted

hostVars    == <<host, txn, sent, ret, got, sessions>>
historyVars == <<confirmed, seen, cancelled>>
vars        == <<signVars, hostVars, historyVars>>

-----------------------------------------------------------------------------
(* The script.  "streaming" and "collecting" are its two loops, "posted"   *)
(* and "asked" the exchange in each of them.                               *)

Waiting == host \in {"posted", "asked"}
Active  == host \in {"streaming", "posted", "collecting", "asked"}

Needed(t) == HASH_LEN + SIG_LEN * t.in_num

Least(a, b) == IF a < b THEN a ELSE b

HostStart ==
  /\ ~Active /\ sessions < MaxSessions
  /\ txn' \in Txns
  /\ host' = "streaming"
  /\ sent' = 0 /\ ret' = <<>> /\ got' = 0
  /\ sessions' = sessions + 1
  /\ UNCHANGED <<signVars, historyVars>>

\* send_to_ledger, and the device taking the packet up: p1 tells the first.
HostSend ==
  LET len == Least(Chunk, TxnLen(txn) - sent) IN
  /\ host \in {"streaming", "collecting"}
  /\ handleSignTxn(IF sent = 0 THEN 0 ELSE 1, At(txn, sent), len)
  /\ sent' = sent + len
  /\ host' = IF host = "streaming" THEN "posted" ELSE "asked"
  /\ UNCHANGED <<txn, ret, got, sessions, historyVars>>

\* While data is sent the last reply replaces ret; then replies are appended.
\* A status other than success raises an exception, which ends the script.
HostReceive ==
  LET kept == IF host = "posted" THEN reply.data ELSE ret \o reply.data
      len  == IF host = "posted" THEN reply.len ELSE got + reply.len
  IN
  /\ Waiting /\ reply # NoReply
  /\ reply' = NoReply
  /\ \/ /\ reply.sw = INS_RET_SUCCESS
        /\ ret' = kept /\ got' = len
        /\ host' = IF host = "posted" /\ sent < TxnLen(txn) THEN "streaming"
                   ELSE IF len < Needed(txn) THEN "collecting"
                   ELSE "done"
     \/ /\ reply.sw # INS_RET_SUCCESS
        /\ host' = "failed"
        /\ UNCHANGED <<ret, got>>
  /\ UNCHANGED <<decoderVars, uiVars, awaiting, txn, sent, sessions,
                 historyVars>>

-----------------------------------------------------------------------------
(* The user.                                                               *)

MayPress == awaiting \/ Eager

\* The preprocessor of the transaction screen draws an output approval in this
\* state, and the plain text of an offer in every other.
ShowsApproval == txn_state = TXN_OUT

\* The press answers an output approval, unless it accepts the transaction.
Approving == initialized /\ ShowsApproval

UserPressesRight ==
  /\ "right" \in Buttons /\ MayPress
  /\ PressRight
  /\ confirmed' = IF ~initialized THEN 0
                  ELSE IF Approving THEN curr_obj ELSE confirmed
  /\ seen' = IF ~initialized THEN {}
             ELSE IF Approving THEN seen \cup {shown} ELSE seen
  /\ cancelled' = (initialized /\ cancelled)
  /\ UNCHANGED hostVars

UserPressesLeft ==
  /\ "left" \in Buttons /\ MayPress
  /\ PressLeft
  /\ cancelled' = initialized
  /\ UNCHANGED <<hostVars, confirmed, seen>>

UserDismisses == DismissMessage /\ UNCHANGED <<hostVars, historyVars>>

-----------------------------------------------------------------------------
(* Faults.                                                                 *)

\* The script is killed, or its exchange times out.
HostDies ==
  /\ Faults /\ Active
  /\ host' = "failed"
  /\ reply' = NoReply
  /\ UNCHANGED <<decoderVars, uiVars, awaiting, txn, sent, ret, got, sessions,
                 historyVars>>

\* The application is left and opened again, or the device unplugged.
DeviceRestarts ==
  /\ Faults
  /\ initialized' = FALSE /\ txn_state' = TXN_START_IN
  /\ in_num' = 0 /\ out_num' = 0 /\ curr_obj' = 0
  /\ sig_input' = [i \in 0..MAX_INPUTS-1 |-> Input(Garbled)]
  /\ cur_output' = Garbled /\ hash' = Garbled /\ inner_hash' = Garbled
  /\ buffer' = Garbled /\ offset' = 0
  /\ dataBuffer' = Garbled /\ dataLength' = 0
  /\ response' = <<>> /\ tx' = 0
  /\ caller' = "none" /\ result' = NotThrown
  /\ screen' = "menu" /\ shown' = Garbled
  /\ awaiting' = FALSE /\ reply' = NoReply
  /\ host' = IF Active THEN "failed" ELSE host
  /\ UNCHANGED <<txn, sent, ret, got, sessions, historyVars>>

-----------------------------------------------------------------------------
DeviceComputes == Compute /\ UNCHANGED <<hostVars, historyVars>>

Init ==
  /\ SignInit
  /\ host = "done" /\ txn = NoTxn
  /\ sent = 0 /\ ret = <<>> /\ got = 0 /\ sessions = 0
  /\ confirmed = 0 /\ seen = {} /\ cancelled = FALSE

Next ==
  \/ DeviceComputes
  \/ HostStart \/ HostSend \/ HostReceive
  \/ UserPressesRight \/ UserPressesLeft \/ UserDismisses
  \/ HostDies \/ DeviceRestarts

Spec == Init /\ [][Next]_vars

\* The program and the script run; the user answers what the device asks.
\* Nothing obliges the host to start, or a fault to happen.
Fairness ==
  /\ WF_vars(DeviceComputes)
  /\ WF_vars(HostSend)
  /\ WF_vars(HostReceive)
  /\ WF_vars(awaiting /\ (UserPressesRight \/ UserPressesLeft))

FairSpec == Spec /\ Fairness

-----------------------------------------------------------------------------
(* Properties.                                                             *)

Signing == initialized /\ txn_state \in {TXN_COMPUTE_SIGS, TXN_RET_SIGS}

HostTypeOK ==
  /\ host \in {"streaming", "posted", "collecting", "asked", "done", "failed"}
  /\ txn \in Txns \cup {NoTxn}
  /\ Active => txn \in Txns /\ sent <= TxnLen(txn)
  /\ sent \in Nat /\ ret \in Seq(Item) /\ got \in Nat
  /\ sessions \in 0..MaxSessions

HistoryTypeOK ==
  /\ confirmed \in 0..255
  /\ seen \subseteq Place
  /\ cancelled \in BOOLEAN

\* Every variable keeps its type (the structs of ux.h).
TypeOK == SignTypeOK /\ HostTypeOK /\ HistoryTypeOK

\* No key is used before the user has pressed right once for every output:
\* decoding never runs two outputs ahead of the presses, and the signatures
\* come after a press that follows the last output (TXN_OUT of txn.c).
EveryOutputConfirmed ==
  initialized =>
    /\ txn_state = TXN_OUT => curr_obj <= confirmed + 1
    /\ txn_state \in {TXN_COMPUTE_SIGS, TXN_RET_SIGS} => confirmed = out_num

\* What is signed is one whole transaction: the inner hash has absorbed all
\* of it, in order and from its start, however it was cut into packets, and
\* slot i holds its input i or the signature of that input over that hash.
SignsOneWholeTransaction ==
  Signing =>
    LET t == inner_hash.txn IN
    /\ t # NoTxn /\ inner_hash = At(t, TxnLen(t))
    /\ in_num = t.in_num /\ out_num = t.out_num
    /\ \A i \in 0..in_num-1 :
         sig_input[i] = IF txn_state = TXN_COMPUTE_SIGS
                        THEN Input(At(t, InputAt(i)))
                        ELSE Signature(inner_hash, At(t, InputAt(i)))

\* Bytes saved from a packet are still followed by the unread ones whenever
\* the decoder is about to join them (save_ and read_data_to_buffer).
SavedBytesPrecedePacket ==
  Running /\ offset > 0 => Advance(buffer, offset) = dataBuffer

\* A script that ends normally has the inner hash of its transaction and then
\* one signature of each input, in order: replies are neither lost nor
\* repeated nor swapped between its two loops.
HostGetsItsSignatures ==
  host = "done" /\ txn # NoTxn =>
    LET h == At(txn, TxnLen(txn)) IN
    ret = <<HashItem(h)>> \o
          [i \in 1..txn.in_num |-> Signature(h, At(txn, InputAt(i - 1)))]

\* tx is the length of what the response holds, and leaves room for it.
ResponseFits ==
  LET hashes == {i \in DOMAIN response : response[i].kind = "hash"}
  IN /\ tx <= APDU_LEN
     /\ hashes \subseteq {1}
     /\ tx = Len(response) * SIG_LEN
               - (IF hashes = {} THEN 0 ELSE SIG_LEN - HASH_LEN)

\* While a command is unanswered the device shows the screen whose buttons
\* answer it: nobody waits for an answer that no press can produce.
OwedReplyHasAButton ==
  Idle /\ awaiting => screen = "transaction"

\* "Success" and "Error happened" are on the screen only when no transaction
\* is open: the next one is offered to the user, not refused.
MessageMeansClosed ==
  screen = "message" => ~initialized

\* "Cancel TX signing process": after the left button the device signs nothing
\* for that transaction.
CancelledIsNeverSigned ==
  Signing /\ txn_state = TXN_RET_SIGS => ~cancelled

\* "current output (e.g. "1/6")": when the user is asked to approve an output
\* one has been decoded, and the strings on the screen are those of it.
ApprovalShowsCurrentOutput ==
  Idle /\ awaiting /\ Approving => curr_obj > 0 /\ shown = cur_output

\* Every output of the transaction was on the screen at some press of the
\* right button before any key is used.
EveryOutputSeen ==
  Signing =>
    \A i \in 0..out_num-1 : At(inner_hash.txn, OutputAt(inner_hash.txn, i)) \in seen

\* "You received new transaction": an offered transaction is announced by the
\* plain text screen, which txn_state = TXN_OUT replaces by an approval.
OfferIsNotAnApproval ==
  Idle /\ awaiting /\ ~initialized => ~ShowsApproval

\* A session that has begun ends: neither the host nor the device waits for
\* ever as long as the user answers.
SessionEnds == Active ~> ~Active

\* With a user who accepts everything and no fault, it ends in success.
SessionSucceeds == Active ~> host = "done"

-----------------------------------------------------------------------------
(* Refinement: the session implements SigningPromise.                      *)

Reviewing == initialized /\ txn_state >= TXN_OUT

Phase ==
  IF ~initialized THEN "closed"
  ELSE IF txn_state < TXN_OUT THEN "reading"
  ELSE IF txn_state = TXN_OUT THEN "reviewing"
  ELSE IF txn_state = TXN_COMPUTE_SIGS THEN "released"
  ELSE "signed"

Inputs   == IF Reviewing THEN in_num ELSE 0
Outputs  == IF Reviewing THEN out_num ELSE 0
Approved == IF Reviewing THEN confirmed ELSE 0
Returned == IF initialized /\ txn_state = TXN_RET_SIGS THEN curr_obj ELSE 0

Promise == INSTANCE SigningPromise WITH
  phase    <- Phase,
  inputs   <- Inputs,
  outputs  <- Outputs,
  approved <- Approved,
  returned <- Returned

\* Opening, reviewing, releasing, signing and abandoning a transaction happen
\* in the program as SigningPromise says.
KeepsPromise == Promise!Spec
=============================================================================
