---------------------- MODULE SigningRefinement_proofs ----------------------
(***************************************************************************)
(* SigningSession implements SigningPromise.                               *)
(***************************************************************************)
EXTENDS SigningSession_proofs

USE DEF MAX_INPUTS,
        TXN_START_IN, TXN_IN, TXN_START_OUT, TXN_OUT, TXN_COMPUTE_SIGS,
        TXN_RET_SIGS,
        NotThrown, TXN_PARTIAL, TXN_PARTIAL_OUT, TXN_APPROVE_OUT, TXN_READY,
        TXN_FINISHED

\* The abstract state is a function of these variables.
LEMMA Stutter ==
  ASSUME UNCHANGED <<initialized, txn_state, in_num, out_num, confirmed>>,
         txn_state = TXN_RET_SIGS => UNCHANGED curr_obj
  PROVE  UNCHANGED Promise!vars
BY DEF Promise!vars, Phase, Reviewing, Inputs, Outputs, Approved, Returned

\* A transaction that is not open, before a step and after it.
LEMMA Closed ==
  ASSUME ~initialized'
  PROVE  Promise!Close
BY DEF Promise!Close, Phase, Reviewing, Inputs, Outputs, Approved, Returned

\* While the decoder is short of the outputs the abstract state does not move.
LEMMA Reading ==
  ASSUME initialized, initialized', txn_state < TXN_OUT, txn_state' < TXN_OUT,
         txn_state \in 0..5, txn_state' \in 0..5
  PROVE  UNCHANGED Promise!vars
<1>1. /\ Phase = "reading" /\ Phase' = "reading"
      /\ ~Reviewing /\ ~Reviewing'
      /\ txn_state # TXN_RET_SIGS /\ txn_state' # TXN_RET_SIGS
  BY DEF Phase, Reviewing
<1> QED
  BY <1>1 DEF Promise!vars, Inputs, Outputs, Approved, Returned

\* An iteration of the decoder is a step of the promise, or none.
LEMMA DecoderStep ==
  ASSUME Basics, Basics', Approvals, txn_next_elem, UNCHANGED historyVars
  PROVE  [Promise!Next]_(Promise!vars)
<1>0. /\ DecoderTypeOK /\ Counters /\ Control /\ Running /\ initialized
      /\ txn_state \in 0..5 /\ txn_state' \in 0..5
      /\ confirmed' = confirmed
  <2>1. Running
    BY DEF txn_next_elem, SavePartial, ReadInCount, ReadInput, ReadOutCount,
       ReadOutput, OutputsRead, ComputeSigs, ReturnSig, ResponseFull, SigsReturned
  <2> QED
    BY <2>1 DEF Basics, TypeOK, SignTypeOK, DecoderTypeOK, historyVars, Control
<1>1. CASE SavePartial
  BY <1>0, <1>1, Stutter DEF SavePartial, txnVars
<1>2. CASE ReadInCount
  BY <1>0, <1>2, Reading DEF ReadInCount
<1>3. CASE ReadInput
  BY <1>0, <1>3, Reading DEF ReadInput
<1>4. CASE ReadOutCount
  <2>1. /\ txn_state = TXN_START_OUT /\ txn_state' = TXN_OUT /\ initialized'
        /\ in_num' = in_num
    BY <1>0, <1>4 DEF ReadOutCount
  <2>2. in_num \in 1..255 /\ out_num' \in 1..255 /\ confirmed = 0
    <3>1. in_num \in 0..20 /\ out_num' \in 0..255 /\ in_num >= 1
      BY <1>0, <2>1 DEF Counters, Basics, TypeOK, SignTypeOK, DecoderTypeOK
    <3>2. txn_state' >= 3 => out_num' >= 1
      BY DEF Basics, Counters
    <3>3. confirmed = 0
      BY <1>0, <2>1 DEF Approvals
    <3> QED
      BY <2>1, <3>1, <3>2, <3>3
  <2>3. /\ Phase = "reading" /\ Phase' = "reviewing"
        /\ Inputs' = in_num /\ Outputs' = out_num'
        /\ Approved = 0 /\ Approved' = 0 /\ Returned = 0 /\ Returned' = 0
    BY <1>0, <2>1, <2>2 DEF Phase, Reviewing, Inputs, Outputs, Approved, Returned
  <2> QED
    BY <2>2, <2>3 DEF Promise!Next, Promise!Review
<1>5. CASE ReadOutput
  BY <1>0, <1>5, Stutter DEF ReadOutput
<1>6. CASE OutputsRead
  <2>1. /\ txn_state = TXN_OUT /\ txn_state' = TXN_COMPUTE_SIGS /\ initialized'
        /\ UNCHANGED <<in_num, out_num>> /\ curr_obj = out_num
    BY <1>0, <1>6 DEF OutputsRead, txnVars
  <2>2. confirmed = out_num
    BY <1>0, <2>1 DEF Approvals
  <2>3. /\ Phase = "reviewing" /\ Phase' = "released"
        /\ UNCHANGED <<Inputs, Outputs, Approved, Returned>> /\ Approved = Outputs
    BY <1>0, <2>1, <2>2 DEF Phase, Reviewing, Inputs, Outputs, Approved, Returned
  <2> QED
    BY <2>3 DEF Promise!Next, Promise!Release
<1>7. CASE ComputeSigs
  <2>1. /\ txn_state = TXN_COMPUTE_SIGS /\ txn_state' = TXN_RET_SIGS /\ initialized'
        /\ UNCHANGED <<in_num, out_num>> /\ curr_obj' = 0
    BY <1>0, <1>7 DEF ComputeSigs
  <2>2. /\ Phase = "released" /\ Phase' = "signed"
        /\ UNCHANGED <<Inputs, Outputs, Approved, Returned>>
    BY <1>0, <2>1 DEF Phase, Reviewing, Inputs, Outputs, Approved, Returned
  <2> QED
    BY <2>2 DEF Promise!Next, Promise!UseKeys
<1>8. CASE ReturnSig
  <2>1. /\ txn_state = TXN_RET_SIGS /\ txn_state' = TXN_RET_SIGS /\ initialized'
        /\ UNCHANGED <<in_num, out_num>> /\ curr_obj # in_num
        /\ curr_obj' = (curr_obj + 1) % 256
    BY <1>0, <1>8 DEF ReturnSig, txnVars
  <2>2. curr_obj < in_num /\ curr_obj \in 0..255 /\ curr_obj < 255
    BY <1>0, <2>1, SMTT(30) DEF Counters, DecoderTypeOK
  <2>3. curr_obj' = curr_obj + 1
    BY <2>1, <2>2, Wrap
  <2>4. /\ Phase = "signed" /\ Phase' = "signed"
        /\ UNCHANGED <<Inputs, Outputs, Approved>>
        /\ Inputs = in_num /\ Returned = curr_obj /\ Returned' = curr_obj + 1
    BY <1>0, <2>1, <2>3 DEF Phase, Reviewing, Inputs, Outputs, Approved, Returned
  <2> QED
    BY <2>2, <2>4 DEF Promise!Next, Promise!Return
<1>9. CASE ResponseFull
  BY <1>0, <1>9, Stutter DEF ResponseFull, txnVars
<1>10. CASE SigsReturned
  BY <1>10, Closed DEF SigsReturned, Promise!Next
<1> QED
  BY <1>1, <1>2, <1>3, <1>4, <1>5, <1>6, <1>7, <1>8, <1>9, <1>10 DEF txn_next_elem

\* A press of the right button opens a transaction or approves one output.
LEMMA PressStep ==
  ASSUME Basics, Approvals, UserPressesRight
  PROVE  [Promise!Next]_(Promise!vars)
<1>0. /\ DecoderTypeOK /\ Counters /\ Control
      /\ txn_state \in 0..5 /\ curr_obj \in 0..255 /\ confirmed \in 0..255
  BY DEF Basics, TypeOK, SignTypeOK, DecoderTypeOK, HistoryTypeOK
<1>1. /\ initialized' /\ PressRight
      /\ UNCHANGED <<in_num, out_num, curr_obj>>
  BY DEF UserPressesRight, PressRight
<1>2. CASE ~initialized
  <2>1. txn_state' = TXN_START_IN
    BY <1>1, <1>2 DEF PressRight
  <2>2. /\ Phase = "closed" /\ Phase' = "reading"
        /\ Inputs' = 0 /\ Outputs' = 0 /\ Approved' = 0 /\ Returned' = 0
    BY <1>1, <1>2, <2>1 DEF Phase, Reviewing, Inputs, Outputs, Approved, Returned
  <2> QED
    BY <2>2 DEF Promise!Next, Promise!Open
<1>3. CASE initialized /\ txn_state = TXN_OUT
  <2>1. txn_state' = TXN_OUT /\ confirmed' = curr_obj
    BY <1>3 DEF UserPressesRight, PressRight, Approving, ShowsApproval
  <2>2. /\ curr_obj = confirmed \/ curr_obj = confirmed + 1
        /\ curr_obj <= out_num
    BY <1>0, <1>3 DEF Approvals, Counters
  <2>3. CASE curr_obj = confirmed
    BY <1>1, <1>3, <2>1, <2>3, Stutter
  <2>4. CASE curr_obj = confirmed + 1
    <3>1. /\ Phase = "reviewing" /\ Phase' = "reviewing"
          /\ UNCHANGED <<Inputs, Outputs, Returned>>
          /\ Approved = confirmed /\ Approved' = confirmed + 1 /\ Outputs = out_num
      BY <1>1, <1>3, <2>1, <2>4 DEF Phase, Reviewing, Inputs, Outputs, Approved, Returned
    <3>2. confirmed < out_num
      BY <1>0, <2>2, <2>4 DEF DecoderTypeOK
    <3> QED
      BY <3>1, <3>2 DEF Promise!Next, Promise!Approve
  <2> QED
    BY <2>2, <2>3, <2>4
<1>4. CASE initialized /\ txn_state # TXN_OUT
  <2>1. UNCHANGED <<txn_state, confirmed>>
    BY <1>4 DEF UserPressesRight, PressRight, Approving, ShowsApproval
  <2> QED
    BY <1>1, <1>4, <2>1, Stutter
<1> QED
  BY <1>2, <1>3, <1>4

\* Every step of a session is a step of the promise, or none.
LEMMA PromiseStep ==
  Basics /\ Basics' /\ Approvals /\ [Next]_vars => [Promise!Next]_(Promise!vars)
<1> SUFFICES ASSUME Basics, Basics', Approvals, [Next]_vars
             PROVE  [Promise!Next]_(Promise!vars)
  OBVIOUS
<1>a. ASSUME UNCHANGED decoderVars, UNCHANGED confirmed
      PROVE  [Promise!Next]_(Promise!vars)
  BY <1>a, Stutter DEF decoderVars, txnVars
<1>1. CASE DeviceComputes
  <2>0. UNCHANGED historyVars /\ UNCHANGED confirmed
    BY <1>1 DEF DeviceComputes, historyVars
  <2>1. CASE txn_next_elem
    BY <2>0, <2>1, DecoderStep
  <2>2. CASE HandlerReturns
    <3>1. UNCHANGED <<txn_state, in_num, out_num, curr_obj>>
      BY <2>2 DEF HandlerReturns, HandlerShowsOutput, HandlerFinishes,
                  HandlerContinues, ReturnToMain, txnVars
    <3>2. initialized' = FALSE \/ initialized' = initialized
      BY <2>2 DEF HandlerReturns, HandlerShowsOutput, HandlerFinishes, HandlerContinues
    <3>3. CASE initialized' = FALSE
      BY <3>3, Closed DEF Promise!Next
    <3>4. CASE initialized' = initialized
      BY <2>0, <3>1, <3>4, Stutter
    <3> QED
      BY <3>2, <3>3, <3>4
  <2>3. CASE ButtonReturns
    <3>1. UNCHANGED <<initialized, txn_state, in_num, out_num, curr_obj>>
      BY <2>3 DEF ButtonReturns, ButtonContinues, ButtonShowsOutput,
         ButtonShowsAndContinues, ButtonReleases, ButtonFinishes, ReturnFromButton,
         txnVars, Basics, Control
    <3> QED
      BY <2>0, <3>1, Stutter
  <2> QED
    BY <1>1, <2>1, <2>2, <2>3 DEF DeviceComputes, Compute
<1>2. CASE HostSend
  <2>1. PICK p1, place, len : handleSignTxn(p1, place, len)
    BY <1>2 DEF HostSend
  <2>2. UNCHANGED <<txn_state, in_num, out_num, curr_obj, confirmed>>
    BY <1>2, <2>1 DEF HostSend, historyVars, handleSignTxn, Offer, Decode, Redisplay,
                      Refuse, txnVars
  <2>3. initialized' = FALSE \/ initialized' = initialized
    BY <2>1 DEF handleSignTxn, Offer, Decode, Redisplay, Refuse
  <2>4. CASE initialized' = FALSE
    BY <2>4, Closed DEF Promise!Next
  <2>5. CASE initialized' = initialized
    BY <2>2, <2>5, Stutter
  <2> QED
    BY <2>3, <2>4, <2>5
<1>3. CASE UserPressesRight
  BY <1>3, PressStep
<1>4. CASE HostStart
  BY <1>4, <1>a DEF HostStart, signVars, historyVars
<1>5. CASE HostReceive
  BY <1>5, <1>a DEF HostReceive, historyVars
<1>6. CASE UserPressesLeft
  BY <1>6, <1>a DEF UserPressesLeft, PressLeft
<1>7. CASE UserDismisses
  BY <1>7, <1>a DEF UserDismisses, DismissMessage, historyVars
<1>8. CASE HostDies
  BY <1>8, <1>a DEF HostDies, historyVars
<1>9. CASE DeviceRestarts
  BY <1>9, Closed DEF DeviceRestarts, Promise!Next
<1>10. CASE UNCHANGED vars
  BY <1>10, <1>a DEF vars, signVars, historyVars
<1> QED
  BY <1>1, <1>2, <1>3, <1>4, <1>5, <1>6, <1>7, <1>8, <1>9, <1>10 DEF Next

\* For every transaction, packet size and user, with and without faults, the
\* session keeps the promise made to the user.
THEOREM SessionKeepsPromise == Spec => KeepsPromise
<1>1. Init => Promise!Init
  BY DEF Init, SignInit, DecoderInit, Promise!Init, Phase, Reviewing, Inputs, Outputs,
         Approved, Returned
<1>2. Init => Approvals
  BY DEF Init, SignInit, DecoderInit, Approvals
<1>3. Spec => []Approvals
  BY <1>2, NextApprovals, SessionBasics, PTL DEF Spec
<1> QED
  BY <1>1, <1>3, PromiseStep, SessionBasics, PTL DEF Spec, KeepsPromise, Promise!Spec
=============================================================================
