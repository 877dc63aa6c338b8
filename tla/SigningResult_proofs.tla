------------------------ MODULE SigningResult_proofs ------------------------
(***************************************************************************)
(* Proofs about SigningSession for a user who is not Eager: what the device*)
(* answers, what the script has when it ends, and what the user has seen of*)
(* the outputs.                                                            *)
(***************************************************************************)
EXTENDS SigningWhole_proofs, SequenceTheorems

USE DEF COUNT_LEN, INPUT_LEN, OUTPUT_LEN, MAX_INPUTS, HASH_LEN, SIG_LEN,
        APDU_LEN,
        TXN_START_IN, TXN_IN, TXN_START_OUT, TXN_OUT, TXN_COMPUTE_SIGS,
        TXN_RET_SIGS,
        NotThrown, TXN_PARTIAL, TXN_PARTIAL_OUT, TXN_APPROVE_OUT, TXN_READY,
        TXN_FINISHED

-----------------------------------------------------------------------------
(* Fifth layer: responses.                                                 *)

\* Hashes are told from what the slots hold.
LEMMA ItemKinds ==
  ASSUME NEW p, NEW h, NEW s
  PROVE  /\ HashItem(h).kind = "hash" /\ Input(p).kind = "input"
         /\ Signature(h, p).kind = "signature" /\ Sign(h, s).kind = "signature"
BY DEF HashItem, Input, Signature, Sign

\* The slots hold inputs and signatures, never a hash.
LEMMA DecoderSlots ==
  ASSUME DecoderTypeOK, Counters, txn_next_elem,
         \A i \in 0..MAX_INPUTS-1 : sig_input[i].kind # "hash"
  PROVE  \A i \in 0..MAX_INPUTS-1 : sig_input'[i].kind # "hash"
<1>0. sig_input \in [0..19 -> Item]
  BY DecoderRanges
<1>1. CASE ReadInput
  <2>1. sig_input' = [sig_input EXCEPT ![curr_obj] = Input(Element)]
    BY <1>1 DEF ReadInput
  <2> QED
    BY <1>0, <2>1, ItemKinds
<1>2. CASE ComputeSigs
  <2>1. sig_input' = [i \in DOMAIN sig_input |->
                        IF i < in_num THEN Sign(inner_hash, sig_input[i])
                        ELSE sig_input[i]]
    BY <1>2 DEF ComputeSigs
  <2> QED
    BY <1>0, <2>1, ItemKinds
<1>3. CASE ~ReadInput /\ ~ComputeSigs
  <2>1. sig_input' = sig_input
    BY <1>3 DEF txn_next_elem, SavePartial, ReadInCount, ReadOutCount, ReadOutput,
       OutputsRead, ReturnSig, ResponseFull, SigsReturned, txnVars
  <2> QED
    BY <2>1
<1> QED
  BY <1>1, <1>2, <1>3

LEMMA DecoderResponses ==
  ASSUME Basics, Exchanges, Responses, txn_next_elem, UNCHANGED awaiting
  PROVE  Responses'
<1>0. /\ DecoderTypeOK /\ Counters /\ Running /\ caller' = caller /\ awaiting
      /\ txn_state \in 0..5 /\ in_num \in 0..20 /\ curr_obj \in 0..255
      /\ response \in Seq(Item) /\ tx \in Nat /\ caller # "none"
  BY DecoderSteps, DecoderRanges DEF Basics, TypeOK, SignTypeOK, DecoderTypeOK, Exchanges,
     Running
<1>1. \A i \in 0..MAX_INPUTS-1 : sig_input'[i].kind # "hash"
  BY <1>0, DecoderSlots DEF Responses
<1>2. /\ \A i \in 1..Len(response) : response[i].kind # "hash"
      /\ tx = Len(response) * SIG_LEN
  BY <1>0 DEF Responses, Idle
<1>3. CASE ReturnSig
  <2>1. /\ curr_obj \in 0..MAX_INPUTS-1 /\ txn_state = TXN_RET_SIGS
        /\ response' = Append(response, sig_input[curr_obj])
        /\ tx' = tx + SIG_LEN /\ tx + SIG_LEN <= APDU_LEN
    BY <1>0, <1>3 DEF ReturnSig, Counters
  <2>2. caller # "button"
    BY <1>0, <2>1, DecoderSteps DEF Exchanges, Running
  <2>3. sig_input[curr_obj] \in Item /\ sig_input[curr_obj].kind # "hash"
    <3>1. sig_input \in [0..19 -> Item]
      BY <1>0, DecoderRanges
    <3>2. sig_input[curr_obj].kind # "hash"
      BY <2>1 DEF Responses
    <3> QED
      BY <2>1, <3>1, <3>2, SMTT(30)
  <2>4. /\ Len(response') = Len(response) + 1
        /\ \A i \in 1..Len(response) : response'[i] = response[i]
        /\ response'[Len(response) + 1] = sig_input[curr_obj]
    BY <1>0, <2>1, <2>3, AppendProperties
  <2>5. Len(response) \in Nat
    BY <1>0
  <2>6. \A i \in 1..Len(response') : response'[i].kind # "hash"
    BY <1>2, <2>3, <2>4, <2>5
  <2>7. tx' = Len(response') * SIG_LEN
    BY <1>2, <2>1, <2>4, <2>5
  <2> QED
    BY <1>0, <1>1, <2>1, <2>2, <2>6, <2>7 DEF Responses, Idle
<1>4. CASE ~ReturnSig
  <2>1. UNCHANGED <<response, tx>>
    BY <1>4 DEF txn_next_elem, SavePartial, ReadInCount, ReadInput, ReadOutCount,
       ReadOutput, OutputsRead, ComputeSigs, ResponseFull, SigsReturned, outVars
  <2> QED
    BY <1>0, <1>1, <1>2, <2>1 DEF Responses, Idle
<1> QED
  BY <1>3, <1>4

\* An empty response, whatever was in it.
LEMMA EmptyResponse ==
  ASSUME Responses, response' = <<>>, tx' = 0, UNCHANGED sig_input
  PROVE  Responses'
BY DEF Responses

\* A response that no one touches, as long as no press becomes possible.
LEMMA SameResponse ==
  ASSUME Responses, UNCHANGED <<sig_input, response, tx, inner_hash>>,
         UNCHANGED caller \/ caller' = "none",
         Idle' /\ awaiting' => Idle /\ awaiting
  PROVE  Responses'
BY DEF Responses, Idle

LEMMA NextResponses ==
  ASSUME ~Eager, Basics, Exchanges, Responses, [Next]_vars
  PROVE  Responses'
<1>0. /\ Control /\ caller \in {"none", "handler", "button"}
  BY DEF Basics, TypeOK, SignTypeOK, DecoderTypeOK
<1>a. ASSUME UNCHANGED decoderVars, awaiting' => awaiting PROVE Responses'
  <2>1. UNCHANGED <<sig_input, response, tx, inner_hash, caller>>
    BY <1>a DEF decoderVars, outVars, txnVars
  <2> QED
    BY <1>a, <2>1, SameResponse DEF Idle
<1>1. CASE DeviceComputes
  <2>1. CASE txn_next_elem /\ UNCHANGED <<uiVars, ioVars>>
    BY <2>1, DecoderResponses DEF ioVars
  <2>2. CASE HandlerReturns
    <3>1. response' = <<>> /\ tx' = 0 /\ UNCHANGED sig_input
      BY <2>2 DEF HandlerReturns, HandlerShowsOutput, HandlerFinishes, HandlerContinues,
                  ReturnToMain, txnVars
    <3> QED
      BY <3>1, EmptyResponse
  <2>3. CASE ButtonReturns
    <3>1. /\ caller = "button" /\ caller' = "none" /\ UNCHANGED <<sig_input, inner_hash>>
          /\ response = <<>> /\ tx = 0
      BY <2>3 DEF ButtonReturns, ButtonContinues, ButtonShowsOutput,
         ButtonShowsAndContinues, ButtonReleases, ButtonFinishes, ReturnFromButton,
         txnVars, Responses
    <3>2. CASE ButtonReleases
      <4>1. /\ response' = <<HashItem(inner_hash')>> /\ tx' = HASH_LEN
            /\ awaiting' = FALSE
        BY <3>1, <3>2 DEF ButtonReleases, io_exchange_with_code
      <4> QED
        BY <3>1, <4>1 DEF Responses, Idle
    <3>3. CASE ~ButtonReleases
      <4>1. UNCHANGED <<response, tx>>
        BY <2>3, <3>3 DEF ButtonReturns, ButtonContinues, ButtonShowsOutput,
           ButtonShowsAndContinues, ButtonFinishes, outVars
      <4> QED
        BY <3>1, <4>1, EmptyResponse
    <3> QED
      BY <3>2, <3>3
  <2> QED
    BY <1>1, <2>1, <2>2, <2>3 DEF DeviceComputes, Compute
<1>2. CASE HostSend
  <2>1. PICK p1, place, len : handleSignTxn(p1, place, len)
    BY <1>2 DEF HostSend
  <2>2. response' = <<>> /\ tx' = 0 /\ UNCHANGED sig_input
    BY <2>1 DEF handleSignTxn, Offer, Decode, Redisplay, Refuse, TakePacket, txnVars
  <2> QED
    BY <2>2, EmptyResponse
<1>3. CASE UserPressesRight
  <2>1. /\ awaiting /\ Idle /\ caller' = "button"
        /\ UNCHANGED <<sig_input, response, tx>>
    BY <1>3 DEF UserPressesRight, MayPress, PressRight, outVars
  <2>2. response = <<>> /\ tx = 0
    BY <2>1 DEF Responses
  <2> QED
    BY <2>1, <2>2, EmptyResponse
<1>4. CASE HostStart
  BY <1>4, <1>a DEF HostStart, signVars, ioVars
<1>5. CASE HostReceive
  BY <1>5, <1>a DEF HostReceive
<1>6. CASE UserPressesLeft
  BY <1>6, <1>a DEF UserPressesLeft, PressLeft, io_async_exchange_error,
                    io_exchange_with_code
<1>7. CASE UserDismisses
  BY <1>7, <1>a DEF UserDismisses, DismissMessage, ioVars
<1>8. CASE HostDies
  BY <1>8, <1>a DEF HostDies
<1>9. CASE DeviceRestarts
  <2>1. /\ response' = <<>> /\ tx' = 0
        /\ sig_input' = [i \in 0..MAX_INPUTS-1 |-> Input(Garbled)]
    BY <1>9 DEF DeviceRestarts
  <2>2. \A i \in 0..MAX_INPUTS-1 : sig_input'[i].kind # "hash"
    BY <2>1, ItemKinds
  <2> QED
    BY <2>1, <2>2 DEF Responses
<1>10. CASE UNCHANGED vars
  BY <1>10, <1>a DEF vars, signVars, ioVars
<1> QED
  BY <1>1, <1>2, <1>3, <1>4, <1>5, <1>6, <1>7, <1>8, <1>9, <1>10 DEF Next

LEMMA ResponsesFit == Basics /\ Responses => ResponseFits
<1> SUFFICES ASSUME Basics, Responses PROVE ResponseFits
  OBVIOUS
<1> DEFINE hashes == {i \in DOMAIN response : response[i].kind = "hash"}
<1>0. response \in Seq(Item) /\ Len(response) \in Nat /\ DOMAIN response = 1..Len(response)
  BY DEF Basics, TypeOK, SignTypeOK, DecoderTypeOK
<1>1. CASE response = <<HashItem(inner_hash)>> /\ tx = HASH_LEN
  <2>1. Len(response) = 1 /\ response[1] = HashItem(inner_hash) /\ DOMAIN response = {1}
    BY <1>1
  <2>2. hashes = {1}
    BY <2>1, ItemKinds
  <2> QED
    BY <1>1, <2>1, <2>2 DEF ResponseFits
<1>2. CASE /\ \A i \in 1..Len(response) : response[i].kind # "hash"
           /\ tx = Len(response) * SIG_LEN
  <2>1. hashes = {}
    BY <1>0, <1>2
  <2>2. tx <= APDU_LEN
    BY DEF Responses
  <2> QED
    BY <1>0, <1>2, <2>1, <2>2 DEF ResponseFits
<1> QED
  BY <1>1, <1>2 DEF Responses

-----------------------------------------------------------------------------
(* Fifth layer: a transaction that has been cancelled.                     *)

LEMMA NextCancelled ==
  ASSUME ~Eager, Basics, Exchanges, Cancelled, [Next]_vars
  PROVE  Cancelled'
<1>0. /\ Control /\ txn_state \in 0..5 /\ caller \in {"none", "handler", "button"}
      /\ reply \in Replies
  BY DEF Basics, TypeOK, SignTypeOK, DecoderTypeOK
<1>1. CASE DeviceComputes
  <2>1. caller # "none" /\ UNCHANGED historyVars /\ (initialized' => initialized)
    <3>1. CASE txn_next_elem
      BY <1>1, <3>1, DecoderSteps DEF DeviceComputes, Running
    <3>2. CASE HandlerReturns
      BY <1>1, <3>2 DEF DeviceComputes, HandlerReturns, HandlerShowsOutput,
         HandlerFinishes, HandlerContinues, ReturnToMain
    <3>3. CASE ButtonReturns
      BY <1>1, <3>3 DEF DeviceComputes, ButtonReturns, ButtonContinues,
         ButtonShowsOutput, ButtonShowsAndContinues, ButtonReleases, ButtonFinishes,
         ReturnFromButton
    <3> QED
      BY <1>1, <3>1, <3>2, <3>3 DEF DeviceComputes, Compute
  <2> QED
    BY <2>1 DEF Cancelled, Idle, historyVars
<1>2. CASE HostSend
  <2>1. CASE sent = 0
    <3>1. PICK place, len : handleSignTxn(0, place, len)
      BY <1>2, <2>1 DEF HostSend
    <3>2. ~initialized'
      BY <3>1 DEF handleSignTxn, Offer, Decode, Redisplay, Refuse
    <3> QED
      BY <3>2 DEF Cancelled
  <2>2. CASE sent # 0
    <3>1. sent > 0 /\ Active /\ ~Waiting
      BY <1>2, <2>2 DEF HostSend, Active, Waiting, Basics, TypeOK, HostTypeOK
    <3>2. ~(initialized /\ cancelled)
      BY <3>1 DEF Cancelled
    <3>3. cancelled' = cancelled /\ (initialized' => initialized)
      BY <1>2 DEF HostSend, historyVars, handleSignTxn, Offer, Decode, Redisplay, Refuse
    <3> QED
      BY <3>2, <3>3 DEF Cancelled
  <2> QED
    BY <2>1, <2>2
<1>3. CASE HostStart
  BY <1>3 DEF HostStart, signVars, decoderVars, ioVars, historyVars, Cancelled, Idle
<1>4. CASE HostReceive
  <2>1. /\ UNCHANGED <<initialized, txn_state, caller, awaiting, cancelled, sent>>
        /\ Active /\ (reply.sw = SW_ERROR => ~Active')
    BY <1>4 DEF HostReceive, decoderVars, historyVars, Waiting, Active, SW_ERROR,
                INS_RET_SUCCESS
  <2> QED
    BY <2>1 DEF Cancelled, Idle
<1>5. CASE UserPressesRight
  <2>1. awaiting /\ Idle /\ cancelled' = (initialized /\ cancelled)
    BY <1>5 DEF UserPressesRight, MayPress, PressRight
  <2> QED
    BY <2>1 DEF Cancelled
<1>6. CASE UserPressesLeft
  <2>1. /\ awaiting /\ Idle /\ awaiting' = FALSE /\ reply'.sw = SW_ERROR
        /\ UNCHANGED <<initialized, txn_state, caller, host, sent>>
        /\ cancelled' = initialized
    BY <1>6, ReplyStatus
       DEF UserPressesLeft, MayPress, PressLeft, decoderVars, hostVars,
           io_async_exchange_error, io_exchange_with_code
  <2>2. initialized => txn_state < TXN_COMPUTE_SIGS
    BY <2>1 DEF Exchanges
  <2>3. Active' /\ sent' > 0 => Waiting'
    BY <2>1 DEF Exchanges, Active, Waiting
  <2> QED
    BY <2>1, <2>2, <2>3 DEF Cancelled, Idle
<1>7. CASE UserDismisses
  BY <1>7 DEF UserDismisses, DismissMessage, decoderVars, ioVars, hostVars, historyVars,
              Cancelled, Idle, Active, Waiting
<1>8. CASE HostDies
  BY <1>8 DEF HostDies, decoderVars, historyVars, Cancelled, Idle, Active
<1>9. CASE DeviceRestarts
  BY <1>9 DEF DeviceRestarts, Cancelled
<1>10. CASE UNCHANGED vars
  BY <1>10 DEF vars, signVars, decoderVars, ioVars, hostVars, historyVars,
               Cancelled, Idle, Active, Waiting
<1> QED
  BY <1>1, <1>2, <1>3, <1>4, <1>5, <1>6, <1>7, <1>8, <1>9, <1>10 DEF Next

-----------------------------------------------------------------------------
(* ResponseFits and CancelledIsNeverSigned.                                *)

LEMMA InitResponses == Init => Responses /\ Cancelled
<1> SUFFICES ASSUME Init PROVE Responses /\ Cancelled
  OBVIOUS
<1>1. /\ response = <<>> /\ tx = 0 /\ ~initialized
      /\ sig_input = [i \in 0..MAX_INPUTS-1 |-> Input(Garbled)]
  BY DEF Init, SignInit, DecoderInit
<1>2. \A i \in 0..MAX_INPUTS-1 : sig_input[i].kind # "hash"
  BY <1>1, ItemKinds
<1>3. Cancelled
  BY <1>1 DEF Cancelled
<1>4. Responses
  BY <1>1, <1>2 DEF Responses
<1> QED
  BY <1>3, <1>4

LEMMA SessionResponses ==
  ASSUME ~Eager
  PROVE  Spec => [](Responses /\ Cancelled)
<1> DEFINE Before == Basics /\ Exchanges /\ Feed /\ Progress
<1>2. Before /\ Responses /\ Cancelled /\ [Next]_vars => (Responses /\ Cancelled)'
  BY NextResponses, NextCancelled
<1>3. Spec => []Before
  BY SessionProgress
<1> QED
  BY <1>2, <1>3, InitResponses, PTL DEF Spec

\* What an answer carries is as long as its length says and fits an APDU, in
\* every session of a user who presses only when asked.
THEOREM SessionResponseFits == ~Eager => (Spec => []ResponseFits)
<1> SUFFICES ASSUME ~Eager PROVE Spec => []ResponseFits
  OBVIOUS
<1>1. Spec => [](Basics /\ Exchanges /\ Feed /\ Progress)
  BY SessionProgress
<1>2. Spec => [](Responses /\ Cancelled)
  BY SessionResponses
<1> QED
  BY <1>1, <1>2, ResponsesFit, PTL

\* A transaction cancelled with the left button is never signed, in every
\* session of a user who presses only when asked.
THEOREM SessionCancels == ~Eager => (Spec => []CancelledIsNeverSigned)
<1> SUFFICES ASSUME ~Eager PROVE Spec => []CancelledIsNeverSigned
  OBVIOUS
<1>1. Cancelled => CancelledIsNeverSigned
  BY DEF Cancelled, CancelledIsNeverSigned, Signing
<1> QED
  BY <1>1, SessionResponses, PTL

-----------------------------------------------------------------------------
(* Sixth layer: sequences of items.                                        *)

LEMMA NothingConcats ==
  ASSUME NEW s \in Seq(Item)
  PROVE  s \o <<>> = s /\ <<>> \o s = s
OBVIOUS

LEMMA BothEmpty ==
  ASSUME NEW s \in Seq(Item), NEW r \in Seq(Item), s \o r = <<>>
  PROVE  s = <<>> /\ r = <<>>
<1>1. Len(s \o r) = Len(s) + Len(r) /\ Len(s) \in Nat /\ Len(r) \in Nat
  OBVIOUS
<1>2. Len(s) = 0 /\ Len(r) = 0
  BY <1>1
<1> QED
  BY <1>2

LEMMA Appended ==
  ASSUME NEW s \in Seq(Item), NEW x \in Item
  PROVE  /\ Append(s, x) \in Seq(Item) /\ Len(Append(s, x)) = Len(s) + 1
         /\ \A i \in 1..Len(s) : Append(s, x)[i] = s[i]
         /\ Append(s, x)[Len(s) + 1] = x
BY AppendProperties

LEMMA AppendConcat ==
  ASSUME NEW s \in Seq(Item), NEW r \in Seq(Item), NEW x \in Item
  PROVE  s \o Append(r, x) = Append(s \o r, x)
<1>1. /\ Append(r, x) \in Seq(Item) /\ s \o r \in Seq(Item)
      /\ s \o Append(r, x) \in Seq(Item) /\ Append(s \o r, x) \in Seq(Item)
      /\ Len(s) \in Nat /\ Len(r) \in Nat
  OBVIOUS
<1>2. /\ Len(s \o Append(r, x)) = Len(s) + Len(r) + 1
      /\ Len(Append(s \o r, x)) = Len(s) + Len(r) + 1
  BY <1>1
<1>3. ASSUME NEW i \in 1..Len(s) + Len(r) + 1
      PROVE  (s \o Append(r, x))[i] = Append(s \o r, x)[i]
  BY <1>1, <1>3
<1> QED
  BY <1>1, <1>2, <1>3, SeqEqual

\* What a script is to get, item by item.
LEMMA Prefixes ==
  ASSUME NEW t \in Txns
  PROVE  /\ Prefix(t, 0) = <<>>
         /\ Prefix(t, 1) = <<HashItem(At(t, TxnLen(t)))>>
         /\ \A n \in 0..20 : Prefix(t, n) \in Seq(Item)
         /\ \A n \in 0..20 :
              Prefix(t, n + 2) = Append(Prefix(t, n + 1),
                   Signature(At(t, TxnLen(t)), At(t, InputAt(n))))
         /\ Prefix(t, t.in_num + 1) =
              <<HashItem(At(t, TxnLen(t)))>> \o
              [i \in 1..t.in_num |->
                 Signature(At(t, TxnLen(t)), At(t, InputAt(i - 1)))]
<1> DEFINE h == At(t, TxnLen(t))
           S(i) == Signature(h, At(t, InputAt(i)))
<1>1. h \in Place /\ t.in_num \in 1..20
  BY TxnLenType, AtType
<1>2. HashItem(h) \in Item
  BY <1>1, ItemType DEF HashItem, Item, Garbled, Place
<1>3. ASSUME NEW i \in 0..20 PROVE S(i) \in Item
  <2>1. InputAt(i) \in Nat
    BY DEF InputAt
  <2>2. At(t, InputAt(i)) \in Place
    BY <2>1, AtType
  <2> QED
    BY <1>1, <2>2 DEF Signature, Item
<1>4. \A n : Prefix(t, n) = [k \in 1..n |-> IF k = 1 THEN HashItem(h) ELSE S(k - 2)]
  BY DEF Prefix
<1> HIDE DEF h, S
<1>5. ASSUME NEW n \in 0..22 PROVE Prefix(t, n) \in Seq(Item) /\ Len(Prefix(t, n)) = n
  <2>1. ASSUME NEW k \in 1..n
        PROVE  (IF k = 1 THEN HashItem(h) ELSE S(k - 2)) \in Item
    <3>1. k # 1 => k - 2 \in 0..20
      OBVIOUS
    <3> QED
      BY <1>2, <1>3, <3>1
  <2> QED
    BY <1>4, <2>1
<1>6. Prefix(t, 0) = <<>>
  BY <1>4
<1>7. Prefix(t, 1) = <<HashItem(h)>>
  <2>1. /\ Prefix(t, 1) \in Seq(Item) /\ Len(Prefix(t, 1)) = 1
        /\ Prefix(t, 1)[1] = HashItem(h)
    BY <1>4, <1>5, SMTT(30)
  <2>2. <<HashItem(h)>> \in Seq(Item) /\ Len(<<HashItem(h)>>) = 1
    BY <1>2
  <2> QED
    BY <2>1, <2>2, SeqEqual
<1>8. ASSUME NEW n \in 0..20
      PROVE  Prefix(t, n + 2) = Append(Prefix(t, n + 1), S(n))
  <2>1. /\ Prefix(t, n + 2) \in Seq(Item) /\ Len(Prefix(t, n + 2)) = n + 2
        /\ Prefix(t, n + 1) \in Seq(Item) /\ Len(Prefix(t, n + 1)) = n + 1
    <3>1. n + 2 \in 0..22 /\ n + 1 \in 0..22
      OBVIOUS
    <3> QED
      BY <1>5, <3>1
  <2>2. /\ Append(Prefix(t, n + 1), S(n)) \in Seq(Item)
        /\ Len(Append(Prefix(t, n + 1), S(n))) = n + 2
        /\ \A i \in 1..n + 1 : Append(Prefix(t, n + 1), S(n))[i] = Prefix(t, n + 1)[i]
        /\ Append(Prefix(t, n + 1), S(n))[n + 2] = S(n)
    <3>1. S(n) \in Item /\ n + 1 + 1 = n + 2
      BY <1>3
    <3> QED
      BY <2>1, <3>1, Appended
  <2>3. ASSUME NEW i \in 1..n + 2
        PROVE  Prefix(t, n + 2)[i] = Append(Prefix(t, n + 1), S(n))[i]
    <3>1. CASE i = n + 2
      <4>1. i # 1 /\ i - 2 = n
        BY <3>1
      <4>2. Prefix(t, n + 2)[i] = S(i - 2)
        BY <1>4, <4>1
      <4> QED
        BY <2>2, <3>1, <4>1, <4>2
    <3>2. CASE i # n + 2
      <4>1. i \in 1..n + 1
        BY <3>2
      <4> QED
        BY <1>4, <2>2, <4>1
    <3> QED
      BY <3>1, <3>2
  <2> QED
    BY <2>1, <2>2, <2>3, SeqEqual
<1>9. Prefix(t, t.in_num + 1) = <<HashItem(h)>> \o [i \in 1..t.in_num |-> S(i - 1)]
  <2> DEFINE sigs == [i \in 1..t.in_num |-> S(i - 1)]
             all  == <<HashItem(h)>> \o sigs
  <2>1. ASSUME NEW i \in 1..t.in_num PROVE S(i - 1) \in Item
    <3>1. i - 1 \in 0..20
      BY <1>1
    <3> QED
      BY <1>3, <3>1
  <2>2. sigs \in Seq(Item) /\ Len(sigs) = t.in_num /\ \A i \in 1..t.in_num : sigs[i] = S(i - 1)
    <3>1. sigs \in [1..t.in_num -> Item] /\ t.in_num \in Nat
      BY <1>1, <2>1
    <3>2. \A i \in 1..t.in_num : sigs[i] = S(i - 1)
      OBVIOUS
    <3> HIDE DEF sigs
    <3>3. sigs \in Seq(Item) /\ Len(sigs) = t.in_num
      BY <3>1
    <3> QED
      BY <3>2, <3>3
  <2> HIDE DEF sigs
  <2>3. /\ all \in Seq(Item) /\ Len(all) = t.in_num + 1
        /\ all[1] = HashItem(h)
        /\ \A i \in 2..t.in_num + 1 : all[i] = sigs[i - 1]
    BY <1>1, <1>2, <2>2
  <2>4. Prefix(t, t.in_num + 1) \in Seq(Item) /\ Len(Prefix(t, t.in_num + 1)) = t.in_num + 1
    <3>1. t.in_num + 1 \in 0..22
      BY <1>1
    <3> QED
      BY <1>5, <3>1
  <2>5. ASSUME NEW i \in 1..t.in_num + 1 PROVE Prefix(t, t.in_num + 1)[i] = all[i]
    <3>0. Prefix(t, t.in_num + 1)[i] = IF i = 1 THEN HashItem(h) ELSE S(i - 2)
      BY <1>1, <1>4
    <3>1. CASE i = 1
      BY <2>3, <3>0, <3>1
    <3>2. CASE i # 1
      <4>1. i \in 2..t.in_num + 1 /\ i - 1 \in 1..t.in_num /\ (i - 1) - 1 = i - 2
        BY <1>1, <3>2
      <4>2. all[i] = sigs[i - 1] /\ sigs[i - 1] = S((i - 1) - 1)
        BY <2>2, <2>3, <4>1
      <4> QED
        BY <3>0, <3>2, <4>1, <4>2
    <3> QED
      BY <3>1, <3>2
  <2> HIDE DEF all
  <2>6. Prefix(t, t.in_num + 1) = all
    BY <1>1, <2>3, <2>4, <2>5, SeqEqual
  <2> QED
    BY <2>6 DEF all, sigs
<1>10. ASSUME NEW n \in 0..20 PROVE Prefix(t, n) \in Seq(Item)
  <2>1. n \in 0..22
    OBVIOUS
  <2> QED
    BY <1>5, <2>1
<1>11. \A n \in 0..20 : Prefix(t, n + 2) = Append(Prefix(t, n + 1), S(n))
  BY <1>8
<1> QED
  BY <1>6, <1>7, <1>9, <1>10, <1>11 DEF h, S

-----------------------------------------------------------------------------
(* Sixth layer: who runs the decoder when.                                 *)

\* Signing under way is of the whole transaction, which its counts fit.
LEMMA SigningNow ==
  ASSUME Basics, Progress, Signing
  PROVE  LET t == inner_hash.txn IN
         /\ t \in Txns /\ inner_hash = At(t, TxnLen(t))
         /\ in_num = t.in_num /\ in_num \in 1..20 /\ curr_obj \in 0..in_num
         /\ txn_state = TXN_RET_SIGS =>
              \A i \in 0..in_num - 1 :
                sig_input[i] = Signature(inner_hash, At(t, InputAt(i)))
<1>0. /\ DecoderTypeOK /\ Counters /\ SignsOneWholeTransaction
      /\ inner_hash \in Place /\ txn_state \in {TXN_COMPUTE_SIGS, TXN_RET_SIGS}
  BY DEF Basics, TypeOK, SignTypeOK, DecoderTypeOK, Progress, Signing
<1>1. inner_hash.txn \in Txns
  BY <1>0 DEF Place, SignsOneWholeTransaction
<1>2. in_num = inner_hash.txn.in_num /\ in_num \in 1..20
  BY <1>0, <1>1, Layout DEF SignsOneWholeTransaction
<1>3. curr_obj \in 0..in_num
  <2>1. curr_obj \in 0..255 /\ curr_obj <= in_num
    BY <1>0, <1>2, DecoderRanges DEF Counters
  <2> QED
    BY <1>2, <2>1
<1>4. txn_state = TXN_RET_SIGS => txn_state # TXN_COMPUTE_SIGS
  OBVIOUS
<1> QED
  BY <1>0, <1>1, <1>2, <1>3, <1>4 DEF SignsOneWholeTransaction

LEMMA NextServing ==
  ASSUME ~Eager, Basics, Exchanges, Serving, [Next]_vars
  PROVE  Serving'
<1>0. /\ Control /\ txn_state \in 0..5 /\ result \in 0..5 /\ sent \in Nat
      /\ caller \in {"none", "handler", "button"}
      /\ host \in {"streaming", "posted", "collecting", "asked", "done", "failed"}
  BY DEF Basics, TypeOK, SignTypeOK, DecoderTypeOK, HostTypeOK
<1>a. ASSUME UNCHANGED decoderVars, awaiting' => awaiting, UNCHANGED <<host, sent>>
      PROVE  Serving'
  BY <1>a DEF decoderVars, Serving, Running, Idle, Waiting
<1>b. ASSUME UNCHANGED decoderVars, awaiting' => awaiting, ~Waiting',
             host' = "collecting" => sent' > 0
      PROVE  Serving'
  BY <1>b DEF decoderVars, Serving, Running, Idle, Waiting
<1>1. CASE DeviceComputes
  <2>0. /\ caller # "none" /\ UNCHANGED <<host, sent>>
        /\ host \in {"posted", "collecting", "asked"} => sent > 0
    BY <1>1, DecoderSteps
       DEF DeviceComputes, hostVars, Compute, HandlerReturns, HandlerShowsOutput,
           HandlerFinishes, HandlerContinues, ReturnToMain, ButtonReturns, ButtonContinues,
           ButtonShowsOutput, ButtonShowsAndContinues, ButtonReleases, ButtonFinishes,
           ReturnFromButton, Running, Serving
  <2>1. CASE txn_next_elem
    <3>0. Running /\ initialized /\ caller' = caller /\ DecoderTypeOK /\ Counters
      BY <2>1, DecoderSteps DEF Basics, TypeOK, SignTypeOK
    <3>1. CASE OutputsRead
      <4>1. caller # "handler"
        BY <3>0, <3>1, DecoderRanges DEF OutputsRead, Serving, Counters
      <4> QED
        BY <2>0, <3>0, <3>1, <4>1 DEF OutputsRead, Serving, Throw, Idle, Waiting
    <3>2. CASE SigsReturned
      BY <2>0, <3>0, <3>2 DEF SigsReturned, Serving, Throw, Idle, Running
    <3>3. CASE ~OutputsRead /\ ~SigsReturned
      <4>1. /\ result' \notin {TXN_READY, TXN_FINISHED}
            /\ Running' => txn_state' # TXN_OUT \/ curr_obj' = 0
        <5>1. CASE SavePartial
          BY <3>0, <5>1 DEF SavePartial, Throw, Running
        <5>2. CASE ReadInCount
          BY <3>0, <5>2 DEF ReadInCount, Running
        <5>3. CASE ReadInput
          BY <3>0, <5>3 DEF ReadInput, Running
        <5>4. CASE ReadOutCount
          BY <3>0, <5>4 DEF ReadOutCount, Running
        <5>5. CASE ReadOutput
          BY <3>0, <5>5 DEF ReadOutput, Throw, Running
        <5>6. CASE ComputeSigs
          BY <3>0, <5>6 DEF ComputeSigs, Running
        <5>7. CASE ReturnSig
          BY <3>0, <5>7 DEF ReturnSig, Running
        <5>8. CASE ResponseFull
          BY <3>0, <5>8 DEF ResponseFull, Throw, Running
        <5> QED
          BY <2>1, <3>3, <5>1, <5>2, <5>3, <5>4, <5>5, <5>6, <5>7, <5>8 DEF txn_next_elem
      <4> QED
        BY <2>0, <3>0, <4>1 DEF Serving, Idle
    <3> QED
      BY <3>1, <3>2, <3>3
  <2>2. CASE HandlerReturns
    <3>1. /\ caller' = "none" /\ result' = NotThrown
          /\ awaiting' => initialized'
      <4>1. CASE HandlerShowsOutput
        BY <1>0, <4>1 DEF HandlerShowsOutput, ReturnToMain, Control
      <4>2. CASE HandlerFinishes \/ HandlerContinues
        BY <4>2 DEF HandlerFinishes, HandlerContinues, ReturnToMain, io_async_exchange_ok,
                    io_exchange_with_code
      <4> QED
        BY <2>2, <4>1, <4>2 DEF HandlerReturns
    <3> QED
      BY <2>0, <3>1 DEF Serving
  <2>3. CASE ButtonReturns
    <3>1. caller' = "none" /\ result' = NotThrown /\ initialized' = initialized
      BY <2>3 DEF ButtonReturns, ButtonContinues,
         ButtonShowsOutput, ButtonShowsAndContinues, ButtonReleases, ButtonFinishes,
         ReturnFromButton
    <3>2. result # TXN_FINISHED
      BY <2>3 DEF Exchanges, ButtonReturns, ButtonContinues,
         ButtonShowsOutput, ButtonShowsAndContinues, ButtonReleases, ButtonFinishes,
         ReturnFromButton
    <3>3. initialized
      BY <1>0, <2>3, <3>2 DEF Control, ButtonReturns, ButtonContinues,
         ButtonShowsOutput, ButtonShowsAndContinues, ButtonReleases, ButtonFinishes
    <3> QED
      BY <2>0, <3>1, <3>3 DEF Serving
  <2> QED
    BY <1>1, <2>1, <2>2, <2>3 DEF DeviceComputes, Compute
<1>2. CASE HostSend
  <2> DEFINE len == Least(Chunk, TxnLen(txn) - sent)
  <2>1. /\ host \in {"streaming", "collecting"} /\ sent' = sent + len
        /\ host' = IF host = "streaming" THEN "posted" ELSE "asked"
        /\ handleSignTxn(IF sent = 0 THEN 0 ELSE 1, At(txn, sent), len)
    BY <1>2 DEF HostSend
  <2>2. sent' > 0
    <3>1. txn \in Txns /\ sent \in 0..TxnLen(txn) /\ TxnLen(txn) >= 81
          /\ TxnLen(txn) \in Nat /\ Chunk \in 37..255
      BY <2>1, TxnLenType, SessionAssumption DEF Basics, TypeOK, HostTypeOK, Active
    <3>2. len \in Nat /\ (sent = 0 => len > 0)
      BY <3>1 DEF Least
    <3> QED
      BY <2>1, <3>1, <3>2
  <2> HIDE DEF len
  <2>3. /\ caller = "none" /\ UNCHANGED <<txn_state, curr_obj, result>>
        /\ result = NotThrown
    BY <1>0, <2>1 DEF handleSignTxn, Offer, Decode, Redisplay, Refuse, TakePacket, Idle,
                      Control
  <2>4. caller' = "handler" => txn_state' # TXN_OUT
    BY <2>1, <2>3 DEF handleSignTxn, Offer, Decode, Redisplay, Refuse, Unattended
  <2>5. awaiting' /\ ~initialized' => sent = 0
    BY <2>1 DEF handleSignTxn, Offer, Decode, Redisplay, Refuse
  <2>6. sent = 0 => host' = "posted"
    BY <2>1 DEF Serving
  <2> QED
    BY <2>2, <2>3, <2>4, <2>5, <2>6 DEF Serving
<1>3. CASE HostStart
  BY <1>3, <1>b DEF HostStart, signVars, ioVars, Waiting
<1>4. CASE HostReceive
  <2>1. host' = "collecting" => sent' > 0
    BY <1>4 DEF HostReceive, Serving, Waiting
  <2>2. ~Waiting'
    BY <1>4 DEF HostReceive, Waiting
  <2>3. UNCHANGED decoderVars /\ UNCHANGED awaiting
    BY <1>4 DEF HostReceive
  <2> QED
    BY <2>1, <2>2, <2>3, <1>b
<1>5. CASE UserPressesRight
  <2>1. /\ initialized' /\ caller' = "button" /\ UNCHANGED <<result, host, sent>>
        /\ caller = "none"
    BY <1>5 DEF UserPressesRight, PressRight, hostVars, Idle
  <2> QED
    BY <1>0, <2>1 DEF Serving, Idle, Control
<1>6. CASE UserPressesLeft
  BY <1>6, <1>a DEF UserPressesLeft, PressLeft, io_async_exchange_error,
                    io_exchange_with_code, hostVars
<1>7. CASE UserDismisses
  BY <1>7, <1>a DEF UserDismisses, DismissMessage, ioVars, hostVars
<1>8. CASE HostDies
  BY <1>8, <1>b DEF HostDies, Waiting
<1>9. CASE DeviceRestarts
  BY <1>9 DEF DeviceRestarts, Serving, Active, Waiting
<1>10. CASE UNCHANGED vars
  BY <1>10, <1>a DEF vars, signVars, ioVars, hostVars
<1> QED
  BY <1>1, <1>2, <1>3, <1>4, <1>5, <1>6, <1>7, <1>8, <1>9, <1>10 DEF Next

-----------------------------------------------------------------------------
(* Sixth layer: for whom the signatures are computed.                      *)

\* What is signed remains so.
LEMMA OwnerKept ==
  ASSUME Owner, UNCHANGED <<inner_hash, txn, sent>>,
         Served' => Served, Signing' => Signing
  PROVE  Owner'
BY DEF Owner

\* The outputs have been read: the transaction is the script's, to its end.
LEMMA OwnerAtReady ==
  ASSUME Basics, Feed, Progress, OutputsRead, initialized, awaiting,
         UNCHANGED hostVars
  PROVE  Owner'
<1>0. /\ DecoderTypeOK /\ txn_state = TXN_OUT /\ curr_obj = out_num
      /\ UNCHANGED <<inner_hash, txn, sent, host>>
  BY DEF Basics, TypeOK, SignTypeOK, OutputsRead, txnVars, hostVars
<1> DEFINE t == dataBuffer.txn
<1>1. /\ t \in Txns /\ dataBuffer.pos + dataLength <= TxnLen(t)
      /\ Active /\ sent > 0 => t = txn /\ dataBuffer.pos + dataLength = sent
  BY DEF Feed, Served
<1>2. /\ dataBuffer.pos = Cursor(t) + offset /\ out_num = t.out_num
      /\ inner_hash = At(t, TxnLen(t))
  BY <1>0 DEF Progress, Decoding, Reads
<1>3. Cursor(t) = OutputAt(t, curr_obj)
  BY <1>0, <1>1, Cursors DEF Cursor
<1>4. TxnLen(t) = Cursor(t) /\ Cursor(t) \in Nat
  BY <1>0, <1>1, <1>2, <1>3, Cursors DEF TxnLen
<1>5. dataBuffer.pos + dataLength = TxnLen(t)
  BY <1>0, <1>1, <1>2, <1>4, DecoderRanges
<1>6. inner_hash.txn = t
  BY <1>2 DEF At
<1> QED
  BY <1>0, <1>1, <1>5, <1>6 DEF Owner, Served, Active

LEMMA NextOwner ==
  ASSUME ~Eager, Basics, Exchanges, Feed, Progress, Owner, [Next]_vars
  PROVE  Owner'
<1>0. /\ Control /\ txn_state \in 0..5 /\ result \in 0..5 /\ sent \in Nat
      /\ caller \in {"none", "handler", "button"}
  BY DEF Basics, TypeOK, SignTypeOK, DecoderTypeOK, HostTypeOK
<1>a. ASSUME UNCHANGED decoderVars, UNCHANGED <<host, txn, sent>> PROVE Owner'
  BY <1>a, OwnerKept DEF decoderVars, txnVars, Signing, Served, Active
<1>1. CASE DeviceComputes
  <2>0. UNCHANGED hostVars
    BY <1>1 DEF DeviceComputes
  <2>a. UNCHANGED <<txn, sent>> /\ (Served' => Served)
    BY <2>0 DEF hostVars, Served, Active
  <2>1. CASE txn_next_elem
    <3>1. CASE OutputsRead
      BY <2>0, <2>1, <3>1, DecoderSteps, OwnerAtReady DEF Exchanges, Running
    <3>2. CASE ~OutputsRead
      <4>1. (inner_hash' = inner_hash /\ (Signing' => Signing)) \/ ~Signing'
        <5>1. CASE SavePartial \/ ResponseFull
          BY <5>1 DEF SavePartial, ResponseFull, txnVars, Signing
        <5>2. CASE ReadInCount \/ ReadInput \/ ReadOutCount
          BY <5>2 DEF ReadInCount, ReadInput, ReadOutCount, Signing
        <5>3. CASE ReadOutput
          BY <5>3 DEF ReadOutput, Signing
        <5>4. CASE ComputeSigs \/ ReturnSig \/ SigsReturned
          BY <5>4 DEF ComputeSigs, ReturnSig, SigsReturned, txnVars, Signing
        <5> QED
          BY <2>1, <3>2, <5>1, <5>2, <5>3, <5>4 DEF txn_next_elem
      <4>2. CASE ~Signing'
        BY <4>2 DEF Owner
      <4> QED
        BY <2>a, <4>1, <4>2, OwnerKept
    <3> QED
      BY <3>1, <3>2
  <2>2. CASE HandlerReturns
    <3>1. inner_hash' = inner_hash /\ txn_state' = txn_state
      BY <2>2 DEF HandlerReturns, HandlerShowsOutput, HandlerFinishes, HandlerContinues,
                  ReturnToMain, txnVars
    <3>2. initialized' => initialized
      BY <2>2 DEF HandlerReturns, HandlerShowsOutput, HandlerFinishes, HandlerContinues
    <3> QED
      BY <2>a, <3>1, <3>2, OwnerKept DEF Signing
  <2>3. CASE ButtonReturns
    <3>1. inner_hash' = inner_hash /\ initialized' = initialized
      BY <2>3 DEF ButtonReturns, ButtonContinues, ButtonShowsOutput,
         ButtonShowsAndContinues, ButtonReleases, ButtonFinishes, ReturnFromButton, txnVars
    <3>2. txn_state' = txn_state
      <4>1. CASE ButtonReleases
        BY <1>0, <4>1 DEF ButtonReleases, Control
      <4>2. CASE ~ButtonReleases
        BY <2>3, <4>2 DEF ButtonReturns, ButtonContinues, ButtonShowsOutput,
           ButtonShowsAndContinues, ButtonFinishes
      <4> QED
        BY <4>1, <4>2
    <3> QED
      BY <2>a, <3>1, <3>2, OwnerKept DEF Signing
  <2> QED
    BY <1>1, <2>1, <2>2, <2>3 DEF DeviceComputes, Compute
<1>2. CASE HostSend
  <2> DEFINE len == Least(Chunk, TxnLen(txn) - sent)
             p1  == IF sent = 0 THEN 0 ELSE 1
  <2>1. /\ host \in {"streaming", "collecting"} /\ sent' = sent + len /\ txn' = txn
        /\ handleSignTxn(p1, At(txn, sent), len)
    BY <1>2 DEF HostSend
  <2>2. CASE sent = 0
    <3>1. ~initialized'
      BY <2>1, <2>2 DEF handleSignTxn, Offer, Decode, Redisplay, Refuse
    <3> QED
      BY <3>1 DEF Owner, Signing
  <2>3. CASE sent # 0
    <3>1. Served /\ txn \in Txns
      BY <1>0, <2>1, <2>3 DEF Served, Active, Basics, TypeOK, HostTypeOK
    <3>2. inner_hash' = inner_hash /\ txn_state' = txn_state /\ (initialized' => initialized)
      BY <2>1, <2>3 DEF handleSignTxn, Offer, Decode, Redisplay, Refuse, txnVars
    <3>3. Signing' => Signing /\ sent = TxnLen(txn)
      BY <3>1, <3>2 DEF Signing, Owner
    <3>4. sent = TxnLen(txn) => sent' = sent
      <4>1. TxnLen(txn) \in Nat /\ Chunk \in 37..255
        BY <3>1, TxnLenType, SessionAssumption
      <4>2. sent = TxnLen(txn) => len = 0
        BY <1>0, <4>1 DEF Least
      <4> QED
        BY <1>0, <2>1, <4>2
    <3>5. CASE Signing'
      BY <2>1, <3>1, <3>2, <3>3, <3>4, <3>5, OwnerKept
    <3>6. CASE ~Signing'
      BY <3>6 DEF Owner
    <3> QED
      BY <3>5, <3>6
  <2> QED
    BY <2>2, <2>3
<1>3. CASE HostStart
  BY <1>3 DEF HostStart, Owner, Served
<1>4. CASE HostReceive
  <2>1. UNCHANGED <<initialized, txn_state, inner_hash, txn, sent>> /\ (Active' => Active)
    BY <1>4 DEF HostReceive, decoderVars, txnVars, Waiting, Active
  <2> QED
    BY <2>1, OwnerKept DEF Served, Signing
<1>5. CASE UserPressesRight
  <2>1. UNCHANGED <<inner_hash, host, txn, sent>>
    BY <1>5 DEF UserPressesRight, PressRight, hostVars
  <2>2. Signing' => Signing
    BY <1>5 DEF UserPressesRight, PressRight, Signing
  <2> QED
    BY <2>1, <2>2, OwnerKept DEF Served, Active
<1>6. CASE UserPressesLeft
  BY <1>6, <1>a DEF UserPressesLeft, PressLeft, hostVars
<1>7. CASE UserDismisses
  BY <1>7, <1>a DEF UserDismisses, DismissMessage, hostVars
<1>8. CASE HostDies
  BY <1>8 DEF HostDies, Owner, Served, Active
<1>9. CASE DeviceRestarts
  BY <1>9 DEF DeviceRestarts, Owner, Signing
<1>10. CASE UNCHANGED vars
  BY <1>10, <1>a DEF vars, signVars, hostVars
<1> QED
  BY <1>1, <1>2, <1>3, <1>4, <1>5, <1>6, <1>7, <1>8, <1>9, <1>10 DEF Next

-----------------------------------------------------------------------------
(* Sixth layer: what the script has been given.                            *)

LEMMA KeptAndPending ==
  ASSUME Basics
  PROVE  /\ Kept \in Seq(Item) /\ Pending \in Seq(Item)
         /\ KeptBytes \in Nat /\ PendingBytes \in Nat
<1>1. /\ ret \in Seq(Item) /\ got \in Nat /\ response \in Seq(Item) /\ tx \in Nat
      /\ reply.data \in Seq(Item) /\ reply.len \in Nat
  BY DEF Basics, TypeOK, SignTypeOK, DecoderTypeOK, HostTypeOK, Replies
<1>2. <<>> \in Seq(Item)
  OBVIOUS
<1> QED
  BY <1>1, <1>2 DEF Kept, Pending, KeptBytes, PendingBytes

\* While the device works on a command, the script has no answer to it.
LEMMA NotAnswered ==
  ASSUME Exchanges, awaiting
  PROVE  reply = NoReply /\ ~Answered
BY ReplyStatus DEF Exchanges, Answered, INS_RET_SUCCESS

\* Steps that give nothing, and take nothing away.
LEMMA NothingGiven ==
  ASSUME Has(Items), UNCHANGED <<Kept, KeptBytes, Pending, PendingBytes, txn, Items>>
  PROVE  Has(Items)'
BY DEF Has

LEMMA DecoderDelivers ==
  ASSUME Basics, Exchanges, Progress, Serving, Owner, Delivered, txn_next_elem,
         UNCHANGED hostVars, UNCHANGED ioVars
  PROVE  Delivered'
<1>0. /\ initialized /\ Running /\ caller' = caller /\ awaiting /\ result = NotThrown
      /\ DecoderTypeOK /\ Counters /\ txn_state \in 0..5 /\ curr_obj \in 0..255
      /\ caller \in {"button", "handler"} /\ HostTypeOK
  BY DecoderSteps, DecoderRanges DEF Basics, TypeOK, SignTypeOK, DecoderTypeOK, Exchanges,
     Running
<1>1. ~Answered /\ ~Answered'
  BY <1>0, NotAnswered DEF Answered, Waiting, ioVars, hostVars
<1>2. /\ UNCHANGED <<Kept, KeptBytes, txn, sent>> /\ (Served' <=> Served)
  BY DEF hostVars, Kept, KeptBytes, Collecting, Served, Active
<1> SUFFICES ASSUME Served
             PROVE  /\ initialized' => Has(Items)'
                    /\ ~initialized' => Has(txn.in_num + 1)' /\ sent = TxnLen(txn)
  BY <1>1, <1>2 DEF Delivered
<1>3. Has(Items)
  BY <1>0 DEF Delivered
<1>4. txn \in Txns
  BY <1>0 DEF HostTypeOK, Served
<1>a. UNCHANGED <<response, tx>> => UNCHANGED <<Pending, PendingBytes>>
  BY <1>0, <1>1 DEF Pending, PendingBytes
<1>5. CASE SavePartial \/ ReadInCount \/ ReadInput \/ ReadOutCount \/ ReadOutput
  <2>1. UNCHANGED <<response, tx, initialized>>
    BY <1>5 DEF SavePartial, ReadInCount, ReadInput, ReadOutCount, ReadOutput, outVars
  <2>2. txn_state < TXN_COMPUTE_SIGS
    <3>1. CASE SavePartial
      BY <1>0, <3>1 DEF SavePartial, Starved
    <3>2. CASE ReadInCount \/ ReadInput \/ ReadOutCount \/ ReadOutput
      BY <3>2 DEF ReadInCount, ReadInput, ReadOutCount, ReadOutput
    <3> QED
      BY <1>5, <3>1, <3>2
  <2>3. txn_state' < TXN_COMPUTE_SIGS
    <3>1. CASE SavePartial
      BY <2>2, <3>1 DEF SavePartial
    <3>2. CASE ReadInCount \/ ReadOutCount
      BY <3>2 DEF ReadInCount, ReadOutCount
    <3>3. CASE ReadInput
      BY <3>3 DEF ReadInput
    <3>4. CASE ReadOutput
      BY <2>2, <3>4 DEF ReadOutput
    <3> QED
      BY <1>5, <3>1, <3>2, <3>3, <3>4
  <2>4. Items = 0
    BY <1>0, <2>2 DEF Items, Signing
  <2>5. Items' = 0
    BY <2>3 DEF Items, Signing
  <2> QED
    BY <1>0, <1>2, <1>3, <1>a, <2>1, <2>4, <2>5, NothingGiven
<1>6. CASE OutputsRead
  <2>1. /\ UNCHANGED <<response, tx, initialized>> /\ result' = TXN_READY
        /\ txn_state = TXN_OUT
    BY <1>6 DEF OutputsRead, outVars, Throw
  <2>2. Items = 0 /\ Items' = 0
    BY <2>1 DEF Items, Signing
  <2> QED
    BY <1>0, <1>2, <1>3, <1>a, <2>1, <2>2, NothingGiven
<1>7. CASE ComputeSigs
  <2>1. /\ UNCHANGED <<response, tx, initialized, result>> /\ curr_obj' = 0
        /\ txn_state = TXN_COMPUTE_SIGS /\ txn_state' = TXN_RET_SIGS
    BY <1>7 DEF ComputeSigs, outVars
  <2>2. Items = 1 /\ Items' = 1
    BY <1>0, <2>1 DEF Items, Signing
  <2> QED
    BY <1>0, <1>2, <1>3, <1>a, <2>1, <2>2, NothingGiven
<1>b. CASE txn_state = TXN_RET_SIGS
  <2>1. Signing /\ Items = 1 + curr_obj
    BY <1>0, <1>b DEF Items, Signing
  <2>2. inner_hash.txn = txn /\ sent = TxnLen(txn)
    BY <2>1 DEF Owner
  <2>3. /\ inner_hash = At(txn, TxnLen(txn)) /\ in_num = txn.in_num
        /\ in_num \in 1..20 /\ curr_obj \in 0..in_num
        /\ \A i \in 0..in_num - 1 :
             sig_input[i] = Signature(inner_hash, At(txn, InputAt(i)))
    BY <1>b, <2>1, <2>2, SigningNow
  <2>4. CASE ReturnSig
    <3>1. /\ response' = Append(response, sig_input[curr_obj]) /\ tx' = tx + SIG_LEN
          /\ curr_obj # in_num /\ curr_obj' = (curr_obj + 1) % 256
          /\ UNCHANGED <<initialized, txn_state, result>>
      BY <2>4 DEF ReturnSig
    <3>2. curr_obj \in 0..19 /\ curr_obj \in 0..in_num - 1 /\ curr_obj' = curr_obj + 1
      <4>1. curr_obj \in 0..19 /\ curr_obj \in 0..in_num - 1
        <5>1. in_num \in 1..20 /\ curr_obj \in 0..in_num
          BY <2>3
        <5>2. curr_obj # in_num
          BY <3>1
        <5> QED
          BY <5>1, <5>2
      <4>2. (curr_obj + 1) % 256 = curr_obj + 1
        BY <4>1
      <4> QED
        BY <3>1, <4>1, <4>2
    <3>3. caller = "handler"
      BY <1>0, <1>b DEF Exchanges
    <3>4. /\ Pending = response /\ PendingBytes = tx
          /\ Pending' = response' /\ PendingBytes' = tx'
      BY <1>0, <3>3 DEF Pending, PendingBytes
    <3>5. Items' = 2 + curr_obj
      BY <1>0, <1>b, <3>1, <3>2 DEF Items, Signing
    <3>6. Kept \o response = Prefix(txn, curr_obj + 1)
          /\ KeptBytes + tx = Bytes(curr_obj + 1)
      BY <1>3, <2>1, <3>2, <3>4 DEF Has
    <3>7. sig_input[curr_obj] = Signature(At(txn, TxnLen(txn)), At(txn, InputAt(curr_obj)))
      BY <2>3, <3>2
    <3>8. sig_input[curr_obj] \in Item
      BY <1>0, <3>2, DecoderRanges
    <3>9. Kept \o response' = Prefix(txn, curr_obj + 2)
      <4>1. Kept \in Seq(Item) /\ response \in Seq(Item)
        BY KeptAndPending, <3>4
      <4>2. Kept \o response' = Append(Kept \o response, sig_input[curr_obj])
        BY <3>1, <3>8, <4>1, AppendConcat
      <4>3. Prefix(txn, curr_obj + 2) =
              Append(Prefix(txn, curr_obj + 1),
                     Signature(At(txn, TxnLen(txn)), At(txn, InputAt(curr_obj))))
        <5>1. curr_obj \in 0..20
          BY <3>2
        <5> QED
          BY <1>4, <5>1, Prefixes
      <4> QED
        BY <3>6, <3>7, <4>2, <4>3
    <3>10. KeptBytes + tx' = Bytes(curr_obj + 2)
      <4>1. KeptBytes \in Nat /\ tx \in Nat
        BY KeptAndPending, <3>4
      <4>2. KeptBytes + tx' = KeptBytes + tx + SIG_LEN
        BY <3>1, <4>1
      <4>3. Bytes(curr_obj + 2) = Bytes(curr_obj + 1) + SIG_LEN
        BY <3>2 DEF Bytes
      <4> QED
        BY <3>6, <4>2, <4>3
    <3>11. 2 + curr_obj = curr_obj + 2
      BY <3>2
    <3> QED
      BY <1>0, <1>2, <3>1, <3>4, <3>5, <3>9, <3>10, <3>11 DEF Has
  <2>5. CASE ResponseFull
    <3>1. /\ UNCHANGED <<response, tx, initialized, txn_state, curr_obj>>
          /\ result' = TXN_PARTIAL
      BY <2>5 DEF ResponseFull, outVars, Throw
    <3>2. Items' = Items
      BY <1>0, <3>1 DEF Items, Signing
    <3> QED
      BY <1>0, <1>2, <1>3, <1>a, <3>1, <3>2, NothingGiven
  <2>6. CASE SigsReturned
    <3>1. /\ UNCHANGED <<response, tx>> /\ curr_obj = in_num /\ ~initialized'
      BY <2>6 DEF SigsReturned, outVars
    <3>2. Items = txn.in_num + 1
      BY <2>1, <2>3, <3>1
    <3> QED
      BY <1>2, <1>3, <1>a, <2>2, <3>1, <3>2 DEF Has
  <2> QED
    BY <1>b, <2>4, <2>5, <2>6, <1>5, <1>6, <1>7 DEF txn_next_elem
<1>8. CASE ReturnSig \/ ResponseFull \/ SigsReturned
  BY <1>8, <1>b DEF ReturnSig, ResponseFull, SigsReturned
<1> QED
  BY <1>5, <1>6, <1>7, <1>8 DEF txn_next_elem

\* An answer carries the response to a script that waits for it.
LEMMA AnswerCarries ==
  ASSUME awaiting, io_exchange_with_code(INS_RET_SUCCESS, response, tx)
  PROVE  /\ ~awaiting' /\ reply'.sw = INS_RET_SUCCESS
         /\ reply'.data = response /\ reply'.len = tx
BY DEF io_exchange_with_code, Reply

LEMMA HandlerDelivers ==
  ASSUME Basics, Exchanges, Serving, Delivered, HandlerReturns, UNCHANGED hostVars
  PROVE  Delivered'
<1>0. /\ caller = "handler" /\ caller' = "none" /\ result' = NotThrown /\ awaiting
      /\ UNCHANGED <<txn_state, curr_obj>> /\ Control /\ HostTypeOK
      /\ response \in Seq(Item) /\ tx \in Nat /\ sent \in Nat
  BY DEF HandlerReturns, HandlerShowsOutput, HandlerFinishes, HandlerContinues,
         ReturnToMain, Exchanges, Basics, TypeOK, SignTypeOK, DecoderTypeOK, HostTypeOK
<1>1. /\ UNCHANGED <<Kept, KeptBytes, txn, sent, host>> /\ (Served' <=> Served)
      /\ Kept \in Seq(Item) /\ KeptBytes \in Nat
  BY KeptAndPending DEF hostVars, Kept, KeptBytes, Collecting, Served, Active
<1> SUFFICES ASSUME Served PROVE Delivered'
  BY <1>1 DEF Delivered
<1>2. txn \in Txns /\ Waiting /\ Waiting'
  BY <1>0, <1>1 DEF HostTypeOK, Served, Exchanges, Active, Waiting
<1>3. Pending = response /\ PendingBytes = tx
  BY <1>0 DEF Pending, PendingBytes
<1>4. ASSUME io_async_exchange_ok
      PROVE  /\ Answered' /\ UNCHANGED <<Pending, PendingBytes>>
  <2>1. /\ reply'.sw = INS_RET_SUCCESS /\ reply'.data = response /\ reply'.len = tx
    BY <1>0, <1>4, AnswerCarries DEF io_async_exchange_ok
  <2> QED
    BY <1>0, <1>2, <1>3, <2>1 DEF Answered, Pending, PendingBytes
<1>5. CASE HandlerShowsOutput
  <2>1. /\ result = TXN_APPROVE_OUT /\ initialized /\ initialized' /\ txn_state = TXN_OUT
        /\ UNCHANGED <<awaiting, reply>>
    BY <1>0, <1>5 DEF HandlerShowsOutput, Control, ioVars
  <2>2. Items = 0 /\ Items' = 0
    BY <1>0, <2>1 DEF Items, Signing
  <2>3. Kept \o response = <<>> /\ KeptBytes + tx = 0
    BY <1>2, <1>3, <2>1, <2>2, Prefixes DEF Delivered, Has, Bytes
  <2>4. Kept = <<>> /\ response = <<>> /\ KeptBytes = 0 /\ tx = 0
    <3>1. KeptBytes = 0 /\ tx = 0
      BY <1>0, <1>1, <2>3
    <3> QED
      BY <1>0, <1>1, <2>3, <3>1, BothEmpty
  <2>5. ~Answered'
    BY <1>0, <2>1, ReplyStatus DEF Exchanges, Answered, INS_RET_SUCCESS
  <2>6. Pending' = <<>> /\ PendingBytes' = 0
    BY <1>0, <2>5 DEF Pending, PendingBytes
  <2>7. Has(Items)
    BY <2>1 DEF Delivered
  <2> QED
    BY <1>1, <1>3, <2>1, <2>2, <2>4, <2>6, <2>7, NothingGiven DEF Delivered
<1>6. CASE HandlerFinishes
  <2>1. /\ ~initialized' /\ result = TXN_FINISHED /\ io_async_exchange_ok
    BY <1>6 DEF HandlerFinishes
  <2>2. Has(txn.in_num + 1) /\ sent = TxnLen(txn)
    BY <2>1 DEF Serving, Delivered
  <2> QED
    BY <1>1, <1>4, <2>1, <2>2 DEF Delivered, Has
<1>7. CASE HandlerContinues
  <2>1. /\ result # TXN_FINISHED /\ result # TXN_READY /\ io_async_exchange_ok
        /\ initialized' = initialized
    BY <1>0, <1>7 DEF HandlerContinues, Serving
  <2>2. initialized
    BY <1>0, <1>7, <2>1 DEF Control, HandlerContinues, ReturnToMain, Basics, TypeOK,
       SignTypeOK, DecoderTypeOK
  <2>3. Items' = Items
    BY <1>0, <2>1 DEF Items, Signing
  <2>4. Has(Items)
    BY <2>2 DEF Delivered
  <2> QED
    BY <1>1, <1>4, <2>1, <2>2, <2>3, <2>4, NothingGiven DEF Delivered
<1> QED
  BY <1>5, <1>6, <1>7 DEF HandlerReturns

LEMMA ButtonDelivers ==
  ASSUME Basics, Exchanges, Progress, Responses, Serving, Owner, Delivered,
         ButtonReturns, UNCHANGED hostVars
  PROVE  Delivered'
<1>0. /\ caller = "button" /\ caller' = "none" /\ result' = NotThrown /\ awaiting
      /\ UNCHANGED <<initialized, curr_obj, inner_hash>> /\ Control /\ HostTypeOK
      /\ response = <<>> /\ tx = 0 /\ result # NotThrown
  BY DEF ButtonReturns, ButtonContinues, ButtonShowsOutput, ButtonShowsAndContinues,
         ButtonReleases, ButtonFinishes, ReturnFromButton, txnVars, Exchanges, Responses,
         Basics, TypeOK, SignTypeOK, HostTypeOK
<1>1. result \in {TXN_PARTIAL, TXN_PARTIAL_OUT, TXN_APPROVE_OUT, TXN_READY} /\ initialized
  BY <1>0 DEF ButtonReturns, ButtonContinues, ButtonShowsOutput, ButtonShowsAndContinues,
         ButtonReleases, ButtonFinishes, Exchanges, Control
<1>2. /\ UNCHANGED <<Kept, KeptBytes, txn, sent, host>> /\ (Served' <=> Served)
      /\ Kept \in Seq(Item) /\ KeptBytes \in Nat
  BY KeptAndPending DEF hostVars, Kept, KeptBytes, Collecting, Served, Active
<1> SUFFICES ASSUME Served PROVE Has(Items)'
  BY <1>0, <1>1, <1>2 DEF Delivered
<1>3. txn \in Txns /\ Waiting /\ Waiting' /\ ~Answered /\ Has(Items)
  BY <1>0, <1>1, <1>2, NotAnswered
     DEF HostTypeOK, Served, Exchanges, Active, Waiting, Delivered
<1>4. Pending = <<>> /\ PendingBytes = 0
  BY <1>0, <1>3 DEF Pending, PendingBytes
<1>5. CASE ButtonReleases
  <2>1. /\ result = TXN_READY /\ txn_state' = TXN_COMPUTE_SIGS
        /\ response' = <<HashItem(inner_hash)>> /\ tx' = HASH_LEN
        /\ reply' = Reply(INS_RET_SUCCESS, response', tx')
    BY <1>0, <1>5 DEF ButtonReleases, io_exchange_with_code
  <2>2. txn_state = TXN_COMPUTE_SIGS /\ Signing
    BY <1>1, <2>1, <1>0 DEF Control, Signing
  <2>3. inner_hash = At(txn, TxnLen(txn))
    BY <2>2, SigningNow DEF Owner
  <2>4. Items = 0 /\ Items' = 1
    BY <1>0, <1>1, <2>1 DEF Items, Signing
  <2>5. Kept \o <<>> = <<>> /\ KeptBytes = 0
    <3>1. Kept \o <<>> = Prefix(txn, 0) /\ KeptBytes + 0 = Bytes(0)
      BY <1>3, <1>4, <2>4 DEF Has
    <3>2. Prefix(txn, 0) = <<>>
      BY <1>3, Prefixes
    <3>3. Bytes(0) = 0
      BY DEF Bytes
    <3> QED
      BY <1>2, <3>1, <3>2, <3>3
  <2>6. Kept = <<>>
    BY <1>2, <2>5, NothingConcats
  <2>7. Pending' = <<HashItem(inner_hash)>> /\ PendingBytes' = HASH_LEN
    BY <1>0, <1>3, <2>1 DEF Pending, PendingBytes, Answered, Reply
  <2>8. <<>> \o <<HashItem(inner_hash)>> = <<HashItem(inner_hash)>>
    <3>1. inner_hash \in Place /\ Garbled \in Place
      BY NoPlaces DEF Basics, TypeOK, SignTypeOK, DecoderTypeOK
    <3>2. <<HashItem(inner_hash)>> \in Seq(Item)
      BY <3>1 DEF HashItem, Item
    <3> QED
      BY <3>2, NothingConcats
  <2>9. Prefix(txn, 1) = <<HashItem(inner_hash)>> /\ Bytes(1) = HASH_LEN
    <3>1. Prefix(txn, 1) = <<HashItem(At(txn, TxnLen(txn)))>>
      BY <1>3, Prefixes
    <3>2. Bytes(1) = HASH_LEN
      BY DEF Bytes
    <3> QED
      BY <2>3, <3>1, <3>2
  <2> QED
    BY <1>2, <2>4, <2>5, <2>6, <2>7, <2>8, <2>9 DEF Has
<1>6. CASE ~ButtonReleases
  <2>1. /\ result # TXN_READY /\ UNCHANGED <<txn_state, response, tx>>
        /\ \/ UNCHANGED <<awaiting, reply>>
           \/ io_async_exchange_ok
    BY <1>1, <1>6 DEF ButtonReturns, ButtonContinues, ButtonShowsOutput,
       ButtonShowsAndContinues, ButtonFinishes, outVars, ioVars
  <2>2. Items' = Items
    BY <1>0, <2>1 DEF Items, Signing
  <2>3. Pending' = <<>> /\ PendingBytes' = 0
    <3>1. CASE UNCHANGED <<awaiting, reply>>
      BY <1>0, <1>2, <1>3, <3>1 DEF Pending, PendingBytes, Answered, Waiting
    <3>2. CASE io_async_exchange_ok
      <4>1. reply'.data = <<>> /\ reply'.len = 0
        BY <1>0, <3>2, AnswerCarries DEF io_async_exchange_ok
      <4> QED
        BY <1>0, <4>1 DEF Pending, PendingBytes
    <3> QED
      BY <2>1, <3>1, <3>2
  <2> QED
    BY <1>2, <1>3, <1>4, <2>2, <2>3, NothingGiven
<1> QED
  BY <1>5, <1>6

\* The script takes an answer: it goes on as the items it then has tell it.
LEMMA ReceiveDelivers ==
  ASSUME Basics, Exchanges, Progress, Serving, Owner, Delivered, HostReceive
  PROVE  Delivered' /\ HostGetsItsSignatures'
<1> DEFINE kept == IF host = "posted" THEN reply.data ELSE ret \o reply.data
           len  == IF host = "posted" THEN reply.len ELSE got + reply.len
<1>0. /\ host \in {"posted", "asked"} /\ reply # NoReply /\ reply' = NoReply
      /\ UNCHANGED <<initialized, txn_state, curr_obj, caller, result, response, tx>>
      /\ UNCHANGED <<awaiting, txn, sent>> /\ HostTypeOK /\ Control
  BY DEF HostReceive, Waiting, decoderVars, outVars, Basics, TypeOK
<1>1. ~awaiting /\ caller = "none" /\ result = NotThrown
  BY <1>0 DEF Exchanges, Control
<1>2. CASE reply.sw # INS_RET_SUCCESS
  <2>1. host' = "failed"
    BY <1>2 DEF HostReceive
  <2> QED
    BY <2>1 DEF Delivered, Served, Active, HostGetsItsSignatures
<1>3. CASE reply.sw = INS_RET_SUCCESS
  <2>1. /\ ret' = kept /\ got' = len
        /\ host' = IF host = "posted" /\ sent < TxnLen(txn) THEN "streaming"
                   ELSE IF len < Needed(txn) THEN "collecting" ELSE "done"
    BY <1>3 DEF HostReceive
  <2>2. /\ Served /\ Answered /\ txn \in Txns /\ sent > 0 /\ sent \in Nat
        /\ TxnLen(txn) \in Nat /\ txn.in_num \in 1..20 /\ sent <= TxnLen(txn)
    BY <1>0, <1>3, TxnLenType, SMTT(30) DEF Served, Answered, Waiting, Active, HostTypeOK, Serving
  <2>3. /\ Pending = reply.data /\ PendingBytes = reply.len
        /\ Kept \in Seq(Item) /\ reply.data \in Seq(Item)
        /\ KeptBytes \in Nat /\ reply.len \in Nat
    BY <1>1, <2>2, KeptAndPending DEF Pending, PendingBytes
  <2>4. kept = Kept \o Pending /\ len = KeptBytes + PendingBytes
    <3>1. CASE host = "posted"
      BY <2>3, <3>1, NothingConcats DEF Kept, KeptBytes, Collecting
    <3>2. CASE host = "asked"
      BY <2>3, <3>2 DEF Kept, KeptBytes, Collecting
    <3> QED
      BY <1>0, <3>1, <3>2
  <2>5. kept \in Seq(Item) /\ len \in Nat
    <3>1. Kept \o reply.data \in Seq(Item)
      BY <2>3
    <3>2. KeptBytes + reply.len \in Nat
      BY <2>3
    <3> QED
      BY <2>3, <2>4, <3>1, <3>2
  <2>6. Pending' = <<>> /\ PendingBytes' = 0 /\ ~Answered'
    BY <1>0, <1>1, ReplyStatus DEF Pending, PendingBytes, Answered, INS_RET_SUCCESS
  <2>7. Items' = Items
    BY <1>0 DEF Items, Signing
  <2> HIDE DEF kept, len
  <2>8. CASE initialized
    <3>1. kept = Prefix(txn, Items) /\ len = Bytes(Items)
      BY <2>2, <2>4, <2>8 DEF Delivered, Has
    <3>2. CASE host' = "streaming"
      <4>1. ~Signing
        BY <2>1, <2>2, <3>2 DEF Owner
      <4>2. Items = 0
        BY <4>1 DEF Items
      <4>3. Kept' = <<>> /\ KeptBytes' = 0
        BY <3>2 DEF Kept, KeptBytes, Collecting
      <4>4. Prefix(txn, 0) = <<>> /\ <<>> \o <<>> = <<>>
        <5>1. <<>> \in Seq(Item)
          OBVIOUS
        <5> QED
          BY <2>2, <5>1, Prefixes, NothingConcats
      <4>5. Bytes(0) = 0
        BY DEF Bytes
      <4>6. Has(Items)'
        BY <1>0, <2>6, <2>7, <4>2, <4>3, <4>4, <4>5 DEF Has
      <4> QED
        BY <1>0, <2>8, <3>2, <4>6 DEF Delivered, HostGetsItsSignatures
    <3>3. CASE host' = "collecting"
      <4>1. Kept' = kept /\ KeptBytes' = len
        BY <2>1, <3>3 DEF Kept, KeptBytes, Collecting
      <4>2. kept \o <<>> = kept /\ len + 0 = len
        BY <2>5, NothingConcats
      <4>3. Has(Items)'
        BY <1>0, <2>6, <2>7, <3>1, <4>1, <4>2 DEF Has
      <4> QED
        BY <1>0, <2>8, <3>3, <4>3 DEF Delivered, HostGetsItsSignatures
    <3>4. CASE host' = "done"
      <4>1. ~(len < Needed(txn))
        BY <2>1, <3>4
      <4>2. Signing /\ Items = 1 + curr_obj /\ curr_obj = txn.in_num
        <5>1. Needed(txn) = 32 + 65 * txn.in_num
          BY DEF Needed
        <5>2. Bytes(Items) >= 32 + 65 * txn.in_num
          <6>1. len = Bytes(Items)
            BY <3>1
          <6>2. len \in Nat /\ txn.in_num \in 1..20
            BY <2>2, <2>5
          <6>3. ~(len < 32 + 65 * txn.in_num)
            BY <4>1, <5>1
          <6> QED
            BY <6>1, <6>2, <6>3
        <5>3. Items # 0 /\ Items # 1
          BY <2>2, <5>2 DEF Bytes
        <5>4. Signing /\ Items = 1 + curr_obj
          BY <5>3 DEF Items
        <5>5. /\ curr_obj \in 0..txn.in_num
          BY <2>2, <5>4, SigningNow DEF Owner
        <5>6. Bytes(Items) = 32 + 65 * curr_obj
          BY <2>2, <5>3, <5>4, <5>5 DEF Bytes
        <5> QED
          BY <2>2, <5>2, <5>4, <5>5, <5>6
      <4>3. 1 + curr_obj = txn.in_num + 1
        BY <2>2, <4>2
      <4>4. kept = Prefix(txn, txn.in_num + 1)
        BY <3>1, <4>2, <4>3
      <4>5. HostGetsItsSignatures'
        BY <1>0, <2>1, <2>2, <4>4, Prefixes DEF HostGetsItsSignatures
      <4> QED
        BY <3>4, <4>5 DEF Delivered, Served, Active
    <3> QED
      BY <2>1, <3>2, <3>3, <3>4
  <2>9. CASE ~initialized
    <3>1. /\ kept = Prefix(txn, txn.in_num + 1) /\ len = Bytes(txn.in_num + 1)
          /\ sent = TxnLen(txn)
      BY <2>2, <2>4, <2>9 DEF Delivered, Has
    <3>2. Bytes(txn.in_num + 1) = Needed(txn)
      BY <2>2 DEF Bytes, Needed
    <3>3. host' = "done"
      BY <2>1, <2>2, <2>5, <3>1, <3>2
    <3>4. HostGetsItsSignatures'
      BY <1>0, <2>1, <2>2, <3>1, Prefixes DEF HostGetsItsSignatures
    <3> QED
      BY <3>3, <3>4 DEF Delivered, Served, Active
  <2> QED
    BY <2>8, <2>9
<1> QED
  BY <1>2, <1>3

\* The next packet, or the next request for what is left of the answer.
LEMMA SendDelivers ==
  ASSUME Basics, Exchanges, Serving, Delivered, HostSend
  PROVE  Delivered'
<1> DEFINE len == Least(Chunk, TxnLen(txn) - sent)
           p1  == IF sent = 0 THEN 0 ELSE 1
<1>1. /\ host \in {"streaming", "collecting"} /\ sent' = sent + len
      /\ host' = IF host = "streaming" THEN "posted" ELSE "asked"
      /\ handleSignTxn(p1, At(txn, sent), len) /\ UNCHANGED <<txn, ret, got>>
      /\ sent \in Nat /\ Control
  BY DEF HostSend, Basics, TypeOK, HostTypeOK
<1>2. /\ caller = "none" /\ UNCHANGED <<txn_state, curr_obj, result>>
      /\ result = NotThrown /\ response' = <<>> /\ tx' = 0
  BY <1>1 DEF handleSignTxn, Offer, Decode, Redisplay, Refuse, TakePacket, Idle, Control
<1>3. ~Answered'
  <2>1. reply'.sw # INS_RET_SUCCESS
    BY <1>1, ReplyStatus DEF handleSignTxn, Offer, Decode, Redisplay, Refuse,
                             INS_RET_SUCCESS, SW_ERROR
  <2> QED
    BY <2>1 DEF Answered
<1>4. CASE ~initialized'
  BY <1>2, <1>3, <1>4 DEF Delivered
<1>5. CASE initialized'
  <2>1. initialized /\ sent # 0
    <3>1. ~Offer(p1, At(txn, sent), len) /\ ~Refuse(p1, At(txn, sent), len)
      BY <1>5 DEF Offer, Refuse
    <3>2. initialized /\ p1 = 1
      BY <1>1, <3>1 DEF handleSignTxn, Decode, Redisplay
    <3> QED
      BY <3>2
  <2>2. Has(Items)
    BY <1>1, <2>1 DEF Served, Active, Delivered
  <2>3. Items' = Items
    BY <1>2, <1>5, <2>1 DEF Items, Signing
  <2>4. Kept' = Kept /\ KeptBytes' = KeptBytes
    BY <1>1 DEF Kept, KeptBytes, Collecting
  <2>5. Pending = <<>> /\ PendingBytes = 0
    BY <1>1, <1>2 DEF Pending, PendingBytes, Answered, Waiting
  <2>6. Pending' = <<>> /\ PendingBytes' = 0
    BY <1>2, <1>3 DEF Pending, PendingBytes
  <2>7. Has(Items)'
    BY <1>1, <2>2, <2>3, <2>4, <2>5, <2>6, NothingGiven
  <2> QED
    BY <1>5, <2>7 DEF Delivered
<1> QED
  BY <1>4, <1>5

\* A first press finds the script waiting for its first answer.
LEMMA PressDelivers ==
  ASSUME ~Eager, Basics, Exchanges, Serving, Delivered, UserPressesRight
  PROVE  Delivered'
<1>1. /\ awaiting /\ Idle /\ initialized' /\ caller' = "button"
      /\ UNCHANGED <<curr_obj, result, response, tx, awaiting, reply, hostVars>>
      /\ initialized => txn_state' = txn_state
      /\ ~initialized => txn_state' = TXN_START_IN
  BY DEF UserPressesRight, MayPress, PressRight, outVars, ioVars
<1>2. /\ UNCHANGED <<Kept, KeptBytes, txn>> /\ (Served' <=> Served) /\ ~Answered
  BY <1>1, NotAnswered DEF hostVars, Kept, KeptBytes, Collecting, Served, Active
<1>3. ~Answered' /\ (Served => Waiting)
  BY <1>1, <1>2 DEF Answered, Waiting, hostVars, Exchanges, Served, Active
<1>4. Pending = <<>> /\ PendingBytes = 0 /\ Pending' = <<>> /\ PendingBytes' = 0
  BY <1>1, <1>2, <1>3 DEF Pending, PendingBytes, Idle
<1> SUFFICES ASSUME Served PROVE Has(Items)'
  BY <1>1, <1>2 DEF Delivered
<1>5. CASE initialized
  <2>1. Items' = Items
    BY <1>1, <1>5 DEF Items, Signing
  <2>2. Has(Items)
    BY <1>5 DEF Delivered
  <2> QED
    BY <1>2, <1>4, <2>1, <2>2, NothingGiven
<1>6. CASE ~initialized
  <2>1. Items' = 0
    BY <1>1, <1>6 DEF Items, Signing
  <2>2. Kept' = <<>> /\ KeptBytes' = 0
    BY <1>1, <1>2, <1>3, <1>6 DEF Serving, Kept, KeptBytes, Collecting
  <2>3. Prefix(txn, 0) = <<>> /\ <<>> \o <<>> = <<>>
    <3>1. txn \in Txns /\ <<>> \in Seq(Item)
      BY DEF Served, Basics, TypeOK, HostTypeOK
    <3> QED
      BY <3>1, Prefixes, NothingConcats
  <2>4. Bytes(0) = 0
    BY DEF Bytes
  <2> QED
    BY <1>2, <1>4, <2>1, <2>2, <2>3, <2>4 DEF Has
<1> QED
  BY <1>5, <1>6

LEMMA NextDelivered ==
  ASSUME ~Eager, Basics, Exchanges, Feed, Progress, Responses, Serving, Owner,
         Delivered, HostGetsItsSignatures, [Next]_vars
  PROVE  Delivered' /\ HostGetsItsSignatures'
<1>0. Control /\ result \in 0..5
  BY DEF Basics, TypeOK, SignTypeOK, DecoderTypeOK
<1>a. ASSUME UNCHANGED <<host, txn, ret>> PROVE HostGetsItsSignatures'
  BY <1>a DEF HostGetsItsSignatures
<1>b. ASSUME UNCHANGED decoderVars, UNCHANGED hostVars, UNCHANGED ioVars
      PROVE  Delivered' /\ HostGetsItsSignatures'
  BY <1>a, <1>b
     DEF decoderVars, outVars, hostVars, ioVars, Delivered, Served, Active, Answered, Waiting,
         Has, Items, Signing, Kept, KeptBytes, Collecting, Pending, PendingBytes
<1>1. CASE DeviceComputes
  <2>1. UNCHANGED hostVars
    BY <1>1 DEF DeviceComputes
  <2>2. HostGetsItsSignatures'
    BY <1>a, <2>1 DEF hostVars
  <2> QED
    BY <1>1, <2>1, <2>2, DecoderDelivers, HandlerDelivers, ButtonDelivers
       DEF DeviceComputes, Compute, uiVars
<1>2. CASE HostSend
  <2>1. host' # "done"
    BY <1>2 DEF HostSend
  <2> QED
    BY <1>2, <2>1, SendDelivers DEF HostGetsItsSignatures
<1>3. CASE HostStart
  BY <1>3 DEF HostStart, Delivered, Served, HostGetsItsSignatures
<1>4. CASE HostReceive
  BY <1>4, ReceiveDelivers
<1>5. CASE UserPressesRight
  BY <1>5, <1>a, PressDelivers DEF UserPressesRight, hostVars
<1>6. CASE UserPressesLeft
  <2>1. /\ awaiting /\ Idle /\ reply'.sw = SW_ERROR
        /\ UNCHANGED decoderVars /\ UNCHANGED hostVars
    BY <1>6, ReplyStatus
       DEF UserPressesLeft, MayPress, PressLeft, io_async_exchange_error,
           io_exchange_with_code
  <2>2. ~Answered /\ ~Answered'
    BY <2>1, NotAnswered DEF Answered, SW_ERROR, INS_RET_SUCCESS
  <2>3. /\ UNCHANGED <<Kept, KeptBytes, Pending, PendingBytes, txn, sent, Items>>
        /\ (Served' <=> Served) /\ UNCHANGED <<initialized, result>>
    BY <2>1, <2>2 DEF decoderVars, hostVars, outVars, Kept, KeptBytes, Collecting, Pending,
                      PendingBytes, Items, Signing, Served, Active
  <2>4. result # TXN_FINISHED
    BY <1>0, <2>1 DEF Control, Idle
  <2>5. HostGetsItsSignatures'
    BY <1>a, <2>1 DEF hostVars
  <2> QED
    BY <2>2, <2>3, <2>4, <2>5, NothingGiven DEF Delivered
<1>7. CASE UserDismisses
  BY <1>7, <1>b DEF UserDismisses, DismissMessage
<1>8. CASE HostDies
  BY <1>8 DEF HostDies, Delivered, Served, Active, HostGetsItsSignatures
<1>9. CASE DeviceRestarts
  BY <1>9 DEF DeviceRestarts, Delivered, Served, Active, HostGetsItsSignatures
<1>10. CASE UNCHANGED vars
  BY <1>10, <1>b DEF vars, signVars
<1> QED
  BY <1>1, <1>2, <1>3, <1>4, <1>5, <1>6, <1>7, <1>8, <1>9, <1>10 DEF Next

LEMMA InitReturns == Init => Returns
<1> SUFFICES ASSUME Init PROVE Returns
  OBVIOUS
<1>1. /\ host = "done" /\ txn = NoTxn /\ caller = "none" /\ result = NotThrown
      /\ ~awaiting /\ ~initialized
  BY DEF Init, SignInit, DecoderInit
<1> QED
  BY <1>1 DEF Returns, Serving, Owner, Delivered, Served, Active, HostGetsItsSignatures,
              Idle, Waiting

LEMMA NextReturns ==
  ASSUME ~Eager, Basics, Exchanges, Feed, Progress, Responses, Cancelled, Returns,
         [Next]_vars
  PROVE  Returns'
BY NextServing, NextOwner, NextDelivered DEF Returns

\* A script that ends normally has the inner hash of its transaction and one
\* signature of each input, in order: for every transaction, every size of
\* packet and any number of sessions, of a user who presses only when asked.
THEOREM SessionReturnsSignatures == ~Eager => (Spec => []HostGetsItsSignatures)
<1> SUFFICES ASSUME ~Eager PROVE Spec => []HostGetsItsSignatures
  OBVIOUS
<1> DEFINE Before == /\ Basics /\ Exchanges /\ Feed /\ Progress
                     /\ Responses /\ Cancelled
<1>2. Before /\ Returns /\ [Next]_vars => Returns'
  BY NextReturns
<1>3. Spec => []Before
  BY SessionProgress, SessionResponses, PTL
<1>4. Returns => HostGetsItsSignatures
  BY DEF Returns
<1> QED
  BY <1>2, <1>3, <1>4, InitReturns, PTL DEF Spec
-----------------------------------------------------------------------------
(* Seventh layer: who reads the outputs.                                   *)

\* The decoder in the states in which it signs stays in them.
LEMMA SignsOn ==
  ASSUME txn_next_elem, txn_state \in {TXN_COMPUTE_SIGS, TXN_RET_SIGS}
  PROVE  /\ txn_state' \in {TXN_COMPUTE_SIGS, TXN_RET_SIGS}
         /\ initialized' => initialized
         /\ UNCHANGED <<out_num, cur_output, hash, inner_hash>>
<1>1. CASE ComputeSigs
  BY <1>1 DEF ComputeSigs
<1>2. CASE ReturnSig \/ ResponseFull \/ SigsReturned
  BY <1>2 DEF ReturnSig, ResponseFull, SigsReturned, txnVars
<1>3. CASE OutputsRead
  BY <1>3 DEF OutputsRead
<1>4. CASE SavePartial \/ ReadInCount \/ ReadInput \/ ReadOutCount \/ ReadOutput
  BY <1>4 DEF SavePartial, ReadInCount, ReadInput, ReadOutCount, ReadOutput, Starved
<1> QED
  BY <1>1, <1>2, <1>3, <1>4 DEF txn_next_elem

\* The count of the outputs read stays within its 8 bits.
LEMMA OutputCounted ==
  ASSUME Basics, ReadOutput
  PROVE  curr_obj \in Nat /\ curr_obj' = curr_obj + 1
<1>1. curr_obj \in 0..255 /\ out_num \in 0..255 /\ curr_obj <= out_num
  BY DEF ReadOutput, Basics, TypeOK, SignTypeOK, DecoderTypeOK, Counters
<1>2. curr_obj # out_num /\ curr_obj' = (curr_obj + 1) % 256
  BY DEF ReadOutput
<1>3. curr_obj < 255
  BY <1>1, <1>2
<1> QED
  BY <1>1, <1>2, <1>3, Wrap

\* A first packet that holds the first output is not used up before it.
LEMMA NotStarved ==
  ASSUME DecoderTypeOK, Counters, NEW t \in Txns, Reads(t, dataBuffer), offset = 0,
         txn_state < TXN_OUT \/ (txn_state = TXN_OUT /\ curr_obj = 0),
         dataBuffer.pos + dataLength >= OutputAt(t, 1)
  PROVE  ~Starved
<1> DEFINE n == t.in_num
<1>0. n \in 1..20 /\ dataLength \in Nat /\ curr_obj \in 0..255 /\ Cursor(t) \in Nat
  BY DecoderRanges, Layout, Cursors
<1>1. OutputAt(t, 1) = (8 + 36 * n) + 37
  BY Layout
<1>2. dataBuffer.pos = Cursor(t)
  BY <1>0 DEF Reads
<1>3. Cursor(t) + dataLength >= (8 + 36 * n) + 37
  BY <1>1, <1>2
<1> HIDE DEF n
<1>4. CASE txn_state = TXN_START_IN
  <2>1. Cursor(t) = 0
    BY <1>4, Cursors
  <2>2. dataLength >= 4
    BY <1>0, <1>3, <2>1
  <2> QED
    BY <1>0, <1>4, <2>2 DEF Starved
<1>5. CASE txn_state = TXN_IN
  <2>1. Cursor(t) = 4 + 36 * curr_obj /\ curr_obj < n
    BY <1>5, Cursors DEF Counters, Reads, n
  <2>2. dataLength >= 36
    BY <1>0, <1>3, <2>1
  <2> QED
    BY <1>0, <1>5, <2>2 DEF Starved
<1>6. CASE txn_state = TXN_START_OUT
  <2>1. Cursor(t) = 4 + 36 * n
    BY <1>6, Cursors DEF n
  <2>2. dataLength >= 4
    BY <1>0, <1>3, <2>1
  <2> QED
    BY <1>0, <1>6, <2>2 DEF Starved
<1>7. CASE txn_state = TXN_OUT
  <2>1. Cursor(t) = (8 + 36 * n) + 37 * curr_obj /\ curr_obj = 0
    BY <1>7, Cursors DEF n
  <2>2. dataLength >= 37
    BY <1>0, <1>3, <2>1
  <2> QED
    BY <1>0, <1>7, <2>2 DEF Starved
<1> QED
  BY <1>4, <1>5, <1>6, <1>7 DEF Starved

\* An iteration of the decoder reads on towards the first output, or signs.
LEMMA DecoderButtonReads ==
  ASSUME Basics, Exchanges, Feed, Progress, ButtonReads, txn_next_elem
  PROVE  ButtonReads'
<1>0. /\ DecoderTypeOK /\ Counters /\ Running /\ initialized /\ awaiting
      /\ caller' = caller /\ caller \in {"handler", "button"} /\ txn_state \in 0..5
  BY DecoderSteps DEF Basics, TypeOK, SignTypeOK, DecoderTypeOK, Exchanges, Running
<1>1. CASE caller = "handler"
  <2>1. txn_state \in {TXN_COMPUTE_SIGS, TXN_RET_SIGS}
    BY <1>0, <1>1 DEF ButtonReads, Decoding, Idle
  <2>2. txn_state' \in {TXN_COMPUTE_SIGS, TXN_RET_SIGS}
    BY <2>1, SignsOn
  <2> QED
    BY <1>0, <1>1, <2>2 DEF ButtonReads, Decoding, Idle
<1>2. CASE caller = "button"
  <2> SUFFICES ASSUME Decoding', txn_state' < TXN_OUT \/ curr_obj' = 0
               PROVE  /\ Running' /\ offset' = 0
                      /\ dataBuffer'.pos + dataLength' >= OutputAt(dataBuffer'.txn, 1)
    BY <1>0, <1>2 DEF ButtonReads, Idle
  <2>1. txn_state < TXN_COMPUTE_SIGS
    <3>1. txn_state' \notin {TXN_COMPUTE_SIGS, TXN_RET_SIGS}
      BY DEF Decoding
    <3>2. txn_state \notin {TXN_COMPUTE_SIGS, TXN_RET_SIGS}
      BY <1>0, <3>1, SignsOn
    <3> QED
      BY <1>0, <3>2
  <2>2. PICK t \in Txns : t = dataBuffer.txn
    BY <1>0 DEF Feed
  <2>3. Reads(t, dataBuffer)
    BY <1>0, <2>1, <2>2 DEF Progress, Decoding
  <2>4. ASSUME txn_state < TXN_OUT \/ curr_obj = 0
        PROVE  offset = 0 /\ dataBuffer.pos + dataLength >= OutputAt(t, 1)
    BY <1>0, <1>2, <2>1, <2>2, <2>4 DEF ButtonReads, Decoding
  <2>5. /\ dataBuffer'.txn = dataBuffer.txn
        /\ dataBuffer'.pos + dataLength' = dataBuffer.pos + dataLength
    BY <1>0, NoByteSkipped
  <2>6. CASE SavePartial
    <3>1. txn_state' = txn_state /\ curr_obj' = curr_obj /\ Starved
      BY <2>6 DEF SavePartial
    <3>2. offset = 0 /\ dataBuffer.pos + dataLength >= OutputAt(t, 1)
      BY <2>4, <3>1
    <3>3. txn_state < TXN_OUT \/ (txn_state = TXN_OUT /\ curr_obj = 0)
      BY <1>0, <2>1, <3>1
    <3> QED
      BY <1>0, <2>3, <3>1, <3>2, <3>3, NotStarved
  <2>7. CASE ReadInCount \/ ReadInput \/ ReadOutCount
    <3>1. txn_state < TXN_OUT
      BY <2>7 DEF ReadInCount, ReadInput, ReadOutCount
    <3>2. offset' = 0 /\ result' = result
      BY <2>7 DEF ReadInCount, ReadInput, ReadOutCount, read_data_to_buffer
    <3> QED
      BY <1>0, <2>2, <2>4, <2>5, <3>1, <3>2 DEF Running
  <2>8. CASE ReadOutput
    <3>1. txn_state' = TXN_OUT
      BY <2>8 DEF ReadOutput
    <3>2. curr_obj' = curr_obj + 1 /\ curr_obj \in Nat
      BY <2>8, OutputCounted
    <3> QED
      BY <3>1, <3>2
  <2>9. CASE OutputsRead
    BY <2>9 DEF OutputsRead, Decoding
  <2>10. CASE ComputeSigs \/ ReturnSig \/ ResponseFull \/ SigsReturned
    BY <2>1, <2>10 DEF ComputeSigs, ReturnSig, ResponseFull, SigsReturned
  <2> QED
    BY <2>6, <2>7, <2>8, <2>9, <2>10 DEF txn_next_elem
<1> QED
  BY <1>0, <1>1, <1>2

\* A packet that begins a transaction holds its first output.
LEMMA FirstPacket ==
  ASSUME FirstOutputFits, NEW t \in Txns
  PROVE  Least(Chunk, TxnLen(t) - 0) >= OutputAt(t, 1)
<1>1. OutputAt(t, 1) <= Chunk
  BY DEF FirstOutputFits
<1>2. /\ OutputAt(t, 1) = (8 + 36 * t.in_num) + 37 * 1
      /\ TxnLen(t) = (8 + 36 * t.in_num) + 37 * t.out_num
      /\ t.in_num \in 1..20 /\ t.out_num \in 1..255
  BY Layout
<1>3. OutputAt(t, 1) <= TxnLen(t) - 0
  BY <1>2, SMTT(30)
<1> QED
  BY <1>1, <1>3 DEF Least

\* A packet is offered, or meets a decoder that signs or waits for the user.
LEMMA SendButtonReads ==
  ASSUME FirstOutputFits, Basics, ButtonReads, HostSend
  PROVE  ButtonReads'
<1> DEFINE len == Least(Chunk, TxnLen(txn) - sent)
           p1  == IF sent = 0 THEN 0 ELSE 1
<1>0. /\ txn \in Txns /\ sent \in Nat /\ txn_state \in 0..5
      /\ handleSignTxn(p1, At(txn, sent), len)
  BY DEF HostSend, Active, Basics, TypeOK, SignTypeOK, DecoderTypeOK, HostTypeOK
<1>1. p1 = 0 => len >= OutputAt(txn, 1)
  BY <1>0, FirstPacket
<1>2. At(txn, sent).txn = txn
  BY DEF At
<1> HIDE DEF len, p1
<1>3. CASE Offer(p1, At(txn, sent), len)
  <2>1. /\ ~initialized' /\ p1 = 0 /\ caller = "none" /\ caller' = caller
        /\ dataBuffer' = At(txn, sent) /\ dataLength' = len
        /\ UNCHANGED <<txn_state, curr_obj>>
    BY <1>3 DEF Offer, TakePacket, Idle
  <2> QED
    BY <1>1, <1>2, <2>1 DEF ButtonReads, Decoding
<1>4. CASE Decode(p1, At(txn, sent), len)
  <2>1. /\ initialized /\ caller = "none" /\ caller' = "handler" /\ Unattended
        /\ UNCHANGED <<txn_state, initialized>>
    BY <1>4 DEF Decode, TakePacket, Idle
  <2>2. txn_state' > TXN_OUT
    BY <1>0, <2>1 DEF ButtonReads, Decoding, Unattended
  <2> QED
    BY <2>1, <2>2 DEF ButtonReads, Decoding, Idle
<1>5. CASE Redisplay(p1, At(txn, sent), len)
  <2>1. /\ initialized' /\ initialized /\ caller = "none"
        /\ UNCHANGED <<txn_state, curr_obj, caller>>
    BY <1>5 DEF Redisplay, TakePacket, Idle
  <2> QED
    BY <2>1 DEF ButtonReads, Decoding, Idle
<1>6. CASE Refuse(p1, At(txn, sent), len)
  <2>1. /\ ~initialized' /\ ~awaiting' /\ caller = "none"
        /\ UNCHANGED <<txn_state, curr_obj, caller>>
    BY <1>6 DEF Refuse, TakePacket, Idle
  <2> QED
    BY <2>1 DEF ButtonReads, Decoding, Idle
<1> QED
  BY <1>0, <1>3, <1>4, <1>5, <1>6 DEF handleSignTxn

LEMMA NextButtonReads ==
  ASSUME ~Eager, FirstOutputFits, Basics, Exchanges, Feed, Progress, ButtonReads,
         [Next]_vars
  PROVE  ButtonReads'
<1>0. /\ Control /\ txn_state \in 0..5 /\ result \in 0..5 /\ curr_obj \in 0..255
      /\ caller \in {"none", "handler", "button"}
  BY DEF Basics, TypeOK, SignTypeOK, DecoderTypeOK
<1>a. ASSUME UNCHANGED decoderVars, awaiting' => awaiting PROVE ButtonReads'
  <2>1. UNCHANGED <<initialized, txn_state, curr_obj, caller, result, offset, dataBuffer,
                    dataLength>>
    BY <1>a DEF decoderVars, dataVars
  <2>2. Decoding' = Decoding /\ Running' = Running /\ Idle' = Idle
    BY <2>1 DEF Decoding, Running, Idle
  <2> QED
    BY <1>a, <2>1, <2>2 DEF ButtonReads
<1>1. CASE DeviceComputes
  <2>1. CASE txn_next_elem
    BY <2>1, DecoderButtonReads
  <2>2. CASE HandlerReturns
    <3>1. /\ caller = "handler" /\ caller' = "none" /\ UNCHANGED <<txn_state, curr_obj>>
          /\ initialized' => initialized
      BY <2>2 DEF HandlerReturns, HandlerShowsOutput, HandlerFinishes, HandlerContinues,
                  ReturnToMain
    <3>2. awaiting' => initialized'
      BY <1>0, <2>2 DEF HandlerReturns, HandlerShowsOutput, HandlerFinishes,
         HandlerContinues, io_async_exchange_ok, io_exchange_with_code, Control
    <3>3. ~Decoding'
      BY <3>1 DEF ButtonReads, Decoding, Idle
    <3> QED
      BY <3>1, <3>2, <3>3 DEF ButtonReads
  <2>3. CASE ButtonReturns
    <3>1. /\ caller = "button" /\ caller' = "none" /\ result # NotThrown
          /\ UNCHANGED <<initialized, curr_obj>>
      BY <2>3 DEF ButtonReturns, ButtonContinues, ButtonShowsOutput,
         ButtonShowsAndContinues, ButtonReleases, ButtonFinishes, ReturnFromButton
    <3>2. txn_state' = txn_state \/ txn_state' = TXN_COMPUTE_SIGS
      BY <2>3 DEF ButtonReturns, ButtonContinues, ButtonShowsOutput,
         ButtonShowsAndContinues, ButtonReleases, ButtonFinishes
    <3>3. initialized
      <4>1. result \in {TXN_PARTIAL, TXN_PARTIAL_OUT, TXN_APPROVE_OUT, TXN_READY}
        BY <1>0, <3>1 DEF Exchanges
      <4> QED
        BY <1>0, <4>1 DEF Control
    <3>4. txn_state < TXN_COMPUTE_SIGS => txn_state = TXN_OUT /\ curr_obj > 0
      BY <1>0, <3>1, <3>3 DEF ButtonReads, Decoding, Running
    <3> QED
      BY <3>1, <3>2, <3>3, <3>4 DEF ButtonReads, Decoding, Idle
  <2> QED
    BY <1>1, <2>1, <2>2, <2>3 DEF DeviceComputes, Compute
<1>2. CASE HostSend
  BY <1>2, SendButtonReads
<1>3. CASE UserPressesRight
  <2>1. /\ awaiting /\ Idle /\ caller' = "button" /\ result' = NotThrown
        /\ UNCHANGED <<dataBuffer, dataLength, curr_obj>>
    BY <1>0, <1>3 DEF UserPressesRight, MayPress, PressRight, Idle, Control
  <2>2. CASE initialized
    <3>1. txn_state' = txn_state
      BY <1>3, <2>2 DEF UserPressesRight, PressRight
    <3>2. txn_state < TXN_COMPUTE_SIGS => txn_state = TXN_OUT /\ curr_obj > 0
      BY <2>1, <2>2 DEF ButtonReads, Decoding, Idle
    <3> QED
      BY <2>1, <3>1, <3>2 DEF ButtonReads, Decoding, Idle
  <2>3. CASE ~initialized
    <3>1. txn_state' = TXN_START_IN /\ offset' = 0
      BY <1>3, <2>3 DEF UserPressesRight, PressRight
    <3>2. dataBuffer.pos = 0 /\ dataLength >= OutputAt(dataBuffer.txn, 1)
      BY <2>1, <2>3 DEF Feed, ButtonReads
    <3>3. dataLength \in Nat
      BY DecoderRanges DEF Basics, TypeOK, SignTypeOK
    <3>4. dataBuffer'.pos + dataLength' >= OutputAt(dataBuffer'.txn, 1)
      BY <2>1, <3>2, <3>3
    <3> QED
      BY <2>1, <3>1, <3>4 DEF ButtonReads, Idle, Running
  <2> QED
    BY <2>2, <2>3
<1>4. CASE HostStart
  BY <1>4, <1>a DEF HostStart, signVars, ioVars
<1>5. CASE HostReceive
  BY <1>5, <1>a DEF HostReceive
<1>6. CASE UserPressesLeft
  BY <1>6, <1>a DEF UserPressesLeft, PressLeft, io_async_exchange_error,
                    io_exchange_with_code
<1>7. CASE UserDismisses
  BY <1>7, <1>a DEF UserDismisses, DismissMessage, ioVars
<1>8. CASE HostDies
  BY <1>8, <1>a DEF HostDies
<1>9. CASE DeviceRestarts
  BY <1>9 DEF DeviceRestarts, ButtonReads, Decoding
<1>10. CASE UNCHANGED vars
  BY <1>10, <1>a DEF vars, signVars, ioVars
<1> QED
  BY <1>1, <1>2, <1>3, <1>4, <1>5, <1>6, <1>7, <1>8, <1>9, <1>10 DEF Next

-----------------------------------------------------------------------------
(* Seventh layer: what is on the screen when a button is pressed.          *)

\* Nothing is read, drawn or confirmed.
LEMMA SeenKept ==
  ASSUME OutputsSeen, initialized' => initialized,
         txn_state' = txn_state \/ (txn_state' = TXN_COMPUTE_SIGS /\ Signing),
         UNCHANGED <<curr_obj, out_num, cur_output, hash, inner_hash, shown, confirmed,
                     seen>>,
         result' = result \/ result = NotThrown
           \/ result \notin {TXN_PARTIAL_OUT, TXN_APPROVE_OUT}
  PROVE  OutputsSeen'
<1>1. (Decoding' => Decoding) /\ (Signing' => Signing)
  BY DEF Decoding, Signing
<1>2. Decoding' => txn_state' = txn_state
  BY DEF Decoding
<1>3. Signing' => EveryOutputSeen'
  BY <1>1 DEF OutputsSeen, EveryOutputSeen, OutputPlace
<1> QED
  BY <1>1, <1>2, <1>3 DEF OutputsSeen, EveryOutputSeen, OutputPlace

\* The last output read is the one at the cursor before.
LEMMA DecoderOutputsSeen ==
  ASSUME Basics, Approvals, Exchanges, Feed, Progress, OutputsSeen, txn_next_elem,
         UNCHANGED <<shown, confirmed, seen>>
  PROVE  OutputsSeen'
<1>0. /\ DecoderTypeOK /\ Counters /\ Running /\ initialized /\ awaiting
      /\ txn_state \in 0..5 /\ result = NotThrown
  BY DecoderSteps DEF Basics, TypeOK, SignTypeOK, DecoderTypeOK, Exchanges, Running
<1>1. PICK t \in Txns : t = dataBuffer.txn
  BY <1>0 DEF Feed
<1>2. txn_state < TXN_COMPUTE_SIGS => Reads(t, dataBuffer)
  BY <1>0, <1>1 DEF Progress, Decoding
<1>3. txn_state = TXN_OUT => hash.txn = t
  <2> SUFFICES ASSUME txn_state = TXN_OUT PROVE hash.txn = t
    OBVIOUS
  <2>1. hash = At(t, Cursor(t))
    BY <1>2 DEF Reads
  <2> QED
    BY <2>1 DEF At
<1>4. CASE SavePartial
  BY <1>0, <1>4, SeenKept DEF SavePartial, txnVars
<1>5. CASE ReadInCount \/ ReadInput
  <2>1. txn_state' \in {TXN_IN, TXN_START_OUT}
    BY <1>5 DEF ReadInCount, ReadInput
  <2> QED
    BY <2>1 DEF OutputsSeen, Decoding, Signing, EveryOutputSeen
<1>6. CASE ReadOutCount
  <2>1. txn_state = TXN_START_OUT /\ txn_state' = TXN_OUT /\ curr_obj' = 0
    BY <1>6 DEF ReadOutCount
  <2>2. confirmed' = 0
    BY <1>0, <2>1 DEF Approvals
  <2>3. \A i : i \notin 0..confirmed' - 1
    BY <2>2
  <2> QED
    BY <2>1, <2>3 DEF OutputsSeen, Signing, EveryOutputSeen
<1>7. CASE ReadOutput
  <2>1. /\ txn_state = TXN_OUT /\ txn_state' = TXN_OUT
        /\ cur_output' = Element /\ hash' = Absorb(hash, Element, OUTPUT_LEN)
        /\ result' \in {TXN_PARTIAL_OUT, TXN_APPROVE_OUT}
    BY <1>7 DEF ReadOutput, Throw
  <2>2. curr_obj' = curr_obj + 1 /\ curr_obj \in Nat
    BY <1>7, OutputCounted
  <2>3. /\ buffer \in Place /\ dataBuffer \in Place /\ offset \in Nat
        /\ Cursor(t) \in Nat
    BY <1>0, DecoderRanges, Cursors
  <2>4. /\ dataBuffer.pos = Cursor(t) + offset
        /\ offset > 0 => Advance(buffer, offset) = dataBuffer
        /\ hash = At(t, Cursor(t))
    BY <1>2, <2>1 DEF Reads
  <2>5. Element = At(t, Cursor(t))
    BY <1>1, <2>3, <2>4, ElementAt
  <2>6. Cursor(t) = OutputAt(t, curr_obj)
    BY <2>1 DEF Cursor
  <2>7. cur_output' = OutputPlace(t, curr_obj)
    BY <2>1, <2>5, <2>6 DEF OutputPlace
  <2>8. hash' = At(t, Cursor(t) + OUTPUT_LEN)
    BY <2>1, <2>3, <2>4, <2>5, AbsorbNext
  <2>9. hash'.txn = t
    BY <2>8 DEF At
  <2>10. cur_output' = OutputPlace(hash'.txn, curr_obj' - 1)
    <3>1. curr_obj' - 1 = curr_obj
      BY <2>2
    <3> QED
      BY <2>7, <2>9, <3>1
  <2>11. \A i \in 0..confirmed' - 1 : OutputPlace(hash'.txn, i) \in seen'
    BY <1>0, <1>3, <2>1, <2>9 DEF OutputsSeen, Decoding
  <2>12. ~Signing'
    BY <2>1 DEF Signing
  <2> QED
    BY <2>1, <2>10, <2>11, <2>12 DEF OutputsSeen, EveryOutputSeen, OutputPlace
<1>8. CASE OutputsRead
  <2>1. /\ txn_state = TXN_OUT /\ txn_state' = TXN_COMPUTE_SIGS /\ curr_obj = out_num
        /\ UNCHANGED <<inner_hash, out_num>>
    BY <1>8 DEF OutputsRead, txnVars
  <2>2. confirmed = out_num
    BY <1>0, <2>1 DEF Approvals
  <2>3. inner_hash = At(t, TxnLen(t))
    BY <1>2, <2>1 DEF Reads
  <2>4. inner_hash'.txn = hash.txn
    BY <1>3, <2>1, <2>3 DEF At
  <2>5. \A i \in 0..out_num' - 1 : OutputPlace(inner_hash'.txn, i) \in seen'
    BY <1>0, <2>1, <2>2, <2>4 DEF OutputsSeen, Decoding
  <2> QED
    BY <2>1, <2>5 DEF OutputsSeen, Decoding, EveryOutputSeen, OutputPlace
<1>9. CASE ComputeSigs \/ ReturnSig \/ ResponseFull \/ SigsReturned
  <2>1. txn_state \in {TXN_COMPUTE_SIGS, TXN_RET_SIGS}
    BY <1>9 DEF ComputeSigs, ReturnSig, ResponseFull, SigsReturned
  <2>2. /\ txn_state' \in {TXN_COMPUTE_SIGS, TXN_RET_SIGS}
        /\ UNCHANGED <<out_num, inner_hash>>
    BY <2>1, SignsOn
  <2>3. ~Decoding' /\ Signing
    BY <1>0, <2>1, <2>2 DEF Decoding, Signing
  <2> QED
    BY <2>2, <2>3 DEF OutputsSeen, EveryOutputSeen
<1> QED
  BY <1>4, <1>5, <1>6, <1>7, <1>8, <1>9 DEF txn_next_elem

\* A press that answers an approval is about the output on the screen.
LEMMA PressOutputsSeen ==
  ASSUME ~Eager, Basics, Approvals, ButtonReads, OutputsSeen, UserPressesRight
  PROVE  OutputsSeen'
<1>0. /\ Idle /\ result = NotThrown /\ initialized'
      /\ UNCHANGED <<curr_obj, out_num, cur_output, inner_hash, shown, result>>
      /\ curr_obj \in 0..255 /\ confirmed \in 0..255
  BY DEF UserPressesRight, PressRight, Idle, uiVars, Basics, Control, TypeOK, SignTypeOK,
         DecoderTypeOK, HistoryTypeOK
<1>1. CASE ~initialized
  <2>1. txn_state' = TXN_START_IN
    BY <1>1 DEF UserPressesRight, PressRight
  <2> QED
    BY <2>1 DEF OutputsSeen, EveryOutputSeen, Signing
<1>2. CASE initialized /\ ~Approving
  <2>1. UNCHANGED <<txn_state, hash, confirmed, seen, initialized>>
    BY <1>0, <1>2 DEF UserPressesRight, PressRight
  <2> QED
    BY <1>0, <2>1, SeenKept
<1>3. CASE Approving
  <2>1. /\ txn_state = TXN_OUT /\ initialized /\ Decoding
        /\ UNCHANGED <<txn_state, hash>>
        /\ confirmed' = curr_obj /\ seen' = seen \cup {shown}
    BY <1>0, <1>3 DEF Approving, ShowsApproval, UserPressesRight, PressRight, Decoding
  <2>2. curr_obj > 0
    BY <1>0, <2>1 DEF ButtonReads, Idle
  <2>3. /\ cur_output = OutputPlace(hash.txn, curr_obj - 1) /\ shown = cur_output
        /\ \A i \in 0..confirmed - 1 : OutputPlace(hash.txn, i) \in seen
    BY <1>0, <2>1, <2>2 DEF OutputsSeen
  <2>4. curr_obj <= confirmed + 1
    BY <2>1 DEF Approvals
  <2>5. \A i \in 0..curr_obj - 1 : i = curr_obj - 1 \/ i \in 0..confirmed - 1
    BY <1>0, <2>4
  <2>6. \A i \in 0..confirmed' - 1 : OutputPlace(hash'.txn, i) \in seen'
    BY <2>1, <2>3, <2>5
  <2>7. ~Signing'
    BY <2>1 DEF Signing
  <2>8. cur_output' = OutputPlace(hash'.txn, curr_obj' - 1) /\ shown' = cur_output'
    BY <1>0, <2>1, <2>3
  <2> QED
    BY <2>6, <2>7, <2>8 DEF OutputsSeen, EveryOutputSeen
<1> QED
  BY <1>1, <1>2, <1>3 DEF Approving

LEMMA NextOutputsSeen ==
  ASSUME ~Eager, Basics, Approvals, Exchanges, Feed, Progress, ButtonReads,
         OutputsSeen, [Next]_vars
  PROVE  OutputsSeen'
<1>0. /\ Control /\ txn_state \in 0..5 /\ result \in 0..5
  BY DEF Basics, TypeOK, SignTypeOK, DecoderTypeOK
<1>a. ASSUME UNCHANGED <<decoderVars, shown, confirmed, seen>> PROVE OutputsSeen'
  <2>1. UNCHANGED <<initialized, txn_state, curr_obj, out_num, cur_output, hash,
                    inner_hash, result>>
    BY <1>a DEF decoderVars, txnVars
  <2> QED
    BY <1>a, <2>1, SeenKept
<1>1. CASE DeviceComputes
  <2>0. UNCHANGED <<confirmed, seen>>
    BY <1>1 DEF DeviceComputes, historyVars
  <2>1. CASE txn_next_elem /\ UNCHANGED uiVars
    BY <2>0, <2>1, DecoderOutputsSeen DEF uiVars
  <2>2. CASE HandlerReturns
    <3>1. /\ caller = "handler" /\ initialized' => initialized
          /\ UNCHANGED <<txn_state, inner_hash, out_num>>
      BY <2>2 DEF HandlerReturns, HandlerShowsOutput, HandlerFinishes, HandlerContinues,
                  ReturnToMain, txnVars
    <3>2. caller = "handler"
      BY <2>2 DEF HandlerReturns, HandlerShowsOutput, HandlerFinishes, HandlerContinues,
                  ReturnToMain
    <3>3. ~Decoding' /\ (Signing' => Signing)
      BY <3>1, <3>2 DEF ButtonReads, Decoding, Idle, Signing
    <3> QED
      BY <2>0, <3>1, <3>3 DEF OutputsSeen, EveryOutputSeen
  <2>3. CASE ButtonReturns
    <3>1. /\ UNCHANGED <<initialized, curr_obj, out_num, cur_output, hash, inner_hash>>
          /\ result' = NotThrown
      BY <2>3 DEF ButtonReturns, ButtonContinues, ButtonShowsOutput,
         ButtonShowsAndContinues, ButtonReleases, ButtonFinishes, ReturnFromButton, txnVars
    <3>2. CASE result \in {TXN_PARTIAL_OUT, TXN_APPROVE_OUT}
      <4>1. shown' = cur_output /\ txn_state' = txn_state
        BY <2>3, <3>2 DEF ButtonReturns, ButtonContinues, ButtonShowsOutput,
           ButtonShowsAndContinues, ButtonReleases, ButtonFinishes, ReturnFromButton,
           prepare_output_approval
      <4>2. Decoding' = Decoding /\ Signing' = Signing
        BY <3>1, <4>1 DEF Decoding, Signing
      <4> QED
        BY <2>0, <3>1, <4>1, <4>2 DEF OutputsSeen, EveryOutputSeen, OutputPlace
    <3>3. CASE result \notin {TXN_PARTIAL_OUT, TXN_APPROVE_OUT}
      <4>1. shown' = shown
        BY <2>3, <3>3 DEF ButtonReturns, ButtonContinues, ButtonShowsOutput,
           ButtonShowsAndContinues, ButtonReleases, ButtonFinishes
      <4>2. txn_state' = txn_state \/ (txn_state' = TXN_COMPUTE_SIGS /\ Signing)
        <5>1. CASE ButtonReleases
          BY <1>0, <5>1 DEF ButtonReleases, Control, Signing
        <5>2. CASE ~ButtonReleases
          BY <2>3, <5>2 DEF ButtonReturns, ButtonContinues, ButtonShowsOutput,
             ButtonShowsAndContinues, ButtonFinishes
        <5> QED
          BY <5>1, <5>2
      <4> QED
        BY <2>0, <3>1, <3>3, <4>1, <4>2, SeenKept
    <3> QED
      BY <3>2, <3>3
  <2> QED
    BY <1>1, <2>1, <2>2, <2>3 DEF DeviceComputes, Compute
<1>2. CASE HostSend
  <2> DEFINE len == Least(Chunk, TxnLen(txn) - sent)
             p1  == IF sent = 0 THEN 0 ELSE 1
  <2>1. handleSignTxn(p1, At(txn, sent), len) /\ UNCHANGED historyVars
    BY <1>2 DEF HostSend
  <2> HIDE DEF len, p1
  <2>2. /\ initialized' => initialized
        /\ UNCHANGED <<txn_state, curr_obj, txnVars, shown, result>>
    BY <2>1 DEF handleSignTxn, Offer, Decode, Redisplay, Refuse, uiVars
  <2> QED
    BY <2>1, <2>2, SeenKept DEF txnVars, historyVars
<1>3. CASE UserPressesRight
  BY <1>3, PressOutputsSeen
<1>4. CASE HostStart
  BY <1>4, <1>a DEF HostStart, signVars, uiVars, historyVars
<1>5. CASE HostReceive
  BY <1>5, <1>a DEF HostReceive, uiVars, historyVars
<1>6. CASE UserPressesLeft
  BY <1>6, <1>a DEF UserPressesLeft, PressLeft
<1>7. CASE UserDismisses
  BY <1>7, <1>a DEF UserDismisses, DismissMessage, historyVars
<1>8. CASE HostDies
  BY <1>8, <1>a DEF HostDies, uiVars, historyVars
<1>9. CASE DeviceRestarts
  BY <1>9 DEF DeviceRestarts, OutputsSeen, EveryOutputSeen, Decoding, Signing
<1>10. CASE UNCHANGED vars
  BY <1>10, <1>a DEF vars, signVars, uiVars, historyVars
<1> QED
  BY <1>1, <1>2, <1>3, <1>4, <1>5, <1>6, <1>7, <1>8, <1>9, <1>10 DEF Next

LEMMA InitOutputs == Init => ButtonReads /\ OutputsSeen
BY DEF Init, SignInit, DecoderInit, ButtonReads, OutputsSeen, EveryOutputSeen,
       Decoding, Signing, Idle

\* An approval that waits is of the output read last.
LEMMA ShowsCurrent ==
  ASSUME Basics, ButtonReads, OutputsSeen
  PROVE  ApprovalShowsCurrentOutput
<1> SUFFICES ASSUME Idle, Approving PROVE curr_obj > 0 /\ shown = cur_output
  BY DEF ApprovalShowsCurrentOutput
<1>1. /\ Decoding /\ txn_state = TXN_OUT /\ caller = "none" /\ result = NotThrown
  BY DEF Approving, ShowsApproval, Decoding, Idle, Basics, Control
<1>2. curr_obj > 0
  BY <1>1 DEF ButtonReads
<1> QED
  BY <1>1, <1>2 DEF OutputsSeen

LEMMA SessionOutputs ==
  ASSUME ~Eager, FirstOutputFits
  PROVE  Spec => [](Basics /\ ButtonReads /\ OutputsSeen)
<1> DEFINE Before == Basics /\ Exchanges /\ Feed /\ Progress /\ Approvals
<1>1. Before /\ ButtonReads /\ OutputsSeen /\ [Next]_vars => (ButtonReads /\ OutputsSeen)'
  BY NextButtonReads, NextOutputsSeen
<1>2. Spec => []Before
  BY SessionProgress, SessionApprovals, PTL
<1> QED
  BY <1>1, <1>2, InitOutputs, PTL DEF Spec

\* Where the first packet holds the first output, no key is used before every
\* output of the very transaction that is signed was on the screen at a press
\* of the right button.
THEOREM SessionShowsOutputs ==
  ~Eager /\ FirstOutputFits => (Spec => []EveryOutputSeen)
<1> SUFFICES ASSUME ~Eager, FirstOutputFits PROVE Spec => []EveryOutputSeen
  OBVIOUS
<1>1. OutputsSeen => EveryOutputSeen
  BY DEF OutputsSeen
<1> QED
  BY <1>1, SessionOutputs, PTL

\* And whenever an approval waits, an output has been read and the strings on
\* the screen are its own.
THEOREM SessionShowsCurrent ==
  ~Eager /\ FirstOutputFits => (Spec => []ApprovalShowsCurrentOutput)
<1> SUFFICES ASSUME ~Eager, FirstOutputFits PROVE Spec => []ApprovalShowsCurrentOutput
  OBVIOUS
<1> QED
  BY ShowsCurrent, SessionOutputs, PTL
=============================================================================
