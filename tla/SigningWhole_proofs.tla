------------------------ MODULE SigningWhole_proofs ------------------------
(***************************************************************************)
(* Proofs about SigningSession for a user who is not Eager: what the       *)
(* device signs is one whole transaction, however it was cut into packets. *)
(***************************************************************************)
EXTENDS SigningSession_proofs

USE DEF COUNT_LEN, INPUT_LEN, OUTPUT_LEN, MAX_INPUTS, HASH_LEN, SIG_LEN,
        APDU_LEN,
        TXN_START_IN, TXN_IN, TXN_START_OUT, TXN_OUT, TXN_COMPUTE_SIGS,
        TXN_RET_SIGS,
        NotThrown, TXN_PARTIAL, TXN_PARTIAL_OUT, TXN_APPROVE_OUT, TXN_READY,
        TXN_FINISHED

-----------------------------------------------------------------------------
(* Third layer: exchanges.                                                 *)

\* The answers, told apart by their status.
LEMMA ReplyStatus ==
  /\ NoReply.sw = 0
  /\ \A sw, d, n : Reply(sw, d, n).sw = sw
BY DEF NoReply, Reply

\* A command that waits has not been answered, nor has more data been asked for.
LEMMA NotFedYet ==
  ASSUME Exchanges, awaiting, result = NotThrown
  PROVE  ~Fed
<1>1. reply.sw = 0
  BY ReplyStatus DEF Exchanges
<1> QED
  BY <1>1 DEF Exchanges, Fed, INS_RET_SUCCESS

\* What an iteration of the decoder leaves alone, and when it stops.
LEMMA DecoderSteps ==
  ASSUME Basics, txn_next_elem
  PROVE  /\ Running /\ initialized /\ caller' = caller
         /\ \/ /\ result' = NotThrown
               /\ txn_state' >= TXN_COMPUTE_SIGS => txn_state >= TXN_COMPUTE_SIGS
            \/ /\ result' = TXN_PARTIAL
               /\ dataLength' = 0 \/ txn_state' = TXN_RET_SIGS
            \/ result' = TXN_PARTIAL_OUT /\ dataLength' = 0
            \/ result' = TXN_APPROVE_OUT /\ offset' = 0
            \/ result' = TXN_READY /\ txn_state' = TXN_COMPUTE_SIGS
            \/ result' = TXN_FINISHED /\ txn_state = TXN_RET_SIGS
<1>0. Control /\ txn_state \in 0..5
  BY DEF Basics, TypeOK, SignTypeOK, DecoderTypeOK
<1> USE DEF Throw, Running
<1>a. Running => initialized
  BY <1>0 DEF Control
<1>1. CASE SavePartial
  BY <1>a, <1>1 DEF SavePartial, save_data_to_buffer
<1>2. CASE ReadInCount
  BY <1>a, <1>2 DEF ReadInCount
<1>3. CASE ReadInput
  BY <1>a, <1>3 DEF ReadInput
<1>4. CASE ReadOutCount
  BY <1>a, <1>4 DEF ReadOutCount
<1>5. CASE ReadOutput
  BY <1>a, <1>5 DEF ReadOutput, CannotHoldOutput
<1>6. CASE OutputsRead
  BY <1>a, <1>6 DEF OutputsRead
<1>7. CASE ComputeSigs
  BY <1>a, <1>7 DEF ComputeSigs
<1>8. CASE ReturnSig
  BY <1>a, <1>8 DEF ReturnSig
<1>9. CASE ResponseFull
  BY <1>a, <1>9 DEF ResponseFull
<1>10. CASE SigsReturned
  BY <1>a, <1>10 DEF SigsReturned
<1> QED
  BY <1>1, <1>2, <1>3, <1>4, <1>5, <1>6, <1>7, <1>8, <1>9, <1>10 DEF txn_next_elem

\* An answer to a command that waits: what the callers of the decoder send.
LEMMA AnswerGiven ==
  ASSUME Exchanges, awaiting, NEW sw, NEW d, NEW n, io_exchange_with_code(sw, d, n)
  PROVE  awaiting' = FALSE /\ reply'.sw = sw
BY ReplyStatus DEF io_exchange_with_code

LEMMA NextExchanges ==
  ASSUME ~Eager, Basics, Exchanges, [Next]_vars
  PROVE  Exchanges'
<1>0. /\ Control /\ txn_state \in 0..5 /\ result \in 0..5
      /\ caller \in {"none", "handler", "button"}
  BY DEF Basics, TypeOK, SignTypeOK, DecoderTypeOK
<1>1. CASE DeviceComputes
  <2>0. UNCHANGED <<host, sent>>
    BY <1>1 DEF DeviceComputes, hostVars
  <2>1. CASE txn_next_elem /\ UNCHANGED <<uiVars, ioVars>>
    <3>0. txn_next_elem /\ UNCHANGED <<awaiting, reply>>
      BY <2>1 DEF ioVars
    <3>1. /\ Running /\ initialized /\ caller' = caller
          /\ UNCHANGED <<awaiting, reply>>
      BY <3>0, DecoderSteps
    <3>2. awaiting /\ reply.sw = 0
      BY <3>1, ReplyStatus DEF Running, Exchanges
    <3>3. Decoding' /\ Fed' => dataLength' = 0
      BY <2>0, <3>0, <3>1, <3>2, DecoderSteps DEF Decoding, Fed, Exchanges, INS_RET_SUCCESS
    <3>4. Decoding' /\ result' = TXN_APPROVE_OUT => offset' = 0
      BY <3>0, DecoderSteps
    <3>5. caller = "button" => txn_state < TXN_COMPUTE_SIGS
      BY <3>1, <3>2 DEF Exchanges
    <3>6. caller' = "button" => result' # TXN_FINISHED
      BY <3>0, <3>1, <3>5, DecoderSteps
    <3>7. caller' = "button" /\ Running' => txn_state' < TXN_COMPUTE_SIGS
      <4>1. txn_state' \in 0..5
        BY <3>0, DecoderCounters DEF Basics, TypeOK, SignTypeOK, DecoderTypeOK
      <4> QED
        BY <1>0, <3>0, <3>1, <3>5, <4>1, DecoderSteps DEF Running
    <3> QED
      BY <2>0, <3>1, <3>3, <3>4, <3>6, <3>7 DEF Exchanges, Idle, Running
  <2>2. CASE HandlerReturns
    <3>1. /\ caller = "handler" /\ result # NotThrown /\ awaiting
          /\ caller' = "none" /\ result' = NotThrown
          /\ UNCHANGED <<txn_state, dataLength, offset>>
      BY <2>2 DEF HandlerReturns, HandlerShowsOutput, HandlerFinishes, HandlerContinues,
                  ReturnToMain, dataVars, Exchanges
    <3>2. CASE HandlerShowsOutput
      <4>1. txn_state' = TXN_OUT /\ UNCHANGED <<awaiting, reply, initialized>>
        BY <1>0, <3>1, <3>2 DEF HandlerShowsOutput, Control, ioVars
      <4>2. reply.sw = 0
        BY <3>1, ReplyStatus DEF Exchanges
      <4> QED
        BY <2>0, <3>1, <4>1, <4>2
           DEF Exchanges, Decoding, Fed, Running, INS_RET_SUCCESS
    <3>3. CASE HandlerFinishes
      <4>1. awaiting' = FALSE /\ initialized' = FALSE
        BY <3>3 DEF HandlerFinishes, io_async_exchange_ok, io_exchange_with_code
      <4> QED
        BY <3>1, <4>1 DEF Exchanges, Decoding
    <3>4. CASE HandlerContinues
      <4>1. awaiting' = FALSE /\ initialized' = initialized
        BY <3>4 DEF HandlerContinues, io_async_exchange_ok, io_exchange_with_code
      <4>2. result \in {TXN_PARTIAL, TXN_PARTIAL_OUT, TXN_READY}
        BY <1>0, <3>1, <3>4 DEF HandlerContinues
      <4>3. Decoding' => dataLength' = 0
        BY <1>0, <3>1, <4>1, <4>2 DEF Control, Exchanges, Decoding, Fed
      <4> QED
        BY <3>1, <4>1, <4>3 DEF Exchanges
    <3> QED
      BY <2>2, <3>2, <3>3, <3>4 DEF HandlerReturns
  <2>3. CASE ButtonReturns
    <3>1. /\ caller = "button" /\ result # NotThrown /\ awaiting
          /\ caller' = "none" /\ result' = NotThrown
          /\ UNCHANGED <<initialized, dataLength, offset>>
      BY <2>3 DEF ButtonReturns, ButtonContinues, ButtonShowsOutput,
         ButtonShowsAndContinues, ButtonReleases, ButtonFinishes, ReturnFromButton,
         dataVars, Exchanges
    <3>2. CASE ButtonContinues \/ ButtonShowsAndContinues
      <4>1. /\ awaiting' = FALSE /\ txn_state' = txn_state
            /\ result \in {TXN_PARTIAL, TXN_PARTIAL_OUT}
        BY <3>2 DEF ButtonContinues, ButtonShowsAndContinues, io_async_exchange_ok,
                    io_exchange_with_code
      <4>2. Decoding' => dataLength' = 0
        BY <3>1, <4>1 DEF Exchanges, Decoding, Fed
      <4> QED
        BY <3>1, <4>1, <4>2 DEF Exchanges
    <3>3. CASE ButtonShowsOutput
      <4>1. txn_state' = TXN_OUT /\ UNCHANGED <<awaiting, reply>>
        BY <1>0, <3>3 DEF ButtonShowsOutput, Control, ioVars
      <4>2. reply.sw = 0
        BY <3>1, ReplyStatus DEF Exchanges
      <4> QED
        BY <2>0, <3>1, <4>1, <4>2
           DEF Exchanges, Decoding, Fed, Running, INS_RET_SUCCESS
    <3>4. CASE ButtonReleases
      <4>1. awaiting' = FALSE /\ txn_state' = TXN_COMPUTE_SIGS
        BY <3>4 DEF ButtonReleases, io_exchange_with_code
      <4> QED
        BY <3>1, <4>1 DEF Exchanges, Decoding
    <3>5. CASE ButtonFinishes
      BY <3>1, <3>5 DEF ButtonFinishes, Exchanges
    <3> QED
      BY <2>3, <3>2, <3>3, <3>4, <3>5 DEF ButtonReturns
  <2> QED
    BY <1>1, <2>1, <2>2, <2>3 DEF DeviceComputes, Compute
<1>2. CASE HostSend
  <2>1. PICK p1, place, len : handleSignTxn(p1, place, len)
    BY <1>2 DEF HostSend
  <2>2. /\ host' \in {"posted", "asked"} /\ caller = "none" /\ result = NotThrown
    BY <1>0, <1>2, <2>1 DEF HostSend, handleSignTxn, Offer, Decode, Redisplay, Refuse,
                            TakePacket, Idle, Control
  <2>3. CASE Offer(p1, place, len)
    BY <2>2, <2>3 DEF Offer, Exchanges, Decoding
  <2>4. CASE Decode(p1, place, len)
    <3>1. /\ caller' = "handler" /\ awaiting' = TRUE /\ reply' = NoReply
          /\ result' = NotThrown
      BY <2>2, <2>4 DEF Decode
    <3> QED
      BY <2>2, <3>1, ReplyStatus DEF Exchanges, Fed, Idle, INS_RET_SUCCESS
  <2>5. CASE Redisplay(p1, place, len)
    <3>1. /\ caller' = "none" /\ awaiting' = TRUE /\ reply' = NoReply
          /\ result' = NotThrown /\ txn_state' = txn_state
          /\ txn_state < TXN_COMPUTE_SIGS
      BY <1>0, <2>2, <2>5 DEF Redisplay, Unattended
    <3> QED
      BY <2>2, <3>1, ReplyStatus DEF Exchanges, Fed, INS_RET_SUCCESS
  <2>6. CASE Refuse(p1, place, len)
    BY <2>2, <2>6 DEF Refuse, Exchanges, Decoding
  <2> QED
    BY <2>1, <2>3, <2>4, <2>5, <2>6 DEF handleSignTxn
<1>3. CASE HostStart
  BY <1>3 DEF HostStart, signVars, decoderVars, dataVars, ioVars, Exchanges, Decoding,
              Fed, Running, Idle
<1>4. CASE HostReceive
  <2>1. /\ UNCHANGED <<initialized, txn_state, dataLength, offset, caller, result,
                       awaiting, sent>>
        /\ reply' = NoReply /\ reply # NoReply /\ ~awaiting
    BY <1>4 DEF HostReceive, decoderVars, dataVars, Exchanges
  <2>2. host' \in {"streaming", "collecting"} => reply.sw = INS_RET_SUCCESS
    BY <1>4 DEF HostReceive
  <2>3. Fed' => Fed
    BY <2>1, <2>2, ReplyStatus DEF Fed, INS_RET_SUCCESS
  <2> QED
    BY <2>1, <2>3 DEF Exchanges, Decoding, Running, Idle
<1>5. CASE UserPressesRight
  <2>1. /\ awaiting /\ caller = "none" /\ result = NotThrown
        /\ initialized' = TRUE /\ caller' = "button"
        /\ txn_state' = IF initialized THEN txn_state ELSE TXN_START_IN
        /\ UNCHANGED <<result, awaiting, reply, host, sent>>
    BY <1>0, <1>5 DEF UserPressesRight, MayPress, PressRight, Idle, Control, ioVars,
                      hostVars
  <2>2. txn_state' < TXN_COMPUTE_SIGS
    BY <2>1 DEF Exchanges, Idle
  <2>3. ~Fed'
    BY <2>1, NotFedYet DEF Fed
  <2> QED
    BY <2>1, <2>2, <2>3 DEF Exchanges
<1>6. CASE UserPressesLeft
  <2>1. /\ awaiting /\ caller = "none" /\ result = NotThrown
        /\ UNCHANGED <<caller, result, host, sent>>
        /\ awaiting' = FALSE /\ reply'.sw = SW_ERROR
    BY <1>0, <1>6, AnswerGiven
       DEF UserPressesLeft, MayPress, PressLeft, Idle, Control, hostVars, decoderVars,
           io_async_exchange_error, io_exchange_with_code
  <2>2. ~Fed'
    BY <2>1 DEF Fed, Exchanges, INS_RET_SUCCESS, SW_ERROR
  <2> QED
    BY <2>1, <2>2 DEF Exchanges
<1>7. CASE UserDismisses
  BY <1>7 DEF UserDismisses, DismissMessage, decoderVars, dataVars, ioVars, hostVars,
              Exchanges, Decoding, Fed, Running, Idle
<1>8. CASE HostDies
  <2>1. /\ UNCHANGED <<initialized, txn_state, dataLength, offset, caller, result,
                       awaiting>>
        /\ reply' = NoReply /\ host' = "failed"
    BY <1>8 DEF HostDies, decoderVars, dataVars
  <2>2. Fed' => Fed
    BY <2>1, ReplyStatus DEF Fed, INS_RET_SUCCESS
  <2> QED
    BY <2>1, <2>2 DEF Exchanges, Decoding, Running, Idle
<1>9. CASE DeviceRestarts
  BY <1>9 DEF DeviceRestarts, Exchanges, Decoding
<1>10. CASE UNCHANGED vars
  BY <1>10 DEF vars, signVars, decoderVars, dataVars, ioVars, hostVars,
               Exchanges, Decoding, Fed, Running, Idle
<1> QED
  BY <1>1, <1>2, <1>3, <1>4, <1>5, <1>6, <1>7, <1>8, <1>9, <1>10 DEF Next

-----------------------------------------------------------------------------
(* Third layer: the stream of bytes.                                       *)

\* Advancing never leaves the transaction of the place.
LEMMA AdvanceFields ==
  ASSUME NEW p \in Place, NEW n
  PROVE  Advance(p, n).txn = p.txn /\ Advance(p, n).pos = p.pos + n
BY DEF Advance, Place

\* The decoder moves its reading place by as many bytes as it takes.
LEMMA NoByteSkipped ==
  ASSUME DecoderTypeOK, txn_next_elem
  PROVE  /\ dataBuffer'.txn = dataBuffer.txn
         /\ dataBuffer'.pos + dataLength' = dataBuffer.pos + dataLength
<1>0. /\ dataBuffer \in Place /\ dataBuffer.pos \in Nat
      /\ dataLength \in Nat /\ offset \in Nat
  BY DEF DecoderTypeOK, Place
<1>a. ASSUME UNCHANGED dataVars
      PROVE  /\ dataBuffer'.txn = dataBuffer.txn
             /\ dataBuffer'.pos + dataLength' = dataBuffer.pos + dataLength
  BY <1>a DEF dataVars
<1>b. ASSUME NEW size \in Nat, read_data_to_buffer(size)
      PROVE  /\ dataBuffer'.txn = dataBuffer.txn
             /\ dataBuffer'.pos + dataLength' = dataBuffer.pos + dataLength
  <2>1. /\ dataBuffer' = Advance(dataBuffer, size - offset)
        /\ dataLength' = dataLength - (size - offset)
    BY <1>b DEF read_data_to_buffer
  <2>2. /\ dataBuffer'.txn = dataBuffer.txn
        /\ dataBuffer'.pos = dataBuffer.pos + (size - offset)
    BY <1>0, <2>1, AdvanceFields
  <2> QED
    BY <1>0, <2>1, <2>2
<1>1. CASE SavePartial
  <2>1. dataBuffer' = Advance(dataBuffer, dataLength) /\ dataLength' = 0
    BY <1>1 DEF SavePartial, save_data_to_buffer
  <2> QED
    BY <1>0, <2>1, AdvanceFields
<1>2. CASE ReadInCount
  BY <1>2, <1>b DEF ReadInCount
<1>3. CASE ReadInput
  BY <1>3, <1>b DEF ReadInput
<1>4. CASE ReadOutCount
  BY <1>4, <1>b DEF ReadOutCount
<1>5. CASE ReadOutput
  <2> DEFINE next == Advance(dataBuffer, OUTPUT_LEN - offset)
             rest == dataLength - (OUTPUT_LEN - offset)
  <2>1. \/ dataBuffer' = Advance(next, rest) /\ dataLength' = 0
        \/ dataBuffer' = next /\ dataLength' = rest
    BY <1>5 DEF ReadOutput, CannotHoldOutput
  <2>2. rest \in Nat /\ OUTPUT_LEN - offset \in Nat
    BY <1>5 DEF ReadOutput, CannotHoldOutput, Starved, DecoderTypeOK
  <2>3. /\ next \in Place /\ next.txn = dataBuffer.txn
        /\ next.pos = dataBuffer.pos + (OUTPUT_LEN - offset)
    BY <1>0, <2>2, AdvanceType
  <2>4. /\ Advance(next, rest).txn = next.txn
        /\ Advance(next, rest).pos = next.pos + rest
    BY <2>3, AdvanceFields
  <2>5. rest = dataLength - (OUTPUT_LEN - offset)
    OBVIOUS
  <2> HIDE DEF next, rest
  <2> QED
    BY <1>0, <2>1, <2>2, <2>3, <2>4, <2>5
<1>6. CASE OutputsRead
  BY <1>6, <1>a DEF OutputsRead
<1>7. CASE ComputeSigs
  BY <1>7, <1>a DEF ComputeSigs
<1>8. CASE ReturnSig
  BY <1>8, <1>a DEF ReturnSig
<1>9. CASE ResponseFull
  BY <1>9, <1>a DEF ResponseFull
<1>10. CASE SigsReturned
  BY <1>10, <1>a DEF SigsReturned
<1> QED
  BY <1>1, <1>2, <1>3, <1>4, <1>5, <1>6, <1>7, <1>8, <1>9, <1>10 DEF txn_next_elem

\* What the device does by itself leaves the stream as it is.
LEMMA FeedKept ==
  ASSUME Feed,
         awaiting' => awaiting,
         Idle' /\ awaiting' /\ ~initialized' => Idle /\ ~initialized,
         dataBuffer'.txn = dataBuffer.txn,
         dataBuffer'.pos = dataBuffer.pos \/ ~Idle',
         dataBuffer'.pos + dataLength' = dataBuffer.pos + dataLength,
         Served' => Served, UNCHANGED <<txn, sent>>
  PROVE  Feed'
BY DEF Feed

LEMMA NextFeed ==
  ASSUME ~Eager, Basics, Exchanges, Feed, [Next]_vars
  PROVE  Feed'
<1>0. /\ Control /\ DecoderTypeOK /\ HostTypeOK
      /\ result \in 0..5 /\ caller \in {"none", "handler", "button"}
  BY DEF Basics, TypeOK, SignTypeOK, DecoderTypeOK
<1>a. ASSUME UNCHANGED <<initialized, awaiting, dataBuffer, dataLength, caller>>,
             UNCHANGED <<txn, sent>>, Served' => Served
      PROVE  Feed'
  BY <1>a, FeedKept DEF Idle
<1>1. CASE DeviceComputes
  <2>0. UNCHANGED <<txn, sent>> /\ Served' = Served
    BY <1>1 DEF DeviceComputes, hostVars, Served, Active
  <2>1. CASE txn_next_elem /\ UNCHANGED ioVars
    <3>1. caller # "none" /\ caller' = caller /\ initialized
      BY <2>1, DecoderSteps DEF Running
    <3> QED
      BY <1>0, <2>0, <2>1, <3>1, NoByteSkipped, FeedKept DEF Idle, ioVars
  <2>2. CASE HandlerReturns
    <3>1. /\ caller = "handler" /\ awaiting /\ UNCHANGED <<dataBuffer, dataLength>>
      BY <2>2 DEF HandlerReturns, HandlerShowsOutput, HandlerFinishes, HandlerContinues,
                  ReturnToMain, dataVars, Exchanges
    <3>2. awaiting' => initialized'
      BY <1>0, <2>2 DEF HandlerReturns, HandlerShowsOutput, HandlerFinishes,
         HandlerContinues, io_async_exchange_ok, io_exchange_with_code, Control
    <3> QED
      BY <2>0, <3>1, <3>2, FeedKept
  <2>3. CASE ButtonReturns
    <3>1. /\ caller = "button" /\ awaiting /\ result # NotThrown
          /\ UNCHANGED <<initialized, dataBuffer, dataLength>>
      BY <2>3 DEF ButtonReturns, ButtonContinues, ButtonShowsOutput,
         ButtonShowsAndContinues, ButtonReleases, ButtonFinishes, ReturnFromButton,
         dataVars, Exchanges
    <3>2. result \in {TXN_PARTIAL, TXN_PARTIAL_OUT, TXN_APPROVE_OUT, TXN_READY}
      BY <1>0, <3>1 DEF Exchanges
    <3>3. initialized
      BY <1>0, <3>2 DEF Control
    <3> QED
      BY <2>0, <3>1, <3>3, FeedKept
  <2> QED
    BY <1>1, <2>1, <2>2, <2>3 DEF DeviceComputes, Compute
<1>2. CASE HostSend
  <2> DEFINE len == Least(Chunk, TxnLen(txn) - sent)
             p1  == IF sent = 0 THEN 0 ELSE 1
  <2>1. txn \in Txns /\ sent \in Nat /\ sent <= TxnLen(txn)
    BY <1>0, <1>2 DEF HostSend, HostTypeOK, Active
  <2>2. handleSignTxn(p1, At(txn, sent), len)
    BY <1>2 DEF HostSend
  <2>3. len \in Nat /\ sent + len <= TxnLen(txn)
    BY <2>1, TxnLenType, SessionAssumption DEF Least
  <2>4. sent' = sent + len /\ txn' = txn
    BY <1>2 DEF HostSend
  <2>5. At(txn, sent).txn = txn /\ At(txn, sent).pos = sent
    BY <2>1, AtType
  <2>6. p1 = 0 => sent = 0
    OBVIOUS
  <2> HIDE DEF len, p1
  <2>7. dataBuffer' = At(txn, sent) /\ dataLength' = len
    BY <2>2 DEF handleSignTxn, Offer, Decode, Redisplay, Refuse, TakePacket
  <2>8. Idle' /\ awaiting' /\ ~initialized' => sent = 0
    BY <2>2, <2>6 DEF handleSignTxn, Offer, Decode, Redisplay, Refuse, TakePacket, Idle
  <2> QED
    BY <2>1, <2>3, <2>4, <2>5, <2>7, <2>8 DEF Feed
<1>3. CASE HostStart
  <2>1. /\ UNCHANGED <<initialized, awaiting, dataBuffer, dataLength, caller>>
        /\ sent' = 0
    BY <1>3 DEF HostStart, signVars, decoderVars, dataVars, ioVars
  <2> QED
    BY <2>1 DEF Feed, Idle, Served
<1>4. CASE HostReceive
  BY <1>4, <1>a DEF HostReceive, decoderVars, dataVars, Waiting, Active, Served
<1>5. CASE UserPressesRight
  <2>1. /\ awaiting /\ caller' = "button" /\ UNCHANGED hostVars
        /\ UNCHANGED <<dataBuffer, dataLength, awaiting>>
    BY <1>5 DEF UserPressesRight, MayPress, PressRight, ioVars
  <2> QED
    BY <2>1, FeedKept DEF Idle, hostVars, Served, Active
<1>6. CASE UserPressesLeft
  BY <1>6 DEF UserPressesLeft, PressLeft, io_async_exchange_error,
              io_exchange_with_code, Feed
<1>7. CASE UserDismisses
  BY <1>7, <1>a DEF UserDismisses, DismissMessage, decoderVars, dataVars, ioVars,
                    hostVars, Served, Active
<1>8. CASE HostDies
  BY <1>8, <1>a DEF HostDies, decoderVars, dataVars, Active, Served
<1>9. CASE DeviceRestarts
  BY <1>9 DEF DeviceRestarts, Feed
<1>10. CASE UNCHANGED vars
  BY <1>10, <1>a DEF vars, signVars, decoderVars, dataVars, ioVars, hostVars, Served,
                     Active
<1> QED
  BY <1>1, <1>2, <1>3, <1>4, <1>5, <1>6, <1>7, <1>8, <1>9, <1>10 DEF Next

-----------------------------------------------------------------------------
(* Fourth layer: what has been read, decoder branch by decoder branch.     *)

\* The layout of a transaction, as numbers.
LEMMA Layout ==
  ASSUME NEW t \in Txns
  PROVE  /\ t.in_num \in 1..20 /\ t.out_num \in 1..255
         /\ \A i : InputAt(i) = 4 + 36 * i
         /\ OutCountAt(t) = 4 + 36 * t.in_num
         /\ \A i : OutputAt(t, i) = (8 + 36 * t.in_num) + 37 * i
         /\ TxnLen(t) = (8 + 36 * t.in_num) + 37 * t.out_num
<1>1. t.in_num \in 1..20 /\ t.out_num \in 1..255
  BY TxnsAssumption
<1>2. \A i : InputAt(i) = 4 + 36 * i
  BY DEF InputAt
<1>3. OutCountAt(t) = 4 + 36 * t.in_num
  BY <1>2 DEF OutCountAt
<1>4. ASSUME NEW i PROVE OutputAt(t, i) = (8 + 36 * t.in_num) + 37 * i
  <2>1. OutputAt(t, i) = ((4 + 36 * t.in_num) + 4) + 37 * i
    BY <1>3 DEF OutputAt
  <2>2. (4 + 36 * t.in_num) + 4 = 8 + 36 * t.in_num
    BY <1>1
  <2> QED
    BY <2>1, <2>2
<1> QED
  BY <1>1, <1>2, <1>3, <1>4 DEF TxnLen

\* Two places with the same transaction and position are one.
LEMMA SamePlace ==
  ASSUME NEW p \in Place, NEW t, NEW n, p.txn = t, p.pos = n
  PROVE  p = At(t, n)
BY DEF Place, At

\* The assembled element is the one at the cursor.
LEMMA ElementAt ==
  ASSUME buffer \in Place, dataBuffer \in Place, offset \in Nat,
         NEW t, NEW c \in Nat,
         dataBuffer.txn = t, dataBuffer.pos = c + offset,
         offset > 0 => Advance(buffer, offset) = dataBuffer
  PROVE  Element = At(t, c)
<1>1. CASE offset = 0
  <2>1. dataBuffer.pos = c
    BY <1>1
  <2> QED
    BY <1>1, <2>1, SamePlace DEF Element
<1>2. CASE offset > 0
  <2>1. Element = buffer
    BY <1>2 DEF Element
  <2>2. buffer.txn = t /\ buffer.pos + offset = c + offset
    BY <1>2, AdvanceFields
  <2>3. buffer.pos = c
    BY <2>2 DEF Place
  <2> QED
    BY <2>1, <2>2, <2>3, SamePlace
<1> QED
  BY <1>1, <1>2

\* Hashing the element at which the hash has arrived brings it to the next.
LEMMA AbsorbNext ==
  ASSUME NEW t \in Txns, NEW c \in Nat, NEW n \in Nat, NEW h,
         h = At(t, c) \/ (h = EmptyHash /\ c = 0)
  PROVE  Absorb(h, At(t, c), n) = At(t, c + n)
<1>1. t # NoTxn
  BY TxnsAssumption
<1>2. At(t, c).txn = t /\ At(t, c).pos = c /\ Advance(At(t, c), n) = At(t, c + n)
  BY DEF At, Advance
<1> QED
  BY <1>1, <1>2 DEF Absorb

\* Counts are read where they are.
LEMMA CountsRead ==
  ASSUME NEW t \in Txns
  PROVE  /\ CountsAt(At(t, 0)) = {t.in_num}
         /\ CountsAt(At(t, OutCountAt(t))) = {t.out_num}
<1>1. t # NoTxn
  BY TxnsAssumption
<1>2. \A n : At(t, n).txn = t /\ At(t, n).pos = n
  BY DEF At
<1>3. OutCountAt(t) # 0
  BY Layout
<1> QED
  BY <1>1, <1>2, <1>3 DEF CountsAt

\* The parts of Basics the decoder's branches need.
LEMMA DecoderRanges ==
  ASSUME DecoderTypeOK
  PROVE  /\ txn_state \in 0..5 /\ in_num \in 0..20
         /\ out_num \in 0..255 /\ curr_obj \in 0..255
         /\ buffer \in Place /\ dataBuffer \in Place
         /\ offset \in 0..36 /\ dataLength \in Nat /\ dataBuffer.pos \in Nat
         /\ sig_input \in [0..19 -> Item]
BY DEF DecoderTypeOK, Place

\* The cursor of each state, as a number.
LEMMA Cursors ==
  ASSUME DecoderTypeOK, NEW t \in Txns
  PROVE  /\ Cursor(t) \in Nat
         /\ txn_state = TXN_START_IN => Cursor(t) = 0
         /\ txn_state = TXN_IN => Cursor(t) = 4 + 36 * curr_obj
         /\ txn_state = TXN_START_OUT => Cursor(t) = 4 + 36 * t.in_num
         /\ txn_state = TXN_OUT => Cursor(t) = (8 + 36 * t.in_num) + 37 * curr_obj
<1>1. curr_obj \in Nat /\ t.in_num \in Nat
  BY Layout, DecoderRanges
<1>2. /\ 4 + 36 * curr_obj \in Nat /\ 4 + 36 * t.in_num \in Nat
      /\ (8 + 36 * t.in_num) + 37 * curr_obj \in Nat
  BY <1>1
<1> QED
  BY <1>2, Layout DEF Cursor

\* Saving happens only when nothing is saved: a packet that follows saved
\* bytes always completes their element.
LEMMA SavesOnce ==
  ASSUME DecoderTypeOK, Counters, NEW t \in Txns, Reads(t, dataBuffer), Completes(t),
         awaiting, result = NotThrown, Starved
  PROVE  offset = 0
<1> SUFFICES ASSUME offset > 0 PROVE FALSE
  BY DecoderRanges
<1> DEFINE n == t.in_num
           m == t.out_num
<1>0. /\ offset \in 0..36 /\ dataLength \in Nat /\ curr_obj \in 0..255
      /\ n \in 1..20 /\ m \in 1..255
  BY DecoderRanges, Layout
<1>1. \/ dataLength >= 37
      \/ ((Cursor(t) + offset) + dataLength) = (8 + 36 * n) + 37 * m
  BY Layout DEF Reads, Completes
<1>2. dataLength < 37
  BY <1>0 DEF Starved
<1>3. ((Cursor(t) + offset) + dataLength) = (8 + 36 * n) + 37 * m
  BY <1>0, <1>1, <1>2
<1>4. CASE txn_state = TXN_START_IN
  <2>1. Cursor(t) = 0 /\ offset + dataLength < 4
    BY <1>4, Cursors DEF Starved
  <2> HIDE DEF n, m
  <2> QED
    BY <1>0, <1>3, <2>1
<1>5. CASE txn_state = TXN_IN
  <2>1. Cursor(t) = 4 + 36 * curr_obj /\ offset + dataLength < 36 /\ curr_obj < n
    BY <1>5, Cursors DEF Starved, Counters, Reads
  <2> HIDE DEF n, m
  <2> QED
    BY <1>0, <1>3, <2>1
<1>6. CASE txn_state = TXN_START_OUT
  <2>1. Cursor(t) = 4 + 36 * n /\ offset < 4 /\ dataLength < 4
    BY <1>6, Cursors DEF Starved, Counters
  <2> HIDE DEF n, m
  <2> QED
    BY <1>0, <1>3, <2>1
<1>7. CASE txn_state = TXN_OUT
  <2>1. /\ Cursor(t) = (8 + 36 * n) + 37 * curr_obj /\ offset + dataLength < 37
        /\ curr_obj # out_num /\ curr_obj <= out_num /\ out_num = m
    BY <1>7, Cursors DEF Starved, Counters, Reads
  <2> HIDE DEF n, m
  <2> QED
    BY <1>0, <1>3, <2>1
<1> QED
  BY <1>4, <1>5, <1>6, <1>7 DEF Starved

\* Each branch that reads the transaction or saves its tail.
LEMMA DecodesOn ==
  ASSUME DecoderTypeOK, Counters, NEW t \in Txns, dataBuffer.txn = t,
         Reads(t, dataBuffer), Completes(t), awaiting,
         SavePartial \/ ReadInCount \/ ReadInput \/ ReadOutCount \/ ReadOutput
  PROVE  Reads(t, dataBuffer)' /\ Completes(t)'
<1>0. /\ txn_state \in 0..5 /\ in_num \in 0..20
      /\ out_num \in 0..255 /\ curr_obj \in 0..255
      /\ buffer \in Place /\ dataBuffer \in Place
      /\ offset \in 0..36 /\ dataLength \in Nat /\ dataBuffer.pos \in Nat
      /\ sig_input \in [0..19 -> Item]
      /\ t.in_num \in 1..20 /\ t.out_num \in 1..255 /\ Cursor(t) \in Nat
  BY DecoderRanges, Layout, Cursors
<1>1. /\ dataBuffer.pos = Cursor(t) + offset
      /\ offset > 0 => Advance(buffer, offset) = dataBuffer
      /\ hash = IF txn_state = TXN_START_IN THEN EmptyHash ELSE At(t, Cursor(t))
      /\ txn_state > TXN_START_IN => in_num = t.in_num
      /\ txn_state = TXN_OUT => out_num = t.out_num
      /\ \A i \in 0..InputsRead - 1 : sig_input[i] = Input(At(t, InputAt(i)))
      /\ txn_state = TXN_OUT /\ curr_obj = out_num => inner_hash = At(t, TxnLen(t))
  BY DEF Reads
<1>2. Element = At(t, Cursor(t))
  BY <1>0, <1>1, ElementAt
<1>3. ASSUME NEW n \in Nat PROVE Absorb(hash, Element, n) = At(t, Cursor(t) + n)
  BY <1>0, <1>1, <1>2, Cursors, AbsorbNext
<1>4. ASSUME NEW size \in Nat, read_data_to_buffer(size)
      PROVE  offset' = 0 /\ dataBuffer'.pos = Cursor(t) + size
  <2>1. dataBuffer' = Advance(dataBuffer, size - offset) /\ offset' = 0
    BY <1>4 DEF read_data_to_buffer
  <2>2. dataBuffer'.pos = dataBuffer.pos + (size - offset)
    BY <1>0, <2>1, AdvanceFields
  <2> QED
    BY <1>0, <1>1, <2>1, <2>2
<1>5. CASE SavePartial
  <2>1. offset = 0
    BY <1>5, SavesOnce DEF SavePartial, Running
  <2>2. /\ UNCHANGED <<txn_state, curr_obj, in_num, out_num, sig_input, hash, inner_hash>>
        /\ buffer' = dataBuffer /\ offset' = dataLength
        /\ dataBuffer' = Advance(dataBuffer, dataLength)
        /\ result' = TXN_PARTIAL
    BY <1>5 DEF SavePartial, save_data_to_buffer, Throw, txnVars
  <2>3. Cursor(t)' = Cursor(t) /\ InputsRead' = InputsRead
    BY <2>2 DEF Cursor, InputsRead
  <2>4. dataBuffer'.pos = Cursor(t)' + offset'
    BY <1>0, <1>1, <2>1, <2>2, <2>3, AdvanceFields
  <2>5. Reads(t, dataBuffer)'
    BY <1>1, <2>2, <2>3, <2>4 DEF Reads
  <2>6. Completes(t)'
    BY <2>2 DEF Completes
  <2> QED
    BY <2>5, <2>6
<1>6. CASE ReadInCount
  <2>1. /\ txn_state = TXN_START_IN /\ txn_state' = TXN_IN /\ curr_obj' = 0
        /\ read_data_to_buffer(COUNT_LEN) /\ hash' = Absorb(hash, Element, COUNT_LEN)
        /\ in_num' \in CountsAt(Element)
    BY <1>6 DEF ReadInCount
  <2>2. Cursor(t) = 0
    BY <2>1, Cursors
  <2>3. in_num' = t.in_num
    BY <1>2, <2>1, <2>2, CountsRead
  <2>4. hash' = At(t, 4) /\ offset' = 0 /\ dataBuffer'.pos = 4
    BY <1>3, <1>4, <2>1, <2>2
  <2>5. Cursor(t)' = 4 /\ InputsRead' = 0
    BY <2>1, Layout DEF Cursor, InputsRead
  <2> QED
    BY <2>1, <2>3, <2>4, <2>5 DEF Reads, Completes
<1>7. CASE ReadInput
  <2>1. /\ txn_state = TXN_IN /\ read_data_to_buffer(INPUT_LEN)
        /\ hash' = Absorb(hash, Element, INPUT_LEN)
        /\ sig_input' = [sig_input EXCEPT ![curr_obj] = Input(Element)]
        /\ curr_obj' = (curr_obj + 1) % 256
        /\ txn_state' = IF curr_obj' = in_num THEN TXN_START_OUT ELSE TXN_IN
        /\ UNCHANGED <<in_num, out_num, inner_hash>>
    BY <1>7 DEF ReadInput
  <2>2. curr_obj < in_num /\ in_num = t.in_num
    BY <1>1, <2>1 DEF Counters
  <2>3. curr_obj' = curr_obj + 1
    <3>1. curr_obj < 255
      BY <1>0, <2>2
    <3> QED
      BY <1>0, <2>1, <3>1, Wrap
  <2>4. Cursor(t) = 4 + 36 * curr_obj
    BY <2>1, Cursors
  <2>5. /\ hash' = At(t, Cursor(t) + 36) /\ offset' = 0
        /\ dataBuffer'.pos = Cursor(t) + 36
    BY <1>3, <1>4, <2>1
  <2>6. Cursor(t)' = Cursor(t) + 36 /\ InputsRead' = curr_obj + 1
    <3>1. /\ txn_state' = TXN_IN => Cursor(t)' = 4 + 36 * (curr_obj + 1)
          /\ txn_state' = TXN_START_OUT => Cursor(t)' = 4 + 36 * in_num
      BY <2>2, <2>3, Layout DEF Cursor
    <3>2. 4 + 36 * (curr_obj + 1) = (4 + 36 * curr_obj) + 36
      BY <1>0
    <3>3. Cursor(t)' = Cursor(t) + 36
      BY <2>1, <2>3, <2>4, <3>1, <3>2
    <3>4. InputsRead' = curr_obj + 1
      BY <2>1, <2>3 DEF InputsRead
    <3> QED
      BY <3>3, <3>4
  <2>7. \A i \in 0..InputsRead' - 1 : sig_input'[i] = Input(At(t, InputAt(i)))
    <3>1. InputsRead = curr_obj
      BY <2>1 DEF InputsRead
    <3>2. InputAt(curr_obj) = Cursor(t)
      BY <2>4, Layout
    <3>3. curr_obj \in DOMAIN sig_input
      BY <1>0, <2>2
    <3>4. sig_input'[curr_obj] = Input(At(t, InputAt(curr_obj)))
      BY <1>2, <2>1, <3>2, <3>3
    <3>5. ASSUME NEW i \in 0..curr_obj - 1
          PROVE  sig_input'[i] = Input(At(t, InputAt(i)))
      BY <1>0, <1>1, <2>1, <2>2, <3>1
    <3>6. \A i \in 0..(curr_obj + 1) - 1 : i = curr_obj \/ i \in 0..curr_obj - 1
      BY <1>0
    <3> QED
      BY <2>6, <3>4, <3>5, <3>6
  <2>8. dataBuffer'.pos = Cursor(t)' + offset'
    BY <1>0, <2>5, <2>6
  <2>9. hash' = At(t, Cursor(t)')
    BY <2>5, <2>6
  <2> QED
    BY <2>1, <2>2, <2>5, <2>7, <2>8, <2>9 DEF Reads, Completes
<1>8. CASE ReadOutCount
  <2>1. /\ txn_state = TXN_START_OUT /\ txn_state' = TXN_OUT /\ curr_obj' = 0
        /\ read_data_to_buffer(COUNT_LEN) /\ hash' = Absorb(hash, Element, COUNT_LEN)
        /\ out_num' \in CountsAt(Element)
        /\ UNCHANGED <<in_num, sig_input, inner_hash>>
    BY <1>8 DEF ReadOutCount
  <2>2. Cursor(t) = OutCountAt(t) /\ Cursor(t) = 4 + 36 * t.in_num
    BY <2>1, Cursors, Layout
  <2>3. out_num' = t.out_num
    BY <1>2, <2>1, <2>2, CountsRead
  <2>4. /\ hash' = At(t, Cursor(t) + 4) /\ offset' = 0
        /\ dataBuffer'.pos = Cursor(t) + 4
    BY <1>3, <1>4, <2>1
  <2>5. Cursor(t)' = Cursor(t) + 4 /\ InputsRead' = InputsRead
    <3>1. Cursor(t)' = (8 + 36 * t.in_num) + 37 * 0
      BY <2>1, Layout DEF Cursor
    <3>2. Cursor(t)' = Cursor(t) + 4
      BY <1>0, <2>2, <3>1
    <3>3. InputsRead' = InputsRead
      BY <2>1 DEF InputsRead
    <3> QED
      BY <3>2, <3>3
  <2>6. curr_obj' # out_num'
    BY <1>0, <2>1, <2>3
  <2>7. dataBuffer'.pos = Cursor(t)' + offset'
    BY <1>0, <2>4, <2>5
  <2>8. hash' = At(t, Cursor(t)')
    BY <2>4, <2>5
  <2>9. in_num = t.in_num
    BY <1>1, <2>1
  <2> QED
    BY <1>1, <2>1, <2>3, <2>4, <2>5, <2>6, <2>7, <2>8, <2>9 DEF Reads, Completes
<1>9. CASE ReadOutput
  <2> DEFINE next == Advance(dataBuffer, OUTPUT_LEN - offset)
             rest == dataLength - (OUTPUT_LEN - offset)
  <2>1. /\ txn_state = TXN_OUT /\ txn_state' = TXN_OUT
        /\ hash' = Absorb(hash, Element, OUTPUT_LEN)
        /\ curr_obj # out_num /\ curr_obj' = (curr_obj + 1) % 256
        /\ inner_hash' = IF curr_obj' = out_num THEN hash' ELSE inner_hash
        /\ UNCHANGED <<in_num, out_num, sig_input>>
        /\ \/ /\ buffer' = next /\ offset' = rest
              /\ dataBuffer' = Advance(next, rest)
              /\ result' = TXN_PARTIAL_OUT
           \/ dataBuffer' = next /\ offset' = 0
    BY <1>9 DEF ReadOutput, CannotHoldOutput, Throw
  <2>2. rest \in Nat /\ OUTPUT_LEN - offset \in Nat
    BY <1>0, <1>9 DEF ReadOutput, CannotHoldOutput, Starved
  <2>3. curr_obj < out_num /\ out_num = t.out_num
    <3>1. curr_obj <= out_num
      BY <2>1 DEF Counters
    <3>2. out_num = t.out_num
      BY <1>1, <2>1
    <3>3. curr_obj \in Nat /\ out_num \in Nat
      BY <1>0
    <3>4. curr_obj # out_num
      BY <2>1
    <3> QED
      BY <3>1, <3>2, <3>3, <3>4
  <2>4. curr_obj' = curr_obj + 1
    <3>1. curr_obj \in 0..255 /\ out_num \in 0..255
      BY <1>0
    <3>2. curr_obj < 255
      BY <2>3, <3>1
    <3>3. curr_obj' = (curr_obj + 1) % 256
      BY <2>1
    <3> QED
      BY <3>1, <3>2, <3>3, Wrap
  <2>5. Cursor(t) = (8 + 36 * t.in_num) + 37 * curr_obj
    BY <2>1, Cursors
  <2>6. Cursor(t)' = Cursor(t) + 37 /\ InputsRead' = InputsRead
    <3>1. Cursor(t)' = (8 + 36 * t.in_num) + 37 * (curr_obj + 1)
      BY <2>1, <2>4, Layout DEF Cursor
    <3>2. Cursor(t)' = Cursor(t) + 37
      BY <1>0, <2>5, <3>1
    <3>3. InputsRead' = InputsRead
      BY <2>1 DEF InputsRead
    <3> QED
      BY <3>2, <3>3
  <2>7. hash' = At(t, Cursor(t)')
    BY <1>3, <2>1, <2>6
  <2>8. next \in Place /\ next.pos = Cursor(t)'
    <3>1. next \in Place /\ next.pos = dataBuffer.pos + (OUTPUT_LEN - offset)
      BY <1>0, <2>2, AdvanceType
    <3> QED
      BY <1>0, <1>1, <2>6, <3>1
  <2>9. /\ dataBuffer'.pos = Cursor(t)' + offset'
        /\ offset' > 0 => Advance(buffer', offset') = dataBuffer'
    <3>1. Advance(next, rest).pos = next.pos + rest
      BY <2>8, AdvanceFields
    <3>2. Cursor(t)' \in Nat
      BY <1>0, <2>6
    <3> HIDE DEF next, rest
    <3> QED
      BY <2>1, <2>2, <2>8, <3>1, <3>2
  <2>10. curr_obj' = out_num' => inner_hash' = At(t, TxnLen(t))
    <3> SUFFICES ASSUME curr_obj' = out_num' PROVE inner_hash' = At(t, TxnLen(t))
      OBVIOUS
    <3>1. Cursor(t)' = OutputAt(t, curr_obj')
      BY <2>1 DEF Cursor
    <3>2. curr_obj' = t.out_num
      BY <2>1, <2>3
    <3>3. Cursor(t)' = TxnLen(t)
      BY <3>1, <3>2 DEF TxnLen
    <3>4. inner_hash' = hash'
      BY <2>1
    <3> QED
      BY <2>7, <3>3, <3>4
  <2>11. Reads(t, dataBuffer)'
    BY <1>1, <2>1, <2>3, <2>6, <2>7, <2>9, <2>10 DEF Reads
  <2>12. Completes(t)'
    <3>1. offset' = 0 \/ result' = TXN_PARTIAL_OUT
      BY <2>1
    <3> QED
      BY <3>1 DEF Completes
  <2> QED
    BY <2>11, <2>12
<1> QED
  BY <1>5, <1>6, <1>7, <1>8, <1>9

-----------------------------------------------------------------------------
(* Fourth layer: the session.                                              *)

\* Once all outputs are read, what has been read is one whole transaction.
LEMMA ReadyIsWhole ==
  ASSUME DecoderTypeOK, NEW t \in Txns, dataBuffer.txn = t, Reads(t, dataBuffer),
         dataBuffer.pos + dataLength <= TxnLen(t), OutputsRead
  PROVE  offset' = 0 /\ SignsOneWholeTransaction'
<1>0. /\ txn_state = TXN_OUT /\ curr_obj = out_num /\ txn_state' = TXN_COMPUTE_SIGS
      /\ UNCHANGED <<offset, in_num, out_num, sig_input, inner_hash>>
  BY DEF OutputsRead, txnVars, dataVars
<1>1. /\ inner_hash = At(t, TxnLen(t)) /\ in_num = t.in_num /\ out_num = t.out_num
      /\ \A i \in 0..in_num - 1 : sig_input[i] = Input(At(t, InputAt(i)))
  BY <1>0 DEF Reads, InputsRead
<1>2. offset' = 0
  <2>1. Cursor(t) = TxnLen(t)
    BY <1>0, <1>1 DEF Cursor, TxnLen
  <2>2. TxnLen(t) \in Nat /\ offset \in Nat /\ dataLength \in Nat
    BY TxnLenType, DecoderRanges
  <2>3. (TxnLen(t) + offset) + dataLength <= TxnLen(t)
    BY <2>1 DEF Reads
  <2> QED
    BY <1>0, <2>2, <2>3
<1>3. inner_hash.txn = t /\ t # NoTxn
  BY <1>1, TxnLenType DEF At
<1> QED
  BY <1>0, <1>1, <1>2, <1>3 DEF SignsOneWholeTransaction

\* Every slot of an input becomes that of its signature.
LEMMA SignsSlots ==
  ASSUME DecoderTypeOK, initialized, SignsOneWholeTransaction, ComputeSigs
  PROVE  SignsOneWholeTransaction'
<1> DEFINE t == inner_hash.txn
<1>0. /\ txn_state = TXN_COMPUTE_SIGS /\ txn_state' = TXN_RET_SIGS
      /\ sig_input' = [i \in DOMAIN sig_input |->
                        IF i < in_num THEN Sign(inner_hash, sig_input[i])
                        ELSE sig_input[i]]
      /\ UNCHANGED <<in_num, out_num, inner_hash>>
  BY DEF ComputeSigs
<1>1. /\ t # NoTxn /\ inner_hash = At(t, TxnLen(t))
      /\ in_num = t.in_num /\ out_num = t.out_num
      /\ \A i \in 0..in_num-1 : sig_input[i] = Input(At(t, InputAt(i)))
  BY <1>0 DEF SignsOneWholeTransaction, Signing
<1>2. in_num \in 0..20 /\ DOMAIN sig_input = 0..19
  BY DecoderRanges
<1>3. ASSUME NEW p PROVE Sign(inner_hash, Input(p)) = Signature(inner_hash, p)
  BY DEF Sign, Input
<1>4. ASSUME NEW i \in 0..in_num - 1
      PROVE  sig_input'[i] = Signature(inner_hash, At(t, InputAt(i)))
  <2>1. i \in DOMAIN sig_input /\ i < in_num
    BY <1>2
  <2> HIDE DEF t
  <2>2. sig_input'[i] = Sign(inner_hash, sig_input[i])
    BY <1>0, <2>1
  <2> QED
    BY <1>1, <1>3, <2>2
<1> HIDE DEF t
<1>5. t = inner_hash'.txn
  BY <1>0 DEF t
<1> QED
  BY <1>0, <1>1, <1>4, <1>5 DEF SignsOneWholeTransaction

LEMMA DecoderProgress ==
  ASSUME Basics, Exchanges, Feed, Progress, txn_next_elem, awaiting' = awaiting
  PROVE  Progress'
<1>0. DecoderTypeOK /\ Counters /\ txn_state \in 0..5 /\ initialized /\ Running /\ awaiting
  BY DecoderSteps DEF Basics, TypeOK, SignTypeOK, DecoderTypeOK, Exchanges, Running
<1>1. PICK t \in Txns : t = dataBuffer.txn
  BY <1>0 DEF Feed
<1>2. txn_state < TXN_COMPUTE_SIGS => Reads(t, dataBuffer) /\ Completes(t)
  BY <1>0, <1>1 DEF Progress, Decoding
<1>3. CASE SavePartial \/ ReadInCount \/ ReadInput \/ ReadOutCount \/ ReadOutput
  <2>1. txn_state < TXN_COMPUTE_SIGS /\ txn_state' < TXN_COMPUTE_SIGS
    BY <1>3 DEF SavePartial, Starved, ReadInCount, ReadInput, ReadOutCount, ReadOutput, CannotHoldOutput
  <2>2. Reads(t, dataBuffer)' /\ Completes(t)'
    BY <1>0, <1>1, <1>2, <1>3, <2>1, DecodesOn
  <2>3. dataBuffer'.txn = t
    BY <1>0, <1>1, NoByteSkipped
  <2>4. Reads(dataBuffer.txn, dataBuffer)' /\ Completes(dataBuffer.txn)'
    BY <2>2, <2>3 DEF Reads, Completes, Cursor
  <2>5. ~Signing'
    BY <2>1 DEF Signing
  <2> QED
    BY <1>0, <2>4, <2>5 DEF Progress, SignsOneWholeTransaction
<1>4. CASE OutputsRead
  <2>1. txn_state = TXN_OUT /\ txn_state' = TXN_COMPUTE_SIGS
    BY <1>4 DEF OutputsRead
  <2>2. dataBuffer.pos + dataLength <= TxnLen(t)
    BY <1>0, <1>1 DEF Feed
  <2>3. offset' = 0 /\ SignsOneWholeTransaction'
    BY <1>0, <1>1, <1>2, <1>4, <2>1, <2>2, ReadyIsWhole
  <2> QED
    BY <2>1, <2>3 DEF Progress, Decoding
<1>5. CASE ComputeSigs
  <2>1. txn_state = TXN_COMPUTE_SIGS /\ txn_state' = TXN_RET_SIGS /\ offset' = offset
    BY <1>5 DEF ComputeSigs, dataVars
  <2>2. SignsOneWholeTransaction'
    BY <1>0, <1>5, SignsSlots DEF Progress
  <2>3. offset = 0
    BY <1>0, <2>1 DEF Progress, Signing
  <2> QED
    BY <2>1, <2>2, <2>3 DEF Progress, Decoding
<1>6. CASE ReturnSig \/ ResponseFull
  <2>1. /\ txn_state = TXN_RET_SIGS
        /\ UNCHANGED <<initialized, txn_state, offset, in_num, out_num, sig_input,
                       inner_hash>>
    BY <1>6 DEF ReturnSig, ResponseFull, txnVars, dataVars
  <2>2. Signing /\ ~Decoding' /\ Signing'
    BY <1>0, <2>1 DEF Signing, Decoding
  <2> QED
    BY <2>1, <2>2 DEF Progress, SignsOneWholeTransaction
<1>7. CASE SigsReturned
  BY <1>7 DEF SigsReturned, Progress, Decoding, Signing, SignsOneWholeTransaction
<1> QED
  BY <1>3, <1>4, <1>5, <1>6, <1>7 DEF txn_next_elem

\* A packet that is used up ends where the script goes on.
LEMMA UsedUp ==
  ASSUME Basics, Feed, awaiting, Served, dataLength = 0
  PROVE  dataBuffer = At(txn, sent) /\ dataBuffer.txn = txn
<1>1. /\ dataBuffer \in Place /\ dataBuffer.pos \in Nat
      /\ dataBuffer.txn = txn /\ dataBuffer.pos + dataLength = sent
  BY DecoderRanges DEF Feed, Basics, TypeOK, SignTypeOK
<1> QED
  BY <1>1, SamePlace

\* Progress as long as the decoder stands still.
LEMMA ProgressKept ==
  ASSUME Basics, Feed, Progress, Exchanges',
         UNCHANGED <<txn_state, curr_obj, txnVars, dataVars>>,
         UNCHANGED <<txn, sent>>,
         initialized' => initialized,
         awaiting' => awaiting,
         Served' => Served,
         Decoding' /\ ~awaiting /\ Fed' /\ Served' => Fed,
         Decoding' /\ awaiting' /\ result' = NotThrown =>
           result = NotThrown \/ offset = 0
  PROVE  Progress'
<1>0. /\ UNCHANGED <<txn_state, curr_obj, in_num, out_num, sig_input, hash, inner_hash>>
      /\ UNCHANGED <<buffer, offset, dataBuffer, dataLength, txn, sent>>
  BY DEF txnVars, dataVars
<1>1. (Decoding' => Decoding) /\ (Signing' => Signing)
  BY <1>0 DEF Decoding, Signing
<1>2. ASSUME Decoding', awaiting' PROVE Reads(dataBuffer.txn, dataBuffer)'
  <2>1. Reads(dataBuffer.txn, dataBuffer)
    BY <1>1, <1>2 DEF Progress
  <2> QED
    BY <1>0, <2>1 DEF Reads, Cursor, InputsRead
<1>3. ASSUME Decoding', awaiting' PROVE Completes(dataBuffer.txn)'
  BY <1>0, <1>1, <1>3 DEF Progress, Completes
<1>4. ASSUME Signing' PROVE offset' = 0 /\ SignsOneWholeTransaction'
  BY <1>0, <1>1, <1>4 DEF Progress, SignsOneWholeTransaction
<1>5. ASSUME Decoding', Fed', Served' PROVE Reads(txn, At(txn, sent))'
  <2>1. Reads(txn, At(txn, sent))
    <3>1. CASE awaiting
      <4>1. dataLength = 0
        BY <1>0, <1>5 DEF Exchanges
      <4>2. dataBuffer = At(txn, sent) /\ dataBuffer.txn = txn
        BY <1>5, <3>1, <4>1, UsedUp
      <4>3. Reads(dataBuffer.txn, dataBuffer)
        BY <1>1, <1>5, <3>1 DEF Progress
      <4> QED
        BY <4>2, <4>3
    <3>2. CASE ~awaiting
      BY <1>1, <1>5, <3>2 DEF Progress
    <3> QED
      BY <3>1, <3>2
  <2> QED
    BY <1>0, <2>1 DEF Reads, Cursor, InputsRead
<1> QED
  BY <1>2, <1>3, <1>4, <1>5 DEF Progress, SignsOneWholeTransaction

\* The next packet goes on where the unread bytes ended: the reading place of
\* the decoder does not move, and the packet completes what is saved.
LEMMA SendProgress ==
  ASSUME Basics, Exchanges, Feed, Progress, HostSend
  PROVE  Progress'
<1> DEFINE len == Least(Chunk, TxnLen(txn) - sent)
           p1  == IF sent = 0 THEN 0 ELSE 1
<1>0. /\ DecoderTypeOK /\ Control /\ result \in 0..5 /\ Active
      /\ txn \in Txns /\ sent \in Nat /\ sent <= TxnLen(txn)
  BY DEF HostSend, Active, Basics, TypeOK, SignTypeOK, DecoderTypeOK, HostTypeOK
<1>1. /\ handleSignTxn(p1, At(txn, sent), len)
      /\ host \in {"streaming", "collecting"}
  BY DEF HostSend
<1>2. len \in Nat /\ (len >= OUTPUT_LEN \/ sent + len = TxnLen(txn))
  BY <1>0, TxnLenType, SessionAssumption DEF Least
<1>3. p1 = 1 => sent > 0
  BY <1>0
<1> HIDE DEF len, p1
<1>4. CASE Offer(p1, At(txn, sent), len) \/ Refuse(p1, At(txn, sent), len)
  <2>1. ~initialized'
    BY <1>4 DEF Offer, Refuse
  <2> QED
    BY <2>1 DEF Progress, Decoding, Signing, SignsOneWholeTransaction
<1>5. CASE Decode(p1, At(txn, sent), len) \/ Redisplay(p1, At(txn, sent), len)
  <2>1. /\ initialized /\ initialized' /\ p1 = 1 /\ caller = "none"
        /\ dataBuffer' = At(txn, sent) /\ dataLength' = len
        /\ UNCHANGED <<txn_state, curr_obj, txnVars, buffer, offset>>
    BY <1>5 DEF Decode, Redisplay, TakePacket, Idle
  <2>2. UNCHANGED <<in_num, out_num, sig_input, hash, inner_hash>>
    BY <2>1 DEF txnVars
  <2>3. Signing' => Signing
    BY <2>1 DEF Signing
  <2>4. Signing' => offset' = 0 /\ SignsOneWholeTransaction'
    BY <2>1, <2>2, <2>3 DEF Progress, SignsOneWholeTransaction
  <2>5. ASSUME Decoding' PROVE Reads(dataBuffer.txn, dataBuffer)' /\ Completes(dataBuffer.txn)'
    <3>1. Decoding /\ sent > 0
      BY <1>3, <2>1, <2>5 DEF Decoding
    <3>2. Fed /\ Served /\ ~awaiting
      BY <1>0, <1>1, <3>1 DEF Exchanges, Fed, Served
    <3>3. Reads(txn, At(txn, sent))
      BY <3>1, <3>2 DEF Progress
    <3>4. dataBuffer'.txn = txn /\ dataBuffer'.pos = sent
      BY <1>0, <2>1, AtType
    <3>5. Reads(dataBuffer.txn, dataBuffer)'
      BY <2>1, <2>2, <3>3, <3>4 DEF Reads, Cursor, InputsRead
    <3>6. Completes(dataBuffer.txn)'
      BY <1>2, <2>1, <3>4 DEF Completes
    <3> QED
      BY <3>5, <3>6
  <2>6. awaiting'
    BY <1>5 DEF Decode, Redisplay
  <2> QED
    BY <2>4, <2>5, <2>6 DEF Progress, SignsOneWholeTransaction
<1> QED
  BY <1>1, <1>4, <1>5 DEF handleSignTxn

\* Accepting a transaction starts reading it from its first byte.
LEMMA PressProgress ==
  ASSUME ~Eager, Basics, Exchanges, Exchanges', Feed, Progress, UserPressesRight
  PROVE  Progress'
<1>0. /\ Control /\ result \in 0..5
      /\ awaiting /\ awaiting' /\ Idle /\ initialized' /\ result = NotThrown
      /\ UNCHANGED <<in_num, out_num, curr_obj, sig_input, inner_hash, buffer,
                     dataBuffer, dataLength>>
  BY DEF Basics, TypeOK, SignTypeOK, DecoderTypeOK, UserPressesRight, MayPress,
         PressRight, Control, Idle, ioVars
<1>a. UNCHANGED <<txn, sent>> /\ Served' = Served
  BY DEF UserPressesRight, hostVars, Served, Active
<1>1. CASE initialized
  <2>1. UNCHANGED <<hash, txn_state, offset, cur_output>>
    BY <1>1 DEF UserPressesRight, PressRight
  <2>2. UNCHANGED <<txn_state, curr_obj, txnVars, dataVars>>
    BY <1>0, <2>1 DEF txnVars, dataVars
  <2> QED
    BY <1>0, <1>a, <1>1, <2>2, ProgressKept
<1>2. CASE ~initialized
  <2>1. hash' = EmptyHash /\ txn_state' = TXN_START_IN /\ offset' = 0
    BY <1>2 DEF UserPressesRight, PressRight
  <2>2. dataBuffer.pos = 0
    BY <1>0, <1>2 DEF Feed
  <2>3. Reads(dataBuffer.txn, dataBuffer)'
    BY <1>0, <2>1, <2>2 DEF Reads, Cursor, InputsRead
  <2>4. Completes(dataBuffer.txn)' /\ ~Signing'
    BY <2>1 DEF Completes, Signing
  <2> QED
    BY <1>0, <2>3, <2>4 DEF Progress, SignsOneWholeTransaction
<1> QED
  BY <1>1, <1>2

LEMMA NextProgress ==
  ASSUME ~Eager, Basics, Exchanges, Exchanges', Feed, Progress, [Next]_vars
  PROVE  Progress'
<1>0. Control
  BY DEF Basics
<1>a. ASSUME UNCHANGED decoderVars, UNCHANGED <<txn, sent>>, awaiting' => awaiting,
             Served' => Served, ~awaiting /\ Fed' /\ Served' => Fed
      PROVE  Progress'
  <2>1. UNCHANGED <<txn_state, curr_obj, txnVars, dataVars, initialized, result>>
    BY <1>a DEF decoderVars
  <2> QED
    BY <1>a, <2>1, ProgressKept
<1>1. CASE DeviceComputes
  <2>0. UNCHANGED <<txn, sent>> /\ Served' = Served
    BY <1>1 DEF DeviceComputes, hostVars, Served, Active
  <2>1. CASE txn_next_elem /\ UNCHANGED ioVars
    BY <2>1, DecoderProgress DEF ioVars
  <2>2. CASE HandlerReturns
    <3>1. /\ UNCHANGED <<txn_state, curr_obj, txnVars, dataVars>>
          /\ initialized' => initialized
          /\ awaiting /\ (awaiting' => awaiting)
          /\ result # TXN_APPROVE_OUT => awaiting' = FALSE
      BY <2>2 DEF HandlerReturns, HandlerShowsOutput, HandlerFinishes, HandlerContinues,
                  ReturnToMain, io_async_exchange_ok, io_exchange_with_code, Exchanges
    <3>2. Decoding' /\ awaiting' => offset = 0
      BY <3>1 DEF Exchanges, Decoding
    <3> QED
      BY <2>0, <3>1, <3>2, ProgressKept
  <2>3. CASE ButtonReturns
    <3>0. caller = "button"
      BY <2>3 DEF ButtonReturns, ButtonContinues, ButtonShowsOutput,
         ButtonShowsAndContinues, ButtonReleases, ButtonFinishes, ReturnFromButton
    <3>1. /\ UNCHANGED <<txn_state, curr_obj, txnVars, dataVars, initialized>>
          /\ awaiting /\ (awaiting' => awaiting)
          /\ result # TXN_APPROVE_OUT => awaiting' = FALSE
      BY <1>0, <2>3, <3>0 DEF Control, Exchanges, ButtonReturns, ButtonContinues,
         ButtonShowsOutput, ButtonShowsAndContinues, ButtonReleases, ButtonFinishes,
         ReturnFromButton, io_async_exchange_ok, io_exchange_with_code
    <3>2. Decoding' /\ awaiting' => offset = 0
      BY <3>1 DEF Exchanges, Decoding
    <3> QED
      BY <2>0, <3>1, <3>2, ProgressKept
  <2> QED
    BY <1>1, <2>1, <2>2, <2>3 DEF DeviceComputes, Compute
<1>2. CASE HostSend
  BY <1>2, SendProgress
<1>3. CASE UserPressesRight
  BY <1>3, PressProgress
<1>4. CASE HostStart
  <2>1. /\ UNCHANGED <<initialized, txn_state, curr_obj, txnVars, dataVars, result, awaiting>>
        /\ ~Served'
    BY <1>4 DEF HostStart, signVars, decoderVars, ioVars, Served
  <2>2. /\ UNCHANGED <<in_num, out_num, sig_input, hash, inner_hash>>
        /\ UNCHANGED <<buffer, offset, dataBuffer, dataLength>>
    BY <2>1 DEF txnVars, dataVars
  <2>3. (Decoding' = Decoding) /\ (Signing' = Signing)
    BY <2>1 DEF Decoding, Signing
  <2>4. Decoding' /\ awaiting' => Reads(dataBuffer.txn, dataBuffer)'
    BY <2>1, <2>2, <2>3 DEF Progress, Reads, Cursor, InputsRead
  <2>5. Decoding' /\ awaiting' => Completes(dataBuffer.txn)'
    BY <2>1, <2>2, <2>3 DEF Progress, Completes
  <2>6. Signing' => offset' = 0 /\ SignsOneWholeTransaction'
    BY <2>1, <2>2, <2>3 DEF Progress, SignsOneWholeTransaction
  <2> QED
    BY <2>1, <2>4, <2>5, <2>6 DEF Progress, SignsOneWholeTransaction
<1>5. CASE HostReceive
  <2>1. /\ UNCHANGED decoderVars /\ UNCHANGED <<txn, sent, awaiting>> /\ Waiting
        /\ reply.sw = INS_RET_SUCCESS \/ host' = "failed"
    BY <1>5 DEF HostReceive
  <2>2. (Served' => Served) /\ (Served' => Fed)
    BY <2>1 DEF Served, Active, Waiting, Fed
  <2> QED
    BY <1>a, <2>1, <2>2
<1>6. CASE UserPressesLeft
  BY <1>6, <1>a DEF UserPressesLeft, PressLeft, io_async_exchange_error,
                    io_exchange_with_code, MayPress, hostVars, Served, Active
<1>7. CASE UserDismisses
  BY <1>7, <1>a DEF UserDismisses, DismissMessage, ioVars, hostVars, Served, Active,
                    decoderVars, Fed
<1>8. CASE HostDies
  BY <1>8, <1>a DEF HostDies, Served, Active
<1>9. CASE DeviceRestarts
  BY <1>9 DEF DeviceRestarts, Progress, Decoding, Signing, SignsOneWholeTransaction
<1>10. CASE UNCHANGED vars
  BY <1>10, <1>a DEF vars, signVars, ioVars, hostVars, Served, Active, decoderVars, Fed
<1> QED
  BY <1>1, <1>2, <1>3, <1>4, <1>5, <1>6, <1>7, <1>8, <1>9, <1>10 DEF Next

LEMMA InitProgress == Init => Exchanges /\ Feed /\ Progress
<1>1. Init => Exchanges
  BY DEF Init, SignInit, DecoderInit, Exchanges, Decoding
<1>2. Init => Feed
  BY DEF Init, SignInit, DecoderInit, Feed
<1>3. Init => Progress
  BY DEF Init, SignInit, DecoderInit, Progress, Decoding, Signing,
         SignsOneWholeTransaction
<1> QED
  BY <1>1, <1>2, <1>3

\* The layers of a user who is not Eager, together.
LEMMA SessionProgress ==
  ASSUME ~Eager
  PROVE  Spec => [](Basics /\ Exchanges /\ Feed /\ Progress)
<1> DEFINE IInv == Basics /\ Exchanges /\ Feed /\ Progress
<1>1. IInv /\ [Next]_vars => IInv'
  BY NextBasics, NextExchanges, NextFeed, NextProgress
<1> QED
  BY <1>1, InitBasics, InitProgress, PTL DEF Spec

\* No saved byte is ever joined to any but the one that follows it.
LEMMA JoinsPackets ==
  ASSUME Basics, Exchanges, Progress
  PROVE  SavedBytesPrecedePacket
<1> SUFFICES ASSUME Running, offset > 0
             PROVE  Advance(buffer, offset) = dataBuffer
  BY DEF SavedBytesPrecedePacket
<1>1. initialized /\ txn_state \in 0..5
  BY DEF Basics, Control, TypeOK, SignTypeOK, DecoderTypeOK
<1>2. ~Signing
  BY DEF Progress
<1>3. Decoding /\ awaiting
  BY <1>1, <1>2 DEF Decoding, Signing, Exchanges, Running
<1> QED
  BY <1>3 DEF Progress, Reads

\* For every transaction, packet size and fault: as long as the user presses
\* only while a command waits, every signature of the device is over the inner
\* hash of one whole transaction and stands in the slot of its own input.
THEOREM SessionSignsWhole == ~Eager => (Spec => []SignsOneWholeTransaction)
<1> SUFFICES ASSUME ~Eager PROVE Spec => []SignsOneWholeTransaction
  OBVIOUS
<1>1. Basics /\ Exchanges /\ Feed /\ Progress => SignsOneWholeTransaction
  BY DEF Progress
<1> QED
  BY <1>1, SessionProgress, PTL

\* And the bytes saved from a packet are always joined to the ones that follow.
THEOREM SessionJoinsPackets == ~Eager => (Spec => []SavedBytesPrecedePacket)
<1> SUFFICES ASSUME ~Eager PROVE Spec => []SavedBytesPrecedePacket
  OBVIOUS
<1>1. Basics /\ Exchanges /\ Feed /\ Progress => SavedBytesPrecedePacket
  BY JoinsPackets
<1> QED
  BY <1>1, SessionProgress, PTL
=============================================================================
