----------------------- MODULE SigningSession_proofs -----------------------
(***************************************************************************)
(* Proofs about SigningSession.                                            *)
(***************************************************************************)
EXTENDS SigningInvariants, TLAPS

USE DEF COUNT_LEN, INPUT_LEN, OUTPUT_LEN, MAX_INPUTS, HASH_LEN, SIG_LEN,
        APDU_LEN,
        TXN_START_IN, TXN_IN, TXN_START_OUT, TXN_OUT, TXN_COMPUTE_SIGS,
        TXN_RET_SIGS,
        NotThrown, TXN_PARTIAL, TXN_PARTIAL_OUT, TXN_APPROVE_OUT, TXN_READY,
        TXN_FINISHED

-----------------------------------------------------------------------------
(* Places and elements.                                                    *)

\* The constants that stand for no byte and for no hash are places.
LEMMA NoPlaces == Garbled \in Place /\ EmptyHash \in Place
BY DEF Garbled, EmptyHash, Place

\* Advancing a place, and the place of a byte of a transaction.
LEMMA AdvanceType ==
  ASSUME NEW p \in Place, NEW n \in Nat
  PROVE  /\ Advance(p, n) \in Place
         /\ Advance(p, n).txn = p.txn
         /\ Advance(p, n).pos = p.pos + n
BY DEF Advance, Place

LEMMA AtType ==
  ASSUME NEW t \in Txns \cup {NoTxn}, NEW n \in Nat
  PROVE  /\ At(t, n) \in Place
         /\ At(t, n).txn = t
         /\ At(t, n).pos = n
BY DEF At, Place

\* The element the decoder assembles is a place.
LEMMA ElementType ==
  ASSUME buffer \in Place, dataBuffer \in Place
  PROVE  Element \in Place
BY NoPlaces DEF Element

\* Hashing an element gives a place, and so does the hash of misplaced bytes.
LEMMA AbsorbType ==
  ASSUME NEW h, NEW e \in Place, NEW n \in Nat
  PROVE  Absorb(h, e, n) \in Place
BY NoPlaces, AdvanceType DEF Absorb

\* Counts read by the decoder are those of a transaction or misread ones.
LEMMA CountsAtType ==
  ASSUME NEW e \in Place
  PROVE  CountsAt(e) \subseteq 1..255
<1>1. e.txn # NoTxn => e.txn.in_num \in 1..255 /\ e.txn.out_num \in 1..255
  <2>1. e.txn \in Txns \cup {NoTxn}
    BY DEF Place
  <2> QED
    BY <2>1, TxnsAssumption
<1>2. Junk \subseteq 1..255
  BY TxnsAssumption
<1> QED
  BY <1>1, <1>2 DEF CountsAt

\* Inputs, signatures and hashes are what a response is made of.
LEMMA ItemType ==
  ASSUME NEW p \in Place, NEW h \in Place, NEW s \in Item
  PROVE  /\ Input(p) \in Item
         /\ HashItem(h) \in Item
         /\ Sign(h, s) \in Item
BY NoPlaces DEF Input, HashItem, Sign, Signature, Item

-----------------------------------------------------------------------------
(* First layer.                                                            *)

\* Answers to the host are of the type of reply.
LEMMA ReplyType ==
  /\ NoReply \in Replies
  /\ \A sw \in {INS_RET_SUCCESS, SW_ERROR}, d \in Seq(Item), n \in Nat :
       Reply(sw, d, n) \in Replies
BY DEF NoReply, Reply, Replies

\* And so is what an answer leaves in reply.
LEMMA ExchangeType ==
  ASSUME NEW sw \in {INS_RET_SUCCESS, SW_ERROR}, NEW d \in Seq(Item), NEW n \in Nat,
         reply \in Replies, io_exchange_with_code(sw, d, n)
  PROVE  reply' \in Replies /\ awaiting' \in BOOLEAN
<1>1. awaiting' \in BOOLEAN
  <2>1. awaiting' = FALSE
    BY DEF io_exchange_with_code
  <2> QED
    BY <2>1, Zenon
<1>2. CASE awaiting
  BY <1>1, <1>2, ReplyType DEF io_exchange_with_code
<1>3. CASE ~awaiting
  BY <1>1, <1>3 DEF io_exchange_with_code
<1> QED
  BY <1>2, <1>3

\* The initial state has the types and counters of the first layer.
LEMMA InitBasics == Init => Basics
<1> SUFFICES ASSUME Init PROVE Basics
  OBVIOUS
<1>1. Input(Garbled) \in Item
  BY NoPlaces DEF Input, Item
<1>2. sig_input \in [0..MAX_INPUTS-1 -> Item]
  BY <1>1 DEF Init, SignInit, DecoderInit
<1>3. DecoderTypeOK
  <2>1. /\ initialized = FALSE /\ txn_state = TXN_START_IN
        /\ in_num = 0 /\ out_num = 0 /\ curr_obj = 0
        /\ cur_output = Garbled /\ hash = Garbled /\ inner_hash = Garbled
        /\ buffer = Garbled /\ offset = 0
        /\ dataBuffer = Garbled /\ dataLength = 0
        /\ response = <<>> /\ tx = 0
        /\ caller = "none" /\ result = NotThrown
    BY DEF Init, SignInit, DecoderInit
  <2>2. response \in Seq(Item)
    BY <2>1
  <2>3. initialized \in BOOLEAN
    BY <2>1
  <2> QED
    BY <1>2, <2>1, <2>2, <2>3, NoPlaces DEF DecoderTypeOK
<1>4. NoReply \in Replies
  BY ReplyType
<1>5. SignTypeOK
  <2>1. screen = "menu" /\ shown = Garbled /\ awaiting = FALSE /\ reply = NoReply
    BY DEF Init, SignInit
  <2>2. awaiting \in BOOLEAN
    BY <2>1
  <2> QED
    BY <1>3, <1>4, <2>1, <2>2, NoPlaces DEF SignTypeOK
<1>6. TypeOK
  <2>1. /\ host = "done" /\ txn = NoTxn
        /\ sent = 0 /\ ret = <<>> /\ got = 0 /\ sessions = 0
        /\ confirmed = 0 /\ seen = {} /\ cancelled = FALSE
    BY DEF Init
  <2>2. ret \in Seq(Item) /\ ~Active /\ sessions \in 0..MaxSessions
    BY <2>1, SessionAssumption DEF Active
  <2>3. cancelled \in BOOLEAN
    BY <2>1
  <2> QED
    BY <1>5, <2>1, <2>2, <2>3 DEF TypeOK, HostTypeOK, HistoryTypeOK
<1>7. Counters /\ Control
  BY DEF Counters, Control, Running, Init, SignInit, DecoderInit
<1> QED
  BY <1>6, <1>7 DEF Basics

\* Arithmetic on the 8-bit counter.
LEMMA Wrap ==
  ASSUME NEW n \in 0..255
  PROVE  /\ (n + 1) % 256 \in 0..255
         /\ n < 255 => (n + 1) % 256 = n + 1
OBVIOUS

\* An iteration of the decoder keeps the types of its variables and the
\* meaning of its counters.
LEMMA DecoderCounters ==
  ASSUME DecoderTypeOK, Counters, txn_next_elem
  PROVE  DecoderTypeOK' /\ Counters'
<1>1. CASE SavePartial
  <2>1. Advance(dataBuffer, dataLength) \in Place
    BY AdvanceType DEF DecoderTypeOK
  <2> QED
    BY <1>1, <2>1, SMTT(30) DEF SavePartial, save_data_to_buffer, Starved, Throw, Counters,
                      txnVars, outVars, DecoderTypeOK
<1>2. CASE ReadInCount
  <2>1. CountsAt(Element) \subseteq 1..255 /\ Absorb(hash, Element, COUNT_LEN) \in Place
    BY ElementType, AbsorbType, CountsAtType DEF DecoderTypeOK
  <2>2. offset < COUNT_LEN /\ offset + dataLength >= COUNT_LEN
    BY <1>2 DEF ReadInCount, Starved, Counters, DecoderTypeOK
  <2>3. COUNT_LEN - offset \in Nat /\ dataLength - (COUNT_LEN - offset) \in Nat
    BY <2>2 DEF DecoderTypeOK
  <2>4. Advance(dataBuffer, COUNT_LEN - offset) \in Place
    BY <2>3, AdvanceType DEF DecoderTypeOK
  <2> QED
    BY <1>2, <2>1, <2>3, <2>4, SMTT(30)
       DEF ReadInCount, read_data_to_buffer, Counters, outVars, DecoderTypeOK
<1>3. CASE ReadInput
  <2>1. Input(Element) \in Item /\ Absorb(hash, Element, INPUT_LEN) \in Place
    BY ElementType, AbsorbType, NoPlaces DEF Input, Item, DecoderTypeOK
  <2>2. /\ offset < INPUT_LEN /\ offset + dataLength >= INPUT_LEN
        /\ curr_obj < in_num
    BY <1>3 DEF ReadInput, Starved, Counters, DecoderTypeOK
  <2>3. INPUT_LEN - offset \in Nat /\ dataLength - (INPUT_LEN - offset) \in Nat
    BY <2>2 DEF DecoderTypeOK
  <2>4. Advance(dataBuffer, INPUT_LEN - offset) \in Place
    BY <2>3, AdvanceType DEF DecoderTypeOK
  <2>5. curr_obj' = curr_obj + 1 /\ curr_obj + 1 <= in_num /\ curr_obj + 1 \in 0..255
    <3>1. curr_obj \in 0..255 /\ in_num \in 0..255 /\ curr_obj < 255
      BY <2>2 DEF DecoderTypeOK
    <3>2. curr_obj' = (curr_obj + 1) % 256
      BY <1>3 DEF ReadInput
    <3> QED
      BY <2>2, <3>1, <3>2, Wrap
  <2>6. sig_input' \in [0..MAX_INPUTS-1 -> Item]
    BY <1>3, <2>1 DEF ReadInput, DecoderTypeOK
  <2>7. /\ dataBuffer' = Advance(dataBuffer, INPUT_LEN - offset)
        /\ dataLength' = dataLength - (INPUT_LEN - offset)
        /\ offset' = 0
        /\ hash' = Absorb(hash, Element, INPUT_LEN)
        /\ txn_state' = IF curr_obj' = in_num THEN TXN_START_OUT ELSE TXN_IN
        /\ UNCHANGED <<initialized, in_num, out_num, cur_output, inner_hash,
                       buffer, response, tx, caller, result>>
    BY <1>3 DEF ReadInput, read_data_to_buffer, outVars
  <2> QED
    BY <2>1, <2>2, <2>3, <2>4, <2>5, <2>6, <2>7, SMTT(30) DEF Counters, DecoderTypeOK
<1>4. CASE ReadOutCount
  <2>1. CountsAt(Element) \subseteq 1..255 /\ Absorb(hash, Element, COUNT_LEN) \in Place
    BY ElementType, AbsorbType, CountsAtType DEF DecoderTypeOK
  <2>2. offset < COUNT_LEN /\ dataLength >= COUNT_LEN /\ in_num >= 1
    BY <1>4 DEF ReadOutCount, Starved, Counters, DecoderTypeOK
  <2>3. COUNT_LEN - offset \in Nat /\ dataLength - (COUNT_LEN - offset) \in Nat
    BY <2>2 DEF DecoderTypeOK
  <2>4. Advance(dataBuffer, COUNT_LEN - offset) \in Place
    BY <2>3, AdvanceType DEF DecoderTypeOK
  <2>5. /\ dataBuffer' = Advance(dataBuffer, COUNT_LEN - offset)
        /\ dataLength' = dataLength - (COUNT_LEN - offset)
        /\ offset' = 0
        /\ hash' = Absorb(hash, Element, COUNT_LEN)
        /\ out_num' \in CountsAt(Element)
        /\ txn_state' = TXN_OUT /\ curr_obj' = 0
        /\ UNCHANGED <<initialized, in_num, sig_input, cur_output, inner_hash,
                       buffer, response, tx, caller, result>>
    BY <1>4 DEF ReadOutCount, read_data_to_buffer, outVars
  <2>6. out_num' \in 1..255
    BY <2>1, <2>5
  <2>7. Counters'
    BY <2>2, <2>5, <2>6 DEF Counters
  <2>8. DecoderTypeOK'
    BY <2>1, <2>3, <2>4, <2>5, <2>6 DEF DecoderTypeOK
  <2> QED
    BY <2>7, <2>8
<1>5. CASE ReadOutput
  <2> DEFINE next == Advance(dataBuffer, OUTPUT_LEN - offset)
             rest == dataLength - (OUTPUT_LEN - offset)
  <2>1. Element \in Place /\ Absorb(hash, Element, OUTPUT_LEN) \in Place
    BY ElementType, AbsorbType DEF DecoderTypeOK
  <2>2. /\ offset + dataLength >= OUTPUT_LEN /\ offset < OUTPUT_LEN
        /\ curr_obj < out_num /\ in_num >= 1
    BY <1>5 DEF ReadOutput, CannotHoldOutput, Starved, Counters, DecoderTypeOK
  <2>3. OUTPUT_LEN - offset \in Nat /\ rest \in Nat
    BY <2>2 DEF DecoderTypeOK
  <2>4. next \in Place /\ Advance(next, rest) \in Place
    BY <2>3, AdvanceType DEF DecoderTypeOK
  <2>5. curr_obj' = curr_obj + 1 /\ curr_obj + 1 <= out_num /\ curr_obj + 1 \in 0..255
    <3>0. curr_obj \in 0..255 /\ out_num \in 0..255
      BY DEF DecoderTypeOK
    <3>1. curr_obj \in 0..255 /\ out_num \in 0..255 /\ curr_obj < 255
      BY <2>2, <3>0
    <3>2. curr_obj' = (curr_obj + 1) % 256
      BY <1>5 DEF ReadOutput, CannotHoldOutput
    <3> QED
      BY <2>2, <3>1, <3>2, Wrap
  <2>6. /\ txn_state' = txn_state /\ txn_state = TXN_OUT
        /\ UNCHANGED <<initialized, in_num, out_num, sig_input, response, tx, caller>>
        /\ cur_output' = Element
        /\ hash' = Absorb(hash, Element, OUTPUT_LEN)
        /\ inner_hash' = IF curr_obj' = out_num THEN hash' ELSE inner_hash
        /\ \/ rest < OUTPUT_LEN /\ buffer' = next /\ offset' = rest
              /\ dataBuffer' = Advance(next, rest) /\ dataLength' = 0
              /\ result' = TXN_PARTIAL_OUT
           \/ dataBuffer' = next /\ dataLength' = rest /\ offset' = 0
              /\ buffer' = buffer /\ result' = TXN_APPROVE_OUT
    BY <1>5 DEF ReadOutput, CannotHoldOutput, Throw, outVars
  <2> HIDE DEF next, rest
  <2>7. offset' \in 0..OUTPUT_LEN-1 /\ dataLength' \in Nat
    BY <2>3, <2>6
  <2>8. buffer' \in Place /\ dataBuffer' \in Place
    BY <2>4, <2>6 DEF DecoderTypeOK
  <2>9. Counters'
    BY <2>2, <2>5, <2>6 DEF Counters, DecoderTypeOK
  <2>10. hash' \in Place /\ inner_hash' \in Place /\ cur_output' \in Place
    BY <2>1, <2>6 DEF DecoderTypeOK
  <2>11. DecoderTypeOK'
    BY <2>5, <2>6, <2>7, <2>8, <2>10 DEF DecoderTypeOK
  <2> QED
    BY <2>9, <2>11
<1>6. CASE OutputsRead
  BY <1>6 DEF OutputsRead, Throw, Counters, txnVars, dataVars, outVars, DecoderTypeOK
<1>7. CASE ComputeSigs
  <2>1. \A i \in 0..MAX_INPUTS-1 : sig_input[i] \in Item /\ inner_hash \in Place
    BY DEF DecoderTypeOK
  <2>2. \A i \in 0..MAX_INPUTS-1 : Sign(inner_hash, sig_input[i]) \in Item
    BY <2>1, NoPlaces, ItemType
  <2>3. sig_input' \in [0..MAX_INPUTS-1 -> Item]
    BY <1>7, <2>1, <2>2 DEF ComputeSigs, DecoderTypeOK
  <2> QED
    BY <2>3, <1>7 DEF ComputeSigs, Counters, dataVars, outVars, DecoderTypeOK
<1>8. CASE ReturnSig
  <2>1. /\ curr_obj \in 0..MAX_INPUTS-1 /\ curr_obj < in_num
        /\ txn_state = TXN_RET_SIGS /\ in_num >= 1
    BY <1>8, SMTT(30) DEF ReturnSig, Counters, DecoderTypeOK
  <2>2. response' \in Seq(Item)
    BY <1>8, <2>1, SMTT(30) DEF ReturnSig, DecoderTypeOK
  <2>3. curr_obj' = curr_obj + 1
    <3>1. curr_obj \in 0..255 /\ curr_obj < 255
      BY <2>1
    <3>2. curr_obj' = (curr_obj + 1) % 256
      BY <1>8 DEF ReturnSig
    <3> QED
      BY <3>1, <3>2, Wrap
  <2>4. /\ tx' = tx + SIG_LEN
        /\ UNCHANGED <<initialized, txn_state, in_num, out_num, sig_input,
                       cur_output, hash, inner_hash, buffer, offset, dataBuffer,
                       dataLength, caller, result>>
    BY <1>8 DEF ReturnSig, txnVars, dataVars
  <2> QED
    BY <2>1, <2>2, <2>3, <2>4 DEF Counters, DecoderTypeOK
<1>9. CASE ResponseFull
  BY <1>9 DEF ResponseFull, Throw, Counters, txnVars, dataVars, outVars, DecoderTypeOK
<1>10. CASE SigsReturned
  BY <1>10 DEF SigsReturned, Throw, Counters, txnVars, dataVars, outVars, DecoderTypeOK
<1> QED
  BY <1>1, <1>2, <1>3, <1>4, <1>5, <1>6, <1>7, <1>8, <1>9, <1>10 DEF txn_next_elem

\* A thrown value says of the state what Control states.
LEMMA DecoderControl ==
  ASSUME Control, txn_next_elem
  PROVE  Control'
<1> USE DEF Control, Running, Throw
<1>1. CASE SavePartial
  BY <1>1 DEF SavePartial
<1>2. CASE ReadInCount
  BY <1>2 DEF ReadInCount
<1>3. CASE ReadInput
  BY <1>3 DEF ReadInput
<1>4. CASE ReadOutCount
  BY <1>4 DEF ReadOutCount
<1>5. CASE ReadOutput
  BY <1>5 DEF ReadOutput, CannotHoldOutput
<1>6. CASE OutputsRead
  BY <1>6 DEF OutputsRead
<1>7. CASE ComputeSigs
  BY <1>7 DEF ComputeSigs
<1>8. CASE ReturnSig
  BY <1>8 DEF ReturnSig
<1>9. CASE ResponseFull
  BY <1>9 DEF ResponseFull
<1>10. CASE SigsReturned
  BY <1>10 DEF SigsReturned
<1> QED
  BY <1>1, <1>2, <1>3, <1>4, <1>5, <1>6, <1>7, <1>8, <1>9, <1>10 DEF txn_next_elem

\* What leaves the decoder alone keeps its part of the first layer.
LEMMA DecoderUnchanged ==
  ASSUME DecoderTypeOK, Counters, Control, UNCHANGED decoderVars
  PROVE  DecoderTypeOK' /\ Counters' /\ Control'
<1>1. DecoderTypeOK'
  BY DEF DecoderTypeOK, decoderVars, txnVars, dataVars, outVars
<1>2. Counters'
  BY DEF Counters, decoderVars, txnVars, dataVars, outVars
<1>3. Control'
  BY DEF Control, Running, decoderVars, txnVars, dataVars, outVars
<1> QED
  BY <1>1, <1>2, <1>3

\* The handler's and the button's reactions to what the decoder has thrown.
LEMMA ReturnsBasics ==
  ASSUME SignTypeOK, Counters, Control, HandlerReturns \/ ButtonReturns
  PROVE  SignTypeOK' /\ Counters' /\ Control'
<1>1. reply \in Replies /\ response \in Seq(Item) /\ tx \in Nat /\ awaiting \in BOOLEAN
  BY DEF SignTypeOK, DecoderTypeOK
<1>2. <<>> \in Seq(Item) /\ HashItem(inner_hash) \in Item
  BY NoPlaces DEF HashItem, Item, SignTypeOK, DecoderTypeOK
<1>3. ASSUME io_async_exchange_ok PROVE reply' \in Replies /\ awaiting' \in BOOLEAN
  BY <1>1, <1>3, ExchangeType DEF io_async_exchange_ok
<1>4. CASE ReturnToMain /\ HandlerReturns
  <2>1. /\ caller' = "none" /\ result' = NotThrown /\ tx' = 0 /\ response' = <<>>
        /\ UNCHANGED <<txn_state, curr_obj, in_num, out_num, sig_input, cur_output,
                       hash, inner_hash, buffer, offset, dataBuffer, dataLength>>
    BY <1>4 DEF ReturnToMain, txnVars, dataVars
  <2>2. initialized' \in BOOLEAN
    <3>1. initialized' = FALSE \/ initialized' = initialized
      BY <1>4 DEF HandlerReturns, HandlerShowsOutput, HandlerFinishes, HandlerContinues
    <3> QED
      BY <3>1 DEF SignTypeOK, DecoderTypeOK
  <2>3. DecoderTypeOK'
    BY <1>2, <2>1, <2>2 DEF SignTypeOK, DecoderTypeOK
  <2>4. Counters' /\ Control'
    BY <2>1 DEF Counters, Control, Running
  <2>5. reply' \in Replies /\ awaiting' \in BOOLEAN
    BY <1>3, <1>4 DEF HandlerReturns, HandlerShowsOutput, HandlerFinishes,
                      HandlerContinues, ioVars, SignTypeOK
  <2>6. screen' \in {"menu", "transaction", "message"} /\ shown' \in Place
    BY <1>4 DEF HandlerReturns, HandlerShowsOutput, HandlerFinishes,
                HandlerContinues, uiVars, SignTypeOK, DecoderTypeOK,
                prepare_output_approval
  <2> QED
    BY <2>3, <2>4, <2>5, <2>6 DEF SignTypeOK
<1>5. CASE ReturnFromButton /\ ButtonReturns
  <2>1. /\ caller' = "none" /\ result' = NotThrown
        /\ UNCHANGED <<initialized, curr_obj, in_num, out_num, sig_input, cur_output,
                       hash, inner_hash, buffer, offset, dataBuffer, dataLength, screen>>
    BY <1>5 DEF ReturnFromButton, txnVars, dataVars
  <2>2. CASE ButtonReleases
    <3>1. /\ response' = <<HashItem(inner_hash)>> /\ tx' = tx + HASH_LEN
          /\ txn_state' = TXN_COMPUTE_SIGS /\ shown' = shown
          /\ txn_state = TXN_COMPUTE_SIGS
      BY <2>2 DEF ButtonReleases, Control
    <3>2. response' \in Seq(Item) /\ tx' \in Nat
      BY <1>2, <3>1 DEF SignTypeOK, DecoderTypeOK
    <3>3. reply' \in Replies /\ awaiting' \in BOOLEAN
      <4>1. io_exchange_with_code(INS_RET_SUCCESS, response', tx')
        BY <2>2 DEF ButtonReleases
      <4> QED
        BY <1>1, <3>2, <4>1, ExchangeType
    <3>4. DecoderTypeOK'
      BY <2>1, <3>1, <3>2 DEF SignTypeOK, DecoderTypeOK
    <3>5. Counters' /\ Control'
      BY <2>1, <3>1 DEF Counters, Control, Running
    <3> QED
      BY <2>1, <3>1, <3>3, <3>4, <3>5 DEF SignTypeOK
  <2>3. CASE ~ButtonReleases
    <3>1. UNCHANGED <<txn_state, response, tx>>
      BY <1>5, <2>3 DEF ButtonReturns, ButtonContinues, ButtonShowsOutput,
                        ButtonShowsAndContinues, ButtonFinishes, outVars
    <3>2. reply' \in Replies /\ awaiting' \in BOOLEAN
      BY <1>3, <1>5, <2>3 DEF ButtonReturns, ButtonContinues, ButtonShowsOutput,
                        ButtonShowsAndContinues, ButtonFinishes, ioVars, SignTypeOK
    <3>3. shown' \in Place
      BY <1>5, <2>3 DEF ButtonReturns, ButtonContinues, ButtonShowsOutput,
                        ButtonShowsAndContinues, ButtonFinishes,
                        prepare_output_approval, SignTypeOK, DecoderTypeOK
    <3>4. DecoderTypeOK'
      BY <2>1, <3>1 DEF SignTypeOK, DecoderTypeOK
    <3>5. Counters' /\ Control'
      BY <2>1, <3>1 DEF Counters, Control, Running
    <3> QED
      BY <2>1, <3>2, <3>3, <3>4, <3>5 DEF SignTypeOK
  <2> QED
    BY <2>2, <2>3
<1>6. HandlerReturns => ReturnToMain
  BY DEF HandlerReturns, HandlerShowsOutput, HandlerFinishes, HandlerContinues
<1>7. ButtonReturns => ReturnFromButton
  BY DEF ButtonReturns, ButtonContinues, ButtonShowsOutput, ButtonShowsAndContinues,
         ButtonReleases, ButtonFinishes
<1> QED
  BY <1>4, <1>5, <1>6, <1>7

\* A packet taken up by the handler.
LEMMA HandleBasics ==
  ASSUME SignTypeOK, Counters, Control,
         NEW p1, NEW place \in Place, NEW len \in Nat,
         handleSignTxn(p1, place, len)
  PROVE  SignTypeOK' /\ Counters' /\ Control'
<1>1. /\ TakePacket(place, len)
      /\ UNCHANGED <<txn_state, curr_obj, txnVars, buffer, offset, result, shown>>
  BY DEF handleSignTxn, Offer, Decode, Redisplay, Refuse, uiVars
<1>2. /\ dataBuffer' = place /\ dataLength' = len /\ tx' = 0 /\ response' = <<>>
      /\ UNCHANGED <<txn_state, curr_obj, in_num, out_num, sig_input, cur_output,
                     hash, inner_hash, buffer, offset, result, shown>>
      /\ caller = "none"
  BY <1>1 DEF TakePacket, txnVars, Idle
<1>3. /\ initialized' = FALSE \/ initialized' = initialized
      /\ caller' = caller \/ (caller' = "handler" /\ initialized /\ initialized' = initialized)
      /\ screen' \in {screen, "transaction", "message"}
      /\ awaiting' = TRUE \/ awaiting' = FALSE
      /\ reply' \in {NoReply, Reply(SW_ERROR, <<>>, 0)}
  BY DEF handleSignTxn, Offer, Decode, Redisplay, Refuse, uiVars
<1>4. initialized' \in BOOLEAN /\ awaiting' \in BOOLEAN
  <2>1. initialized \in BOOLEAN
    BY DEF SignTypeOK, DecoderTypeOK
  <2> QED
    BY <1>3, <2>1, Zenon
<1>5. reply' \in Replies
  <2>1. <<>> \in Seq(Item) /\ 0 \in Nat
    OBVIOUS
  <2> QED
    BY <1>3, <2>1, ReplyType
<1>6. DecoderTypeOK'
  BY <1>2, <1>3, <1>4 DEF SignTypeOK, DecoderTypeOK
<1>7. Counters'
  BY <1>2 DEF Counters
<1>8. Control'
  BY <1>2, <1>3 DEF Control, Running
<1> QED
  BY <1>2, <1>3, <1>4, <1>5, <1>6, <1>7, <1>8 DEF SignTypeOK

\* The right button.
LEMMA PressRightBasics ==
  ASSUME SignTypeOK, Counters, Control, PressRight
  PROVE  SignTypeOK' /\ Counters' /\ Control'
<1>1. /\ caller = "none" /\ caller' = "button" /\ initialized' = TRUE
      /\ UNCHANGED <<in_num, out_num, curr_obj, sig_input, cur_output, inner_hash,
                     buffer, dataBuffer, dataLength, response, tx, result,
                     screen, shown, awaiting, reply>>
      /\ \/ hash' = EmptyHash /\ txn_state' = TXN_START_IN /\ offset' = 0
         \/ UNCHANGED <<hash, txn_state, offset>>
  BY DEF PressRight, Idle, outVars, uiVars, ioVars
<1>2. initialized' \in BOOLEAN
  BY <1>1, Zenon
<1>3. hash' \in Place /\ txn_state' \in TXN_START_IN..TXN_RET_SIGS
      /\ offset' \in 0..OUTPUT_LEN-1 /\ caller' \in {"none", "handler", "button"}
  <2>1. /\ hash \in Place /\ txn_state \in TXN_START_IN..TXN_RET_SIGS
        /\ offset \in 0..OUTPUT_LEN-1
    BY DEF SignTypeOK, DecoderTypeOK
  <2>2. caller' = "button"
    BY <1>1
  <2>3. CASE hash' = EmptyHash /\ txn_state' = TXN_START_IN /\ offset' = 0
    BY <2>2, <2>3, NoPlaces
  <2>4. CASE UNCHANGED <<hash, txn_state, offset>>
    BY <2>1, <2>2, <2>4
  <2> QED
    BY <1>1, <2>3, <2>4
<1>6. DecoderTypeOK'
  BY <1>1, <1>2, <1>3 DEF SignTypeOK, DecoderTypeOK
<1>4. Counters'
  BY <1>1 DEF Counters
<1>5. Control'
  BY <1>1 DEF Control, Running
<1> QED
  BY <1>1, <1>4, <1>5, <1>6 DEF SignTypeOK

\* A restart gives the device its initial state again.
LEMMA RestartBasics ==
  ASSUME DeviceRestarts
  PROVE  SignTypeOK' /\ Counters' /\ Control'
<1>1. /\ initialized' = FALSE /\ txn_state' = TXN_START_IN
      /\ in_num' = 0 /\ out_num' = 0 /\ curr_obj' = 0
      /\ sig_input' = [i \in 0..MAX_INPUTS-1 |-> Input(Garbled)]
      /\ cur_output' = Garbled /\ hash' = Garbled /\ inner_hash' = Garbled
      /\ buffer' = Garbled /\ offset' = 0
      /\ dataBuffer' = Garbled /\ dataLength' = 0
      /\ response' = <<>> /\ tx' = 0
      /\ caller' = "none" /\ result' = NotThrown
      /\ screen' = "menu" /\ shown' = Garbled
      /\ awaiting' = FALSE /\ reply' = NoReply
  BY DEF DeviceRestarts
<1>2. Input(Garbled) \in Item
  BY NoPlaces DEF Input, Item
<1>3. sig_input' \in [0..MAX_INPUTS-1 -> Item] /\ response' \in Seq(Item)
  BY <1>1, <1>2
<1>4. initialized' \in BOOLEAN /\ awaiting' \in BOOLEAN
  BY <1>1
<1>5. DecoderTypeOK'
  BY <1>1, <1>3, <1>4, NoPlaces DEF DecoderTypeOK
<1>6. Counters' /\ Control'
  BY <1>1 DEF Counters, Control, Running
<1> QED
  BY <1>1, <1>4, <1>5, <1>6, NoPlaces, ReplyType DEF SignTypeOK

\* A transaction has a length, and At gives places within it.
LEMMA TxnLenType ==
  ASSUME NEW t \in Txns
  PROVE  /\ TxnLen(t) \in Nat /\ TxnLen(t) >= 81
         /\ t.in_num \in 1..MAX_INPUTS /\ t.out_num \in 1..255 /\ t # NoTxn
<1>1. t.in_num \in 1..MAX_INPUTS /\ t.out_num \in 1..255 /\ t # NoTxn
  BY TxnsAssumption
<1> DEFINE n == t.in_num
           m == t.out_num
<1>2. TxnLen(t) = 8 + 36 * n + 37 * m
  BY <1>1 DEF TxnLen, OutputAt, OutCountAt, InputAt
<1>3. n \in 1..20 /\ m \in 1..255
  BY <1>1
<1> HIDE DEF n, m
<1>4. 8 + 36 * n + 37 * m \in Nat /\ 8 + 36 * n + 37 * m >= 81
  BY <1>3
<1> QED
  BY <1>1, <1>2, <1>4

\* The first layer is inductive.
LEMMA NextBasics == Basics /\ [Next]_vars => Basics'
<1> SUFFICES ASSUME Basics, [Next]_vars PROVE Basics'
  OBVIOUS
<1>0. /\ SignTypeOK /\ HostTypeOK /\ HistoryTypeOK /\ DecoderTypeOK
      /\ Counters /\ Control
  BY DEF Basics, TypeOK, SignTypeOK
<1>a. ASSUME UNCHANGED hostVars PROVE HostTypeOK'
  BY <1>0, <1>a DEF HostTypeOK, hostVars, Active
<1>b. ASSUME UNCHANGED historyVars PROVE HistoryTypeOK'
  BY <1>0, <1>b DEF HistoryTypeOK, historyVars
<1>c. ASSUME UNCHANGED decoderVars PROVE DecoderTypeOK' /\ Counters' /\ Control'
  BY <1>0, <1>c, DecoderUnchanged
<1>d. ASSUME SignTypeOK', HostTypeOK', HistoryTypeOK', Counters', Control' PROVE Basics'
  BY <1>d DEF Basics, TypeOK
<1>1. CASE DeviceComputes
  <2>1. HostTypeOK' /\ HistoryTypeOK'
    BY <1>1, <1>a, <1>b DEF DeviceComputes
  <2>2. CASE txn_next_elem /\ UNCHANGED <<uiVars, ioVars>>
    <3>1. DecoderTypeOK' /\ Counters' /\ Control'
      BY <1>0, <2>2, DecoderCounters, DecoderControl
    <3>2. SignTypeOK'
      BY <1>0, <2>2, <3>1 DEF SignTypeOK, uiVars, ioVars
    <3> QED
      BY <2>1, <3>1, <3>2, <1>d
  <2>3. CASE HandlerReturns \/ ButtonReturns
    BY <1>0, <2>1, <2>3, <1>d, ReturnsBasics
  <2> QED
    BY <1>1, <2>2, <2>3 DEF DeviceComputes, Compute
<1>2. CASE HostStart
  <2>1. UNCHANGED signVars /\ UNCHANGED historyVars
    BY <1>2 DEF HostStart
  <2>2. SignTypeOK' /\ Counters' /\ Control'
    BY <1>0, <1>c, <2>1 DEF SignTypeOK, signVars, uiVars, ioVars
  <2>3. HostTypeOK'
    <3>1. /\ txn' \in Txns /\ host' = "streaming" /\ sent' = 0
          /\ ret' = <<>> /\ got' = 0 /\ sessions' = sessions + 1
          /\ sessions < MaxSessions
      BY <1>2 DEF HostStart
    <3>2. /\ sessions \in 0..MaxSessions /\ MaxSessions \in Nat
      BY <1>0, SessionAssumption DEF HostTypeOK
    <3>3. sent' <= TxnLen(txn')
      BY <3>1, TxnLenType
    <3>4. sessions' \in 0..MaxSessions /\ ret' \in Seq(Item)
      BY <3>1, <3>2
    <3> QED
      BY <3>1, <3>3, <3>4 DEF HostTypeOK
  <2> QED
    BY <1>b, <1>d, <2>1, <2>2, <2>3
<1>3. CASE HostSend
  <2> DEFINE len == Least(Chunk, TxnLen(txn) - sent)
  <2>1. txn \in Txns /\ sent \in Nat /\ sent <= TxnLen(txn)
    BY <1>0, <1>3 DEF HostSend, HostTypeOK, Active
  <2>2. PICK p1 \in {0, 1} : handleSignTxn(p1, At(txn, sent), len)
    BY <1>3 DEF HostSend
  <2>3. len \in Nat /\ sent + len <= TxnLen(txn)
    BY <2>1, TxnLenType, SessionAssumption DEF Least
  <2>4. /\ sent' = sent + len /\ host' \in {"posted", "asked"}
        /\ UNCHANGED <<txn, ret, got, sessions, historyVars>>
    BY <1>3 DEF HostSend
  <2>5. At(txn, sent) \in Place
    BY <2>1, AtType
  <2> HIDE DEF len
  <2>6. SignTypeOK' /\ Counters' /\ Control'
    BY <1>0, <2>2, <2>3, <2>5, HandleBasics
  <2>7. HostTypeOK'
    BY <1>0, <2>1, <2>3, <2>4 DEF HostTypeOK, Active
  <2> QED
    BY <1>b, <1>d, <2>4, <2>6, <2>7
<1>4. CASE HostReceive
  <2>1. /\ reply' = NoReply
        /\ UNCHANGED <<decoderVars, uiVars, awaiting, txn, sent, sessions, historyVars>>
    BY <1>4 DEF HostReceive
  <2>2. SignTypeOK' /\ Counters' /\ Control'
    BY <1>0, <1>c, <2>1, ReplyType DEF SignTypeOK, uiVars
  <2>3. reply.data \in Seq(Item) /\ reply.len \in Nat
    BY <1>0 DEF SignTypeOK, Replies
  <2>4. ret \in Seq(Item) /\ got \in Nat /\ ret \o reply.data \in Seq(Item)
    BY <1>0, <2>3 DEF HostTypeOK
  <2>5. ret' \in Seq(Item) /\ got' \in Nat
    <3>1. /\ ret' \in {reply.data, ret \o reply.data, ret}
          /\ got' \in {reply.len, got + reply.len, got}
      BY <1>4 DEF HostReceive
    <3>2. ret' \in Seq(Item)
      BY <2>3, <2>4, <3>1
    <3>3. got + reply.len \in Nat
      BY <2>3, <2>4
    <3>4. got' \in Nat
      BY <2>3, <2>4, <3>1, <3>3, Zenon
    <3> QED
      BY <3>2, <3>4
  <2>6. host' \in {"streaming", "collecting", "done", "failed"} /\ Active
    BY <1>4 DEF HostReceive, Active, Waiting
  <2>7. HostTypeOK'
    BY <1>0, <2>1, <2>5, <2>6 DEF HostTypeOK, Active
  <2> QED
    BY <1>b, <1>d, <2>1, <2>2, <2>7
<1>5. CASE UserPressesRight
  <2>1. PressRight /\ UNCHANGED hostVars
    BY <1>5 DEF UserPressesRight
  <2>2. confirmed' \in 0..255
    BY <1>0, <1>5 DEF UserPressesRight, DecoderTypeOK, HistoryTypeOK
  <2>3. seen' \subseteq Place
    BY <1>0, <1>5 DEF UserPressesRight, SignTypeOK, HistoryTypeOK
  <2>4. cancelled' \in BOOLEAN
    <3>1. cancelled' = (initialized /\ cancelled)
      BY <1>5 DEF UserPressesRight
    <3> QED
      BY <3>1, Zenon
  <2> QED
    BY <1>0, <1>a, <1>d, <2>1, <2>2, <2>3, <2>4, PressRightBasics DEF HistoryTypeOK
<1>6. CASE UserPressesLeft
  <2>1. PressLeft /\ cancelled' = initialized /\ UNCHANGED <<hostVars, confirmed, seen>>
    BY <1>6 DEF UserPressesLeft
  <2>2. cancelled' \in BOOLEAN
    BY <1>0, <2>1, Zenon DEF DecoderTypeOK
  <2>3. UNCHANGED decoderVars /\ UNCHANGED shown /\ screen' = "menu"
    BY <2>1 DEF PressLeft
  <2>4. reply' \in Replies /\ awaiting' \in BOOLEAN
    <3>1. io_exchange_with_code(SW_ERROR, <<>>, 0) /\ reply \in Replies
      BY <1>0, <2>1 DEF PressLeft, io_async_exchange_error, SignTypeOK
    <3>2. <<>> \in Seq(Item)
      OBVIOUS
    <3> QED
      BY <3>1, <3>2, ExchangeType
  <2>5. SignTypeOK' /\ Counters' /\ Control'
    BY <1>0, <1>c, <2>3, <2>4 DEF SignTypeOK
  <2>6. HistoryTypeOK'
    BY <1>0, <2>1, <2>2 DEF HistoryTypeOK
  <2> QED
    BY <1>a, <1>d, <2>1, <2>5, <2>6
<1>7. CASE UserDismisses
  <2>1. UNCHANGED <<decoderVars, shown, ioVars, hostVars, historyVars>> /\ screen' = "menu"
    BY <1>7 DEF UserDismisses, DismissMessage
  <2>2. SignTypeOK' /\ Counters' /\ Control'
    BY <1>0, <1>c, <2>1 DEF SignTypeOK, ioVars
  <2> QED
    BY <1>a, <1>b, <1>d, <2>1, <2>2
<1>8. CASE HostDies
  <2>1. /\ reply' = NoReply /\ host' = "failed"
        /\ UNCHANGED <<decoderVars, uiVars, awaiting, txn, sent, ret, got, sessions,
                       historyVars>>
    BY <1>8 DEF HostDies
  <2>2. SignTypeOK' /\ Counters' /\ Control'
    BY <1>0, <1>c, <2>1, ReplyType DEF SignTypeOK, uiVars
  <2>3. HostTypeOK'
    BY <1>0, <2>1 DEF HostTypeOK, Active
  <2> QED
    BY <1>b, <1>d, <2>1, <2>2, <2>3
<1>9. CASE DeviceRestarts
  <2>1. /\ host' = (IF Active THEN "failed" ELSE host)
        /\ UNCHANGED <<txn, sent, ret, got, sessions, historyVars>>
    BY <1>9 DEF DeviceRestarts
  <2>2. HostTypeOK'
    BY <1>0, <2>1 DEF HostTypeOK, Active
  <2> QED
    BY <1>b, <1>d, <1>9, <2>1, <2>2, RestartBasics
<1>10. CASE UNCHANGED vars
  <2>1. UNCHANGED <<decoderVars, uiVars, ioVars, hostVars, historyVars>>
    BY <1>10 DEF vars, signVars
  <2>2. SignTypeOK' /\ Counters' /\ Control'
    BY <1>0, <1>c, <2>1 DEF SignTypeOK, uiVars, ioVars
  <2> QED
    BY <1>a, <1>b, <1>d, <2>1, <2>2
<1> QED
  BY <1>1, <1>2, <1>3, <1>4, <1>5, <1>6, <1>7, <1>8, <1>9, <1>10 DEF Next

\* The variables keep their types, and the counters of the decoder their
\* meaning, whoever sends, presses or fails.
THEOREM SessionBasics == Spec => []Basics
BY InitBasics, NextBasics, PTL DEF Spec

\* The types alone.
THEOREM SessionTypeOK == Spec => []TypeOK
<1>1. Basics => TypeOK
  BY DEF Basics
<1> QED
  BY <1>1, SessionBasics, PTL

-----------------------------------------------------------------------------
(* Second layer: approvals.                                                *)

\* What an iteration of the decoder does to approvals: it reads an output, or
\* goes from the outputs to the signatures, only where the last press allows.
LEMMA DecoderApprovals ==
  ASSUME DecoderTypeOK, Counters, confirmed \in 0..255, Approvals,
         txn_next_elem, UNCHANGED historyVars
  PROVE  Approvals'
<1>0. /\ confirmed' = confirmed
      /\ txn_state \in 0..5 /\ curr_obj \in 0..255 /\ out_num \in 0..255
  BY DEF historyVars, DecoderTypeOK
<1>1. CASE SavePartial
  BY <1>0, <1>1 DEF SavePartial, Starved, Throw, Approvals, Running, txnVars
<1>2. CASE ReadInCount
  BY <1>0, <1>2 DEF ReadInCount, Approvals, Running
<1>3. CASE ReadInput
  BY <1>0, <1>3 DEF ReadInput, Approvals, Running
<1>4. CASE ReadOutCount
  BY <1>0, <1>4 DEF ReadOutCount, Approvals, Running
<1>5. CASE ReadOutput
  <2>1. /\ txn_state = TXN_OUT /\ txn_state' = TXN_OUT /\ curr_obj # out_num
        /\ Running /\ ~Running' /\ curr_obj' = (curr_obj + 1) % 256
        /\ initialized' = initialized
    BY <1>5 DEF ReadOutput, CannotHoldOutput, Throw, Running
  <2>2. curr_obj < out_num
    BY <1>0, <2>1 DEF Counters
  <2>3. curr_obj \in 0..255 /\ curr_obj < 255
    BY <1>0, <2>2
  <2>4. curr_obj' = curr_obj + 1
    BY <2>1, <2>3, Wrap
  <2> QED
    BY <1>0, <2>1, <2>4 DEF Approvals
<1>6. CASE OutputsRead
  BY <1>0, <1>6 DEF OutputsRead, Throw, Approvals, Running, txnVars
<1>7. CASE ComputeSigs
  BY <1>0, <1>7 DEF ComputeSigs, Approvals, Running
<1>8. CASE ReturnSig
  BY <1>0, <1>8 DEF ReturnSig, Approvals, Running, txnVars
<1>9. CASE ResponseFull
  BY <1>0, <1>9 DEF ResponseFull, Throw, Approvals, Running, txnVars
<1>10. CASE SigsReturned
  BY <1>0, <1>10 DEF SigsReturned, Throw, Approvals, Running, txnVars
<1> QED
  BY <1>1, <1>2, <1>3, <1>4, <1>5, <1>6, <1>7, <1>8, <1>9, <1>10 DEF txn_next_elem

\* Approvals depends on these variables only.
LEMMA SameApprovals ==
  ASSUME Approvals,
         UNCHANGED <<txn_state, curr_obj, out_num, confirmed>>,
         ~Running', initialized' => initialized
  PROVE  Approvals'
BY DEF Approvals

LEMMA NextApprovals == Basics /\ Approvals /\ [Next]_vars => Approvals'
<1> SUFFICES ASSUME Basics, Approvals, [Next]_vars PROVE Approvals'
  OBVIOUS
<1>0. DecoderTypeOK /\ Counters /\ Control /\ confirmed \in 0..255
  BY DEF Basics, TypeOK, SignTypeOK, HistoryTypeOK
<1>a. ASSUME UNCHANGED decoderVars, UNCHANGED confirmed PROVE Approvals'
  BY <1>a DEF Approvals, Running, decoderVars, txnVars
<1>1. CASE DeviceComputes
  <2>0. UNCHANGED historyVars /\ UNCHANGED confirmed
    BY <1>1 DEF DeviceComputes, historyVars
  <2>1. CASE txn_next_elem
    BY <1>0, <2>0, <2>1, DecoderApprovals
  <2>2. CASE HandlerReturns
    <3>1. /\ UNCHANGED <<txn_state, curr_obj, out_num>> /\ ~Running'
          /\ initialized' => initialized
      BY <2>2 DEF HandlerReturns, HandlerShowsOutput, HandlerFinishes, HandlerContinues,
                  ReturnToMain, Running, txnVars
    <3> QED
      BY <2>0, <3>1, SameApprovals
  <2>3. CASE ButtonReturns
    <3>1. /\ UNCHANGED <<txn_state, curr_obj, out_num>> /\ ~Running'
          /\ initialized' => initialized
      BY <1>0, <2>3 DEF ButtonReturns, ButtonContinues, ButtonShowsOutput,
         ButtonShowsAndContinues, ButtonReleases, ButtonFinishes, ReturnFromButton,
         Control, Running, txnVars
    <3> QED
      BY <2>0, <3>1, SameApprovals
  <2> QED
    BY <1>1, <2>1, <2>2, <2>3 DEF DeviceComputes, Compute
<1>2. CASE HostSend
  <2>1. PICK p1, place, len : handleSignTxn(p1, place, len)
    BY <1>2 DEF HostSend
  <2>2. /\ UNCHANGED <<txn_state, curr_obj, out_num, confirmed>>
        /\ initialized' => initialized
    BY <1>2, <2>1 DEF HostSend, historyVars, handleSignTxn, Offer, Decode, Redisplay,
                      Refuse, txnVars
  <2>3. \/ ~Running'
        \/ initialized /\ txn_state # TXN_OUT
    BY <1>0, <2>1, SMTT(30) DEF handleSignTxn, Offer, Decode, Redisplay, Refuse, Running,
                      TakePacket, Idle, Unattended, DecoderTypeOK
  <2> QED
    BY <2>2, <2>3 DEF Approvals
<1>3. CASE UserPressesRight
  <2>1. CASE ~initialized
    BY <1>3, <2>1 DEF UserPressesRight, PressRight, Approvals
  <2>2. CASE initialized /\ txn_state = TXN_OUT
    <3>1. /\ UNCHANGED <<txn_state, curr_obj, out_num>> /\ confirmed' = curr_obj
      BY <1>3, <2>2 DEF UserPressesRight, PressRight, Approving, ShowsApproval
    <3> QED
      BY <1>0, <2>2, <3>1 DEF Approvals, DecoderTypeOK
  <2>3. CASE initialized /\ txn_state # TXN_OUT
    <3>1. /\ UNCHANGED <<txn_state, curr_obj, out_num, confirmed>>
      BY <1>3, <2>3 DEF UserPressesRight, PressRight, Approving, ShowsApproval
    <3> QED
      BY <2>3, <3>1 DEF Approvals
  <2> QED
    BY <2>1, <2>2, <2>3
<1>4. CASE HostStart
  BY <1>4, <1>a DEF HostStart, signVars, historyVars
<1>5. CASE HostReceive
  BY <1>5, <1>a DEF HostReceive, historyVars
<1>6. CASE UserPressesLeft
  BY <1>6, <1>a DEF UserPressesLeft, PressLeft
<1>7. CASE UserDismisses
  BY <1>7, <1>a DEF UserDismisses, DismissMessage, historyVars
<1>8. CASE HostDies
  BY <1>8, <1>a DEF HostDies, historyVars
<1>9. CASE DeviceRestarts
  BY <1>9 DEF DeviceRestarts, Approvals
<1>10. CASE UNCHANGED vars
  BY <1>10, <1>a DEF vars, signVars, historyVars
<1> QED
  BY <1>1, <1>2, <1>3, <1>4, <1>5, <1>6, <1>7, <1>8, <1>9, <1>10 DEF Next

LEMMA InitApprovals == Init => Approvals
BY DEF Init, SignInit, DecoderInit, Approvals

LEMMA SessionApprovals == Spec => []Approvals
BY InitApprovals, NextApprovals, SessionBasics, PTL DEF Spec

\* For every transaction, packet size and user: no key is used before the
\* right button has been pressed after the last output.
THEOREM SessionConfirmed == Spec => []EveryOutputConfirmed
<1>1. Approvals => EveryOutputConfirmed
  BY DEF Approvals, EveryOutputConfirmed
<1> QED
  BY <1>1, SessionApprovals, PTL

-----------------------------------------------------------------------------
(* Second layer: screens.                                                  *)

LEMMA NextScreens == Basics /\ Screens /\ [Next]_vars => Screens'
<1> SUFFICES ASSUME Basics, Screens, [Next]_vars PROVE Screens'
  OBVIOUS
<1> USE DEF Screens, OwedReplyHasAButton, MessageMeansClosed, Idle
<1>0. Control /\ caller \in {"none", "handler", "button"}
  BY DEF Basics, TypeOK, SignTypeOK, DecoderTypeOK
<1>1. CASE DeviceComputes
  <2>1. CASE txn_next_elem /\ UNCHANGED <<uiVars, ioVars>>
    <3>1. caller' = caller /\ caller # "none" /\ (initialized' => initialized)
      BY <2>1 DEF txn_next_elem, SavePartial, ReadInCount, ReadInput, ReadOutCount,
         ReadOutput, OutputsRead, ComputeSigs, ReturnSig, ResponseFull, SigsReturned,
         Running
    <3> QED
      BY <2>1, <3>1 DEF uiVars, ioVars
  <2>2. CASE HandlerReturns
    <3>1. caller' = "none"
      BY <2>2 DEF HandlerReturns, HandlerShowsOutput, HandlerFinishes, HandlerContinues,
                  ReturnToMain
    <3>2. CASE HandlerShowsOutput
      BY <3>1, <3>2 DEF HandlerShowsOutput
    <3>3. CASE HandlerFinishes
      BY <3>1, <3>3 DEF HandlerFinishes, io_async_exchange_ok, io_exchange_with_code
    <3>4. CASE HandlerContinues
      BY <3>1, <3>4 DEF HandlerContinues, io_async_exchange_ok, io_exchange_with_code,
                        uiVars
    <3> QED
      BY <2>2, <3>2, <3>3, <3>4 DEF HandlerReturns
  <2>3. CASE ButtonReturns
    <3>1. /\ caller = "button" /\ caller' = "none"
          /\ UNCHANGED <<screen, initialized>>
      BY <2>3 DEF ButtonReturns, ButtonContinues, ButtonShowsOutput,
         ButtonShowsAndContinues, ButtonReleases, ButtonFinishes, ReturnFromButton
    <3> QED
      BY <3>1
  <2> QED
    BY <1>1, <2>1, <2>2, <2>3 DEF DeviceComputes, Compute
<1>2. CASE HostSend
  <2>1. PICK p1, place, len : handleSignTxn(p1, place, len)
    BY <1>2 DEF HostSend
  <2>2. CASE Offer(p1, place, len)
    BY <2>2 DEF Offer, TakePacket
  <2>3. CASE Decode(p1, place, len)
    BY <2>3 DEF Decode, uiVars
  <2>4. CASE Redisplay(p1, place, len)
    BY <2>4 DEF Redisplay, TakePacket
  <2>5. CASE Refuse(p1, place, len)
    BY <2>5 DEF Refuse, TakePacket
  <2> QED
    BY <2>1, <2>2, <2>3, <2>4, <2>5 DEF handleSignTxn
<1>3. CASE UserPressesRight
  BY <1>3 DEF UserPressesRight, PressRight, uiVars
<1>4. CASE HostStart
  BY <1>4 DEF HostStart, signVars, decoderVars, uiVars, ioVars
<1>5. CASE HostReceive
  BY <1>5 DEF HostReceive, decoderVars, uiVars
<1>6. CASE UserPressesLeft
  BY <1>6 DEF UserPressesLeft, PressLeft, io_async_exchange_error,
              io_exchange_with_code, decoderVars
<1>7. CASE UserDismisses
  BY <1>7 DEF UserDismisses, DismissMessage, decoderVars, ioVars
<1>8. CASE HostDies
  BY <1>8 DEF HostDies, decoderVars, uiVars
<1>9. CASE DeviceRestarts
  BY <1>9 DEF DeviceRestarts
<1>10. CASE UNCHANGED vars
  BY <1>10 DEF vars, signVars, decoderVars, uiVars, ioVars
<1> QED
  BY <1>1, <1>2, <1>3, <1>4, <1>5, <1>6, <1>7, <1>8, <1>9, <1>10 DEF Next

\* Whoever presses and whenever: a command that waits can be answered by a
\* press, and a message is only shown once the transaction is closed.
THEOREM SessionScreens == Spec => [](OwedReplyHasAButton /\ MessageMeansClosed)
<1>1. Init => Screens
  BY DEF Init, SignInit, DecoderInit, Screens, OwedReplyHasAButton, MessageMeansClosed,
         Idle
<1>2. Screens => OwedReplyHasAButton /\ MessageMeansClosed
  BY DEF Screens
<1> QED
  BY <1>1, <1>2, NextScreens, SessionBasics, PTL DEF Spec
=============================================================================
