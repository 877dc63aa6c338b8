------------------------- MODULE CommandLoop_proofs -------------------------
(***************************************************************************)
(* What holds of the command loop, whatever commands come between the ones *)
(* of a session: its own types and paths, and the properties of the session*)
(* that no other command can take from it.                                 *)
(***************************************************************************)
EXTENDS CommandLoop, SigningRefinement_proofs, SigningResult_proofs

USE DEF TXN_START_IN, TXN_IN, TXN_START_OUT, TXN_OUT, TXN_COMPUTE_SIGS,
        TXN_RET_SIGS,
        NotThrown, TXN_PARTIAL, TXN_PARTIAL_OUT, TXN_APPROVE_OUT, TXN_READY,
        TXN_FINISHED

-----------------------------------------------------------------------------
(* The steps of the loop, as steps of the session.                         *)

\* What a command of another script does to the session.
LEMMA OtherLeaves ==
  ASSUME OtherCommand
  PROVE  /\ Idle /\ dataBuffer' = Garbled
         /\ tx' = 0 /\ response' = <<>> /\ awaiting' = FALSE
         /\ UNCHANGED <<initialized, txn_state, curr_obj, txnVars, buffer, offset,
                        dataLength, caller, result, uiVars, reply, hostVars,
                        historyVars>>
<1>1. Arrives
  BY DEF OtherCommand, Rejected, WrongPath, handleGetVersion, handleGetPublicKey,
         handleGetSignedPublicKey, handleGetAddress
<1> QED
  BY <1>1 DEF Arrives

\* Every step is one of the session, or a command, or leaves the session alone.
LEMMA LoopSteps ==
  ASSUME [LoopNext]_allVars
  PROVE  [Next]_vars \/ OtherCommand
<1>1. CASE SessionStep
  BY <1>1 DEF SessionStep, Next
<1>2. CASE LoopRestarts
  BY <1>2 DEF LoopRestarts, Next
<1>3. CASE OtherReceives
  BY <1>3 DEF OtherReceives
<1> QED
  BY <1>1, <1>2, <1>3 DEF LoopNext, allVars

LEMMA OtherBasics == Basics /\ OtherCommand => Basics'
<1> SUFFICES ASSUME Basics, OtherCommand PROVE Basics'
  OBVIOUS
<1>1. /\ DecoderTypeOK /\ SignTypeOK /\ HostTypeOK /\ HistoryTypeOK
      /\ Counters /\ Control
  BY DEF Basics, TypeOK, SignTypeOK
<1>2. /\ UNCHANGED <<initialized, txn_state, curr_obj, buffer, offset,
                     dataLength, caller, result, reply>>
      /\ UNCHANGED <<in_num, out_num, sig_input, cur_output, hash, inner_hash>>
      /\ UNCHANGED <<screen, shown>> /\ UNCHANGED <<hostVars, historyVars>>
      /\ dataBuffer' = Garbled /\ tx' = 0 /\ response' = <<>> /\ awaiting' = FALSE
  BY OtherLeaves DEF txnVars, uiVars
<1>3. DecoderTypeOK'
  <2>1. <<>> \in Seq(Item) /\ 0 \in Nat
    OBVIOUS
  <2> QED
    BY <1>1, <1>2, <2>1, NoPlaces DEF DecoderTypeOK
<1>4. SignTypeOK'
  BY <1>1, <1>2, <1>3 DEF SignTypeOK
<1>5. HostTypeOK' /\ HistoryTypeOK'
  BY <1>1, <1>2 DEF HostTypeOK, HistoryTypeOK, hostVars, historyVars, Active
<1>6. Counters' /\ Control'
  BY <1>1, <1>2 DEF Counters, Control, Running
<1> QED
  BY <1>4, <1>5, <1>6 DEF Basics, TypeOK

LEMMA OtherApprovals == Approvals /\ OtherCommand => Approvals'
<1> SUFFICES ASSUME Approvals, OtherCommand PROVE Approvals'
  OBVIOUS
<1>1. /\ UNCHANGED <<initialized, txn_state, curr_obj, out_num, confirmed>>
      /\ ~Running'
  BY OtherLeaves DEF txnVars, historyVars, Running, Idle
<1> QED
  BY <1>1, SameApprovals

LEMMA OtherScreens == Screens /\ OtherCommand => Screens'
<1> SUFFICES ASSUME Screens, OtherCommand PROVE Screens'
  OBVIOUS
<1>1. awaiting' = FALSE /\ UNCHANGED <<initialized, caller, screen>>
  BY OtherLeaves DEF uiVars
<1> QED
  BY <1>1 DEF Screens, OwedReplyHasAButton, MessageMeansClosed

\* The three layers of the session, around which other commands run.
LEMMA LoopLayers == LoopSpec => [](Basics /\ Approvals /\ Screens)
<1> DEFINE IInv == Basics /\ Approvals /\ Screens
<1>1. LoopInit => IInv
  <2>1. Init => Screens
    BY DEF Init, SignInit, DecoderInit, Screens, OwedReplyHasAButton,
           MessageMeansClosed, Idle
  <2> QED
    BY <2>1, InitBasics, InitApprovals DEF LoopInit
<1>2. IInv /\ [LoopNext]_allVars => IInv'
  BY LoopSteps, NextBasics, NextApprovals, NextScreens, OtherBasics, OtherApprovals,
     OtherScreens
<1> QED
  BY <1>1, <1>2, PTL DEF LoopSpec

-----------------------------------------------------------------------------
(* The paths.                                                              *)

LoopTypes ==
  /\ path \in Path /\ address \in Path /\ accepted \in Path
  /\ answer.ins \in 0..255 /\ answer.len \in Nat
  /\ asked \in 0..MaxCommands

LEMMA UnsetPath == Unset \in Path
BY DEF Unset, Path, Word

\* Words that are stored come from the request, or were there before.
LEMMA StoredPath ==
  ASSUME NEW words \in Path, path \in Path
  PROVE  /\ Stored(words) \in Path
         /\ \A i \in 0..2 : Stored(words)[i].hard \/ Stored(words)[i] = path[i]
<1>1. Stored(words) \in Path
  BY DEF Stored, Path
<1>2. ASSUME NEW i \in 0..2, i < Written(words) PROVE words[i].hard
  BY <1>2 DEF Written
<1>3. ASSUME NEW i \in 0..2 PROVE Stored(words)[i].hard \/ Stored(words)[i] = path[i]
  BY <1>2 DEF Stored
<1> QED
  BY <1>1, <1>3

\* A command's effect on the paths and its answer.
LEMMA OtherPaths ==
  ASSUME OtherCommand, DecoderTypeOK
  PROVE  /\ asked' = asked + 1 /\ asked < MaxCommands
         /\ answer'.ins \in 0..255 /\ answer'.len \in Nat
         /\ \E words \in Path :
              /\ path' = path \/ path' = Stored(words)
              /\ accepted' = accepted \/ accepted' = words
              /\ address' = address \/ address' = words
<1>0. tx \in Nat
  BY DEF DecoderTypeOK
<1>1. PICK c \in Commands :
        \/ Rejected(c) \/ WrongPath(c)
        \/ handleGetVersion(c) \/ handleGetPublicKey(c)
        \/ handleGetSignedPublicKey(c) \/ handleGetAddress(c)
  BY DEF OtherCommand
<1>2. c.ins \in 0..255 /\ c.words \in Path
  BY CommandsAssumption
<1>3. Arrives
  BY <1>1 DEF Rejected, WrongPath, handleGetVersion, handleGetPublicKey,
              handleGetSignedPublicKey, handleGetAddress
<1>4. asked' = asked + 1 /\ asked < MaxCommands
  BY <1>3 DEF Arrives
<1>5. ASSUME NEW sw, NEW len \in Nat, Answer(c, sw, len)
      PROVE  answer'.ins \in 0..255 /\ answer'.len \in Nat
  BY <1>0, <1>2, <1>5 DEF Answer
<1>6. \A len \in AddressLengths : len \in Nat
  BY CommandsAssumption DEF ADDRESS_LEN, ADDRESS_BASE58_LEN
<1>7. \E sw : \E len \in Nat : Answer(c, sw, len)
  BY <1>1, <1>6 DEF Rejected, WrongPath, handleGetVersion, handleGetPublicKey,
     handleGetSignedPublicKey, handleGetAddress, VERSION_LEN, PK_LEN, SIG_LEN
<1>8. /\ path' = path \/ path' = Stored(c.words)
      /\ accepted' = accepted \/ accepted' = c.words
      /\ address' = address \/ address' = c.words
  BY <1>1 DEF Rejected, WrongPath, handleGetVersion, handleGetPublicKey,
     handleGetSignedPublicKey, handleGetAddress, get_bip44_path
<1> QED
  BY <1>2, <1>4, <1>5, <1>7, <1>8

LEMMA NextPaths ==
  ASSUME Basics, LoopTypes, SoftWordsNeverEnter, [LoopNext]_allVars
  PROVE  LoopTypes' /\ SoftWordsNeverEnter'
<1>0. DecoderTypeOK /\ MaxCommands \in Nat
  BY CommandsAssumption DEF Basics, TypeOK, SignTypeOK
<1>1. CASE UNCHANGED <<path, address, accepted, answer, asked>>
  BY <1>1 DEF LoopTypes, SoftWordsNeverEnter
<1>2. CASE LoopRestarts
  <2>1. answer'.ins \in 0..255 /\ answer'.len \in Nat
    BY <1>2 DEF LoopRestarts, NoAnswer
  <2>2. path' = Unset /\ address' = Unset /\ accepted' = Unset /\ asked' = asked
    BY <1>2 DEF LoopRestarts
  <2> QED
    BY <2>1, <2>2, UnsetPath DEF LoopTypes, SoftWordsNeverEnter
<1>3. CASE OtherReceives
  <2>1. answer'.ins \in 0..255 /\ answer'.len \in Nat
    BY <1>3 DEF OtherReceives, NoAnswer
  <2>2. UNCHANGED <<path, address, accepted, asked>>
    BY <1>3 DEF OtherReceives
  <2> QED
    BY <2>1, <2>2 DEF LoopTypes, SoftWordsNeverEnter
<1>4. CASE OtherCommand
  <2>1. PICK words \in Path :
          /\ path' = path \/ path' = Stored(words)
          /\ accepted' = accepted \/ accepted' = words
          /\ address' = address \/ address' = words
    BY <1>0, <1>4, OtherPaths
  <2>2. /\ asked' \in 0..MaxCommands
        /\ answer'.ins \in 0..255 /\ answer'.len \in Nat
    BY <1>0, <1>4, OtherPaths DEF LoopTypes
  <2>3. path' \in Path /\ accepted' \in Path /\ address' \in Path
    BY <2>1, StoredPath DEF LoopTypes
  <2>4. \A i \in 0..2 : path'[i].hard \/ path'[i] = path[i]
    BY <2>1, StoredPath DEF LoopTypes
  <2> QED
    BY <2>2, <2>3, <2>4 DEF LoopTypes, SoftWordsNeverEnter
<1> QED
  BY <1>1, <1>2, <1>3, <1>4 DEF LoopNext, SessionStep, loopVars, allVars

LEMMA LoopPaths == LoopSpec => [](LoopTypes /\ SoftWordsNeverEnter)
<1>1. LoopInit => LoopTypes /\ SoftWordsNeverEnter
  BY UnsetPath, CommandsAssumption DEF LoopInit, LoopTypes, SoftWordsNeverEnter, NoAnswer
<1>2. /\ Basics /\ LoopTypes /\ SoftWordsNeverEnter
      /\ [LoopNext]_allVars
      => LoopTypes' /\ SoftWordsNeverEnter'
  BY NextPaths
<1> QED
  BY <1>1, <1>2, LoopLayers, PTL DEF LoopSpec

-----------------------------------------------------------------------------
\* The types of the loop, for every set of commands and of address lengths.
THEOREM LoopKeepsTypes == LoopSpec => []LoopTypeOK
<1>1. Basics /\ LoopTypes => LoopTypeOK
  BY DEF Basics, LoopTypes, LoopTypeOK
<1> QED
  BY <1>1, LoopLayers, LoopPaths, PTL

\* Whatever requests come, refused or accepted, the first three words of the
\* path are hardened once anything has been stored in them.
THEOREM LoopHardensPaths == LoopSpec => []SoftWordsNeverEnter
BY LoopPaths, PTL

\* Whatever comes between the presses, no key is used before every output has
\* been confirmed.
THEOREM LoopConfirmed == LoopSpec => []EveryOutputConfirmed
<1>1. Approvals => EveryOutputConfirmed
  BY DEF Approvals, EveryOutputConfirmed
<1> QED
  BY <1>1, LoopLayers, PTL

\* A signing command that waits can be answered by a press.
THEOREM LoopAnswersByButton == LoopSpec => []OwedReplyHasAButton
<1>1. Screens => OwedReplyHasAButton
  BY DEF Screens
<1> QED
  BY <1>1, LoopLayers, PTL

\* "Success" and "Error happened" are up only when no transaction is open.
THEOREM LoopMessages == LoopSpec => []MessageMeansClosed
<1>1. Screens => MessageMeansClosed
  BY DEF Screens
<1> QED
  BY <1>1, LoopLayers, PTL

\* The promise to the user is kept whatever other commands come.
THEOREM LoopKeepsPromise == LoopSpec => KeepsPromise
<1>1. LoopInit => Promise!Init
  BY DEF LoopInit, Init, SignInit, DecoderInit, Promise!Init, Phase, Reviewing, Inputs,
         Outputs, Approved, Returned
<1>2. OtherCommand => UNCHANGED Promise!vars
  <2> SUFFICES ASSUME OtherCommand PROVE UNCHANGED Promise!vars
    OBVIOUS
  <2>1. UNCHANGED <<initialized, txn_state, in_num, out_num, confirmed, curr_obj>>
    BY OtherLeaves DEF txnVars, historyVars
  <2> QED
    BY <2>1, Stutter
<1>3. Basics /\ Basics' /\ Approvals /\ [LoopNext]_allVars => [Promise!Next]_(Promise!vars)
  BY <1>2, LoopSteps, PromiseStep
<1> QED
  BY <1>1, <1>3, LoopLayers, PTL DEF LoopSpec, KeepsPromise, Promise!Spec

-----------------------------------------------------------------------------
(* The layers of a user who is not Eager.  What a command overwrites in the *)
(* APDU buffer has been read, or belongs to a review that nobody goes on   *)
(* with.                                                                   *)

LEMMA OtherExchanges == Exchanges /\ OtherCommand => Exchanges'
<1> SUFFICES ASSUME Exchanges, OtherCommand PROVE Exchanges'
  OBVIOUS
<1>1. /\ caller = "none" /\ awaiting' = FALSE
      /\ UNCHANGED <<initialized, txn_state, caller, result, reply, offset, dataLength,
                     host, sent>>
  BY OtherLeaves DEF hostVars, Idle
<1> QED
  BY <1>1 DEF Exchanges, Fed, Decoding, Running, Idle

LEMMA OtherFeed == OtherCommand => Feed'
BY OtherLeaves DEF Feed

\* A script between two exchanges has no command that waits.
LEMMA OtherProgress == Exchanges /\ Progress /\ OtherCommand => Progress'
<1> SUFFICES ASSUME Exchanges, Progress, OtherCommand PROVE Progress'
  OBVIOUS
<1>1. /\ awaiting' = FALSE
      /\ UNCHANGED <<initialized, txn_state, curr_obj, buffer, offset, result, reply>>
      /\ UNCHANGED <<in_num, out_num, sig_input, hash, inner_hash, host, txn, sent>>
  BY OtherLeaves DEF txnVars, hostVars
<1>2. ~Waiting
  BY DEF OtherCommand, Arrives, Rejected, WrongPath, handleGetVersion,
         handleGetPublicKey, handleGetSignedPublicKey, handleGetAddress
<1>3. /\ Decoding' = Decoding /\ Fed' = Fed /\ Served' = Served
      /\ Signing' = Signing
  BY <1>1 DEF Decoding, Fed, Served, Active, Signing
<1>4. Served => ~awaiting
  BY <1>2 DEF Served, Active, Waiting, Exchanges
<1>5. ASSUME Decoding', Fed', Served' PROVE Reads(txn, At(txn, sent))'
  <2>1. Reads(txn, At(txn, sent))
    BY <1>3, <1>4, <1>5 DEF Progress
  <2> QED
    BY <1>1, <2>1 DEF Reads, Cursor, InputsRead
<1>6. Signing' => offset' = 0
  BY <1>1, <1>3 DEF Progress
<1>7. SignsOneWholeTransaction'
  BY <1>1, <1>3 DEF Progress, SignsOneWholeTransaction
<1> QED
  BY <1>1, <1>5, <1>6, <1>7 DEF Progress

LEMMA OtherResponses ==
  Responses /\ Cancelled /\ OtherCommand => Responses' /\ Cancelled'
<1> SUFFICES ASSUME Responses, Cancelled, OtherCommand PROVE Responses' /\ Cancelled'
  OBVIOUS
<1>1. /\ tx' = 0 /\ response' = <<>> /\ awaiting' = FALSE
      /\ UNCHANGED <<initialized, txn_state, caller, sig_input, reply, host, sent,
                     cancelled>>
  BY OtherLeaves DEF txnVars, hostVars, historyVars
<1>2. Responses'
  BY <1>1, EmptyResponse
<1>3. Cancelled'
  BY <1>1 DEF Cancelled, Idle, Active, Waiting
<1> QED
  BY <1>2, <1>3

LEMMA OtherReturns == Returns /\ OtherCommand => Returns'
<1> SUFFICES ASSUME Returns, OtherCommand PROVE Returns'
  OBVIOUS
<1>1. /\ caller = "none" /\ awaiting' = FALSE
      /\ UNCHANGED <<initialized, txn_state, curr_obj, inner_hash, caller, result, reply,
                     host, txn, sent, ret, got>>
  BY OtherLeaves DEF txnVars, hostVars, Idle
<1>2. Serving'
  BY <1>1 DEF Returns, Serving, Running, Idle
<1>3. Owner'
  BY <1>1 DEF Returns, Owner, Served, Active, Signing
<1>4. Delivered'
  BY <1>1 DEF Returns, Delivered, Served, Active, Answered, Waiting, Has, Items, Signing,
     Kept, KeptBytes, Collecting, Pending, PendingBytes
<1>5. HostGetsItsSignatures'
  BY <1>1 DEF Returns, HostGetsItsSignatures
<1> QED
  BY <1>2, <1>3, <1>4, <1>5 DEF Returns

\* All the layers of the session, around which other commands run.
Patience ==
  /\ Basics /\ Exchanges /\ Feed /\ Progress
  /\ Responses /\ Cancelled /\ Returns

LEMMA LoopPatience ==
  ASSUME ~Eager
  PROVE  LoopSpec => []Patience
<1>1. LoopInit => Patience
  BY InitBasics, InitProgress, InitResponses, InitReturns DEF LoopInit, Patience
<1>2. Patience /\ [LoopNext]_allVars => Patience'
  <2> SUFFICES ASSUME Patience, [LoopNext]_allVars PROVE Patience'
    OBVIOUS
  <2>1. CASE [Next]_vars
    <3>1. Basics' /\ Exchanges'
      BY <2>1, NextBasics, NextExchanges DEF Patience
    <3>2. Feed' /\ Progress'
      BY <2>1, <3>1, NextFeed, NextProgress DEF Patience
    <3>3. Responses' /\ Cancelled' /\ Returns'
      BY <2>1, NextResponses, NextCancelled, NextReturns DEF Patience
    <3> QED
      BY <3>1, <3>2, <3>3 DEF Patience
  <2>2. CASE OtherCommand
    BY <2>2, OtherBasics, OtherExchanges, OtherFeed, OtherProgress, OtherResponses,
       OtherReturns DEF Patience
  <2> QED
    BY <2>1, <2>2, LoopSteps
<1> QED
  BY <1>1, <1>2, PTL DEF LoopSpec

\* Commands that come between two packets of a transaction, or over a review
\* that was left, do not get into what is signed: the hash has absorbed one
\* whole transaction and each slot is of its own input.
THEOREM LoopSignsWhole == ~Eager => (LoopSpec => []SignsOneWholeTransaction)
<1> SUFFICES ASSUME ~Eager PROVE LoopSpec => []SignsOneWholeTransaction
  OBVIOUS
<1>1. Patience => SignsOneWholeTransaction
  BY DEF Patience, Progress
<1> QED
  BY <1>1, LoopPatience, PTL

\* Although a command overwrites the buffer in which the last packet was, the
\* bytes saved from it are joined to those that follow it.
THEOREM LoopJoinsPackets == ~Eager => (LoopSpec => []SavedBytesPrecedePacket)
<1> SUFFICES ASSUME ~Eager PROVE LoopSpec => []SavedBytesPrecedePacket
  OBVIOUS
<1>1. Patience => SavedBytesPrecedePacket
  BY JoinsPackets DEF Patience
<1> QED
  BY <1>1, LoopPatience, PTL

\* The counter tx, which the loop shares with the decoder, stays the length of
\* the response it is for.
THEOREM LoopResponseFits == ~Eager => (LoopSpec => []ResponseFits)
<1> SUFFICES ASSUME ~Eager PROVE LoopSpec => []ResponseFits
  OBVIOUS
<1>1. Patience => ResponseFits
  BY ResponsesFit DEF Patience
<1> QED
  BY <1>1, LoopPatience, PTL

\* A script among whose packets other commands have come still ends with its
\* own signatures.
THEOREM LoopReturnsSignatures == ~Eager => (LoopSpec => []HostGetsItsSignatures)
<1> SUFFICES ASSUME ~Eager PROVE LoopSpec => []HostGetsItsSignatures
  OBVIOUS
<1>1. Patience => HostGetsItsSignatures
  BY DEF Patience, Returns
<1> QED
  BY <1>1, LoopPatience, PTL

\* Nor does a command bring a cancelled transaction back.
THEOREM LoopCancels == ~Eager => (LoopSpec => []CancelledIsNeverSigned)
<1> SUFFICES ASSUME ~Eager PROVE LoopSpec => []CancelledIsNeverSigned
  OBVIOUS
<1>1. Patience => CancelledIsNeverSigned
  BY DEF Patience, Cancelled, CancelledIsNeverSigned, Signing
<1> QED
  BY <1>1, LoopPatience, PTL

-----------------------------------------------------------------------------
(* What the user sees of the outputs.                                      *)

LEMMA OtherOutputs ==
  ButtonReads /\ OutputsSeen /\ OtherCommand => ButtonReads' /\ OutputsSeen'
<1> SUFFICES ASSUME ButtonReads, OutputsSeen, OtherCommand
             PROVE  ButtonReads' /\ OutputsSeen'
  OBVIOUS
<1>1. /\ caller = "none" /\ awaiting' = FALSE
      /\ UNCHANGED <<initialized, txn_state, curr_obj, caller, result, cur_output, hash,
                     inner_hash, out_num, shown, confirmed, seen>>
  BY OtherLeaves DEF txnVars, uiVars, historyVars, Idle
<1>2. ButtonReads'
  BY <1>1 DEF ButtonReads, Decoding, Idle
<1>3. OutputsSeen'
  BY <1>1, SeenKept
<1> QED
  BY <1>2, <1>3

LEMMA LoopOutputs ==
  ASSUME ~Eager, FirstOutputFits
  PROVE  LoopSpec => [](Patience /\ ButtonReads /\ OutputsSeen)
<1> DEFINE Before == Patience /\ Approvals
           Outs   == ButtonReads /\ OutputsSeen
<1>1. LoopInit => Outs
  BY InitOutputs DEF LoopInit
<1>2. Before /\ Outs /\ [LoopNext]_allVars => Outs'
  BY LoopSteps, NextButtonReads, NextOutputsSeen, OtherOutputs DEF Patience
<1>3. LoopSpec => []Before
  BY LoopPatience, LoopLayers, PTL
<1> QED
  BY <1>1, <1>2, <1>3, PTL DEF LoopSpec

\* No command that comes during a review puts an output past the user.
THEOREM LoopShowsOutputs ==
  ~Eager /\ FirstOutputFits => (LoopSpec => []EveryOutputSeen)
<1> SUFFICES ASSUME ~Eager, FirstOutputFits PROVE LoopSpec => []EveryOutputSeen
  OBVIOUS
<1>1. OutputsSeen => EveryOutputSeen
  BY DEF OutputsSeen
<1> QED
  BY <1>1, LoopOutputs, PTL

\* Nor does one change what an approval is about.
THEOREM LoopShowsCurrent ==
  ~Eager /\ FirstOutputFits => (LoopSpec => []ApprovalShowsCurrentOutput)
<1> SUFFICES ASSUME ~Eager, FirstOutputFits
             PROVE  LoopSpec => []ApprovalShowsCurrentOutput
  OBVIOUS
<1>1. Patience => Basics
  BY DEF Patience
<1> QED
  BY <1>1, ShowsCurrent, LoopOutputs, PTL
=============================================================================
