------------------------ MODULE DeviceScreens_proofs ------------------------
(***************************************************************************)
(* What holds of the screens for addresses of any lengths, any transaction *)
(* and any number of sessions and commands: drawing adds nothing to what   *)
(* the program does, its globals stay in range, a plain text is whole, and *)
(* the lines of an approval are those of the output that waits for it.     *)
(***************************************************************************)
EXTENDS DeviceScreens, CommandLoop_proofs, SigningWhole_proofs

USE DEF TXN_START_IN, TXN_IN, TXN_START_OUT, TXN_OUT, TXN_COMPUTE_SIGS,
        TXN_RET_SIGS,
        NotThrown, TXN_PARTIAL, TXN_PARTIAL_OUT, TXN_APPROVE_OUT, TXN_READY,
        TXN_FINISHED

-----------------------------------------------------------------------------
(* Steps with a screen are steps of the loop.                              *)

LEMMA DrawingSteps ==
  ASSUME [ScreensNext]_deviceVars
  PROVE  [LoopNext]_allVars
<1>1. CASE HostSendsPacket /\ UNCHANGED loopVars
  BY <1>1 DEF HostSendsPacket, LoopNext, SessionStep
<1>2. CASE (HostStart \/ HostReceive \/ HostDies) /\ UNCHANGED <<loopVars, screenVars>>
  BY <1>2 DEF LoopNext, SessionStep
<1>3. CASE (DecoderRuns \/ HandlerDraws \/ ButtonDraws) /\ UNCHANGED loopVars
  <2>1. DeviceComputes
    BY <1>3 DEF DecoderRuns, HandlerDraws, ButtonDraws, DeviceComputes, Compute
  <2> QED
    BY <1>3, <2>1 DEF LoopNext, SessionStep
<1>4. CASE (RightButton \/ LeftButton \/ DismissButton) /\ UNCHANGED loopVars
  BY <1>4 DEF RightButton, LeftButton, DismissButton, LoopNext, SessionStep
<1>5. CASE ScreensRestart
  BY <1>5 DEF ScreensRestart, LoopNext
<1>6. CASE CommandOfOther \/ (OtherReceives /\ UNCHANGED screenVars)
  BY <1>6 DEF CommandOfOther, LoopNext
<1>7. CASE OpenAddress \/ LeaveAddress \/ Ticker
  BY <1>7 DEF OpenAddress, LeaveAddress, Ticker
<1>8. CASE UNCHANGED deviceVars
  BY <1>8 DEF deviceVars
<1> QED
  BY <1>1, <1>2, <1>3, <1>4, <1>5, <1>6, <1>7, <1>8 DEF ScreensNext

\* The screens, the menu and the ticker change nothing of what the program
\* answers or signs: what is proved of the loop holds with them too.
THEOREM ScreensAddNothing == ScreensSpec => LoopSpec
<1>1. ScreensInit => LoopInit
  BY DEF ScreensInit
<1>2. [ScreensNext]_deviceVars => [LoopNext]_allVars
  BY DrawingSteps
<1> QED
  BY <1>1, <1>2, PTL DEF ScreensSpec, LoopSpec

LEMMA ScreensLayers == ScreensSpec => [](Basics /\ Approvals /\ Screens)
BY ScreensAddNothing, LoopLayers

\* Every step of the program is drawn, or leaves lines and offsets alone.
LEMMA SessionOrOther ==
  ASSUME [ScreensNext]_deviceVars
  PROVE  [Next]_vars \/ OtherCommand
BY DrawingSteps, LoopSteps

-----------------------------------------------------------------------------
(* The globals of the scrolled text.                                       *)

\* An offset before the text is left by going forward.
ScrollRange ==
  /\ current_offset \in -1..FarOut /\ direction \in {-1, 0, 1}
  /\ current_offset = -1 => direction = 1

LEMMA ScrollMoves ==
  ASSUME NEW o \in -1..FarOut, NEW d \in {-1, 0, 1}, o = -1 => d = 1,
         NEW len, Scroll(o, d, len)
  PROVE  ScrollRange'
<1>1. o + d \in -1..41 /\ (o + d = -1 => d = -1)
  BY DEF FarOut
<1>2. CASE Turns(o + d, len)
  BY <1>1, <1>2 DEF Scroll, ScrollRange, FarOut
<1>3. CASE ~Turns(o + d, len)
  BY <1>1, <1>3 DEF Scroll, ScrollRange, Turns, FarOut
<1> QED
  BY <1>2, <1>3

\* Drawing the transaction screen keeps the globals and the lines typed.
LEMMA TransactionTypes ==
  ASSUME NEW o \in -1..FarOut, NEW d \in {-1, 0, 1}, o = -1 => d = 1,
         NEW upper \in {"", "You received", "Transaction", "torn", "Address:", "SKY:"},
         NEW lower \in [kind : Kinds, of : Place],
         shown' \in Place, DrawTransaction(o, d, upper, lower)
  PROVE  /\ ScrollRange' /\ address_up' = FALSE
         /\ interval' \in {SCROLLING_TEXT_DELAY, SCROLLING_TEXT_BIG_DELAY * 3}
         /\ line_1' \in {"", "You received", "Transaction", "torn", "Address:", "SKY:"}
         /\ line_2' \in [kind : Kinds, of : Place]
<1>1. CASE Approval(o, d)
  <2>1. Scroll(o, d, out_len')
    BY <1>1 DEF Approval
  <2>2. line_2' \in [kind : Kinds, of : Place]
    BY <1>1, NoPlaces DEF Approval, Copied, Text, Plain, Kinds
  <2>3. line_1' \in {"Address:", "SKY:"}
    BY <1>1 DEF Approval
  <2>4. interval' \in {SCROLLING_TEXT_DELAY, SCROLLING_TEXT_BIG_DELAY * 3}
    BY <1>1 DEF Approval
  <2> QED
    BY <2>1, <2>2, <2>3, <2>4, ScrollMoves DEF DrawTransaction
<1>2. CASE PlainText(o, d, upper, lower)
  BY <1>2 DEF PlainText, ScrollRange, DrawTransaction
<1> QED
  BY <1>1, <1>2 DEF DrawTransaction

LEMMA AddressTypes ==
  ASSUME NEW o \in -1..FarOut, NEW d \in {-1, 0, 1}, o = -1 => d = 1,
         line_2 \in [kind : Kinds, of : Place], DrawAddress(o, d)
  PROVE  /\ ScrollRange'
         /\ interval' \in {SCROLLING_TEXT_DELAY, SCROLLING_TEXT_BIG_DELAY}
         /\ line_1' = "torn"
         /\ line_2' \in [kind : Kinds, of : Place]
<1>1. Scroll(o, d, address_len) /\ line_1' = "torn"
  BY DEF DrawAddress
<1>2. line_2' = line_2 \/ line_2' = Plain("torn")
  BY DEF DrawAddress
<1>3. Plain("torn") \in [kind : Kinds, of : Place]
  BY NoPlaces DEF Plain, Text, Kinds
<1>4. interval' \in {SCROLLING_TEXT_DELAY, SCROLLING_TEXT_BIG_DELAY}
  BY DEF DrawAddress
<1> QED
  BY <1>1, <1>2, <1>3, <1>4, ScrollMoves

-----------------------------------------------------------------------------
(* ScreensTypeOK.                                                          *)

DrawTypes ==
  /\ ScrollRange
  /\ interval \in {0, SCROLLING_TEXT_DELAY, SCROLLING_TEXT_BIG_DELAY,
                   SCROLLING_TEXT_BIG_DELAY * 3}
  /\ line_1 \in {"", "You received", "Transaction", "torn", "Address:", "SKY:"}
  /\ line_2 \in [kind : Kinds, of : Place]

MenuTypes ==
  /\ address_up \in BOOLEAN /\ (address_up => screen = "menu")
  /\ ux_step_count \in {0, 4}

LengthTypes ==
  /\ address_len \in {DEFAULT_ADDRESS_LEN} \cup AddressLengths
  /\ out_len \in {0} \cup AddressLengths

ScreensTypes == DrawTypes /\ MenuTypes /\ LengthTypes

\* The two ways in which the transaction screen is drawn.
LEMMA Redrawn ==
  ASSUME DrawTypes, shown' \in Place, Redraw
  PROVE  DrawTypes' /\ address_up' = FALSE
<1>1. /\ current_offset \in -1..FarOut /\ direction \in {-1, 0, 1}
      /\ current_offset = -1 => direction = 1
      /\ line_1 \in {"", "You received", "Transaction", "torn", "Address:", "SKY:"}
      /\ line_2 \in [kind : Kinds, of : Place]
  BY DEF DrawTypes, ScrollRange
<1>2. DrawTransaction(current_offset, direction, line_1, line_2)
  BY DEF Redraw
<1> QED
  BY <1>1, <1>2, TransactionTypes DEF DrawTypes

LEMMA Offered ==
  ASSUME shown' \in Place, go_to_transaction_screen
  PROVE  DrawTypes' /\ address_up' = FALSE /\ ux_step_count' = 4
<1>1. Plain("new transaction") \in [kind : Kinds, of : Place]
  BY NoPlaces DEF Plain, Text, Kinds
<1>2. 0 \in -1..FarOut
  BY DEF FarOut
<1>3. /\ DrawTransaction(0, 1, "You received", Plain("new transaction"))
      /\ ux_step_count' = 4
  BY DEF go_to_transaction_screen
<1> QED
  BY <1>1, <1>2, <1>3, TransactionTypes DEF DrawTypes

\* What an accepted GET_ADDRESS does to the length of the address.
LEMMA AddressGiven ==
  ASSUME OtherCommand, tx \in Nat,
         answer'.ins = INS_GET_ADDRESS, answer'.sw = INS_RET_SUCCESS
  PROVE  answer'.len - tx \in AddressLengths
<1>1. PICK c \in Commands :
        \/ Rejected(c) \/ WrongPath(c)
        \/ handleGetVersion(c) \/ handleGetPublicKey(c)
        \/ handleGetSignedPublicKey(c) \/ handleGetAddress(c)
  BY DEF OtherCommand
<1> USE DEF Answer, INS_GET_ADDRESS, INS_GET_VERSION, INS_GET_PUBLIC_KEY,
            INS_GET_SIGNED_PUBLIC_KEY, INS_RET_SUCCESS, SW_CLASS, SW_INSTRUCTION,
            SW_WRONG_DATA
<1>2. ~Rejected(c)
  BY DEF Rejected
<1>3. ~WrongPath(c)
  BY DEF WrongPath
<1>4. ~handleGetVersion(c) /\ ~handleGetPublicKey(c) /\ ~handleGetSignedPublicKey(c)
  BY DEF handleGetVersion, handleGetPublicKey, handleGetSignedPublicKey
<1>5. handleGetAddress(c)
  BY <1>1, <1>2, <1>3, <1>4
<1>6. PICK len \in AddressLengths : answer'.len = tx + len
  BY <1>5 DEF handleGetAddress
<1>7. len \in Nat
  BY CommandsAssumption DEF ADDRESS_LEN, ADDRESS_BASE58_LEN
<1> QED
  BY <1>6, <1>7

LEMMA NextScreensTypes ==
  ASSUME Basics, Basics', Screens, ScreensTypes, [ScreensNext]_deviceVars
  PROVE  ScreensTypes'
<1>0. /\ shown' \in Place /\ tx \in Nat /\ DrawTypes
      /\ address_up \in BOOLEAN /\ (address_up => screen = "menu")
      /\ ux_step_count \in {0, 4} /\ LengthTypes
  BY DEF Basics, TypeOK, SignTypeOK, DecoderTypeOK, ScreensTypes, MenuTypes
<1>a. ASSUME UNCHANGED <<drawVars, lenVars>>, MenuTypes' PROVE ScreensTypes'
  BY <1>0, <1>a DEF ScreensTypes, DrawTypes, LengthTypes, ScrollRange, drawVars, scrollVars,
                    lineVars, lenVars
<1>b. ASSUME UNCHANGED screenVars, screen' = screen PROVE ScreensTypes'
  BY <1>0, <1>a, <1>b DEF screenVars, drawVars, MenuTypes
<1>c. ASSUME UNCHANGED <<ux_step_count, lenVars>>, Redraw PROVE ScreensTypes'
  <2>1. DrawTypes' /\ address_up' = FALSE
    BY <1>0, <1>c, Redrawn
  <2> QED
    BY <1>0, <1>c, <2>1 DEF ScreensTypes, MenuTypes, LengthTypes, lenVars
<1>1. CASE HostSendsPacket
  <2>1. CASE UNCHANGED lenVars /\ go_to_transaction_screen
    <3>1. DrawTypes' /\ address_up' = FALSE /\ ux_step_count' = 4
      BY <1>0, <2>1, Offered
    <3> QED
      BY <1>0, <2>1, <3>1 DEF ScreensTypes, MenuTypes, LengthTypes, lenVars
  <2>2. CASE UNCHANGED <<ux_step_count, lenVars>> /\ Redraw
    BY <2>2, <1>c
  <2>3. CASE show_message
    BY <1>0, <1>a, <2>3 DEF show_message, MenuTypes
  <2>4. CASE caller' = "handler" /\ UNCHANGED screenVars
    <3>1. PICK p1, place, len : handleSignTxn(p1, place, len)
      BY <1>1 DEF HostSendsPacket, HostSend
    <3>2. Idle
      BY <3>1 DEF handleSignTxn, Offer, Decode, Redisplay, Refuse, TakePacket
    <3>3. screen' = screen
      BY <2>4, <3>1, <3>2
         DEF handleSignTxn, Offer, Decode, Redisplay, Refuse, uiVars, Idle
    <3> QED
      BY <1>b, <2>4, <3>3
  <2> QED
    BY <1>1, <2>1, <2>2, <2>3, <2>4 DEF HostSendsPacket
<1>2. CASE (HostStart \/ HostReceive \/ HostDies) /\ UNCHANGED <<loopVars, screenVars>>
  BY <1>2, <1>b DEF HostStart, HostReceive, HostDies, signVars, uiVars
<1>3. CASE DecoderRuns
  <2>1. screen' = screen
    BY <1>3 DEF DecoderRuns, DeviceComputes, Compute, Running, HandlerReturns,
       HandlerShowsOutput, HandlerFinishes, HandlerContinues, ReturnToMain,
       ButtonReturns, ButtonContinues, ButtonShowsOutput, ButtonShowsAndContinues,
       ButtonReleases, ButtonFinishes, ReturnFromButton, uiVars
  <2> QED
    BY <1>3, <1>b, <2>1 DEF DecoderRuns
<1>4. CASE HandlerDraws
  <2>1. CASE result = TXN_APPROVE_OUT
    <3>1. /\ out_len' \in AddressLengths /\ Redraw
          /\ UNCHANGED <<ux_step_count, address_len>>
      BY <1>4, <2>1 DEF HandlerDraws, NewOutputStrings
    <3>2. DrawTypes' /\ address_up' = FALSE
      BY <1>0, <3>1, Redrawn
    <3> QED
      BY <1>0, <3>1, <3>2 DEF ScreensTypes, MenuTypes, LengthTypes
  <2>2. CASE result = TXN_FINISHED
    <3>1. show_message
      BY <1>4, <2>2 DEF HandlerDraws
    <3> QED
      BY <1>0, <1>a, <3>1 DEF show_message, MenuTypes
  <2>3. CASE result \notin {TXN_APPROVE_OUT, TXN_FINISHED}
    <3>1. UNCHANGED screenVars /\ screen' = screen
      BY <1>4, <2>3 DEF HandlerDraws, HandlerReturns, HandlerShowsOutput, HandlerFinishes,
         HandlerContinues, uiVars
    <3> QED
      BY <1>b, <3>1
  <2> QED
    BY <2>1, <2>2, <2>3
<1>5. CASE ButtonDraws
  <2>1. /\ Redraw /\ UNCHANGED <<ux_step_count, address_len>>
        /\ out_len' \in AddressLengths \/ out_len' = out_len
    BY <1>5 DEF ButtonDraws, NewOutputStrings
  <2>2. DrawTypes' /\ address_up' = FALSE
    BY <1>0, <2>1, Redrawn
  <2> QED
    BY <1>0, <2>1, <2>2 DEF ScreensTypes, MenuTypes, LengthTypes
<1>6. CASE RightButton
  <2>1. /\ screen' = screen
        /\ line_1' = "Transaction" /\ line_2' = Plain("processing...")
        /\ UNCHANGED <<address_up, ux_step_count, scrollVars, lenVars>>
    BY <1>6 DEF RightButton, UserPressesRight, PressRight, uiVars
  <2>2. Plain("processing...") \in [kind : Kinds, of : Place]
    BY NoPlaces DEF Plain, Text, Kinds
  <2> QED
    BY <1>0, <2>1, <2>2 DEF ScreensTypes, DrawTypes, MenuTypes, LengthTypes, ScrollRange,
                            scrollVars, lenVars
<1>7. CASE LeftButton \/ DismissButton
  BY <1>7, <1>a DEF LeftButton, DismissButton, ui_idle, MenuTypes
<1>8. CASE ScreensRestart
  <2>1. /\ address_up' = FALSE /\ ux_step_count' = 0
        /\ current_offset' = 0 /\ direction' = 0 /\ interval' = 0
        /\ address_len' = DEFAULT_ADDRESS_LEN /\ out_len' = 0
        /\ line_1' = "" /\ line_2' = Plain("blank")
    BY <1>8 DEF ScreensRestart
  <2>2. Plain("blank") \in [kind : Kinds, of : Place]
    BY NoPlaces DEF Plain, Text, Kinds
  <2>3. ScrollRange'
    <3>1. current_offset' = 0 /\ direction' = 0
      BY <2>1
    <3> QED
      BY <3>1 DEF ScrollRange, FarOut
  <2>4. DrawTypes'
    BY <2>1, <2>2, <2>3 DEF DrawTypes
  <2> QED
    BY <2>1, <2>4 DEF ScreensTypes, MenuTypes, LengthTypes
<1>9. CASE CommandOfOther
  <2>1. /\ OtherCommand /\ UNCHANGED <<address_up, ux_step_count, drawVars, out_len>>
        /\ address_len' \in AddressLengths \/ address_len' = address_len
    BY <1>0, <1>9, AddressGiven DEF CommandOfOther
  <2>2. screen' = screen
    BY <2>1, OtherLeaves DEF uiVars
  <2> QED
    BY <1>0, <2>1, <2>2 DEF ScreensTypes, DrawTypes, MenuTypes, LengthTypes, ScrollRange,
                            drawVars, scrollVars, lineVars
<1>10. CASE OtherReceives /\ UNCHANGED screenVars
  BY <1>10, <1>b DEF OtherReceives, vars, signVars, uiVars
<1>11. CASE OpenAddress
  <2>1. /\ screen = "menu" /\ screen' = screen /\ address_up' = TRUE /\ ux_step_count' = 4
        /\ DrawAddress(0, 1) /\ UNCHANGED lenVars
    BY <1>11 DEF OpenAddress, allVars, vars, signVars, uiVars
  <2>2. line_2 \in [kind : Kinds, of : Place] /\ 0 \in -1..FarOut
    <3>1. line_2 \in [kind : Kinds, of : Place]
      BY <1>0 DEF DrawTypes
    <3>2. 0 \in -1..FarOut
      BY DEF FarOut
    <3> QED
      BY <3>1, <3>2
  <2>3. DrawTypes'
    BY <2>1, <2>2, AddressTypes DEF DrawTypes
  <2> QED
    BY <1>0, <2>1, <2>3 DEF ScreensTypes, MenuTypes, LengthTypes, lenVars
<1>12. CASE LeaveAddress
  BY <1>0, <1>12, <1>a DEF LeaveAddress, MenuTypes
<1>13. CASE Ticker
  <2>1. UNCHANGED <<ux_step_count, lenVars>> /\ screen' = screen
    BY <1>13 DEF Ticker, allVars, vars, signVars, uiVars
  <2>2. CASE Redraw
    BY <1>c, <2>1, <2>2
  <2>3. CASE /\ address_up /\ DrawAddress(current_offset, direction)
             /\ UNCHANGED address_up
    <3>1. /\ line_2 \in [kind : Kinds, of : Place] /\ current_offset \in -1..FarOut
          /\ direction \in {-1, 0, 1} /\ (current_offset = -1 => direction = 1)
      BY <1>0 DEF DrawTypes, ScrollRange
    <3>2. DrawTypes'
      BY <2>3, <3>1, AddressTypes DEF DrawTypes
    <3> QED
      BY <1>0, <2>1, <2>3, <3>2 DEF ScreensTypes, MenuTypes, LengthTypes, lenVars
  <2> QED
    BY <1>13, <2>2, <2>3 DEF Ticker
<1>14. CASE UNCHANGED deviceVars
  BY <1>14, <1>b DEF deviceVars, allVars, vars, signVars, uiVars
<1> QED
  BY <1>1, <1>2, <1>3, <1>4, <1>5, <1>6, <1>7, <1>8, <1>9, <1>10, <1>11, <1>12, <1>13, <1>14
     DEF ScreensNext

LEMMA SessionTypes ==
  ScreensSpec => [](Basics /\ Screens /\ ScreensTypes)
<1>1. ScreensInit => ScreensTypes
  <2> SUFFICES ASSUME ScreensInit PROVE ScreensTypes
    OBVIOUS
  <2>1. /\ address_up = FALSE /\ ux_step_count = 0
        /\ current_offset = 0 /\ direction = 0 /\ interval = 0
        /\ address_len = DEFAULT_ADDRESS_LEN /\ out_len = 0
        /\ line_1 = "" /\ line_2 = Plain("blank")
    BY DEF ScreensInit
  <2>2. Plain("blank") \in [kind : Kinds, of : Place]
    BY NoPlaces DEF Plain, Text, Kinds
  <2>3. ScrollRange
    <3>1. current_offset = 0 /\ direction = 0
      BY <2>1
    <3> QED
      BY <3>1 DEF ScrollRange, FarOut
  <2>4. DrawTypes
    BY <2>1, <2>2, <2>3 DEF DrawTypes
  <2> QED
    BY <2>1, <2>4 DEF ScreensTypes, MenuTypes, LengthTypes
<1>2. Basics /\ Basics' /\ Screens /\ ScreensTypes /\ [ScreensNext]_deviceVars
        => ScreensTypes'
  BY NextScreensTypes
<1>3. ScreensSpec => [](Basics /\ Approvals /\ Screens)
  BY ScreensLayers
<1> QED
  BY <1>1, <1>2, <1>3, PTL DEF ScreensSpec

\* The globals of the screens keep their types, and an offset stays between one
\* before the text and the bound of the model, for addresses of any lengths.
THEOREM ScreensKeepTypes == ScreensSpec => []ScreensTypeOK
<1>1. ScreensTypes => ScreensTypeOK
  BY DEF ScreensTypes, DrawTypes, MenuTypes, LengthTypes, ScrollRange, ScreensTypeOK
<1> QED
  BY <1>1, SessionTypes, PTL

-----------------------------------------------------------------------------
(* PlainTextIsWhole.                                                       *)

\* A script that is being served has the transaction screen before it, unless
\* it is about to learn that its transaction has been cancelled.
Attended ==
  initialized /\ Active /\ sent > 0 =>
    screen = "transaction" \/ (Waiting /\ reply.sw = SW_ERROR)

\* Outside an approval the lines are those of a plain text, and so they are
\* when the decoder runs: either button or handler found or put them there.
PlainLines ==
  screen = "transaction" /\ (txn_state # TXN_OUT \/ ~Idle) =>
    \/ line_1 = "You received" /\ line_2 = Plain("new transaction")
    \/ line_1 = "Transaction" /\ line_2 = Plain("processing...")

LEMMA NextAttended ==
  ASSUME ~Eager, Basics, Screens, Exchanges, Attended, [Next]_vars
  PROVE  Attended'
<1>1. CASE DeviceComputes
  <2>0. /\ caller # "none" /\ UNCHANGED <<host, sent>>
        /\ initialized' => initialized /\ (screen' = screen \/ screen' = "transaction")
    <3>1. CASE txn_next_elem /\ UNCHANGED <<uiVars, ioVars>>
      BY <1>1, <3>1, DecoderSteps DEF DeviceComputes, Running, hostVars, uiVars
    <3>2. CASE HandlerReturns
      BY <1>1, <3>2 DEF DeviceComputes, hostVars, HandlerReturns, HandlerShowsOutput,
         HandlerFinishes, HandlerContinues, ReturnToMain, uiVars
    <3>3. CASE ButtonReturns
      BY <1>1, <3>3 DEF DeviceComputes, hostVars, ButtonReturns, ButtonContinues,
         ButtonShowsOutput, ButtonShowsAndContinues, ButtonReleases, ButtonFinishes,
         ReturnFromButton
    <3> QED
      BY <1>1, <3>1, <3>2, <3>3 DEF DeviceComputes, Compute
  <2>1. reply.sw = 0
    BY <2>0, ReplyStatus DEF Exchanges
  <2> QED
    BY <2>0, <2>1 DEF Attended, Active, SW_ERROR
<1>2. CASE HostSend
  <2>1. PICK place, len : handleSignTxn(IF sent = 0 THEN 0 ELSE 1, place, len)
    BY <1>2 DEF HostSend
  <2>2. CASE ~initialized'
    BY <2>2 DEF Attended
  <2>3. CASE initialized'
    <3>1. CASE Offer(IF sent = 0 THEN 0 ELSE 1, place, len)
      BY <2>3, <3>1 DEF Offer
    <3>2. CASE Refuse(IF sent = 0 THEN 0 ELSE 1, place, len)
      BY <2>3, <3>2 DEF Refuse
    <3>3. CASE Redisplay(IF sent = 0 THEN 0 ELSE 1, place, len)
      BY <3>3 DEF Redisplay, Attended
    <3>4. CASE Decode(IF sent = 0 THEN 0 ELSE 1, place, len)
      <4>1. initialized /\ sent # 0 /\ screen' = screen
        BY <3>4 DEF Decode, uiVars
      <4>2. sent > 0 /\ Active /\ ~Waiting
        BY <1>2, <4>1 DEF HostSend, Active, Waiting, Basics, TypeOK, HostTypeOK
      <4> QED
        BY <4>1, <4>2 DEF Attended
    <3> QED
      BY <2>1, <3>1, <3>2, <3>3, <3>4 DEF handleSignTxn
  <2> QED
    BY <2>2, <2>3
<1>3. CASE HostStart
  BY <1>3 DEF HostStart, Attended
<1>4. CASE HostReceive
  <2>1. /\ UNCHANGED <<initialized, screen, sent>> /\ Active
        /\ reply.sw # INS_RET_SUCCESS => ~Active'
    BY <1>4 DEF HostReceive, decoderVars, uiVars, Waiting, Active
  <2> QED
    BY <2>1 DEF Attended, SW_ERROR, INS_RET_SUCCESS
<1>5. CASE UserPressesRight
  BY <1>5 DEF UserPressesRight, PressRight, uiVars, Attended
<1>6. CASE UserPressesLeft
  <2>1. /\ awaiting /\ reply'.sw = SW_ERROR /\ UNCHANGED <<host, sent>>
    BY <1>6, ReplyStatus
       DEF UserPressesLeft, MayPress, PressLeft, hostVars, io_async_exchange_error,
           io_exchange_with_code
  <2>2. Active' /\ sent' > 0 => Waiting'
    BY <2>1 DEF Exchanges, Active, Waiting
  <2> QED
    BY <2>1, <2>2 DEF Attended
<1>7. CASE UserDismisses
  BY <1>7 DEF UserDismisses, DismissMessage, decoderVars, Screens, MessageMeansClosed,
              Attended
<1>8. CASE HostDies
  BY <1>8 DEF HostDies, Attended, Active
<1>9. CASE DeviceRestarts
  BY <1>9 DEF DeviceRestarts, Attended
<1>10. CASE UNCHANGED vars
  BY <1>10 DEF vars, signVars, decoderVars, uiVars, ioVars, hostVars, Attended, Active,
               Waiting
<1> QED
  BY <1>1, <1>2, <1>3, <1>4, <1>5, <1>6, <1>7, <1>8, <1>9, <1>10 DEF Next

LEMMA OtherAttended == Attended /\ OtherCommand => Attended'
<1> SUFFICES ASSUME Attended, OtherCommand PROVE Attended'
  OBVIOUS
<1>1. UNCHANGED <<initialized, host, sent, screen, reply>>
  BY OtherLeaves DEF hostVars, uiVars
<1> QED
  BY <1>1 DEF Attended, Active, Waiting

\* Lines that nobody draws, or draws as they were.
LEMMA SameLines ==
  ASSUME PlainLines, UNCHANGED lineVars,
         screen' = "transaction" /\ (txn_state' # TXN_OUT \/ ~Idle') =>
           screen = "transaction" /\ (txn_state # TXN_OUT \/ ~Idle)
  PROVE  PlainLines'
BY DEF PlainLines, lineVars

LEMMA SameDrawing ==
  ASSUME PlainLines, Redraw, Idle',
         screen' = "transaction" /\ txn_state' # TXN_OUT =>
           screen = "transaction" /\ (txn_state # TXN_OUT \/ ~Idle)
  PROVE  PlainLines'
<1>1. CASE ShowsApproval'
  BY <1>1 DEF ShowsApproval, PlainLines
<1>2. CASE ~ShowsApproval'
  <2>1. UNCHANGED lineVars
    BY <1>2 DEF Redraw, DrawTransaction, PlainText, lineVars
  <2> QED
    BY <1>2, <2>1, SameLines DEF ShowsApproval
<1> QED
  BY <1>1, <1>2

LEMMA NextPlainLines ==
  ASSUME ~Eager, Basics, Screens, MenuTypes, Attended, PlainLines,
         [ScreensNext]_deviceVars
  PROVE  PlainLines'
<1>a. ASSUME UNCHANGED lineVars, screen' # "transaction" PROVE PlainLines'
  BY <1>a DEF PlainLines
<1>b. ASSUME UNCHANGED lineVars, UNCHANGED <<screen, txn_state, caller>> PROVE PlainLines'
  BY <1>b, SameLines DEF Idle
<1>1. CASE HostSendsPacket
  <2>0. PICK place, len : handleSignTxn(IF sent = 0 THEN 0 ELSE 1, place, len)
    BY <1>1 DEF HostSendsPacket, HostSend
  <2>a. Idle /\ txn_state' = txn_state
    BY <2>0 DEF handleSignTxn, Offer, Decode, Redisplay, Refuse, TakePacket
  <2>1. CASE ~initialized /\ screen' = "transaction" /\ go_to_transaction_screen
    <3>1. DrawTransaction(0, 1, "You received", Plain("new transaction"))
      BY <2>1 DEF go_to_transaction_screen
    <3>2. Idle'
      BY <2>0, <2>1, <2>a DEF handleSignTxn, Offer, Decode, Redisplay, Refuse, Idle
    <3> QED
      BY <3>1, <3>2 DEF DrawTransaction, PlainText, ShowsApproval, PlainLines
  <2>2. CASE initialized /\ screen' = "transaction" /\ Idle' /\ Redraw
    <3>1. sent # 0
      <4>1. ASSUME sent = 0 PROVE FALSE
        <5>1. handleSignTxn(0, place, len)
          BY <2>0, <4>1
        <5>2. Refuse(0, place, len) \/ Offer(0, place, len)
          BY <5>1 DEF handleSignTxn, Decode, Redisplay
        <5> QED
          BY <2>2, <5>2 DEF Refuse, Offer
      <4> QED
        BY <4>1
    <3>2. sent > 0 /\ Active /\ ~Waiting
      BY <1>1, <3>1 DEF HostSendsPacket, HostSend, Active, Waiting, Basics, TypeOK,
                        HostTypeOK
    <3>3. screen = "transaction"
      BY <2>2, <3>2 DEF Attended
    <3> QED
      BY <2>2, <2>a, <3>3, SameDrawing
  <2>3. CASE screen' = "message" /\ show_message
    BY <1>a, <2>3 DEF show_message, drawVars
  <2>4. CASE caller' = "handler" /\ UNCHANGED screenVars
    <3>1. screen' = screen /\ txn_state # TXN_OUT
      BY <2>0, <2>4, <2>a DEF handleSignTxn, Offer, Decode, Redisplay, Refuse, uiVars, Idle,
                              Unattended
    <3> QED
      BY <2>4, <2>a, <3>1, SameLines DEF screenVars, drawVars
  <2> QED
    BY <1>1, <2>1, <2>2, <2>3, <2>4 DEF HostSendsPacket
<1>2. CASE (HostStart \/ HostReceive \/ HostDies) /\ UNCHANGED <<loopVars, screenVars>>
  BY <1>2, <1>b DEF HostStart, HostReceive, HostDies, signVars, uiVars, decoderVars,
                    screenVars, drawVars
<1>3. CASE DecoderRuns
  <2>1. screen' = screen /\ caller # "none" /\ UNCHANGED lineVars
    BY <1>3 DEF DecoderRuns, DeviceComputes, Compute, Running, HandlerReturns,
       HandlerShowsOutput, HandlerFinishes, HandlerContinues, ReturnToMain,
       ButtonReturns, ButtonContinues, ButtonShowsOutput, ButtonShowsAndContinues,
       ButtonReleases, ButtonFinishes, ReturnFromButton, uiVars, screenVars, drawVars
  <2> QED
    BY <2>1, SameLines DEF Idle
<1>4. CASE HandlerDraws
  <2>0. caller = "handler" /\ caller' = "none" /\ txn_state' = txn_state
    BY <1>4 DEF HandlerDraws, HandlerReturns, HandlerShowsOutput, HandlerFinishes,
                HandlerContinues, ReturnToMain
  <2>1. CASE result = TXN_APPROVE_OUT
    <3>1. txn_state = TXN_OUT
      BY <2>1 DEF Basics, Control
    <3> QED
      BY <2>0, <3>1 DEF PlainLines, Idle
  <2>2. CASE result = TXN_FINISHED
    <3>1. show_message /\ screen' = "message"
      BY <1>4, <2>2 DEF HandlerDraws, HandlerReturns, HandlerShowsOutput, HandlerFinishes,
                        HandlerContinues
    <3> QED
      BY <1>a, <3>1 DEF show_message, drawVars
  <2>3. CASE result \notin {TXN_APPROVE_OUT, TXN_FINISHED}
    <3>1. UNCHANGED lineVars /\ screen' = screen
      BY <1>4, <2>3 DEF HandlerDraws, HandlerReturns, HandlerShowsOutput, HandlerFinishes,
         HandlerContinues, uiVars, screenVars, drawVars
    <3> QED
      BY <2>0, <3>1, SameLines DEF Idle
  <2> QED
    BY <2>1, <2>2, <2>3
<1>5. CASE ButtonDraws
  <2>1. Redraw /\ caller = "button" /\ caller' = "none" /\ screen' = screen
    BY <1>5 DEF ButtonDraws, ButtonReturns, ButtonContinues, ButtonShowsOutput,
       ButtonShowsAndContinues, ButtonReleases, ButtonFinishes, ReturnFromButton
  <2> QED
    BY <2>1, SameDrawing DEF Idle
<1>6. CASE RightButton
  BY <1>6 DEF RightButton, PlainLines
<1>7. CASE LeftButton \/ DismissButton
  <2>1. screen' = "menu" /\ UNCHANGED lineVars
    BY <1>7 DEF LeftButton, DismissButton, ui_idle, UserPressesLeft, PressLeft,
                UserDismisses, DismissMessage, drawVars
  <2> QED
    BY <1>a, <2>1
<1>8. CASE ScreensRestart
  <2>1. screen' = "menu"
    BY <1>8 DEF ScreensRestart, LoopRestarts, DeviceRestarts
  <2> QED
    BY <2>1 DEF PlainLines
<1>9. CASE CommandOfOther
  <2>1. UNCHANGED lineVars /\ UNCHANGED <<screen, txn_state, caller>>
    BY <1>9, OtherLeaves DEF CommandOfOther, drawVars, uiVars
  <2> QED
    BY <1>b, <2>1
<1>10. CASE OtherReceives /\ UNCHANGED screenVars
  BY <1>10, <1>b DEF OtherReceives, vars, signVars, uiVars, decoderVars, screenVars, drawVars
<1>11. CASE OpenAddress
  <2>1. screen' = "menu"
    BY <1>11 DEF OpenAddress, allVars, vars, signVars, uiVars
  <2> QED
    BY <2>1 DEF PlainLines
<1>12. CASE LeaveAddress
  BY <1>12, <1>b DEF LeaveAddress, allVars, vars, signVars, uiVars, decoderVars, drawVars
<1>13. CASE Ticker
  <2>1. UNCHANGED <<screen, txn_state, caller>> /\ Idle
    BY <1>13 DEF Ticker, allVars, vars, signVars, uiVars, decoderVars
  <2>2. CASE Redraw
    BY <2>1, <2>2, SameDrawing DEF Idle
  <2>3. CASE address_up
    <3>1. screen' = "menu"
      BY <2>1, <2>3 DEF MenuTypes
    <3> QED
      BY <3>1 DEF PlainLines
  <2> QED
    BY <1>13, <2>2, <2>3 DEF Ticker
<1>14. CASE UNCHANGED deviceVars
  BY <1>14, <1>b DEF deviceVars, allVars, vars, signVars, uiVars, decoderVars, screenVars,
                     drawVars
<1> QED
  BY <1>1, <1>2, <1>3, <1>4, <1>5, <1>6, <1>7, <1>8, <1>9, <1>10, <1>11, <1>12, <1>13, <1>14
     DEF ScreensNext

\* The texts of an offer and of a transaction at work are whole whatever the
\* address screen has drawn over them, if the user presses the buttons of the
\* transaction screen only when asked.
THEOREM ScreensPlainTextIsWhole == ~Eager => (ScreensSpec => []PlainTextIsWhole)
<1> SUFFICES ASSUME ~Eager PROVE ScreensSpec => []PlainTextIsWhole
  OBVIOUS
<1> DEFINE Before == Basics /\ Screens /\ ScreensTypes
           IInv   == Exchanges /\ Attended /\ PlainLines
<1>1. ScreensInit => IInv
  <2>1. Init => Exchanges
    BY ReplyStatus DEF Init, SignInit, DecoderInit, Exchanges, Decoding, Running, Idle
  <2>2. Init => ~initialized /\ screen = "menu"
    BY DEF Init, SignInit, DecoderInit
  <2> QED
    BY <2>1, <2>2 DEF ScreensInit, LoopInit, Attended, PlainLines
<1>2. Before /\ IInv /\ [ScreensNext]_deviceVars => IInv'
  BY SessionOrOther, NextExchanges, OtherExchanges, NextAttended, OtherAttended,
     NextPlainLines DEF ScreensTypes
<1>3. PlainLines => PlainTextIsWhole
  BY DEF PlainLines, PlainTextIsWhole, ShowsApproval
<1>4. ScreensSpec => []Before
  BY SessionTypes
<1> QED
  BY <1>1, <1>2, <1>3, <1>4, PTL DEF ScreensSpec

-----------------------------------------------------------------------------
(* ScrollStaysInside, LabelFitsText: a text that is scrolled is drawn from  *)
(* its start, or was before with the length it still has.                   *)

\* The addresses of the wallet have one length: where they have two, an offset
\* kept from the longer is outside the shorter.
OneLength == \A a, b \in AddressLengths : a = b

Inside(len) ==
  /\ direction \in {-1, 1}
  /\ current_offset \in -1 .. len + 1 - SCREEN_MAX_CHARS
  /\ direction = 1 => current_offset <= len - SCREEN_MAX_CHARS
  /\ direction = -1 => current_offset >= 0

\* The button prepares the strings of an output that it has read.
StringsReady ==
  txn_state = TXN_OUT =>
    \/ out_len # 0
    \/ caller = "button" /\ (curr_obj = 0 \/ result \in {TXN_APPROVE_OUT, TXN_PARTIAL_OUT})

\* A plain text on the transaction screen keeps the offset of the approvals
\* before it, for those after it.
TextsInside ==
  /\ address_up => Inside(address_len)
  /\ screen = "transaction" => \A len \in AddressLengths : Inside(len)

\* Lengths of a text that is longer than the screen.
Lengths == 24..35

LEMMA SomeLengths ==
  /\ \A len \in AddressLengths : len \in Lengths /\ len >= 25
  /\ DEFAULT_ADDRESS_LEN \in Lengths
BY CommandsAssumption DEF Lengths, ADDRESS_LEN, ADDRESS_BASE58_LEN, DEFAULT_ADDRESS_LEN

\* A pass moves the offset between the ends, and turns at them.
LEMMA ScrollsInside ==
  ASSUME NEW len \in Lengths, NEW o \in -1 .. len - 15, NEW d \in {-1, 1},
         d = 1 => o <= len - 16, d = -1 => o >= 0, Scroll(o, d, len)
  PROVE  /\ Inside(len)' /\ current_offset' = o + d
         /\ Turns(o + d, len) /\ d = -1 <=> o + d = -1
         /\ o + d < len
<1>1. len \in Int /\ len >= 24 /\ len <= 35
  BY DEF Lengths
<1>2. current_offset' = o + d
  BY <1>1 DEF Scroll, FarOut
<1>3. CASE d = 1
  <2>1. o + d \in 0 .. len - 15 /\ (Turns(o + d, len) <=> o + d = len - 15)
    BY <1>1, <1>3 DEF Turns, SCREEN_MAX_CHARS
  <2>2. direction' = IF o + d = len - 15 THEN -1 ELSE 1
    BY <1>3, <2>1 DEF Scroll
  <2> QED
    BY <1>1, <1>2, <1>3, <2>1, <2>2 DEF Inside, SCREEN_MAX_CHARS
<1>4. CASE d = -1
  <2>1. o + d \in -1 .. len - 16 /\ (Turns(o + d, len) <=> o + d = -1)
    BY <1>1, <1>4 DEF Turns, SCREEN_MAX_CHARS
  <2>2. direction' = IF o + d = -1 THEN 1 ELSE -1
    BY <1>4, <2>1 DEF Scroll
  <2> QED
    BY <1>1, <1>2, <1>4, <2>1, <2>2 DEF Inside, SCREEN_MAX_CHARS
<1> QED
  BY <1>3, <1>4

\* What is inside a text is inside a longer one.
LEMMA InsideLonger ==
  ASSUME NEW a \in Lengths, NEW b \in Lengths, a <= b, Inside(a)
  PROVE  Inside(b)
BY DEF Inside, SCREEN_MAX_CHARS, Lengths

LEMMA InsideKept ==
  ASSUME NEW len, Inside(len), UNCHANGED scrollVars
  PROVE  Inside(len)'
BY DEF Inside, scrollVars

\* The transaction screen is drawn with an offset that is inside the address.
LEMMA DrawsInside ==
  ASSUME OneLength, NEW o, NEW d, NEW upper, NEW lower,
         d \in {-1, 1},
         \A len \in AddressLengths :
           o \in -1 .. len - 15 /\ (d = 1 => o <= len - 16) /\ (d = -1 => o >= 0),
         ShowsApproval' => out_len' \in AddressLengths,
         DrawTransaction(o, d, upper, lower)
  PROVE  /\ \A len \in AddressLengths : Inside(len)'
         /\ LabelFitsText'
<1>1. CASE ShowsApproval' /\ Approval(o, d)
  <2>1. PICK len \in AddressLengths : len = out_len'
    BY <1>1
  <2>2. len \in Lengths /\ o \in -1 .. len - 15 /\ Scroll(o, d, len)
    BY <1>1, <2>1, SomeLengths DEF Approval
  <2>3. /\ Inside(len)' /\ current_offset' = o + d
        /\ Turns(o + d, len) /\ d = -1 <=> o + d = -1
        /\ o + d < len
    BY <2>1, <2>2, ScrollsInside
  <2>4. \A l \in AddressLengths : l = len
    BY DEF OneLength
  <2>5. LabelFitsText'
    <3>1. /\ line_2' = IF o + d = -1 THEN Text("amount", shown')
                       ELSE Copied(o, len, shown')
          /\ line_1' = IF o + d = -1 THEN "SKY:" ELSE "Address:"
          /\ interval' = IF o + d = -1 THEN 3600 ELSE 300
      BY <1>1, <2>1, <2>3
         DEF Approval, TurnsToAmount, SCROLLING_TEXT_DELAY, SCROLLING_TEXT_BIG_DELAY
    <3>2. o < len
      BY <2>2 DEF Lengths
    <3>3. Copied(o, len, shown') \in {Plain("blank"), Text("address", shown')}
      BY <3>2 DEF Copied
    <3> QED
      BY <3>1, <3>3 DEF LabelFitsText, Text, Plain, SCROLLING_TEXT_BIG_DELAY
  <2> QED
    BY <2>3, <2>4, <2>5
<1>2. CASE ~ShowsApproval' /\ PlainText(o, d, upper, lower)
  <2>1. current_offset' = o /\ direction' = d
    BY <1>2 DEF PlainText
  <2>2. ASSUME NEW len \in AddressLengths PROVE Inside(len)'
    <3>1. len \in Int
      BY SomeLengths DEF Lengths
    <3> QED
      BY <2>1, <3>1 DEF Inside, SCREEN_MAX_CHARS
  <2>3. LabelFitsText'
    BY <1>2 DEF LabelFitsText, ApprovalIsUp
  <2> QED
    BY <2>2, <2>3
<1> QED
  BY <1>1, <1>2 DEF DrawTransaction

LEMMA RedrawsInside ==
  ASSUME OneLength, \A len \in AddressLengths : Inside(len),
         ShowsApproval' => out_len' \in AddressLengths, Redraw
  PROVE  /\ \A len \in AddressLengths : Inside(len)'
         /\ LabelFitsText'
<1>1. CASE AddressLengths = {}
  BY <1>1 DEF LabelFitsText, ApprovalIsUp
<1>2. CASE AddressLengths # {}
  <2>1. direction \in {-1, 1}
    BY <1>2 DEF Inside
  <2>2. ASSUME NEW len \in AddressLengths
        PROVE  /\ current_offset \in -1 .. len - 15
               /\ direction = 1 => current_offset <= len - 16
               /\ direction = -1 => current_offset >= 0
    <3>1. len \in Int
      BY SomeLengths DEF Lengths
    <3> QED
      BY <3>1 DEF Inside, SCREEN_MAX_CHARS
  <2>3. DrawTransaction(current_offset, direction, line_1, line_2)
    BY DEF Redraw
  <2> QED
    BY <2>1, <2>2, <2>3, DrawsInside
<1> QED
  BY <1>1, <1>2

LEMMA OffersInside ==
  ASSUME OneLength, ShowsApproval' => out_len' \in AddressLengths,
         go_to_transaction_screen
  PROVE  /\ \A len \in AddressLengths : Inside(len)'
         /\ LabelFitsText'
<1>1. PICK o, d, upper, lower :
        o = 0 /\ d = 1 /\ upper = "You received" /\ lower = Plain("new transaction")
  OBVIOUS
<1>2. ASSUME NEW len \in AddressLengths
      PROVE  o \in -1 .. len - 15 /\ (d = 1 => o <= len - 16) /\ (d = -1 => o >= 0)
  <2>1. o = 0 /\ d = 1
    BY <1>1
  <2> QED
    BY <2>1, SomeLengths DEF Lengths
<1>3. DrawTransaction(o, d, upper, lower)
  BY <1>1 DEF go_to_transaction_screen
<1>4. d \in {-1, 1}
  BY <1>1
<1> QED
  BY <1>2, <1>3, <1>4, DrawsInside

LEMMA AddressInside ==
  ASSUME NEW o, NEW d, address_len \in Lengths, o \in -1 .. address_len - 15,
         d \in {-1, 1}, d = 1 => o <= address_len - 16, d = -1 => o >= 0,
         DrawAddress(o, d), address_len' = address_len
  PROVE  Inside(address_len)'
<1>1. PICK len \in Lengths : len = address_len
  OBVIOUS
<1>2. Scroll(o, d, len)
  BY <1>1 DEF DrawAddress
<1>3. Inside(len)'
  BY <1>1, <1>2, ScrollsInside
<1> QED
  BY <1>1, <1>3 DEF Inside

-----------------------------------------------------------------------------
LEMMA NextStringsReady ==
  ASSUME Basics, ButtonReads, ButtonReads', StringsReady, [ScreensNext]_deviceVars
  PROVE  StringsReady'
<1>0. /\ Control /\ result \in 0..5 /\ curr_obj \in 0..255
      /\ \A len \in AddressLengths : len # 0
  BY SomeLengths DEF Basics, TypeOK, SignTypeOK, DecoderTypeOK
<1>a. ASSUME UNCHANGED <<txn_state, curr_obj, caller, result, out_len>>
      PROVE  StringsReady'
  BY <1>a DEF StringsReady
<1>b. ASSUME Idle, UNCHANGED <<txn_state, out_len>> PROVE StringsReady'
  BY <1>b DEF StringsReady, Idle
<1>1. CASE HostSendsPacket
  <2>1. PICK p1, place, len : handleSignTxn(p1, place, len)
    BY <1>1 DEF HostSendsPacket, HostSend
  <2>2. Idle /\ txn_state' = txn_state
    BY <2>1 DEF handleSignTxn, Offer, Decode, Redisplay, Refuse, TakePacket
  <2>3. out_len' = out_len
    BY <1>1 DEF HostSendsPacket, show_message, screenVars, lenVars
  <2> QED
    BY <1>b, <2>2, <2>3
<1>2. CASE (HostStart \/ HostReceive \/ HostDies) /\ UNCHANGED <<loopVars, screenVars>>
  BY <1>2, <1>a DEF HostStart, HostReceive, HostDies, signVars, decoderVars, screenVars,
                    lenVars
<1>3. CASE DecoderRuns
  <2>1. txn_next_elem /\ Running /\ out_len' = out_len
    BY <1>3 DEF DecoderRuns, DeviceComputes, Compute, Running, HandlerReturns,
       HandlerShowsOutput, HandlerFinishes, HandlerContinues, ReturnToMain,
       ButtonReturns, ButtonContinues, ButtonShowsOutput, ButtonShowsAndContinues,
       ButtonReleases, ButtonFinishes, ReturnFromButton, screenVars, lenVars
  <2>2. result = NotThrown /\ caller' = caller /\ caller # "none" /\ initialized
    BY <1>0, <2>1, DecoderSteps DEF Running, Control
  <2>3. CASE SavePartial
    BY <2>1, <2>2, <2>3 DEF SavePartial, StringsReady
  <2>4. CASE ReadInCount \/ ReadInput
    BY <2>4 DEF ReadInCount, ReadInput, StringsReady
  <2>5. CASE ReadOutCount
    <3>1. txn_state = TXN_START_OUT /\ curr_obj' = 0
      BY <2>5 DEF ReadOutCount
    <3>2. caller = "button"
      BY <2>2, <3>1 DEF ButtonReads, Decoding
    <3> QED
      BY <2>2, <3>1, <3>2 DEF StringsReady
  <2>6. CASE ReadOutput
    <3>1. txn_state = TXN_OUT /\ result' \in {TXN_PARTIAL_OUT, TXN_APPROVE_OUT}
      BY <2>6 DEF ReadOutput, Throw
    <3> QED
      BY <2>1, <2>2, <3>1 DEF StringsReady
  <2>7. CASE OutputsRead \/ ComputeSigs \/ ReturnSig \/ ResponseFull \/ SigsReturned
    <3>1. txn_state' # TXN_OUT
      BY <2>7, SignsOn DEF OutputsRead, ComputeSigs, ReturnSig, ResponseFull, SigsReturned
    <3> QED
      BY <3>1 DEF StringsReady
  <2> QED
    BY <2>1, <2>3, <2>4, <2>5, <2>6, <2>7 DEF txn_next_elem
<1>4. CASE HandlerDraws
  <2>1. /\ caller = "handler" /\ txn_state' = txn_state
        /\ out_len' \in AddressLengths \/ out_len' = out_len
    BY <1>4 DEF HandlerDraws, HandlerReturns, HandlerShowsOutput, HandlerFinishes,
       HandlerContinues, ReturnToMain, NewOutputStrings, show_message, screenVars, lenVars
  <2> QED
    BY <1>0, <2>1 DEF StringsReady
<1>5. CASE ButtonDraws
  <2>1. /\ caller' = "none" /\ curr_obj' = curr_obj
        /\ txn_state' \in {txn_state, TXN_COMPUTE_SIGS}
    BY <1>5 DEF ButtonDraws, ButtonReturns, ButtonContinues, ButtonShowsOutput,
       ButtonShowsAndContinues, ButtonReleases, ButtonFinishes, ReturnFromButton
  <2>2. txn_state' = TXN_OUT => txn_state = TXN_OUT /\ curr_obj > 0
    BY <2>1 DEF ButtonReads
  <2>3. IF result \in {TXN_APPROVE_OUT, TXN_PARTIAL_OUT} THEN out_len' \in AddressLengths
        ELSE out_len' = out_len
    BY <1>5 DEF ButtonDraws, NewOutputStrings
  <2> QED
    BY <1>0, <2>2, <2>3 DEF StringsReady
<1>6. CASE RightButton
  <2>1. /\ Idle /\ out_len' = out_len
        /\ txn_state' \in {txn_state, TXN_START_IN}
    BY <1>6 DEF RightButton, UserPressesRight, PressRight, lenVars
  <2> QED
    BY <1>b, <2>1 DEF StringsReady
<1>7. CASE LeftButton \/ DismissButton
  BY <1>7, <1>a DEF LeftButton, DismissButton, ui_idle, UserPressesLeft, PressLeft,
                    UserDismisses, DismissMessage, decoderVars, lenVars
<1>8. CASE ScreensRestart
  <2>1. txn_state' = TXN_START_IN
    BY <1>8 DEF ScreensRestart, LoopRestarts, DeviceRestarts
  <2> QED
    BY <2>1 DEF StringsReady
<1>9. CASE CommandOfOther
  BY <1>9, <1>a, OtherLeaves DEF CommandOfOther
<1>10. CASE OtherReceives /\ UNCHANGED screenVars
  BY <1>10, <1>a DEF OtherReceives, vars, signVars, decoderVars, screenVars, lenVars
<1>11. CASE OpenAddress \/ LeaveAddress \/ Ticker
  BY <1>11, <1>a DEF OpenAddress, LeaveAddress, Ticker, allVars, vars, signVars,
                     decoderVars, lenVars
<1>12. CASE UNCHANGED deviceVars
  BY <1>12, <1>a DEF deviceVars, allVars, vars, signVars, decoderVars, screenVars, lenVars
<1> QED
  BY <1>1, <1>2, <1>3, <1>4, <1>5, <1>6, <1>7, <1>8, <1>9, <1>10, <1>11, <1>12
     DEF ScreensNext

\* A packet redisplays only a transaction that is on the screen.
LEMMA Redisplayed ==
  ASSUME Basics, Attended, HostSend, initialized, screen' = "transaction"
  PROVE  screen = "transaction"
<1>0. PICK place, len : handleSignTxn(IF sent = 0 THEN 0 ELSE 1, place, len)
  BY DEF HostSend
<1>1. ASSUME sent = 0 PROVE FALSE
  <2>1. handleSignTxn(0, place, len)
    BY <1>0, <1>1
  <2>2. Refuse(0, place, len) \/ Offer(0, place, len)
    BY <2>1 DEF handleSignTxn, Decode, Redisplay
  <2> QED
    BY <2>2 DEF Refuse, Offer
<1>2. sent > 0 /\ Active /\ ~Waiting
  BY <1>1 DEF HostSend, Active, Waiting, Basics, TypeOK, HostTypeOK
<1> QED
  BY <1>2 DEF Attended

\* Where an approval is drawn there are strings to draw.
LEMMA ApprovalHasStrings ==
  ASSUME StringsReady, LengthTypes, Idle, ShowsApproval
  PROVE  out_len \in AddressLengths
BY DEF StringsReady, LengthTypes, Idle, ShowsApproval

LEMMA NextTexts ==
  ASSUME OneLength, Basics, Screens, ScreensTypes, Attended, ButtonReads,
         StringsReady', LengthTypes', TextsInside, LabelFitsText,
         [ScreensNext]_deviceVars
  PROVE  TextsInside' /\ LabelFitsText'
<1>0. /\ Control /\ result \in 0..5
      /\ address_up \in BOOLEAN /\ (address_up => screen = "menu")
      /\ address_len \in {DEFAULT_ADDRESS_LEN} \cup AddressLengths
      /\ address_len \in Lengths
  BY SomeLengths DEF Basics, TypeOK, SignTypeOK, DecoderTypeOK, ScreensTypes, MenuTypes,
                     LengthTypes
<1>a. ASSUME Redraw, Idle', screen = "transaction" PROVE TextsInside' /\ LabelFitsText'
  <2>1. address_up' = FALSE
    BY <1>a DEF Redraw, DrawTransaction
  <2>2. ShowsApproval' => out_len' \in AddressLengths
    BY <1>a DEF StringsReady, LengthTypes, Idle, ShowsApproval
  <2>3. \A len \in AddressLengths : Inside(len)
    BY <1>a DEF TextsInside
  <2>4. (\A len \in AddressLengths : Inside(len)') /\ LabelFitsText'
    BY <1>a, <2>2, <2>3, RedrawsInside
  <2> QED
    BY <2>1, <2>4 DEF TextsInside
<1>b. ASSUME address_up' = FALSE, screen' # "transaction"
      PROVE  TextsInside' /\ LabelFitsText'
  BY <1>b DEF TextsInside, LabelFitsText, ApprovalIsUp
<1>c. ASSUME UNCHANGED <<address_up, screen, address_len, scrollVars>>
      PROVE  TextsInside'
  <2>1. \A len : Inside(len) => Inside(len)'
    BY <1>c, InsideKept
  <2>2. Inside(address_len) => Inside(address_len)'
    BY <1>c DEF Inside, scrollVars
  <2> QED
    BY <1>c, <2>1, <2>2 DEF TextsInside
<1>d. ASSUME UNCHANGED <<lineVars, interval, shown>>, ApprovalIsUp' => ApprovalIsUp
      PROVE  LabelFitsText'
  BY <1>d DEF LabelFitsText, lineVars
<1>e. ASSUME UNCHANGED screenVars, screen' = screen, ~Idle' PROVE TextsInside' /\ LabelFitsText'
  BY <1>c, <1>e DEF screenVars, drawVars, lenVars, LabelFitsText, ApprovalIsUp
<1>f. ASSUME UNCHANGED screenVars, UNCHANGED <<screen, shown, txn_state, caller>>
      PROVE  TextsInside' /\ LabelFitsText'
  <2>1. UNCHANGED <<address_up, address_len, scrollVars, lineVars, interval>>
    BY <1>f DEF screenVars, drawVars, lenVars, scrollVars
  <2>2. ApprovalIsUp' => ApprovalIsUp
    BY <1>f DEF ApprovalIsUp, Idle, ShowsApproval
  <2> QED
    BY <1>c, <1>d, <1>f, <2>1, <2>2
<1>1. CASE HostSendsPacket
  <2>0. PICK p1, place, len : handleSignTxn(p1, place, len)
    BY <1>1 DEF HostSendsPacket, HostSend
  <2>1. CASE ~initialized /\ screen' = "transaction" /\ go_to_transaction_screen
    <3>1. Idle'
      BY <2>0, <2>1 DEF handleSignTxn, Offer, Decode, Redisplay, Refuse, TakePacket, Idle
    <3>2. ShowsApproval' => out_len' \in AddressLengths
      BY <3>1 DEF StringsReady, LengthTypes, Idle, ShowsApproval
    <3>3. (\A l \in AddressLengths : Inside(l)') /\ LabelFitsText'
      BY <2>1, <3>2, OffersInside
    <3>4. address_up' = FALSE
      BY <2>1 DEF go_to_transaction_screen, DrawTransaction
    <3> QED
      BY <3>3, <3>4 DEF TextsInside
  <2>2. CASE initialized /\ screen' = "transaction" /\ Idle' /\ Redraw
    BY <1>1, <1>a, <2>2, Redisplayed DEF HostSendsPacket
  <2>3. CASE screen' = "message" /\ show_message
    BY <1>b, <2>3 DEF show_message
  <2>4. CASE caller' = "handler" /\ UNCHANGED screenVars
    <3>1. screen' = screen /\ ~Idle'
      BY <2>0, <2>4 DEF handleSignTxn, Offer, Decode, Redisplay, Refuse, TakePacket, uiVars,
                        Idle
    <3> QED
      BY <1>e, <2>4, <3>1
  <2> QED
    BY <1>1, <2>1, <2>2, <2>3, <2>4 DEF HostSendsPacket
<1>2. CASE (HostStart \/ HostReceive \/ HostDies) /\ UNCHANGED <<loopVars, screenVars>>
  BY <1>2, <1>f DEF HostStart, HostReceive, HostDies, signVars, uiVars, decoderVars
<1>3. CASE DecoderRuns
  <2>1. screen' = screen /\ ~Idle' /\ UNCHANGED screenVars
    <3>1. txn_next_elem /\ UNCHANGED uiVars /\ Running
      BY <1>3 DEF DecoderRuns, DeviceComputes, Compute, Running, HandlerReturns,
         HandlerShowsOutput, HandlerFinishes, HandlerContinues, ReturnToMain,
         ButtonReturns, ButtonContinues, ButtonShowsOutput, ButtonShowsAndContinues,
         ButtonReleases, ButtonFinishes, ReturnFromButton
    <3> QED
      BY <1>3, <3>1, DecoderSteps DEF DecoderRuns, Running, Idle, uiVars
  <2> QED
    BY <1>e, <2>1
<1>4. CASE HandlerDraws
  <2>1. /\ caller = "handler" /\ result # NotThrown /\ txn_state' = txn_state
    BY <1>4 DEF HandlerDraws, HandlerReturns, HandlerShowsOutput, HandlerFinishes,
                HandlerContinues, ReturnToMain
  <2>2. result # TXN_FINISHED => txn_state # TXN_OUT
    BY <1>0, <2>1 DEF Control, ButtonReads, Decoding, Idle
  <2>3. CASE result = TXN_APPROVE_OUT
    BY <1>0, <2>2, <2>3 DEF Control
  <2>4. CASE result = TXN_FINISHED
    <3>1. HandlerFinishes
      BY <1>4, <2>4 DEF HandlerDraws, HandlerReturns, HandlerShowsOutput, HandlerContinues
    <3>2. screen' = "message"
      BY <3>1 DEF HandlerFinishes
    <3>3. address_up' = FALSE
      BY <1>4, <2>4 DEF HandlerDraws, show_message
    <3> QED
      BY <1>b, <3>2, <3>3
  <2>5. CASE result \notin {TXN_APPROVE_OUT, TXN_FINISHED}
    <3>1. UNCHANGED screenVars /\ screen' = screen
      BY <1>4, <2>5 DEF HandlerDraws, HandlerReturns, HandlerShowsOutput, HandlerFinishes,
         HandlerContinues, uiVars
    <3>2. LabelFitsText'
      BY <2>1, <2>2, <2>5 DEF LabelFitsText, ApprovalIsUp, ShowsApproval
    <3> QED
      BY <1>c, <3>1, <3>2 DEF screenVars, drawVars, lenVars
  <2> QED
    BY <2>3, <2>4, <2>5
<1>5. CASE ButtonDraws
  <2>1. Redraw /\ caller = "button" /\ caller' = "none"
    BY <1>5 DEF ButtonDraws, ButtonReturns, ButtonContinues, ButtonShowsOutput,
       ButtonShowsAndContinues, ButtonReleases, ButtonFinishes, ReturnFromButton
  <2> QED
    BY <1>a, <2>1 DEF Screens, Idle
<1>6. CASE RightButton
  <2>1. screen' = screen /\ ~Idle'
    BY <1>6 DEF RightButton, UserPressesRight, PressRight, uiVars, Idle
  <2>2. TextsInside'
    BY <1>6, <1>c, <2>1 DEF RightButton, lenVars
  <2> QED
    BY <2>1, <2>2 DEF LabelFitsText, ApprovalIsUp
<1>7. CASE LeftButton \/ DismissButton
  BY <1>7, <1>b DEF LeftButton, DismissButton, ui_idle, UserPressesLeft, PressLeft,
                    UserDismisses, DismissMessage
<1>8. CASE ScreensRestart
  BY <1>8, <1>b DEF ScreensRestart, LoopRestarts, DeviceRestarts
<1>9. CASE CommandOfOther
  <2>1. /\ OtherCommand /\ UNCHANGED <<address_up, drawVars>>
        /\ address_len' \in AddressLengths \/ address_len' = address_len
    <3>1. tx \in Nat
      BY DEF Basics, TypeOK, SignTypeOK, DecoderTypeOK
    <3> QED
      BY <1>9, <3>1, AddressGiven DEF CommandOfOther
  <2>2. UNCHANGED <<screen, shown, txn_state, caller>>
    BY <2>1, OtherLeaves DEF uiVars
  <2>3. LabelFitsText'
    BY <1>d, <2>1, <2>2 DEF drawVars, scrollVars, ApprovalIsUp, Idle, ShowsApproval
  <2>4. ASSUME address_up PROVE Inside(address_len)'
    <3>1. PICK b \in Lengths : b = address_len' /\ address_len <= b
      <4>1. \/ address_len' = address_len
            \/ address_len = DEFAULT_ADDRESS_LEN /\ address_len' \in AddressLengths
        BY <1>0, <2>1 DEF OneLength
      <4>2. address_len' \in Lengths /\ address_len <= address_len'
        BY <1>0, <4>1, SomeLengths DEF DEFAULT_ADDRESS_LEN, Lengths
      <4> QED
        BY <4>2
    <3>2. Inside(b)
      BY <1>0, <2>4, <3>1, InsideLonger DEF TextsInside
    <3> QED
      BY <2>1, <3>1, <3>2 DEF Inside, drawVars, scrollVars
  <2>5. \A len \in AddressLengths : Inside(len) => Inside(len)'
    BY <2>1, InsideKept DEF drawVars
  <2> QED
    BY <2>1, <2>2, <2>3, <2>4, <2>5 DEF TextsInside
<1>10. CASE OtherReceives /\ UNCHANGED screenVars
  BY <1>10, <1>f DEF OtherReceives, vars, signVars, uiVars, decoderVars
<1>11. CASE OpenAddress
  <2>1. /\ screen' = "menu" /\ address_len' = address_len
        /\ DrawAddress(0, 1)
    BY <1>11 DEF OpenAddress, allVars, vars, signVars, uiVars, lenVars
  <2>2. PICK o, d : o = 0 /\ d = 1
    OBVIOUS
  <2>3. /\ o \in -1 .. address_len - 15 /\ d \in {-1, 1}
        /\ d = 1 => o <= address_len - 16
        /\ d = -1 => o >= 0
    BY <1>0, <2>2 DEF Lengths
  <2>4. DrawAddress(o, d)
    BY <2>1, <2>2
  <2>5. Inside(address_len)'
    BY <1>0, <2>1, <2>3, <2>4, AddressInside
  <2> QED
    BY <2>1, <2>5 DEF TextsInside, LabelFitsText, ApprovalIsUp
<1>12. CASE LeaveAddress
  BY <1>0, <1>12, <1>b DEF LeaveAddress, allVars, vars, signVars, uiVars
<1>13. CASE Ticker
  <2>1. UNCHANGED <<screen, caller, address_len>> /\ Idle
    BY <1>13 DEF Ticker, allVars, vars, signVars, uiVars, decoderVars, lenVars
  <2>2. CASE screen = "transaction" /\ Redraw
    BY <1>a, <2>1, <2>2 DEF Idle
  <2>3. CASE address_up /\ DrawAddress(current_offset, direction)
    <3>1. Inside(address_len)
      BY <2>3 DEF TextsInside
    <3>2. /\ current_offset \in -1 .. address_len - 15 /\ direction \in {-1, 1}
          /\ direction = 1 => current_offset <= address_len - 16
          /\ direction = -1 => current_offset >= 0
      BY <1>0, <3>1 DEF Inside, SCREEN_MAX_CHARS, Lengths
    <3>3. Inside(address_len)'
      BY <1>0, <2>1, <2>3, <3>2, AddressInside
    <3>4. screen' = "menu"
      BY <1>0, <2>1, <2>3
    <3> QED
      BY <3>3, <3>4 DEF TextsInside, LabelFitsText, ApprovalIsUp
  <2> QED
    BY <1>13, <2>2, <2>3 DEF Ticker
<1>14. CASE UNCHANGED deviceVars
  BY <1>14, <1>f DEF deviceVars, allVars, vars, signVars, uiVars, decoderVars
<1> QED
  BY <1>1, <1>2, <1>3, <1>4, <1>5, <1>6, <1>7, <1>8, <1>9, <1>10, <1>11, <1>12, <1>13, <1>14
     DEF ScreensNext

\* A start, and a restart, is before any text has been scrolled.
LEMMA InitTexts == ScreensInit => Attended /\ StringsReady /\ TextsInside /\ LabelFitsText
<1>1. Init => ~initialized /\ screen = "menu" /\ txn_state = TXN_START_IN
  BY DEF Init, SignInit, DecoderInit
<1>2. ScreensInit => Init /\ ~address_up
  BY DEF ScreensInit, LoopInit
<1> QED
  BY <1>1, <1>2 DEF Attended, StringsReady, TextsInside, LabelFitsText, ApprovalIsUp

LEMMA SessionTexts ==
  ASSUME ~Eager, FirstOutputFits, OneLength
  PROVE  ScreensSpec => [](/\ ScreensTypes /\ StringsReady /\ TextsInside
                           /\ LabelFitsText)
<1> DEFINE Before == /\ Basics /\ Screens /\ ScreensTypes
                     /\ Patience /\ ButtonReads
           IInv   == Attended /\ StringsReady /\ TextsInside /\ LabelFitsText
<1>1. ScreensSpec => []Before
  BY SessionTypes, ScreensAddNothing, LoopOutputs, PTL
<1>2. Before /\ Before' /\ IInv /\ [ScreensNext]_deviceVars => IInv'
  <2> SUFFICES ASSUME Before, Before', IInv, [ScreensNext]_deviceVars PROVE IInv'
    OBVIOUS
  <2>1. Attended'
    BY SessionOrOther, NextAttended, OtherAttended DEF Patience
  <2>2. StringsReady'
    BY NextStringsReady
  <2>3. TextsInside' /\ LabelFitsText'
    BY <2>2, NextTexts DEF ScreensTypes
  <2> QED
    BY <2>1, <2>2, <2>3
<1>3. ScreensInit => IInv
  BY InitTexts
<1> QED
  BY <1>1, <1>2, <1>3, PTL DEF ScreensSpec

\* If every address has the same length and the first packet of a transaction
\* holds its first output, no scrolled text is followed past one character
\* before its start, or past the line that holds its end: whatever the two
\* screens that share the offset and the direction do one after the other.
THEOREM ScreensScrollInside ==
  ~Eager /\ FirstOutputFits /\ OneLength => (ScreensSpec => []ScrollStaysInside)
<1> SUFFICES ASSUME ~Eager, FirstOutputFits, OneLength
             PROVE  ScreensSpec => []ScrollStaysInside
  OBVIOUS
<1>1. ScreensTypes /\ StringsReady /\ TextsInside => ScrollStaysInside
  <2> SUFFICES ASSUME ScreensTypes, StringsReady, TextsInside PROVE ScrollStaysInside
    OBVIOUS
  <2>1. ApprovalIsUp => out_len \in AddressLengths
    BY ApprovalHasStrings DEF ScreensTypes, ApprovalIsUp
  <2>2. address_up => Inside(address_len)
    BY DEF TextsInside
  <2>3. ApprovalIsUp => Inside(out_len)
    BY <2>1 DEF TextsInside, ApprovalIsUp
  <2> QED
    BY <2>2, <2>3 DEF ScrollStaysInside, Inside
<1> QED
  BY <1>1, SessionTexts, PTL

\* For the same addresses and transactions, an approval has the amount under
\* SKY for the long delay, the address under Address for the short one, and
\* both are of the strings that were prepared last.
THEOREM ScreensLabelFits ==
  ~Eager /\ FirstOutputFits /\ OneLength => (ScreensSpec => []LabelFitsText)
<1> SUFFICES ASSUME ~Eager, FirstOutputFits, OneLength
             PROVE  ScreensSpec => []LabelFitsText
  OBVIOUS
<1> QED
  BY SessionTexts, PTL

\* No drawing puts an output past the user, or another one's strings before
\* him.
THEOREM ScreensShowOutputs ==
  ~Eager /\ FirstOutputFits =>
    (ScreensSpec => [](EveryOutputSeen /\ ApprovalShowsCurrentOutput))
<1> SUFFICES ASSUME ~Eager, FirstOutputFits
             PROVE  ScreensSpec => [](EveryOutputSeen /\ ApprovalShowsCurrentOutput)
  OBVIOUS
<1>1. LoopSpec => []EveryOutputSeen
  BY LoopShowsOutputs
<1>2. LoopSpec => []ApprovalShowsCurrentOutput
  BY LoopShowsCurrent
<1> QED
  BY <1>1, <1>2, ScreensAddNothing, PTL

\* What a user who is asked to approve an output reads on the lower line, an
\* amount or an address, is of the very output that the decoder has read last.
ApprovalReadsTrue ==
  ApprovalWaits /\ initialized /\ line_2.kind # "blank" =>
    line_2.kind \in {"amount", "address"} /\ line_2.of = cur_output

\* From the promise of the session that the strings are those of the output
\* and that of the screen that the lines are those of the strings.
THEOREM ScreensReadTrue ==
  ~Eager /\ FirstOutputFits /\ OneLength => (ScreensSpec => []ApprovalReadsTrue)
<1> SUFFICES ASSUME ~Eager, FirstOutputFits, OneLength
             PROVE  ScreensSpec => []ApprovalReadsTrue
  OBVIOUS
<1>1. LabelFitsText /\ ApprovalShowsCurrentOutput => ApprovalReadsTrue
  <2> SUFFICES ASSUME LabelFitsText, ApprovalShowsCurrentOutput,
                      ApprovalWaits, initialized, line_2.kind # "blank"
               PROVE  line_2.kind \in {"amount", "address"} /\ line_2.of = cur_output
    BY DEF ApprovalReadsTrue
  <2>1. line_2.kind \in {"amount", "address"} /\ line_2.of = shown
    BY DEF LabelFitsText, ApprovalWaits
  <2>2. shown = cur_output
    BY DEF ApprovalShowsCurrentOutput, ApprovalWaits, ApprovalIsUp, Approving
  <2> QED
    BY <2>1, <2>2
<1>2. ScreensSpec => []LabelFitsText
  BY ScreensLabelFits
<1>3. ScreensSpec => []ApprovalShowsCurrentOutput
  BY ScreensShowOutputs, PTL
<1> QED
  BY <1>1, <1>2, <1>3, PTL
=============================================================================
