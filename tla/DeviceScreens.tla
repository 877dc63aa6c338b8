--------------------------- MODULE DeviceScreens ---------------------------
(***************************************************************************)
(* What the screens of the device show: the two preprocessors that draw    *)
(* the transaction screen (ui/newTransaction.c) and the address screen     *)
(* (ui/getPublicKey.c), and the ticker that redraws them (ui/main_ui.c),   *)
(* around a CommandLoop.                                                   *)
(*                                                                         *)
(* Both screens scroll a text with two globals they share, and every pass  *)
(* of a preprocessor moves it by one character.  A pass is atomic here: it *)
(* ends the action that displays the screen, or it is an action of its own *)
(* when the ticker redraws.                                                *)
(***************************************************************************)
EXTENDS CommandLoop

SCREEN_MAX_CHARS         == 16
SCROLLING_TEXT_DELAY     == 300
SCROLLING_TEXT_BIG_DELAY == 1200

DEFAULT_ADDRESS_LEN == 24   \* "No address generated yet"

VARIABLES
  address_up,     \* the address screen is up, where screen says "menu"
  ux_step_count,  \* whether the ticker redraws: 0 or 4
  current_offset, \* where the scrolled text begins on the screen
  direction,      \* 1 or -1, 0 before anything has been scrolled
  interval,       \* the delay of the ticker, 0 at first
  address_len,    \* strlen of getPublicKeyContext.address
  out_len,        \* strlen of transactionContext.out_address
  line_1,         \* custom_text_line_1, the upper line
  line_2          \* custom_text_line_2: what it is, and of which output

scrollVars == <<current_offset, direction, interval>>
lineVars   == <<line_1, line_2>>
drawVars   == <<scrollVars, lineVars>>
lenVars    == <<address_len, out_len>>
screenVars == <<address_up, ux_step_count, drawVars, lenVars>>
deviceVars == <<allVars, screenVars>>

Text(kind, of) == [kind |-> kind, of |-> of]
Plain(kind)    == Text(kind, Garbled)

-----------------------------------------------------------------------------
(* A pass over a scrolled text: the part at the offset is copied, then the *)
(* offset moves, then the direction turns at either end.                   *)

Turns_OneLate(o, len) == o = -1 \/ o + SCREEN_MAX_CHARS = len + 2

\* "firstly we update current_offset, then wait": o is the updated offset.
Turns(o, len) == o = -1 \/ o + SCREEN_MAX_CHARS = len + 1

\* How far an offset that has passed the end of its text is followed.
FarOut == 40

Scroll(o, d, len) ==
  /\ current_offset' = IF o + d > FarOut THEN FarOut ELSE o + d
  /\ direction' = IF Turns(o + d, len) THEN -d ELSE d

\* What is copied of out_address: the byte before it is a 0, the bytes after
\* it are those of the next fields.
Copied(o, len, place) ==
  IF o = -1 \/ len = 0 THEN Plain("blank")
  ELSE IF o < len THEN Text("address", place) ELSE Plain("stray")

-----------------------------------------------------------------------------
(* transaction_screen_prepro.  The lower line is drawn before the upper.   *)

TurnsToAmount_AtBothEnds(o, d, len) == Turns(o + d, len)

\* The direction has become 1: the left end, where the amount comes up.
TurnsToAmount(o, d, len) == Turns(o + d, len) /\ d = -1

\* The interval is that of the upper line, drawn last: a pause that the lower
\* line has asked for at the right end is lost.
Approval(o, d) ==
  /\ Scroll(o, d, out_len')
  /\ line_2' = IF TurnsToAmount(o, d, out_len') THEN Text("amount", shown')
               ELSE Copied(o, out_len', shown')
  /\ line_1' = IF current_offset' = -1 THEN "SKY:" ELSE "Address:"
  /\ interval' = IF current_offset' = -1 THEN SCROLLING_TEXT_BIG_DELAY * 3
                 ELSE SCROLLING_TEXT_DELAY

\* Any other state: "it should be just a plain text screen".
PlainText(o, d, upper, lower) ==
  /\ line_1' = upper /\ line_2' = lower
  /\ current_offset' = o /\ direction' = d
  /\ interval' = SCROLLING_TEXT_DELAY

DrawTransaction_KeepsAddress(o, d, upper, lower) ==
  /\ UNCHANGED address_up
  /\ \/ ShowsApproval' /\ Approval(o, d)
     \/ ~ShowsApproval' /\ PlainText(o, d, upper, lower)

DrawTransaction(o, d, upper, lower) ==
  /\ address_up' = FALSE
  /\ \/ ShowsApproval' /\ Approval(o, d)
     \/ ~ShowsApproval' /\ PlainText(o, d, upper, lower)

\* UX_DISPLAY(transaction_screen, ...) and UX_REDISPLAY.
Redraw == DrawTransaction(current_offset, direction, line_1, line_2)

go_to_transaction_screen_KeepsLines ==
  /\ ux_step_count' = 4
  /\ DrawTransaction(0, 1, line_1, line_2)

go_to_transaction_screen_NoTicker ==
  /\ UNCHANGED ux_step_count
  /\ DrawTransaction(0, 1, "You received", Plain("new transaction"))

go_to_transaction_screen ==
  /\ ux_step_count' = 4
  /\ DrawTransaction(0, 1, "You received", Plain("new transaction"))

-----------------------------------------------------------------------------
(* ui_address_scrolling_text_prepro.                                       *)

\* The byte before the address is the highest of the path's last word.
EmptyBefore == ~path[4].hard /\ path[4].n < 2^24

\* The copy and the 0 after the 16th character run over the upper line, and
\* over the lower one when 32 characters or more are copied.
DrawAddress(o, d) ==
  /\ Scroll(o, d, address_len)
  /\ interval' = IF Turns(o + d, address_len) THEN SCROLLING_TEXT_BIG_DELAY
                 ELSE SCROLLING_TEXT_DELAY
  /\ line_1' = "torn"
  /\ line_2' = IF address_len - o >= 2 * SCREEN_MAX_CHARS /\ ~(o = -1 /\ EmptyBefore)
               THEN Plain("torn") ELSE line_2

-----------------------------------------------------------------------------
(* The steps of the program, with what they display.                       *)

ui_idle ==
  /\ ux_step_count' = 0
  /\ address_up' = FALSE
  /\ UNCHANGED <<drawVars, lenVars>>

show_message ==
  /\ address_up' = FALSE
  /\ UNCHANGED <<ux_step_count, drawVars, lenVars>>

\* prepare_output_approval copies a new address; its length is not checked.
NewOutputStrings == out_len' \in AddressLengths

HostSendsPacket ==
  /\ HostSend
  /\ \/ /\ ~initialized /\ screen' = "transaction"
        /\ UNCHANGED lenVars
        /\ go_to_transaction_screen
     \/ /\ initialized /\ screen' = "transaction" /\ Idle'
        /\ UNCHANGED <<ux_step_count, lenVars>>
        /\ Redraw
     \/ screen' = "message" /\ Idle' /\ show_message
     \/ caller' = "handler" /\ UNCHANGED screenVars

DecoderRuns == DeviceComputes /\ Running /\ UNCHANGED screenVars

\* handleSignTxn after the decoder has returned to it.
HandlerDraws ==
  /\ HandlerReturns /\ UNCHANGED <<hostVars, historyVars>>
  /\ \/ /\ result = TXN_APPROVE_OUT
        /\ NewOutputStrings /\ Redraw
        /\ UNCHANGED <<ux_step_count, address_len>>
     \/ result = TXN_FINISHED /\ show_message
     \/ result \notin {TXN_APPROVE_OUT, TXN_FINISHED} /\ UNCHANGED screenVars

\* The right button ends in UX_REDISPLAY, whatever was thrown.
ButtonDraws ==
  /\ ButtonReturns /\ UNCHANGED <<hostVars, historyVars>>
  /\ IF result \in {TXN_APPROVE_OUT, TXN_PARTIAL_OUT} THEN NewOutputStrings
     ELSE out_len' = out_len
  /\ Redraw
  /\ UNCHANGED <<ux_step_count, address_len>>

RightButton ==
  /\ UserPressesRight
  /\ line_1' = "Transaction" /\ line_2' = Plain("processing...")
  /\ UNCHANGED <<address_up, ux_step_count, scrollVars, lenVars>>

LeftButton    == UserPressesLeft /\ ui_idle
DismissButton == UserDismisses /\ ui_idle

\* An accepted GET_ADDRESS replaces the address, on the screen too.
CommandOfOther ==
  /\ OtherCommand
  /\ address_len' = IF answer'.ins = INS_GET_ADDRESS /\ answer'.sw = INS_RET_SUCCESS
                    THEN answer'.len - tx ELSE address_len
  /\ UNCHANGED <<address_up, ux_step_count, drawVars, out_len>>

-----------------------------------------------------------------------------
(* The menu, the ticker.                                                   *)

\* Settings, Address: go_to_address_screen.
OpenAddress ==
  /\ Idle /\ screen = "menu" /\ ~address_up
  /\ address_up' = TRUE
  /\ ux_step_count' = 4
  /\ DrawAddress(0, 1)
  /\ UNCHANGED <<allVars, lenVars>>

\* The left button of the address screen; ux_step_count stays.
LeaveAddress ==
  /\ Idle /\ address_up
  /\ address_up' = FALSE
  /\ UNCHANGED <<allVars, ux_step_count, drawVars, lenVars>>

\* SEPROXYHAL_TAG_TICKER_EVENT, when the interval has passed.
Ticker ==
  /\ Idle /\ ux_step_count # 0
  /\ UNCHANGED <<allVars, ux_step_count, lenVars>>
  /\ \/ screen = "transaction" /\ Redraw
     \/ /\ address_up /\ DrawAddress(current_offset, direction)
        /\ UNCHANGED address_up

-----------------------------------------------------------------------------
ScreensInit ==
  /\ LoopInit
  /\ address_up = FALSE /\ ux_step_count = 0
  /\ current_offset = 0 /\ direction = 0 /\ interval = 0
  /\ address_len = DEFAULT_ADDRESS_LEN /\ out_len = 0
  /\ line_1 = "" /\ line_2 = Plain("blank")

ScreensRestart ==
  /\ LoopRestarts
  /\ address_up' = FALSE /\ ux_step_count' = 0
  /\ current_offset' = 0 /\ direction' = 0 /\ interval' = 0
  /\ address_len' = DEFAULT_ADDRESS_LEN /\ out_len' = 0
  /\ line_1' = "" /\ line_2' = Plain("blank")

ScreensNext ==
  \/ HostSendsPacket /\ UNCHANGED loopVars
  \/ (HostStart \/ HostReceive \/ HostDies) /\ UNCHANGED <<loopVars, screenVars>>
  \/ (DecoderRuns \/ HandlerDraws \/ ButtonDraws) /\ UNCHANGED loopVars
  \/ (RightButton \/ LeftButton \/ DismissButton) /\ UNCHANGED loopVars
  \/ ScreensRestart
  \/ CommandOfOther
  \/ OtherReceives /\ UNCHANGED screenVars
  \/ OpenAddress \/ LeaveAddress \/ Ticker

ScreensSpec == ScreensInit /\ [][ScreensNext]_deviceVars

\* The program runs and its ticker ticks; nobody has to press or to send.
ScreensFairSpec ==
  /\ ScreensSpec
  /\ WF_deviceVars((DecoderRuns \/ HandlerDraws \/ ButtonDraws)
                    /\ UNCHANGED loopVars)
  /\ WF_deviceVars(Ticker)

-----------------------------------------------------------------------------
(* Properties.                                                             *)

Kinds == {"blank", "new transaction", "processing...", "torn", "stray",
          "address", "amount"}

\* The globals of main_ui.c and the strings of ux.h keep their types; an
\* address screen is up only over the menu.
ScreensTypeOK ==
  /\ address_up \in BOOLEAN /\ (address_up => screen = "menu")
  /\ ux_step_count \in {0, 4}
  /\ current_offset \in -1..FarOut /\ direction \in {-1, 0, 1}
  /\ interval \in {0, SCROLLING_TEXT_DELAY, SCROLLING_TEXT_BIG_DELAY,
                   SCROLLING_TEXT_BIG_DELAY * 3}
  /\ address_len \in {DEFAULT_ADDRESS_LEN} \cup AddressLengths
  /\ out_len \in {0} \cup AddressLengths
  /\ line_1 \in {"", "You received", "Transaction", "torn", "Address:", "SKY:"}
  /\ line_2 \in [kind : Kinds, of : Place]

ApprovalIsUp == Idle /\ screen = "transaction" /\ ShowsApproval

\* A text is scrolled between its ends and turns there: the copy never starts
\* more than one byte before it, or too late to fill the line.
ScrollStaysInside ==
  LET Inside(len) == /\ current_offset \in -1 .. len + 1 - SCREEN_MAX_CHARS
                     /\ direction = 1 => current_offset <= len - SCREEN_MAX_CHARS
                     /\ direction = -1 => current_offset >= 0
  IN /\ address_up => Inside(address_len)
     /\ ApprovalIsUp => Inside(out_len)

\* "we have 2 lines: info(Address or SKY) and description": an amount stands
\* under SKY, for three times the long delay, and an address under Address,
\* and both are those of the output whose strings were prepared last.
LabelFitsText ==
  ApprovalIsUp =>
    /\ line_2.kind \in {"amount", "address", "blank"}
    /\ line_2.kind = "amount" <=> line_1 = "SKY:"
    /\ line_2.kind = "amount" <=> interval = SCROLLING_TEXT_BIG_DELAY * 3
    /\ line_2.kind # "blank" => line_2.of = shown

\* "it should be just a plain text screen": the texts of an offer, or of a
\* transaction at work, are whole, whatever the address screen has written
\* over them before.
PlainTextIsWhole ==
  Idle /\ screen = "transaction" /\ ~ShowsApproval =>
    \/ line_1 = "You received" /\ line_2 = Plain("new transaction")
    \/ line_1 = "Transaction" /\ line_2 = Plain("processing...")

ApprovalWaits == ApprovalIsUp /\ awaiting

AmountIsOnScreen == ApprovalIsUp /\ line_2 = Text("amount", shown)

\* "we wait until it goes forward and backward and then switch to the screen
\* with SKY": as long as the user does not answer an approval, the amount
\* comes up.
AmountIsShown == ApprovalWaits ~> AmountIsOnScreen \/ ~ApprovalWaits
=============================================================================
