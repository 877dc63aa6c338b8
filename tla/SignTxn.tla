------------------------------ MODULE SignTxn ------------------------------
(***************************************************************************)
(* The device's side of signing: the APDU handler of INS_SIGN_TRANSACTION  *)
(* (apdu_handlers.c), the buttons of the transaction screen                *)
(* (ui/newTransaction.c) and of the message screen (ui/info_message.c),    *)
(* around the decoder of TxnDecoder.                                       *)
(*                                                                         *)
(* Both the handler and the right button call txn_next_elem: they set      *)
(* caller, the decoder runs until it throws, and the action of the caller  *)
(* that handles the thrown value clears caller again.  The program has a   *)
(* single thread: no APDU and no button is served while caller is set.     *)
(*                                                                         *)
(* A command is answered later, by a handler or by a button, whichever     *)
(* reaches io_async_exchange_*; awaiting says whether a command still      *)
(* waits.  An answer that no command waits for reaches nobody.             *)
(***************************************************************************)
EXTENDS TxnDecoder

INS_RET_SUCCESS == 36864   \* 0x9000
SW_ERROR        == 1712    \* 0x6B0

VARIABLES
  screen,    \* what is displayed, hence which button handler is installed
  shown,     \* place of the output whose strings the approval screen holds
  awaiting,  \* a command has been received and not answered
  reply      \* the answer on its way to the host, NoReply if there is none

uiVars   == <<screen, shown>>
ioVars   == <<awaiting, reply>>
signVars == <<decoderVars, uiVars, ioVars>>

Reply(sw, data, len) == [sw |-> sw, data |-> data, len |-> len]
NoReply              == Reply(0, <<>>, 0)

Idle == caller = "none"

\* io_exchange(CHANNEL_APDU | IO_RETURN_AFTER_TX, len)
io_exchange_with_code(sw, data, len) ==
  /\ awaiting' = FALSE
  /\ reply' = IF awaiting THEN Reply(sw, data, len) ELSE reply

io_async_exchange_ok    == io_exchange_with_code(INS_RET_SUCCESS, response, tx)
io_async_exchange_error == io_exchange_with_code(SW_ERROR, <<>>, 0)

prepare_output_approval == shown' = cur_output

-----------------------------------------------------------------------------
(* handleSignTxn, from the arrival of an APDU to its return or to its call *)
(* of txn_next_elem.                                                       *)

\* The decoder is given the packet and the length of the response is reset.
TakePacket(place, len) ==
  /\ Idle
  /\ dataBuffer' = place /\ dataLength' = len
  /\ tx' = 0 /\ response' = <<>>

Unattended_InOutputs ==
  \/ txn_state <= TXN_OUT
  \/ txn_state \in {TXN_RET_SIGS, TXN_COMPUTE_SIGS}

\* The handler lets the decoder go on in these states, without the user.
Unattended ==
  \/ txn_state < TXN_START_OUT
  \/ txn_state \in {TXN_RET_SIGS, TXN_COMPUTE_SIGS}

Offer(p1, place, len) ==
  /\ ~initialized /\ p1 = 0
  /\ TakePacket(place, len)
  /\ screen' = "transaction"
  /\ awaiting' = TRUE /\ reply' = NoReply
  /\ UNCHANGED <<initialized, txn_state, curr_obj, txnVars, buffer, offset,
                 caller, result, shown>>

Decode(p1, place, len) ==
  /\ initialized /\ p1 = 1 /\ Unattended
  /\ TakePacket(place, len)
  /\ caller' = "handler"
  /\ awaiting' = TRUE /\ reply' = NoReply
  /\ UNCHANGED <<initialized, txn_state, curr_obj, txnVars, buffer, offset,
                 result, uiVars>>

Redisplay_AnyP1(p1, place, len) ==
  /\ initialized /\ ~Unattended
  /\ TakePacket(place, len)
  /\ screen' = "transaction"
  /\ awaiting' = TRUE /\ reply' = NoReply
  /\ UNCHANGED <<initialized, txn_state, curr_obj, txnVars, buffer, offset,
                 caller, result, shown>>

Redisplay(p1, place, len) ==
  /\ initialized /\ p1 = 1 /\ ~Unattended
  /\ TakePacket(place, len)
  /\ screen' = "transaction"
  /\ awaiting' = TRUE /\ reply' = NoReply
  /\ UNCHANGED <<initialized, txn_state, curr_obj, txnVars, buffer, offset,
                 caller, result, shown>>

Refuse_KeepsOpen(p1, place, len) ==
  /\ ~(~initialized /\ p1 = 0) /\ ~(initialized /\ p1 = 1)
  /\ TakePacket(place, len)
  /\ screen' = "message"
  /\ awaiting' = FALSE /\ reply' = Reply(SW_ERROR, <<>>, 0)
  /\ UNCHANGED <<initialized, txn_state, curr_obj, txnVars, buffer, offset,
                 caller, result, shown>>

Refuse(p1, place, len) ==
  /\ ~(~initialized /\ p1 = 0) /\ ~(initialized /\ p1 = 1)
  /\ TakePacket(place, len)
  /\ initialized' = FALSE
  /\ screen' = "message"
  /\ awaiting' = FALSE /\ reply' = Reply(SW_ERROR, <<>>, 0)
  /\ UNCHANGED <<txn_state, curr_obj, txnVars, buffer, offset, caller, result,
                 shown>>

handleSignTxn(p1, place, len) ==
  \/ Offer(p1, place, len)
  \/ Decode(p1, place, len)
  \/ Redisplay(p1, place, len)
  \/ Refuse(p1, place, len)

-----------------------------------------------------------------------------
(* What handleSignTxn does with the value txn_next_elem has thrown.        *)

\* The handler returns to sky_main, which clears tx before it waits again.
ReturnToMain ==
  /\ caller = "handler" /\ result # NotThrown
  /\ caller' = "none" /\ result' = NotThrown
  /\ tx' = 0 /\ response' = <<>>
  /\ UNCHANGED <<txn_state, curr_obj, txnVars, dataVars>>

HandlerShowsOutput ==
  /\ ReturnToMain
  /\ result = TXN_APPROVE_OUT
  /\ prepare_output_approval
  /\ screen' = "transaction"
  /\ UNCHANGED <<initialized, ioVars>>

HandlerFinishes ==
  /\ ReturnToMain
  /\ result = TXN_FINISHED
  /\ initialized' = FALSE
  /\ io_async_exchange_ok
  /\ screen' = "message"
  /\ UNCHANGED shown

\* TXN_PARTIAL, and every other value: TXN_PARTIAL_OUT among them.
HandlerContinues ==
  /\ ReturnToMain
  /\ result \notin {TXN_APPROVE_OUT, TXN_FINISHED}
  /\ io_async_exchange_ok
  /\ UNCHANGED <<initialized, uiVars>>

HandlerReturns == HandlerShowsOutput \/ HandlerFinishes \/ HandlerContinues

-----------------------------------------------------------------------------
(* transaction_screen_button.                                              *)

PressLeft_Silent ==
  /\ Idle /\ screen = "transaction"
  /\ screen' = "menu"
  /\ UNCHANGED <<decoderVars, shown, ioVars>>

PressLeft ==
  /\ Idle /\ screen = "transaction"
  /\ io_async_exchange_error
  /\ screen' = "menu"
  /\ UNCHANGED <<decoderVars, shown>>

PressRight_KeepsHash ==
  /\ Idle /\ screen = "transaction"
  /\ initialized' = TRUE
  /\ \/ /\ ~initialized
        /\ txn_state' = TXN_START_IN
        /\ offset' = 0
     \/ /\ initialized
        /\ UNCHANGED <<txn_state, offset>>
  /\ caller' = "button"
  /\ UNCHANGED <<in_num, out_num, curr_obj, sig_input, cur_output, hash,
                 inner_hash, buffer, dataBuffer, dataLength, outVars, result,
                 uiVars, ioVars>>

\* The first press of a transaction sets the decoder up; every press runs it.
PressRight ==
  /\ Idle /\ screen = "transaction"
  /\ initialized' = TRUE
  /\ \/ /\ ~initialized
        /\ hash' = EmptyHash
        /\ txn_state' = TXN_START_IN
        /\ offset' = 0
     \/ /\ initialized
        /\ UNCHANGED <<hash, txn_state, offset>>
  /\ caller' = "button"
  /\ UNCHANGED <<in_num, out_num, curr_obj, sig_input, cur_output, inner_hash,
                 buffer, dataBuffer, dataLength, outVars, result, uiVars, ioVars>>

ReturnFromButton ==
  /\ caller = "button" /\ result # NotThrown
  /\ caller' = "none" /\ result' = NotThrown
  /\ UNCHANGED <<initialized, curr_obj, txnVars, dataVars, screen>>

ButtonContinues ==
  /\ ReturnFromButton
  /\ result = TXN_PARTIAL
  /\ io_async_exchange_ok
  /\ UNCHANGED <<txn_state, outVars, shown>>

ButtonShowsOutput_Unprepared ==
  /\ ReturnFromButton
  /\ result = TXN_APPROVE_OUT
  /\ UNCHANGED <<txn_state, outVars, shown, ioVars>>

ButtonShowsOutput ==
  /\ ReturnFromButton
  /\ result = TXN_APPROVE_OUT
  /\ prepare_output_approval
  /\ UNCHANGED <<txn_state, outVars, ioVars>>

ButtonShowsAndContinues_Unprepared ==
  /\ ReturnFromButton
  /\ result = TXN_PARTIAL_OUT
  /\ io_async_exchange_ok
  /\ UNCHANGED <<txn_state, outVars, shown>>

ButtonShowsAndContinues ==
  /\ ReturnFromButton
  /\ result = TXN_PARTIAL_OUT
  /\ prepare_output_approval
  /\ io_async_exchange_ok
  /\ UNCHANGED <<txn_state, outVars>>

\* The inner hash is copied to the start of the response.
ButtonReleases ==
  /\ ReturnFromButton
  /\ result = TXN_READY
  /\ response' = <<HashItem(inner_hash)>>
  /\ tx' = tx + HASH_LEN
  /\ txn_state' = TXN_COMPUTE_SIGS
  /\ io_exchange_with_code(INS_RET_SUCCESS, response', tx')
  /\ UNCHANGED shown

\* The switch has no case for TXN_FINISHED: nothing is answered.
ButtonFinishes ==
  /\ ReturnFromButton
  /\ result = TXN_FINISHED
  /\ UNCHANGED <<txn_state, outVars, shown, ioVars>>

ButtonReturns ==
  \/ ButtonContinues \/ ButtonShowsOutput \/ ButtonShowsAndContinues
  \/ ButtonReleases \/ ButtonFinishes

\* bagl_info_text_button: any button leads back to the menu.
DismissMessage ==
  /\ Idle /\ screen = "message"
  /\ screen' = "menu"
  /\ UNCHANGED <<decoderVars, shown, ioVars>>

-----------------------------------------------------------------------------
SignInit ==
  /\ DecoderInit
  /\ screen = "menu" /\ shown = Garbled
  /\ awaiting = FALSE /\ reply = NoReply

\* What the program does by itself, with neither an APDU nor a button.
Compute ==
  \/ txn_next_elem /\ UNCHANGED <<uiVars, ioVars>>
  \/ HandlerReturns
  \/ ButtonReturns

Replies == [sw : {0, INS_RET_SUCCESS, SW_ERROR}, data : Seq(Item), len : Nat]

SignTypeOK ==
  /\ DecoderTypeOK
  /\ screen \in {"menu", "transaction", "message"}
  /\ shown \in Place
  /\ awaiting \in BOOLEAN
  /\ reply \in Replies
=============================================================================
