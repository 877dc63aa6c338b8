---------------------------- MODULE Conversions ----------------------------
(***************************************************************************)
(* The conversions of the program: the text of an address, the text of an  *)
(* amount, the bytes of a signature.  They share no state, so a behaviour  *)
(* is one conversion.                                                      *)
(***************************************************************************)
EXTENDS Base58, AmountText, SignatureTLV

conversionVars == <<base58Vars, amountVars, tlvVars>>

SignInit == tlv = <<>> /\ signature = <<>>

Init == Base58Init /\ AmountInit /\ SignInit

Next ==
  \/ (Init \/ loop # "returned") /\ Base58Next /\ UNCHANGED <<amountVars, tlvVars>>
  \/ (Init \/ stripping) /\ AmountNext /\ UNCHANGED <<base58Vars, tlvVars>>
  \/ Init /\ sign /\ UNCHANGED <<base58Vars, amountVars>>

Spec == Init /\ [][Next]_conversionVars
=============================================================================
