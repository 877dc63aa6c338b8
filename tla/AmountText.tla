----------------------------- MODULE AmountText -----------------------------
(***************************************************************************)
(* The text of an amount on the approval screen (prepare_output_approval   *)
(* of ui/newTransaction.c): coins cut to an int, printed with six decimals *)
(* into a field of SCREEN_MAX_CHARS, and the zeros at its end removed.     *)
(*                                                                         *)
(* The widths are constants: 6 decimals, 32 bits and 16 characters in the  *)
(* program.  A character is a digit, POINT or MINUS.                       *)
(***************************************************************************)
EXTENDS Integers, Sequences, SequencesExt

CONSTANTS
  CoinNumbers,  \* the amounts to be shown, in units of 1 / SKY_COINS
  Decimals,     \* SKY_COINS is 10 to this power
  IntBits,      \* bits of an int
  FieldChars    \* bytes of the field, the 0 byte included

POINT == 10
MINUS == 11

\* The base to the power n.
Power(base, n) ==
  LET power[k \in 0..n] == IF k = 0 THEN 1 ELSE base * power[k - 1]
  IN power[n]

SKY_COINS == Power(10, Decimals)

\* The whole coins that leave room in the field for all the decimals are less
\* than a hundred million of them in the program.
Room == Power(10, FieldChars - 2 - Decimals)

\* There are decimals, an int has room for all such numbers of coins, and the
\* field for any int and the point.
ASSUME AmountAssumption ==
  /\ CoinNumbers \subseteq Nat
  /\ Decimals \in Nat \ {0} /\ IntBits \in Nat \ {0} /\ FieldChars \in Nat
  /\ FieldChars >= Decimals + 3
  /\ Power(2, IntBits - 1) \in Room + 1 .. Power(10, FieldChars - 3)

VARIABLES
  coin_num,   \* the amount being printed
  amount,     \* its text so far
  stripping   \* whether the loop over the zeros is running

amountVars == <<coin_num, amount, stripping>>

-----------------------------------------------------------------------------
\* (int) of an unsigned number.
AsInt(n) ==
  LET low == n % Power(2, IntBits)
  IN IF low < Power(2, IntBits - 1) THEN low ELSE low - Power(2, IntBits)

\* The last k decimal digits of a number, and those it needs.
Padded(n, k) == [p \in 1..k |-> (n \div Power(10, k - p)) % 10]

Needs(n, k) == n < Power(10, k) /\ \A j \in 1..k - 1 : Power(10, j) <= n
Digits(n)   == Padded(n, CHOOSE k \in 1..FieldChars : Needs(n, k))

Signed(n) == IF n < 0 THEN <<MINUS>> \o Digits(-n) ELSE Digits(n)

Printed_Unpadded(n) == Signed(AsInt(n \div SKY_COINS)) \o <<POINT>> \o Digits(n % SKY_COINS)

\* "%d.%06d"; SPRINTF of the SDK writes no more than the field holds.
Printed(n) ==
  LET text == Signed(AsInt(n \div SKY_COINS)) \o <<POINT>>
                \o Padded(n % SKY_COINS, Decimals)
  IN SubSeq(text, 1, IF Len(text) < FieldChars THEN Len(text) ELSE FieldChars - 1)

PrintAmount ==
  /\ ~stripping
  /\ coin_num' \in CoinNumbers
  /\ amount' = Printed(coin_num')
  /\ stripping' = TRUE

StripZero ==
  /\ stripping /\ Last(amount) = 0
  /\ amount' = Front(amount)
  /\ UNCHANGED <<coin_num, stripping>>

ZerosStripped ==
  /\ stripping /\ Last(amount) # 0
  /\ stripping' = FALSE
  /\ UNCHANGED <<coin_num, amount>>

AmountNext == PrintAmount \/ StripZero \/ ZerosStripped

AmountInit == coin_num = 0 /\ amount = <<0, POINT>> /\ stripping = FALSE

-----------------------------------------------------------------------------
(* Properties.                                                             *)

\* What the character at p stands for, in units of 1 / SKY_COINS, where the
\* point is at at.
Value(text, at, p) ==
  IF p = at THEN 0
  ELSE IF p < at THEN text[p] * (Power(10, at - 1 - p) * SKY_COINS)
  ELSE text[p] * Power(10, Decimals + at - p)

\* The number a text stands for.
ReadAmount(text) ==
  LET at == CHOOSE p \in DOMAIN text : text[p] = POINT
      sum[p \in 0..Len(text)] == IF p = 0 THEN 0 ELSE sum[p - 1] + Value(text, at, p)
  IN sum[Len(text)]

\* The whole coins have room in the field next to all the decimals, or are
\* the first that have not: only a zero at the end is cut off.
Shown(n) == n <= Room * SKY_COINS

\* The text on the approval screen is the amount of the output, at every step
\* of the loop that shortens it.
AmountIsExact == Shown(coin_num) => ReadAmount(amount) = coin_num
=============================================================================
