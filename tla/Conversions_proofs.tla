------------------------- MODULE Conversions_proofs -------------------------
(***************************************************************************)
(* What holds of the conversions for every input: encode_base_58 stays in  *)
(* its arrays whatever the address and writes the number that its bytes    *)
(* are, an amount that has room in its field is printed as it is, and the  *)
(* halves of a signature are found wherever the SDK has put them.          *)
(***************************************************************************)
EXTENDS Conversions, Numerals_proofs

-----------------------------------------------------------------------------
(* encode_base_58.                                                         *)

Loops == {"returned", "zeroes", "bytes", "digits", "text"}

Base58Types ==
  /\ loop \in Loops
  /\ input \in [1..ADDRESS_LEN -> Byte]
  /\ pbegin \in 0..ADDRESS_LEN /\ zeroes \in 0..ADDRESS_LEN
  /\ size \in Nat /\ length \in Nat /\ i \in Nat /\ j \in Int
  /\ b58 \in [0..ADDRESS_BASE58_LEN-1 -> 0..57]
  /\ carry \in Byte

\* The loop over the digits goes down from the end of those in use.
Cursors ==
  /\ loop = "zeroes" => zeroes = pbegin /\ length = 0
  /\ loop \in {"bytes", "digits", "text"} =>
       size = DigitsFor(ADDRESS_LEN - zeroes) /\ length <= size
  /\ loop = "digits" => i <= size /\ j = size - 1 - i /\ pbegin < ADDRESS_LEN
  /\ loop = "text" => j \in 0..size
  /\ DOMAIN result \subseteq 1..ADDRESS_BASE58_LEN

Base58Inv == Base58Types /\ Cursors

LEMMA Lengths == ADDRESS_LEN = 25 /\ ADDRESS_BASE58_LEN = 35
BY DEF ADDRESS_LEN, ADDRESS_BASE58_LEN, RIPMD_HASH_LEN, CHECKSUM_LEN

\* The arithmetic of the buffer sizes: as many letters as leading zero bytes,
\* then the digits of the rest, are never more than the 35 of the array.
LEMMA SizeFits ==
  ASSUME NEW z \in 0..ADDRESS_LEN
  PROVE  /\ DigitsFor(ADDRESS_LEN - z) \in 1..ADDRESS_BASE58_LEN
         /\ z + DigitsFor(ADDRESS_LEN - z) <= ADDRESS_BASE58_LEN
BY DEF DigitsFor, ADDRESS_LEN, ADDRESS_BASE58_LEN, RIPMD_HASH_LEN, CHECKSUM_LEN

\* "b58 = b58 * 256 + ch": a digit and a carry of a byte give a digit and a
\* carry of a byte.
LEMMA DigitStep ==
  ASSUME NEW d \in 0..57, NEW c \in Byte
  PROVE  (c + 256 * d) % 58 \in 0..57 /\ (c + 256 * d) \div 58 \in Byte
BY DEF Byte

\* The bytes to be encoded are bytes.
LEMMA AddressBytesType ==
  ASSUME NEW a \in Addresses
  PROVE  AddressBytes(a) \in [1..ADDRESS_LEN -> Byte]
<1>1. a.hash \in [1..RIPMD_HASH_LEN -> Byte] /\ a.version \in Byte
  BY AddressesAssumption
<1>2. Checksum(Append(a.hash, a.version)) \in [1..CHECKSUM_LEN -> Byte]
  BY AddressesAssumption
<1> DEFINE Sum == Checksum(Append(a.hash, a.version))
<1> HIDE DEF Sum
<1>3. \A k \in 1..ADDRESS_LEN :
        (IF k <= RIPMD_HASH_LEN THEN a.hash[k]
         ELSE IF k = RIPMD_HASH_LEN + 1 THEN a.version
         ELSE Sum[k - RIPMD_HASH_LEN - 1]) \in Byte
  BY <1>1, <1>2 DEF Sum, ADDRESS_LEN, RIPMD_HASH_LEN, CHECKSUM_LEN
<1> QED
  BY <1>3 DEF AddressBytes, Sum

LEMMA Base58Start == Init => Base58Inv
BY DEF Init, Base58Init, Base58Inv, Base58Types, Cursors, Loops, Byte,
       ADDRESS_LEN, ADDRESS_BASE58_LEN, RIPMD_HASH_LEN, CHECKSUM_LEN

LEMMA Base58Step ==
  ASSUME Base58Inv, Base58Next
  PROVE  Base58Inv'
<1> USE DEF Base58Inv, Base58Types
<1>1. CASE encode_base_58
  <2>1. input' \in [1..ADDRESS_LEN -> Byte]
    BY <1>1, AddressBytesType DEF encode_base_58
  <2>2. b58' \in [0..ADDRESS_BASE58_LEN-1 -> 0..57]
    BY <1>1 DEF encode_base_58
  <2> QED
    BY <1>1, <2>1, <2>2 DEF encode_base_58, Cursors, Loops, ADDRESS_LEN, RIPMD_HASH_LEN, CHECKSUM_LEN
<1>2. CASE SkipZero
  BY <1>2, SMTT(30) DEF SkipZero, AtLeadingZero, Cursors, Loops, ADDRESS_LEN,
     RIPMD_HASH_LEN, CHECKSUM_LEN
<1>3. CASE FixSize
  <2>1. size' = DigitsFor(ADDRESS_LEN - zeroes')
    BY <1>3 DEF FixSize, Cursors
  <2>2. size' \in 1..ADDRESS_BASE58_LEN /\ length' = 0
    BY <1>3, <2>1, SizeFits DEF FixSize, Cursors
  <2>3. size' \in Nat /\ length' <= size'
    BY <2>2, Lengths
  <2>4. loop' = "bytes" /\ UNCHANGED <<input, pbegin, zeroes, length, b58, carry, i, j, result>>
    BY <1>3 DEF FixSize
  <2> QED
    BY <2>1, <2>3, <2>4 DEF Cursors, Loops
<1>4. CASE TakeByte
  <2>1. carry' \in Byte
    BY <1>4, Lengths DEF TakeByte
  <2> QED
    BY <1>4, <2>1 DEF TakeByte, Cursors, Loops
<1>5. CASE NextDigit
  <2>1. size \in 1..ADDRESS_BASE58_LEN
    BY <1>5, SizeFits DEF NextDigit, Cursors
  <2>2. j \in 0..ADDRESS_BASE58_LEN-1
    <3>1. j # -1 /\ i <= size /\ j = size - 1 - i /\ i \in Nat
      BY <1>5 DEF NextDigit, MoreDigits, Cursors
    <3> QED
      BY <2>1, <3>1, Lengths
  <2>3. (carry + 256 * b58[j]) % 58 \in 0..57 /\ (carry + 256 * b58[j]) \div 58 \in Byte
    BY <2>2, DigitStep
  <2>4. b58' \in [0..ADDRESS_BASE58_LEN-1 -> 0..57] /\ carry' \in Byte
    BY <1>5, <2>3 DEF NextDigit
  <2>5. i' = i + 1 /\ j' = j - 1 /\ i + 1 <= size
    BY <1>5 DEF NextDigit, MoreDigits, Cursors
  <2> QED
    BY <1>5, <2>4, <2>5 DEF NextDigit, Cursors, Loops
<1>6. CASE PassByte
  <2>1. pbegin < ADDRESS_LEN /\ i <= size
    BY <1>6 DEF PassByte, Cursors
  <2>2. pbegin' \in 0..ADDRESS_LEN
    BY <1>6, <2>1, Lengths DEF PassByte
  <2>3. /\ loop' = "bytes" /\ length' = i
        /\ UNCHANGED <<input, zeroes, size, b58, carry, i, j, result>>
    BY <1>6 DEF PassByte
  <2>4. size = DigitsFor(ADDRESS_LEN - zeroes)
    BY <1>6 DEF PassByte, Cursors
  <2> QED
    BY <2>1, <2>2, <2>3, <2>4 DEF Cursors, Loops
<1>7. CASE BytesPassed
  <2>1. size \in Nat /\ length \in Nat /\ length <= size
    BY <1>7 DEF BytesPassed, Cursors
  <2> QED
    BY <1>7, <2>1 DEF BytesPassed, Cursors, Loops
<1>8. CASE SkipDigit
  BY <1>8 DEF SkipDigit, AtIdleDigit, Cursors, Loops
<1>9. CASE WriteText
  <2>1. /\ zeroes \in 0..ADDRESS_LEN /\ j \in 0..size /\ size \in Nat
        /\ zeroes + size <= ADDRESS_BASE58_LEN
    BY <1>9, SizeFits DEF WriteText, Cursors
  <2>2. DOMAIN result' = 1 .. zeroes + size - j
    BY <1>9 DEF WriteText
  <2>3. DOMAIN result' \subseteq 1..ADDRESS_BASE58_LEN
    BY <2>1, <2>2, SMTT(30) DEF ADDRESS_BASE58_LEN, ADDRESS_LEN, RIPMD_HASH_LEN, CHECKSUM_LEN
  <2> QED
    BY <1>9, <2>3 DEF WriteText, Cursors, Loops
<1> QED
  BY <1>1, <1>2, <1>3, <1>4, <1>5, <1>6, <1>7, <1>8, <1>9 DEF Base58Next

LEMMA Base58Stutter ==
  ASSUME Base58Inv, UNCHANGED base58Vars
  PROVE  Base58Inv'
BY DEF Base58Inv, Base58Types, Cursors, base58Vars

LEMMA Base58Implies == Base58Inv => StaysInBuffers
<1> SUFFICES ASSUME Base58Inv PROVE StaysInBuffers
  OBVIOUS
<1> USE DEF Base58Inv, Base58Types
<1>1. loop \in {"digits", "text"} => size \in 1..ADDRESS_BASE58_LEN
  BY SizeFits DEF Cursors
<1>2. loop = "digits" /\ MoreDigits => j \in 0..ADDRESS_BASE58_LEN-1
  <2>1. ASSUME loop = "digits", MoreDigits PROVE j # -1 /\ i <= size /\ j = size - 1 - i
    BY <2>1 DEF MoreDigits, Cursors
  <2>2. ASSUME loop = "digits", MoreDigits PROVE j \in 0..ADDRESS_BASE58_LEN-1
    BY <1>1, <2>1, <2>2, Lengths
  <2> QED
    BY <2>2
<1>3. loop = "text" /\ j # size => j \in 0..ADDRESS_BASE58_LEN-1
  <2>1. ASSUME loop = "text", j # size PROVE j \in 0..size
    BY <2>1 DEF Cursors
  <2>2. ASSUME loop = "text", j # size PROVE j \in 0..ADDRESS_BASE58_LEN-1
    BY <1>1, <2>1, <2>2, Lengths
  <2> QED
    BY <2>2
<1> QED
  BY <1>2, <1>3 DEF StaysInBuffers, Cursors

-----------------------------------------------------------------------------
(* The digits that n bytes need.  Eight more bytes are eleven digits more, *)
(* or twelve.                                                              *)

PowersFitAt(n, p256, p58) == p256[n] <= p58[DigitsFor(n)]

\* The powers up to the seventh, one by one.
LEMMA FewBytesFit ==
  ASSUME NEW p256, NEW p58,
         ArePowers(p256, 256, ADDRESS_LEN), ArePowers(p58, 58, ADDRESS_BASE58_LEN),
         NEW n \in 0..7
  PROVE  PowersFitAt(n, p256, p58)
<1>1. /\ p256[0] = 1 /\ p256[1] = 256 * p256[0] /\ p256[2] = 256 * p256[1]
      /\ p256[3] = 256 * p256[2] /\ p256[4] = 256 * p256[3] /\ p256[5] = 256 * p256[4]
      /\ p256[6] = 256 * p256[5] /\ p256[7] = 256 * p256[6]
  <2>1. \A k \in 1..25 : p256[k] = 256 * p256[k - 1]
    BY Lengths DEF ArePowers
  <2>2. p256[0] = 1
    BY DEF ArePowers
  <2> QED BY <2>1, <2>2
<1>2. /\ p58[0] = 1 /\ p58[1] = 58 * p58[0] /\ p58[2] = 58 * p58[1]
      /\ p58[3] = 58 * p58[2] /\ p58[4] = 58 * p58[3] /\ p58[5] = 58 * p58[4]
      /\ p58[6] = 58 * p58[5] /\ p58[7] = 58 * p58[6] /\ p58[8] = 58 * p58[7]
      /\ p58[9] = 58 * p58[8] /\ p58[10] = 58 * p58[9]
  <2>1. \A k \in 1..35 : p58[k] = 58 * p58[k - 1]
    BY Lengths DEF ArePowers
  <2>2. p58[0] = 1
    BY DEF ArePowers
  <2> QED BY <2>1, <2>2
<1>3. /\ p256[0] <= p58[1] /\ p256[1] <= p58[2] /\ p256[2] <= p58[3] /\ p256[3] <= p58[5]
      /\ p256[4] <= p58[6] /\ p256[5] <= p58[7] /\ p256[6] <= p58[9] /\ p256[7] <= p58[10]
  BY <1>1, <1>2
<1>4. /\ DigitsFor(0) = 1 /\ DigitsFor(1) = 2 /\ DigitsFor(2) = 3 /\ DigitsFor(3) = 5
      /\ DigitsFor(4) = 6 /\ DigitsFor(5) = 7 /\ DigitsFor(6) = 9 /\ DigitsFor(7) = 10
  BY DEF DigitsFor
<1>5. n = 0 \/ n = 1 \/ n = 2 \/ n = 3 \/ n = 4 \/ n = 5 \/ n = 6 \/ n = 7
  OBVIOUS
<1> QED
  BY <1>3, <1>4, <1>5 DEF PowersFitAt

\* From the powers of n to those of n + 8.
LEMMA EightBytesMore ==
  ASSUME NEW p256, NEW p58,
         ArePowers(p256, 256, ADDRESS_LEN), ArePowers(p58, 58, ADDRESS_BASE58_LEN),
         NEW n \in 0..ADDRESS_LEN-8, PowersFitAt(n, p256, p58)
  PROVE  PowersFitAt(n + 8, p256, p58)
<1> DEFINE m == DigitsFor(n + 8) - 11
<1>1. m \in DigitsFor(n)..DigitsFor(n)+1 /\ DigitsFor(n) \in Nat /\ m + 11 \in 0..35 /\ n + 8 <= 25
  BY Lengths DEF DigitsFor
<1>2. p256[n + 8] = 18446744073709551616 * p256[n] /\ p256[n] \in Nat
  <2>1. \A k \in 1..25 : p256[k] = 256 * p256[k - 1]
    BY Lengths DEF ArePowers
  <2>2. /\ p256[n + 1] = 256 * p256[n] /\ p256[n + 2] = 256 * p256[n + 1]
        /\ p256[n + 3] = 256 * p256[n + 2] /\ p256[n + 4] = 256 * p256[n + 3]
        /\ p256[n + 5] = 256 * p256[n + 4] /\ p256[n + 6] = 256 * p256[n + 5]
        /\ p256[n + 7] = 256 * p256[n + 6] /\ p256[n + 8] = 256 * p256[n + 7]
    BY <1>1, <2>1
  <2>3. p256[n] \in Nat
    BY <1>1, Lengths DEF ArePowers
  <2> QED BY <2>2, <2>3
<1> HIDE DEF m
<1>3. p58[m + 11] = 24986644000165537792 * p58[m] /\ p58[m] \in Nat
  <2>1. \A k \in 1..35 : p58[k] = 58 * p58[k - 1]
    BY Lengths DEF ArePowers
  <2>2. /\ p58[m + 1] = 58 * p58[m] /\ p58[m + 2] = 58 * p58[m + 1]
        /\ p58[m + 3] = 58 * p58[m + 2] /\ p58[m + 4] = 58 * p58[m + 3]
        /\ p58[m + 5] = 58 * p58[m + 4] /\ p58[m + 6] = 58 * p58[m + 5]
        /\ p58[m + 7] = 58 * p58[m + 6] /\ p58[m + 8] = 58 * p58[m + 7]
        /\ p58[m + 9] = 58 * p58[m + 8] /\ p58[m + 10] = 58 * p58[m + 9]
        /\ p58[m + 11] = 58 * p58[m + 10]
    BY <1>1, <2>1
  <2>3. p58[m] \in Nat
    BY <1>1, Lengths DEF ArePowers
  <2> QED BY <2>2, <2>3
<1>4. p58[DigitsFor(n)] <= p58[m] /\ p58[DigitsFor(n)] \in Nat
  <2>1. DigitsFor(n) \in 0..ADDRESS_BASE58_LEN /\ m \in DigitsFor(n)..ADDRESS_BASE58_LEN
    BY <1>1, Lengths
  <2>2. p58[DigitsFor(n)] \in Nat
    BY <2>1 DEF ArePowers
  <2>3. ADDRESS_BASE58_LEN \in Nat
    BY Lengths
  <2> HIDE DEF DigitsFor
  <2> QED BY <2>1, <2>2, <2>3, PowersGrow
<1>5. m + 11 = DigitsFor(n + 8)
  BY DEF m, DigitsFor
<1> QED
  BY <1>2, <1>3, <1>4, <1>5 DEF PowersFitAt

\* The buffer of the digits is long enough: log(256) / log(58) is below 138 / 100.
LEMMA PowersFit ==
  ASSUME NEW p256, NEW p58,
         ArePowers(p256, 256, ADDRESS_LEN), ArePowers(p58, 58, ADDRESS_BASE58_LEN),
         NEW n \in 0..ADDRESS_LEN
  PROVE  p256[n] <= p58[DigitsFor(n)]
<1>1. \A k \in 0..7 : PowersFitAt(k, p256, p58)
  BY FewBytesFit
<1>2. \A k \in 0..17 : PowersFitAt(k, p256, p58) => PowersFitAt(k + 8, p256, p58)
  BY EightBytesMore, Lengths
<1>3. \A k \in 8..15 : PowersFitAt(k, p256, p58)
  <2> TAKE k \in 8..15
  <2>1. k - 8 \in 0..7 /\ k - 8 \in 0..17 /\ k - 8 + 8 = k
    OBVIOUS
  <2> QED BY <1>1, <1>2, <2>1
<1>4. \A k \in 16..23 : PowersFitAt(k, p256, p58)
  <2> TAKE k \in 16..23
  <2>1. k - 8 \in 8..15 /\ k - 8 \in 0..17 /\ k - 8 + 8 = k
    OBVIOUS
  <2> QED BY <1>2, <1>3, <2>1
<1>5. \A k \in 24..25 : PowersFitAt(k, p256, p58)
  <2> TAKE k \in 24..25
  <2>1. k - 8 \in 16..23 /\ k - 8 \in 0..17 /\ k - 8 + 8 = k
    OBVIOUS
  <2> QED BY <1>2, <1>4, <2>1
<1>6. n \in 0..7 \/ n \in 8..15 \/ n \in 16..23 \/ n \in 24..25
  BY Lengths
<1> QED
  BY <1>1, <1>3, <1>4, <1>5, <1>6 DEF PowersFitAt

-----------------------------------------------------------------------------
(* The number encode_base_58 carries over from base 256 to base 58.        *)

\* values[n] is the number that the first n bytes of the input are.
InputValues(values) ==
  /\ values \in [0..ADDRESS_LEN -> Nat] /\ values[0] = 0
  /\ Accumulates(values, 256, input, 0, ADDRESS_LEN)

\* Digits as in b58, counted from 1.
Digit(text) == [k \in 1..ADDRESS_BASE58_LEN |-> text[k - 1]]

DigitValues(values, text, from, to) ==
  /\ values \in [0..ADDRESS_BASE58_LEN -> Nat]
  /\ Accumulates(values, 58, Digit(text), from, to)

\* Where a 0 is known: in the bytes passed first and in the digits not yet used.
IdleDigits(text, n) == \A k \in 0..ADDRESS_BASE58_LEN-1 : k < n => text[k] = 0

Zeros ==
  /\ loop # "returned" => zeroes <= pbegin /\ \A k \in 1..zeroes : input[k] = 0
  /\ loop \in {"bytes", "digits", "text"} /\ zeroes < ADDRESS_LEN => input[zeroes + 1] # 0
  /\ loop = "zeroes" => IdleDigits(b58, ADDRESS_BASE58_LEN)
  /\ loop = "bytes" => IdleDigits(b58, size - length)
  /\ loop = "digits" => IdleDigits(b58, IF j + 1 < size - length THEN j + 1 ELSE size - length)
  /\ loop = "text" => IdleDigits(b58, j) /\ pbegin = ADDRESS_LEN
  /\ loop # "digits" => carry = 0

\* Between two bytes the digits are the number of the bytes passed.
WholeNumber ==
  \E bytes, digits :
     /\ InputValues(bytes)
     /\ DigitValues(digits, b58, 0, size) /\ digits[0] = 0
     /\ digits[size] = bytes[pbegin]

\* In the loop over the digits, those up to j are still the number before
\* (old), and those after it, with the carry, the number times 256 plus the
\* byte (new).
HalfNumber ==
  \E bytes, old, new :
     /\ InputValues(bytes)
     /\ DigitValues(old, b58, 0, j + 1) /\ old[0] = 0
     /\ DigitValues(new, b58, j + 1, size)
     /\ new[j + 1] = 256 * old[j + 1] + carry
     /\ new[size] = bytes[pbegin + 1]

NumberKept ==
  /\ loop \in {"bytes", "text"} => WholeNumber
  /\ loop = "digits" => HalfNumber

\* What FixSize has set.
LEMMA SizeInUse ==
  ASSUME Base58Inv, loop \in {"bytes", "digits", "text"}
  PROVE  size \in 1..ADDRESS_BASE58_LEN /\ size = DigitsFor(ADDRESS_LEN - zeroes)
BY SizeFits DEF Base58Inv, Base58Types, Cursors

\* What the invariant says of each variable, in numbers.
LEMMA InNumbers ==
  ASSUME Base58Inv
  PROVE  /\ input \in [1..25 -> 0..255] /\ zeroes \in 0..25 /\ pbegin \in 0..25
         /\ b58 \in [0..34 -> 0..57] /\ carry \in 0..255 /\ length \in Nat
         /\ \A k \in 1..25 : input[k] \in 0..255
<1>1. /\ input \in [1..ADDRESS_LEN -> Byte] /\ zeroes \in 0..ADDRESS_LEN
      /\ pbegin \in 0..ADDRESS_LEN
      /\ b58 \in [0..ADDRESS_BASE58_LEN-1 -> 0..57] /\ carry \in Byte /\ length \in Nat
  BY DEF Base58Inv, Base58Types
<1>2. Byte = 0..255 /\ ADDRESS_LEN = 25 /\ ADDRESS_BASE58_LEN - 1 = 34
  BY Lengths DEF Byte
<1>3. input \in [1..25 -> 0..255]
  BY <1>1, <1>2, Zenon
<1>4. b58 \in [0..34 -> 0..57]
  BY <1>1, <1>2, Zenon
<1>5. zeroes \in 0..25 /\ pbegin \in 0..25 /\ carry \in 0..255 /\ length \in Nat
  BY <1>1, <1>2, Zenon
<1>6. \A k \in 1..25 : input[k] \in 0..255
  BY <1>3, Zenon
<1> QED
  BY <1>3, <1>4, <1>5, <1>6

\* The numbers of the bytes of the input exist, ...
LEMMA InputValuesExist ==
  ASSUME Base58Inv
  PROVE  \E values : InputValues(values)
<1>1. \A k \in 1..ADDRESS_LEN : input[k] \in Nat
  <2>1. \A k \in 1..ADDRESS_LEN : input[k] \in 0..255
    BY InNumbers, Lengths
  <2> QED BY <2>1
<1>2. ADDRESS_LEN \in Nat /\ 256 \in Nat /\ 0 \in Nat
  BY Lengths
<1>3. \E values \in [0..ADDRESS_LEN -> Nat] :
         values[0] = 0 /\ Accumulates(values, 256, input, 0, ADDRESS_LEN)
  BY <1>1, <1>2, ValuesExist, ZenonT(40)
<1> QED
  BY <1>3 DEF InputValues

\* ... and grow from byte to byte, ...
LEMMA InputValue ==
  ASSUME NEW values, InputValues(values), NEW n \in 0..ADDRESS_LEN-1
  PROVE  /\ values[n + 1] = 256 * values[n] + input[n + 1]
         /\ values[n] \in Nat /\ values[n + 1] \in Nat
<1>1. n + 1 \in 1..ADDRESS_LEN /\ n + 1 \in 0+1..ADDRESS_LEN /\ n + 1 - 1 = n
      /\ n \in 0..ADDRESS_LEN /\ n + 1 \in 0..ADDRESS_LEN
  BY Lengths
<1>2. values[n + 1] = 256 * values[n + 1 - 1] + input[n + 1]
  BY <1>1 DEF InputValues, Accumulates
<1> QED
  BY <1>1, <1>2 DEF InputValues

\* ... like those of the digits.
LEMMA DigitValue ==
  ASSUME NEW text, NEW values, NEW from \in Nat, NEW to \in 0..ADDRESS_BASE58_LEN,
         DigitValues(values, text, from, to),
         NEW n \in Nat, from <= n, n < to
  PROVE  values[n + 1] = 58 * values[n] + text[n]
<1>1. n + 1 \in from+1..to /\ n + 1 - 1 = n /\ n + 1 \in 1..ADDRESS_BASE58_LEN
  BY Lengths
<1>2. values[n + 1] = 58 * values[n + 1 - 1] + Digit(text)[n + 1]
  BY <1>1 DEF DigitValues, Accumulates
<1>3. Digit(text)[n + 1] = text[n]
  BY <1>1 DEF Digit
<1> QED
  BY <1>1, <1>2, <1>3

\* How values of digits are put together.
LEMMA DigitValuesAre ==
  ASSUME NEW text, NEW values \in [0..ADDRESS_BASE58_LEN -> Nat],
         NEW from \in Nat, NEW to \in 0..ADDRESS_BASE58_LEN,
         \A n \in from..to-1 : values[n + 1] = 58 * values[n] + text[n]
  PROVE  DigitValues(values, text, from, to)
<1>1. ASSUME NEW k \in from+1..to PROVE values[k] = 58 * values[k - 1] + Digit(text)[k]
  <2>1. k - 1 \in from..to-1 /\ k - 1 + 1 = k /\ k \in 1..ADDRESS_BASE58_LEN
    BY Lengths
  <2>2. values[k - 1 + 1] = 58 * values[k - 1] + text[k - 1]
    BY <2>1
  <2>3. Digit(text)[k] = text[k - 1]
    BY <2>1 DEF Digit
  <2> QED
    BY <2>1, <2>2, <2>3
<1> QED
  BY <1>1 DEF DigitValues, Accumulates

\* Bytes of 0 are the number 0.
LEMMA ZerosAreNothing ==
  ASSUME NEW values, InputValues(values),
         NEW n \in 0..ADDRESS_LEN, \A k \in 1..n : input[k] = 0
  PROVE  values[n] = 0
<1> DEFINE S == {k \in 0..n : values[k] = 0}
<1>1. 0 \in S
  BY Lengths DEF InputValues
<1>2. ASSUME NEW k \in 0..n-1, k \in S PROVE k + 1 \in S
  <2>1. k \in 0..ADDRESS_LEN-1 /\ k + 1 \in 1..n /\ k + 1 \in 0..n
    BY Lengths
  <2>2. values[k + 1] = 256 * values[k] + input[k + 1]
    BY <2>1, InputValue
  <2>3. input[k + 1] = 0 /\ values[k] = 0
    BY <1>2, <2>1
  <2> QED
    BY <2>1, <2>2, <2>3
<1>3. n \in S
  <2>1. n \in Nat /\ n \in 0..n
    BY Lengths
  <2> HIDE DEF S
  <2> QED BY <1>1, <1>2, <2>1, UpTo
<1> QED
  BY <1>3

\* What the bytes up to the one at hand are is below 256 to their number.
LEMMA InputBelowPower ==
  ASSUME Base58Inv, Zeros, loop = "digits",
         NEW bytes, InputValues(bytes), NEW p256, ArePowers(p256, 256, ADDRESS_LEN)
  PROVE  bytes[pbegin + 1] < p256[ADDRESS_LEN - zeroes]
<1>1. /\ pbegin \in 0..24 /\ zeroes \in 0..24 /\ zeroes <= pbegin
      /\ \A k \in 1..zeroes : input[k] = 0
  BY Lengths, SMTT(30) DEF Base58Inv, Base58Types, Cursors, Zeros
<1>2. /\ bytes \in [0..25 -> Nat] /\ bytes[0] = 0
      /\ \A k \in 1..25 : bytes[k] = 256 * bytes[k - 1] + input[k]
  BY Lengths DEF InputValues, Accumulates
<1>3. bytes[zeroes] = 0
  BY <1>1, ZerosAreNothing, Lengths
<1> DEFINE len == pbegin + 1 - zeroes
<1>4. len \in 1..25 /\ zeroes + len = pbegin + 1 /\ len <= 25 - zeroes
  BY <1>1
<1> HIDE DEF len
<1> DEFINE v == [k \in 0..len |-> bytes[zeroes + k]]
           d == [k \in 1..len |-> input[zeroes + k]]
<1>5. \A k \in 0..len : v[k] \in Nat /\ p256[k] \in Nat
  <2>1. \A k \in 0..len : zeroes + k \in 0..25 /\ k \in 0..25
    BY <1>1, <1>4
  <2> QED BY <1>2, <2>1, Lengths DEF ArePowers
<1>6. \A k \in 1..len : d[k] \in Nat /\ d[k] < 256
  <2>1. \A k \in 1..len : zeroes + k \in 1..25
    BY <1>1, <1>4
  <2>2. \A k \in 1..25 : input[k] \in 0..255
    BY InNumbers
  <2> TAKE k \in 1..len
  <2>3. d[k] = input[zeroes + k] /\ input[zeroes + k] \in 0..255
    BY <2>1, <2>2
  <2> HIDE DEF d
  <2> QED BY <2>3
<1>7. Accumulates(v, 256, d, 0, len)
  <2>1. ASSUME NEW k \in 1..len PROVE v[k] = 256 * v[k - 1] + d[k]
    <3>1. zeroes + k \in 1..25 /\ zeroes + k - 1 = zeroes + (k - 1) /\ k \in 0..len /\ k - 1 \in 0..len
      BY <1>1, <1>4
    <3> DEFINE n == zeroes + k
    <3>2. n \in 1..25
      BY <3>1
    <3> HIDE DEF n
    <3>3. bytes[n] = 256 * bytes[n - 1] + input[n]
      BY <1>2, <3>2
    <3>4. bytes[n] = v[k] /\ input[n] = d[k] /\ bytes[n - 1] = v[k - 1]
      BY <1>1, <1>4, <3>1 DEF n
    <3> HIDE DEF v, d
    <3> QED BY <3>3, <3>4
  <2> HIDE DEF v, d
  <2> QED BY <2>1 DEF Accumulates
<1>8. v[0] = 0
  BY <1>1, <1>3, <1>4
<1>9. p256[0] = 1 /\ \A k \in 1..len : p256[k] = 256 * p256[k - 1]
  BY <1>4, Lengths DEF ArePowers
<1>10. len \in Nat /\ len \in 0..len /\ 256 \in Nat
  BY <1>4
<1>11. bytes[zeroes + len] < p256[len]
  <2>1. v[len] < p256[len]
    <3> HIDE DEF v, d
    <3> QED BY <1>5, <1>6, <1>7, <1>8, <1>9, <1>10, ValuesBelowPowers
  <2> QED BY <1>10, <2>1
<1>12. p256[len] <= p256[25 - zeroes]
  <2>1. len \in 0..25 /\ 25 - zeroes \in len..25 /\ 25 \in Nat /\ 256 \in Nat \ {0}
    BY <1>1, <1>4
  <2> QED BY <2>1, PowersGrow, Lengths
<1> QED
  <2>1. bytes[zeroes + len] \in Nat /\ p256[len] \in Nat /\ p256[25 - zeroes] \in Nat
    <3>1. len \in 0..len /\ 25 - zeroes \in 0..25
      BY <1>1, <1>4
    <3> QED BY <1>2, <1>4, <1>5, <3>1, Lengths DEF ArePowers
  <2>2. bytes[zeroes + len] = bytes[pbegin + 1] /\ ADDRESS_LEN - zeroes = 25 - zeroes
    BY <1>4, Lengths
  <2> QED BY <1>11, <1>12, <2>1, <2>2

\* When the loop has gone through all the digits, nothing is left to carry.
LEMMA NothingLeft ==
  ASSUME Base58Inv, Zeros, loop = "digits",
         NEW bytes, InputValues(bytes),
         NEW new, DigitValues(new, b58, 0, size), new[size] = bytes[pbegin + 1]
  PROVE  new[0] = 0
<1>1. size \in 1..35 /\ size = DigitsFor(ADDRESS_LEN - zeroes)
  BY SizeInUse, Lengths
<1>2. PICK p256 : ArePowers(p256, 256, ADDRESS_LEN)
  BY PowersExist, Lengths
<1>3. PICK p58 : ArePowers(p58, 58, ADDRESS_BASE58_LEN)
  BY PowersExist, Lengths
<1>4. bytes[pbegin + 1] < p256[ADDRESS_LEN - zeroes]
  BY <1>2, InputBelowPower
<1>5. p256[ADDRESS_LEN - zeroes] <= p58[size]
  <2>1. ADDRESS_LEN - zeroes \in 0..ADDRESS_LEN
    BY Lengths DEF Base58Inv, Base58Types
  <2> QED BY <1>1, <1>2, <1>3, <2>1, PowersFit
<1>6. \A k \in 0..35 : new[k] \in Nat /\ p58[k] \in Nat
  BY <1>3, Lengths DEF DigitValues, ArePowers
<1>7. ASSUME new[0] >= 1 PROVE FALSE
  <2>1. \A k \in 0..size : new[k] \in Nat /\ p58[k] \in Nat
    BY <1>1, <1>6
  <2>2. \A k \in 1..size : Digit(b58)[k] \in Nat
    BY <1>1, Lengths DEF Digit, Base58Inv, Base58Types
  <2>3. \A k \in 1..size : p58[k] = 58 * p58[k - 1]
    BY <1>1, <1>3, Lengths DEF ArePowers
  <2>4. p58[0] = 1 /\ Accumulates(new, 58, Digit(b58), 0, size)
    BY <1>3 DEF ArePowers, DigitValues
  <2>5. size \in 0..size /\ size \in Nat /\ 58 \in Nat
    BY <1>1
  <2>6. p58[size] <= new[size]
    BY <1>7, <2>1, <2>2, <2>3, <2>4, <2>5, ValuesReachPowers
  <2>7. p256[ADDRESS_LEN - zeroes] \in Nat
    <3>1. ADDRESS_LEN - zeroes \in 0..ADDRESS_LEN
      BY Lengths DEF Base58Inv, Base58Types
    <3> QED BY <1>2, <3>1 DEF ArePowers
  <2>8. p58[size] \in Nat /\ new[size] \in Nat
    BY <2>1, <2>5
  <2> QED
    BY <1>4, <1>5, <2>6, <2>7, <2>8
<1> QED
  <2>1. new[0] \in Nat
    BY <1>6
  <2> QED BY <1>7, <2>1

\* The digits before those in use are 0, so they are the number 0.
LEMMA IdleIsNothing ==
  ASSUME NEW text, NEW n \in 0..ADDRESS_BASE58_LEN, IdleDigits(text, n),
         NEW m \in n..ADDRESS_BASE58_LEN,
         NEW values, DigitValues(values, text, 0, m), values[0] = 0
  PROVE  values[n] = 0
<1> DEFINE S == {k \in 0..n : values[k] = 0}
<1>1. 0 \in S
  BY Lengths
<1>2. ASSUME NEW k \in 0..n-1, k \in S PROVE k + 1 \in S
  <2>1. /\ k \in Nat /\ k < m /\ 0 <= k /\ 0 \in Nat /\ m \in 0..ADDRESS_BASE58_LEN
        /\ k \in 0..ADDRESS_BASE58_LEN-1 /\ k < n /\ k + 1 \in 0..n
    BY Lengths
  <2>2. values[k + 1] = 58 * values[k] + text[k]
    BY <2>1, DigitValue
  <2>3. text[k] = 0 /\ values[k] = 0
    BY <1>2, <2>1 DEF IdleDigits
  <2> QED
    BY <2>1, <2>2, <2>3
<1>3. n \in S
  <2>1. n \in Nat /\ n \in 0..n
    BY Lengths
  <2> HIDE DEF S
  <2> QED BY <1>1, <1>2, <2>1, UpTo
<1> QED
  BY <1>3

\* No byte but zeros is passed, and no digit is in use: both numbers are 0.
LEMMA FixSizeNumber ==
  ASSUME Base58Inv, Zeros, FixSize
  PROVE  Zeros' /\ NumberKept'
<1>1. /\ loop = "zeroes" /\ loop' = "bytes" /\ ~AtLeadingZero
      /\ size' = DigitsFor(ADDRESS_LEN - pbegin)
      /\ UNCHANGED <<input, pbegin, zeroes, length, b58, carry, i, j, result>>
  BY DEF FixSize
<1>2. zeroes = pbegin /\ length = 0 /\ zeroes \in 0..25 /\ pbegin \in 0..25
  BY <1>1, Lengths DEF Base58Inv, Base58Types, Cursors
<1>3. /\ \A k \in 1..zeroes : input[k] = 0
      /\ IdleDigits(b58, ADDRESS_BASE58_LEN) /\ carry = 0
  BY <1>1 DEF Zeros
<1>4. size' \in 1..35
  BY <1>1, <1>2, SizeFits, Lengths
<1>5. Zeros'
  <2>1. zeroes' < ADDRESS_LEN => input'[zeroes' + 1] # 0
    BY <1>1, <1>2 DEF AtLeadingZero
  <2>2. IdleDigits(b58, size - length)'
    BY <1>1, <1>3, Lengths DEF IdleDigits
  <2>3. zeroes' <= pbegin' /\ carry' = 0 /\ \A k \in 1..zeroes' : input'[k] = 0
    BY <1>1, <1>2, <1>3
  <2> QED
    BY <1>1, <2>1, <2>2, <2>3 DEF Zeros
<1>6. PICK bytes : InputValues(bytes)
  BY InputValuesExist
<1>7. bytes[pbegin] = 0
  BY <1>2, <1>3, <1>6, ZerosAreNothing, Lengths
<1> DEFINE zero == [k \in 0..ADDRESS_BASE58_LEN |-> 0]
<1>8. WholeNumber'
  <2>1. InputValues(bytes)'
    BY <1>1, <1>6 DEF InputValues
  <2>2. ASSUME NEW n \in 0..34 PROVE zero[n + 1] = 58 * zero[n] + b58'[n]
    <3>1. n < 35 /\ n \in 0..35 /\ n + 1 \in 0..35
      OBVIOUS
    <3>2. b58'[n] = 0
      BY <1>1, <1>3, <3>1, Lengths DEF IdleDigits
    <3>3. zero[n] = 0 /\ zero[n + 1] = 0
      BY <3>1, Lengths
    <3> QED BY <3>2, <3>3
  <2>3. DigitValues(zero, b58, 0, size)'
    <3>1. zero \in [0..ADDRESS_BASE58_LEN -> Nat]
      OBVIOUS
    <3>2. 0 \in Nat /\ size' \in 0..ADDRESS_BASE58_LEN
      BY <1>4, Lengths
    <3>3. \A n \in 0..size'-1 : n \in 0..34
      <4>1. PICK some \in 1..35 : some = size'
        BY <1>4
      <4>2. \A n \in 0..some-1 : n \in 0..34
        OBVIOUS
      <4> QED BY <4>1, <4>2
    <3> HIDE DEF zero
    <3> QED BY <2>2, <3>1, <3>2, <3>3, DigitValuesAre
  <2>4. zero[0] = 0 /\ zero[size'] = bytes[pbegin']
    BY <1>1, <1>4, <1>7, Lengths
  <2> HIDE DEF zero
  <2> QED BY <2>1, <2>3, <2>4 DEF WholeNumber
<1> QED
  BY <1>1, <1>5, <1>8 DEF NumberKept

\* The byte is the carry: no digit has been replaced yet.
LEMMA TakeByteNumber ==
  ASSUME Base58Inv, Zeros, NumberKept, TakeByte
  PROVE  Zeros' /\ NumberKept'
<1>1. /\ loop = "bytes" /\ pbegin < ADDRESS_LEN /\ loop' = "digits"
      /\ carry' = input[pbegin + 1] /\ i' = 0 /\ j' = size - 1
      /\ UNCHANGED <<input, pbegin, zeroes, size, length, b58, result>>
  BY DEF TakeByte
<1>2. size \in 1..35 /\ pbegin \in 0..24 /\ length \in 0..size
  BY <1>1, SizeInUse, Lengths DEF Base58Inv, Base58Types, Cursors
<1>3. Zeros'
  <2>1. IdleDigits(b58, size - length)
    BY <1>1 DEF Zeros
  <2>2. IdleDigits(b58, IF j + 1 < size - length THEN j + 1 ELSE size - length)'
    <3>1. (IF j' + 1 < size' - length' THEN j' + 1 ELSE size' - length') = size - length
      BY <1>1, <1>2
    <3> QED BY <1>1, <2>1, <3>1 DEF IdleDigits
  <2>3. zeroes <= pbegin /\ \A k \in 1..zeroes : input[k] = 0
    BY <1>1 DEF Zeros
  <2>4. zeroes < ADDRESS_LEN => input[zeroes + 1] # 0
    BY <1>1 DEF Zeros
  <2> QED BY <1>1, <2>2, <2>3, <2>4 DEF Zeros
<1>4. PICK bytes, digits :
         /\ InputValues(bytes)
         /\ DigitValues(digits, b58, 0, size) /\ digits[0] = 0
         /\ digits[size] = bytes[pbegin]
  BY <1>1 DEF NumberKept, WholeNumber
<1>5. PICK total \in Nat : total = bytes[pbegin + 1]
  BY <1>2, <1>4, InputValue, Lengths
<1> DEFINE new == [k \in 0..ADDRESS_BASE58_LEN |-> total]
<1>6. total = 256 * digits[size] + carry'
  BY <1>1, <1>2, <1>4, <1>5, InputValue, Lengths
<1>7. HalfNumber'
  <2>1. InputValues(bytes)'
    BY <1>1, <1>4 DEF InputValues
  <2>2. j' + 1 = size /\ size' = size
    BY <1>1, <1>2
  <2>3. DigitValues(digits, b58, 0, j + 1)'
    BY <1>1, <1>4, <2>2 DEF DigitValues, Accumulates, Digit
  <2>4. DigitValues(new, b58, j + 1, size)'
    <3>1. new \in [0..ADDRESS_BASE58_LEN -> Nat]
      BY <1>5
    <3>2. \A k \in j'+1+1..size' : FALSE
      BY <1>2, <2>2
    <3> HIDE DEF new
    <3> QED BY <3>1, <3>2 DEF DigitValues, Accumulates
  <2>5. new[j' + 1] = 256 * digits[j' + 1] + carry' /\ new[size'] = bytes[pbegin' + 1]
    <3>1. new[size] = total
      BY <1>2, Lengths
    <3> QED BY <1>1, <1>5, <1>6, <2>2, <3>1
  <2> HIDE DEF new
  <2> QED BY <1>4, <2>1, <2>3, <2>4, <2>5 DEF HalfNumber
<1> QED
  BY <1>1, <1>3, <1>7 DEF NumberKept

\* A digit is replaced: what it and the digits before it were (old) is now
\* what it and the digits after it are (new), with the carry.
LEMMA NextDigitNumber ==
  ASSUME Base58Inv, Zeros, NumberKept, NextDigit
  PROVE  Zeros' /\ NumberKept'
<1> DEFINE sum == carry + 256 * b58[j]
<1>1. /\ loop = "digits" /\ loop' = "digits" /\ MoreDigits
      /\ b58' = [b58 EXCEPT ![j] = sum % 58]
      /\ carry' = sum \div 58 /\ i' = i + 1 /\ j' = j - 1
      /\ UNCHANGED <<input, pbegin, zeroes, size, length, result>>
  BY DEF NextDigit
<1>2. /\ size \in 1..35 /\ j \in 0..size-1 /\ length \in Nat
      /\ carry \in 0..255 /\ b58 \in [0..34 -> 0..57]
  <2>1. size \in 1..35
    BY <1>1, SizeInUse, Lengths
  <2>2. j # -1 /\ i <= size /\ j = size - 1 - i /\ i \in Nat
    BY <1>1 DEF MoreDigits, Base58Inv, Base58Types, Cursors
  <2>3. j \in 0..size-1
    BY <2>1, <2>2
  <2> QED BY <2>1, <2>3, InNumbers
<1>3. /\ sum = 58 * carry' + b58'[j] /\ carry' \in Nat /\ b58'[j] \in Nat
      /\ \A k \in 0..34 : k # j => b58'[k] = b58[k]
  <2>1. b58[j] \in 0..57 /\ j \in 0..34
    BY <1>2
  <2>2. sum \in Nat
    BY <1>2, <2>1
  <2>3. b58'[j] = sum % 58
    BY <1>1, <1>2, <2>1
  <2>4. \A k \in 0..34 : k # j => b58'[k] = b58[k]
    BY <1>1, <1>2
  <2> HIDE DEF sum
  <2> QED BY <1>1, <2>2, <2>3, <2>4
<1>4. Zeros'
  <2>1. IdleDigits(b58, IF j + 1 < size - length THEN j + 1 ELSE size - length)
    BY <1>1 DEF Zeros
  <2>2. IdleDigits(b58, IF j + 1 < size - length THEN j + 1 ELSE size - length)'
    <3>1. ASSUME NEW k \in 0..34, k < (IF j' + 1 < size' - length' THEN j' + 1 ELSE size' - length')
          PROVE  b58'[k] = 0
      <4>1. k < j /\ k < size - length
        BY <1>1, <1>2, <3>1
      <4>2. b58[k] = 0
        BY <1>2, <2>1, <4>1, Lengths DEF IdleDigits
      <4> QED BY <1>2, <1>3, <4>1, <4>2
    <3> QED BY <3>1, Lengths DEF IdleDigits
  <2>3. zeroes <= pbegin /\ \A k \in 1..zeroes : input[k] = 0
    BY <1>1 DEF Zeros
  <2>4. zeroes < ADDRESS_LEN => input[zeroes + 1] # 0
    BY <1>1 DEF Zeros
  <2> HIDE DEF sum
  <2> QED BY <1>1, <2>2, <2>3, <2>4 DEF Zeros
<1>5. PICK bytes, old, new :
         /\ InputValues(bytes)
         /\ DigitValues(old, b58, 0, j + 1) /\ old[0] = 0
         /\ DigitValues(new, b58, j + 1, size)
         /\ new[j + 1] = 256 * old[j + 1] + carry
         /\ new[size] = bytes[pbegin + 1]
  BY <1>1 DEF NumberKept, HalfNumber
<1>6. PICK at \in 0..34 : at = j
  BY <1>2
<1>7. PICK total \in Nat : total = 256 * old[at] + carry'
  <2>1. old[at] \in Nat
    BY <1>5, Lengths DEF DigitValues
  <2> HIDE DEF sum
  <2> QED BY <1>3, <2>1
<1> HIDE DEF sum
<1> DEFINE now == [new EXCEPT ![at] = total]
<1>8. /\ now \in [0..ADDRESS_BASE58_LEN -> Nat] /\ now[at] = total
      /\ \A k \in 0..35 : k # at => now[k] = new[k]
  BY <1>5, <1>7, Lengths DEF DigitValues
<1> HIDE DEF now
<1>9. now[at + 1] = 58 * now[at] + b58'[at]
  <2>1. old[at + 1] = 58 * old[at] + b58[at] /\ old[at] \in Nat
    <3>1. 0 \in Nat /\ j + 1 \in 0..ADDRESS_BASE58_LEN /\ 0 <= at /\ at < j + 1 /\ at \in Nat
      BY <1>2, <1>6, Lengths
    <3>2. old[at] \in Nat
      BY <1>5, Lengths DEF DigitValues
    <3> QED BY <1>5, <3>1, <3>2, DigitValue
  <2>2. now[at + 1] = 256 * old[at + 1] + carry
    <3>1. at + 1 = j + 1 /\ at + 1 \in 0..35 /\ at + 1 # at
      BY <1>6
    <3>2. now[at + 1] = new[at + 1]
      BY <1>8, <3>1
    <3> QED BY <1>5, <3>1, <3>2
  <2>3. carry + 256 * b58[at] = 58 * carry' + b58'[at]
    BY <1>3, <1>6 DEF sum
  <2>4. carry \in Nat /\ b58[at] \in Nat /\ carry' \in Nat /\ b58'[at] \in Nat
    BY <1>2, <1>3, <1>6
  <2> DEFINE o == old[at]
             d == b58[at]
             c == carry'
             e == b58'[at]
  <2>5. now[at + 1] = 256 * (58 * o + d) + carry /\ now[at] = 256 * o + c
    BY <1>7, <1>8, <2>1, <2>2
  <2>6. o \in Nat /\ d \in Nat /\ c \in Nat /\ e \in Nat /\ carry \in Nat
    BY <2>1, <2>4
  <2>7. carry + 256 * d = 58 * c + e
    BY <2>3
  <2>8. 256 * (58 * o + d) + carry = 58 * (256 * o + c) + e
    <3> HIDE DEF o, d, c, e
    <3> QED BY <2>6, <2>7
  <2> QED BY <2>5, <2>8
<1>10. HalfNumber'
  <2>1. InputValues(bytes)'
    BY <1>1, <1>5 DEF InputValues
  <2>2. DigitValues(old, b58, 0, j + 1)'
    <3>1. /\ j' + 1 = at /\ 0 \in Nat /\ at \in 0..ADDRESS_BASE58_LEN
          /\ j + 1 \in 0..ADDRESS_BASE58_LEN
      BY <1>1, <1>2, <1>6, Lengths
    <3>2. ASSUME NEW n \in 0..at-1 PROVE old[n + 1] = 58 * old[n] + b58'[n]
      <4>1. n \in Nat /\ 0 <= n /\ n < j + 1 /\ n \in 0..34 /\ n # j
        BY <1>6
      <4>2. old[n + 1] = 58 * old[n] + b58[n]
        BY <1>5, <3>1, <4>1, DigitValue
      <4> QED BY <1>3, <4>1, <4>2
    <3>3. old \in [0..ADDRESS_BASE58_LEN -> Nat]
      BY <1>5 DEF DigitValues
    <3> QED BY <3>1, <3>2, <3>3, DigitValuesAre
  <2>3. DigitValues(now, b58, j + 1, size)'
    <3>1. /\ j' + 1 = at /\ at \in Nat /\ size \in 0..ADDRESS_BASE58_LEN
          /\ j + 1 \in Nat /\ size' = size
      BY <1>1, <1>2, <1>6, Lengths
    <3>2. ASSUME NEW n \in at..size-1 PROVE now[n + 1] = 58 * now[n] + b58'[n]
      <4>1. CASE n = at
        BY <1>9, <4>1
      <4>2. CASE n # at
        <5>1. n \in Nat /\ j + 1 <= n /\ n < size /\ n \in 0..34 /\ n # j /\ n + 1 # at /\ n + 1 \in 0..35 /\ n \in 0..35
          BY <1>2, <1>6, <4>2
        <5>2. new[n + 1] = 58 * new[n] + b58[n]
          BY <1>5, <3>1, <5>1, DigitValue
        <5> QED BY <1>3, <1>6, <1>8, <5>1, <5>2
      <4> QED BY <4>1, <4>2
    <3> QED BY <1>8, <3>1, <3>2, DigitValuesAre
  <2>4. now[j' + 1] = 256 * old[j' + 1] + carry' /\ now[size'] = bytes[pbegin' + 1]
    <3>1. j' + 1 = at /\ size' = size /\ pbegin' = pbegin /\ size \in 0..35 /\ size # at
      BY <1>1, <1>2, <1>6
    <3>2. now[at] = 256 * old[at] + carry'
      BY <1>5, <1>7, <1>8, <3>1
    <3>3. now[size] = bytes[pbegin + 1]
      BY <1>5, <1>8, <3>1
    <3> QED BY <3>1, <3>2, <3>3
  <2> QED BY <1>5, <2>1, <2>2, <2>3, <2>4 DEF HalfNumber
<1> QED
  BY <1>1, <1>4, <1>10 DEF NumberKept

\* The byte is taken in: nothing is left to carry, because the digits suffice
\* or because the loop has stopped among digits that are 0.
LEMMA PassByteNumber ==
  ASSUME Base58Inv, Zeros, NumberKept, PassByte
  PROVE  Zeros' /\ NumberKept'
<1>1. /\ loop = "digits" /\ loop' = "bytes" /\ ~MoreDigits
      /\ length' = i /\ pbegin' = pbegin + 1
      /\ UNCHANGED <<input, zeroes, size, b58, carry, i, j, result>>
  BY DEF PassByte
<1>2. /\ size \in 1..35 /\ i \in 0..size /\ j = size - 1 - i /\ length \in Nat
      /\ pbegin \in 0..24 /\ zeroes \in 0..25
  <2>1. size \in 1..35
    BY <1>1, SizeInUse, Lengths
  <2> QED
    BY <1>1, <2>1, Lengths DEF Base58Inv, Base58Types, Cursors
<1>3. PICK bytes, old, new :
         /\ InputValues(bytes)
         /\ DigitValues(old, b58, 0, j + 1) /\ old[0] = 0
         /\ DigitValues(new, b58, j + 1, size)
         /\ new[j + 1] = 256 * old[j + 1] + carry
         /\ new[size] = bytes[pbegin + 1]
  BY <1>1 DEF NumberKept, HalfNumber
<1>4. PICK at \in 0..35 : at = j + 1
  BY <1>2
<1>5. at = 0 \/ (carry = 0 /\ i >= length)
  BY <1>1, <1>2, <1>4 DEF MoreDigits
<1>6. IdleDigits(b58, at) /\ at = size - i
  <2>1. IdleDigits(b58, IF j + 1 < size - length THEN j + 1 ELSE size - length)
    BY <1>1 DEF Zeros
  <2>2. CASE at = 0
    BY <1>2, <1>4, <2>2, Lengths DEF IdleDigits
  <2>3. CASE i >= length
    <3>1. at <= size - length
      BY <1>2, <1>4, <2>3
    <3> QED BY <1>2, <1>4, <2>1, <3>1, Lengths DEF IdleDigits
  <2> QED BY <1>5, <2>2, <2>3
<1>7. old[at] = 0
  <2>1. at \in 0..ADDRESS_BASE58_LEN /\ at \in at..ADDRESS_BASE58_LEN
    BY Lengths
  <2> QED BY <1>3, <1>4, <1>6, <2>1, IdleIsNothing
<1>8. carry = 0
  <2>1. CASE at = 0
    <3>1. DigitValues(new, b58, 0, size) /\ new[0] = carry
      <4>1. carry \in Nat
        BY DEF Base58Inv, Base58Types, Byte
      <4> QED BY <1>3, <1>4, <1>7, <2>1, <4>1
    <3> QED BY <1>1, <1>3, <3>1, NothingLeft
  <2> QED BY <1>5, <2>1
<1>9. Zeros'
  <2>1. zeroes <= pbegin /\ \A k \in 1..zeroes : input[k] = 0
    BY <1>1 DEF Zeros
  <2>2. zeroes < ADDRESS_LEN => input[zeroes + 1] # 0
    BY <1>1 DEF Zeros
  <2>3. IdleDigits(b58, size - length)'
    BY <1>1, <1>6 DEF IdleDigits
  <2>4. zeroes' <= pbegin'
    BY <1>1, <1>2, <2>1
  <2> QED BY <1>1, <1>8, <2>1, <2>2, <2>3, <2>4 DEF Zeros
<1> DEFINE all == [k \in 0..ADDRESS_BASE58_LEN |-> IF k < at THEN 0 ELSE new[k]]
<1>10. /\ all \in [0..ADDRESS_BASE58_LEN -> Nat] /\ all[0] = 0 /\ all[size] = new[size]
       /\ \A k \in 0..35 : k <= at => all[k] = 0
       /\ \A k \in 0..35 : k >= at => all[k] = new[k]
  <2>1. new \in [0..35 -> Nat] /\ new[at] = 0
    BY <1>3, <1>4, <1>7, <1>8, Lengths DEF DigitValues
  <2> QED BY <1>2, <1>4, <2>1, Lengths
<1> HIDE DEF all
<1>11. WholeNumber'
  <2>1. InputValues(bytes)'
    BY <1>1, <1>3 DEF InputValues
  <2>2. DigitValues(all, b58, 0, size)'
    <3>1. size \in 0..ADDRESS_BASE58_LEN /\ 0 \in Nat /\ j + 1 \in Nat
      BY <1>2, Lengths
    <3>2. ASSUME NEW n \in 0..size-1 PROVE all[n + 1] = 58 * all[n] + b58[n]
      <4>1. n \in 0..34 /\ n \in 0..35 /\ n + 1 \in 0..35
        BY <1>2
      <4>2. CASE n < at
        <5>1. n + 1 <= at /\ n <= at
          BY <4>1, <4>2
        <5>2. b58[n] = 0
          BY <1>6, <4>1, <4>2, Lengths DEF IdleDigits
        <5>3. all[n + 1] = 0 /\ all[n] = 0
          BY <1>10, <4>1, <5>1
        <5> QED BY <5>2, <5>3
      <4>3. CASE n >= at
        <5>1. n \in Nat /\ j + 1 <= n /\ n < size /\ n + 1 >= at
          BY <1>2, <1>4, <4>1, <4>3
        <5>2. new[n + 1] = 58 * new[n] + b58[n]
          BY <1>3, <3>1, <5>1, DigitValue
        <5> QED BY <1>10, <4>1, <4>3, <5>1, <5>2
      <4> QED BY <4>1, <4>2, <4>3
    <3>3. DigitValues(all, b58, 0, size)
      BY <1>10, <3>1, <3>2, DigitValuesAre
    <3> QED BY <1>1, <3>3
  <2>3. all[size'] = bytes[pbegin']
    BY <1>1, <1>3, <1>10
  <2> QED BY <1>10, <2>1, <2>2, <2>3 DEF WholeNumber
<1> QED
  BY <1>1, <1>9, <1>11 DEF NumberKept

\* The array of the digits is cleared.
LEMMA EncodeNumber ==
  ASSUME Base58Inv, Zeros, encode_base_58
  PROVE  Zeros' /\ NumberKept'
<1>1. /\ loop = "returned" /\ loop' = "zeroes" /\ pbegin' = 0 /\ zeroes' = 0
      /\ b58' = [k \in 0..ADDRESS_BASE58_LEN-1 |-> 0] /\ carry' = carry
  BY DEF encode_base_58
<1>2. IdleDigits(b58', ADDRESS_BASE58_LEN)
  BY <1>1 DEF IdleDigits
<1>3. carry' = 0
  BY <1>1 DEF Zeros
<1> QED
  BY <1>1, <1>2, <1>3 DEF Zeros, NumberKept

\* One more leading zero.
LEMMA SkipZeroNumber ==
  ASSUME Base58Inv, Zeros, SkipZero
  PROVE  Zeros' /\ NumberKept'
<1>1. /\ loop = "zeroes" /\ loop' = "zeroes" /\ input[pbegin + 1] = 0
      /\ pbegin' = pbegin + 1 /\ zeroes' = zeroes + 1
      /\ UNCHANGED <<input, b58, carry>>
  BY DEF SkipZero, AtLeadingZero
<1>2. zeroes = pbegin /\ pbegin \in Nat
  BY <1>1, Lengths DEF Base58Inv, Base58Types, Cursors
<1>3. \A k \in 1..zeroes : input[k] = 0
  BY <1>1 DEF Zeros
<1>4. \A k \in 1..zeroes' : input'[k] = 0
  BY <1>1, <1>2, <1>3
<1>5. carry = 0 /\ IdleDigits(b58, ADDRESS_BASE58_LEN)
  BY <1>1 DEF Zeros
<1> QED
  BY <1>1, <1>2, <1>4, <1>5 DEF Zeros, NumberKept, IdleDigits

\* The number of all the bytes is in the digits, ...
LEMMA BytesPassedNumber ==
  ASSUME Base58Inv, Zeros, NumberKept, BytesPassed
  PROVE  Zeros' /\ NumberKept'
<1>1. /\ loop = "bytes" /\ loop' = "text" /\ pbegin = ADDRESS_LEN
      /\ j' = size - length
      /\ UNCHANGED <<input, pbegin, zeroes, size, length, b58, carry, i, result>>
  BY DEF BytesPassed
<1>2. Zeros'
  <2>1. /\ zeroes <= pbegin /\ \A k \in 1..zeroes : input[k] = 0
        /\ IdleDigits(b58, size - length) /\ carry = 0
    BY <1>1 DEF Zeros
  <2>2. zeroes < ADDRESS_LEN => input[zeroes + 1] # 0
    BY <1>1 DEF Zeros
  <2>3. IdleDigits(b58, j)'
    BY <1>1, <2>1 DEF IdleDigits
  <2> QED BY <1>1, <2>1, <2>2, <2>3 DEF Zeros
<1>3. WholeNumber'
  BY <1>1 DEF NumberKept, WholeNumber, InputValues, DigitValues, Accumulates, Digit
<1> QED
  BY <1>1, <1>2, <1>3 DEF NumberKept

\* ... and the digits skipped are 0.
LEMMA SkipDigitNumber ==
  ASSUME Base58Inv, Zeros, NumberKept, SkipDigit
  PROVE  Zeros' /\ NumberKept'
<1>1. /\ loop = "text" /\ loop' = "text" /\ j # size /\ b58[j] = 0 /\ j' = j + 1
      /\ UNCHANGED <<input, pbegin, zeroes, size, length, b58, carry, i, result>>
  BY DEF SkipDigit, AtIdleDigit
<1>2. Zeros'
  <2>1. /\ zeroes <= pbegin /\ \A k \in 1..zeroes : input[k] = 0
        /\ IdleDigits(b58, j) /\ carry = 0 /\ pbegin = ADDRESS_LEN
    BY <1>1 DEF Zeros
  <2>2. zeroes < ADDRESS_LEN => input[zeroes + 1] # 0
    BY <1>1 DEF Zeros
  <2>3. IdleDigits(b58, j)'
    <3>1. j \in Int
      BY DEF Base58Inv, Base58Types
    <3>2. ASSUME NEW k \in 0..34, k < j + 1 PROVE b58[k] = 0
      <4>1. k < j \/ k = j
        BY <3>1, <3>2
      <4> QED BY <1>1, <2>1, <4>1, Lengths DEF IdleDigits
    <3> QED BY <1>1, <3>2, Lengths DEF IdleDigits
  <2> QED BY <1>1, <2>1, <2>2, <2>3 DEF Zeros
<1>3. WholeNumber'
  BY <1>1, SMTT(30) DEF NumberKept, WholeNumber, InputValues, DigitValues, Accumulates, Digit
<1> QED
  BY <1>1, <1>2, <1>3 DEF NumberKept

-----------------------------------------------------------------------------
(* The text stands for the number.                                         *)

\* values[n] is the number that all the n digits are.
AreValues(values, base, digits, n) ==
  /\ base \in Nat /\ n \in Nat /\ Len(digits) = n
  /\ \A k \in 1..n : digits[k] \in Nat
  /\ values \in [0..n -> Nat] /\ values[0] = 0
  /\ Accumulates(values, base, digits, 0, n)

\* What Remainder computes from digit to digit is the remainder of their number.
LEMMA RemainderIs ==
  ASSUME NEW base, NEW p \in Nat \ {0}, NEW n, NEW digits, NEW values,
         AreValues(values, base, digits, n)
  PROVE  Remainder(digits, base, p) = values[n] % p
<1>0. /\ base \in Nat /\ n \in Nat /\ Len(digits) = n
      /\ \A k \in 1..n : digits[k] \in Nat
      /\ values \in [0..n -> Nat] /\ values[0] = 0
      /\ Accumulates(values, base, digits, 0, n)
  BY DEF AreValues
<1> USE <1>0
<1> DEFINE Of(f) == [k \in 0..n |-> IF k = 0 THEN 0 ELSE (base * f[k - 1] + digits[k]) % p]
           g == [k \in 0..n |-> values[k] % p]
           upTo == CHOOSE f : f = Of(f)
<1>1. g = Of(g)
  <2>1. ASSUME NEW k \in 0..n
        PROVE  g[k] = IF k = 0 THEN 0 ELSE (base * g[k - 1] + digits[k]) % p
    <3>1. CASE k = 0
      BY <3>1
    <3>2. CASE k # 0
      <4>1. k \in 1..n /\ k \in 0+1..n /\ k - 1 \in 0..n
        BY <3>2
      <4>2. values[k] = base * values[k - 1] + digits[k]
        BY <4>1 DEF Accumulates
      <4>3. values[k - 1] \in Nat /\ digits[k] \in Nat
        BY <4>1
      <4>4. (base * (values[k - 1] % p) + digits[k]) % p = (base * values[k - 1] + digits[k]) % p
        BY <4>3, RemainderStep, SMTT(30)
      <4>5. g[k] = values[k] % p /\ g[k - 1] = values[k - 1] % p
        BY <4>1
      <4> HIDE DEF g
      <4> QED BY <3>2, <4>2, <4>4, <4>5
    <3> QED BY <3>1, <3>2
  <2>2. g = [k \in 0..n |-> g[k]]
    OBVIOUS
  <2> HIDE DEF g
  <2> QED BY <2>1, <2>2
<1>2. upTo = Of(upTo)
  <2> HIDE DEF g, Of
  <2> QED BY <1>1
<1>3. Remainder(digits, base, p) = upTo[n]
  BY DEF Remainder
<1> HIDE DEF upTo
<1>4. /\ \A k \in 0..n : g[k] = IF k = 0 THEN 0 ELSE (base * g[k - 1] + digits[k]) % p
      /\ \A k \in 0..n : upTo[k] = IF k = 0 THEN 0 ELSE (base * upTo[k - 1] + digits[k]) % p
  <2>1. ASSUME NEW f, f = Of(f)
        PROVE  \A k \in 0..n : f[k] = IF k = 0 THEN 0 ELSE (base * f[k - 1] + digits[k]) % p
    <3>1. \A k \in 0..n : Of(f)[k] = IF k = 0 THEN 0 ELSE (base * f[k - 1] + digits[k]) % p
      OBVIOUS
    <3> HIDE DEF Of
    <3> QED BY <2>1, <3>1
  <2> HIDE DEF Of, g
  <2> QED BY <1>1, <1>2, <2>1
<1> DEFINE S == {k \in 0..n : upTo[k] = g[k]}
<1>5. 0 \in S
  <2> HIDE DEF g
  <2> QED BY <1>4
<1>6. ASSUME NEW k \in 0..n-1, k \in S PROVE k + 1 \in S
  <2>1. k + 1 \in 0..n /\ k + 1 # 0 /\ k + 1 - 1 = k
    OBVIOUS
  <2> HIDE DEF g
  <2> QED BY <1>4, <1>6, <2>1
<1>7. n \in S
  <2>1. n \in 0..n
    OBVIOUS
  <2> HIDE DEF S
  <2> QED BY <1>5, <1>6, <2>1, UpTo
<1> QED
  BY <1>3, <1>7

\* A function on 1..n is a sequence of n elements.
LEMMA LengthOf ==
  ASSUME NEW n \in Nat, NEW S, NEW f \in [1..n -> S]
  PROVE  Len(f) = n
OBVIOUS

\* The digits of the text, the letters for the leading zeros among them, are
\* the number of all the bytes.
LEMMA WrittenNumber ==
  ASSUME Base58Inv, Zeros, NumberKept, WriteText, NEW p \in Nat \ {0}
  PROVE  Remainder(result', 58, p) = Remainder(input', 256, p)
<1>1. /\ loop = "text" /\ input' = input
      /\ result' = [k \in 1 .. zeroes + size - j |->
                      IF k <= zeroes THEN 0 ELSE b58[j + k - zeroes - 1]]
  BY DEF WriteText
<1>2. size \in 1..35 /\ j \in 0..size /\ zeroes \in 0..25 /\ b58 \in [0..34 -> 0..57]
  <2>1. size \in 1..35
    BY <1>1, SizeInUse, Lengths
  <2>2. j \in 0..size
    BY <1>1 DEF Base58Inv, Cursors
  <2> QED BY <2>1, <2>2, InNumbers
<1>3. PICK bytes, digits :
         /\ InputValues(bytes)
         /\ DigitValues(digits, b58, 0, size) /\ digits[0] = 0
         /\ digits[size] = bytes[25]
  <2>1. pbegin = 25
    BY <1>1, Lengths DEF Zeros
  <2> QED BY <1>1, <2>1 DEF NumberKept, WholeNumber
<1>4. Remainder(input', 256, p) = bytes[25] % p
  <2>1. Len(input) = ADDRESS_LEN /\ ADDRESS_LEN \in Nat
    <3>1. input \in [1..ADDRESS_LEN -> Byte] /\ ADDRESS_LEN \in Nat
      BY Lengths DEF Base58Inv, Base58Types
    <3> QED BY <3>1, LengthOf
  <2>2. \A k \in 1..ADDRESS_LEN : input[k] \in Nat
    <3>1. \A k \in 1..ADDRESS_LEN : input[k] \in 0..255
      BY InNumbers, Lengths
    <3> QED BY <3>1
  <2>3. AreValues(bytes, 256, input, ADDRESS_LEN)
    BY <1>3, <2>1, <2>2 DEF AreValues, InputValues
  <2>4. Remainder(input, 256, p) = bytes[ADDRESS_LEN] % p
    BY <2>3, RemainderIs
  <2> QED BY <1>1, <2>4, Lengths
<1>5. PICK n \in 0..60, z \in 0..25, at \in 0..35 : n = zeroes + size - j /\ z = zeroes /\ at = j
  <2>1. zeroes + size - j \in 0..60 /\ zeroes \in 0..25 /\ j \in 0..35
    BY <1>2
  <2> QED BY <2>1
<1>5a. PICK text : text = result'
  OBVIOUS
<1>6. n \in Nat /\ at <= size /\ n = z + size - at
  BY <1>2, <1>5
<1>7. text = [k \in 1..n |-> IF k <= z THEN 0 ELSE b58[at + k - z - 1]]
  BY <1>1, <1>5, <1>5a
<1>8. ASSUME NEW k \in 1..n, k > z
      PROVE  /\ at + k - z - 1 \in 0..34 /\ at + k - z - 1 < size
             /\ at + k - z - 1 \in Nat /\ at + k - z - 1 + 1 = at + k - z
             /\ text[k] = b58[at + k - z - 1]
  <2>1. at + k - z - 1 \in 0..34 /\ at + k - z - 1 < size
    BY <1>2, <1>6, <1>8
  <2>2. text[k] = b58[at + k - z - 1]
    BY <1>6, <1>7, <1>8
  <2> QED BY <1>6, <1>8, <2>1, <2>2
<1>9. \A k \in 1..n : text[k] \in 0..57
  <2> TAKE k \in 1..n
  <2>1. CASE k <= z
    BY <1>7, <2>1
  <2>2. CASE k > z
    BY <1>2, <1>8, <2>2
  <2> QED BY <2>1, <2>2
<1>10. Len(text) = n
  <2>1. text \in [1..n -> 0..57]
    BY <1>7, <1>9
  <2> QED BY <1>6, <2>1, LengthOf
<1>11. digits \in [0..35 -> Nat]
  BY <1>3, Lengths DEF DigitValues
<1>12. digits[at] = 0
  <2>1. IdleDigits(b58, at)
    BY <1>1, <1>5 DEF Zeros
  <2>2. at \in 0..ADDRESS_BASE58_LEN /\ size \in at..ADDRESS_BASE58_LEN
    BY <1>2, <1>6, Lengths
  <2> QED BY <1>3, <2>1, <2>2, IdleIsNothing
<1> DEFINE values == [k \in 0..n |-> IF k <= z THEN 0 ELSE digits[at + k - z]]
<1>13. values \in [0..n -> Nat] /\ values[0] = 0 /\ values[n] = digits[size]
  <2>1. ASSUME NEW k \in 0..n, k > z PROVE at + k - z \in 0..35
    BY <1>2, <1>6, <2>1
  <2>2. values \in [0..n -> Nat]
    BY <1>11, <2>1
  <2>3. values[0] = 0
    BY <1>6
  <2>4. values[n] = digits[size]
    <3>1. n \in 0..n /\ (n <= z => size = at) /\ at + n - z = size
      BY <1>2, <1>6
    <3> QED BY <1>12, <3>1
  <2> QED BY <2>2, <2>3, <2>4
<1>14. ASSUME NEW k \in 1..n PROVE values[k] = 58 * values[k - 1] + text[k]
  <2>1. k \in 0..n /\ k - 1 \in 0..n
    BY <1>6
  <2>2. CASE k <= z
    <3>1. values[k] = 0 /\ values[k - 1] = 0 /\ text[k] = 0
      BY <1>7, <2>1, <2>2
    <3> HIDE DEF values
    <3> QED BY <3>1
  <2>3. CASE k > z
    <3> DEFINE m == at + k - z - 1
    <3>1. /\ m \in 0..34 /\ m < size /\ m \in Nat /\ m + 1 = at + k - z /\ text[k] = b58[m]
          /\ 0 \in Nat /\ 0 <= m /\ size \in 0..ADDRESS_BASE58_LEN
      BY <1>2, <1>8, <2>3, Lengths
    <3>2. digits[m + 1] = 58 * digits[m] + b58[m]
      <4> HIDE DEF m
      <4> QED BY <1>3, <3>1, DigitValue
    <3>3. values[k] = digits[m + 1]
      BY <2>1, <2>3, <3>1
    <3>4. values[k - 1] = digits[m]
      <4>1. CASE k - 1 = z
        <5>1. m = at /\ values[k - 1] = 0
          BY <2>1, <4>1
        <5> QED BY <1>12, <5>1
      <4>2. CASE k - 1 # z
        <5>1. k - 1 > z /\ at + (k - 1) - z = m
          BY <2>3, <4>2
        <5> QED BY <2>1, <5>1
      <4> QED BY <4>1, <4>2
    <3> HIDE DEF m, values
    <3> QED BY <3>1, <3>2, <3>3, <3>4
  <2> QED BY <2>2, <2>3
<1>15. Remainder(text, 58, p) = values[n] % p
  <2> HIDE DEF values
  <2>1. AreValues(values, 58, text, n)
    <3>1. Accumulates(values, 58, text, 0, n)
      BY <1>14 DEF Accumulates
    <3>2. \A k \in 1..n : text[k] \in Nat
      BY <1>9
    <3> QED BY <1>6, <1>10, <1>13, <3>1, <3>2 DEF AreValues
  <2> QED BY <2>1, RemainderIs
<1> QED
  BY <1>3, <1>4, <1>5a, <1>13, <1>15

\* The text has a 0 for each leading zero byte and then begins with another digit.
LEMMA WriteTextNumber ==
  ASSUME Base58Inv, Zeros, NumberKept, WriteText
  PROVE  Zeros' /\ NumberKept' /\ AddressDecodesBack'
<1>1. /\ loop = "text" /\ loop' = "returned" /\ ~AtIdleDigit
      /\ UNCHANGED <<input, pbegin, zeroes, size, length, b58, carry, i, j>>
      /\ result' = [k \in 1 .. zeroes + size - j |->
                      IF k <= zeroes THEN 0 ELSE b58[j + k - zeroes - 1]]
  BY DEF WriteText
<1>2. size \in 1..35 /\ j \in 0..size /\ zeroes \in 0..25 /\ input \in [1..25 -> Byte]
  BY <1>1, SizeInUse, Lengths DEF Base58Inv, Base58Types, Cursors
<1>3. /\ \A k \in 1..zeroes : input[k] = 0
      /\ zeroes < 25 => input[zeroes + 1] # 0
      /\ carry = 0
  BY <1>1, Lengths DEF Zeros
<1>4. LeadingZeros(input) = 1..zeroes
  <2>1. ASSUME NEW k \in 1..25, \A q \in 1..k : input[q] = 0 PROVE k <= zeroes
    <3>1. CASE k > zeroes
      <4>1. zeroes + 1 \in 1..k /\ zeroes < 25
        BY <1>2, <3>1
      <4> QED BY <1>3, <2>1, <4>1
    <3> QED BY <1>2, <3>1
  <2>2. ASSUME NEW k \in 1..zeroes PROVE k \in 1..25 /\ \A q \in 1..k : input[q] = 0
    BY <1>2, <1>3
  <2>3. DOMAIN input = 1..25
    BY <1>2
  <2> QED BY <1>2, <2>1, <2>2, <2>3 DEF LeadingZeros
<1>5. LeadingZeros(result') = 1..zeroes
  <2>1. PICK n \in 0..60, z \in 0..25, at \in 0..35 : n = zeroes + size - j /\ z = zeroes /\ at = j
    <3>1. zeroes + size - j \in 0..60 /\ zeroes \in 0..25 /\ j \in 0..35
      BY <1>2
    <3> QED BY <3>1
  <2>1a. PICK text : text = result'
    OBVIOUS
  <2>2. /\ text = [k \in 1..n |-> IF k <= z THEN 0 ELSE b58[at + k - z - 1]]
        /\ z <= n /\ (z < n => at # size)
    BY <1>1, <1>2, <2>1, <2>1a
  <2>3. z < n => b58[at] # 0
    BY <1>1, <2>1, <2>2 DEF AtIdleDigit
  <2>4. ASSUME NEW k \in 1..n, \A q \in 1..k : text[q] = 0 PROVE k <= z
    <3>1. CASE k > z
      <4>1. z + 1 \in 1..k /\ z + 1 \in 1..n /\ ~(z + 1 <= z) /\ at + (z + 1) - z - 1 = at /\ z < n
        BY <3>1
      <4>2. text[z + 1] = b58[at]
        BY <2>2, <4>1
      <4> QED BY <2>3, <2>4, <4>1, <4>2
    <3> QED BY <3>1
  <2>5. ASSUME NEW k \in 1..z PROVE k \in 1..n /\ \A q \in 1..k : text[q] = 0
    <3>1. k \in 1..n /\ \A q \in 1..k : q \in 1..n /\ q <= z
      BY <2>2
    <3> QED BY <2>2, <3>1
  <2>6. DOMAIN text = 1..n
    BY <2>2
  <2>7. LeadingZeros(text) = 1..z
    <3>1. LeadingZeros(text) = {k \in 1..n : \A q \in 1..k : text[q] = 0}
      BY <2>6 DEF LeadingZeros
    <3>2. \A k \in 1..n : (\A q \in 1..k : text[q] = 0) => k \in 1..z
      BY <2>4
    <3> QED BY <2>5, <3>1, <3>2
  <2> QED BY <2>1, <2>1a, <2>7
<1>6. \A p \in Primes : Remainder(result', 58, p) = Remainder(input', 256, p)
  <2>1. Primes \subseteq Nat \ {0}
    BY DEF Primes
  <2> QED BY <2>1, WrittenNumber
<1>7. AddressDecodesBack'
  <2>1. LeadingZeros(result') = LeadingZeros(input')
    BY <1>1, <1>4, <1>5
  <2> QED BY <1>6, <2>1 DEF AddressDecodesBack
<1> QED
  BY <1>1, <1>3, <1>7 DEF Zeros, NumberKept

-----------------------------------------------------------------------------
Base58Numbers == Base58Inv /\ Zeros /\ NumberKept /\ AddressDecodesBack

\* Initially no text has been written.
LEMMA Base58NumbersStart == Init => Base58Numbers
<1> SUFFICES ASSUME Init PROVE Base58Numbers
  OBVIOUS
<1>1. loop = "returned" /\ carry = 0 /\ result = <<>>
  BY DEF Init, Base58Init
<1> QED
  BY <1>1, Base58Start DEF Base58Numbers, Zeros, NumberKept, AddressDecodesBack

\* The inductive step, action by action.
LEMMA Base58NumbersStep ==
  ASSUME Base58Numbers, Base58Next
  PROVE  Base58Numbers'
<1>1. Base58Inv /\ Zeros /\ NumberKept /\ Base58Inv'
  BY Base58Step DEF Base58Numbers
<1>2. ASSUME loop' # "returned" PROVE AddressDecodesBack'
  BY <1>2 DEF AddressDecodesBack
<1>3. CASE encode_base_58
  BY <1>1, <1>2, <1>3, EncodeNumber DEF encode_base_58, Base58Numbers
<1>4. CASE SkipZero
  <2>1. loop' # "returned"
    BY <1>4 DEF SkipZero
  <2> QED BY <1>1, <1>2, <1>4, <2>1, SkipZeroNumber DEF Base58Numbers
<1>5. CASE FixSize
  <2>1. loop' # "returned"
    BY <1>5 DEF FixSize
  <2> QED BY <1>1, <1>2, <1>5, <2>1, FixSizeNumber DEF Base58Numbers
<1>6. CASE TakeByte
  <2>1. loop' # "returned"
    BY <1>6 DEF TakeByte
  <2> QED BY <1>1, <1>2, <1>6, <2>1, TakeByteNumber DEF Base58Numbers
<1>7. CASE NextDigit
  <2>1. loop' # "returned"
    BY <1>7 DEF NextDigit
  <2> QED BY <1>1, <1>2, <1>7, <2>1, NextDigitNumber DEF Base58Numbers
<1>8. CASE PassByte
  <2>1. loop' # "returned"
    BY <1>8 DEF PassByte
  <2> QED BY <1>1, <1>2, <1>8, <2>1, PassByteNumber DEF Base58Numbers
<1>9. CASE BytesPassed
  <2>1. loop' # "returned"
    BY <1>9 DEF BytesPassed
  <2> QED BY <1>1, <1>2, <1>9, <2>1, BytesPassedNumber DEF Base58Numbers
<1>10. CASE SkipDigit
  <2>1. loop' # "returned"
    BY <1>10 DEF SkipDigit
  <2> QED BY <1>1, <1>2, <1>10, <2>1, SkipDigitNumber DEF Base58Numbers
<1>11. CASE WriteText
  BY <1>1, <1>11, WriteTextNumber DEF Base58Numbers
<1> QED
  BY <1>3, <1>4, <1>5, <1>6, <1>7, <1>8, <1>9, <1>10, <1>11 DEF Base58Next

\* The other conversions leave the text alone.
LEMMA Base58NumbersStutter ==
  ASSUME Base58Numbers, UNCHANGED base58Vars
  PROVE  Base58Numbers'
<1>1. UNCHANGED <<loop, input, pbegin, zeroes, size, length, b58, carry, i, j, result>>
  BY DEF base58Vars
<1>2. Base58Inv'
  BY Base58Stutter DEF Base58Numbers
<1>3. Zeros'
  BY <1>1 DEF Base58Numbers, Zeros, IdleDigits
<1>4. NumberKept'
  BY <1>1 DEF Base58Numbers, NumberKept, WholeNumber, HalfNumber, InputValues, DigitValues,
              Accumulates, Digit
<1>5. AddressDecodesBack'
  BY <1>1 DEF Base58Numbers, AddressDecodesBack, LeadingZeros, Remainder
<1> QED
  BY <1>2, <1>3, <1>4, <1>5 DEF Base58Numbers

-----------------------------------------------------------------------------
(* The text of an amount: powers of ten, and the digits of a number.       *)

\* The recursion of Power has the powers for its values.
LEMMA PowerIs ==
  ASSUME NEW base \in Nat, NEW len \in Nat, NEW powers, ArePowers(powers, base, len)
  PROVE  Power(base, len) = powers[len]
<1> DEFINE Steps(f) == f = [k \in 0..len |-> IF k = 0 THEN 1 ELSE base * f[k - 1]]
           f == CHOOSE g : Steps(g)
<1>1. Steps(powers)
  BY DEF ArePowers
<1>2. Steps(f)
  <2> HIDE DEF Steps
  <2> QED BY <1>1
<1>3. Power(base, len) = f[len]
  BY DEF Power
<1> HIDE DEF f
<1> DEFINE S == {k \in 0..len : f[k] = powers[k]}
<1>4. 0 \in S
  BY <1>1, <1>2
<1>5. ASSUME NEW n \in 0..len-1, n \in S PROVE n + 1 \in S
  <2>1. n + 1 \in 0..len /\ n + 1 # 0 /\ n + 1 - 1 = n
    OBVIOUS
  <2>2. f[n + 1] = base * f[n] /\ powers[n + 1] = base * powers[n]
    BY <1>1, <1>2, <2>1
  <2> QED
    BY <1>5, <2>1, <2>2
<1>6. len \in S
  <2> HIDE DEF S
  <2>1. \A n \in 0..len : n \in S
    BY <1>4, <1>5, UpTo
  <2> QED BY <2>1
<1> QED
  BY <1>3, <1>6

\* ... and so are all of them.
LEMMA PowerAt ==
  ASSUME NEW base \in Nat, NEW len \in Nat, NEW powers, ArePowers(powers, base, len),
         NEW n \in 0..len
  PROVE  Power(base, n) = powers[n]
<1> DEFINE low == [k \in 0..n |-> powers[k]]
<1>1. ArePowers(low, base, n)
  BY DEF ArePowers
<1>2. low[n] = powers[n]
  OBVIOUS
<1> HIDE DEF low
<1> QED
  BY <1>1, <1>2, PowerIs

\* Power by its two equations.
LEMMA PowerSteps ==
  ASSUME NEW base \in Nat \ {0}, NEW n \in Nat
  PROVE  /\ Power(base, 0) = 1
         /\ Power(base, n + 1) = base * Power(base, n)
         /\ Power(base, n) \in Nat \ {0}
<1>1. PICK powers : ArePowers(powers, base, n + 1)
  BY PowersExist
<1>2. /\ Power(base, 0) = powers[0] /\ Power(base, n) = powers[n]
      /\ Power(base, n + 1) = powers[n + 1]
  BY <1>1, PowerAt
<1>3. powers[0] <= powers[n]
  BY <1>1, PowersGrow
<1> QED
  BY <1>1, <1>2, <1>3 DEF ArePowers

\* A smaller power is no larger.
LEMMA PowerGrows ==
  ASSUME NEW base \in Nat \ {0}, NEW n \in Nat, NEW m \in 0..n
  PROVE  Power(base, m) <= Power(base, n)
<1>1. PICK powers : ArePowers(powers, base, n)
  BY PowersExist
<1>2. Power(base, m) = powers[m] /\ Power(base, n) = powers[n]
  BY <1>1, PowerAt
<1> QED
  BY <1>1, <1>2, PowersGrow

\* The powers of the program.
LEMMA TenPowers ==
  ASSUME NEW e \in Nat
  PROVE  Power(10, e) \in Nat \ {0}
BY PowerSteps

LEMMA TwoPowers ==
  ASSUME NEW e \in Nat
  PROVE  Power(2, e) \in Nat \ {0} /\ Power(2, e + 1) = 2 * Power(2, e)
BY PowerSteps

\* A decimal digit, and what it adds to those before it.
LEMMA PaddedDigit ==
  ASSUME NEW m \in Nat, NEW k \in Nat, NEW p \in 1..k
  PROVE  /\ Padded(m, k)[p] \in 0..9
         /\ (m \div Power(10, k - p)) * Power(10, k - p)
              = (m \div Power(10, k - (p - 1))) * Power(10, k - (p - 1))
                + Padded(m, k)[p] * Power(10, k - p)
<1> DEFINE e == k - p
           t == Power(10, e)
           q == m \div t
           a == q \div 10
           d == q % 10
<1>1. e \in Nat /\ k - (p - 1) = e + 1
  OBVIOUS
<1>2. t \in Nat \ {0} /\ Power(10, e + 1) = 10 * t
  <2> HIDE DEF e
  <2> QED BY <1>1, PowerSteps
<1>3. Padded(m, k)[p] = d
  BY DEF Padded
<1> HIDE DEF e, t
<1>4. q \in Nat /\ a = m \div (10 * t)
  <2>1. q \in Nat
    BY <1>2
  <2>2. (m \div t) \div 10 = m \div (10 * t)
    BY <1>2, QuotientStep
  <2> QED BY <2>1, <2>2
<1>5. q = 10 * a + d /\ a \in Nat /\ d \in 0..9
  <2> HIDE DEF q
  <2> QED BY <1>4
<1> HIDE DEF q, a, d
<1>6. q * t = a * (10 * t) + d * t
  <2>1. q * t = (10 * a) * t + d * t
    BY <1>2, <1>5
  <2>2. (10 * a) * t = a * (10 * t)
    BY <1>2, <1>5
  <2> QED BY <2>1, <2>2
<1>7. (m \div Power(10, k - (p - 1))) * Power(10, k - (p - 1)) = a * (10 * t)
  BY <1>1, <1>2, <1>4
<1> QED
  BY <1>3, <1>5, <1>6, <1>7 DEF e, t, q

\* A number below a power has no digits from there on.
LEMMA NoDigits ==
  ASSUME NEW m \in Nat, NEW p \in Nat, m < p
  PROVE  m \div p = 0
<1>1. PICK z : z = 0
  OBVIOUS
<1>2. (p * z + m) \div p = z
  BY <1>1, QuotientUnique
<1>3. p * z + m = m
  BY <1>1
<1> QED
  BY <1>1, <1>2, <1>3

\* Down to the last digit it is the whole number.
LEMMA AllDigits ==
  ASSUME NEW m \in Nat
  PROVE  (m \div Power(10, 0)) * Power(10, 0) = m
<1>1. Power(10, 0) = 1
  BY PowerSteps
<1>2. m \div 1 = m
  OBVIOUS
<1> QED
  BY <1>1, <1>2

\* k digits are a text of k characters.
LEMMA PaddedText ==
  ASSUME NEW m \in Nat, NEW k \in Nat
  PROVE  Padded(m, k) \in Seq(0..11) /\ Len(Padded(m, k)) = k
<1>1. \A p \in 1..k : Padded(m, k)[p] \in 0..11
  <2> SUFFICES ASSUME NEW p \in 1..k PROVE Padded(m, k)[p] \in 0..11
    OBVIOUS
  <2>1. Padded(m, k)[p] \in 0..9
    BY PaddedDigit
  <2> QED BY <2>1
<1>2. Padded(m, k) \in [1..k -> 0..11]
  BY <1>1 DEF Padded
<1> QED
  BY <1>2

\* sums are the numbers that the first characters of a text stand for.
AmountSums(text, at, sums) ==
  /\ text \in Seq(0..11) /\ at \in DOMAIN text /\ Len(text) <= at + Decimals
  /\ \A p \in DOMAIN text : text[p] = POINT <=> p = at
  /\ sums \in [0..Len(text) -> Nat] /\ sums[0] = 0
  /\ \A p \in 1..Len(text) : sums[p] = sums[p - 1] + Value(text, at, p)

\* The recursion of ReadAmount has these sums for its values.
LEMMA ReadsAmount ==
  ASSUME NEW text, NEW at, NEW sums, AmountSums(text, at, sums)
  PROVE  ReadAmount(text) = sums[Len(text)]
<1> DEFINE len == Len(text)
           Steps(f) == f = [p \in 0..len |-> IF p = 0 THEN 0 ELSE f[p - 1] + Value(text, at, p)]
           f == CHOOSE g : Steps(g)
<1>0. len \in Nat
  BY DEF AmountSums
<1>1. Steps(sums)
  BY DEF AmountSums
<1>2. Steps(f)
  <2> HIDE DEF Steps
  <2> QED BY <1>1
<1>3. at = CHOOSE p \in DOMAIN text : text[p] = POINT
  BY DEF AmountSums
<1>4. ReadAmount(text) = f[len]
  BY <1>3 DEF ReadAmount
<1> HIDE DEF f, len
<1> DEFINE S == {p \in 0..len : f[p] = sums[p]}
<1>5. 0 \in S
  BY <1>0, <1>1, <1>2
<1>6. ASSUME NEW n \in 0..len-1, n \in S PROVE n + 1 \in S
  <2>1. n + 1 \in 0..len /\ n + 1 # 0 /\ n + 1 - 1 = n
    BY <1>0
  <2>2. \A g : Steps(g) => g[n + 1] = g[n] + Value(text, at, n + 1)
    <3> SUFFICES ASSUME NEW g, Steps(g) PROVE g[n + 1] = g[n] + Value(text, at, n + 1)
      OBVIOUS
    <3>1. g = [p \in 0..len |-> IF p = 0 THEN 0 ELSE g[p - 1] + Value(text, at, p)]
      OBVIOUS
    <3> HIDE DEF Steps, len
    <3>2. \A x \in 0..len : g[x] = IF x = 0 THEN 0 ELSE g[x - 1] + Value(text, at, x)
      BY <3>1, Zenon
    <3> QED BY <2>1, <3>2
  <2>3. f[n + 1] = f[n] + Value(text, at, n + 1) /\ sums[n + 1] = sums[n] + Value(text, at, n + 1)
    <3> HIDE DEF Steps
    <3> QED BY <1>1, <1>2, <2>2
  <2> QED
    BY <1>6, <2>1, <2>3
<1>7. len \in S
  <2> HIDE DEF S
  <2>1. \A n \in 0..len : n \in S
    BY <1>0, <1>5, <1>6, UpTo
  <2> QED BY <1>0, <2>1
<1> QED
  BY <1>4, <1>7 DEF len

\* A zero at the end of a text with a point stands for nothing.
LEMMA ZeroIsNothing ==
  ASSUME NEW text, NEW at, NEW sums, AmountSums(text, at, sums), Last(text) = 0
  PROVE  \E fewer : /\ AmountSums(Front(text), at, fewer)
                    /\ fewer[Len(Front(text))] = sums[Len(text)]
<1> DEFINE len == Len(text)
           fewer == [p \in 0..len-1 |-> sums[p]]
<1>1. /\ text \in Seq(0..11) /\ at \in 1..len /\ len \in Nat /\ len <= at + Decimals
      /\ text[len] = 0 /\ text[at] = POINT /\ DOMAIN text = 1..len
  BY DEF AmountSums, Last
<1>2. at \in 1..len - 1
  BY <1>1 DEF POINT
<1>3. /\ Front(text) \in Seq(0..11) /\ Len(Front(text)) = len - 1
      /\ \A p \in 1..len - 1 : Front(text)[p] = text[p]
  BY <1>1 DEF Front
<1>4. Value(text, at, len) = 0
  <2>1. Decimals + at - len \in Nat
    BY <1>1, AmountAssumption
  <2>2. Power(10, Decimals + at - len) \in Nat
    BY <2>1, PowerSteps
  <2>3. Value(text, at, len) = text[len] * Power(10, Decimals + at - len)
    <3>1. len # at /\ ~(len < at)
      <4>1. len \in Nat
        BY <1>1
      <4> HIDE DEF len
      <4> QED BY <1>2, <4>1
    <3> QED BY <3>1 DEF Value
  <2> QED
    BY <1>1, <2>2, <2>3
<1>5. sums[len] = sums[len - 1]
  <2>1. /\ \A p \in 1..len : sums[p] = sums[p - 1] + Value(text, at, p)
        /\ \A p \in 0..len : sums[p] \in Nat
    BY DEF AmountSums
  <2>2. len \in 1..len /\ len - 1 \in 0..len
    BY <1>1
  <2>3. sums[len] = sums[len - 1] + 0 /\ sums[len - 1] \in Nat
    BY <1>4, <2>1, <2>2
  <2> QED BY <2>3
<1>6. \A p \in 1..len - 1 : Value(Front(text), at, p) = Value(text, at, p)
  BY <1>3 DEF Value
<1>7. AmountSums(Front(text), at, fewer)
  <2>1. fewer \in [0..len - 1 -> Nat] /\ fewer[0] = 0
    BY <1>1 DEF AmountSums
  <2>2. ASSUME NEW p \in 1..len - 1
        PROVE  fewer[p] = fewer[p - 1] + Value(Front(text), at, p)
    <3>1. p \in 1..len /\ p \in 0..len - 1 /\ p - 1 \in 0..len - 1
      BY <1>1
    <3>2. sums[p] = sums[p - 1] + Value(text, at, p)
      BY <3>1 DEF AmountSums
    <3> QED BY <1>6, <3>1, <3>2
  <2>3. \A p \in 1..len - 1 : Front(text)[p] = POINT <=> p = at
    <3>1. \A p \in 1..len - 1 : text[p] = POINT <=> p = at
      BY <1>1 DEF AmountSums
    <3> QED BY <1>3, <3>1
  <2>4. DOMAIN Front(text) = 1..len - 1 /\ len - 1 <= at + Decimals
    BY <1>1, <1>3, AmountAssumption
  <2> HIDE DEF fewer, len
  <2> QED BY <1>2, <1>3, <2>1, <2>2, <2>3, <2>4 DEF AmountSums
<1> QED
  BY <1>1, <1>3, <1>5, <1>7

\* A product with a sum.
LEMMA Distributes ==
  ASSUME NEW y \in Nat, NEW d \in Nat, NEW t \in Nat, NEW s \in Nat
  PROVE  (y + d * t) * s = y * s + d * (t * s)
<1>1. (y + d * t) * s = y * s + (d * t) * s
  OBVIOUS
<1>2. (d * t) * s = d * (t * s)
  OBVIOUS
<1> QED
  BY <1>1, <1>2

LEMMA Coins == SKY_COINS \in Nat \ {0}
<1>1. Decimals \in Nat
  BY AmountAssumption
<1> QED
  BY <1>1, PowerSteps DEF SKY_COINS

\* The number of the first p of k decimal digits, with zeros for the others.
Begun(m, k, p) == (m \div Power(10, k - p)) * Power(10, k - p)

\* They go from nothing to the number, a digit at a time.
LEMMA BegunIs ==
  ASSUME NEW m \in Nat, NEW k \in Nat
  PROVE  /\ \A p \in 0..k : Begun(m, k, p) \in Nat
         /\ m < Power(10, k) => Begun(m, k, 0) = 0
         /\ Begun(m, k, k) = m
         /\ \A p \in 1..k :
              /\ Padded(m, k)[p] \in 0..9
              /\ Begun(m, k, p) = Begun(m, k, p - 1) + Padded(m, k)[p] * Power(10, k - p)
<1>1. ASSUME NEW p \in 0..k PROVE Begun(m, k, p) \in Nat
  <2>1. k - p \in Nat
    OBVIOUS
  <2>2. Power(10, k - p) \in Nat \ {0}
    BY <2>1, PowerSteps
  <2>3. m \div Power(10, k - p) \in Nat
    BY <2>2
  <2> QED BY <2>2, <2>3 DEF Begun
<1>2. ASSUME m < Power(10, k) PROVE Begun(m, k, 0) = 0
  <2>1. Power(10, k) \in Nat \ {0} /\ k - 0 = k
    BY PowerSteps
  <2>2. m \div Power(10, k) = 0
    BY <1>2, <2>1, NoDigits
  <2> QED BY <2>1, <2>2 DEF Begun
<1>3. Begun(m, k, k) = m
  <2>1. k - k = 0
    OBVIOUS
  <2> QED BY <2>1, AllDigits DEF Begun
<1>4. ASSUME NEW p \in 1..k
      PROVE  /\ Padded(m, k)[p] \in 0..9
             /\ Begun(m, k, p) = Begun(m, k, p - 1) + Padded(m, k)[p] * Power(10, k - p)
  BY PaddedDigit DEF Begun
<1> QED
  BY <1>1, <1>2, <1>3, <1>4

\* k digits, the point and the decimals.
Decimal(w, k, r) == Padded(w, k) \o <<POINT>> \o Padded(r, Decimals)

\* Its characters.
LEMMA DecimalText ==
  ASSUME NEW w \in Nat, NEW k \in Nat, NEW r \in Nat
  PROVE  /\ Decimal(w, k, r) \in Seq(0..11)
         /\ Len(Decimal(w, k, r)) = k + 1 + Decimals
         /\ \A p \in 1..k : Decimal(w, k, r)[p] = Padded(w, k)[p]
         /\ Decimal(w, k, r)[k + 1] = POINT
         /\ \A q \in 1..Decimals : Decimal(w, k, r)[k + 1 + q] = Padded(r, Decimals)[q]
<1> DEFINE a == Padded(w, k)
           b == Padded(r, Decimals)
<1>1. /\ a \in Seq(0..11) /\ Len(a) = k
      /\ b \in Seq(0..11) /\ Len(b) = Decimals /\ Decimals \in Nat
  BY PaddedText, AmountAssumption
<1> HIDE DEF a, b
<1>2. <<POINT>> \in Seq(0..11) /\ Len(<<POINT>>) = 1 /\ <<POINT>>[1] = POINT
  BY DEF POINT
<1> DEFINE c == a \o <<POINT>>
<1>3. /\ c \in Seq(0..11) /\ Len(c) = k + 1
      /\ \A p \in 1..k : c[p] = a[p]
      /\ c[k + 1] = POINT
  BY <1>1, <1>2
<1> HIDE DEF c
<1>4. c \o b \in Seq(0..11) /\ Len(c \o b) = k + 1 + Decimals
  BY <1>1, <1>3, SMTT(30)
<1>5. ASSUME NEW p \in 1..k + 1 PROVE (c \o b)[p] = c[p]
  BY <1>1, <1>3
<1>6. ASSUME NEW q \in 1..Decimals PROVE (c \o b)[k + 1 + q] = b[q]
  BY <1>1, <1>3
<1>7. \A p \in 1..k : (c \o b)[p] = a[p]
  <2>1. \A p \in 1..k : p \in 1..k + 1
    OBVIOUS
  <2> QED BY <1>3, <1>5, <2>1
<1>8. (c \o b)[k + 1] = POINT
  <2>1. k + 1 \in 1..k + 1
    OBVIOUS
  <2> QED BY <1>3, <1>5, <2>1
<1> QED
  BY <1>4, <1>6, <1>7, <1>8 DEF Decimal, a, b, c

\* Such a text is the number of which w are the coins and r the rest.
LEMMA DecimalIs ==
  ASSUME NEW w \in Nat, NEW k \in Nat, NEW r \in Nat,
         w < Power(10, k), r < SKY_COINS
  PROVE  \E sums : /\ AmountSums(Decimal(w, k, r), k + 1, sums)
                   /\ sums[k + 1 + Decimals] = w * SKY_COINS + r
<1> DEFINE text == Decimal(w, k, r)
           len  == k + 1 + Decimals
           sums == [p \in 0..len |->
                      IF p <= k THEN Begun(w, k, p) * SKY_COINS
                      ELSE w * SKY_COINS + Begun(r, Decimals, p - (k + 1))]
<1> HIDE DEF text, len, sums
<1>1. /\ text \in Seq(0..11) /\ Len(text) = len
      /\ \A p \in 1..k : text[p] = Padded(w, k)[p]
      /\ text[k + 1] = POINT
      /\ \A q \in 1..Decimals : text[k + 1 + q] = Padded(r, Decimals)[q]
  <2>1. text \in Seq(0..11) /\ Len(text) = len
    BY DecimalText, Zenon DEF text, len
  <2>2. \A p \in 1..k : text[p] = Padded(w, k)[p]
    BY DecimalText, ZenonT(40) DEF text
  <2>3. text[k + 1] = POINT
    BY DecimalText, Zenon DEF text
  <2>4. \A q \in 1..Decimals : text[k + 1 + q] = Padded(r, Decimals)[q]
    BY DecimalText, ZenonT(40) DEF text
  <2> QED BY <2>1, <2>2, <2>3, <2>4
<1>a. \A e \in Nat : Power(10, e) \in Nat \ {0}
  BY TenPowers
<1> USE DEF len, sums
<1>2. SKY_COINS \in Nat /\ Decimals \in Nat /\ SKY_COINS = Power(10, Decimals)
  BY Coins, AmountAssumption DEF SKY_COINS
<1>3. /\ \A p \in 0..k : Begun(w, k, p) \in Nat
      /\ Begun(w, k, 0) = 0 /\ Begun(w, k, k) = w
      /\ \A p \in 1..k :
           /\ Padded(w, k)[p] \in 0..9
           /\ Begun(w, k, p) = Begun(w, k, p - 1) + Padded(w, k)[p] * Power(10, k - p)
  BY BegunIs
<1>4. /\ \A p \in 0..Decimals : Begun(r, Decimals, p) \in Nat
      /\ Begun(r, Decimals, 0) = 0 /\ Begun(r, Decimals, Decimals) = r
      /\ \A p \in 1..Decimals :
           /\ Padded(r, Decimals)[p] \in 0..9
           /\ Begun(r, Decimals, p) = Begun(r, Decimals, p - 1)
                                       + Padded(r, Decimals)[p] * Power(10, Decimals - p)
  BY <1>2, BegunIs
<1>5. sums \in [0..len -> Nat]
  <2>1. ASSUME NEW p \in 0..len, p <= k PROVE Begun(w, k, p) * SKY_COINS \in Nat
    <3>1. Begun(w, k, p) \in Nat
      BY <1>2, <1>3, <2>1
    <3> QED BY <1>2, <3>1
  <2>2. ASSUME NEW p \in 0..len, ~(p <= k)
        PROVE  w * SKY_COINS + Begun(r, Decimals, p - (k + 1)) \in Nat
    <3>1. p - (k + 1) \in 0..Decimals
      BY <1>2, <2>2
    <3>2. Begun(r, Decimals, p - (k + 1)) \in Nat
      BY <1>4, <3>1
    <3>3. w * SKY_COINS \in Nat
      BY <1>2
    <3> QED BY <3>2, <3>3
  <2> QED BY <2>1, <2>2
<1>6. sums[0] = 0
  <2>1. 0 \in 0..len /\ 0 <= k
    BY <1>2
  <2>2. sums[0] = Begun(w, k, 0) * SKY_COINS
    BY <2>1
  <2> QED BY <1>2, <1>3, <2>2
<1>7. sums[len] = w * SKY_COINS + r
  <2>1. len \in 0..len /\ ~(len <= k) /\ len - (k + 1) = Decimals
    BY <1>2
  <2> HIDE DEF len
  <2> QED BY <1>4, <2>1
<1>8. ASSUME NEW p \in 1..len PROVE sums[p] = sums[p - 1] + Value(text, k + 1, p)
  <2>0. p \in 0..len /\ p - 1 \in 0..len
    BY <1>2
  <2>1. CASE p <= k
    <3> DEFINE d == Padded(w, k)[p]
               t == Power(10, k - p)
               y == Begun(w, k, p - 1)
    <3>1. p \in 1..k /\ p - 1 \in 0..k /\ p - 1 <= k
      BY <2>1
    <3>2. d \in Nat /\ y \in Nat /\ Begun(w, k, p) = y + d * t /\ text[p] = d
      <4>1. Padded(w, k)[p] \in 0..9
        BY <1>3, <3>1
      <4>2. Begun(w, k, p) = y + d * t
        BY <1>3, <3>1, Zenon
      <4>3. Begun(w, k, p - 1) \in Nat
        BY <1>3, <3>1
      <4>4. text[p] = d
        BY <1>1, <3>1, Zenon
      <4> QED BY <4>1, <4>2, <4>3, <4>4
    <3>3. t \in Nat
      <4>1. k - p \in Nat
        BY <2>1
      <4>2. Power(10, k - p) \in Nat \ {0}
        BY <4>1, <1>a
      <4> QED BY <4>2
    <3>4. Value(text, k + 1, p) = d * (t * SKY_COINS)
      <4>1. p # k + 1 /\ p < k + 1 /\ k + 1 - 1 - p = k - p
        BY <2>1
      <4> QED BY <3>2, <4>1 DEF Value
    <3>5. sums[p] = Begun(w, k, p) * SKY_COINS /\ sums[p - 1] = y * SKY_COINS
      BY <2>0, <2>1, <3>1
    <3> HIDE DEF d, t, y, sums
    <3>6. (y + d * t) * SKY_COINS = y * SKY_COINS + d * (t * SKY_COINS)
      BY <1>2, <3>2, <3>3, Distributes
    <3> QED BY <3>2, <3>4, <3>5, <3>6
  <2>2. CASE p = k + 1
    <3>1. p - 1 <= k /\ ~(p <= k) /\ p - 1 = k /\ p - (k + 1) = 0
      BY <2>2
    <3>2. sums[p - 1] = w * SKY_COINS
      BY <1>3, <2>0, <3>1
    <3>3. sums[p] = w * SKY_COINS + 0
      BY <1>4, <2>0, <3>1
    <3>4. Value(text, k + 1, p) = 0
      BY <2>2 DEF Value
    <3> QED BY <3>2, <3>3, <3>4
  <2>3. CASE p > k + 1
    <3> DEFINE q == p - (k + 1)
               d == Padded(r, Decimals)[q]
               t == Power(10, Decimals - q)
               y == Begun(r, Decimals, q - 1)
    <3>1. /\ q \in 1..Decimals /\ ~(p <= k) /\ ~(p - 1 <= k)
          /\ p - 1 - (k + 1) = q - 1 /\ p = k + 1 + q /\ q - 1 \in 0..Decimals
      BY <1>2, <2>3
    <3>2. /\ d \in Nat /\ y \in Nat /\ Begun(r, Decimals, q) = y + d * t /\ text[p] = d
      <4> HIDE DEF q
      <4>1. Padded(r, Decimals)[q] \in 0..9
        BY <1>4, <3>1
      <4>2. Begun(r, Decimals, q) = y + d * t
        BY <1>4, <3>1, Zenon
      <4>3. Begun(r, Decimals, q - 1) \in Nat
        BY <1>4, <3>1
      <4>4. text[p] = d
        BY <1>1, <3>1, Zenon
      <4> QED BY <4>1, <4>2, <4>3, <4>4
    <3>3. t \in Nat
      <4>1. Decimals - q \in Nat
        BY <1>2, <3>1
      <4> QED BY <4>1, PowerSteps
    <3>4. Value(text, k + 1, p) = d * t
      <4>1. p # k + 1 /\ ~(p < k + 1) /\ Decimals + (k + 1) - p = Decimals - q
        BY <1>2, <2>3
      <4> QED BY <3>2, <4>1 DEF Value
    <3>5. sums[p] = w * SKY_COINS + Begun(r, Decimals, q) /\ sums[p - 1] = w * SKY_COINS + y
      BY <2>0, <3>1
    <3>6. w * SKY_COINS \in Nat /\ d * t \in Nat
      BY <1>2, <3>2, <3>3
    <3> HIDE DEF d, t, y, q, sums
    <3> QED BY <3>2, <3>4, <3>5, <3>6
  <2> QED BY <2>1, <2>2, <2>3
<1>9. ASSUME NEW p \in 1..len PROVE text[p] = POINT <=> p = k + 1
  <2>1. CASE p <= k
    <3>1. p \in 1..k
      BY <2>1
    <3>2. text[p] \in 0..9 /\ p # k + 1
      <4>1. Padded(w, k)[p] \in 0..9 /\ p # k + 1
        BY <1>3, <3>1
      <4>2. text[p] = Padded(w, k)[p]
        BY <1>1, <3>1
      <4> QED BY <4>1, <4>2
    <3> QED BY <3>2 DEF POINT
  <2>2. CASE p = k + 1
    BY <1>1, <2>2
  <2>3. CASE p > k + 1
    <3>1. PICK q \in 1..Decimals : p = k + 1 + q
      <4>1. p - (k + 1) \in 1..Decimals /\ p = k + 1 + (p - (k + 1))
        BY <1>2, <2>3
      <4> QED BY <4>1
    <3>2. text[p] \in 0..9 /\ p # k + 1
      BY <1>1, <1>4, <3>1, SMTT(30)
    <3> QED BY <3>2 DEF POINT
  <2> QED BY <2>1, <2>2, <2>3
<1>10. AmountSums(text, k + 1, sums)
  <2>1. k + 1 \in 1..len /\ len <= k + 1 + Decimals /\ DOMAIN text = 1..len
    BY <1>1, <1>2
  <2> HIDE DEF sums, len
  <2> QED BY <1>1, <1>5, <1>6, <1>8, <1>9, <2>1 DEF AmountSums
<1> QED
  BY <1>7, <1>10 DEF text

\* What the widths leave room for.
LEMMA Widths ==
  /\ Decimals \in Nat \ {0} /\ FieldChars \in Nat /\ FieldChars - 2 - Decimals \in Nat \ {0}
  /\ Room \in Nat \ {0} /\ SKY_COINS \in Nat \ {0}
  /\ Room = Power(10, FieldChars - 2 - Decimals)
  /\ Room < Power(10, FieldChars - 1 - Decimals)
<1> DEFINE e == FieldChars - 2 - Decimals
<1>1. Decimals \in Nat \ {0} /\ FieldChars \in Nat /\ e \in Nat \ {0} /\ e + 1 = FieldChars - 1 - Decimals
  BY AmountAssumption
<1>2. Power(10, e) \in Nat \ {0} /\ Power(10, e + 1) = 10 * Power(10, e)
  <2> HIDE DEF e
  <2> QED BY <1>1, PowerSteps
<1>3. Power(10, e) < Power(10, e + 1)
  <2> DEFINE p == Power(10, e)
  <2> HIDE DEF p
  <2>1. p \in Nat \ {0} /\ Power(10, e + 1) = 10 * p
    BY <1>2 DEF p
  <2>2. p < 10 * p
    BY <2>1
  <2> QED BY <2>1, <2>2 DEF p
<1>4. Room = Power(10, e)
  BY DEF Room
<1> QED
  BY <1>1, <1>2, <1>3, <1>4, Coins

\* The digits that are printed are no more than those that would do.
LEMMA LeastDigits ==
  ASSUME NEW w \in Nat, NEW most \in 1..FieldChars, w < Power(10, most)
  PROVE  \E k \in 1..most : Digits(w) = Padded(w, k) /\ w < Power(10, k)
<1>0. FieldChars \in Nat
  BY AmountAssumption
<1> DEFINE Found == \E k \in 1..FieldChars : Needs(w, k)
           S == {n \in 0..FieldChars : Found \/ \A m \in 1..n : Power(10, m) <= w}
<1>1. 0 \in S
  BY <1>0
<1>2. ASSUME NEW n \in 0..FieldChars - 1, n \in S PROVE n + 1 \in S
  <2>0. n + 1 \in 1..FieldChars /\ n + 1 \in 0..FieldChars /\ n + 1 - 1 = n
    BY <1>0
  <2>1. CASE Found
    BY <2>0, <2>1
  <2>2. CASE /\ \A m \in 1..n : Power(10, m) <= w
             /\ Power(10, n + 1) <= w
    <3>1. \A m \in 1..n + 1 : m \in 1..n \/ m = n + 1
      BY <2>0
    <3> QED BY <2>0, <2>2, <3>1
  <2>3. CASE /\ \A m \in 1..n : Power(10, m) <= w
             /\ ~(Power(10, n + 1) <= w)
    <3>1. w < Power(10, n + 1)
      <4>1. n + 1 \in Nat
        BY <2>0
      <4>2. Power(10, n + 1) \in Nat \ {0}
        BY <4>1, TenPowers
      <4> QED BY <2>3, <4>2
    <3>2. Needs(w, n + 1)
      BY <2>0, <2>3, <3>1 DEF Needs
    <3> QED BY <2>0, <3>2
  <2> QED BY <1>2, <2>1, <2>2, <2>3
<1>3. FieldChars \in S
  <2> HIDE DEF S
  <2>1. \A n \in 0..FieldChars : n \in S
    BY <1>0, <1>1, <1>2, UpTo
  <2> QED BY <1>0, <2>1
<1>4. Power(10, most) \in Nat
  <2>1. most \in Nat
    BY <1>0
  <2> QED BY <2>1, TenPowers
<1>5. Found
  <2>1. ~(Power(10, most) <= w)
    BY <1>4
  <2> QED BY <1>0, <1>3, <2>1
<1> DEFINE k == CHOOSE k \in 1..FieldChars : Needs(w, k)
<1>6. k \in 1..FieldChars /\ Needs(w, k)
  BY <1>5
<1>7. Digits(w) = Padded(w, k)
  BY DEF Digits
<1> HIDE DEF k
<1>8. k <= most
  <2>1. ~(most \in 1..k - 1)
    BY <1>4, <1>6 DEF Needs
  <2> QED BY <1>0, <1>6, <2>1
<1> QED
  BY <1>6, <1>7, <1>8 DEF Needs

\* The coins that are shown are an int that is not negative.
LEMMA IntCoins ==
  ASSUME NEW w \in 0..Room
  PROVE  AsInt(w) = w
<1>1. Room \in Nat /\ IntBits - 1 \in Nat /\ IntBits - 1 + 1 = IntBits
  BY Widths, AmountAssumption
<1> DEFINE h == Power(2, IntBits - 1)
           m == Power(2, IntBits)
<1>2. h \in Nat \ {0} /\ m = 2 * h
  <2> DEFINE b == IntBits - 1
  <2>1. b \in Nat /\ b + 1 = IntBits
    BY <1>1
  <2> HIDE DEF b
  <2>2. Power(2, b) \in Nat \ {0} /\ Power(2, b + 1) = 2 * Power(2, b)
    BY <2>1, TwoPowers
  <2> QED BY <2>1, <2>2 DEF b
<1>3. Room < h
  <2>1. h \in Room + 1 .. Power(10, FieldChars - 3)
    BY AmountAssumption
  <2>2. FieldChars - 3 \in Nat
    BY AmountAssumption
  <2>3. Power(10, FieldChars - 3) \in Nat
    BY <2>2, TenPowers
  <2> HIDE DEF h
  <2> QED BY <1>1, <1>2, <2>1, <2>3
<1> HIDE DEF h, m
<1>4. w \in 0..m - 1 /\ m \in Nat \ {0} /\ w < h
  BY <1>1, <1>2, <1>3
<1>5. w % m = w
  BY <1>4
<1> QED
  BY <1>4, <1>5 DEF AsInt, h, m

\* What is printed of an amount is the amount: all of its text, or all of it
\* but a zero.
LEMMA PrintedIs ==
  ASSUME NEW n \in Nat, Shown(n)
  PROVE  \E at, sums : /\ AmountSums(Printed(n), at, sums)
                       /\ sums[Len(Printed(n))] = n
<1> DEFINE w == n \div SKY_COINS
           r == n % SKY_COINS
<1>1. /\ w \in Nat /\ r \in 0..SKY_COINS - 1 /\ n = SKY_COINS * w + r
      /\ SKY_COINS \in Nat \ {0} /\ Room \in Nat \ {0}
  BY Widths
<1>2. n <= Room * SKY_COINS
  BY DEF Shown
<1> HIDE DEF w, r
<1>3. w \in 0..Room /\ (w = Room => r = 0)
  <2> DEFINE s == SKY_COINS
  <2>0. s \in Nat \ {0} /\ r \in Nat /\ n = s * w + r /\ n <= Room * s
    BY <1>1, <1>2
  <2> HIDE DEF s
  <2>1. w <= Room
    <3> SUFFICES ASSUME w > Room PROVE FALSE
      BY <1>1
    <3>1. s * w >= s * (Room + 1)
      BY <1>1, <2>0
    <3>2. s * (Room + 1) = Room * s + s
      BY <1>1, <2>0
    <3>3. s * w \in Nat /\ Room * s \in Nat
      BY <1>1, <2>0
    <3> QED BY <2>0, <3>1, <3>2, <3>3
  <2>2. ASSUME w = Room PROVE r = 0
    <3>1. s * w = Room * s /\ Room * s \in Nat
      BY <1>1, <2>0, <2>2
    <3> QED BY <2>0, <3>1
  <2> QED BY <1>1, <2>1, <2>2
<1> DEFINE less == FieldChars - 2 - Decimals
<1>4. /\ less \in Nat \ {0} /\ Decimals \in Nat \ {0}
      /\ FieldChars = less + 2 + Decimals /\ less + 1 = FieldChars - 1 - Decimals
      /\ less \in 1..FieldChars /\ less + 1 \in 1..FieldChars
      /\ Room = Power(10, less) /\ Room < Power(10, less + 1)
  <2>1. FieldChars - 1 - Decimals = less + 1
    BY Widths
  <2> QED BY Widths, <2>1
<1> HIDE DEF less
<1>5. PICK k \in 1..less + 1 : /\ Digits(w) = Padded(w, k) /\ w < Power(10, k)
                               /\ w # Room => k <= less
  <2>1. CASE w = Room
    <3>1. w < Power(10, less + 1)
      BY <1>4, <2>1
    <3>2. \E k \in 1..less + 1 : Digits(w) = Padded(w, k) /\ w < Power(10, k)
      BY <1>1, <1>4, <3>1, LeastDigits
    <3> QED BY <2>1, <3>2
  <2>2. CASE w # Room
    <3>1. w < Power(10, less)
      BY <1>1, <1>3, <1>4, <2>2
    <3>2. \E k \in 1..less : Digits(w) = Padded(w, k) /\ w < Power(10, k)
      BY <1>1, <1>4, <3>1, LeastDigits
    <3>3. \A k \in 1..less : k \in 1..less + 1 /\ k <= less
      BY <1>4
    <3> QED BY <2>2, <3>2, <3>3
  <2> QED BY <2>1, <2>2
<1> DEFINE text == Decimal(w, k, r)
           len  == k + 1 + Decimals
<1>6. Printed(n) = SubSeq(text, 1, IF Len(text) < FieldChars THEN Len(text) ELSE FieldChars - 1)
  <2>1. Signed(AsInt(w)) = Padded(w, k)
    <3>1. AsInt(w) = w /\ ~(w < 0)
      BY <1>3, IntCoins
    <3> QED BY <1>5, <3>1 DEF Signed
  <2> QED BY <2>1 DEF Printed, Decimal, w, r
<1>7. k \in Nat /\ r \in Nat /\ r < SKY_COINS
  BY <1>1, <1>4, <1>5
<1>8. text \in Seq(0..11) /\ Len(text) = len
  BY <1>1, <1>7, DecimalText
<1>9. PICK sums : AmountSums(text, k + 1, sums) /\ sums[len] = n
  <2>1. PICK sums : AmountSums(text, k + 1, sums) /\ sums[len] = w * SKY_COINS + r
    BY <1>1, <1>5, <1>7, DecimalIs
  <2>2. w * SKY_COINS + r = n
    BY <1>1
  <2> QED BY <2>1, <2>2
<1>10. CASE len < FieldChars
  <2>1. Printed(n) = text
    <3> HIDE DEF text, len
    <3> QED BY <1>6, <1>8, <1>10
  <2> QED BY <1>8, <1>9, <2>1
<1>11. CASE ~(len < FieldChars)
  <2>1. w = Room /\ k = less + 1 /\ len = FieldChars /\ r = 0
    BY <1>3, <1>4, <1>5, <1>11
  <2>2. text[len] = 0
    <3>1. /\ Decimals \in 1..Decimals /\ Decimals \in Nat /\ len = k + 1 + Decimals
      BY <1>4
    <3>2. text[k + 1 + Decimals] = Padded(r, Decimals)[Decimals]
      BY <1>1, <1>7, <3>1, DecimalText, SMTT(30)
    <3>3. Padded(r, Decimals)[Decimals] = (r \div Power(10, Decimals - Decimals)) % 10
      BY <3>1 DEF Padded
    <3>4. Power(10, Decimals - Decimals) = 1
      <4>1. Decimals - Decimals = 0
        BY <3>1
      <4> QED BY <4>1, PowerSteps
    <3>5. (0 \div 1) % 10 = 0
      OBVIOUS
    <3> QED BY <2>1, <3>2, <3>3, <3>4, <3>5
  <2>3. Last(text) = 0
    BY <1>8, <2>2 DEF Last
  <2>4. PICK fewer : /\ AmountSums(Front(text), k + 1, fewer)
                     /\ fewer[Len(Front(text))] = sums[Len(text)]
    BY <1>9, <2>3, ZeroIsNothing
  <2>5. Printed(n) = Front(text)
    <3>1. Printed(n) = SubSeq(text, 1, FieldChars - 1)
      <4> HIDE DEF text, len
      <4> QED BY <1>6, <1>8, <1>11
    <3> QED BY <1>8, <2>1, <3>1 DEF Front
  <2> QED BY <1>8, <1>9, <2>4, <2>5
<1> QED
  BY <1>10, <1>11

\* A text that is shown has one point, no more decimals than there are, and
\* stands for the amount.
AmountReads ==
  /\ coin_num \in Nat
  /\ Shown(coin_num) => \E at, sums : /\ AmountSums(amount, at, sums)
                                      /\ sums[Len(amount)] = coin_num

\* It holds of the text at the start, and every step keeps it.
LEMMA AmountStart == AmountInit => AmountReads
<1> SUFFICES ASSUME AmountInit PROVE AmountReads
  OBVIOUS
<1>1. PICK text, at, z : text = <<0, POINT>> /\ at = 2 /\ z = 0
  OBVIOUS
<1> DEFINE sums == [p \in 0..2 |-> z]
<1>2. text \in Seq(0..11) /\ Len(text) = 2 /\ text[1] = 0 /\ text[2] = POINT
  BY <1>1 DEF POINT
<1>3. at \in DOMAIN text /\ Len(text) <= at + Decimals
  BY <1>1, <1>2, Widths
<1>4. \A p \in DOMAIN text : text[p] = POINT <=> p = at
  BY <1>1, <1>2 DEF POINT
<1>5. Value(text, at, 1) = 0 /\ Value(text, at, 2) = 0
  <2>1. Power(10, at - 1 - 1) * SKY_COINS \in Nat
    <3>1. at - 1 - 1 \in Nat
      BY <1>1
    <3>2. Power(10, at - 1 - 1) \in Nat
      BY <3>1, TenPowers
    <3> QED BY <3>2, Coins
  <2>2. Value(text, at, 1) = text[1] * (Power(10, at - 1 - 1) * SKY_COINS)
    BY <1>1 DEF Value
  <2>3. Value(text, at, 2) = 0
    BY <1>1 DEF Value
  <2> DEFINE w == Power(10, at - 1 - 1) * SKY_COINS
  <2> HIDE DEF w
  <2>4. Value(text, at, 1) = 0 * w /\ w \in Nat
    BY <1>2, <2>1, <2>2 DEF w
  <2> QED BY <2>3, <2>4
<1>6. AmountSums(text, at, sums)
  <2>1. sums \in [0..Len(text) -> Nat] /\ sums[0] = 0
    BY <1>1, <1>2
  <2>2. ASSUME NEW p \in 1..Len(text) PROVE sums[p] = sums[p - 1] + Value(text, at, p)
    <3>1. p \in 0..2 /\ p - 1 \in 0..2 /\ (p = 1 \/ p = 2)
      BY <1>2
    <3>2. Value(text, at, p) = 0
      BY <1>5, <3>1
    <3> QED BY <1>1, <3>1, <3>2
  <2> HIDE DEF sums
  <2> QED BY <1>2, <1>3, <1>4, <2>1, <2>2 DEF AmountSums
<1>7. sums[Len(text)] = 0
  BY <1>1, <1>2
<1> HIDE DEF sums
<1> QED
  BY <1>1, <1>6, <1>7 DEF AmountInit, AmountReads

LEMMA AmountStep ==
  ASSUME AmountReads, AmountNext
  PROVE  AmountReads'
<1>1. CASE PrintAmount
  <2>1. coin_num' \in Nat /\ amount' = Printed(coin_num')
    BY <1>1, AmountAssumption DEF PrintAmount
  <2> QED BY <2>1, PrintedIs DEF AmountReads, Shown
<1>2. CASE StripZero
  <2>1. coin_num' = coin_num /\ amount' = Front(amount) /\ Last(amount) = 0
    BY <1>2 DEF StripZero
  <2>2. ASSUME Shown(coin_num)
        PROVE  \E at, sums : AmountSums(amount', at, sums) /\ sums[Len(amount')] = coin_num
    <3>1. PICK at, sums : AmountSums(amount, at, sums) /\ sums[Len(amount)] = coin_num
      BY <2>2 DEF AmountReads
    <3>2. PICK fewer : /\ AmountSums(Front(amount), at, fewer)
                       /\ fewer[Len(Front(amount))] = sums[Len(amount)]
      BY <2>1, <3>1, ZeroIsNothing
    <3> QED BY <2>1, <3>1, <3>2
  <2> QED BY <2>1, <2>2 DEF AmountReads, Shown
<1>3. CASE ZerosStripped
  BY <1>3 DEF ZerosStripped, AmountReads, Shown
<1> QED
  BY <1>1, <1>2, <1>3 DEF AmountNext

-----------------------------------------------------------------------------
(* convert_signature_from_TLV_to_RS.                                       *)

\* The signature at hand is that of two of the numbers.
Converted ==
  signature # <<>> =>
    /\ tlv.r \in Integers32 /\ tlv.s \in Integers32
    /\ signature = convert_signature(TLV(tlv.r, tlv.s))

\* Each half is found, whichever of the numbers begins with a 0.
LEMMA HalvesFound ==
  ASSUME NEW r \in Integers32, NEW s \in Integers32, NEW k \in 0..HALF_LEN-1
  PROVE  /\ convert_signature(TLV(r, s))[k] = ByteOf(r, k)
         /\ convert_signature(TLV(r, s))[HALF_LEN + k] = ByteOf(s, k)
<1>1. r.size \in 32..33 /\ s.size \in 32..33
  BY IntegersAssumption DEF HALF_LEN
<1> DEFINE bytes == TLV(r, s)
<1>2. bytes[3] = r.size
  BY <1>1 DEF TLV
<1>3. bytes[3 + r.size + 2] = s.size
  BY <1>1 DEF TLV
<1>4. ASSUME NEW p \in 0..r.size-1 PROVE bytes[4 + p] = r.bytes[p]
  <2>1. /\ 4 + p \in 0 .. 5 + r.size + s.size /\ 4 + p \in 4 .. 3 + r.size
        /\ 4 + p \notin {0, 1, 2, 3} /\ 4 + p - 4 = p
    BY <1>1
  <2> QED
    BY <1>1, <2>1 DEF TLV
<1>5. ASSUME NEW p \in 0..s.size-1 PROVE bytes[6 + r.size + p] = s.bytes[p]
  <2> DEFINE q == 6 + r.size + p
  <2>1. /\ q \in 0 .. 5 + r.size + s.size /\ q \notin 4 .. 3 + r.size
        /\ q # 0 /\ q # 1 /\ q # 2 /\ q # 3 /\ q # 4 + r.size /\ q # 5 + r.size
        /\ q - 6 - r.size = p
    BY <1>1
  <2> HIDE DEF q
  <2>2. bytes[q] = s.bytes[q - 6 - r.size]
    BY <2>1 DEF TLV
  <2> QED
    BY <2>1, <2>2 DEF q
<1> HIDE DEF bytes
<1>6. convert_signature(bytes)[k] = bytes[4 + (r.size - HALF_LEN + k)]
  BY <1>1, <1>2, <1>3 DEF convert_signature, HALF_LEN
<1>7. convert_signature(bytes)[HALF_LEN + k] = bytes[6 + r.size + (s.size - HALF_LEN + k)]
  BY <1>1, <1>2, <1>3 DEF convert_signature, HALF_LEN
<1>8. r.size - HALF_LEN + k \in 0..r.size-1 /\ s.size - HALF_LEN + k \in 0..s.size-1
  BY <1>1 DEF HALF_LEN
<1> QED
  BY <1>4, <1>5, <1>6, <1>7, <1>8 DEF ByteOf, bytes

LEMMA SignStep ==
  ASSUME sign
  PROVE  Converted'
<1>1. PICK r \in Integers32, s \in Integers32 :
        /\ tlv' = [r |-> r, s |-> s]
        /\ signature' = convert_signature(TLV(r, s))
  BY DEF sign
<1>2. tlv'.r = r /\ tlv'.s = s
  BY <1>1
<1> QED
  BY <1>1, <1>2 DEF Converted

LEMMA ConvertedImplies == Converted => SignatureIsConverted
BY HalvesFound DEF Converted, SignatureIsConverted

-----------------------------------------------------------------------------
\* Whatever the address, its hash and its checksum, no index leaves the array
\* of digits and the text fits the fields of ux.h.
THEOREM ConversionStaysInBuffers == Spec => []StaysInBuffers
<1>1. Init => Base58Inv
  BY Base58Start
<1>2. Base58Inv /\ [Next]_conversionVars => Base58Inv'
  BY Base58Step, Base58Stutter DEF Next, conversionVars
<1>3. Base58Inv => StaysInBuffers
  BY Base58Implies
<1> QED
  BY <1>1, <1>2, <1>3, PTL DEF Spec

\* Whatever the address, its hash and its checksum, the array of digits is long
\* enough: encode_base_58 cuts no carry off, and the text of the address is the
\* number that its bytes are, with a letter 1 for every leading zero byte.
THEOREM AddressIsItsText == Spec => [](NoCarryIsLost /\ AddressDecodesBack)
<1>1. Base58Numbers /\ [Next]_conversionVars => Base58Numbers'
  BY Base58NumbersStep, Base58NumbersStutter DEF Next, conversionVars
<1>2. Base58Numbers => NoCarryIsLost /\ AddressDecodesBack
  BY DEF Base58Numbers, Zeros, NoCarryIsLost
<1> QED
  BY <1>1, <1>2, Base58NumbersStart, PTL DEF Spec

\* Whatever the widths, every amount that is shown reads as it is, from the
\* moment it is printed until its last zero is gone.
THEOREM AmountIsItsText == Spec => []AmountIsExact
<1>1. Init => AmountReads
  BY AmountStart DEF Init
<1>2. AmountReads /\ [Next]_conversionVars => AmountReads'
  <2>1. ASSUME AmountReads, UNCHANGED amountVars PROVE AmountReads'
    BY <2>1 DEF AmountReads, amountVars, Shown
  <2> QED
    BY <2>1, AmountStep DEF Next, conversionVars
<1>3. AmountReads => AmountIsExact
  BY ReadsAmount DEF AmountReads, AmountIsExact
<1> QED
  BY <1>1, <1>2, <1>3, PTL DEF Spec

\* Whatever R and S are and however the SDK has padded them, the signature is
\* their 64 bytes.
THEOREM ConversionOfSignature == Spec => []SignatureIsConverted
<1>1. Init => Converted
  BY DEF Init, SignInit, Converted
<1>2. Converted /\ [Next]_conversionVars => Converted'
  <2>1. ASSUME Converted, UNCHANGED tlvVars PROVE Converted'
    BY <2>1 DEF Converted, tlvVars
  <2> QED
    BY <2>1, SignStep DEF Next, conversionVars
<1>3. Converted => SignatureIsConverted
  BY ConvertedImplies
<1> QED
  BY <1>1, <1>2, <1>3, PTL DEF Spec
=============================================================================
