------------------------------- MODULE Base58 -------------------------------
(***************************************************************************)
(* The text of an address: address_to_base58, to_address and encode_base_58*)
(* of skycoin-api/skycoin_crypto.c, one action for each step of a loop.    *)
(*                                                                         *)
(* encode_base_58 computes "b58 = b58 * 256 + byte" for every byte, on an  *)
(* array of digits with the last one at size - 1.  A digit stands for its  *)
(* letter in BASE_58_ALPHABET: 0 is the letter 1.                          *)
(***************************************************************************)
EXTENDS Integers, Sequences

CONSTANTS
  Addresses,   \* the addresses to be encoded: a version and a key's hash
  Checksum(_)  \* the first bytes of SHA256

RIPMD_HASH_LEN     == 20
CHECKSUM_LEN       == 4
ADDRESS_LEN        == RIPMD_HASH_LEN + 1 + CHECKSUM_LEN
ADDRESS_BASE58_LEN == 35   \* digits of b58; a result holds a 0 byte more

Byte == 0..255

ASSUME AddressesAssumption ==
  /\ \A a \in Addresses : a.version \in Byte /\ a.hash \in [1..RIPMD_HASH_LEN -> Byte]
  /\ \A a \in Addresses : Checksum(Append(a.hash, a.version)) \in [1..CHECKSUM_LEN -> Byte]

VARIABLES
  loop,    \* the loop encode_base_58 is in, "returned" outside of it
  input,   \* the bytes it encodes
  pbegin,  \* the number of bytes it has passed
  zeroes,  \* the leading zero bytes among them
  size,    \* the digits of b58 it uses
  length,  \* the digits that may be other than 0
  b58, carry, i, j,
  result   \* the digits of the text

base58Vars == <<loop, input, pbegin, zeroes, size, length, b58, carry, i, j, result>>

-----------------------------------------------------------------------------
\* What is encoded: the hash, then the version, then the checksum of both.
AddressBytes(a) ==
  [k \in 1..ADDRESS_LEN |->
     IF k <= RIPMD_HASH_LEN THEN a.hash[k]
     ELSE IF k = RIPMD_HASH_LEN + 1 THEN a.version
     ELSE Checksum(Append(a.hash, a.version))[k - RIPMD_HASH_LEN - 1]]

encode_base_58 ==
  /\ loop = "returned"
  /\ \E a \in Addresses : input' = AddressBytes(a)
  /\ loop' = "zeroes"
  /\ pbegin' = 0 /\ zeroes' = 0 /\ length' = 0
  /\ b58' = [k \in 0..ADDRESS_BASE58_LEN-1 |-> 0]
  /\ UNCHANGED <<size, carry, i, j, result>>

AtLeadingZero == pbegin < ADDRESS_LEN /\ input[pbegin + 1] = 0

SkipZero ==
  /\ loop = "zeroes" /\ AtLeadingZero
  /\ pbegin' = pbegin + 1
  /\ zeroes' = zeroes + 1
  /\ UNCHANGED <<loop, input, size, length, b58, carry, i, j, result>>

DigitsFor_Short(bytes) == (bytes * 138) \div 100

DigitsFor_Spare(bytes) == (bytes * 138) \div 100 + 2

\* log(256) / log(58), rounded up.
DigitsFor(bytes) == (bytes * 138) \div 100 + 1

FixSize ==
  /\ loop = "zeroes" /\ ~AtLeadingZero
  /\ size' = DigitsFor(ADDRESS_LEN - pbegin)
  /\ loop' = "bytes"
  /\ UNCHANGED <<input, pbegin, zeroes, length, b58, carry, i, j, result>>

TakeByte ==
  /\ loop = "bytes" /\ pbegin < ADDRESS_LEN
  /\ carry' = input[pbegin + 1]
  /\ i' = 0 /\ j' = size - 1
  /\ loop' = "digits"
  /\ UNCHANGED <<input, pbegin, zeroes, size, length, b58, result>>

MoreDigits_CarryOnly == carry # 0 /\ j # -1

MoreDigits == (carry # 0 \/ i < length) /\ j # -1

NextDigit ==
  LET sum == carry + 256 * b58[j] IN
  /\ loop = "digits" /\ MoreDigits
  /\ b58' = [b58 EXCEPT ![j] = sum % 58]
  /\ carry' = sum \div 58
  /\ i' = i + 1 /\ j' = j - 1
  /\ UNCHANGED <<loop, input, pbegin, zeroes, size, length, result>>

PassByte ==
  /\ loop = "digits" /\ ~MoreDigits
  /\ length' = i
  /\ pbegin' = pbegin + 1
  /\ loop' = "bytes"
  /\ UNCHANGED <<input, zeroes, size, b58, carry, i, j, result>>

BytesPassed ==
  /\ loop = "bytes" /\ pbegin = ADDRESS_LEN
  /\ j' = size - length
  /\ loop' = "text"
  /\ UNCHANGED <<input, pbegin, zeroes, size, length, b58, carry, i, result>>

AtIdleDigit == j # size /\ b58[j] = 0

SkipDigit ==
  /\ loop = "text" /\ AtIdleDigit
  /\ j' = j + 1
  /\ UNCHANGED <<loop, input, pbegin, zeroes, size, length, b58, carry, i, result>>

\* A letter 1 for every leading zero byte, then the letters of the digits.
WriteText ==
  /\ loop = "text" /\ ~AtIdleDigit
  /\ result' = [k \in 1 .. zeroes + size - j |->
                  IF k <= zeroes THEN 0 ELSE b58[j + k - zeroes - 1]]
  /\ loop' = "returned"
  /\ UNCHANGED <<input, pbegin, zeroes, size, length, b58, carry, i, j>>

Base58Next ==
  \/ encode_base_58
  \/ SkipZero \/ FixSize
  \/ TakeByte \/ NextDigit \/ PassByte \/ BytesPassed
  \/ SkipDigit \/ WriteText

Base58Init ==
  /\ loop = "returned"
  /\ input = [k \in 1..ADDRESS_LEN |-> 0]
  /\ pbegin = ADDRESS_LEN /\ zeroes = 0 /\ size = 0 /\ length = 0
  /\ b58 = [k \in 0..ADDRESS_BASE58_LEN-1 |-> 0]
  /\ carry = 0 /\ i = 0 /\ j = 0
  /\ result = <<>>

-----------------------------------------------------------------------------
(* Properties.                                                             *)

\* No index leaves b58, no digit its byte, and the text with its 0 byte fits
\* the 36 bytes of the address fields of ux.h (encode_base_58 checks neither).
StaysInBuffers ==
  /\ b58 \in [0..ADDRESS_BASE58_LEN-1 -> 0..57]
  /\ carry \in Byte
  /\ loop = "digits" /\ MoreDigits => j \in 0..ADDRESS_BASE58_LEN-1
  /\ loop = "text" /\ j # size => j \in 0..ADDRESS_BASE58_LEN-1
  /\ DOMAIN result \subseteq 1..ADDRESS_BASE58_LEN

\* size is large enough: the guard on j never cuts a carry off.
NoCarryIsLost == loop = "bytes" => carry = 0

\* Nine primes: their product is beyond 58^35, so that two numbers of up to 35
\* digits are the same if they leave the same remainders.
Primes == {8388593, 8388587, 8388581, 8388571, 8388547, 8388539, 8388473,
           8388461, 8388451}

\* The remainder of the number that digits are in some base.
Remainder(digits, base, prime) ==
  LET upTo[k \in 0..Len(digits)] ==
        IF k = 0 THEN 0 ELSE (base * upTo[k - 1] + digits[k]) % prime
  IN upTo[Len(digits)]

LeadingZeros(digits) ==
  {k \in DOMAIN digits : \A q \in 1..k : digits[q] = 0}

\* The text of an address decodes to it: both are the same number, in base 58
\* and in base 256, with a letter 1 for every leading zero byte.
AddressDecodesBack ==
  loop = "returned" /\ result # <<>> =>
    /\ LeadingZeros(result) = LeadingZeros(input)
    /\ \A p \in Primes : Remainder(result, 58, p) = Remainder(input, 256, p)
=============================================================================
