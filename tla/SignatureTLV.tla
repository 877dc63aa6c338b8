---------------------------- MODULE SignatureTLV ----------------------------
(***************************************************************************)
(* From the signature of the SDK to that of Skycoin:                       *)
(* convert_signature_from_TLV_to_RS of skycoin-api/skycoin_crypto.c.       *)
(*                                                                         *)
(* Arrays are functions from 0, as in the code.                            *)
(***************************************************************************)
EXTENDS Integers

CONSTANT Integers32  \* the numbers R and S of the signatures

HALF_LEN == 32       \* bytes of R and of S in the result

\* "R value (32-33 bytes)": a number is given by its bytes, the first of which
\* may be a 0 before the 32 that count.
ASSUME IntegersAssumption ==
  \A x \in Integers32 :
    /\ x.size \in HALF_LEN..HALF_LEN+1
    /\ x.bytes \in [0..x.size-1 -> 0..255]

VARIABLES
  tlv,        \* what cx_ecdsa_sign has returned, and of which numbers
  signature   \* R and S as Skycoin takes them, nothing before

tlvVars == <<tlv, signature>>

-----------------------------------------------------------------------------
\* type | length | x02 | R length | R | x02 | S length | S
TLV(r, s) ==
  [k \in 0 .. 5 + r.size + s.size |->
     CASE k = 0 -> 48
       [] k = 1 -> 4 + r.size + s.size
       [] k = 2 -> 2
       [] k = 3 -> r.size
       [] k \in 4 .. 3 + r.size -> r.bytes[k - 4]
       [] k = 4 + r.size -> 2
       [] k = 5 + r.size -> s.size
       [] OTHER -> s.bytes[k - 6 - r.size]]

convert_signature_IgnoresPadding(bytes) ==
  [k \in 0 .. 2 * HALF_LEN - 1 |->
     IF k < HALF_LEN THEN bytes[4 + k] ELSE bytes[6 + k]]

\* The last 32 bytes of each number; where S is follows from the length of R.
convert_signature(bytes) ==
  LET r_size   == bytes[3]
      s_size   == bytes[3 + r_size + 2]
      r_offset == r_size - HALF_LEN
      s_offset == s_size - HALF_LEN
  IN [k \in 0 .. 2 * HALF_LEN - 1 |->
        IF k < HALF_LEN THEN bytes[4 + r_offset + k]
        ELSE bytes[4 + HALF_LEN + 2 + r_offset + s_offset + (k - HALF_LEN)]]

sign ==
  \E r, s \in Integers32 :
    /\ tlv' = [r |-> r, s |-> s]
    /\ signature' = convert_signature(TLV(r, s))

-----------------------------------------------------------------------------
(* Properties.                                                             *)

\* Byte k of the 32 bytes of a number.
ByteOf(x, k) == x.bytes[x.size - HALF_LEN + k]

\* "(R|S + recovery byte) format": byte for byte, the signature is the 32
\* bytes of R and then those of S, whichever of the two begins with a 0.
SignatureIsConverted ==
  signature # <<>> =>
    \A k \in 0..HALF_LEN-1 :
      /\ signature[k] = ByteOf(tlv.r, k)
      /\ signature[HALF_LEN + k] = ByteOf(tlv.s, k)
=============================================================================
