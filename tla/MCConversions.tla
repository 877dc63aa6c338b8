--------------------------- MODULE MCConversions ---------------------------
(* Small instances of Conversions.                                         *)
EXTENDS Conversions

\* Every number of leading zero bytes, before the largest number and before
\* two others; versions other than that of the program come from outputs.
Hash(z, byte(_)) == [k \in 1..RIPMD_HASH_LEN |-> IF k <= z THEN 0 ELSE byte(k)]
AllOnes(k) == 255
Rising(k)  == (37 * k) % 256
Lone(k)    == IF k = RIPMD_HASH_LEN THEN 1 ELSE 0

FewAddresses ==
  {[version |-> v, hash |-> h] : v \in {0, 255}, h \in
     {Hash(z, AllOnes) : z \in 0..RIPMD_HASH_LEN}
     \cup {Hash(z, Rising) : z \in {0, 3}} \cup {Hash(0, Lone)}}

\* Stands for SHA256: bytes that depend on what is hashed.
SomeChecksum(bytes) ==
  [k \in 1..CHECKSUM_LEN |-> (bytes[1] + (k - 1) * bytes[20 + (k % 2)]) % 256]

\* Up to the field's width, an int's sign bit, and its wrapping, with every
\* pattern of zeros in the decimals.
FewCoinNumbers ==
  {100 * whole + part :
     whole \in {0, 1, 9, 10, 100, 505, 999, 1000, 1001, 1023, 1024, 2047, 2048, 2049},
     part \in 0..99}

\* Numbers with and without a leading 0, told apart at every byte.
FewIntegers ==
  {[size |-> n, bytes |-> [k \in 0..n-1 |-> IF n = 33 /\ k = 0 THEN 0 ELSE (k + salt) % 256]] :
     n \in {32, 33}, salt \in {100, 200}}
=============================================================================
