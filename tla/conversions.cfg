\* Two decimals, an int of 11 bits and a field of 7 characters stand for six
\* decimals, 32 bits and 16 characters.
SPECIFICATION Spec
CONSTANTS
  Addresses <- FewAddresses
  Checksum <- SomeChecksum
  CoinNumbers <- FewCoinNumbers
  Decimals = 2
  IntBits = 11
  FieldChars = 7
  Integers32 <- FewIntegers
INVARIANTS
  StaysInBuffers
  NoCarryIsLost
  AddressDecodesBack
  AmountIsExact
  SignatureIsConverted
\* A behaviour is one conversion.
CHECK_DEADLOCK FALSE
