\* Addresses of 34 and of 35 characters.
SPECIFICATION ScreensFairSpec
CONSTANTS
  none = none
  NoTxn = none
  Txns <- TwoOutputs
  Junk <- NoJunk
  Commands <- GetAddress
  AddressLengths = {34, 35}
  Chunk = 254
  Buttons = {"right", "left"}
  Eager = FALSE
  Faults = FALSE
  MaxSessions = 1
  MaxCommands = 0
PROPERTY AmountIsShown
CHECK_DEADLOCK FALSE
