\* The outputs begin in the first packet; a second transaction follows; every
\* address has the same length.
SPECIFICATION ScreensFairSpec
CONSTANTS
  none = none
  NoTxn = none
  Txns <- EarlyOutputs
  Junk <- NoJunk
  Commands <- GetAddress
  AddressLengths = {35}
  Chunk = 254
  Buttons = {"right", "left"}
  Eager = FALSE
  Faults = TRUE
  MaxSessions = 2
  MaxCommands = 1
INVARIANTS
  ScreensTypeOK
  ScrollStaysInside
  LabelFitsText
  PlainTextIsWhole
  EveryOutputSeen
  ApprovalShowsCurrentOutput
PROPERTY AmountIsShown
\* MaxSessions stops the host for good.
CHECK_DEADLOCK FALSE
