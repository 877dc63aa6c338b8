SPECIFICATION LoopSpec
CONSTANTS
  none = none
  NoTxn = none
  Txns <- OneSize
  Junk <- NoJunk
  Commands <- AllCommands
  AddressLengths = {35}
  Chunk = 254
  Buttons = {"right"}
  Eager = FALSE
  Faults = FALSE
  MaxSessions = 1
  MaxCommands = 2
INVARIANTS
  KeysFollowAcceptedRequest
CHECK_DEADLOCK FALSE
