SPECIFICATION LoopSpec
CONSTANTS
  none = none
  NoTxn = none
  Txns <- OneSize
  Junk <- NoJunk
  Commands <- ScriptCommands
  AddressLengths = {35}
  Chunk = 254
  Buttons = {"right"}
  Eager = FALSE
  Faults = FALSE
  MaxSessions = 1
  MaxCommands = 2
INVARIANTS
  AnswersHaveTheirLength
CHECK_DEADLOCK FALSE
