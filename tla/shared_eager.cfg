\* A user who presses any button at any time, faults, another script.
SPECIFICATION LoopSpec
CONSTANTS
  none = none
  NoTxn = none
  Txns <- EagerSizes
  Junk <- SomeJunk
  Commands <- OneCommand
  AddressLengths = {35}
  Chunk = 254
  Buttons = {"right", "left"}
  Eager = TRUE
  Faults = TRUE
  MaxSessions = 2
  MaxCommands = 1
INVARIANTS
  LoopTypeOK
  OwedReplyHasAButton
  MessageMeansClosed
  EveryOutputConfirmed
PROPERTIES
  KeepsPromise
\* MaxSessions stops the host for good.
CHECK_DEADLOCK FALSE
