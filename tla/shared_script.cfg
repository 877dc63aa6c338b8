\* Every number of inputs; a user who accepts; a second script's command
\* between any two exchanges.
SPECIFICATION LoopFairSpec
CONSTANTS
  none = none
  NoTxn = none
  Txns <- AllSizes
  Junk <- NoJunk
  Commands <- AllCommands
  AddressLengths = {35}
  Chunk = 254
  Buttons = {"right"}
  Eager = FALSE
  Faults = FALSE
  MaxSessions = 1
  MaxCommands = 1
INVARIANTS
  SignsOneWholeTransaction
  SavedBytesPrecedePacket
  ResponseFits
  HostGetsItsSignatures
  SoftWordsNeverEnter
PROPERTIES
  SessionSucceeds
\* MaxSessions stops the host for good.
CHECK_DEADLOCK FALSE
