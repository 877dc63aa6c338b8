\* The right button before the next packet has come.
SPECIFICATION Spec
CONSTANTS
  none = none
  Txns <- EagerSizes
  NoTxn = none
  Junk <- SomeJunk
  Chunk = 254
  Buttons = {"right"}
  Eager = TRUE
  Faults = FALSE
  MaxSessions = 1
INVARIANT HostGetsItsSignatures
\* MaxSessions stops the host for good.
CHECK_DEADLOCK FALSE
