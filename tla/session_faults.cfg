\* A patient user, both buttons, a host that may be killed, a device that may
\* restart.
SPECIFICATION FairSpec
CONSTANTS
  none = none
  Txns <- FewSizes
  NoTxn = none
  Junk <- SomeJunk
  Chunk = 254
  Buttons = {"left", "right"}
  Eager = FALSE
  Faults = TRUE
  MaxSessions = 3
INVARIANTS
  TypeOK
  SignsOneWholeTransaction
  CancelledIsNeverSigned
PROPERTY SessionEnds
\* MaxSessions stops the host for good.
CHECK_DEADLOCK FALSE
