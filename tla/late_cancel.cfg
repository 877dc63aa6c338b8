\* The left button after the last approval was answered.
SPECIFICATION Spec
CONSTANTS
  none = none
  Txns <- FewSizes
  NoTxn = none
  Junk <- NoJunk
  Chunk = 254
  Buttons = {"left", "right"}
  Eager = TRUE
  Faults = FALSE
  MaxSessions = 1
INVARIANT CancelledIsNeverSigned
\* MaxSessions stops the host for good.
CHECK_DEADLOCK FALSE
