\* The first output ends a packet that the handler decodes.
SPECIFICATION Spec
CONSTANTS
  none = none
  Txns <- LateOutput
  NoTxn = none
  Junk <- NoJunk
  Chunk = 254
  Buttons = {"right"}
  Eager = FALSE
  Faults = FALSE
  MaxSessions = 1
INVARIANT ApprovalShowsCurrentOutput
\* MaxSessions stops the host for good.
CHECK_DEADLOCK FALSE
