\* A transaction offered after one that was left during its review.
SPECIFICATION Spec
CONSTANTS
  none = none
  Txns <- FewSizes
  NoTxn = none
  Junk <- NoJunk
  Chunk = 254
  Buttons = {"left", "right"}
  Eager = FALSE
  Faults = FALSE
  MaxSessions = 3
INVARIANT OfferIsNotAnApproval
\* MaxSessions stops the host for good.
CHECK_DEADLOCK FALSE
