--------------------------- MODULE SigningPromise ---------------------------
(***************************************************************************)
(* What the device promises the user, whatever the host sends and whenever *)
(* buttons are pressed: a transaction is opened by a press, its outputs    *)
(* are approved one press at a time, only then are the keys used, and the  *)
(* signatures leave one after the other, at most one for each input.       *)
(* A transaction may be abandoned at any point and nothing more of it is   *)
(* then signed or sent.                                                    *)
(***************************************************************************)
EXTENDS Naturals

VARIABLES
  phase,    \* "closed", "reading", "reviewing", "released", "signed"
  inputs,   \* number of inputs, known once the review begins
  outputs,  \* number of outputs, known once the review begins
  approved, \* outputs approved so far
  returned  \* signatures sent so far

vars == <<phase, inputs, outputs, approved, returned>>

Init ==
  /\ phase = "closed"
  /\ inputs = 0 /\ outputs = 0 /\ approved = 0 /\ returned = 0

Open ==
  /\ phase = "closed"
  /\ phase' = "reading"
  /\ inputs' = 0 /\ outputs' = 0 /\ approved' = 0 /\ returned' = 0

Review ==
  /\ phase = "reading"
  /\ phase' = "reviewing"
  /\ inputs' \in 1..255 /\ outputs' \in 1..255
  /\ UNCHANGED <<approved, returned>>

Approve ==
  /\ phase = "reviewing" /\ approved < outputs
  /\ approved' = approved + 1
  /\ UNCHANGED <<phase, inputs, outputs, returned>>

Release ==
  /\ phase = "reviewing" /\ approved = outputs
  /\ phase' = "released"
  /\ UNCHANGED <<inputs, outputs, approved, returned>>

UseKeys ==
  /\ phase = "released"
  /\ phase' = "signed"
  /\ UNCHANGED <<inputs, outputs, approved, returned>>

Return ==
  /\ phase = "signed" /\ returned < inputs
  /\ returned' = returned + 1
  /\ UNCHANGED <<phase, inputs, outputs, approved>>

Close ==
  /\ phase' = "closed"
  /\ inputs' = 0 /\ outputs' = 0 /\ approved' = 0 /\ returned' = 0

Next == Open \/ Review \/ Approve \/ Release \/ UseKeys \/ Return \/ Close

Spec == Init /\ [][Next]_vars
=============================================================================
