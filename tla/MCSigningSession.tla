-------------------------- MODULE MCSigningSession --------------------------
(* Small instances of SigningSession.                                      *)
EXTENDS SigningInvariants

CONSTANT none

Sized(n, m) == [in_num |-> n, out_num |-> m]

\* The transaction ends in its first packet, at its end, or in a second one;
\* the first output is cut by the packet, or follows it (7 inputs).
FewSizes == {Sized(1, 1), Sized(4, 3), Sized(6, 2), Sized(7, 2)}

\* Besides, transactions long enough for a misread one to be signed.
EagerSizes == FewSizes \cup {Sized(7, 1), Sized(10, 3)}

\* Only one packet is cut, in the inputs.
LateOutput == {Sized(7, 1)}

NoJunk   == {}
SomeJunk == {1, 2}
=============================================================================
