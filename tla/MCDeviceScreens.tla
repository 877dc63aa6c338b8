-------------------------- MODULE MCDeviceScreens --------------------------
(* Small instances of DeviceScreens.                                       *)
EXTENDS DeviceScreens

CONSTANT none

Sized(n, m) == [in_num |-> n, out_num |-> m]

\* The first packet holds the whole first output; the others end in it, or
\* are cut by its end, or come after it.
EarlyOutputs == {Sized(2, 4), Sized(5, 2)}
TwoOutputs   == {Sized(1, 2)}

\* The path of adpu_call.py.
ScriptWords ==
  [i \in 0..4 |-> [hard |-> i < 3, n |-> <<44, 0, 0, 0, 9>>[i + 1]]]

GetAddress == {[cla |-> CLA, ins |-> INS_GET_ADDRESS, words |-> ScriptWords]}
NoJunk     == {}
=============================================================================
