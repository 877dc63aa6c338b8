--------------------------- MODULE MCCommandLoop ---------------------------
(* Small instances of CommandLoop.                                         *)
EXTENDS CommandLoop

CONSTANT none

Sized(n, m) == [in_num |-> n, out_num |-> m]

\* One packet or two, one response or two, an output cut by a packet.
FewSizes == {Sized(1, 1), Sized(4, 3), Sized(7, 2)}
OneSize  == {Sized(1, 1)}

\* Besides, transactions long enough for a misread one to be signed.
EagerSizes == FewSizes \cup {Sized(6, 2), Sized(7, 1), Sized(10, 3)}

\* Every number of inputs, with as many outputs as make the end of the inputs
\* and of each output fall at every kind of place in a packet.
AllSizes == {Sized(n, m) : n \in 1..MAX_INPUTS, m \in {1, 2, 3, 8}}

NoJunk   == {}
SomeJunk == {1, 2}

Hard(k) == [hard |-> TRUE, n |-> k]
Soft(k) == [hard |-> FALSE, n |-> k]

Words(purpose, coin, account, change, index) ==
  [i \in 0..4 |-> <<purpose, coin, account, change, index>>[i + 1]]

\* The path of adpu_call.py.
ScriptWords == Words(Hard(44), Hard(0), Hard(0), Soft(0), Soft(9))

Request(ins, words) == [cla |-> CLA, ins |-> ins, words |-> words]

\* To the session every command that is accepted is the same.
OneCommand == {Request(INS_GET_ADDRESS, ScriptWords)}

\* What the scripts send.
ScriptCommands ==
  {Request(ins, ScriptWords) :
     ins \in {INS_GET_VERSION, INS_GET_ADDRESS, INS_GET_PUBLIC_KEY,
              INS_GET_SIGNED_PUBLIC_KEY}}

\* Every check of get_bip44_path and of sky_main, passed and failed.
AllCommands ==
  ScriptCommands
  \cup {Request(INS_GET_ADDRESS, words) : words \in
          { Words(Hard(44), Hard(8000), Hard(9), Soft(1), Soft(999)),
            Words(Soft(44), Hard(0), Hard(0), Soft(0), Soft(0)),
            Words(Hard(43), Soft(0), Hard(0), Soft(0), Soft(0)),
            Words(Hard(43), Hard(0), Soft(0), Soft(0), Soft(0)),
            Words(Hard(43), Hard(0), Hard(0), Soft(0), Soft(0)),
            Words(Hard(44), Hard(0), Hard(10), Soft(0), Soft(0)),
            Words(Hard(44), Hard(0), Hard(0), Soft(2), Soft(0)),
            Words(Hard(44), Hard(0), Hard(0), Hard(0), Soft(0)),
            Words(Hard(44), Hard(0), Hard(0), Soft(0), Soft(1000)) }}
  \cup {Request(0, ScriptWords),
        [cla |-> 0, ins |-> INS_GET_VERSION, words |-> ScriptWords]}
=============================================================================
