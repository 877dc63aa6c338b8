---------------------------- MODULE CommandLoop ----------------------------
(***************************************************************************)
(* The command loop of the application (sky_main of main.c), the commands  *)
(* other than signing (apdu_handlers.c) and the BIP44 path they share with *)
(* it (get_bip44_path of skycoin_crypto.c), around a SigningSession.       *)
(*                                                                         *)
(* Another script sends such commands while the signing script is between  *)
(* two exchanges, or after it has been killed.  They are answered at once, *)
(* by the loop itself: their handlers end in a THROW of the status word.   *)
(*                                                                         *)
(* A word of a path is a number and the bit 31 that makes it hardened.  A  *)
(* request shorter than a path reads bytes left in the APDU buffer, and so *)
(* is some other request.                                                  *)
(***************************************************************************)
EXTENDS SigningSession

CONSTANTS
  Commands,       \* what the other script may send: class, instruction, path
  AddressLengths, \* the lengths of an address in base58
  MaxCommands     \* bound on the number of its commands

INS_GET_VERSION           == 1
INS_GET_ADDRESS           == 2
INS_GET_PUBLIC_KEY        == 4
INS_GET_SIGNED_PUBLIC_KEY == 8
CLA == 128

SW_CLASS         == 28160   \* 0x6E00
SW_INSTRUCTION   == 27904   \* 0x6D00
SW_WRONG_DATA    == 27264   \* INS_RET_WRONG_DATA, 0x6A80

PK_LEN             == 65
VERSION_LEN        == 3
ADDRESS_LEN        == 25
ADDRESS_BASE58_LEN == 35

Word  == [hard : BOOLEAN, n : Nat]
Path  == [0..4 -> Word]
Unset == [i \in 0..4 |-> [hard |-> FALSE, n |-> 0]]

ASSUME CommandsAssumption ==
  /\ \A c \in Commands : c.cla \in 0..255 /\ c.ins \in 0..255 /\ c.words \in Path
  /\ \A c \in Commands : c.ins # 16   \* INS_SIGN_TRANSACTION is the session's
  /\ AddressLengths \subseteq ADDRESS_LEN..ADDRESS_BASE58_LEN
  /\ MaxCommands \in Nat

VARIABLES
  path,     \* global.getPublicKeyContext.bip44_path
  address,  \* the path whose address is displayed, Unset at first
  answer,   \* the answer on its way to the other script
  asked,    \* commands it has sent
  \* history, for the properties only:
  accepted  \* the path accepted last, Unset at first

loopVars == <<path, address, answer, asked, accepted>>
allVars  == <<vars, loopVars>>

NoAnswer == [ins |-> 0, sw |-> 0, len |-> 0]

-----------------------------------------------------------------------------
(* get_bip44_path: words are checked for hardening and stored one by one,  *)
(* and only then is the stored path checked.                               *)

Written_ChecksLate(words) == 5

Written(words) ==
  IF ~words[0].hard THEN 0
  ELSE IF ~words[1].hard THEN 1
  ELSE IF ~words[2].hard THEN 2
  ELSE 5

Stored(words) ==
  [i \in 0..4 |-> IF i < Written(words) THEN words[i] ELSE path[i]]

Acceptable(p) ==
  /\ p[0].n = 44
  /\ p[2].n \in 0..9
  /\ ~p[3].hard /\ p[3].n \in 0..1
  /\ ~p[4].hard /\ p[4].n \in 0..999

Accepts(words) == Written(words) = 5 /\ Acceptable(words)

get_bip44_path(words) ==
  /\ path' = Stored(words)
  /\ accepted' = IF Accepts(words) THEN words ELSE accepted

-----------------------------------------------------------------------------
(* The loop.                                                               *)

Arrives_ResetsSession ==
  /\ Idle /\ ~Waiting
  /\ answer = NoAnswer /\ asked < MaxCommands
  /\ asked' = asked + 1
  /\ dataBuffer' = Garbled
  /\ tx' = 0 /\ response' = <<>>
  /\ awaiting' = FALSE
  /\ initialized' = FALSE
  /\ UNCHANGED <<txn_state, curr_obj, txnVars, buffer, offset,
                 dataLength, caller, result, uiVars, reply, hostVars, historyVars>>

\* A command overwrites the APDU buffer, in which the decoder's unread bytes
\* are; the answer has left, and tx is 0, when the loop waits again.
Arrives ==
  /\ Idle /\ ~Waiting
  /\ answer = NoAnswer /\ asked < MaxCommands
  /\ asked' = asked + 1
  /\ dataBuffer' = Garbled
  /\ tx' = 0 /\ response' = <<>>
  /\ awaiting' = FALSE
  /\ UNCHANGED <<initialized, txn_state, curr_obj, txnVars, buffer, offset,
                 dataLength, caller, result, uiVars, reply, hostVars, historyVars>>

\* The length is added to what tx holds, which a button may have advanced.
Answer(c, sw, len) == answer' = [ins |-> c.ins, sw |-> sw, len |-> tx + len]

Rejected(c) ==
  /\ Arrives
  /\ \/ c.cla # CLA /\ Answer(c, SW_CLASS, 0)
     \/ /\ c.cla = CLA
        /\ c.ins \notin {INS_GET_VERSION, INS_GET_ADDRESS, INS_GET_PUBLIC_KEY,
                         INS_GET_SIGNED_PUBLIC_KEY}
        /\ Answer(c, SW_INSTRUCTION, 0)
  /\ UNCHANGED <<path, address, accepted>>

handleGetVersion(c) ==
  /\ Arrives
  /\ c.cla = CLA /\ c.ins = INS_GET_VERSION
  /\ Answer(c, INS_RET_SUCCESS, VERSION_LEN)
  /\ UNCHANGED <<path, address, accepted>>

WrongPath(c) ==
  /\ Arrives
  /\ c.cla = CLA
  /\ c.ins \in {INS_GET_ADDRESS, INS_GET_PUBLIC_KEY, INS_GET_SIGNED_PUBLIC_KEY}
  /\ ~Accepts(c.words)
  /\ get_bip44_path(c.words)
  /\ Answer(c, SW_WRONG_DATA, 0)
  /\ UNCHANGED address

handleGetPublicKey(c) ==
  /\ Arrives
  /\ c.cla = CLA /\ c.ins = INS_GET_PUBLIC_KEY
  /\ Accepts(c.words) /\ get_bip44_path(c.words)
  /\ Answer(c, INS_RET_SUCCESS, PK_LEN)
  /\ UNCHANGED address

handleGetSignedPublicKey_SharesTheHasher(c) ==
  /\ Idle /\ ~Waiting
  /\ answer = NoAnswer /\ asked < MaxCommands
  /\ c.cla = CLA /\ c.ins = INS_GET_SIGNED_PUBLIC_KEY
  /\ Accepts(c.words) /\ get_bip44_path(c.words)
  /\ Answer(c, INS_RET_SUCCESS, SIG_LEN)
  /\ asked' = asked + 1
  /\ hash' = EmptyHash
  /\ dataBuffer' = Garbled
  /\ tx' = 0 /\ response' = <<>>
  /\ awaiting' = FALSE
  /\ UNCHANGED <<initialized, txn_state, curr_obj, in_num, out_num, sig_input,
                 cur_output, inner_hash, buffer, offset, dataLength, caller,
                 result, uiVars, reply, hostVars, historyVars, address>>

\* The signature signs the public key's hash with the key of the path.
handleGetSignedPublicKey(c) ==
  /\ Arrives
  /\ c.cla = CLA /\ c.ins = INS_GET_SIGNED_PUBLIC_KEY
  /\ Accepts(c.words) /\ get_bip44_path(c.words)
  /\ Answer(c, INS_RET_SUCCESS, SIG_LEN)
  /\ UNCHANGED address

handleGetAddress(c) ==
  /\ Arrives
  /\ c.cla = CLA /\ c.ins = INS_GET_ADDRESS
  /\ Accepts(c.words) /\ get_bip44_path(c.words)
  /\ address' = c.words
  /\ \E len \in AddressLengths : Answer(c, INS_RET_SUCCESS, len)

\* The handler that lookupHandler finds for the instruction, if any.
OtherCommand ==
  \E c \in Commands :
    \/ Rejected(c) \/ WrongPath(c)
    \/ handleGetVersion(c) \/ handleGetPublicKey(c)
    \/ handleGetSignedPublicKey(c) \/ handleGetAddress(c)

OtherReceives ==
  /\ answer # NoAnswer
  /\ answer' = NoAnswer
  /\ UNCHANGED <<vars, path, address, asked, accepted>>

-----------------------------------------------------------------------------
LoopInit ==
  /\ Init
  /\ path = Unset /\ address = Unset /\ accepted = Unset
  /\ answer = NoAnswer /\ asked = 0

\* The session's steps leave the path alone: signing changes its last word
\* for each input and puts it back.
SessionStep ==
  /\ \/ DeviceComputes
     \/ HostStart \/ HostSend \/ HostReceive
     \/ UserPressesRight \/ UserPressesLeft \/ UserDismisses
     \/ HostDies
  /\ UNCHANGED loopVars

LoopRestarts ==
  /\ DeviceRestarts
  /\ path' = Unset /\ address' = Unset /\ accepted' = Unset
  /\ answer' = NoAnswer
  /\ UNCHANGED asked

LoopNext == SessionStep \/ LoopRestarts \/ OtherCommand \/ OtherReceives

LoopSpec == LoopInit /\ [][LoopNext]_allVars

\* The fairness of the session, whatever the other script does.
LoopFairSpec ==
  /\ LoopSpec
  /\ WF_allVars(DeviceComputes /\ UNCHANGED loopVars)
  /\ WF_allVars(HostSend /\ UNCHANGED loopVars)
  /\ WF_allVars(HostReceive /\ UNCHANGED loopVars)
  /\ WF_allVars(awaiting /\ (UserPressesRight \/ UserPressesLeft)
                 /\ UNCHANGED loopVars)

-----------------------------------------------------------------------------
(* Properties.                                                             *)

\* The structs of ux.h, with the path of getPublicKeyContext_t.
LoopTypeOK ==
  /\ TypeOK
  /\ path \in Path /\ address \in Path /\ accepted \in Path
  /\ answer.ins \in 0..255 /\ answer.len \in Nat
  /\ asked \in 0..MaxCommands

\* "First bit in purpose, cont_type and account should be 1": a request that
\* is refused may leave words in the path, but never one that is not hardened.
SoftWordsNeverEnter ==
  \A i \in 0..2 : path[i].hard \/ path[i] = Unset[i]

UsesKeys == Running /\ txn_state = TXN_COMPUTE_SIGS

\* "Purpose should be 44", "Change should be 0 or 1": once a path has been
\* accepted inputs are signed with its keys, and a request that is refused
\* later has no effect on them.
KeysFollowAcceptedRequest ==
  UsesKeys /\ accepted # Unset => path = accepted

\* An answer has the length of what was asked for: nothing of a response of
\* the session is sent with it.
AnswersHaveTheirLength ==
  answer # NoAnswer =>
    answer.len \in CASE answer.sw # INS_RET_SUCCESS -> {0}
                     [] answer.ins = INS_GET_VERSION -> {VERSION_LEN}
                     [] answer.ins = INS_GET_ADDRESS -> AddressLengths
                     [] OTHER -> {PK_LEN}
=============================================================================
