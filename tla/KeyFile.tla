------------------------------ MODULE KeyFile -------------------------------
(***************************************************************************)
(* comms/keygen.py with the part of sign.py that signs: the private key    *)
(* file of one agent, the keygen commands that write it, each a process    *)
(* that may die between any two system calls, and the messages and         *)
(* presence records the agent signs, for each of which the file is read    *)
(* anew.  Nothing locks the file, and a reader may find it just emptied.   *)
(* 'cryptography' is installed; without it there are neither keys nor      *)
(* signatures.                                                             *)
(***************************************************************************)
CONSTANTS
  Keygens,     \* keygen commands; a key pair has the name of the one that drew it
  Forced,      \* those given --force
  Signings,    \* the messages, presence records and last wills the agent makes
  Absent,      \* "there is no key file"
  Emptied,     \* the content of a key file just opened for writing
  Unmade,      \* "not made yet"
  Unsigned     \* "made without a signature"

ASSUME KeyFileAssumption ==
  /\ Forced \subseteq Keygens
  /\ {Absent, Emptied, Unmade, Unsigned} \cap Keygens = {}
  /\ Absent # Emptied /\ Unmade # Unsigned

VARIABLES
  stage,       \* stage[g]: how far the command g is
  keyFile,     \* <agent>.key
  signature,   \* signature[s]: the key that signed s
  before,      \* history: the commands that had ended when g looked for a key
  known        \* history: the commands that had reported a key when s was made

keyVars == <<stage, keyFile, signature, before, known>>

Stages  == {"new", "drawn", "emptied", "written", "reported", "left", "dead"}
Touched == {"emptied", "written", "reported", "dead"}
Ended   == {g \in Keygens : stage[g] \in {"reported", "left", "dead"}}
Reported == {g \in Keygens : stage[g] = "reported"}

\* Types; "left" is a command that ended without touching the file.
KeyTypeOK ==
  /\ stage \in [Keygens -> Stages]
  /\ keyFile \in Keygens \cup {Absent, Emptied}
  /\ signature \in [Signings -> Keygens \cup {Unmade, Unsigned}]
  /\ before \in [Keygens -> SUBSET Keygens]
  /\ known \in [Signings -> SUBSET Keygens]

KeyInit ==
  /\ stage = [g \in Keygens |-> "new"]
  /\ keyFile = Absent
  /\ signature = [s \in Signings |-> Unmade]
  /\ before = [g \in Keygens |-> {}]
  /\ known = [s \in Signings |-> {}]

-----------------------------------------------------------------------------
(* cmd_keygen                                                              *)

\* Mutant of MayWrite: --force is not asked for.
MayWriteAlways(g) == TRUE

\* There is a file, were it empty: only --force goes on.
MayWrite(g) == keyFile = Absent \/ g \in Forced

Refuse(g) ==
  /\ stage[g] = "new" /\ ~MayWrite(g)
  /\ stage' = [stage EXCEPT ![g] = "left"]
  /\ before' = [before EXCEPT ![g] = Ended]
  /\ UNCHANGED <<keyFile, signature, known>>

Draw(g) ==
  /\ stage[g] = "new" /\ MayWrite(g)
  /\ stage' = [stage EXCEPT ![g] = "drawn"]
  /\ before' = [before EXCEPT ![g] = Ended]
  /\ UNCHANGED <<keyFile, signature, known>>

\* write_text opens the file, which empties it ...
OpenKey(g) ==
  /\ stage[g] = "drawn"
  /\ stage' = [stage EXCEPT ![g] = "emptied"]
  /\ keyFile' = Emptied
  /\ UNCHANGED <<signature, before, known>>

\* ... and writes its one line from the start: all keys are of one length, so
\* that it replaces the line of another command whole.
WriteKey(g) ==
  /\ stage[g] = "emptied"
  /\ stage' = [stage EXCEPT ![g] = "written"]
  /\ keyFile' = g
  /\ UNCHANGED <<signature, before, known>>

\* The public key and its fingerprint are shown, this once.
Report(g) ==
  /\ stage[g] = "written"
  /\ stage' = [stage EXCEPT ![g] = "reported"]
  /\ UNCHANGED <<keyFile, signature, before, known>>

\* Killed, or an OSError.
DieInKeygen(g) ==
  /\ stage[g] \in {"drawn", "emptied", "written"}
  /\ stage' = [stage EXCEPT ![g] = IF @ = "drawn" THEN "left" ELSE "dead"]
  /\ UNCHANGED <<keyFile, signature, before, known>>

-----------------------------------------------------------------------------
(* new_message and sign_record                                             *)

\* Mutant of LoadPrivateKey: it looks where keygen does not write.
LoadElsewhere == Absent

LoadPrivateKey == keyFile

\* Mutant of Sign: an empty file is a key, too.
SignAnyhow(s) ==
  /\ signature[s] = Unmade
  /\ signature' = [signature EXCEPT
       ![s] = IF LoadPrivateKey = Absent THEN Unsigned ELSE LoadPrivateKey]
  /\ known' = [known EXCEPT ![s] = Reported]
  /\ UNCHANGED <<stage, keyFile, before>>

\* No key file, or an empty one, is no key: what is made goes out unsigned.
Sign(s) ==
  /\ signature[s] = Unmade
  /\ signature' = [signature EXCEPT
       ![s] = IF LoadPrivateKey \in Keygens THEN LoadPrivateKey ELSE Unsigned]
  /\ known' = [known EXCEPT ![s] = Reported]
  /\ UNCHANGED <<stage, keyFile, before>>

Keygen(g) == Refuse(g) \/ Draw(g) \/ OpenKey(g) \/ WriteKey(g) \/ Report(g) \/ DieInKeygen(g)

KeyNext == (\E g \in Keygens : Keygen(g)) \/ (\E s \in Signings : Sign(s))

KeySpec == KeyInit /\ [][KeyNext]_keyVars
-----------------------------------------------------------------------------
(* Properties                                                              *)

\* h took the file from g: it was given --force and came after g, or the two
\* ran at the same time.
Takes(h, g) ==
  /\ h # g /\ stage[h] \in Touched
  /\ g \in before[h] => h \in Forced
  /\ h \notin before[g]

\* keygen.py 72-77: an identity that was reported is the one in the key file
\* until a command that was given --force begins to rotate it - or, nothing
\* locking the file, one that had found no key either writes its own.
IdentityHolds == \A g \in Reported : keyFile = g \/ \E h \in Keygens : Takes(h, g)

\* sign.py 403-407: what an agent makes after a key of its was reported is
\* signed with that key - neither with another nor, for a keygen that died
\* half-way or is about to write, not at all - unless that key was rotated.
SignedAsReported ==
  \A s \in Signings : signature[s] # Unmade =>
    \A g \in known[s] : signature[s] = g \/ \E h \in Keygens : Takes(h, g)
=============================================================================
