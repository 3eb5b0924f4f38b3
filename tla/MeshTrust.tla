----------------------------- MODULE MeshTrust ------------------------------
(***************************************************************************)
(* How one agent's key comes to be trusted on another machine: it composes *)
(* KeyFile, the agent's machine, with KeyringStore, the keyring commands   *)
(* of a peer, who pins what a keygen has reported, and Signing, the form   *)
(* of what the agent signs and how the peer verifies it, by the ring as it *)
(* is at that moment.                                                      *)
(***************************************************************************)
EXTENDS KeyFile, KeyringStore, Signing

CONSTANTS
  Agent,       \* the agent whose key file KeyFile is
  Unread       \* "not verified yet"

ASSUME TrustAssumption ==
  /\ Agent \in Agents /\ Keygens \subseteq Keys
  /\ Unread \notin Keys \cup {NoKey}
  /\ Unsigned \notin Keys

VARIABLES
  pin,         \* pin[s]: the agent's key in the ring when the peer verified s
  earlier      \* history: the keyring commands that had ended when p loaded

trustVars == <<keyVars, vars, pin, earlier>>

\* Types.
TrustTypeOK ==
  /\ KeyTypeOK /\ TypeOK
  /\ pin \in [Signings -> Keys \cup {NoKey, Unread}]
  /\ earlier \in [Procs -> SUBSET Procs]

TrustInit ==
  /\ KeyInit /\ Init
  /\ pin = [s \in Signings |-> Unread]
  /\ earlier = [p \in Procs |-> {}]

\* The operator has the agent's key, and its fingerprint, from a keygen.
IsTold(p) == Wish[p][Agent] \in Keygens => Wish[p][Agent] \in Reported

LoadAsTold(p) ==
  /\ IsTold(p) /\ Load(p)
  /\ earlier' = [earlier EXCEPT ![p] = {q \in Procs : pc[q] \in {"ok", "failed"}}]
  /\ UNCHANGED <<keyVars, pin>>

Finish(p) ==
  /\ Open(p) \/ Write(p) \/ Replace(p) \/ Die(p)
  /\ UNCHANGED <<keyVars, pin, earlier>>

AtAgent == KeyNext /\ UNCHANGED <<vars, pin, earlier>>

\* load_keyring: a corrupt ring is an empty one.
Ring == IF Stored \in Rings THEN Stored ELSE NoPins

\* A message or a record reaches the peer, at any time after it was signed.
Verify(s) ==
  /\ signature[s] # Unmade /\ pin[s] = Unread
  /\ pin' = [pin EXCEPT ![s] = Ring[Agent]]
  /\ UNCHANGED <<keyVars, vars, earlier>>

\* s may be a message or a presence record: the key is read and the ring is looked
\* up alike, the form is not.
Forms == {"message", "record"}

\* new_message, and presence.build with sign_record: what s says does not matter
\* here, nor which other agent it is for.
Content(s, form) ==
  IF form = "record"
  THEN [f \in {"agent_id", "online", "via", "_at"} |-> IF f = "agent_id" THEN Agent ELSE s]
  ELSE [f \in SIGNED_FIELDS |-> IF f = "_from" THEN Agent ELSE s]
Made(s, form) ==
  CASE signature[s] = Unsigned -> Content(s, form)
    [] signature[s] # Unsigned /\ form = "record" ->
         AttachRecordSignature(Content(s, form), signature[s], Agent, DS_TAG_PRESENCE)
    [] OTHER -> AttachSignature(Content(s, form), signature[s], Agent)

\* With the tag that process_incoming and presence.parse expect.
Accepts(s, form) ==
  IF form = "record" THEN VerifyRecord(Made(s, form), pin[s], DS_TAG_PRESENCE)
                     ELSE VerifyMessage(Made(s, form), pin[s], DS_TAG_ENVELOPE)

\* verify_against_keyring, verify_record_against_keyring.
Verdict(s, form) ==
  CASE ~IsSigned(Made(s, form)) -> "unsigned"
    [] IsSigned(Made(s, form)) /\ pin[s] = NoKey -> "no-key"
    [] IsSigned(Made(s, form)) /\ pin[s] # NoKey /\ Accepts(s, form) -> "ok"
    [] OTHER -> "bad"

TrustNext ==
  \/ AtAgent
  \/ \E p \in Procs : LoadAsTold(p) \/ Finish(p)
  \/ \E s \in Signings : Verify(s)

TrustSpec == TrustInit /\ [][TrustNext]_trustVars
-----------------------------------------------------------------------------
(* Properties                                                              *)

Verified == {s \in Signings : pin[s] # Unread}

\* sign.py 320-325: what an agent signs is judged by a key that it had reported
\* before, and not found "ok", only if that key was meanwhile rotated; it is
\* "bad" only if some command replaced a key, whoever pinned what and when.
RejectedOnlyIfRotated ==
  \A s \in Verified, form \in Forms :
    /\ pin[s] \in known[s] /\ Verdict(s, form) # "ok"
         => \E h \in Keygens : Takes(h, pin[s])
    /\ Verdict(s, form) = "bad" /\ pin[s] \in Keygens
         => \E g, h \in {pin[s], signature[s]} : Takes(h, g)

\* Two commands of the peer ran at the same time.
Raced(p, q) ==
  /\ p # q /\ pc[p] # "idle" /\ pc[q] # "idle"
  /\ p \notin earlier[q] /\ q \notin earlier[p]

\* keyring.py 56-60: only commands that ran at the same time corrupt the ring.
CorruptOnlyByRace == Stored \notin Rings => \E p, q \in Procs : Raced(p, q)

\* keyring.py 56-60: a command that no other has run at the same time with takes effect
\* at once or not at all, on the ring that earlier ones left, however they raced and
\* wherever they died: a step of it other than its success changes no pin.
TookEffect(p) == Stored \in Rings /\ ~Refuses(Stored, p) /\ Stored' = Merged(Stored, p)
AtomicIfLone(p) ==
  pc'[p] # pc[p] /\ (\A q \in Procs : ~Raced(p, q)')
  => IF pc'[p] = "ok" THEN TookEffect(p) ELSE Stored' = Stored
LoneCommandsAtomic == [][\A p \in Procs : AtomicIfLone(p)]_trustVars

\* keyring.py 10-11: a pin is never overwritten silently, as long as no two commands
\* have run at the same time, whichever of them died: another key takes its place only
\* when a --rotate that was given that key ends.
NoRace == \A p, q \in Procs : ~Raced(p, q)
OverwrittenOnlyByRace == [][NoRace' => ReplacedByRotation]_trustVars

\* keyring.py 158-164: a pin that a command reported is in the ring, while that
\* is readable, unless a later --rotate was given another key for that agent or
\* the command itself ran at the same time as another.
PinsHold ==
  Stored \in Rings =>
    \A p \in Procs, a \in Agents : pc[p] = "ok" /\ ring[p][a] # NoKey =>
      \/ Stored[a] = ring[p][a]
      \/ \E q \in Procs : Raced(p, q)
      \/ \E q \in Rotating : p \in earlier[q] /\ Wish[q][a] \notin {NoKey, ring[p][a]}
=============================================================================
