------------------------------ MODULE Signing -------------------------------
(***************************************************************************)
(* comms/sign.py, what is signed and what is accepted.  A message or a     *)
(* record is a function from the names of its fields to their values; its  *)
(* signature is the key, the domain tag and the fields it was made over,   *)
(* for the bytes - canonical JSON behind a length-prefixed tag, or none -  *)
(* tell these apart.  Producers sign messages untagged and presence        *)
(* records tagged; verifiers accept both forms.                            *)
(***************************************************************************)
SIGNED_FIELDS == {"_from", "_to", "_at", "_urgency", "body", "_nonce"}
SigMeta       == {"_sig", "_sig_alg", "_key_id"}

DS_TAG_ENVELOPE == "synnoesis/v1/envelope"
DS_TAG_PRESENCE == "synnoesis/presence/v1"
Untagged        == "no domain tag"
Null            == "null"

\* A message's signed fields, those it lacks being null; all of a record's
\* fields but the signature itself.
Canonical(msg) ==
  [f \in SIGNED_FIELDS |-> IF f \in DOMAIN msg THEN msg[f] ELSE Null]
CanonicalRecord(rec) == [f \in DOMAIN rec \ SigMeta |-> rec[f]]

Signature(key, tag, fields) == <<key, tag, fields>>

\* What attach_signature and attach_record_signature add.
Attach(msg, sig, id) ==
  [f \in DOMAIN msg \cup SigMeta |-> CASE f = "_sig" -> sig
                                       [] f = "_sig_alg" -> "ed25519"
                                       [] f = "_key_id" -> id
                                       [] OTHER -> msg[f]]

AttachSignature(msg, key, id) ==
  Attach(msg, Signature(key, Untagged, Canonical(msg)), id)
AttachRecordSignature(rec, key, id, tag) ==
  Attach(rec, Signature(key, tag, CanonicalRecord(rec)), id)

IsSigned(msg) == "_sig" \in DOMAIN msg

\* Mutant of VerifyMessage: only the tagged form is accepted.
VerifyTagged(msg, key, tag) == msg["_sig"] = Signature(key, tag, Canonical(msg))

VerifyMessage(msg, key, tag) ==
  msg["_sig"] \in {Signature(key, t, Canonical(msg)) : t \in {tag, Untagged}}
VerifyRecord(rec, key, tag) ==
  rec["_sig"] \in {Signature(key, t, CanonicalRecord(rec)) : t \in {tag, Untagged}}
=============================================================================
