---------------------------- MODULE TrustProofs -----------------------------
(***************************************************************************)
(* For any number of keygens, of keyring commands and of things signed, in *)
(* any order and whichever of them die: a reported identity is the one     *)
(* that signs until it is rotated, a peer rejects what the agent signed    *)
(* only after a rotation, only commands that ran at the same time corrupt  *)
(* the peer's ring or drop a pin, and a command that ran alone is atomic.  *)
(***************************************************************************)
EXTENDS MeshTrust, KeyringProofs

(* The key file                                                            *)

HoldsOrTaken(g) == keyFile = g \/ \E h \in Keygens : Takes(h, g)

\* The file is never removed; of two commands at most one ended before the
\* other looked; a command that found it, or that came after one
\* that had written it, goes on only under --force.
NeverRemoved == \A g \in Keygens : stage[g] \in Touched => keyFile # Absent
EndedBefore == \A g, h \in Keygens : g \in before[h] => g \in Ended /\ stage[h] # "new"
OneWay == \A g, h \in Keygens : g \in before[h] => h \notin before[g]
LaterIsForced ==
  \A g, h \in Keygens :
    g \in before[h] /\ stage[g] \in Touched /\ stage[h] \in {"drawn"} \cup Touched
    => h \in Forced
WrittenHolds == \A g \in Keygens : stage[g] \in {"written", "reported"} => HoldsOrTaken(g)
KnownAreReported == \A s \in Signings : known[s] \subseteq Reported

KeyInv == /\ KeyTypeOK /\ NeverRemoved /\ EndedBefore /\ OneWay /\ LaterIsForced
          /\ WrittenHolds /\ KnownAreReported /\ SignedAsReported

LEMMA KeyInvInit == KeyInit => KeyInv
  <1> SUFFICES ASSUME KeyInit PROVE KeyInv
    OBVIOUS
  <1>1. KeyTypeOK
    BY DEF KeyInit, KeyTypeOK, Stages
  <1>2. \A g \in Keygens : stage[g] = "new" /\ before[g] = {}
    BY DEF KeyInit
  <1>3. \A s \in Signings : signature[s] = Unmade /\ known[s] = {}
    BY DEF KeyInit
  <1>4. KnownAreReported /\ SignedAsReported
    BY <1>3 DEF KnownAreReported, SignedAsReported
  <1>5. NeverRemoved /\ EndedBefore /\ OneWay /\ LaterIsForced /\ WrittenHolds
    BY <1>2 DEF NeverRemoved, EndedBefore, OneWay, LaterIsForced, WrittenHolds, Touched
  <1> QED
    BY <1>1, <1>4, <1>5 DEF KeyInv

\* Once h has taken the file from g, nothing undoes it.
LEMMA TakenForGood ==
  ASSUME KeyInv, [KeyNext]_keyVars, NEW g \in Keygens, NEW h \in Keygens,
         Takes(h, g), stage[g] # "new"
  PROVE  Takes(h, g)'
  <1>1. before'[g] = before[g] /\ before'[h] = before[h] /\ stage'[h] \in Touched
    BY DEF KeyNext, Keygen, Refuse, Draw, OpenKey, WriteKey, Report, DieInKeygen, Sign,
           keyVars, Takes, Touched, KeyInv, KeyTypeOK, Stages
  <1> QED
    BY <1>1 DEF Takes

LEMMA KeyTypesStep == KeyTypeOK /\ [KeyNext]_keyVars => KeyTypeOK'
  <1> SUFFICES ASSUME KeyTypeOK, [KeyNext]_keyVars PROVE KeyTypeOK'
    OBVIOUS
  <1> USE DEF KeyTypeOK, Stages
  <1>1. ASSUME NEW g \in Keygens, Keygen(g) PROVE KeyTypeOK'
    BY <1>1 DEF Keygen, Refuse, Draw, OpenKey, WriteKey, Report, DieInKeygen, Ended
  <1>2. ASSUME NEW s \in Signings, Sign(s) PROVE KeyTypeOK'
    BY <1>2 DEF Sign, LoadPrivateKey, Reported
  <1>3. CASE UNCHANGED keyVars
    BY <1>3 DEF keyVars
  <1> QED
    BY <1>1, <1>2, <1>3 DEF KeyNext

\* A command that empties or writes the file takes it from every command that
\* had written its key: such a one came before - then only --force goes on, for
\* the file had never been removed - or has not ended when the other looked.
LEMMA WriterTakes ==
  ASSUME KeyInv, NEW g \in Keygens, NEW h \in Keygens, h # g,
         stage[h] \in {"drawn", "emptied"}, stage[g] \in {"written", "reported"}
  PROVE  (g \in before[h] => h \in Forced) /\ h \notin before[g]
  BY DEF KeyInv, EndedBefore, LaterIsForced, NeverRemoved, Touched, Ended

LEMMA KeyInvStep == KeyInv /\ [KeyNext]_keyVars => KeyInv'
  <1> SUFFICES ASSUME KeyInv, [KeyNext]_keyVars PROVE KeyInv'
    OBVIOUS
  <1>0. KeyTypeOK /\ KeyTypeOK'
    BY KeyTypesStep DEF KeyInv
  <1>1. NeverRemoved'
    BY <1>0, KeyFileAssumption
    DEF KeyInv, NeverRemoved, KeyTypeOK, Touched, KeyNext, Keygen, Refuse, Draw, OpenKey, WriteKey, Report,
        DieInKeygen, Sign, keyVars
  <1>2. \A g \in Ended : g \in Ended' /\ stage'[g] = stage[g]
    BY <1>0 DEF KeyTypeOK, Ended, KeyNext, Keygen, Refuse, Draw, OpenKey, WriteKey, Report,
                DieInKeygen, Sign, keyVars
  <1>3. EndedBefore'
    <2> SUFFICES ASSUME NEW g \in Keygens, NEW h \in Keygens, g \in before'[h]
                 PROVE  g \in Ended' /\ stage'[h] # "new"
      BY DEF EndedBefore
    <2>1. \/ g \in before[h]
          \/ g \in Ended /\ stage'[h] \in {"left", "drawn"}
      BY <1>0 DEF KeyTypeOK, KeyNext, Keygen, Refuse, Draw, OpenKey, WriteKey, Report,
                  DieInKeygen, Sign, keyVars
    <2>2. g \in before[h] => g \in Ended /\ stage[h] # "new"
      BY DEF KeyInv, EndedBefore
    <2>3. stage[h] # "new" => stage'[h] # "new"
      BY <1>0 DEF KeyTypeOK, KeyNext, Keygen, Refuse, Draw, OpenKey, WriteKey, Report,
                  DieInKeygen, Sign, keyVars
    <2> QED
      BY <2>1, <2>2, <2>3, <1>2
  <1>4. ASSUME NEW g \in Keygens, NEW h \in Keygens, g \in before'[h], stage'[g] \in Touched,
               stage'[h] \in {"drawn"} \cup Touched
        PROVE  h \in Forced
    <2>1. CASE g \in before[h]
      <3>1. g \in Ended /\ stage[h] # "new"
        BY <2>1 DEF KeyInv, EndedBefore
      <3>2. stage[g] \in Touched
        BY <3>1, <1>2, <1>4
      <3>3. stage[h] \in {"drawn"} \cup Touched
        BY <3>1, <1>0, <1>4 DEF KeyTypeOK, Touched, KeyNext, Keygen, Refuse, Draw, OpenKey,
           WriteKey, Report, DieInKeygen, Sign, keyVars
      <3> QED
        BY <2>1, <3>2, <3>3 DEF KeyInv, LaterIsForced
    <2>2. CASE g \notin before[h]
      <3>1. g \in Ended /\ MayWrite(h)
        BY <2>2, <1>4, <1>0 DEF KeyTypeOK, Touched, KeyNext, Keygen, Refuse, Draw, OpenKey,
           WriteKey, Report, DieInKeygen, Sign, keyVars
      <3>2. stage[g] \in Touched
        BY <3>1, <1>2, <1>4
      <3> QED
        BY <3>1, <3>2 DEF KeyInv, NeverRemoved, MayWrite
    <2> QED
      BY <2>1, <2>2
  <1>5. ASSUME NEW g \in Keygens, stage'[g] \in {"written", "reported"} PROVE HoldsOrTaken(g)'
    <2>1. CASE stage[g] \in {"written", "reported"}
      <3>1. CASE \E h \in Keygens : Takes(h, g)
        BY <3>1, <2>1, TakenForGood DEF HoldsOrTaken
      <3>2. CASE keyFile' = keyFile
        BY <3>1, <3>2, <2>1 DEF KeyInv, WrittenHolds, HoldsOrTaken
      <3>3. ASSUME NEW h \in Keygens, OpenKey(h) \/ WriteKey(h) PROVE HoldsOrTaken(g)'
        <4>1. h # g /\ stage[h] \in {"drawn", "emptied"}
          BY <3>3, <2>1 DEF OpenKey, WriteKey
        <4>2. stage'[h] \in Touched /\ before' = before
          BY <3>3, <1>0 DEF OpenKey, WriteKey, Touched, KeyTypeOK
        <4>3. Takes(h, g)'
          BY <4>1, <4>2, <2>1, WriterTakes DEF Takes
        <4> QED
          BY <4>3 DEF HoldsOrTaken
      <3> QED
        BY <3>2, <3>3 DEF KeyNext, Keygen, Refuse, Draw, Report, DieInKeygen, Sign, keyVars
    <2>2. CASE stage[g] \notin {"written", "reported"}
      <3>1. keyFile' = g
        BY <2>2, <1>5, <1>0 DEF KeyTypeOK, KeyNext, Keygen, Refuse, Draw, OpenKey, WriteKey,
           Report, DieInKeygen, Sign, keyVars
      <3> QED
        BY <3>1 DEF HoldsOrTaken
    <2> QED
      BY <2>1, <2>2
  <1>6. KnownAreReported'
    <2>1. Reported \subseteq Reported'
      BY <1>2 DEF Reported, Ended
    <2>2. \A s \in Signings : known'[s] = known[s] \/ known'[s] = Reported
      BY <1>0 DEF KeyTypeOK, KeyNext, Keygen, Refuse, Draw, OpenKey, WriteKey, Report,
                  DieInKeygen, Sign, keyVars
    <2> QED
      BY <2>1, <2>2 DEF KeyInv, KnownAreReported
  <1>7. SignedAsReported'
    <2> SUFFICES ASSUME NEW s \in Signings, signature'[s] # Unmade, NEW g \in known'[s]
                 PROVE  signature'[s] = g \/ (\E h \in Keygens : Takes(h, g))'
      BY DEF SignedAsReported
    <2>1. CASE signature'[s] = signature[s] /\ known'[s] = known[s]
      <3>1. g \in Reported
        BY <2>1 DEF KeyInv, KnownAreReported
      <3>2. g \in Keygens /\ stage[g] # "new"
        BY <3>1 DEF Reported
      <3>3. signature[s] = g \/ \E h \in Keygens : Takes(h, g)
        BY <2>1 DEF KeyInv, SignedAsReported
      <3> QED
        BY <2>1, <3>2, <3>3, TakenForGood
    <2>2. CASE Sign(s)
      <3>1. /\ known'[s] = Reported /\ stage' = stage /\ before' = before
            /\ signature'[s] = IF keyFile \in Keygens THEN keyFile ELSE Unsigned
        BY <2>2, <1>0 DEF Sign, LoadPrivateKey, KeyTypeOK
      <3>2. g \in Keygens /\ stage[g] = "reported"
        BY <3>1 DEF Reported
      <3>3. HoldsOrTaken(g)
        BY <3>2 DEF KeyInv, WrittenHolds
      <3> QED
        BY <3>1, <3>2, <3>3 DEF HoldsOrTaken, Takes
    <2>3. Sign(s) \/ (signature'[s] = signature[s] /\ known'[s] = known[s])
      BY <1>0 DEF KeyTypeOK, KeyNext, Keygen, Refuse, Draw, OpenKey, WriteKey, Report,
                  DieInKeygen, Sign, keyVars
    <2> QED
      BY <2>1, <2>2, <2>3
  <1>8. LaterIsForced'
    BY <1>4 DEF LaterIsForced
  <1>9. WrittenHolds'
    BY <1>5 DEF WrittenHolds
  <1>10. OneWay'
    <2> SUFFICES ASSUME NEW g \in Keygens, NEW h \in Keygens, g \in before'[h], h \in before'[g]
                 PROVE  FALSE
      BY DEF OneWay
    <2>1. /\ g \in before[h] \/ (g \in Ended /\ stage[h] = "new" /\ before'[g] = before[g])
          /\ h \in before[g] \/ (h \in Ended /\ stage[g] = "new" /\ before'[h] = before[h])
      BY <1>0 DEF KeyTypeOK, Ended, KeyNext, Keygen, Refuse, Draw, OpenKey, WriteKey, Report,
                  DieInKeygen, Sign, keyVars
    <2> QED
      BY <2>1 DEF KeyInv, OneWay, EndedBefore, Ended
  <1> QED
    BY <1>0, <1>1, <1>3, <1>6, <1>7, <1>8, <1>9, <1>10 DEF KeyInv

\* Of two commands that touched the file one took it from the other.
LEMMA OneTookIt ==
  ASSUME KeyInv, NEW g \in Keygens, NEW h \in Keygens, g # h,
         stage[g] \in Touched, stage[h] \in Touched
  PROVE  Takes(g, h) \/ Takes(h, g)
  BY DEF KeyInv, OneWay, LaterIsForced, Takes

\* Every step of the composition is one of the agent's machine or leaves that
\* alone, and so for the peer's keyring.
LEMMA TrustSteps ==
  [TrustNext]_trustVars => [KeyNext]_keyVars /\ [Next]_vars
  BY DEF TrustNext, trustVars, AtAgent, LoadAsTold, Finish, Verify, Next

LEMMA KeyAlways == TrustSpec => []KeyInv
  <1>1. TrustInit => KeyInv
    BY KeyInvInit DEF TrustInit
  <1> QED
    BY <1>1, KeyInvStep, TrustSteps, PTL DEF TrustSpec

\* keygen.py 72-77: however many keygens run, and whichever of them die, the key
\* that one has reported stays in the key file until another takes it.
THEOREM ReportedIdentityHolds == TrustSpec => []IdentityHolds
  <1>1. KeyInv => IdentityHolds
    BY DEF KeyInv, WrittenHolds, HoldsOrTaken, IdentityHolds, Reported
  <1> QED
    BY <1>1, KeyAlways, PTL

\* sign.py 397-419, presence.py 85-93: however many keygens run meanwhile, what
\* is made after a key was reported is signed with it until it is rotated.
THEOREM SignedWithReportedKey == TrustSpec => []SignedAsReported
  <1>1. KeyInv => SignedAsReported
    BY DEF KeyInv
  <1> QED
    BY <1>1, KeyAlways, PTL

(* The composition                                                         *)

LEMMA RingIsARing == TypeOK => Ring \in Rings
  BY NoPinsIsARing DEF Ring

LEMMA TrustTypesStep == TrustTypeOK /\ [TrustNext]_trustVars => TrustTypeOK'
  <1> SUFFICES ASSUME TrustTypeOK, [TrustNext]_trustVars PROVE TrustTypeOK'
    OBVIOUS
  <1>1. KeyTypeOK' /\ TypeOK'
    BY TrustSteps, KeyTypesStep, TypeStep DEF TrustTypeOK
  <1>2. Ring[Agent] \in Keys \cup {NoKey}
    BY RingIsARing, TrustAssumption DEF Rings, TrustTypeOK
  <1>3. pin' \in [Signings -> Keys \cup {NoKey, Unread}] /\ earlier' \in [Procs -> SUBSET Procs]
    BY <1>2 DEF TrustTypeOK, TrustNext, trustVars, AtAgent, LoadAsTold, Finish, Verify
  <1> QED
    BY <1>1, <1>3 DEF TrustTypeOK

(* The signed form                                                         *)

\* What attaching a signature adds is not part of what is signed.
LEMMA SignedPart ==
  ASSUME NEW msg, NEW sig, NEW id
  PROVE  /\ DOMAIN msg \cap SigMeta = {} =>
              CanonicalRecord(Attach(msg, sig, id)) = CanonicalRecord(msg)
         /\ Canonical(Attach(msg, sig, id)) = Canonical(msg)
         /\ Attach(msg, sig, id)["_sig"] = sig
  <1>1. /\ DOMAIN Attach(msg, sig, id) = DOMAIN msg \cup SigMeta
        /\ \A f \in DOMAIN msg \ SigMeta : Attach(msg, sig, id)[f] = msg[f]
        /\ Attach(msg, sig, id)["_sig"] = sig
    BY DEF Attach, SigMeta
  <1>2. SIGNED_FIELDS \cap SigMeta = {}
    BY DEF SIGNED_FIELDS, SigMeta
  <1>3. Canonical(Attach(msg, sig, id)) = Canonical(msg)
    BY <1>1, <1>2 DEF Canonical
  <1>4. ASSUME DOMAIN msg \cap SigMeta = {}
        PROVE  CanonicalRecord(Attach(msg, sig, id)) = CanonicalRecord(msg)
    <2>1. DOMAIN Attach(msg, sig, id) \ SigMeta = DOMAIN msg \ SigMeta
      BY <1>1, <1>4
    <2> QED
      BY <1>1, <2>1 DEF CanonicalRecord
  <1> QED
    BY <1>1, <1>3, <1>4

\* sign.py 49-57, 225-239, 285-297: what is signed in either form is accepted, by
\* a verifier that expects whatever domain tag, under the signer's key and no other.
LEMMA MessageAccepted ==
  ASSUME NEW msg, NEW id, NEW key, NEW pinned, NEW tag
  PROVE  VerifyMessage(AttachSignature(msg, key, id), pinned, tag) <=> pinned = key
  BY SignedPart DEF VerifyMessage, AttachSignature, Signature
LEMMA RecordAccepted ==
  ASSUME NEW rec, NEW id, NEW key, NEW pinned, NEW tag, DOMAIN rec \cap SigMeta = {}
  PROVE  VerifyRecord(AttachRecordSignature(rec, key, id, tag), pinned, tag) <=> pinned = key
  BY SignedPart DEF VerifyRecord, AttachRecordSignature, Signature

LEMMA Judged ==
  ASSUME NEW s \in Signings, NEW form \in Forms
  PROVE  /\ IsSigned(Made(s, form)) <=> signature[s] # Unsigned
         /\ signature[s] # Unsigned => (Accepts(s, form) <=> pin[s] = signature[s])
  <1>1. DOMAIN Content(s, form) \cap SigMeta = {}
    BY DEF Content, SIGNED_FIELDS, SigMeta
  <1>2. CASE signature[s] = Unsigned
    BY <1>1, <1>2 DEF Made, IsSigned, SigMeta
  <1>3. CASE signature[s] # Unsigned /\ form = "record"
    <2>1. Made(s, form) = AttachRecordSignature(Content(s, form), signature[s], Agent,
                                                DS_TAG_PRESENCE)
      BY <1>3 DEF Made
    <2>2. Accepts(s, form) <=> pin[s] = signature[s]
      BY <1>1, <1>3, <2>1, RecordAccepted DEF Accepts
    <2> QED
      BY <1>3, <2>1, <2>2 DEF IsSigned, AttachRecordSignature, Attach, SigMeta
  <1>4. CASE signature[s] # Unsigned /\ form # "record"
    <2>1. Made(s, form) = AttachSignature(Content(s, form), signature[s], Agent)
      BY <1>4 DEF Made
    <2>2. Accepts(s, form) <=> pin[s] = signature[s]
      BY <1>4, <2>1, MessageAccepted DEF Accepts
    <2> QED
      BY <1>4, <2>1, <2>2 DEF IsSigned, AttachSignature, Attach, SigMeta
  <1> QED
    BY <1>2, <1>3, <1>4

\* The types of the composition hold however its processes interleave.
THEOREM TrustTypeCorrect == TrustSpec => []TrustTypeOK
  <1>1. TrustInit => TrustTypeOK
    BY KeyInvInit, TypeInit DEF TrustInit, TrustTypeOK, KeyInv
  <1> QED
    BY <1>1, TrustTypesStep, PTL DEF TrustSpec

\* A ring in which the agent has a key has one that a keygen reported.
Told(kr) == kr[Agent] \in Keygens => kr[Agent] \in Reported

\* So have all the rings there are, and a verification found one of theirs.
PinInv ==
  /\ \A p \in Procs : Told(ring[p])
  /\ \A i \in Inodes : content[i] \in Rings => Told(content[i])
  /\ \A s \in Signings : pin[s] \in Keygens => pin[s] \in Reported
  /\ \A s \in Signings : pin[s] # Unread => signature[s] # Unmade
  /\ \A s \in Signings : signature[s] \in Keygens => stage[signature[s]] \in Touched
  /\ keyFile \in Keygens => stage[keyFile] \in Touched

LEMMA NoPinsTold == Told(NoPins)
  BY TrustAssumption, MergeAssumption DEF Told, NoPins

LEMMA MergedTold ==
  ASSUME NEW p \in Procs, NEW kr \in Rings, Told(kr), IsTold(p) PROVE Told(Merged(kr, p))
  <1>1. Merged(kr, p)[Agent] \in {kr[Agent], Wish[p][Agent]}
    BY TrustAssumption DEF Merged
  <1> QED
    BY <1>1 DEF Told, IsTold

LEMMA RingTold == PinInv /\ TypeOK => Told(Ring)
  BY NoPinsTold DEF PinInv, Ring, Stored, TypeOK

\* A key that was reported remains so, and one that touched the file does.
LEMMA StageStep ==
  ASSUME KeyTypeOK, [KeyNext]_keyVars
  PROVE  /\ Reported \subseteq Reported'
         /\ \A g \in Keygens : stage[g] \in Touched => stage'[g] \in Touched
  BY DEF KeyTypeOK, Stages, Touched, Reported, KeyNext, Keygen, Refuse, Draw, OpenKey,
         WriteKey, Report, DieInKeygen, Sign, keyVars

LEMMA PinInvStep == TrustTypeOK /\ PinInv /\ [TrustNext]_trustVars => PinInv'
  <1> SUFFICES ASSUME TrustTypeOK, PinInv, [TrustNext]_trustVars PROVE PinInv'
    OBVIOUS
  <1>0. KeyTypeOK /\ TypeOK /\ [KeyNext]_keyVars /\ [Next]_vars
    BY TrustSteps DEF TrustTypeOK
  <1>1. Reported \subseteq Reported'
    BY <1>0, StageStep
  <1>2. (\A p \in Procs : Told(ring[p]))'
    <2>1. \A p \in Procs : ring'[p] = ring[p] \/ (IsTold(p) /\ Stored \in Rings
                                                  /\ ring'[p] = Merged(Stored, p))
      BY <1>0 DEF TypeOK, TrustNext, trustVars, vars, AtAgent, LoadAsTold, Finish, Verify,
                  Load, Open, Write, Replace, Die
    <2>2. Stored \in Rings => Told(Stored)
      BY <1>0, NoPinsTold DEF PinInv, Stored, TypeOK
    <2>3. \A p \in Procs : Told(ring'[p])
      BY <2>1, <2>2, MergedTold DEF PinInv
    <2> QED
      BY <1>1, <2>3 DEF Told
  <1>3. (\A i \in Inodes : content[i] \in Rings => Told(content[i]))'
    <2>1. \A i \in Inodes : content'[i] \in {content[i], Blank, Torn}
                            \/ \E p \in Procs : content'[i] = ring[p]
      BY <1>0 DEF TypeOK, Next, vars, Load, Open, Write, Replace, Die
    <2> QED
      BY <2>1, <1>1, <1>0, StoreAssumption DEF PinInv, TypeOK, Told
  <1>4. \A s \in Signings : /\ pin'[s] \in Keygens => pin'[s] \in Reported'
                            /\ pin'[s] # Unread => signature'[s] # Unmade
    <2>1. \A s \in Signings : \/ pin'[s] = pin[s]
                              \/ pin'[s] = Ring[Agent] /\ signature[s] # Unmade
      BY DEF TrustTypeOK, TrustNext, trustVars, AtAgent, LoadAsTold, Finish, Verify
    <2>2. \A s \in Signings : signature[s] # Unmade => signature'[s] = signature[s]
      BY <1>0 DEF KeyTypeOK, KeyNext, Keygen, Refuse, Draw, OpenKey, WriteKey, Report,
                  DieInKeygen, Sign, keyVars
    <2> QED
      BY <2>1, <2>2, <1>0, <1>1, RingTold DEF PinInv, Told
  <1>5. \A s \in Signings : signature'[s] \in Keygens => stage'[signature'[s]] \in Touched
    <2>1. \A s \in Signings : signature'[s] \in {signature[s], keyFile, Unsigned}
      BY <1>0 DEF KeyTypeOK, KeyNext, Keygen, Refuse, Draw, OpenKey, WriteKey, Report,
                  DieInKeygen, Sign, LoadPrivateKey, keyVars
    <2> QED
      BY <2>1, <1>0, StageStep, KeyFileAssumption DEF PinInv
  <1>6. keyFile' \in Keygens => stage'[keyFile'] \in Touched
    <2>1. \/ keyFile' \in {keyFile, Emptied}
          \/ keyFile' \in Keygens /\ stage'[keyFile'] = "written"
      BY <1>0 DEF KeyTypeOK, KeyNext, Keygen, Refuse, Draw, OpenKey, WriteKey, Report,
                  DieInKeygen, Sign, keyVars
    <2> QED
      BY <2>1, <1>0, StageStep, KeyFileAssumption DEF PinInv, Touched
  <1> QED
    BY <1>2, <1>3, <1>4, <1>5, <1>6 DEF PinInv, Told

\* sign.py 320-325, 304-308: whoever pins and verifies when, and whatever keygens
\* and keyring commands run or die meanwhile, what the agent signed is rejected
\* by a key it had reported only after that key was rotated.
THEOREM OnlyRotationRejects == TrustSpec => []RejectedOnlyIfRotated
  <1>1. TrustInit => PinInv
    <2> SUFFICES ASSUME TrustInit PROVE PinInv
      OBVIOUS
    <2>1. \A p \in Procs : ring[p] = NoPins /\ content[p] = Blank
      BY DEF TrustInit, Init, Inodes
    <2>2. \A s \in Signings : pin[s] = Unread /\ signature[s] = Unmade
      BY DEF TrustInit, KeyInit
    <2> QED
      BY <2>1, <2>2, NoPinsTold, StoreAssumption, TrustAssumption, KeyFileAssumption
      DEF PinInv, Inodes, TrustInit, KeyInit
  <1>2. TrustTypeOK /\ KeyInv /\ PinInv => RejectedOnlyIfRotated
    <2> SUFFICES ASSUME TrustTypeOK, KeyInv, PinInv, NEW s \in Verified,
                        NEW form \in Forms
                 PROVE  /\ pin[s] \in known[s] /\ Verdict(s, form) # "ok"
                             => \E h \in Keygens : Takes(h, pin[s])
                        /\ Verdict(s, form) = "bad" /\ pin[s] \in Keygens
                             => \E g, h \in {pin[s], signature[s]} : Takes(h, g)
      BY DEF RejectedOnlyIfRotated
    <2>1. s \in Signings /\ signature[s] \in Keygens \cup {Unsigned}
      BY DEF Verified, PinInv, TrustTypeOK, KeyTypeOK
    <2>2. ASSUME pin[s] \in known[s], Verdict(s, form) # "ok"
          PROVE  \E h \in Keygens : Takes(h, pin[s])
      <3>1. pin[s] \in Keygens
        BY <2>1, <2>2 DEF TrustTypeOK, KeyTypeOK
      <3>2. pin[s] # signature[s]
        BY <2>1, <2>2, <3>1, Judged, TrustAssumption, MergeAssumption DEF Verdict
      <3> QED
        BY <2>1, <2>2, <3>2 DEF KeyInv, SignedAsReported, Verified, PinInv
    <2>3. ASSUME Verdict(s, form) = "bad", pin[s] \in Keygens
          PROVE  \E g, h \in {pin[s], signature[s]} : Takes(h, g)
      <3>1. signature[s] \in Keygens /\ pin[s] # signature[s]
        BY <2>1, <2>3, Judged DEF Verdict
      <3>2. stage[signature[s]] \in Touched /\ stage[pin[s]] \in Touched
        BY <2>1, <2>3, <3>1 DEF PinInv, Reported, Touched
      <3> QED
        BY <2>3, <3>1, <3>2, OneTookIt
    <2> QED
      BY <2>2, <2>3
  <1> QED
    BY <1>1, <1>2, KeyAlways, TrustTypeCorrect, PinInvStep, PTL DEF TrustSpec

(* Commands that did not run at the same time                              *)

\* Whoever had ended before another loaded has ended.
EarlierEnded == \A p, q \in Procs : q \in earlier[p] => pc[q] \in {"ok", "failed"}

LEMMA EarlierStep ==
  ASSUME TrustTypeOK, EarlierEnded, [TrustNext]_trustVars
  PROVE  /\ EarlierEnded'
         /\ \A p, q \in Procs : Raced(p, q) => Raced(p, q)'
         /\ \A p \in Procs : pc[p] # "idle" => earlier'[p] = earlier[p]
  <1>0. TypeOK /\ [Next]_vars
    BY TrustSteps DEF TrustTypeOK
  <1>1. \A p \in Procs : /\ pc[p] # "idle" => pc'[p] # "idle" /\ earlier'[p] = earlier[p]
                         /\ pc[p] \in {"ok", "failed"} => pc'[p] = pc[p]
    BY <1>0 DEF TrustTypeOK, TypeOK, TrustNext, trustVars, vars, AtAgent, LoadAsTold, Finish,
                Verify, Load, Open, Write, Replace, Die, Running
  <1>2. \A p \in Procs : \/ earlier'[p] = earlier[p]
                         \/ earlier'[p] = {q \in Procs : pc[q] \in {"ok", "failed"}}
    BY DEF TrustTypeOK, TrustNext, trustVars, AtAgent, LoadAsTold, Finish, Verify
  <1>3. EarlierEnded'
    BY <1>1, <1>2 DEF EarlierEnded
  <1> QED
    BY <1>1, <1>3 DEF Raced

\* A command that loads while another runs races with it.
LEMMA LoadRaces ==
  ASSUME TrustTypeOK, EarlierEnded, NEW p \in Procs, NEW q \in Procs,
         LoadAsTold(p), Running(q)
  PROVE  Raced(p, q)'
  <1>1. /\ pc[p] = "idle" /\ pc'[p] # "idle" /\ p # q
        /\ pc'[q] = pc[q] /\ pc[q] \notin {"idle", "ok", "failed"}
    BY DEF TrustTypeOK, TypeOK, LoadAsTold, Load, Running
  <1>2. earlier'[p] = {r \in Procs : pc[r] \in {"ok", "failed"}} /\ earlier'[q] = earlier[q]
    BY <1>1 DEF TrustTypeOK, LoadAsTold
  <1> QED
    BY <1>1, <1>2 DEF EarlierEnded, Raced

\* As long as no two commands ran at the same time, they are alone.
RaceInv == EarlierEnded /\ (NoRace => AloneInv)

LEMMA RaceInvStep == TrustTypeOK /\ RaceInv /\ [TrustNext]_trustVars => RaceInv'
  <1> SUFFICES ASSUME TrustTypeOK, RaceInv, [TrustNext]_trustVars PROVE RaceInv'
    OBVIOUS
  <1>1. EarlierEnded' /\ (NoRace' => NoRace)
    BY EarlierStep DEF RaceInv, NoRace
  <1>2. ASSUME NoRace' PROVE AloneInv'
    <2>1. AloneInv
      BY <1>1, <1>2 DEF RaceInv
    <2>2. CASE [TrustNext]_trustVars /\ \A p \in Procs : ~LoadAsTold(p)
      <3>1. \A p \in Procs : ~Load(p) \/ UNCHANGED vars
        BY <2>2 DEF TrustNext, trustVars, vars, AtAgent, Finish, Verify, Load, Open, Write,
                    Replace, Die, Running, TrustTypeOK, TypeOK
      <3>2. CASE UNCHANGED vars
        BY <3>2, <2>1 DEF vars, AloneInv, TypeOK, RingIntact, Fresh, Running, UpToDate,
                          HoldsTmp, Stored, Refuses, Conflict, Merged
      <3> QED
        BY <2>1, <3>1, <3>2, TrustSteps, AloneStep
    <2>3. ASSUME NEW p \in Procs, LoadAsTold(p) PROVE AloneInv'
      <3>1. \A q \in Procs : ~Running(q)
        BY <2>3, <1>2, LoadRaces DEF RaceInv, NoRace
      <3> QED
        BY <2>1, <3>1, TrustSteps, AloneStep
    <2> QED
      BY <2>2, <2>3
  <1> QED
    BY <1>1, <1>2 DEF RaceInv

\* keyring.py 56-60: however many commands a peer runs, and whichever of them
\* die, the ring is corrupt only if two of them ran at the same time.
THEOREM OnlyRacesCorrupt == TrustSpec => []CorruptOnlyByRace
  <1>1. TrustInit => RaceInv
    BY AloneInit DEF TrustInit, RaceInv, EarlierEnded
  <1>2. RaceInv => CorruptOnlyByRace
    BY StoredIsARing DEF RaceInv, NoRace, AloneInv, CorruptOnlyByRace
  <1> QED
    BY <1>1, <1>2, RaceInvStep, TrustTypeCorrect, PTL DEF TrustSpec

(* A pin, once reported                                                    *)

Solo(p) == \A q \in Procs : ~Raced(p, q)

\* The ring kr has what p pinned, or a later --rotate was given another key.
Kept(kr, p) ==
  \A a \in Agents : ring[p][a] # NoKey =>
    \/ kr[a] = ring[p][a]
    \/ \E q \in Rotating : p \in earlier[q] /\ Wish[q][a] \notin {NoKey, ring[p][a]}

\* Wherever the next ring may come from, it has what p pinned.
KeptByAll(p) ==
  /\ path # NoFile
  /\ \A i \in {path, tmp} \ {NoFile} : content[i] \in Rings => Kept(content[i], p)
  /\ \A q \in Procs : Running(q) => Kept(ring[q], p)

SoloInv ==
  \A p \in Procs : Solo(p) =>
    /\ pc[p] \in {"writing", "written"} => HoldsTmp(p)
    /\ pc[p] = "ok" => KeptByAll(p)

LEMMA SoloRunsAlone ==
  ASSUME TrustTypeOK, EarlierEnded, NEW p \in Procs, NEW q \in Procs,
         Solo(p), Running(p), Running(q)
  PROVE  p = q
  BY DEF Solo, Raced, EarlierEnded, Running

\* While p runs, alone, no other command makes a step of its.
LEMMA SoloStep ==
  ASSUME TrustTypeOK, EarlierEnded, [TrustNext]_trustVars, NEW p \in Procs,
         Solo(p), Solo(p)', Running(p)
  PROVE  Finish(p) \/ UNCHANGED vars
  <1>1. ASSUME NEW q \in Procs, LoadAsTold(q) PROVE FALSE
    BY <1>1, LoadRaces DEF Solo, Raced
  <1>2. ASSUME NEW q \in Procs, Finish(q) PROVE p = q
    BY <1>2, SoloRunsAlone DEF Finish, Open, Write, Replace, Die, Running
  <1> QED
    BY <1>1, <1>2 DEF TrustNext, trustVars, AtAgent, Verify

\* A step changes neither what p wanted nor that a --rotate came after it.
LEMMA KeptStep ==
  ASSUME TrustTypeOK, [TrustNext]_trustVars, NEW p \in Procs, pc[p] = "ok"
  PROVE  /\ ring'[p] = ring[p] /\ pc'[p] = "ok"
         /\ \A kr \in Rings : Kept(kr, p) => Kept(kr, p)'
  <1>1. ring'[p] = ring[p] /\ pc'[p] = "ok"
    BY DEF TrustTypeOK, TypeOK, TrustNext, trustVars, vars, AtAgent, LoadAsTold, Finish,
           Verify, Load, Open, Write, Replace, Die, Running
  <1>2. \A q \in Procs : p \in earlier[q] => p \in earlier'[q]
    BY DEF TrustTypeOK, TrustNext, trustVars, AtAgent, LoadAsTold, Finish, Verify
  <1> QED
    BY <1>1, <1>2, MergeAssumption DEF Kept

LEMMA SoloInvStep ==
  TrustTypeOK /\ EarlierEnded /\ SoloInv /\ [TrustNext]_trustVars => SoloInv'
  <1> SUFFICES ASSUME TrustTypeOK, EarlierEnded, SoloInv, [TrustNext]_trustVars,
                      NEW p \in Procs, Solo(p)'
               PROVE  /\ pc'[p] \in {"writing", "written"} => HoldsTmp(p)'
                      /\ pc'[p] = "ok" => KeptByAll(p)'
    BY DEF SoloInv
  <1>0. TypeOK /\ TypeOK' /\ TrustTypeOK' /\ EarlierEnded' /\ [Next]_vars
    BY TrustSteps, TrustTypesStep, EarlierStep DEF TrustTypeOK
  <1>1. Solo(p)
    BY EarlierStep DEF Solo
  <1>2. ASSUME pc'[p] \in {"writing", "written"} PROVE HoldsTmp(p)'
    <2>1. Running(p)
      BY <1>0, <1>2 DEF TypeOK, Next, vars, Load, Open, Write, Replace, Die, Running
    <2>2. CASE UNCHANGED vars
      BY <2>2, <1>1, <1>2 DEF vars, SoloInv, HoldsTmp
    <2>3. CASE Open(p)
      BY <2>3, <1>0, StoreAssumption DEF Open, TypeOK, Inodes, HoldsTmp
    <2>4. CASE Write(p)
      BY <2>4, <1>0, <1>1 DEF Write, TypeOK, SoloInv, HoldsTmp
    <2>5. CASE Replace(p) \/ Die(p)
      BY <2>5, <1>0, <1>2 DEF Replace, Die, TypeOK
    <2> QED
      BY <2>1, <2>2, <2>3, <2>4, <2>5, <1>1, SoloStep DEF Finish
  <1>3. ASSUME pc'[p] = "ok", pc[p] # "ok" PROVE KeptByAll(p)'
    <2>1. Replace(p) /\ pc[p] = "written"
      BY <1>0, <1>3 DEF TypeOK, Next, vars, Load, Open, Write, Replace, Die
    <2>2. path' = tmp /\ tmp' = NoFile /\ content[tmp] = ring[p] /\ tmp # NoFile
          /\ ring' = ring /\ content' = content
      BY <2>1, <1>1, <1>3, <1>0 DEF Replace, SoloInv, HoldsTmp, TypeOK
    <2>3. \A q \in Procs : ~Running(q)'
      <3>1. \A q \in Procs : Running(q) => p = q
        BY <2>1, <1>1, SoloRunsAlone DEF Running
      <3> QED
        BY <3>1, <2>1, <1>0, <1>3 DEF Running, Replace, TypeOK
    <2> QED
      BY <2>2, <2>3 DEF KeptByAll, Kept
  <1>4. ASSUME pc[p] = "ok" PROVE KeptByAll(p)'
    <2>1. /\ path # NoFile
          /\ \A i \in {path, tmp} \ {NoFile} : content[i] \in Rings => Kept(content[i], p)
          /\ \A q \in Procs : Running(q) => Kept(ring[q], p)
      BY <1>1, <1>4 DEF SoloInv, KeptByAll
    <2>2. \A kr \in Rings : Kept(kr, p) => Kept(kr, p)'
      BY <1>4, KeptStep
    <2>3. \A q \in Procs : ring[q] \in Rings /\ ring'[q] \in Rings
      BY <1>0 DEF TypeOK
    <2>4. ASSUME NEW q \in Procs, LoadAsTold(q) PROVE KeptByAll(p)'
      <3>1. p # q /\ p \in earlier'[q] /\ UNCHANGED <<fd, path, tmp, content>>
        BY <2>4, <1>4 DEF LoadAsTold, Load, TrustTypeOK
      <3>2. \/ pc'[q] = "failed"
            \/ Stored \in Rings /\ ~Refuses(Stored, q) /\ ring'[q] = Merged(Stored, q)
        BY <2>4, <1>0 DEF LoadAsTold, Load, TypeOK
      <3>3. Stored \in Rings => Kept(Stored, p)'
        <4>1. Stored' = Stored
          BY <3>1 DEF Stored
        <4>2. Stored \in Rings => Kept(Stored, p)
          BY <2>1 DEF Stored
        <4> QED
          BY <4>1, <4>2, <2>2 DEF Kept
      <3>4. ASSUME Stored \in Rings, ~Refuses(Stored, q), ring'[q] = Merged(Stored, q)
            PROVE  Kept(ring[q], p)'
        <4> SUFFICES ASSUME NEW a \in Agents, ring'[p][a] # NoKey,
                            ring'[q][a] # ring'[p][a]
                     PROVE  \E r \in Rotating :
                              p \in earlier'[r] /\ Wish[r][a] \notin {NoKey, ring'[p][a]}
          BY DEF Kept
        <4>1. CASE Stored[a] # ring'[p][a]
          BY <4>1, <3>1, <3>3, <3>4 DEF Kept, Stored
        <4>2. CASE Stored[a] = ring'[p][a]
          <5>1. q \in Rotating /\ Wish[q][a] = Merged(Stored, q)[a]
            BY <4>2, <3>4, OnlyRotationReplaces
          <5>2. Merged(Stored, q) \in Rings /\ Merged(Stored, q)[a] # NoKey
            BY <4>2, <5>1, <3>4, MergedIsARing, MergeAssumption DEF Merged, Rings
          <5> QED
            BY <5>1, <5>2, <3>1, <3>4
        <4> QED
          BY <4>1, <4>2
      <3>5. \A r \in Procs \ {q} : ring'[r] = ring[r] /\ pc'[r] = pc[r]
        BY <2>4, <1>0 DEF LoadAsTold, Load, TypeOK
      <3> QED
        BY <3>1, <3>2, <3>4, <3>5, <2>1, <2>2, <2>3 DEF KeptByAll, Running
    <2>5. ASSUME NEW q \in Procs, Finish(q) PROVE KeptByAll(p)'
      <3>1. ring' = ring /\ Running(q) /\ \A r \in Procs : Running(r)' => Running(r)
        BY <2>5, <1>0 DEF Finish, Open, Write, Replace, Die, Running, TypeOK
      <3>2. path' # NoFile /\ path' \in {path, tmp}
        BY <2>5, <2>1 DEF Finish, Open, Write, Replace, Die
      <3>3. \A i \in {path', tmp'} \ {NoFile} :
              \/ i \in {path, tmp} /\ content'[i] = content[i]
              \/ content'[i] \in {Blank, Torn, ring[q]}
        BY <2>5, <1>0 DEF Finish, Open, Write, Replace, Die, TypeOK, Inodes
      <3>4. \A i \in {path', tmp'} \ {NoFile} :
              content'[i] \in Rings => Kept(content'[i], p)
        BY <3>1, <3>3, <2>1, StoreAssumption
      <3> QED
        BY <3>1, <3>2, <3>4, <2>1, <2>2, <2>3 DEF KeptByAll, Kept
    <2>6. CASE UNCHANGED vars
      BY <2>6, <2>1, <2>2, <2>3 DEF vars, KeptByAll, Kept, Running
    <2> QED
      BY <2>4, <2>5, <2>6 DEF TrustNext, trustVars, AtAgent, Verify
  <1> QED
    BY <1>2, <1>3, <1>4

\* keyring.py 158-164: a pin that a command reported stays in the ring, however
\* many commands come after it or race with one another, until one of them is
\* given --rotate and another key.
THEOREM ReportedPinsHold == TrustSpec => []PinsHold
  <1>1. TrustInit => EarlierEnded /\ SoloInv
    BY DEF TrustInit, Init, EarlierEnded, SoloInv
  <1>2. SoloInv => PinsHold
    <2> SUFFICES ASSUME SoloInv, Stored \in Rings, NEW p \in Procs, NEW a \in Agents,
                        pc[p] = "ok", ring[p][a] # NoKey, Solo(p)
                 PROVE  \/ Stored[a] = ring[p][a]
                        \/ \E q \in Rotating : p \in earlier[q]
                                               /\ Wish[q][a] \notin {NoKey, ring[p][a]}
      BY DEF PinsHold, Solo
    <2>1. KeptByAll(p)
      BY DEF SoloInv
    <2> QED
      BY <2>1 DEF KeptByAll, Kept, Stored
  <1>3. TrustTypeOK /\ EarlierEnded /\ [TrustNext]_trustVars => EarlierEnded'
    BY EarlierStep
  <1> QED
    BY <1>1, <1>2, <1>3, SoloInvStep, TrustTypeCorrect, PTL DEF TrustSpec

(* A command that ran alone                                                *)

\* However many commands raced before, the two names are of two files, and a command
\* that has yet to open its file has none.
NamesApart ==
  /\ path # NoFile => path # tmp
  /\ \A p \in Procs : pc[p] \in {"idle", "merged"} => Fresh(p)

LoneInv == NamesApart /\ \A p \in Procs : Solo(p) /\ Running(p) => UpToDate(p)

LEMMA NamesStep == TypeOK /\ NamesApart /\ [Next]_vars => NamesApart'
  <1> SUFFICES ASSUME TypeOK, NamesApart, [Next]_vars PROVE NamesApart'
    OBVIOUS
  <1> USE DEF NamesApart, Fresh, TypeOK, Inodes
  <1>1. ASSUME NEW p \in Procs, Load(p) \/ Write(p) \/ Die(p) PROVE NamesApart'
    BY <1>1 DEF Load, Write, Die, Running
  <1>2. ASSUME NEW p \in Procs, Open(p) PROVE NamesApart'
    <2>1. pc[p] = "merged" /\ path' = path /\ tmp' \in {p, tmp} /\ tmp' # NoFile
      BY <1>2, StoreAssumption DEF Open
    <2>2. pc'[p] = "writing" /\ \A q \in Procs \ {p} : pc'[q] = pc[q]
      BY <1>2 DEF Open
    <2> QED
      BY <2>1, <2>2
  <1>3. ASSUME NEW p \in Procs, Replace(p) PROVE NamesApart'
    BY <1>3, StoreAssumption DEF Replace
  <1>4. CASE UNCHANGED vars
    BY <1>4 DEF vars
  <1> QED
    BY <1>1, <1>2, <1>3, <1>4 DEF Next

\* Only a command that succeeds, or one that raced, changes the pins.
LEMMA LonePinsStep ==
  ASSUME TypeOK, NamesApart, NEW p \in Procs, Finish(p), pc'[p] # "ok",
         pc[p] = "writing" => HoldsTmp(p)
  PROVE  Stored' = Stored
  <1> USE DEF TypeOK, Inodes
  <1>1. path' = path
    BY DEF Finish, Open, Write, Replace, Die
  <1>2. CASE path = NoFile
    BY <1>1, <1>2 DEF Stored
  <1>3. CASE path # NoFile
    <2>1. path \in Procs /\ path # tmp /\ (pc[p] = "merged" => path # p)
      BY <1>3 DEF NamesApart, Fresh
    <2>2. content'[path] = content[path]
      BY <2>1 DEF Finish, Open, Write, Replace, Die, HoldsTmp
    <2> QED
      BY <1>1, <1>3, <2>2 DEF Stored
  <1> QED
    BY <1>2, <1>3

\* What a step of p, alone so far, does to the ring.
LEMMA LoneStep ==
  ASSUME TrustTypeOK, EarlierEnded, SoloInv, LoneInv, [TrustNext]_trustVars,
         NEW p \in Procs, Solo(p)', Running(p)
  PROVE  /\ pc'[p] = "ok" /\ pc[p] # "ok" => TookEffect(p)
         /\ pc'[p] # "ok" => Stored' = Stored
         /\ ring'[p] = ring[p]
  <1>1. Solo(p) /\ TypeOK
    BY EarlierStep DEF Solo, TrustTypeOK
  <1>2. /\ pc[p] \in {"writing", "written"} => HoldsTmp(p)
        /\ UpToDate(p) /\ NamesApart
    BY <1>1 DEF SoloInv, LoneInv
  <1>3. Finish(p) \/ UNCHANGED vars
    BY <1>1, SoloStep
  <1>4. ring'[p] = ring[p]
    BY <1>3 DEF Finish, Open, Write, Replace, Die, vars
  <1>5. ASSUME pc'[p] = "ok", pc[p] # "ok" PROVE TookEffect(p)
    <2>1. Replace(p)
      BY <1>1, <1>3, <1>5 DEF Finish, Open, Write, Replace, Die, vars, TypeOK
    <2>2. path' = tmp /\ tmp # NoFile /\ content'[tmp] = ring[p]
      BY <1>1, <1>2, <1>5, <2>1 DEF Replace, HoldsTmp, TypeOK
    <2>3. Stored' = ring[p]
      BY <2>2 DEF Stored
    <2> QED
      BY <1>2, <2>3 DEF TookEffect, UpToDate
  <1>6. ASSUME pc'[p] # "ok" PROVE Stored' = Stored
    BY <1>1, <1>2, <1>3, <1>6, LonePinsStep DEF vars, Stored
  <1> QED
    BY <1>4, <1>5, <1>6

LEMMA LoneInvStep ==
  TrustTypeOK /\ EarlierEnded /\ SoloInv /\ LoneInv /\ [TrustNext]_trustVars => LoneInv'
  <1> SUFFICES ASSUME TrustTypeOK, EarlierEnded, SoloInv, LoneInv, [TrustNext]_trustVars
               PROVE  LoneInv'
    OBVIOUS
  <1>1. NamesApart' /\ TypeOK
    BY TrustSteps, NamesStep DEF LoneInv, TrustTypeOK
  <1>2. ASSUME NEW p \in Procs, Solo(p)', Running(p)' PROVE UpToDate(p)'
    <2>1. CASE Running(p)
      <3>1. Solo(p) /\ UpToDate(p)
        BY <1>2, <2>1, EarlierStep DEF Solo, LoneInv
      <3>2. Stored' = Stored /\ ring'[p] = ring[p]
        BY <1>2, <2>1, LoneStep DEF Running
      <3> QED
        BY <3>1, <3>2 DEF UpToDate, Refuses, Conflict, Merged
    <2>2. CASE ~Running(p)
      <3>1. Load(p) /\ pc'[p] = "merged"
        BY <1>1, <1>2, <2>2 DEF TypeOK, TrustNext, trustVars, vars, AtAgent, LoadAsTold,
           Finish, Verify, Load, Open, Write, Replace, Die, Running
      <3>2. /\ Stored \in Rings /\ ~Refuses(Stored, p) /\ ring'[p] = Merged(Stored, p)
            /\ path' = path /\ content' = content
        BY <1>1, <3>1 DEF Load, TypeOK
      <3> QED
        BY <3>2 DEF UpToDate, Stored, Refuses, Conflict, Merged
    <2> QED
      BY <2>1, <2>2
  <1> QED
    BY <1>1, <1>2 DEF LoneInv

LEMMA LoneAlways == TrustSpec => [](TrustTypeOK /\ EarlierEnded /\ SoloInv /\ LoneInv)
  <1>1. TrustInit => EarlierEnded /\ SoloInv /\ LoneInv
    BY StoreAssumption
    DEF TrustInit, Init, EarlierEnded, SoloInv, LoneInv, NamesApart, Fresh, Running, Inodes
  <1>2. TrustTypeOK /\ EarlierEnded /\ [TrustNext]_trustVars => EarlierEnded'
    BY EarlierStep
  <1> QED
    BY <1>1, <1>2, LoneInvStep, SoloInvStep, TrustTypeCorrect, PTL DEF TrustSpec

\* keyring.py 56-60: the guarantee CommandsImplementAtomic gives an operator who always
\* runs one command at a time, for each command by itself: that no other ran beside it
\* is enough, whatever races and crashes came before.
THEOREM LoneCommandsAreAtomic == TrustSpec => LoneCommandsAtomic
  <1>1. ASSUME TrustTypeOK, EarlierEnded, SoloInv, LoneInv, [TrustNext]_trustVars,
               NEW p \in Procs
        PROVE  AtomicIfLone(p)
    <2> SUFFICES ASSUME pc'[p] # pc[p], \A q \in Procs : ~Raced(p, q)'
                 PROVE  IF pc'[p] = "ok" THEN TookEffect(p) ELSE Stored' = Stored
      BY DEF AtomicIfLone
    <2>1. CASE Running(p)
      BY <1>1, <2>1, LoneStep DEF Solo
    <2>2. CASE ~Running(p)
      <3>1. Load(p)
        BY <1>1, <2>2 DEF TrustTypeOK, TypeOK, TrustNext, trustVars, vars, AtAgent,
           LoadAsTold, Finish, Verify, Load, Open, Write, Replace, Die, Running
      <3> QED
        BY <3>1, <1>1 DEF Load, Stored, TrustTypeOK, TypeOK
    <2> QED
      BY <2>1, <2>2
  <1>2. TrustTypeOK /\ EarlierEnded /\ SoloInv /\ LoneInv /\ [TrustNext]_trustVars
        => [\A p \in Procs : AtomicIfLone(p)]_trustVars
    BY <1>1
  <1> QED
    BY <1>2, LoneAlways, PTL DEF TrustSpec, LoneCommandsAtomic

\* keyring.py 10-11 promises that no pin is overwritten silently, and keyring_overwrite
\* shows that two commands at once break it: nothing else does, whichever commands die.
THEOREM OnlyRacesOverwrite == TrustSpec => OverwrittenOnlyByRace
  <1>1. ASSUME TrustTypeOK, EarlierEnded, SoloInv, LoneInv, [TrustNext]_trustVars, NoRace'
        PROVE  ReplacedByRotation
    <2> SUFFICES ASSUME NEW a \in Agents, Stored \in Rings, Stored[a] # NoKey,
                        Stored'[a] # Stored[a]
                 PROVE  \E p \in Rotating : Wish[p][a] = Stored'[a] /\ pc[p] = "written"
      BY DEF ReplacedByRotation
    <2>1. PICK p \in Procs : Finish(p)
      <3>1. ~UNCHANGED <<path, content>>
        BY DEF Stored
      <3> QED
        BY <1>1, <3>1 DEF TrustNext, trustVars, vars, AtAgent, LoadAsTold, Load, Verify
    <2>2. Running(p) /\ Solo(p)'
      BY <1>1, <2>1 DEF Finish, Open, Write, Replace, Die, Running, NoRace, Solo
    <2>3. pc'[p] = "ok" /\ pc[p] # "ok"
      BY <1>1, <2>2, LoneStep DEF Running
    <2>4. TookEffect(p)
      BY <1>1, <2>2, <2>3, LoneStep
    <2>5. pc[p] = "written"
      BY <1>1, <2>1, <2>3 DEF Finish, Open, Write, Replace, Die, TrustTypeOK, TypeOK
    <2> QED
      BY <2>4, <2>5, OnlyRotationReplaces DEF TookEffect
  <1>2. TrustTypeOK /\ EarlierEnded /\ SoloInv /\ LoneInv /\ [TrustNext]_trustVars
        => [NoRace' => ReplacedByRotation]_trustVars
    BY <1>1
  <1> QED
    BY <1>2, LoneAlways, PTL DEF TrustSpec, OverwrittenOnlyByRace

\* The peer of the composition is the keyring of KeyringStore and the agent's machine
\* the key file of KeyFile: pinning by what a keygen has told, and verifying, adds no
\* behaviour to either.
THEOREM TrustImplementsParts == TrustSpec => Spec /\ KeySpec
  <1>1. TrustInit => Init /\ KeyInit
    BY DEF TrustInit
  <1> QED
    BY <1>1, TrustSteps, PTL DEF TrustSpec, Spec, KeySpec

\* sign.py 377-383: so a ring left corrupt is kept here as well, whatever keygens ran.
THEOREM TrustKeepsCorruptRing == TrustSpec => CorruptRingSurvives
  BY TrustImplementsParts, CorruptRingIsKept
=============================================================================
