\* Two keygens of alice and three commands of her peer, all in parallel.
CONSTANTS
  k1 = k1
  k2 = k2
  b1 = b1
  alice = alice
  bob = bob
  add = add
  move = move
  merge = merge
  Keygens = {k1, k2}
  Forced = {k2}
  Signings = {s1}
  Absent = Absent
  Emptied = Emptied
  Unmade = Unmade
  Unsigned = Unsigned
  Procs = {add, move, merge}
  Agents = {alice, bob}
  Keys = {k1, k2, b1}
  NoKey = NoKey
  Wish <- PeerWishes
  Rotating = {move}
  Bulk = {merge}
  NoFile = NoFile
  Blank = Blank
  Torn = Torn
  Exclusive = FALSE
  Agent = alice
  Unread = Unread
SPECIFICATION TrustSpec
INVARIANTS TrustTypeOK IdentityHolds SignedAsReported RejectedOnlyIfRotated CorruptOnlyByRace PinsHold
PROPERTIES CorruptRingSurvives LoneCommandsAtomic OverwrittenOnlyByRace
\* The commands end.
CHECK_DEADLOCK FALSE
