\* Three messages through a cache capped at one; clocks off by one tick, either way.
CONSTANTS
  m1 = m1
  m2 = m2
  m3 = m3
  m4 = m4
  alice = alice
  k1 = k1
  k2 = k2
  Msgs = {m1, m2, m3}
  Garbled = {}
  Nonceless = {}
  Undated = {}
  Unhashable = {}
  Unencodable = {}
  Senders = {alice}
  Keys = {}
  NoKey = NoKey
  From <- FromAlice
  SignedWith <- Unsigned
  Skews <- BehindOrAhead
  MaxAge = 2
  DedupMinTtl = 1
  SeenMax = 1
  Enforce = FALSE
  CryptoAvailable = TRUE
  MaxClock = 3
  MaxCopies <- Once
  MaxLives = 1
  MaxLosses = 1
SPECIFICATION Spec
INVARIANTS CacheBounded SecondWriteOnlyFromAheadClock
SYMMETRY Symmetry
\* The listener may stay stopped, with nothing left to publish.
CHECK_DEADLOCK FALSE
