\* Expected violation: a crash between the append and the PUBACK.
CONSTANTS
  m1 = m1
  m2 = m2
  m3 = m3
  m4 = m4
  alice = alice
  k1 = k1
  k2 = k2
  Msgs = {m1}
  Garbled = {}
  Nonceless = {}
  Undated = {}
  Unhashable = {}
  Unencodable = {}
  Senders = {alice}
  Keys = {}
  NoKey = NoKey
  From <- FromAlice
  SignedWith <- Unsigned
  Skews = {0}
  MaxAge = 2
  DedupMinTtl = 1
  SeenMax = 2
  Enforce = FALSE
  CryptoAvailable = TRUE
  MaxClock = 4
  MaxCopies <- Thrice
  MaxLives = 2
  MaxLosses = 1
SPECIFICATION Spec
INVARIANT NeverDoubleWrites
\* The listener may stay stopped, with nothing left to publish.
CHECK_DEADLOCK FALSE
