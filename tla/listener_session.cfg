\* Enforce mode, a key pinned and lost, a repeated message, a restart and a broken
\* connection: m1 and m2 are signed, m2 has neither nonce nor date, m3 is no JSON object.
CONSTANTS
  m1 = m1
  m2 = m2
  m3 = m3
  m4 = m4
  alice = alice
  k1 = k1
  k2 = k2
  Msgs = {m1, m2, m3, m4}
  Garbled = {m3}
  Nonceless = {m2}
  Undated = {m2}
  Unhashable = {m4}
  Unencodable = {m4}
  Senders = {alice}
  Keys = {k1}
  NoKey = NoKey
  From <- FromAlice
  SignedWith <- SignedButGarbled
  Skews = {0}
  MaxAge = 1
  DedupMinTtl = 1
  SeenMax = 1
  Enforce = TRUE
  CryptoAvailable = TRUE
  MaxClock = 0
  MaxCopies <- FirstTwice
  MaxLives = 2
  MaxLosses = 1
SPECIFICATION FairSpec
INVARIANTS TypeOK OvertakenOnlyIfRefused
PROPERTIES IsDurableMailbox Drains
\* The listener may stay stopped, with nothing left to publish.
CHECK_DEADLOCK FALSE
