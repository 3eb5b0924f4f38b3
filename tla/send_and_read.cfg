\* A record of two writes and three of one, in a file or on their way to a broker; one
\* is not verified, one is hidden, one may only go to a broker.
CONSTANTS
  m1 = m1
  m2 = m2
  m3 = m3
  m4 = m4
  m5 = m5
  Msgs = {m1, m2, m3, m4, m5}
  Long = {m1}
  Hidden = {m4}
  Verified = {m1, m2}
  Enforce = TRUE
  Limit = 2
  Since = 2
  Delay = 1
  Every = 1
  MaxClock = 3
  MaxCuts = 1
  LoopbackHosts <- Here
  TlsPort <- Tls
  PlainPort <- Plain
  Ask <- Asks
  Environments <- Shells
SPECIFICATION SendSpec
INVARIANTS SendTypeOK CatchesUp LossIsConfined LeavesOnlyAsMeant
\* Every record may have been written and the time be over.
CHECK_DEADLOCK FALSE
