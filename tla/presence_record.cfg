\* Two listener processes on one client id, one broken connection, one message, one who.
CONSTANTS
  p1 = p1
  p2 = p2
  m1 = m1
  Procs = {p1, p2}
  Nobody = Nobody
  Msgs = {m1}
  MaxBreaks = 1
  MaxUpdates = 3
SPECIFICATION FairWhoSpec
INVARIANTS WhoTypeOK OnlineMeansSubscribed OnlineOnlyIfConnected SettledReadsOnline ShowsTheNewest ShownOnlineIsKept
PROPERTIES DeadLooksOffline AliveLooksOnline
\* Every listener may have ended and every message been sent.
CHECK_DEADLOCK FALSE
