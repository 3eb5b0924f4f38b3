\* Expected violation: a message to an agent that has never listened.
CONSTANTS
  p1 = p1
  p2 = p2
  m1 = m1
  Procs = {p1, p2}
  Nobody = Nobody
  Msgs = {m1}
  MaxBreaks = 0
  MaxUpdates = 1
SPECIFICATION WhoSpec
INVARIANT UnknownMeansQueued
\* Every listener may have ended and every message been sent.
CHECK_DEADLOCK FALSE
