\* Expected violation: a host that has been up for less than a window.
CONSTANTS
  m1 = m1
  m2 = m2
  m3 = m3
  m4 = m4
  m5 = m5
  m6 = m6
  m7 = m7
  me = me
  peer = peer
  stranger = stranger
  Msgs = {m1, m2, m3, m4, m5}
  Peers = {peer, stranger}
  Me = me
  From <- Senders
  Bodiless = {m3}
  RespondTo = {peer}
  Limit = 1
  Window = 2
  Boot = 1
  MaxClock = 4
  PayloadIsObject = TRUE
SPECIFICATION Spec
INVARIANT TripsAreAnnounced
\* The process may end, or run out of messages.
CHECK_DEADLOCK FALSE
