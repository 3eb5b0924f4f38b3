\* A stranger's and a blank message, and four that ask for two replies in two ticks
\* of a clock that starts with the process.
CONSTANTS
  m1 = m1
  m2 = m2
  m3 = m3
  m4 = m4
  m5 = m5
  m6 = m6
  m7 = m7
  me = me
  peer = peer
  stranger = stranger
  Msgs = {m2, m3, m4, m5, m6, m7}
  Peers = {peer, stranger}
  Me = me
  From <- Senders
  Bodiless = {m3}
  RespondTo = {peer}
  Limit = 2
  Window = 2
  Boot = 1
  MaxClock = 4
  PayloadIsObject = TRUE
SPECIFICATION FairSpec
INVARIANTS TypeOK BudgetHolds RefusedOnlyIfSpent AnnouncedOncePerWindow
PROPERTY ComesBack
\* The process may end, or run out of messages.
CHECK_DEADLOCK FALSE
