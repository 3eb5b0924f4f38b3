\* Commands in parallel: expected to tear the ring.
CONSTANTS
  add = add
  move = move
  merge = merge
  alice = alice
  bob = bob
  k1 = k1
  k2 = k2
  Procs = {add, move, merge}
  Agents = {alice, bob}
  Keys = {k1, k2}
  NoKey = NoKey
  Wish <- ThreeWishes
  Rotating = {move}
  Bulk = {merge}
  NoFile = NoFile
  Blank = Blank
  Torn = Torn
  Exclusive = FALSE
SPECIFICATION Spec
INVARIANT RingIntact
\* The commands end.
CHECK_DEADLOCK FALSE
