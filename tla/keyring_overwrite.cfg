\* Commands in parallel, none given --rotate: expected to overwrite a pin.
CONSTANTS
  add = add
  move = move
  merge = merge
  alice = alice
  bob = bob
  k1 = k1
  k2 = k2
  Procs = {add, move, merge}
  Agents = {alice, bob}
  Keys = {k1, k2}
  NoKey = NoKey
  Wish <- ThreeWishes
  Rotating = {}
  Bulk = {merge}
  NoFile = NoFile
  Blank = Blank
  Torn = Torn
  Exclusive = FALSE
SPECIFICATION Spec
PROPERTY NoSilentOverwrite
\* The commands end.
CHECK_DEADLOCK FALSE
