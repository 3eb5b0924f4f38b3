---------------------------- MODULE KeyringMerge ----------------------------
(***************************************************************************)
(* comms/keyring.py, what cmd_add and cmd_import do to a ring in memory.   *)
(* A ring gives each agent its pinned key, or NoKey.                       *)
(***************************************************************************)
CONSTANTS
  Procs,       \* keyring commands, each run once
  Agents, Keys,
  NoKey,       \* "this agent is not in the ring"
  Wish,        \* Wish[p]: the ring of the keys p was given
  Rotating,    \* the commands given --rotate
  Bulk         \* the commands that are --import, the others being --add

Rings == [Agents -> Keys \cup {NoKey}]
NoPins == [a \in Agents |-> NoKey]

ASSUME MergeAssumption ==
  /\ NoKey \notin Keys
  /\ Wish \in [Procs -> Rings]
  /\ Rotating \subseteq Procs /\ Bulk \subseteq Procs

\* A different key is pinned for an agent p was given a key for.
Conflict(kr, p, a) ==
  kr[a] # NoKey /\ Wish[p][a] # NoKey /\ kr[a] # Wish[p][a]

\* cmd_add refuses as a whole; cmd_import never does.
Refuses(kr, p) ==
  p \notin Bulk \cup Rotating /\ \E a \in Agents : Conflict(kr, p, a)

\* Mutant of Merged: an import overwrites without looking for conflicts.
MergedBlindly(kr, p) ==
  [a \in Agents |-> IF Wish[p][a] = NoKey THEN kr[a] ELSE Wish[p][a]]

\* Mutant of Merged: the pins of agents p was given no key for are forgotten.
MergedIntoNothing(kr, p) ==
  [a \in Agents |-> IF Conflict(kr, p, a) /\ p \notin Rotating THEN kr[a] ELSE Wish[p][a]]

\* The keys in conflict are skipped, but replaced under --rotate.
Merged(kr, p) ==
  [a \in Agents |->
    IF Wish[p][a] = NoKey \/ (Conflict(kr, p, a) /\ p \notin Rotating)
    THEN kr[a] ELSE Wish[p][a]]
=============================================================================
