---------------------------- MODULE AtomicKeyring ---------------------------
(***************************************************************************)
(* The keyring as its commands present it: each one that reports success   *)
(* has been applied, at one moment, to the ring of that moment.            *)
(***************************************************************************)
EXTENDS KeyringMerge

VARIABLES pins,   \* the mesh's trust: the ring
          done    \* the commands that reported success

keyring == <<pins, done>>

Init == pins = NoPins /\ done = {}

Commit(p) == /\ p \notin done
             /\ ~Refuses(pins, p)
             /\ pins' = Merged(pins, p)
             /\ done' = done \cup {p}

Next == \E p \in Procs : Commit(p)

Spec == Init /\ [][Next]_keyring
=============================================================================
