------------------------------ MODULE MCKeyring -----------------------------
(* Three keyring commands on a ring of two agents.                         *)
EXTENDS KeyringStore, TLC

CONSTANTS add, move, merge, alice, bob, k1, k2

\* add: alice's key k1.  move: alice's key k2.  merge: keys of both agents.
ThreeWishes ==
  (add   :> [a \in Agents |-> IF a = alice THEN k1 ELSE NoKey]) @@
  (move  :> [a \in Agents |-> IF a = alice THEN k2 ELSE NoKey]) @@
  (merge :> [a \in Agents |-> IF a = alice THEN k1 ELSE k2])
=============================================================================
