------------------------------ MODULE MCTrust -------------------------------
(* Two keygens of alice, three keyring commands of her peer.             *)
EXTENDS MeshTrust, TLC

CONSTANTS k1, k2, alice, bob, b1, add, move, merge

\* add: alice's first key.  move: her second.  merge: the second, and bob's.
PeerWishes ==
  (add   :> [a \in Agents |-> IF a = Agent THEN k1 ELSE NoKey]) @@
  (move  :> [a \in Agents |-> IF a = Agent THEN k2 ELSE NoKey]) @@
  (merge :> [a \in Agents |-> IF a = Agent THEN k2 ELSE b1])
=============================================================================
