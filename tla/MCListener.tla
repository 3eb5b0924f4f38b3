----------------------------- MODULE MCListener -----------------------------
(* Small instances of Listener for TLC.                                    *)
EXTENDS Listener, TLC

CONSTANTS m1, m2, m3, m4, alice, k1, k2

\* All messages are alice's, signed with k1 (but for garbled ones) or not at all.
FromAlice == [m \in Msgs |-> alice]
SignedButGarbled == [m \in Msgs |-> IF m \in Garbled THEN NoKey ELSE k1]
Unsigned == [m \in Msgs |-> NoKey]

\* The sender's clock is a tick behind the listener's, or a tick ahead.
BehindOrAhead == {-1, 1}

\* How often a message may be published.
Once == [m \in Msgs |-> 1]
FirstTwice == [m \in Msgs |-> IF m = m1 THEN 2 ELSE 1]
Thrice == [m \in Msgs |-> 3]

Symmetry == Permutations(Msgs)
=============================================================================
