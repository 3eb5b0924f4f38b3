------------------------------ MODULE MCAgent -------------------------------
(* One agent and its peers.                                                *)
EXTENDS AgentRunner

CONSTANTS m1, m2, m3, m4, m5, m6, m7, me, peer, stranger

\* m1 is the agent's own, m2 a stranger's; the others are a listed peer's.
Senders == [m \in Msgs |-> CASE m = m1 -> me [] m = m2 -> stranger [] OTHER -> peer]
=============================================================================
