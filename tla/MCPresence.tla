----------------------------- MODULE MCPresence -----------------------------
(* Two listener processes of one agent, messages to it, and a who.         *)
EXTENDS WhoCommand

CONSTANTS p1, p2, m1
=============================================================================
