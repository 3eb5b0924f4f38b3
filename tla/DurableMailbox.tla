--------------------------- MODULE DurableMailbox ---------------------------
(***************************************************************************)
(* What a synnoesis mailbox promises, whatever carries it: a message the   *)
(* mailbox has accepted stays owed to its agent until the agent's side     *)
(* has either written it to the inbox or refused it for a stated reason.   *)
(* Nothing is written or refused that was never accepted, and a message    *)
(* already settled may be written again (delivery is at least once).       *)
(***************************************************************************)
CONSTANT Msgs            \* the messages that may be sent

VARIABLES pending,       \* accepted, and still owed to the agent
          written,       \* in the agent's inbox
          refused        \* turned away for a reason the agent's side printed

mailbox == <<pending, written, refused>>

Init == pending = {} /\ written = {} /\ refused = {}

Accept(m) == /\ pending' = pending \cup {m}
             /\ UNCHANGED <<written, refused>>

Write(m) == /\ m \in pending
            /\ written' = written \cup {m}
            /\ UNCHANGED <<pending, refused>>

Refuse(m) == /\ m \in pending
             /\ refused' = refused \cup {m}
             /\ UNCHANGED <<pending, written>>

Settle(m) == /\ m \in pending
             /\ m \in written \cup refused
             /\ pending' = pending \ {m}
             /\ UNCHANGED <<written, refused>>

Next == \E m \in Msgs : Accept(m) \/ Write(m) \/ Refuse(m) \/ Settle(m)

Spec == Init /\ [][Next]_mailbox
=============================================================================
