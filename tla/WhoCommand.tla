----------------------------- MODULE WhoCommand -----------------------------
(***************************************************************************)
(* comms/who.py beside the presence of one agent: a who that subscribes to *)
(* the presence records, is sent the retained one, then every newer one as *)
(* it is published, and shows the last it has got when its time is up.     *)
(***************************************************************************)
EXTENDS Presence

CONSTANT MaxUpdates    \* bound on the records on their way to who

ASSUME WhoAssumption == MaxUpdates \in Nat \ {0}

VARIABLES
  asking,      \* "new", "subscribing", "collecting" or "done"
  updates,     \* records on their way from the broker to who
  entry        \* seen: the agent's record that who has, or "none"

whoVars == <<asking, updates, entry>>

Vias == {"connect", "clean-shutdown", "lwt"}

\* Types; nothing is sent to a who that does not collect.
WhoTypeOK ==
  /\ TypeOK
  /\ asking \in {"new", "subscribing", "collecting", "done"}
  /\ updates \in Seq(Vias) /\ entry \in Vias \cup {"none"}
  /\ asking # "collecting" => updates = <<>>

WhoInit == Init /\ asking = "new" /\ updates = <<>> /\ entry = "none"

\* open_subscriber, on a client id of its own.
Ask ==
  /\ asking = "new"
  /\ asking' = "subscribing"
  /\ UNCHANGED <<vars, updates, entry>>

\* The broker takes the subscription and replays what it has retained.
Replay ==
  /\ asking = "subscribing"
  /\ asking' = "collecting"
  /\ updates' = IF retained = "none" THEN <<>> ELSE <<retained>>
  /\ UNCHANGED <<vars, entry>>

\* Mutant of OnMessage: the first record of an agent is kept.
OnMessageFirst ==
  /\ updates # <<>>
  /\ entry' = IF entry = "none" THEN Head(updates) ELSE entry
  /\ updates' = Tail(updates)
  /\ UNCHANGED <<vars, asking>>

\* Last write wins.
OnMessage ==
  /\ updates # <<>>
  /\ entry' = Head(updates)
  /\ updates' = Tail(updates)
  /\ UNCHANGED <<vars, asking>>

\* The collection's fixed time is over, whatever is still on its way.
Show ==
  /\ asking \in {"subscribing", "collecting"}
  /\ asking' = "done" /\ updates' = <<>>
  /\ UNCHANGED <<vars, entry>>

\* A record that is published goes to who as well; one that says the same
\* again would not change what it shows.
Forward ==
  /\ updates' = IF asking = "collecting" /\ retained' # retained
                THEN Append(updates, retained') ELSE updates
  /\ Len(updates') <= MaxUpdates
  /\ UNCHANGED <<asking, entry>>

Who == Ask \/ Replay \/ OnMessage \/ Show

WhoNext == (Next /\ Forward) \/ Who

WhoSpec == WhoInit /\ [][WhoNext]_<<vars, whoVars>>

\* time.sleep(collect_sec) ends.
FairWhoSpec == WhoSpec /\ Fairness /\ WF_<<vars, whoVars>>(Show)
-----------------------------------------------------------------------------
(* Properties                                                              *)

\* who.py 45-47: the retained record and live updates reach a who in the order
\* in which they were published, and the last one wins: with nothing more on its
\* way it shows what the broker retains, through any take-over and late will.
ShowsTheNewest ==
  asking = "collecting" =>
    retained = IF updates = <<>> THEN entry ELSE updates[Len(updates)]

\* who.py 70, mqtt.py 330-335: an agent that a who has shown online has its inbox
\* subscription, so that a message sent on the strength of it is kept - however old
\* the record is by then.
ShownOnlineIsKept == entry = "connect" => subscribed
=============================================================================
