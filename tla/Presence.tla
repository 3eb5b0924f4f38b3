------------------------------ MODULE Presence ------------------------------
(***************************************************************************)
(* comms/presence.py with the parts of listen.py, mqtt.py and send.py that *)
(* keep it up to date and act on it: the retained presence record of one   *)
(* agent, its durable session, the listener processes that use the same    *)
(* client id one after the other or, by mistake, at once, and the senders  *)
(* that look the agent up after a send.                                    *)
(*                                                                         *)
(* What a client has sent and the broker has not read yet is its wire; a   *)
(* broken connection loses it.  The client and the broker learn of a       *)
(* broken connection separately.                                           *)
(***************************************************************************)
EXTENDS Naturals, Sequences

CONSTANTS
  Procs,       \* listener processes of the agent, each started once
  Nobody,      \* "the broker has no connection for this client id"
  Msgs,        \* messages sent to the agent
  MaxBreaks    \* bound on broken connections

ASSUME PresenceAssumption == Nobody \notin Procs /\ MaxBreaks \in Nat

VARIABLES
  pc,          \* pc[p]: "new", "connecting", "up", "lost", "closing" or "gone"
  wire,        \* wire[p]: packets of p's connection on their way to the broker
  holder,      \* whose connection the broker has for the client id
  subscribed,  \* does the session hold the inbox subscription?
  retained,    \* the via of the agent's retained record, or "none"
  speaker,     \* history: whose ONLINE the retained record is, Nobody's if none
  unsaid,      \* history: unsaid[p]: the record p published last, if that failed
  held,        \* messages in the session's queue
  delivered,   \* messages handed to a listener
  note,        \* note[m]: "unsent", "sent", or what its sender was then told
  breaks

clientVars == <<pc, wire>>
saidVars   == <<speaker, unsaid>>
mailVars   == <<held, delivered, note>>
vars == <<clientVars, holder, subscribed, retained, saidVars, mailVars, breaks>>

Packets == {"CONNECT", "SUBSCRIBE", "ONLINE", "OFFLINE", "DISCONNECT"}

\* Types; only a process that was started has a connection.
TypeOK ==
  /\ pc \in [Procs -> {"new", "connecting", "up", "lost", "closing", "gone"}]
  /\ wire \in [Procs -> Seq(Packets)]
  /\ holder \in Procs \cup {Nobody}
  /\ holder # Nobody => pc[holder] # "new"
  /\ \A p \in Procs : pc[p] = "new" => wire[p] = <<>>
  /\ subscribed \in BOOLEAN
  /\ retained \in {"none", "connect", "clean-shutdown", "lwt"}
  /\ speaker \in Procs \cup {Nobody}
  /\ unsaid \in [Procs -> {"nothing", "ONLINE", "OFFLINE"}]
  /\ held \subseteq Msgs /\ delivered \subseteq Msgs
  /\ note \in [Msgs -> {"unsent", "sent", "silent", "no record", "bad record", "offline"}]
  /\ breaks \in 0..MaxBreaks

Init ==
  /\ pc = [p \in Procs |-> "new"]
  /\ wire = [p \in Procs |-> <<>>]
  /\ holder = Nobody
  /\ subscribed = FALSE
  /\ retained = "none"
  /\ speaker = Nobody
  /\ unsaid = [p \in Procs |-> "nothing"]
  /\ held = {} /\ delivered = {}
  /\ note = [m \in Msgs |-> "unsent"]
  /\ breaks = 0

AtHead(p, packet) == wire[p] # <<>> /\ Head(wire[p]) = packet

\* The broker has yet to read the CONNECT of p's present connection.
Unopened(p) == AtHead(p, "CONNECT")

\* The connection the broker has for p no longer exists.
IsDead(p) == pc[p] \in {"lost", "gone"} \/ Unopened(p)

-----------------------------------------------------------------------------
(* The listener process                                                    *)

\* open_subscriber registers the will and connects; reconnects of
\* loop_forever repeat the CONNECT with the same will.
Connect(p) ==
  /\ pc[p] \in {"new", "lost"}
  /\ pc' = [pc EXCEPT ![p] = "connecting"]
  /\ wire' = [wire EXCEPT ![p] = <<"CONNECT">>]
  /\ UNCHANGED <<holder, subscribed, retained, saidVars, mailVars, breaks>>

\* p puts words on its way to the broker, but not those that fail.
Say(p, words, failed) ==
  /\ wire' = [wire EXCEPT ![p] = words]
  /\ unsaid' = [unsaid EXCEPT ![p] = failed]

\* Mutants of OnConnect: presence before the subscription; presence only for
\* a session that is new.
OnConnectOnlineFirst(p) ==
  /\ pc[p] = "connecting" /\ holder = p /\ wire[p] = <<>>
  /\ pc' = [pc EXCEPT ![p] = "up"]
  /\ \/ Say(p, <<"ONLINE", "SUBSCRIBE">>, "nothing")
     \/ Say(p, <<"SUBSCRIBE">>, "ONLINE")
  /\ UNCHANGED <<holder, subscribed, retained, speaker, mailVars, breaks>>
OnConnectIfNewSession(p) ==
  /\ pc[p] = "connecting" /\ holder = p /\ wire[p] = <<>>
  /\ pc' = [pc EXCEPT ![p] = "up"]
  /\ \/ Say(p, IF subscribed THEN <<"SUBSCRIBE">> ELSE <<"SUBSCRIBE", "ONLINE">>,
            "nothing")
     \/ Say(p, <<"SUBSCRIBE">>, "ONLINE")
  /\ UNCHANGED <<holder, subscribed, retained, speaker, mailVars, breaks>>

\* CONNACK arrived: _on_connect subscribes, then on_ready announces ONLINE; if its
\* payload or its publish fails, a warning is printed and the listener goes on.
OnConnect(p) ==
  /\ pc[p] = "connecting" /\ holder = p /\ wire[p] = <<>>
  /\ pc' = [pc EXCEPT ![p] = "up"]
  /\ \/ Say(p, <<"SUBSCRIBE", "ONLINE">>, "nothing")
     \/ Say(p, <<"SUBSCRIBE">>, "ONLINE")
  /\ UNCHANGED <<holder, subscribed, retained, speaker, mailVars, breaks>>

\* Ctrl-C, or an exception out of on_message: run publishes OFFLINE and waits for
\* a PUBACK that no loop reads.  Whatever fails in that is swallowed.  Without a
\* connection nothing can be published and the process ends.
Interrupt(p) ==
  /\ \/ /\ pc[p] \in {"connecting", "up"}
        /\ pc' = [pc EXCEPT ![p] = "closing"]
        /\ \/ Say(p, Append(wire[p], "OFFLINE"), "nothing")
           \/ Say(p, wire[p], "OFFLINE")
     \/ /\ pc[p] = "lost"
        /\ pc' = [pc EXCEPT ![p] = "gone"]
        /\ UNCHANGED <<wire, unsaid>>
  /\ UNCHANGED <<holder, subscribed, retained, speaker, mailVars, breaks>>

\* The wait is over, or there was none: client.disconnect(), which keeps the broker
\* from publishing the will, and the process ends.
Disconnect(p) ==
  /\ pc[p] = "closing"
  /\ pc' = [pc EXCEPT ![p] = "gone"]
  /\ wire' = [wire EXCEPT ![p] = Append(@, "DISCONNECT")]
  /\ UNCHANGED <<holder, subscribed, retained, saidVars, mailVars, breaks>>

\* The process is killed or interrupted again during that wait, or disconnect()
\* fails, which is swallowed as well; what it has
\* sent may still reach the broker.
Die(p) ==
  /\ pc[p] \in {"connecting", "up", "lost", "closing"}
  /\ pc' = [pc EXCEPT ![p] = "gone"]
  /\ UNCHANGED <<wire, holder, subscribed, retained, saidVars, mailVars, breaks>>

\* p loses its connection; loop_forever will reconnect, a closing process not.
Dropped(p) == IF pc[p] \in {"closing", "gone"} THEN "gone" ELSE "lost"

Break(p) ==
  /\ pc[p] \in {"connecting", "up", "closing"}
  /\ breaks < MaxBreaks
  /\ breaks' = breaks + 1
  /\ pc' = [pc EXCEPT ![p] = Dropped(p)]
  /\ wire' = [wire EXCEPT ![p] = <<>>]
  /\ UNCHANGED <<holder, subscribed, retained, saidVars, mailVars>>

-----------------------------------------------------------------------------
(* The broker                                                              *)

\* Mutants of Will: no will is registered; its record has no known via.
WillMissing == retained
WillMislabelled == "offline"

\* The record the will leaves, when a connection ends without a DISCONNECT.
Will == "lwt"

KeepSpeaker == speaker' = IF retained' = "connect" THEN speaker ELSE Nobody

\* A CONNECT takes the client id over: the broker closes the connection it
\* had for it and publishes that connection's will.
Accept(p) ==
  /\ AtHead(p, "CONNECT")
  /\ holder' = p
  /\ retained' = IF holder = Nobody THEN retained ELSE Will
  /\ KeepSpeaker
  /\ IF holder \in Procs \ {p} /\ ~Unopened(holder)
     THEN /\ pc' = [pc EXCEPT ![holder] = IF @ = "gone" THEN @ ELSE Dropped(holder)]
          /\ wire' = [wire EXCEPT ![p] = Tail(@), ![holder] = <<>>]
     ELSE /\ UNCHANGED pc
          /\ wire' = [wire EXCEPT ![p] = Tail(@)]
  /\ UNCHANGED <<subscribed, unsaid, mailVars, breaks>>

\* Any other packet, of the connection the broker has.
Handle(p) ==
  /\ holder = p /\ wire[p] # <<>> /\ ~Unopened(p)
  /\ wire' = [wire EXCEPT ![p] = Tail(@)]
  /\ \/ /\ AtHead(p, "SUBSCRIBE")
        /\ subscribed' = TRUE
        /\ UNCHANGED <<holder, retained, speaker>>
     \/ /\ AtHead(p, "ONLINE")
        /\ retained' = "connect" /\ speaker' = p
        /\ UNCHANGED <<holder, subscribed>>
     \/ /\ AtHead(p, "OFFLINE")
        /\ retained' = "clean-shutdown" /\ speaker' = Nobody
        /\ UNCHANGED <<holder, subscribed>>
     \/ /\ AtHead(p, "DISCONNECT")
        /\ holder' = Nobody
        /\ UNCHANGED <<subscribed, retained, speaker>>
  /\ UNCHANGED <<pc, unsaid, mailVars, breaks>>

\* The keepalive of a dead connection runs out, or its end is seen at once.
Notice(p) ==
  /\ holder = p /\ IsDead(p)
  /\ holder' = Nobody
  /\ retained' = Will
  /\ KeepSpeaker
  /\ wire' = IF Unopened(p) THEN wire ELSE [wire EXCEPT ![p] = <<>>]
  /\ UNCHANGED <<pc, subscribed, unsaid, mailVars, breaks>>

-----------------------------------------------------------------------------
(* Messages and their senders                                              *)

\* cmd_send: publish_one returns once the broker has acknowledged the message,
\* whether or not any session wants it.
Send(m) ==
  /\ note[m] = "unsent"
  /\ note' = [note EXCEPT ![m] = "sent"]
  /\ held' = IF subscribed THEN held \cup {m} ELSE held
  /\ UNCHANGED <<clientVars, holder, subscribed, retained, saidVars, delivered, breaks>>

Deliver(m) ==
  /\ m \in held
  /\ holder # Nobody /\ pc[holder] = "up"
  /\ held' = held \ {m}
  /\ delivered' = delivered \cup {m}
  /\ UNCHANGED <<clientVars, holder, subscribed, retained, saidVars, note, breaks>>

\* What peek returns: the retained record, one that does not verify if the
\* sender's keyring holds another key for the agent, or None when there is no
\* record, or the lookup failed or took too long.
Entries == {"none", retained} \cup IF retained = "none" THEN {} ELSE {"bad"}

\* offline_note on that.
Peek(m) ==
  /\ note[m] = "sent"
  /\ \E entry \in Entries :
       note' = [note EXCEPT ![m] = CASE entry = "none"    -> "no record"
                                     [] entry = "bad"     -> "bad record"
                                     [] entry = "connect" -> "silent"
                                     [] OTHER             -> "offline"]
  /\ UNCHANGED <<clientVars, holder, subscribed, retained, saidVars, held, delivered, breaks>>

Listening == \E p \in Procs :
  Connect(p) \/ OnConnect(p) \/ Interrupt(p) \/ Disconnect(p) \/ Die(p) \/ Break(p)
Brokering == \E p \in Procs : Accept(p) \/ Handle(p) \/ Notice(p)
Mailing   == \E m \in Msgs : Send(m) \/ Deliver(m) \/ Peek(m)

Next == Listening \/ Brokering \/ Mailing

\* The broker reads what reaches it and drops dead connections (keepalive 30);
\* paho's loop runs on_connect.  Nothing obliges a client to connect again.
Fairness == \A p \in Procs :
  WF_vars(Accept(p) \/ Handle(p)) /\ WF_vars(Notice(p)) /\ WF_vars(OnConnect(p))

Spec == Init /\ [][Next]_vars
-----------------------------------------------------------------------------
(* Properties                                                              *)

\* mqtt.py 332-335: an agent that is shown online has its inbox subscription
\* at the broker, so that what is sent to it from then on is kept - through
\* take-overs, half-open connections and processes that die half-way.
OnlineMeansSubscribed == retained = "connect" => subscribed

\* presence.py 5-7: the record follows the connection.  An agent reads online only
\* while the broker has the very connection that said so - one that ends, in whatever
\* way, takes "connect" off - except for a process that failed to publish its OFFLINE:
\* its DISCONNECT keeps the will back too, and the record stays.
ReadsOnlineWrongly == retained = "connect" /\ holder # speaker
OnlineOnlyIfConnected == ReadsOnlineWrongly => unsaid[speaker] = "OFFLINE"

\* ... and a connected listener of which nothing is on its way any more reads
\* online, whoever had the client id before it and whenever that one's will came -
\* except if its ONLINE could not be published.
ReadsOnlineFor(p) == retained = "connect" /\ speaker = p
SettledReadsOnline ==
  \A p \in Procs :
    holder = p /\ pc[p] = "up" /\ wire[p] = <<>> /\ unsaid[p] # "ONLINE"
    => ReadsOnlineFor(p)

\* presence.py 5-7: once every listener process has ended for good, however it
\* ended, the agent eventually no longer reads online, and stays so - unless it does
\* by the word of a process that failed to publish its OFFLINE.
AllEnded == \A p \in Procs : pc[p] \in {"new", "gone"}
DeadLooksOffline ==
  <>[]AllEnded => <>[](retained = "connect" => unsaid[speaker] = "OFFLINE")

\* listen.py 207-217: a listener whose connection lasts, and on which its ONLINE could
\* be published, eventually reads online, and stays so, whatever its predecessors'
\* wills and last words said.
AliveLooksOnline ==
  \A p \in Procs :
    <>[](pc[p] = "up" /\ holder = p /\ unsaid[p] # "ONLINE") => <>[]ReadsOnlineFor(p)

\* presence.py 210-212: a sender told that there is no presence record is told
\* that its message is queued on the broker.
UnknownMeansQueued == \A m \in Msgs : note[m] = "no record" => m \in held \cup delivered
=============================================================================
