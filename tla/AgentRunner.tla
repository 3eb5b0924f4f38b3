---------------------------- MODULE AgentRunner -----------------------------
(***************************************************************************)
(* comms/agent.py: what one agent process does with the messages           *)
(* listen.process_incoming has verified: authorization, the rolling reply  *)
(* budget, the model turn, the reply, and the notices that stand in for a  *)
(* reply.  on_message runs one message to its end before the next, but     *)
(* time passes during the model turn.  A message is handed over once at    *)
(* most (process_incoming dedups).  The agent publishes under the client   *)
(* id of its own subscription, which the broker ends for that; neither     *)
(* session is durable, so that what comes meanwhile is lost.               *)
(***************************************************************************)
EXTENDS Integers, FiniteSets

CONSTANTS
  Msgs, Peers,
  Me,              \* agent_id
  From,            \* From[m]: the _from of m
  Bodiless,        \* the messages whose body is blank
  RespondTo,       \* respond_to
  Limit,           \* max_replies_per_window
  Window,          \* window_sec
  Boot,            \* what time.monotonic() shows when the process starts
  MaxClock,        \* bound on it
  PayloadIsObject  \* is a record's payload an object, as test_agent.py builds
                   \* it, or the JSON text that wire.wrap_outer makes?

ASSUME AgentAssumption ==
  /\ IsFiniteSet(Msgs)
  /\ Me \notin Peers /\ RespondTo \subseteq Peers
  /\ From \in [Msgs -> Peers \cup {Me}] /\ Bodiless \subseteq Msgs
  /\ Limit \in Nat \ {0} /\ Window \in Nat \ {0}
  /\ Boot \in Nat /\ MaxClock \in Nat /\ Boot <= MaxClock
  /\ PayloadIsObject \in BOOLEAN

VARIABLES
  running,     \* is the process alive?
  subscribed,  \* has the broker a connection with its subscription?
  mono,        \* time.monotonic()
  fate,        \* fate[m]: what became of m
  at,          \* at[m]: the time on_message took for m, if the budget was asked
  sentAt,      \* sentAt[m]: when the reply to m was published
  stamps,      \* Budget.stamps, as the messages whose replies they record
  noticeAt,    \* Budget.tripped_notice_sent_at
  notices      \* history: when budget notices were sent

vars == <<running, subscribed, mono, fate, at, sentAt, stamps, noticeAt, notices>>

\* "none": not published, or lost; "waiting": not handed over yet.
Fates == {"none", "waiting", "ignored", "unlisted", "exhausted", "asking", "replied",
          "failed"}

\* Types; at most one message is in its model turn.
TypeOK ==
  /\ running \in BOOLEAN /\ subscribed \in BOOLEAN
  /\ mono \in Boot..MaxClock
  /\ fate \in [Msgs -> Fates]
  /\ at \in [Msgs -> 0..MaxClock] /\ sentAt \in [Msgs -> 0..MaxClock]
  /\ stamps \subseteq Msgs
  /\ noticeAt \in 0..MaxClock
  /\ notices \subseteq 0..MaxClock
  /\ \A m, n \in Msgs : fate[m] = "asking" /\ fate[n] = "asking" => m = n

Init ==
  /\ running = TRUE /\ subscribed = FALSE
  /\ mono = Boot
  /\ fate = [m \in Msgs |-> "none"]
  /\ at = [m \in Msgs |-> 0] /\ sentAt = [m \in Msgs |-> 0]
  /\ stamps = {}
  /\ noticeAt = 0
  /\ notices = {}

-----------------------------------------------------------------------------
(* Budget and decide                                                       *)

\* Mutant of Pruned: a reply is held against the budget for ever.
PrunedNever == stamps

Pruned == {m \in stamps : at[m] > mono - Window}

\* Mutant of Allows: the reply that fills the budget is not the last.
AllowsOneMore == Cardinality(Pruned) <= Limit

Allows == Cardinality(Pruned) < Limit

\* Mutant of ShouldAnnounce: a notice for each refused message.
AnnounceAlways == TRUE

ShouldAnnounce == mono - noticeAt >= Window

\* decide looks into the payload only if that is an object; otherwise it looks
\* for _from and body in the outer record, which has neither.
SeesBody(m) == PayloadIsObject /\ m \notin Bodiless
SeesOwn(m)  == PayloadIsObject /\ From[m] = Me

Ignores(m) == SeesOwn(m) \/ ~SeesBody(m)
IsUnlisted(m) == ~Ignores(m) /\ From[m] \notin RespondTo
IsListed(m) == ~Ignores(m) /\ From[m] \in RespondTo

-----------------------------------------------------------------------------
(* on_message                                                              *)

\* Mutant of Idle: messages are handed over while a turn is under way.
IdleAlways == TRUE

Idle == \A m \in Msgs : fate[m] # "asking"

Consider(m) ==
  /\ running /\ Idle /\ fate[m] = "waiting"

Ignore(m) ==
  /\ Consider(m)
  /\ Ignores(m)
  /\ fate' = [fate EXCEPT ![m] = "ignored"]
  /\ UNCHANGED <<running, subscribed, mono, at, sentAt, stamps, noticeAt, notices>>

RefuseUnlisted(m) ==
  /\ Consider(m)
  /\ IsUnlisted(m)
  /\ fate' = [fate EXCEPT ![m] = "unlisted"]
  /\ UNCHANGED <<running, subscribed, mono, at, sentAt, stamps, noticeAt, notices>>

\* _send_reply: the broker disconnects the subscriber, whose client id publish_one
\* uses; a broker that fails the publish ends the process, for SynBrokerError is
\* no RuntimeError.
SendReply == running' \in BOOLEAN /\ subscribed' = FALSE

\* The time of the notice is noted before it is sent.
RefuseExhausted(m) ==
  /\ Consider(m)
  /\ IsListed(m) /\ ~Allows
  /\ at' = [at EXCEPT ![m] = mono] /\ stamps' = Pruned
  /\ fate' = [fate EXCEPT ![m] = "exhausted"]
  /\ IF ShouldAnnounce
     THEN /\ SendReply
          /\ noticeAt' = mono
          /\ notices' = IF running' THEN notices \cup {mono} ELSE notices
     ELSE UNCHANGED <<running, subscribed, noticeAt, notices>>
  /\ UNCHANGED <<mono, sentAt>>

StartTurn(m) ==
  /\ Consider(m)
  /\ IsListed(m) /\ Allows
  /\ at' = [at EXCEPT ![m] = mono] /\ stamps' = Pruned
  /\ fate' = [fate EXCEPT ![m] = "asking"]
  /\ UNCHANGED <<running, subscribed, mono, sentAt, noticeAt, notices>>

\* The model answered: the reply is recorded under the time the message came,
\* then sent.
Reply(m) ==
  /\ running /\ fate[m] = "asking"
  /\ stamps' = stamps \cup {m}
  /\ fate' = [fate EXCEPT ![m] = "replied"]
  /\ sentAt' = [sentAt EXCEPT ![m] = mono]
  /\ SendReply
  /\ UNCHANGED <<mono, at, noticeAt, notices>>

\* The model failed: an error goes out in place of the reply, unrecorded.
ReplyError(m) ==
  /\ running /\ fate[m] = "asking"
  /\ fate' = [fate EXCEPT ![m] = "failed"]
  /\ SendReply
  /\ UNCHANGED <<mono, at, sentAt, stamps, noticeAt, notices>>

\* The process is killed, or call_model lets an error through that it does not
\* turn into a RuntimeError (an answer cut short, or not UTF-8).
Die ==
  /\ running
  /\ running' = FALSE /\ subscribed' = FALSE
  /\ UNCHANGED <<mono, fate, at, sentAt, stamps, noticeAt, notices>>

-----------------------------------------------------------------------------
(* The subscription                                                        *)

\* A peer publishes m; without a subscription the broker drops it.
Arrive(m) ==
  /\ subscribed /\ fate[m] = "none"
  /\ fate' = [fate EXCEPT ![m] = "waiting"]
  /\ UNCHANGED <<running, subscribed, mono, at, sentAt, stamps, noticeAt, notices>>

\* The connection breaks.
Break ==
  /\ subscribed
  /\ subscribed' = FALSE
  /\ UNCHANGED <<running, mono, fate, at, sentAt, stamps, noticeAt, notices>>

\* Mutant of Subscribe: the subscription is made after the first connect alone.
SubscribeOnce ==
  /\ running /\ Idle /\ ~subscribed
  /\ \A m \in Msgs : fate[m] = "none"
  /\ subscribed' = TRUE
  /\ UNCHANGED <<running, mono, fate, at, sentAt, stamps, noticeAt, notices>>

\* loop_forever connects, once it gets the loop back from on_message, and
\* _on_connect subscribes; what the old connection still held is lost with it.
Subscribe ==
  /\ running /\ Idle /\ ~subscribed
  /\ subscribed' = TRUE
  /\ fate' = [m \in Msgs |-> IF fate[m] = "waiting" THEN "none" ELSE fate[m]]
  /\ UNCHANGED <<running, mono, at, sentAt, stamps, noticeAt, notices>>

Tick ==
  /\ mono < MaxClock
  /\ mono' = mono + 1
  /\ UNCHANGED <<running, subscribed, fate, at, sentAt, stamps, noticeAt, notices>>

Decide(m)  == Ignore(m) \/ RefuseUnlisted(m) \/ RefuseExhausted(m) \/ StartTurn(m)
EndTurn(m) == Reply(m) \/ ReplyError(m)

Next ==
  \/ Tick \/ Die \/ Break \/ Subscribe
  \/ \E m \in Msgs : Arrive(m) \/ Decide(m) \/ EndTurn(m)

Spec == Init /\ [][Next]_vars

\* loop_forever goes on while the process lives; the broker lets the agent connect
\* in the end; and a model turn ends: the request has a timeout, though one for each
\* read of the answer, so that the endpoint is taken not to trickle it for ever.
FairSpec ==
  /\ Spec
  /\ WF_vars(Subscribe)
  /\ WF_vars(\E m \in Msgs : EndTurn(m))
-----------------------------------------------------------------------------
(* Properties                                                              *)

\* agent.py 95-122: the reply budget bounds what the process emits.  It counts a
\* reply under the time its message was taken up, so that one that took long may
\* leave late, among those of the next window - but only one, for messages are
\* taken up one at a time: no window sees more than one reply over the limit.
Replied == {m \in Msgs : fate[m] = "replied"}
SentIn(t) == {m \in Replied : t - Window < sentAt[m] /\ sentAt[m] <= t}
BudgetHolds == \A t \in 0..MaxClock : Cardinality(SentIn(t)) <= Limit + 1

\* test_agent.py 116-119: the window rolls.  A message is refused for the budget
\* only if the replies to messages of the window that ended with it had filled it:
\* neither older replies nor failed turns count.
TakenIn(t) == {m \in Replied : t - Window < at[m] /\ at[m] <= t}
RefusedOnlyIfSpent ==
  \A m \in Msgs : fate[m] = "exhausted" => Cardinality(TakenIn(at[m])) >= Limit

\* A notice was sent in the window that ended with m.
Announced(m) == \E t \in notices : at[m] - Window < t /\ t <= at[m]

\* agent.py 125-130: an exhausted budget is announced, once per window.  Notices
\* are a window apart, and a refusal has one in the window that ends with it,
\* unless the host's clock had not yet run a window (noticeAt = 0 then passes for
\* a notice) or the process ended of sending that very notice.
AnnouncedOncePerWindow ==
  /\ \A s, t \in notices : s < t => s + Window <= t
  /\ \A m \in Msgs : fate[m] = "exhausted" =>
       \/ Announced(m)
       \/ at[m] < Window
       \/ ~running /\ noticeAt = at[m]

\* agent.py 129-130: a budget trip is never silent while the process lives.
TripsAreAnnounced == \A m \in Msgs : fate[m] = "exhausted" /\ running => Announced(m)

\* test_agent.py 85-89: what decide ignores is its own or has no body; a message
\* of anyone else is answered, or refused out loud.
IgnoresOnlyOwnOrEmpty ==
  \A m \in Msgs : fate[m] = "ignored" => From[m] = Me \/ m \in Bodiless

\* agent.py 316, 411: the agent disconnects its own subscription with each message
\* it sends, and connections break; while the process lives it comes back.
ComesBack == running ~> (subscribed \/ ~running)
=============================================================================
