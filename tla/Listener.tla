------------------------------ MODULE Listener ------------------------------
(***************************************************************************)
(* comms/listen.py: the listener of one agent, with its durable MQTT       *)
(* session at the broker and the senders that publish to it.               *)
(*                                                                         *)
(* The broker keeps the session (subscription and unacknowledged queue)    *)
(* while the listener is away (clean_session=False); paho hands over one   *)
(* message at a time, on_message runs to its end, and the PUBACK leaves    *)
(* only afterwards.  What is unacknowledged when the connection or the     *)
(* process dies is handed over again.  The seen-nonce cache is a local     *)
(* dictionary of the process and dies with it; the inbox file does not.    *)
(*                                                                         *)
(* A message stands for its (sender, nonce) pair: new_message draws eight  *)
(* random bytes, so two messages share a dedup key only by being the same. *)
(***************************************************************************)
EXTENDS Integers, Sequences, FiniteSets

CONSTANTS
  Msgs,            \* the messages senders may publish to this agent
  Garbled,         \* those whose payload is no JSON object
  Nonceless,       \* those without a _nonce (hand-made publishers)
  Undated,         \* those whose _at does not parse
  Unhashable,      \* those whose _from (or _nonce, if any) is a list or object
  Unencodable,     \* those with a lone surrogate, which UTF-8 cannot encode
  Senders, Keys, NoKey,
  From,            \* From[m]: the _from of m
  SignedWith,      \* SignedWith[m]: the key m was signed with, or NoKey
  Skews,           \* how far a sender's clock may be ahead of the listener's
  MaxAge,          \* SYN_MAX_AGE_SEC (0 disables freshness)
  DedupMinTtl,     \* DEDUP_MIN_TTL_SEC
  SeenMax,         \* SEEN_MAX
  Enforce,         \* SYN_ENFORCE_SIGNING
  CryptoAvailable, \* is 'cryptography' installed on the listener's host?
  MaxClock, MaxCopies,   \* bounds on the clock, on the copies of each message,
  MaxLives,              \* on the processes that leave a trace,
  MaxLosses              \* and on what ends a connection from outside

ASSUME ListenerAssumption ==
  /\ Garbled \subseteq Msgs /\ Nonceless \subseteq Msgs /\ Undated \subseteq Msgs
  /\ Unhashable \subseteq Msgs \ Garbled /\ Unencodable \subseteq Msgs \ Garbled
  /\ NoKey \notin Keys
  /\ From \in [Msgs -> Senders]
  /\ SignedWith \in [Msgs -> Keys \cup {NoKey}]
  /\ Skews \subseteq Int
  /\ MaxAge \in Nat /\ DedupMinTtl \in Nat /\ SeenMax \in Nat
  /\ MaxClock \in Nat /\ MaxCopies \in [Msgs -> Nat \ {0}]
  /\ MaxLives \in Nat /\ MaxLosses \in Nat
  /\ Enforce \in BOOLEAN /\ CryptoAvailable \in BOOLEAN

VARIABLES
  clock,       \* the listener host's UTC clock
  at,          \* at[m]: the _at its sender signed into m
  copies,      \* copies[m]: how often the broker has received m
  keyring,     \* keyring[s]: the key pinned for s, as load_keyring reads it
  subscribed,  \* does the broker hold the subscription of this session?
  queue,       \* the session's unacknowledged messages, oldest first
  handled,     \* how many of them on_message has returned from, PUBACK pending
  conn,        \* "down" (no process), "offline" (no connection) or "up"
  losses,      \* how often a connection has broken or the process been ended
  life,        \* the number of the present or last process, see Start
  seen,        \* the seen-nonce cache: key -> expiry
  inbox,       \* the lines of <me>-inbox.jsonl
  verdicts,    \* history: what on_message printed about each message
  trimmed,     \* history: <<life, key>> of the entries the cap threw out
  accepted     \* history: the messages the session took, in order of first copy

Elements(s) == {s[i] : i \in 1..Len(s)}

senderVars  == <<at, copies>>
sessionVars == <<subscribed, queue, handled, conn, losses>>
processVars == <<life, seen>>
history     == <<verdicts, trimmed, accepted>>
vars == <<clock, senderVars, keyring, sessionVars, processVars, inbox, history>>

Reasons  == {"garbled", "duplicate", "stale", "unverified", "io_error"}
Refusals == Reasons \ {"duplicate"}
Statuses == {"ok", "unsigned", "no-key", "bad", "unavailable"}

EmptyCache == [k \in {} |-> 0]

\* Types; seen is keyed by messages that have a nonce.
TypeOK ==
  /\ clock \in 0..MaxClock
  /\ at \in [Msgs -> Int]
  /\ copies \in [Msgs -> Nat] /\ \A m \in Msgs : copies[m] <= MaxCopies[m]
  /\ keyring \in [Senders -> Keys \cup {NoKey}]
  /\ subscribed \in BOOLEAN
  /\ queue \in Seq(Msgs)
  /\ handled \in 0..Len(queue)
  /\ conn \in {"down", "offline", "up"}
  /\ losses \in 0..MaxLosses
  /\ life \in 0..MaxLives
  /\ DOMAIN seen \subseteq Msgs \ Nonceless
  /\ seen \in [DOMAIN seen -> Int]
  /\ inbox \in Seq([msg : Msgs, time : 0..MaxClock, life : 1..MaxLives,
                    status : Statuses])
  /\ verdicts \in [Msgs -> SUBSET Reasons]
  /\ trimmed \subseteq (1..MaxLives) \X Msgs
  /\ accepted \in Seq(Msgs)

Init ==
  /\ clock = 0
  /\ at = [m \in Msgs |-> 0]
  /\ copies = [m \in Msgs |-> 0]
  /\ keyring = [s \in Senders |-> NoKey]
  /\ subscribed = FALSE
  /\ queue = <<>>
  /\ handled = 0
  /\ conn = "down"
  /\ losses = 0
  /\ life = 0
  /\ seen = EmptyCache
  /\ inbox = <<>>
  /\ verdicts = [m \in Msgs |-> {}]
  /\ trimmed = {}
  /\ accepted = <<>>

-----------------------------------------------------------------------------
(* process_incoming: the pure decision on one message                      *)

\* Mutant of Unexpired: evicts entries one tick before they expire.
UnexpiredTooFew == [k \in {k \in DOMAIN seen : seen[k] > clock + 1} |-> seen[k]]

\* The cache after eviction of everything with exp <= now.
Unexpired == [k \in {k \in DOMAIN seen : seen[k] > clock} |-> seen[k]]

\* Mutant of Survivors: the cap is never applied.
SurvivorsUncapped(cache) == {DOMAIN cache}

\* The key sets that may survive the cap: all of them, or the SeenMax that
\* expire last (which of several expiring together survive is left open).
Survivors(cache) ==
  IF Cardinality(DOMAIN cache) <= SeenMax
  THEN {DOMAIN cache}
  ELSE {K \in SUBSET DOMAIN cache :
          /\ Cardinality(K) = SeenMax
          /\ \A k \in K, d \in DOMAIN cache \ K : cache[d] <= cache[k]}

\* Mutant of Ttl: the dedup period forgets the freshness window.
TtlMinOnly == DedupMinTtl

Ttl == IF MaxAge > DedupMinTtl THEN MaxAge ELSE DedupMinTtl

Restriction(cache, K) == [k \in K |-> cache[k]]

\* Mutant of Recorded: the empty nonce is a nonce like any other.
RecordedAlways(cache, m) ==
  [k \in DOMAIN cache \cup {m} |-> IF k = m THEN clock + Ttl ELSE cache[k]]

\* seen[key] = now + ttl, for a message that has a nonce.
Recorded(cache, m) ==
  IF m \in Nonceless
  THEN cache
  ELSE [k \in DOMAIN cache \cup {m} |-> IF k = m THEN clock + Ttl ELSE cache[k]]

IsDuplicate(m, cache) == m \notin Nonceless /\ m \in DOMAIN cache

IsStale(m) == MaxAge > 0 /\ m \notin Undated /\ clock - at[m] > MaxAge

\* verify_against_keyring, on the keyring just reloaded.
Verify(m) ==
  CASE ~CryptoAvailable          -> "unavailable"
    [] CryptoAvailable /\ SignedWith[m] = NoKey -> "unsigned"
    [] CryptoAvailable /\ SignedWith[m] # NoKey /\ keyring[From[m]] = NoKey -> "no-key"
    [] CryptoAvailable /\ SignedWith[m] # NoKey /\ keyring[From[m]] = SignedWith[m] -> "ok"
    [] OTHER                     -> "bad"

IsGated(m) == Enforce /\ Verify(m) # "ok"

-----------------------------------------------------------------------------
(* on_message: the decision, then the append                               *)

Drop(m, reason) ==
  /\ verdicts' = [verdicts EXCEPT ![m] = @ \cup {reason}]
  /\ UNCHANGED inbox

\* The line is encoded before a byte of it is written.
Write(m) ==
  /\ m \notin Unencodable
  /\ inbox' = Append(inbox, [msg |-> m, time |-> clock, life |-> life,
                             status |-> Verify(m)])
  /\ UNCHANGED verdicts

DropGarbled(m) ==
  /\ m \in Garbled
  /\ Drop(m, "garbled")
  /\ UNCHANGED <<seen, trimmed>>

DropDuplicate(m, cache) ==
  /\ IsDuplicate(m, cache)
  /\ seen' = cache
  /\ Drop(m, "duplicate")

\* Mutant of Decide: a failed append is swallowed without a word.
DecideSwallows(m, cache) ==
  /\ ~IsDuplicate(m, cache)
  /\ seen' = Recorded(cache, m)
  /\ \/ IsStale(m) /\ Drop(m, "stale")
     \/ ~IsStale(m) /\ IsGated(m) /\ Drop(m, "unverified")
     \/ ~IsStale(m) /\ ~IsGated(m) /\ (Write(m) \/ UNCHANGED <<verdicts, inbox>>)

\* Not a duplicate: the nonce is recorded first, whatever is decided next.
Decide(m, cache) ==
  /\ ~IsDuplicate(m, cache)
  /\ seen' = Recorded(cache, m)
  /\ \/ IsStale(m) /\ Drop(m, "stale")
     \/ ~IsStale(m) /\ IsGated(m) /\ Drop(m, "unverified")
     \/ ~IsStale(m) /\ ~IsGated(m) /\ (Write(m) \/ Drop(m, "io_error"))

\* The seen cache, and the keyring for what is signed, are looked up with m's
\* _nonce and _from: a list or an object there is a TypeError.
IsLookedUp(m) ==
  \/ m \notin Nonceless
  \/ ~IsStale(m) /\ CryptoAvailable /\ SignedWith[m] # NoKey

\* Mutant of MustRaise: the parse error of a garbled message escapes.
MustRaiseOnGarbled(m) == m \in Garbled \/ (m \in Unhashable /\ IsLookedUp(m))

MustRaise(m) == m \in Unhashable /\ IsLookedUp(m)

\* The next of the messages that the session holds.
IsNext(m) ==
  /\ conn = "up"
  /\ handled < Len(queue)
  /\ queue[handled + 1] = m

\* on_message returns.
OnMessage(m) ==
  /\ IsNext(m)
  /\ ~MustRaise(m)
  /\ handled' = handled + 1
  /\ \/ DropGarbled(m)
     \/ /\ m \notin Garbled
        /\ \E K \in Survivors(Unexpired) :
             /\ trimmed' = trimmed \cup {<<life, k>> : k \in DOMAIN Unexpired \ K}
             /\ \/ DropDuplicate(m, Restriction(seen, K))
                \/ Decide(m, Restriction(seen, K))
  /\ UNCHANGED <<clock, senderVars, keyring, subscribed, queue, conn, losses,
                 life, accepted>>

\* An exception leaves on_message, and with it loop_forever and run: the process
\* ends, m has no PUBACK and stays in the session, and so does what else was not
\* acknowledged.  A lone surrogate raises in f.write, for UnicodeEncodeError is
\* no OSError - or, if it is in the _from, in the print about a dropped message.
Raise(m) ==
  /\ IsNext(m)
  /\ MustRaise(m) \/ m \in Unencodable
  /\ conn' = "down"
  /\ handled' = 0
  /\ seen' = EmptyCache
  /\ UNCHANGED <<clock, senderVars, keyring, subscribed, queue, losses, life,
                 inbox, history>>

-----------------------------------------------------------------------------
(* The process and its connection                                          *)

\* Has the present or last process left a line or thrown an entry out?
LeftTrace ==
  \/ \E i \in 1..Len(inbox) : inbox[i].life = life
  \/ \E k \in Msgs : <<life, k>> \in trimmed

\* run: refuses to start enforcing without crypto; a fresh process has an
\* empty cache.  open_subscriber's connect() failing ends it at once (Stop).
\* The number of a process that left no trace is used again.
Start ==
  /\ conn = "down"
  /\ ~(Enforce /\ ~CryptoAvailable)
  /\ \/ life' = life + 1 /\ (life = 0 \/ LeftTrace)
     \/ life' = life /\ life > 0 /\ ~LeftTrace
  /\ life' <= MaxLives
  /\ seen' = EmptyCache
  /\ conn' = "offline"
  /\ UNCHANGED <<clock, senderVars, keyring, subscribed, queue, handled,
                 losses, inbox, history>>

\* CONNACK: the broker resumes the session and redelivers what it holds.
Connect ==
  /\ conn = "offline"
  /\ conn' = "up"
  /\ UNCHANGED <<clock, senderVars, keyring, subscribed, queue, handled,
                 losses, processVars, inbox, history>>

\* _on_connect's SUBSCRIBE reaches the broker (idempotent once it has).
Subscribe ==
  /\ conn = "up"
  /\ ~subscribed
  /\ subscribed' = TRUE
  /\ UNCHANGED <<clock, senderVars, keyring, queue, handled, conn, losses,
                 processVars, inbox, history>>

\* The PUBACK of the oldest handled message reaches the broker.
Puback ==
  /\ conn = "up"
  /\ handled > 0
  /\ queue' = Tail(queue)
  /\ handled' = handled - 1
  /\ UNCHANGED <<clock, senderVars, keyring, subscribed, conn, losses,
                 processVars, inbox, history>>

\* The connection breaks; loop_forever will reconnect, same process.
ConnLost ==
  /\ conn = "up"
  /\ losses < MaxLosses
  /\ losses' = losses + 1
  /\ conn' = "offline"
  /\ handled' = 0
  /\ UNCHANGED <<clock, senderVars, keyring, subscribed, queue,
                 processVars, inbox, history>>

\* The process ends: killed, interrupted, or its first connect() failed.
Stop ==
  /\ conn # "down"
  /\ losses < MaxLosses
  /\ losses' = losses + 1
  /\ conn' = "down"
  /\ handled' = 0
  /\ seen' = EmptyCache
  /\ UNCHANGED <<clock, senderVars, keyring, subscribed, queue, life, inbox, history>>

-----------------------------------------------------------------------------
(* Senders, the key store and time                                         *)

\* The broker keeps a copy only for a session that has its subscription.
Enqueue(m) ==
  /\ queue' = IF subscribed THEN Append(queue, m) ELSE queue
  /\ accepted' = IF subscribed /\ m \notin Elements(accepted)
                 THEN Append(accepted, m) ELSE accepted

\* new_message signs _at off the sender's clock; publish_one delivers it.
Publish(m) ==
  /\ copies[m] = 0
  /\ \E skew \in Skews : at' = [at EXCEPT ![m] = clock + skew]
  /\ copies' = [copies EXCEPT ![m] = 1]
  /\ Enqueue(m)
  /\ UNCHANGED <<clock, keyring, subscribed, handled, conn, losses, processVars,
                 inbox, verdicts, trimmed>>

\* The publisher saw no PUBACK and its client sends the same packet again.
Republish(m) ==
  /\ copies[m] \in 1..(MaxCopies[m] - 1)
  /\ copies' = [copies EXCEPT ![m] = @ + 1]
  /\ Enqueue(m)
  /\ UNCHANGED <<clock, at, keyring, subscribed, handled, conn, losses, processVars,
                 inbox, verdicts, trimmed>>

\* keyring add / import pins or rotates a key while the listener runs.
Pin(s, k) ==
  /\ keyring[s] # k
  /\ keyring' = [keyring EXCEPT ![s] = k]
  /\ UNCHANGED <<clock, senderVars, sessionVars, processVars, inbox, history>>

\* The ring is lost or corrupt: load_keyring then reads an empty one.
LoseKeyring ==
  /\ keyring' = [s \in Senders |-> NoKey]
  /\ UNCHANGED <<clock, senderVars, sessionVars, processVars, inbox, history>>

Tick ==
  /\ clock < MaxClock
  /\ clock' = clock + 1
  /\ UNCHANGED <<senderVars, keyring, sessionVars, processVars, inbox, history>>

Environment ==
  \/ Stop \/ ConnLost \/ Tick \/ LoseKeyring
  \/ \E m \in Msgs : Publish(m) \/ Republish(m)
  \/ \E s \in Senders, k \in Keys : Pin(s, k)

System ==
  \/ Start \/ Connect \/ Subscribe \/ Puback
  \/ \E m \in Msgs : OnMessage(m) \/ Raise(m)

Next == System \/ Environment

\* loop_forever keeps reading: while the connection lasts, the next message is
\* handled.  Its PUBACK is sent before the next one is read, and arrives unless
\* the connection or the process ends just then: not each time, however often
\* it is sent.  Nothing obliges the operator to restart the listener, the
\* network to last, senders to send or time to pass.
Fairness == /\ WF_vars(\E m \in Msgs : OnMessage(m) \/ Raise(m))
            /\ SF_vars(Puback)

Spec == Init /\ [][Next]_vars
FairSpec == Spec /\ Fairness
-----------------------------------------------------------------------------
(* Properties                                                              *)

\* Dedup and freshness together (listen.py 106-131): within one process, and
\* unless the cap threw its nonce out, a message is written a second time
\* only a full dedup period later, and - freshness being on - only if its
\* sender's clock was ahead: the first copy came no later than the signed
\* _at, by at least the time the dedup period outlasts the freshness window.
IsLateRepeat(a, b) ==
  /\ b.time >= a.time + DedupMinTtl
  /\ b.time >= a.time + MaxAge
  /\ (MaxAge > 0 /\ a.msg \notin Undated)
     => /\ a.time <= at[a.msg]
        /\ a.time + DedupMinTtl <= at[a.msg] + MaxAge
SecondWriteOnlyFromAheadClock ==
  \A i, j \in 1..Len(inbox) :
    LET a == inbox[i]
        b == inbox[j]
    IN  (/\ i < j /\ a.msg = b.msg /\ a.life = b.life
         /\ a.msg \notin Nonceless /\ <<a.life, a.msg>> \notin trimmed)
        => IsLateRepeat(a, b)

\* The cap of the cache (listen.py 109-113, 120): it is applied before the
\* insertion, so the cache holds at most one entry more than SEEN_MAX.
CacheBounded == Cardinality(DOMAIN seen) <= SeenMax + 1

\* What the listener writes and prints, and what the session still holds, is
\* a durable mailbox: nothing the broker accepted for this agent leaves the
\* queue before on_message has written it or printed why not - through lost
\* connections, crashes between the append and the PUBACK, and redelivery.
Written == {inbox[i].msg : i \in 1..Len(inbox)}
Refused == {m \in Msgs : verdicts[m] \cap Refusals # {}}
Mailbox == INSTANCE DurableMailbox WITH pending <- Elements(queue),
                                        written <- Written, refused <- Refused
IsDurableMailbox == Mailbox!Spec

\* One message overtakes another in the inbox file only if the other was once
\* turned away: redelivery after a crash or a broken connection does not
\* reorder first writes.
Precedes(a, b) == \E i, j \in 1..Len(accepted) :
                    i < j /\ accepted[i] = a /\ accepted[j] = b
OvertakenOnlyIfRefused ==
  \A i \in 1..Len(inbox), a \in Msgs :
    Precedes(a, inbox[i].msg)
    => a \in Refused \/ \E j \in 1..(i - 1) : inbox[j].msg = a

\* What on_message raises on stays at the head of the session for good, for each
\* process that is handed it ends: nothing behind it gets through.
BehindPoison(m) ==
  \E i, j \in 1..Len(queue) :
    i <= j /\ queue[i] \in Unhashable \cup Unencodable /\ queue[j] = m

\* loop_forever drains the session: if the listener comes back whenever its process
\* or its connection has ended, what the broker holds for it in the end is nothing
\* but what on_message raises on - whichever processes that ends - and what came
\* after that.  (Senders publish a bounded number of copies.)
Drains ==
  []<>(conn = "up") => <>[](\A m \in Elements(queue) : BehindPoison(m))

\* listen.py 53-54: a nonce is always deduped for at least DEDUP_MIN_TTL_SEC,
\* so that copies delivered seconds apart never double-write.
NeverDoubleWrites ==
  \A i, j \in 1..Len(inbox) :
    i < j /\ inbox[i].msg = inbox[j].msg /\ inbox[i].msg \notin Nonceless
    => inbox[j].time >= inbox[i].time + DedupMinTtl
=============================================================================
