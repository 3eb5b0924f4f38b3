--------------------------- MODULE ListenerProofs ---------------------------
(***************************************************************************)
(* Theorems about Listener, for all messages, keys, windows and bounds:    *)
(* what it accepts, what it refuses, and when it writes a message once.    *)
(***************************************************************************)
EXTENDS Listener, FiniteSetTheorems, SequenceTheorems, TLAPS

Line == [msg : Msgs, time : 0..MaxClock, life : 1..MaxLives, status : Statuses]

\* TypeOK is not inductive alone: an inbox line carries a life in 1..MaxLives,
\* which on_message has only because a live process has been started.
TypeInv == /\ TypeOK
           /\ conn # "down" => life > 0

-----------------------------------------------------------------------------
(* What the operators of process_incoming return                           *)

LEMMA BoundsType ==
  /\ MaxClock \in Nat /\ MaxLives \in Nat /\ MaxLosses \in Nat
  /\ MaxCopies \in [Msgs -> Nat \ {0}] /\ Skews \subseteq Int
BY ListenerAssumption DEF ListenerAssumption

LEMMA ParameterTypes == MaxAge \in Nat /\ DedupMinTtl \in Nat /\ SeenMax \in Nat
BY ListenerAssumption DEF ListenerAssumption

LEMMA VerifyType ==
  ASSUME NEW m \in Msgs
  PROVE  Verify(m) \in Statuses
BY DEF Verify, Statuses

LEMMA TtlType == Ttl \in Nat /\ Ttl >= MaxAge /\ Ttl >= DedupMinTtl
BY ListenerAssumption DEF ListenerAssumption, Ttl

\* A line of time t, and a stamp a that is at most k ahead of it: if a period of d
\* from the one is over no later than one of g from the other, k makes up for it.
LEMMA SkewBound ==
  ASSUME NEW t \in Int, NEW a \in Int, NEW k \in Int, NEW d \in Int, NEW g \in Int,
         a <= t + k, t <= a, t + d <= a + g
  PROVE  k >= 0 /\ k + g >= d
OBVIOUS

\* If that line has left the cache by c, and the stamp is fresh at c, then the
\* stamp was ahead.
LEMMA FreshAfterExpiry ==
  ASSUME NEW t \in Int, NEW a \in Int, NEW c \in Int, t + Ttl <= c
  PROVE  /\ c >= t + DedupMinTtl /\ c >= t + MaxAge
         /\ c - a <= MaxAge => t <= a /\ t + DedupMinTtl <= a + MaxAge
BY TtlType, ParameterTypes

LEMMA SurvivorsSubset ==
  ASSUME NEW cache, NEW K \in Survivors(cache)
  PROVE  K \subseteq DOMAIN cache
BY DEF Survivors

LEMMA UnexpiredCache ==
  /\ DOMAIN Unexpired \subseteq DOMAIN seen
  /\ \A k \in DOMAIN seen : seen[k] > clock => k \in DOMAIN Unexpired
  /\ \A k \in DOMAIN Unexpired : seen[k] > clock
BY DEF Unexpired

LEMMA RecordedCache ==
  ASSUME NEW cache, NEW m
  PROVE  /\ DOMAIN Recorded(cache, m) \subseteq DOMAIN cache \cup {m}
         /\ m \notin Nonceless => /\ DOMAIN Recorded(cache, m) = DOMAIN cache \cup {m}
                                  /\ Recorded(cache, m)[m] = clock + Ttl
         /\ m \in Nonceless => Recorded(cache, m) = cache
         /\ \A k \in DOMAIN cache : k # m => Recorded(cache, m)[k] = cache[k]
BY DEF Recorded

LEMMA RestrictionCache ==
  ASSUME NEW cache, NEW K
  PROVE  /\ DOMAIN Restriction(cache, K) = K
         /\ \A k \in K : Restriction(cache, K)[k] = cache[k]
BY DEF Restriction

-----------------------------------------------------------------------------
(* Type correctness                                                        *)

LEMMA InitType == Init => TypeInv
<1> SUFFICES ASSUME Init PROVE TypeInv
  OBVIOUS
<1> USE DEF Init
<1>1. clock \in 0..MaxClock /\ copies \in [Msgs -> Nat]
      /\ \A m \in Msgs : copies[m] <= MaxCopies[m]
  BY BoundsType
<1>2. life \in 0..MaxLives /\ losses \in 0..MaxLosses
  BY BoundsType
<1>3. handled \in 0..Len(queue) /\ queue \in Seq(Msgs)
  BY EmptySeq
<1>4. DOMAIN seen \subseteq Msgs \ Nonceless /\ seen \in [DOMAIN seen -> Int]
  BY DEF EmptyCache
<1>5. inbox \in Seq(Line) /\ accepted \in Seq(Msgs)
  BY EmptySeq
<1>6. /\ at \in [Msgs -> Int] /\ keyring \in [Senders -> Keys \cup {NoKey}]
      /\ verdicts \in [Msgs -> SUBSET Reasons]
      /\ trimmed \subseteq (1..MaxLives) \X Msgs
  OBVIOUS
<1>7. subscribed \in BOOLEAN /\ conn \in {"down", "offline", "up"} /\ ~(conn # "down")
  OBVIOUS
<1> HIDE DEF Init
<1> QED BY <1>1, <1>2, <1>3, <1>4, <1>5, <1>6, <1>7 DEF TypeInv, TypeOK, Line

\* One handled message: the cache and the history keep their types, and at
\* most one line is appended.
LEMMA OnMessageType ==
  ASSUME TypeInv, NEW m \in Msgs, OnMessage(m)
  PROVE  TypeInv'
<1> USE DEF TypeInv, TypeOK
<1>1. handled' \in 0..Len(queue') /\ UNCHANGED queue
  BY DEF OnMessage, IsNext
<1>2. DOMAIN seen' \subseteq Msgs \ Nonceless /\ seen' \in [DOMAIN seen' -> Int]
  <2>1. CASE DropGarbled(m)
    BY <2>1 DEF DropGarbled
  <2>2. ASSUME NEW K \in Survivors(Unexpired)
        PROVE  LET c == Restriction(seen, K)
               IN  /\ DOMAIN c \subseteq Msgs \ Nonceless /\ c \in [DOMAIN c -> Int]
                   /\ DOMAIN Recorded(c, m) \subseteq Msgs \ Nonceless
                   /\ Recorded(c, m) \in [DOMAIN Recorded(c, m) -> Int]
    <3>1. K \subseteq DOMAIN seen
      BY SurvivorsSubset, UnexpiredCache
    <3>2. clock + Ttl \in Int
      BY TtlType
    <3> QED BY <3>1, <3>2 DEF Restriction, Recorded
  <2>3. QED BY <2>1, <2>2 DEF OnMessage, DropDuplicate, Decide
<1>3. inbox' \in Seq(Line)
  <2>1. inbox' = inbox \/ Write(m)
    BY DEF OnMessage, DropGarbled, DropDuplicate, Decide, Drop
  <2>2. ASSUME Write(m) PROVE inbox' \in Seq(Line)
    <3>1. life \in 1..MaxLives
      BY DEF OnMessage, IsNext
    <3>2. [msg |-> m, time |-> clock, life |-> life, status |-> Verify(m)] \in Line
      BY <3>1, VerifyType DEF Line
    <3> QED BY <2>2, <3>2 DEF Write, Line
  <2>3. QED BY <2>1, <2>2 DEF Line
<1>4. verdicts' \in [Msgs -> SUBSET Reasons]
  <2>1. verdicts' = verdicts \/ \E r \in Reasons : Drop(m, r)
    BY DEF OnMessage, DropGarbled, DropDuplicate, Decide, Write, Reasons
  <2>2. ASSUME NEW r \in Reasons, Drop(m, r) PROVE verdicts' \in [Msgs -> SUBSET Reasons]
    <3>1. verdicts' = [verdicts EXCEPT ![m] = @ \cup {r}]
      BY <2>2 DEF Drop
    <3>2. verdicts[m] \cup {r} \in SUBSET Reasons
      OBVIOUS
    <3> QED BY <3>1, <3>2
  <2> QED BY <2>1, <2>2
<1>5. trimmed' \subseteq (1..MaxLives) \X Msgs
  <2>1. life \in 1..MaxLives
    BY DEF OnMessage, IsNext
  <2>2. DOMAIN Unexpired \subseteq Msgs
    BY UnexpiredCache
  <2> QED BY <2>1, <2>2 DEF OnMessage, DropGarbled
<1> QED BY <1>1, <1>2, <1>3, <1>4, <1>5 DEF OnMessage, Line, senderVars

LEMMA NextType == TypeInv /\ [Next]_vars => TypeInv'
<1> SUFFICES ASSUME TypeInv, [Next]_vars PROVE TypeInv'
  OBVIOUS
<1> USE DEF TypeInv, TypeOK
<1> USE DEF senderVars, sessionVars, processVars, history
<1>1. CASE Start
  <2>1. life' \in 0..MaxLives /\ life' > 0
    <3>1. life' \in {life, life + 1} /\ life' > 0 /\ life' <= MaxLives
      BY <1>1, BoundsType DEF Start
    <3> QED BY <3>1, BoundsType
  <2>2. DOMAIN seen' \subseteq Msgs \ Nonceless /\ seen' \in [DOMAIN seen' -> Int]
    <3>1. seen' = EmptyCache
      BY <1>1 DEF Start
    <3> QED BY <3>1 DEF EmptyCache
  <2>3. /\ conn' = "offline"
        /\ UNCHANGED <<clock, at, copies, keyring, subscribed, queue, handled, losses,
                       inbox, verdicts, trimmed, accepted>>
    BY <1>1 DEF Start
  <2> QED BY <2>1, <2>2, <2>3
<1>2. CASE Connect
  BY <1>2 DEF Connect
<1>3. CASE Subscribe
  BY <1>3 DEF Subscribe
<1>4. CASE Puback
  <2>1. queue # <<>>
    BY <1>4 DEF Puback
  <2>2. queue' \in Seq(Msgs) /\ Len(queue') = Len(queue) - 1
    BY <1>4, <2>1, HeadTailProperties DEF Puback
  <2>3. handled' \in 0..Len(queue')
    BY <1>4, <2>2 DEF Puback
  <2> QED BY <1>4, <2>2, <2>3 DEF Puback
<1>5. CASE \E m \in Msgs : OnMessage(m)
  BY <1>5, OnMessageType
<1>6. CASE Stop \/ \E m \in Msgs : Raise(m)
  <2>1. losses' \in 0..MaxLosses
    BY <1>6, BoundsType DEF Stop, Raise
  <2>2. /\ conn' = "down" /\ handled' = 0 /\ seen' = EmptyCache
        /\ UNCHANGED <<clock, at, copies, keyring, subscribed, queue, life, inbox,
                       verdicts, trimmed, accepted>>
    BY <1>6 DEF Stop, Raise
  <2>3. DOMAIN seen' \subseteq Msgs \ Nonceless /\ seen' \in [DOMAIN seen' -> Int]
    BY <2>2 DEF EmptyCache
  <2>4. handled' \in 0..Len(queue')
    BY <2>2, LenProperties
  <2> QED BY <2>1, <2>2, <2>3, <2>4
<1>7. CASE ConnLost
  <2>1. losses' \in 0..MaxLosses
    BY <1>7, BoundsType DEF ConnLost
  <2> QED BY <1>7, <2>1 DEF ConnLost
<1>8. CASE Tick
  <2>1. clock' \in 0..MaxClock
    BY <1>8, BoundsType DEF Tick
  <2> QED BY <1>8, <2>1 DEF Tick
<1>9. CASE LoseKeyring
  BY <1>9 DEF LoseKeyring
<1>10. CASE \E m \in Msgs : Publish(m) \/ Republish(m)
  <2> PICK m \in Msgs : Publish(m) \/ Republish(m)
    BY <1>10
  <2>1. Enqueue(m)
    BY DEF Publish, Republish
  <2>2. /\ queue' \in Seq(Msgs) /\ Len(queue') >= Len(queue)
        /\ accepted' \in Seq(Msgs)
    BY <2>1, AppendProperties DEF Enqueue
  <2>3. at' \in [Msgs -> Int]
    BY BoundsType DEF Publish, Republish
  <2>4. copies' \in [Msgs -> Nat] /\ \A k \in Msgs : copies'[k] <= MaxCopies[k]
    <3>1. /\ copies \in [Msgs -> Nat] /\ \A k \in Msgs : copies[k] <= MaxCopies[k]
          /\ MaxCopies \in [Msgs -> Nat \ {0}]
      BY BoundsType
    <3>2. CASE Publish(m)
      BY <3>1, <3>2 DEF Publish
    <3>3. CASE Republish(m)
      BY <3>1, <3>3 DEF Republish
    <3> QED BY <3>2, <3>3
  <2>5. handled' \in 0..Len(queue')
    BY <2>2 DEF Publish, Republish
  <2> QED BY <2>2, <2>3, <2>4, <2>5 DEF Publish, Republish
<1>11. CASE \E s \in Senders, k \in Keys : Pin(s, k)
  BY <1>11 DEF Pin
<1>12. CASE UNCHANGED vars
  BY <1>12 DEF vars
<1> QED BY <1>1, <1>2, <1>3, <1>4, <1>5, <1>6, <1>7, <1>8, <1>9, <1>10, <1>11, <1>12
        DEF Next, System, Environment

LEMMA TypeInvariant == Spec => []TypeInv
<1>1. Init => TypeInv
  BY InitType
<1>2. TypeInv /\ [Next]_vars => TypeInv'
  BY NextType
<1> QED BY <1>1, <1>2, PTL DEF Spec

\* Every variable of the listener, its session and its senders keeps its type.
THEOREM TypeCorrect == Spec => []TypeOK
<1>1. TypeInv => TypeOK
  BY DEF TypeInv
<1> QED BY <1>1, TypeInvariant, PTL

-----------------------------------------------------------------------------
(* No early second write                                                   *)

\* What the running process still knows of a line it has written: the dedup
\* period is over, or the cap threw the nonce out, or the cache holds it.
Remembered(e) ==
  (conn # "down" /\ e.life = life /\ e.msg \notin Nonceless)
  => \/ e.time + Ttl <= clock
     \/ <<life, e.msg>> \in trimmed
     \/ e.msg \in DOMAIN seen /\ seen[e.msg] = e.time + Ttl

DedupInv ==
  /\ \A i \in 1..Len(queue) : copies[queue[i]] > 0
  /\ \A i \in 1..Len(inbox) : inbox[i].life <= life /\ copies[inbox[i].msg] > 0
  /\ \A i \in 1..Len(inbox) : Remembered(inbox[i])
  /\ SecondWriteOnlyFromAheadClock

\* Handling a message forgets a nonce only by expiry or by the cap.
LEMMA OnMessageForgets ==
  ASSUME TypeInv, NEW m \in Msgs, OnMessage(m), NEW k \in DOMAIN seen
  PROVE  \/ k \in DOMAIN seen' /\ seen'[k] = seen[k]
         \/ seen[k] <= clock
         \/ <<life, k>> \in trimmed'
<1>1. seen[k] > clock \/ seen[k] <= clock
  BY DEF TypeInv, TypeOK
<1>2. CASE DropGarbled(m)
  BY <1>2 DEF DropGarbled
<1>3. ASSUME NEW K \in Survivors(Unexpired), seen[k] > clock,
             trimmed' = trimmed \cup {<<life, x>> : x \in DOMAIN Unexpired \ K},
             DropDuplicate(m, Restriction(seen, K)) \/ Decide(m, Restriction(seen, K))
      PROVE  (k \in DOMAIN seen' /\ seen'[k] = seen[k]) \/ <<life, k>> \in trimmed'
  <2> DEFINE c == Restriction(seen, K)
  <2>1. k \in DOMAIN Unexpired
    BY <1>3, UnexpiredCache
  <2>2. CASE k \notin K
    BY <1>3, <2>1, <2>2
  <2>3. CASE k \in K
    <3>1. k \in DOMAIN c /\ c[k] = seen[k]
      BY <2>3, RestrictionCache
    <3>2. CASE DropDuplicate(m, c)
      BY <3>1, <3>2 DEF DropDuplicate
    <3>3. CASE Decide(m, c)
      <4>1. seen' = Recorded(c, m) /\ ~IsDuplicate(m, c)
        BY <3>3 DEF Decide
      <4>2. k # m \/ m \in Nonceless
        BY <3>1, <4>1 DEF IsDuplicate
      <4> QED BY <3>1, <4>1, <4>2 DEF Recorded
    <3> QED BY <1>3, <3>2, <3>3
  <2> QED BY <2>2, <2>3
<1> QED BY <1>1, <1>2, <1>3 DEF OnMessage

\* on_message writes at most one line, of a message that is not stale, whose
\* nonce was not remembered and now is.
LEMMA OnMessageWrites ==
  ASSUME TypeInv, NEW m \in Msgs, OnMessage(m), inbox' # inbox
  PROVE  /\ Write(m)
         /\ ~IsStale(m)
         /\ m \notin Nonceless =>
              /\ m \in DOMAIN seen' /\ seen'[m] = clock + Ttl
              /\ m \in DOMAIN seen => seen[m] <= clock \/ <<life, m>> \in trimmed'
<1>1. PICK K \in Survivors(Unexpired) :
        /\ trimmed' = trimmed \cup {<<life, x>> : x \in DOMAIN Unexpired \ K}
        /\ Decide(m, Restriction(seen, K))
  BY DEF OnMessage, DropGarbled, DropDuplicate, Drop
<1> DEFINE c == Restriction(seen, K)
<1>2. Write(m) /\ ~IsStale(m) /\ ~IsDuplicate(m, c) /\ seen' = Recorded(c, m)
  BY <1>1 DEF Decide, Drop
<1>3. ASSUME m \notin Nonceless
      PROVE  m \in DOMAIN seen' /\ seen'[m] = clock + Ttl
  BY <1>2, <1>3 DEF Recorded
<1>4. ASSUME m \notin Nonceless, m \in DOMAIN seen, ~(seen[m] <= clock)
      PROVE  <<life, m>> \in trimmed'
  <2>1. m \notin K
    BY <1>2, <1>4, RestrictionCache DEF IsDuplicate
  <2>2. seen[m] > clock
    BY <1>4 DEF TypeInv, TypeOK
  <2>3. m \in DOMAIN Unexpired
    BY <1>4, <2>2, UnexpiredCache
  <2> QED BY <1>1, <2>1, <2>3
<1> QED BY <1>2, <1>3, <1>4

LEMMA LineTypes ==
  ASSUME TypeInv, NEW i \in 1..Len(inbox)
  PROVE  /\ inbox[i] \in Line
         /\ inbox[i].msg \in Msgs /\ inbox[i].time \in Nat /\ inbox[i].life \in Nat
<1>1. inbox \in Seq(Line)
  BY DEF TypeInv, TypeOK, Line
<1>2. inbox[i] \in Line
  BY <1>1, ElementOfSeq
<1> QED BY <1>2, BoundsType DEF Line

LEMMA InitDedup == Init => DedupInv
BY DEF Init, DedupInv, SecondWriteOnlyFromAheadClock

\* A step that leaves the inbox, the cache, the senders' stamps and the life
\* of the process alone, and never turns the clock back.
LEMMA QuietDedup ==
  ASSUME TypeInv, DedupInv,
         UNCHANGED <<at, inbox, life, trimmed>>,
         clock' >= clock, clock' \in Nat,
         UNCHANGED seen \/ conn' = "down",
         conn' # "down" => conn # "down",
         \A m \in Msgs : copies[m] > 0 => copies'[m] > 0,
         \A i \in 1..Len(queue') : copies'[queue'[i]] > 0
  PROVE  DedupInv'
<1>1. \A i \in 1..Len(inbox') : inbox'[i].life <= life' /\ copies'[inbox'[i].msg] > 0
  BY LineTypes DEF DedupInv
<1>2. \A i \in 1..Len(inbox') : Remembered(inbox[i])'
  <2> SUFFICES ASSUME NEW i \in 1..Len(inbox) PROVE Remembered(inbox[i])'
    OBVIOUS
  <2>1. Remembered(inbox[i])
    BY DEF DedupInv
  <2>2. inbox[i].time + Ttl \in Int /\ clock \in Int
    <3>1. inbox[i].time \in Nat
      BY LineTypes
    <3>2. clock \in Int
      BY DEF TypeInv, TypeOK
    <3> QED BY <3>1, <3>2, TtlType
  <2>3. Ttl' = Ttl
    BY DEF Ttl
  <2> QED BY <2>1, <2>2, <2>3 DEF Remembered
<1>3. SecondWriteOnlyFromAheadClock'
  BY DEF DedupInv, SecondWriteOnlyFromAheadClock, IsLateRepeat
<1> QED BY <1>1, <1>2, <1>3 DEF DedupInv

\* The inbox after a message has been handled: as before, or one line longer.
LEMMA OnMessageInbox ==
  ASSUME TypeInv, NEW m \in Msgs, OnMessage(m)
  PROVE  \/ UNCHANGED inbox
         \/ /\ Len(inbox') = Len(inbox) + 1
            /\ \A i \in 1..Len(inbox) : inbox'[i] = inbox[i]
            /\ inbox'[Len(inbox')] = [msg |-> m, time |-> clock, life |-> life,
                                       status |-> Verify(m)]
            /\ inbox' # inbox /\ Write(m)
<1> SUFFICES ASSUME ~UNCHANGED inbox
             PROVE  /\ Len(inbox') = Len(inbox) + 1
                    /\ \A i \in 1..Len(inbox) : inbox'[i] = inbox[i]
                    /\ inbox'[Len(inbox')] = [msg |-> m, time |-> clock, life |-> life,
                                               status |-> Verify(m)]
                    /\ inbox' # inbox /\ Write(m)
  OBVIOUS
<1> DEFINE line == [msg |-> m, time |-> clock, life |-> life, status |-> Verify(m)]
<1>1. Write(m)
  BY OnMessageWrites
<1>2. inbox' = Append(inbox, line)
  BY <1>1 DEF Write
<1>3. inbox \in Seq(Line) /\ line \in Line
  <2>1. life \in 1..MaxLives /\ clock \in 0..MaxClock /\ inbox \in Seq(Line)
    BY DEF TypeInv, TypeOK, OnMessage, IsNext, Line
  <2> QED BY <2>1, VerifyType DEF Line
<1> HIDE DEF line
<1>4. /\ Len(inbox') = Len(inbox) + 1
      /\ \A i \in 1..Len(inbox) : inbox'[i] = inbox[i]
      /\ inbox'[Len(inbox) + 1] = line
  BY <1>2, <1>3, AppendProperties
<1> QED BY <1>1, <1>4 DEF line

LEMMA OnMessageDedup ==
  ASSUME TypeInv, DedupInv, NEW m \in Msgs, OnMessage(m)
  PROVE  DedupInv'
<1> DEFINE n == Len(inbox)
           new == [msg |-> m, time |-> clock, life |-> life, status |-> Verify(m)]
<1>1. /\ UNCHANGED <<clock, at, copies, queue, conn, life>>
      /\ conn = "up" /\ Ttl' = Ttl
      /\ copies[m] > 0
      /\ trimmed \subseteq trimmed'
  <2>1. handled + 1 \in 1..Len(queue)
    BY DEF OnMessage, IsNext, TypeInv, TypeOK
  <2>2. copies[m] > 0
    BY <2>1 DEF OnMessage, IsNext, DedupInv
  <2> QED BY <2>2 DEF OnMessage, IsNext, DropGarbled, Ttl, senderVars
<1>2. ASSUME NEW e, NEW i \in 1..n, e = inbox[i]
      PROVE  Remembered(e)'
  <2> SUFFICES ASSUME e.life = life, e.msg \notin Nonceless
               PROVE  \/ e.time + Ttl <= clock
                      \/ <<life, e.msg>> \in trimmed'
                      \/ e.msg \in DOMAIN seen' /\ seen'[e.msg] = e.time + Ttl
    BY <1>1 DEF Remembered
  <2>1. Remembered(e)
    BY <1>2 DEF DedupInv
  <2>2. CASE e.msg \in DOMAIN seen /\ seen[e.msg] = e.time + Ttl
    BY <2>2, OnMessageForgets
  <2> QED BY <1>1, <2>1, <2>2 DEF Remembered
<1>3. CASE UNCHANGED inbox
  <2>1. ASSUME NEW i \in 1..Len(inbox') PROVE Remembered(inbox[i])'
    <3> PICK e : e = inbox[i]
      OBVIOUS
    <3>1. Remembered(e)'
      BY <1>2, <1>3
    <3> QED BY <1>3, <3>1 DEF Remembered
  <2>2. SecondWriteOnlyFromAheadClock'
    BY <1>1, <1>3 DEF DedupInv, SecondWriteOnlyFromAheadClock, IsLateRepeat
  <2> QED BY <1>1, <1>3, <2>1, <2>2 DEF DedupInv
<1>4. CASE /\ Len(inbox') = n + 1
           /\ \A i \in 1..n : inbox'[i] = inbox[i]
           /\ inbox'[n + 1] = new
           /\ inbox' # inbox
  <2> n \in Nat
    BY LenProperties DEF TypeInv, TypeOK
  <2>1. /\ ~IsStale(m)
        /\ m \notin Nonceless =>
             /\ m \in DOMAIN seen' /\ seen'[m] = clock + Ttl
             /\ m \in DOMAIN seen => seen[m] <= clock \/ <<life, m>> \in trimmed'
    BY <1>4, OnMessageWrites
  <2>2. ASSUME NEW i \in 1..Len(inbox') PROVE Remembered(inbox[i])'
    <3>1. CASE i = n + 1
      BY <1>1, <1>4, <2>1, <3>1 DEF Remembered
    <3>2. CASE i \in 1..n
      <4> PICK e : e = inbox[i]
        OBVIOUS
      <4>1. Remembered(e)' /\ inbox'[i] = e
        BY <1>2, <1>4, <3>2
      <4> QED BY <4>1 DEF Remembered
    <3> QED BY <1>4, <3>1, <3>2
  <2>3. \A i \in 1..Len(inbox') : inbox'[i].life <= life' /\ copies'[inbox'[i].msg] > 0
    <3>1. life <= life
      BY DEF TypeInv, TypeOK
    <3> QED BY <1>1, <1>4, <3>1 DEF DedupInv
  <2>4. ASSUME NEW i \in 1..n,
               inbox[i].msg = m, inbox[i].life = life, m \notin Nonceless,
               <<life, m>> \notin trimmed'
        PROVE  IsLateRepeat(inbox[i], new)
    <3>1. inbox[i].time + Ttl <= clock
      <4>1. Remembered(inbox[i])
        BY DEF DedupInv
      <4> QED BY <1>1, <2>1, <2>4, <4>1 DEF Remembered
    <3>2. inbox[i].time \in Nat /\ at[m] \in Int /\ clock \in Int
      <4>1. inbox[i].time \in Nat
        BY LineTypes
      <4> QED BY <4>1 DEF TypeInv, TypeOK
    <3>3. MaxAge > 0 /\ m \notin Undated => clock - at[m] <= MaxAge
      <4>1. MaxAge > 0 /\ m \notin Undated => ~(clock - at[m] > MaxAge)
        BY <2>1 DEF IsStale
      <4>2. MaxAge \in Nat
        BY ParameterTypes
      <4> QED BY <3>2, <4>1, <4>2
    <3>4. /\ clock >= inbox[i].time + DedupMinTtl /\ clock >= inbox[i].time + MaxAge
          /\ clock - at[m] <= MaxAge
             => inbox[i].time <= at[m] /\ inbox[i].time + DedupMinTtl <= at[m] + MaxAge
      <4>1. inbox[i].time \in Int /\ at[m] \in Int /\ clock \in Int
        BY <3>2
      <4> QED BY <3>1, <4>1, FreshAfterExpiry
    <3> QED BY <2>4, <3>3, <3>4 DEF IsLateRepeat
  <2>5. SecondWriteOnlyFromAheadClock'
    <3> SUFFICES ASSUME NEW i \in 1..(n + 1), NEW j \in 1..(n + 1), i < j,
                        inbox'[i].msg = inbox'[j].msg, inbox'[i].life = inbox'[j].life,
                        inbox'[i].msg \notin Nonceless,
                        <<inbox'[i].life, inbox'[i].msg>> \notin trimmed'
                 PROVE  IsLateRepeat(inbox'[i], inbox'[j])
      BY <1>1, <1>4 DEF SecondWriteOnlyFromAheadClock, IsLateRepeat
    <3>1. i \in 1..n /\ inbox'[i] = inbox[i]
      BY <1>4
    <3>2. CASE j \in 1..n
      BY <1>1, <1>4, <3>1, <3>2 DEF DedupInv, SecondWriteOnlyFromAheadClock
    <3>3. CASE j = n + 1
      BY <1>4, <2>4, <3>1, <3>3
    <3> QED BY <3>2, <3>3
  <2> QED BY <1>1, <2>2, <2>3, <2>5 DEF DedupInv
<1> QED BY <1>3, <1>4, OnMessageInbox

LEMMA NextDedup == TypeInv /\ TypeInv' /\ DedupInv /\ [Next]_vars => DedupInv'
<1> SUFFICES ASSUME TypeInv, TypeInv', DedupInv, [Next]_vars PROVE DedupInv'
  OBVIOUS
<1> USE DEF senderVars, sessionVars, processVars, history
<1>1. clock \in Nat /\ clock' \in Nat /\ queue \in Seq(Msgs) /\ copies \in [Msgs -> Nat]
  BY BoundsType DEF TypeInv, TypeOK
<1>2. \A i \in 1..Len(queue) : copies[queue[i]] > 0
  BY DEF DedupInv
<1>3. CASE Start
  <2>1. conn = "down" /\ UNCHANGED <<at, copies, queue, inbox, trimmed>>
    BY <1>3 DEF Start
  <2>2. ASSUME NEW i \in 1..Len(inbox) PROVE inbox[i].life < life'
    <3>1. inbox[i].life \in Nat /\ inbox[i].life <= life
      BY LineTypes DEF DedupInv
    <3>2. life \in Nat
      BY DEF TypeInv, TypeOK
    <3>3. life' = life + 1 \/ (life' = life /\ inbox[i].life # life)
      BY <1>3 DEF Start, LeftTrace
    <3> QED BY <3>1, <3>2, <3>3
  <2>3. ASSUME NEW i \in 1..Len(inbox') PROVE Remembered(inbox[i])'
    <3>1. inbox'[i].life # life'
      BY <2>1, <2>2, LineTypes
    <3> QED BY <3>1 DEF Remembered
  <2>4. \A i \in 1..Len(inbox') : inbox'[i].life <= life' /\ copies'[inbox'[i].msg] > 0
    <3>1. life' \in Nat
      BY DEF TypeInv, TypeOK
    <3> QED BY <2>1, <2>2, <3>1, LineTypes DEF DedupInv
  <2>5. SecondWriteOnlyFromAheadClock'
    BY <2>1 DEF DedupInv, SecondWriteOnlyFromAheadClock, IsLateRepeat
  <2> QED BY <1>2, <2>1, <2>3, <2>4, <2>5 DEF DedupInv
<1>4. CASE Connect
  BY <1>1, <1>2, <1>4, QuietDedup DEF Connect
<1>5. CASE Subscribe
  BY <1>1, <1>2, <1>5, QuietDedup DEF Subscribe
<1>6. CASE Puback
  <2>1. \A i \in 1..Len(queue') : copies'[queue'[i]] > 0
    <3>1. queue # <<>>
      BY <1>6 DEF Puback, TypeInv, TypeOK
    <3>2. Len(queue') = Len(queue) - 1 /\ \A i \in 1..Len(queue') : queue'[i] = queue[i + 1]
      BY <1>1, <1>6, <3>1, HeadTailProperties DEF Puback
    <3> QED BY <1>1, <1>2, <1>6, <3>1, <3>2, EmptySeq DEF Puback
  <2> QED BY <1>1, <1>6, <2>1, QuietDedup DEF Puback
<1>7. CASE \E m \in Msgs : OnMessage(m)
  BY <1>7, OnMessageDedup
<1>8. CASE Stop \/ \E m \in Msgs : Raise(m)
  BY <1>1, <1>2, <1>8, QuietDedup DEF Stop, Raise
<1>9. CASE ConnLost
  BY <1>1, <1>2, <1>9, QuietDedup DEF ConnLost
<1>10. CASE Tick
  BY <1>1, <1>2, <1>10, QuietDedup DEF Tick
<1>11. CASE LoseKeyring
  BY <1>1, <1>2, <1>11, QuietDedup DEF LoseKeyring
<1>12. CASE \E s \in Senders, k \in Keys : Pin(s, k)
  BY <1>1, <1>2, <1>12, QuietDedup DEF Pin
<1>13. CASE \E m \in Msgs : Publish(m) \/ Republish(m)
  <2> PICK m \in Msgs : Publish(m) \/ Republish(m)
    BY <1>13
  <2>1. /\ UNCHANGED <<clock, inbox, life, trimmed, seen, conn>>
        /\ Enqueue(m)
        /\ copies' = [copies EXCEPT ![m] = @ + 1] /\ copies[m] >= 0
        /\ \A x \in Msgs : copies[x] > 0 => at'[x] = at[x]
    BY <1>1 DEF Publish, Republish, TypeInv, TypeOK
  <2>2. copies'[m] > 0 /\ \A x \in Msgs : copies[x] > 0 => copies'[x] > 0
    BY <1>1, <2>1
  <2>3. \A i \in 1..Len(queue') : copies'[queue'[i]] > 0
    <3>1. \A i \in 1..Len(queue) : queue[i] \in Msgs
      BY <1>1, ElementOfSeq
    <3> QED BY <1>1, <1>2, <2>1, <2>2, <3>1, AppendProperties DEF Enqueue
  <2>4. \A i \in 1..Len(inbox') : inbox'[i].life <= life' /\ copies'[inbox'[i].msg] > 0
    BY <2>1, <2>2, LineTypes DEF DedupInv
  <2>5. \A i \in 1..Len(inbox) : at'[inbox[i].msg] = at[inbox[i].msg]
    BY <2>1, LineTypes DEF DedupInv
  <2>6. ASSUME NEW i \in 1..Len(inbox') PROVE Remembered(inbox[i])'
    BY <2>1 DEF DedupInv, Remembered, Ttl
  <2>7. SecondWriteOnlyFromAheadClock'
    BY <2>1, <2>5 DEF DedupInv, SecondWriteOnlyFromAheadClock, IsLateRepeat
  <2> QED BY <2>3, <2>4, <2>6, <2>7 DEF DedupInv
<1>14. CASE UNCHANGED vars
  BY <1>1, <1>2, <1>14, QuietDedup DEF vars
<1> QED BY <1>3, <1>4, <1>5, <1>6, <1>7, <1>8, <1>9, <1>10, <1>11, <1>12, <1>13, <1>14
        DEF Next, System, Environment

LEMMA DedupAlways == Spec => []DedupInv
BY InitDedup, NextDedup, TypeInvariant, PTL DEF Spec

\* Within one life of the process, and unless the cap threw its nonce out, a
\* message is written again only a full dedup period later and - freshness
\* being on - only when its sender's clock ran ahead of the listener's.
THEOREM SecondWrites == Spec => []SecondWriteOnlyFromAheadClock
<1>1. DedupInv => SecondWriteOnlyFromAheadClock
  BY DEF DedupInv
<1> QED BY <1>1, DedupAlways, PTL

-----------------------------------------------------------------------------
(* When a message is written once                                          *)

\* listen.py 53-54: what the comment says (and listener_double_write refutes) holds as
\* long as only one process has left a trace and the cap threw out no nonce: these two
\* are all that stands between the code and its comment.
THEOREM OneLifeNeverDoubleWrites ==
  Spec /\ [](life <= 1 /\ trimmed = {}) => []NeverDoubleWrites
<1>1. TypeInv /\ DedupInv /\ life <= 1 /\ trimmed = {} => NeverDoubleWrites
  <2> SUFFICES ASSUME TypeInv, DedupInv, life <= 1, trimmed = {},
                      NEW i \in 1..Len(inbox), NEW j \in 1..Len(inbox),
                      i < j, inbox[i].msg = inbox[j].msg, inbox[i].msg \notin Nonceless
               PROVE  inbox[j].time >= inbox[i].time + DedupMinTtl
    BY DEF NeverDoubleWrites
  <2>1. inbox[i].life = 1 /\ inbox[j].life = 1
    <3>1. inbox[i] \in Line /\ inbox[j] \in Line
      BY LineTypes
    <3>2. inbox[i].life <= life /\ inbox[j].life <= life
      BY DEF DedupInv
    <3>3. life \in Nat
      BY BoundsType DEF TypeInv, TypeOK
    <3> QED BY <3>1, <3>2, <3>3, BoundsType DEF Line
  <2>2. IsLateRepeat(inbox[i], inbox[j])
    BY <2>1 DEF DedupInv, SecondWriteOnlyFromAheadClock
  <2> QED BY <2>2 DEF IsLateRepeat
<1> QED BY <1>1, DedupAlways, TypeInvariant, PTL

\* A sender's stamp is ahead of the clock at most as far as some sender's clock is.
StampInv ==
  /\ \A m \in Msgs : copies[m] > 0 => \E k \in Skews : at[m] <= clock + k
  /\ \A i \in 1..Len(inbox) : \E k \in Skews : at[inbox[i].msg] <= inbox[i].time + k

LEMMA StampStep == TypeInv /\ DedupInv /\ StampInv /\ [Next]_vars => StampInv'
<1> SUFFICES ASSUME TypeInv, DedupInv, StampInv, [Next]_vars PROVE StampInv'
  OBVIOUS
<1> USE DEF senderVars, sessionVars, processVars, history
<1>0. /\ clock \in Nat /\ at \in [Msgs -> Int] /\ copies \in [Msgs -> Nat] /\ Skews \subseteq Int
      /\ \A i \in 1..Len(inbox) : inbox[i].msg \in Msgs /\ copies[inbox[i].msg] > 0
  <2>1. \A i \in 1..Len(inbox) : inbox[i].msg \in Msgs
    BY LineTypes
  <2>2. clock \in Nat /\ at \in [Msgs -> Int] /\ copies \in [Msgs -> Nat]
    BY BoundsType DEF TypeInv, TypeOK
  <2> QED BY <2>1, <2>2, BoundsType DEF DedupInv
<1>1. ASSUME NEW m \in Msgs, OnMessage(m) PROVE StampInv'
  <2>1. UNCHANGED <<at, copies, clock>> /\ copies[m] > 0
    <3>1. handled < Len(queue) /\ queue[handled + 1] = m
      BY <1>1 DEF OnMessage, IsNext
    <3>2. handled \in Nat /\ Len(queue) \in Nat
      BY LenProperties DEF TypeInv, TypeOK
    <3>3. handled + 1 \in 1..Len(queue)
      BY <3>1, <3>2
    <3> QED BY <1>1, <3>1, <3>3 DEF OnMessage, DedupInv
  <2>2. PICK k \in Skews : at[m] <= clock + k
    BY <2>1 DEF StampInv
  <2>3. CASE UNCHANGED inbox
    BY <2>1, <2>3 DEF StampInv
  <2>4. CASE /\ Len(inbox') = Len(inbox) + 1
             /\ \A i \in 1..Len(inbox) : inbox'[i] = inbox[i]
             /\ inbox'[Len(inbox')] = [msg |-> m, time |-> clock, life |-> life,
                                       status |-> Verify(m)]
    <3>1. Len(inbox) \in Nat
      BY LenProperties DEF TypeInv, TypeOK
    <3>2. \A i \in 1..Len(inbox') : i \in 1..Len(inbox) \/ i = Len(inbox')
      BY <2>4, <3>1
    <3>3. at[inbox'[Len(inbox')].msg] <= inbox'[Len(inbox')].time + k
      BY <2>2, <2>4
    <3> QED BY <2>1, <2>4, <3>2, <3>3 DEF StampInv
  <2> QED BY <1>1, <2>3, <2>4, OnMessageInbox
<1>2. ASSUME NEW m \in Msgs, Publish(m) PROVE StampInv'
  <2>1. PICK k \in Skews : at' = [at EXCEPT ![m] = clock + k]
    BY <1>2 DEF Publish
  <2>2. /\ UNCHANGED <<clock, inbox>> /\ copies[m] = 0 /\ copies' = [copies EXCEPT ![m] = 1]
        /\ at'[m] <= clock + k /\ \A n \in Msgs \ {m} : at'[n] = at[n] /\ copies'[n] = copies[n]
    BY <1>0, <1>2, <2>1 DEF Publish
  <2>3. \A i \in 1..Len(inbox) : inbox[i].msg \in Msgs \ {m}
    BY <1>0, <2>2
  <2> QED BY <2>2, <2>3 DEF StampInv
<1>3. ASSUME NEW m \in Msgs, Republish(m) PROVE StampInv'
  <2>1. /\ UNCHANGED <<clock, inbox, at>> /\ copies[m] > 0
        /\ \A n \in Msgs : copies'[n] > 0 => copies[n] > 0
    BY <1>0, <1>3 DEF Republish
  <2> QED BY <2>1 DEF StampInv
<1>4. CASE Tick
  <2>1. UNCHANGED <<copies, inbox, at>> /\ clock' = clock + 1
    BY <1>4 DEF Tick
  <2>2. \A m \in Msgs, k \in Skews : at[m] <= clock + k => at[m] <= clock' + k
    BY <1>0, <2>1
  <2> QED BY <2>1, <2>2 DEF StampInv
<1>5. CASE UNCHANGED <<clock, copies, inbox, at>>
  BY <1>5 DEF StampInv
<1> QED BY <1>1, <1>2, <1>3, <1>4, <1>5
        DEF Next, System, Environment, Raise, Start, Connect, Subscribe, Puback, ConnLost, Stop,
            Pin, LoseKeyring, vars

\* listen.py 106-131: with freshness on, and each sender's clock behind, or ahead by less
\* than what the dedup period outlasts the freshness window, a dated message is written
\* once by one process: whatever is redelivered or sent again, as long as the cap does
\* not throw its nonce out.
ClocksArePunctual == \A k \in Skews : k < 0 \/ k + MaxAge < DedupMinTtl
WritesOnce ==
  \A i, j \in 1..Len(inbox) :
    /\ i < j /\ inbox[i].msg = inbox[j].msg /\ inbox[i].life = inbox[j].life
    /\ inbox[i].msg \notin Nonceless \cup Undated
    => <<inbox[i].life, inbox[i].msg>> \in trimmed

THEOREM PunctualWritesOnce == MaxAge > 0 /\ ClocksArePunctual /\ Spec => []WritesOnce
<1> SUFFICES ASSUME MaxAge > 0, ClocksArePunctual PROVE Spec => []WritesOnce
  OBVIOUS
<1>1. Init => StampInv
  BY DEF Init, StampInv
<1>2. TypeInv /\ DedupInv /\ StampInv => WritesOnce
  <2> SUFFICES ASSUME TypeInv, DedupInv, StampInv,
                      NEW i \in 1..Len(inbox), NEW j \in 1..Len(inbox), i < j,
                      inbox[i].msg = inbox[j].msg, inbox[i].life = inbox[j].life,
                      inbox[i].msg \notin Nonceless \cup Undated,
                      <<inbox[i].life, inbox[i].msg>> \notin trimmed
               PROVE  FALSE
    BY DEF WritesOnce
  <2>1. IsLateRepeat(inbox[i], inbox[j])
    BY DEF DedupInv, SecondWriteOnlyFromAheadClock
  <2>2. PICK k \in Skews : at[inbox[i].msg] <= inbox[i].time + k
    BY DEF StampInv
  <2>3. /\ inbox[i].time \in Nat /\ at[inbox[i].msg] \in Int /\ k \in Int
        /\ DedupMinTtl \in Nat /\ MaxAge \in Nat
    BY LineTypes, BoundsType, ParameterTypes DEF TypeInv, TypeOK
  <2>4. /\ inbox[i].time <= at[inbox[i].msg]
        /\ inbox[i].time + DedupMinTtl <= at[inbox[i].msg] + MaxAge
    BY <2>1 DEF IsLateRepeat
  <2>5. k >= 0 /\ k + MaxAge >= DedupMinTtl
    BY <2>2, <2>3, <2>4, SkewBound
  <2>6. k < 0 \/ k + MaxAge < DedupMinTtl
    BY DEF ClocksArePunctual
  <2> QED BY <2>3, <2>5, <2>6
<1> QED BY <1>1, <1>2, StampStep, DedupAlways, TypeInvariant, PTL DEF Spec

-----------------------------------------------------------------------------
(* The cap of the cache                                                    *)

CacheInv == IsFiniteSet(DOMAIN seen) /\ CacheBounded

\* A cache capped from a finite one holds SEEN_MAX entries at most, and one
\* more once the message being handled is recorded.
LEMMA CappedCache ==
  ASSUME IsFiniteSet(DOMAIN seen), NEW K \in Survivors(Unexpired), NEW m
  PROVE  LET c == Restriction(seen, K)
         IN  /\ IsFiniteSet(DOMAIN c) /\ Cardinality(DOMAIN c) <= SeenMax + 1
             /\ IsFiniteSet(DOMAIN Recorded(c, m))
             /\ Cardinality(DOMAIN Recorded(c, m)) <= SeenMax + 1
<1> DEFINE c == Restriction(seen, K)
<1>1. DOMAIN c = K
  BY RestrictionCache
<1>2. IsFiniteSet(DOMAIN Unexpired)
  BY UnexpiredCache, FS_Subset
<1>3. K \subseteq DOMAIN Unexpired
  BY SurvivorsSubset
<1>4. IsFiniteSet(K)
  BY <1>2, <1>3, FS_Subset
<1>5. Cardinality(K) <= SeenMax /\ Cardinality(K) \in Nat
  <2>1. Cardinality(K) \in Nat
    BY <1>4, FS_CardinalityType
  <2>2. Cardinality(K) <= SeenMax
    BY <2>1, ParameterTypes DEF Survivors
  <2> QED BY <2>1, <2>2
<1>6. DOMAIN Recorded(c, m) = K \/ DOMAIN Recorded(c, m) = K \cup {m}
  BY <1>1 DEF Recorded
<1>7. IsFiniteSet(K \cup {m}) /\ Cardinality(K \cup {m}) <= SeenMax + 1
  <2>1. /\ IsFiniteSet(K \cup {m})
        /\ \/ Cardinality(K \cup {m}) = Cardinality(K)
           \/ Cardinality(K \cup {m}) = Cardinality(K) + 1
    BY <1>4, FS_AddElement
  <2> QED BY <1>5, <2>1, ParameterTypes
<1> QED BY <1>1, <1>4, <1>5, <1>6, <1>7, ParameterTypes

\* However many distinct nonces arrive, and whatever is decided about them,
\* the cache holds at most SEEN_MAX + 1 of them.
THEOREM CacheCapped == Spec => []CacheBounded
<1>1. Init => CacheInv
  <2> SUFFICES ASSUME Init PROVE CacheInv
    OBVIOUS
  <2>1. DOMAIN seen = {}
    BY DEF Init, EmptyCache
  <2> QED BY <2>1, FS_EmptySet, ParameterTypes DEF CacheInv, CacheBounded
<1>2. CacheInv /\ [Next]_vars => CacheInv'
  <2> SUFFICES ASSUME CacheInv, [Next]_vars PROVE CacheInv'
    OBVIOUS
  <2>1. CASE seen' = EmptyCache
    <3>1. DOMAIN seen' = {}
      BY <2>1 DEF EmptyCache
    <3> QED BY <3>1, FS_EmptySet, ParameterTypes DEF CacheInv, CacheBounded
  <2>2. CASE UNCHANGED seen
    BY <2>2 DEF CacheInv, CacheBounded
  <2>3. CASE \E m \in Msgs : OnMessage(m)
    <3> PICK m \in Msgs : OnMessage(m)
      BY <2>3
    <3>1. CASE UNCHANGED seen
      BY <3>1 DEF CacheInv, CacheBounded
    <3>2. CASE \E K \in Survivors(Unexpired) :
                  LET c == Restriction(seen, K) IN seen' = c \/ seen' = Recorded(c, m)
      BY <3>2, CappedCache DEF CacheInv, CacheBounded
    <3> QED BY <3>1, <3>2 DEF OnMessage, DropGarbled, DropDuplicate, Decide
  <2>4. seen' = EmptyCache \/ UNCHANGED seen \/ \E m \in Msgs : OnMessage(m)
    BY DEF Next, System, Environment, Raise, Start, Connect, Subscribe, Puback, Stop, ConnLost,
           Tick, LoseKeyring, Pin, Publish, Republish, vars, processVars
  <2> QED BY <2>1, <2>2, <2>3, <2>4
<1>3. CacheInv => CacheBounded
  BY DEF CacheInv
<1> QED BY <1>1, <1>2, <1>3, PTL DEF Spec
=============================================================================
