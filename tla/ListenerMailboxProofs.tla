----------------------- MODULE ListenerMailboxProofs ------------------------
(***************************************************************************)
(* The listener and its session implement DurableMailbox, write messages   *)
(* in the order in which the broker accepted them, and lose none.          *)
(***************************************************************************)
EXTENDS ListenerProofs

Accounted == Written \cup Refused

\* What makes an acknowledgement and a dropped duplicate safe: on_message has
\* written or refused every message it has returned from, and every message
\* whose nonce it remembers.
AccountInv == /\ \A i \in 1..handled : queue[i] \in Accounted
              /\ DOMAIN seen \subseteq Accounted

LEMMA WrittenType == ASSUME TypeInv PROVE Written \subseteq Msgs /\ Refused \subseteq Msgs
BY LineTypes DEF Written, Refused

\* Handling m changes nothing but m's own account, and settles it.
LEMMA OnMessageAccount ==
  ASSUME TypeInv, AccountInv, NEW m \in Msgs, OnMessage(m)
  PROVE  /\ \/ Written' = Written /\ Refused' = Refused
            \/ Written' = Written \cup {m} /\ Refused' = Refused
            \/ Written' = Written /\ Refused' = Refused \cup {m}
         /\ m \in Accounted'
         /\ DOMAIN seen' \subseteq DOMAIN seen \cup {m}
<1>1. DOMAIN seen' \subseteq DOMAIN seen \cup {m}
  <2>1. ASSUME NEW K \in Survivors(Unexpired)
        PROVE  /\ DOMAIN Restriction(seen, K) \subseteq DOMAIN seen
               /\ DOMAIN Recorded(Restriction(seen, K), m) \subseteq DOMAIN seen \cup {m}
    <3>1. K \subseteq DOMAIN seen
      BY SurvivorsSubset, UnexpiredCache
    <3>2. DOMAIN Restriction(seen, K) = K
      BY RestrictionCache
    <3>3. DOMAIN Recorded(Restriction(seen, K), m) \subseteq K \cup {m}
      BY <3>2, RecordedCache
    <3> QED BY <3>1, <3>2, <3>3
  <2> QED BY <2>1 DEF OnMessage, DropGarbled, DropDuplicate, Decide
<1>2. ASSUME NEW r \in Refusals, Drop(m, r)
      PROVE  Written' = Written /\ Refused' = Refused \cup {m}
  <2>1. inbox' = inbox /\ verdicts' = [verdicts EXCEPT ![m] = @ \cup {r}]
    BY <1>2 DEF Drop
  <2>2. verdicts \in [Msgs -> SUBSET Reasons]
    BY DEF TypeInv, TypeOK
  <2>3. Refused' = Refused \cup {m}
    BY <1>2, <2>1, <2>2 DEF Refused
  <2> QED BY <2>1, <2>3 DEF Written
<1>3. ASSUME Drop(m, "duplicate")
      PROVE  Written' = Written /\ Refused' = Refused
  <2>1. inbox' = inbox /\ verdicts' = [verdicts EXCEPT ![m] = @ \cup {"duplicate"}]
    BY <1>3 DEF Drop
  <2>2. verdicts \in [Msgs -> SUBSET Reasons] /\ "duplicate" \notin Refusals
    BY DEF TypeInv, TypeOK, Refusals
  <2> QED BY <2>1, <2>2 DEF Refused, Written
<1>4. ASSUME Write(m), inbox' # inbox
      PROVE  Written' = Written \cup {m} /\ Refused' = Refused
  <2>1. Len(inbox) \in Nat
    BY LenProperties DEF TypeInv, TypeOK
  <2>2. Written' = Written \cup {m}
    <3>1. /\ Len(inbox') = Len(inbox) + 1
          /\ \A i \in 1..Len(inbox) : inbox'[i] = inbox[i]
          /\ inbox'[Len(inbox')].msg = m
      <4>1. /\ Len(inbox') = Len(inbox) + 1
            /\ \A i \in 1..Len(inbox) : inbox'[i] = inbox[i]
            /\ inbox'[Len(inbox')] = [msg |-> m, time |-> clock, life |-> life,
                                       status |-> Verify(m)]
        BY <1>4, OnMessageInbox
      <4> QED BY <4>1
    <3>2. \A i \in 1..Len(inbox') : i \in 1..Len(inbox) \/ i = Len(inbox')
      BY <2>1, <3>1
    <3>3. \A i \in 1..Len(inbox) : i \in 1..Len(inbox')
      BY <2>1, <3>1
    <3>4. Len(inbox') \in 1..Len(inbox')
      BY <2>1, <3>1
    <3> QED BY <3>1, <3>2, <3>3, <3>4 DEF Written
  <2> QED BY <1>4, <2>2 DEF Write, Refused
<1>5. CASE DropGarbled(m)
  BY <1>1, <1>2, <1>5 DEF DropGarbled, Refusals, Reasons, Accounted
<1>6. CASE \E K \in Survivors(Unexpired) : DropDuplicate(m, Restriction(seen, K))
  <2> PICK K \in Survivors(Unexpired) : DropDuplicate(m, Restriction(seen, K))
    BY <1>6
  <2>1. m \in DOMAIN seen
    BY SurvivorsSubset, UnexpiredCache, RestrictionCache DEF DropDuplicate, IsDuplicate
  <2>2. Written' = Written /\ Refused' = Refused
    BY <1>3 DEF DropDuplicate
  <2> QED BY <1>1, <2>1, <2>2 DEF AccountInv, Accounted
<1>7. CASE \E K \in Survivors(Unexpired) : Decide(m, Restriction(seen, K))
  <2>1. (\E r \in Refusals : Drop(m, r)) \/ Write(m)
    BY <1>7 DEF Decide, Refusals, Reasons
  <2>2. ASSUME Write(m) PROVE inbox' # inbox
    <3>1. inbox' = Append(inbox, [msg |-> m, time |-> clock, life |-> life,
                                  status |-> Verify(m)])
      BY <2>2 DEF Write
    <3>2. inbox \in Seq(Line) /\ [msg |-> m, time |-> clock, life |-> life,
                                  status |-> Verify(m)] \in Line
      <4>1. life \in 1..MaxLives /\ clock \in 0..MaxClock /\ inbox \in Seq(Line)
        BY DEF TypeInv, TypeOK, OnMessage, IsNext, Line
      <4> QED BY <4>1, VerifyType DEF Line
    <3> QED BY <3>1, <3>2, AppendProperties, LenProperties
  <2> QED BY <1>1, <1>2, <1>4, <2>1, <2>2 DEF Accounted
<1> QED BY <1>5, <1>6, <1>7 DEF OnMessage

-----------------------------------------------------------------------------
(* Every step accounts for what it takes from the queue                    *)

LEMMA NextAccount == TypeInv /\ AccountInv /\ [Next]_vars => AccountInv'
<1> SUFFICES ASSUME TypeInv, AccountInv, [Next]_vars PROVE AccountInv'
  OBVIOUS
<1> USE DEF senderVars, sessionVars, processVars, history
<1>1. CASE \E m \in Msgs : OnMessage(m)
  <2> PICK m \in Msgs : OnMessage(m)
    BY <1>1
  <2>1. handled' = handled + 1 /\ queue' = queue /\ queue[handled + 1] = m
    BY DEF OnMessage, IsNext
  <2>2. Accounted \subseteq Accounted' /\ m \in Accounted'
    BY OnMessageAccount DEF Accounted
  <2>3. handled \in Nat
    BY DEF TypeInv, TypeOK
  <2>4. \A i \in 1..handled' : i \in 1..handled \/ i = handled + 1
    BY <2>1, <2>3
  <2> QED BY <2>1, <2>2, <2>4, OnMessageAccount DEF AccountInv
<1>2. CASE Puback
  <2>1. queue # <<>> /\ queue \in Seq(Msgs) /\ handled \in 0..Len(queue)
    BY <1>2 DEF Puback, TypeInv, TypeOK
  <2>2. handled' = handled - 1 /\ \A i \in 1..handled' : queue'[i] = queue[i + 1]
    BY <1>2, <2>1, HeadTailProperties DEF Puback
  <2>3. \A i \in 1..handled' : i + 1 \in 1..handled
    BY <2>1, <2>2
  <2>4. UNCHANGED <<seen, inbox, verdicts>>
    BY <1>2 DEF Puback
  <2> QED BY <2>2, <2>3, <2>4 DEF AccountInv, Accounted, Written, Refused
<1>3. CASE \E m \in Msgs : Publish(m) \/ Republish(m)
  <2> PICK m \in Msgs : Publish(m) \/ Republish(m)
    BY <1>3
  <2>1. Enqueue(m) /\ UNCHANGED <<handled, seen, inbox, verdicts>>
    BY DEF Publish, Republish
  <2>2. queue \in Seq(Msgs) /\ handled \in 0..Len(queue)
    BY DEF TypeInv, TypeOK
  <2>3. \A i \in 1..handled : queue'[i] = queue[i]
    BY <2>1, <2>2, AppendProperties DEF Enqueue
  <2> QED BY <2>1, <2>3 DEF AccountInv, Accounted, Written, Refused
<1>4. CASE Stop \/ ConnLost \/ \E m \in Msgs : Raise(m)
  <2>1. handled' = 0 /\ DOMAIN seen' \subseteq DOMAIN seen /\ UNCHANGED <<inbox, verdicts>>
    BY <1>4 DEF Stop, ConnLost, Raise, EmptyCache
  <2> QED BY <2>1 DEF AccountInv, Accounted, Written, Refused
<1>5. CASE Start
  <2>1. DOMAIN seen' = {} /\ UNCHANGED <<queue, handled, inbox, verdicts>>
    BY <1>5 DEF Start, EmptyCache
  <2> QED BY <2>1 DEF AccountInv, Accounted, Written, Refused
<1>6. CASE \/ Connect \/ Subscribe \/ Tick \/ LoseKeyring \/ UNCHANGED vars
           \/ \E s \in Senders, k \in Keys : Pin(s, k)
  <2>1. UNCHANGED <<queue, handled, seen, inbox, verdicts>>
    BY <1>6 DEF Connect, Subscribe, Tick, LoseKeyring, Pin, vars
  <2> QED BY <2>1 DEF AccountInv, Accounted, Written, Refused
<1> QED BY <1>1, <1>2, <1>3, <1>4, <1>5, <1>6 DEF Next, System, Environment

LEMMA Accounts == Spec => []AccountInv
<1>1. Init => AccountInv
  BY DEF Init, AccountInv, EmptyCache
<1>2. TypeInv /\ AccountInv /\ [Next]_vars => AccountInv'
  BY NextAccount
<1> QED BY <1>1, <1>2, TypeInvariant, PTL DEF Spec

-----------------------------------------------------------------------------
(* Refinement                                                              *)

LEMMA TailElements ==
  ASSUME NEW s \in Seq(Msgs), s # <<>>
  PROVE  /\ s[1] \in Elements(s)
         /\ Elements(Tail(s)) = Elements(s) \/ Elements(Tail(s)) = Elements(s) \ {s[1]}
<1>1. /\ Len(s) \in Nat \ {0} /\ Len(Tail(s)) = Len(s) - 1
      /\ \A i \in 1..Len(Tail(s)) : Tail(s)[i] = s[i + 1]
  BY EmptySeq, HeadTailProperties
<1>2. Elements(Tail(s)) = {s[i] : i \in 2..Len(s)}
  <2>1. \A i \in 1..Len(Tail(s)) : i + 1 \in 2..Len(s)
    BY <1>1
  <2>2. \A i \in 2..Len(s) : i - 1 \in 1..Len(Tail(s)) /\ Tail(s)[i - 1] = s[i]
    BY <1>1
  <2> QED BY <1>1, <2>1, <2>2 DEF Elements
<1>3. \A i \in 1..Len(s) : i = 1 \/ i \in 2..Len(s)
  BY <1>1
<1>4. 1 \in 1..Len(s) /\ \A i \in 2..Len(s) : i \in 1..Len(s)
  BY <1>1
<1> QED BY <1>2, <1>3, <1>4 DEF Elements

LEMMA AppendElements ==
  ASSUME NEW s \in Seq(Msgs), NEW m \in Msgs
  PROVE  Elements(Append(s, m)) = Elements(s) \cup {m}
<1>1. /\ Len(s) \in Nat /\ Len(Append(s, m)) = Len(s) + 1
      /\ \A i \in 1..Len(s) : Append(s, m)[i] = s[i]
      /\ Append(s, m)[Len(s) + 1] = m
  BY AppendProperties, LenProperties
<1>2. \A i : i \in 1..(Len(s) + 1) <=> i \in 1..Len(s) \/ i = Len(s) + 1
  BY <1>1
<1> QED BY <1>1, <1>2 DEF Elements

\* The listener, its session and its inbox implement the durable mailbox:
\* a step of theirs is one of its steps or none.
THEOREM ListenerIsDurable == Spec => IsDurableMailbox
<1>1. Init => Mailbox!Init
  BY DEF Init, Mailbox!Init, Elements, Written, Refused
<1>2. TypeInv /\ AccountInv /\ [Next]_vars => [Mailbox!Next]_Mailbox!mailbox
  <2> SUFFICES ASSUME TypeInv, AccountInv, [Next]_vars
               PROVE  [Mailbox!Next]_Mailbox!mailbox
    OBVIOUS
  <2> USE DEF senderVars, sessionVars, processVars, history
  <2>1. CASE \E m \in Msgs : OnMessage(m)
    <3> PICK m \in Msgs : OnMessage(m)
      BY <2>1
    <3>1. queue' = queue /\ m \in Elements(queue)
      <4>1. handled \in 0..Len(queue) /\ Len(queue) \in Nat
        BY LenProperties DEF TypeInv, TypeOK
      <4>2. handled + 1 \in 1..Len(queue)
        BY <4>1 DEF OnMessage, IsNext
      <4> QED BY <4>2 DEF OnMessage, IsNext, Elements
    <3> QED BY <3>1, OnMessageAccount
            DEF Mailbox!Next, Mailbox!Write, Mailbox!Refuse, Mailbox!mailbox
  <2>2. CASE Puback
    <3>1. queue # <<>> /\ queue \in Seq(Msgs) /\ 1 \in 1..handled /\ queue[1] \in Msgs
      BY <2>2, ElementOfSeq DEF Puback, TypeInv, TypeOK
    <3>2. queue' = Tail(queue) /\ UNCHANGED <<inbox, verdicts>>
      BY <2>2 DEF Puback
    <3>3. queue[1] \in Written \cup Refused
      BY <3>1 DEF AccountInv, Accounted
    <3>4. UNCHANGED <<Written, Refused>>
      BY <3>2 DEF Written, Refused
    <3> QED BY <3>1, <3>2, <3>3, <3>4, TailElements
            DEF Mailbox!Next, Mailbox!Settle, Mailbox!mailbox
  <2>3. CASE \E m \in Msgs : Publish(m) \/ Republish(m)
    <3> PICK m \in Msgs : Publish(m) \/ Republish(m)
      BY <2>3
    <3>1. Enqueue(m) /\ UNCHANGED <<inbox, verdicts>>
      BY DEF Publish, Republish
    <3>2. Elements(queue') = Elements(queue) \/ Elements(queue') = Elements(queue) \cup {m}
      BY <3>1, AppendElements DEF Enqueue, TypeInv, TypeOK
    <3>3. UNCHANGED <<Written, Refused>>
      BY <3>1 DEF Written, Refused
    <3> QED BY <3>2, <3>3 DEF Mailbox!Next, Mailbox!Accept, Mailbox!mailbox
  <2>4. CASE \/ Start \/ Stop \/ ConnLost \/ Connect \/ Subscribe \/ Tick \/ LoseKeyring
             \/ UNCHANGED vars \/ \E s \in Senders, k \in Keys : Pin(s, k)
             \/ \E m \in Msgs : Raise(m)
    <3>1. UNCHANGED <<queue, inbox, verdicts>>
      BY <2>4 DEF Raise, Start, Stop, ConnLost, Connect, Subscribe, Tick, LoseKeyring, Pin, vars
    <3> QED BY <3>1 DEF Mailbox!mailbox, Elements, Written, Refused
  <2> QED BY <2>1, <2>2, <2>3, <2>4 DEF Next, System, Environment
<1> QED BY <1>1, <1>2, TypeInvariant, Accounts, PTL
        DEF Spec, IsDurableMailbox, Mailbox!Spec

-----------------------------------------------------------------------------
(* The inbox keeps the order of acceptance                                 *)

\* Why a message is not overtaken: whatever was accepted before a message that
\* is still in the queue is accounted for, or stands before it in the queue.
OrderInv ==
  /\ Written \subseteq Elements(accepted)
  /\ Elements(queue) \subseteq Elements(accepted)
  /\ Elements(accepted) \subseteq Accounted \cup Elements(queue)
  /\ \A i \in 1..Len(queue), a \in Msgs :
       Precedes(a, queue[i]) => a \in Accounted \/ \E j \in 1..(i - 1) : queue[j] = a
  /\ OvertakenOnlyIfRefused

LEMMA PrecedesAccepted ==
  ASSUME NEW a, NEW b, Precedes(a, b)
  PROVE  a \in Elements(accepted) /\ b \in Elements(accepted)
BY DEF Precedes, Elements

\* Accepting m puts it behind everything accepted before.
LEMMA AcceptedGrows ==
  ASSUME TypeInv, NEW m \in Msgs, Enqueue(m), NEW a, NEW b, Precedes(a, b)'
  PROVE  Precedes(a, b) \/ (b = m /\ a \in Elements(accepted) /\ m \notin Elements(accepted))
<1>1. CASE accepted' = accepted
  BY <1>1 DEF Precedes
<1>2. CASE accepted' = Append(accepted, m) /\ m \notin Elements(accepted)
  <2>1. /\ Len(accepted) \in Nat /\ Len(accepted') = Len(accepted) + 1
        /\ \A i \in 1..Len(accepted) : accepted'[i] = accepted[i]
        /\ accepted'[Len(accepted) + 1] = m
    BY <1>2, AppendProperties, LenProperties DEF TypeInv, TypeOK
  <2>2. PICK i, j \in 1..Len(accepted') : i < j /\ accepted'[i] = a /\ accepted'[j] = b
    BY DEF Precedes
  <2>3. i \in 1..Len(accepted) /\ accepted[i] = a
    BY <2>1, <2>2
  <2>4. CASE j \in 1..Len(accepted)
    BY <2>1, <2>2, <2>3, <2>4 DEF Precedes
  <2>5. CASE j = Len(accepted) + 1
    BY <1>2, <2>1, <2>2, <2>3, <2>5 DEF Elements
  <2> QED BY <2>1, <2>2, <2>4, <2>5
<1> QED BY <1>1, <1>2 DEF Enqueue

LEMMA EnqueueOrder ==
  ASSUME TypeInv, OrderInv, NEW m \in Msgs, Enqueue(m), UNCHANGED <<inbox, verdicts>>
  PROVE  OrderInv'
<1>1. UNCHANGED <<Written, Refused, Accounted>>
  BY DEF Written, Refused, Accounted
<1>2. queue \in Seq(Msgs) /\ accepted \in Seq(Msgs) /\ Len(queue) \in Nat
  BY LenProperties DEF TypeInv, TypeOK
<1>3. /\ Elements(accepted') = Elements(accepted)
         \/ Elements(accepted') = Elements(accepted) \cup {m}
      /\ Elements(queue') = Elements(queue) \/ Elements(queue') = Elements(queue) \cup {m}
      /\ Elements(queue') # Elements(queue) => m \in Elements(accepted')
      /\ Elements(accepted') # Elements(accepted) => m \in Elements(queue')
  BY <1>2, AppendElements DEF Enqueue
<1>4. ASSUME NEW i \in 1..Len(queue'), NEW a \in Msgs, Precedes(a, queue[i])'
      PROVE  a \in Accounted \/ \E j \in 1..(i - 1) : queue'[j] = a
  <2>1. CASE i \in 1..Len(queue) /\ \A j \in 1..Len(queue) : queue'[j] = queue[j]
    <3>1. queue[i] \in Elements(accepted)
      BY <2>1 DEF OrderInv, Elements
    <3>2. PICK b : b = queue[i]
      OBVIOUS
    <3>3. Precedes(a, b)'
      BY <1>4, <2>1, <3>2 DEF Precedes
    <3>4. Precedes(a, queue[i])
      BY <3>1, <3>2, <3>3, AcceptedGrows
    <3>5. a \in Accounted \/ \E j \in 1..(i - 1) : queue[j] = a
      BY <2>1, <3>4 DEF OrderInv
    <3> QED BY <1>2, <2>1, <3>5
  <2>2. CASE /\ Len(queue') = Len(queue) + 1 /\ i = Len(queue) + 1 /\ queue'[i] = m
             /\ \A j \in 1..Len(queue) : queue'[j] = queue[j]
    <3>1. Precedes(a, m)'
      BY <1>4, <2>2 DEF Precedes
    <3>2. a \in Elements(accepted)
      BY <3>1, AcceptedGrows, PrecedesAccepted
    <3>3. a \in Accounted \/ a \in Elements(queue)
      BY <3>2 DEF OrderInv
    <3> QED BY <1>2, <2>2, <3>3 DEF Elements
  <2> QED BY <1>2, <2>1, <2>2, AppendProperties DEF Enqueue
<1>5. ASSUME NEW i \in 1..Len(inbox), NEW a \in Msgs, Precedes(a, inbox[i].msg)'
      PROVE  a \in Refused \/ \E j \in 1..(i - 1) : inbox[j].msg = a
  <2>1. inbox[i].msg \in Elements(accepted)
    BY DEF OrderInv, Written
  <2>2. PICK b : b = inbox[i].msg
    OBVIOUS
  <2>3. Precedes(a, b)'
    BY <1>5, <2>2 DEF Precedes
  <2>4. Precedes(a, inbox[i].msg)
    BY <2>1, <2>2, <2>3, AcceptedGrows
  <2> QED BY <2>4 DEF OrderInv, OvertakenOnlyIfRefused
<1>6. OvertakenOnlyIfRefused'
  BY <1>1, <1>5 DEF OvertakenOnlyIfRefused
<1> QED BY <1>1, <1>3, <1>4, <1>6 DEF OrderInv

LEMMA OnMessageOrder ==
  ASSUME TypeInv, AccountInv, OrderInv, NEW m \in Msgs, OnMessage(m)
  PROVE  OrderInv'
<1>1. /\ UNCHANGED <<queue, accepted>>
      /\ handled + 1 \in 1..Len(queue) /\ queue[handled + 1] = m
      /\ handled \in Nat
  BY DEF OnMessage, IsNext, TypeInv, TypeOK
<1>2. Written \subseteq Written' /\ Written' \subseteq Written \cup {m}
      /\ Refused \subseteq Refused' /\ Accounted \subseteq Accounted'
  BY OnMessageAccount DEF Accounted
<1>3. m \in Elements(accepted)
  BY <1>1 DEF OrderInv, Elements
<1>4. UNCHANGED <<Elements(accepted), Elements(queue)>>
  BY <1>1 DEF Elements
<1>5. ASSUME NEW a, NEW b PROVE Precedes(a, b)' <=> Precedes(a, b)
  BY <1>1 DEF Precedes
<1>6. \A i \in 1..Len(queue'), a \in Msgs :
        Precedes(a, queue[i])' => a \in Accounted' \/ \E j \in 1..(i - 1) : queue'[j] = a
  BY <1>1, <1>2 DEF OrderInv, Precedes
<1>7. OvertakenOnlyIfRefused'
  <2> SUFFICES ASSUME NEW i \in 1..Len(inbox'), NEW a \in Msgs, Precedes(a, inbox[i].msg)'
               PROVE  a \in Refused' \/ \E j \in 1..(i - 1) : inbox'[j].msg = a
    BY DEF OvertakenOnlyIfRefused
  <2> PICK b : b = inbox'[i].msg
    OBVIOUS
  <2>1. Precedes(a, b)
    BY <1>1 DEF Precedes
  <2>2. Len(inbox) \in Nat
    BY LenProperties DEF TypeInv, TypeOK
  <2>3. CASE i \in 1..Len(inbox) /\ \A j \in 1..Len(inbox) : inbox'[j] = inbox[j]
    <3>1. Precedes(a, inbox[i].msg)
      BY <2>1, <2>3
    <3>2. a \in Refused \/ \E j \in 1..(i - 1) : inbox[j].msg = a
      BY <2>3, <3>1 DEF OrderInv, OvertakenOnlyIfRefused
    <3> QED BY <1>2, <2>2, <2>3, <3>2
  <2>4. CASE /\ i = Len(inbox) + 1 /\ b = m
             /\ \A j \in 1..Len(inbox) : inbox'[j] = inbox[j]
    <3>1. Precedes(a, queue[handled + 1])
      BY <1>1, <2>1, <2>4
    <3>2. a \in Accounted \/ \E j \in 1..handled : queue[j] = a
      <4>1. (handled + 1) - 1 = handled
        BY <1>1
      <4>2. a \in Accounted \/ \E j \in 1..((handled + 1) - 1) : queue[j] = a
        BY <1>1, <3>1 DEF OrderInv
      <4> QED BY <4>1, <4>2
    <3>3. a \in Written \/ a \in Refused
      BY <3>2 DEF AccountInv, Accounted
    <3> QED BY <1>2, <2>2, <2>4, <3>3 DEF Written
  <2>5. \/ UNCHANGED inbox
        \/ /\ Len(inbox') = Len(inbox) + 1 /\ inbox'[Len(inbox')].msg = m
           /\ \A j \in 1..Len(inbox) : inbox'[j] = inbox[j]
    <3>1. \/ UNCHANGED inbox
          \/ /\ Len(inbox') = Len(inbox) + 1
             /\ inbox'[Len(inbox')] = [msg |-> m, time |-> clock, life |-> life,
                                        status |-> Verify(m)]
             /\ \A j \in 1..Len(inbox) : inbox'[j] = inbox[j]
      BY OnMessageInbox
    <3> QED BY <3>1
  <2>6. i \in 1..Len(inbox) \/ (i = Len(inbox) + 1 /\ Len(inbox') = Len(inbox) + 1)
    BY <2>2, <2>5
  <2> QED BY <2>2, <2>3, <2>4, <2>5, <2>6
<1> QED BY <1>2, <1>3, <1>4, <1>6, <1>7 DEF OrderInv

LEMMA PubackOrder ==
  ASSUME TypeInv, AccountInv, OrderInv, Puback
  PROVE  OrderInv'
<1>1. queue # <<>> /\ queue \in Seq(Msgs) /\ 1 \in 1..handled /\ Len(queue) \in Nat
  BY LenProperties DEF Puback, TypeInv, TypeOK
<1>2. queue' = Tail(queue) /\ UNCHANGED <<inbox, verdicts, accepted>>
  BY DEF Puback, history
<1>3. UNCHANGED <<Written, Refused, Accounted>> /\ queue[1] \in Accounted
  BY <1>1, <1>2 DEF Written, Refused, Accounted, AccountInv
<1>4. UNCHANGED Elements(accepted)
  BY <1>2 DEF Elements
<1>5. Elements(queue') \subseteq Elements(queue) /\ Elements(queue) \ {queue[1]} \subseteq Elements(queue')
  BY <1>1, <1>2, TailElements
<1>6. Len(queue') = Len(queue) - 1 /\ \A i \in 1..Len(queue') : queue'[i] = queue[i + 1]
  BY <1>1, <1>2, HeadTailProperties
<1>7. ASSUME NEW i \in 1..Len(queue'), NEW a \in Msgs, Precedes(a, queue[i])'
      PROVE  a \in Accounted \/ \E j \in 1..(i - 1) : queue'[j] = a
  <2>1. i + 1 \in 1..Len(queue) /\ queue'[i] = queue[i + 1]
    BY <1>1, <1>6
  <2>2. Precedes(a, queue[i + 1])
    BY <1>2, <1>7, <2>1 DEF Precedes
  <2>3. a \in Accounted \/ \E j \in 1..i : queue[j] = a
    <3>1. a \in Accounted \/ \E j \in 1..((i + 1) - 1) : queue[j] = a
      BY <2>1, <2>2 DEF OrderInv
    <3> QED BY <3>1
  <2>4. ASSUME NEW j \in 1..i, queue[j] = a, a \notin Accounted
        PROVE  \E k \in 1..(i - 1) : queue'[k] = a
    <3>1. j # 1
      BY <1>3, <2>4
    <3>2. j - 1 \in 1..(i - 1) /\ j - 1 \in 1..Len(queue')
      BY <1>6, <2>1, <3>1
    <3>3. queue'[j - 1] = queue[j]
      BY <1>6, <3>2
    <3> QED BY <2>4, <3>2, <3>3
  <2> QED BY <2>3, <2>4
<1>8. OvertakenOnlyIfRefused'
  BY <1>2, <1>3 DEF OrderInv, OvertakenOnlyIfRefused, Precedes
<1> QED BY <1>3, <1>4, <1>5, <1>7, <1>8 DEF OrderInv

LEMMA OrderAlways == Spec => []OrderInv
<1>1. Init => OrderInv
  <2> SUFFICES ASSUME Init PROVE OrderInv
    OBVIOUS
  <2>1. Len(queue) = 0 /\ Len(inbox) = 0 /\ Len(accepted) = 0
    BY EmptySeq DEF Init
  <2>2. Elements(queue) = {} /\ Elements(accepted) = {} /\ Written = {}
    BY <2>1 DEF Elements, Written
  <2> QED BY <2>1, <2>2 DEF OrderInv, OvertakenOnlyIfRefused
<1>2. TypeInv /\ AccountInv /\ OrderInv /\ [Next]_vars => OrderInv'
  <2> SUFFICES ASSUME TypeInv, AccountInv, OrderInv, [Next]_vars PROVE OrderInv'
    OBVIOUS
  <2> USE DEF senderVars, sessionVars, processVars, history
  <2>1. CASE \E m \in Msgs : OnMessage(m)
    BY <2>1, OnMessageOrder
  <2>2. CASE Puback
    BY <2>2, PubackOrder
  <2>3. CASE \E m \in Msgs : Publish(m) \/ Republish(m)
    BY <2>3, EnqueueOrder DEF Publish, Republish
  <2>4. CASE UNCHANGED <<queue, inbox, verdicts, accepted>>
    <3>1. UNCHANGED <<Elements(queue), Elements(accepted), Written, Refused, Accounted>>
      BY <2>4 DEF Elements, Accounted, Written, Refused
    <3>2. \A i \in 1..Len(queue'), a \in Msgs :
            Precedes(a, queue[i])'
            => a \in Accounted' \/ \E j \in 1..(i - 1) : queue'[j] = a
      BY <2>4, <3>1 DEF OrderInv, Precedes
    <3>3. OvertakenOnlyIfRefused'
      BY <2>4, <3>1 DEF OrderInv, OvertakenOnlyIfRefused, Precedes
    <3> QED BY <3>1, <3>2, <3>3 DEF OrderInv
  <2>5. CASE \/ Start \/ Stop \/ ConnLost \/ Connect \/ Subscribe \/ Tick \/ LoseKeyring
             \/ UNCHANGED vars \/ \E s \in Senders, k \in Keys : Pin(s, k)
             \/ \E m \in Msgs : Raise(m)
    BY <2>4, <2>5
       DEF Raise, Start, Stop, ConnLost, Connect, Subscribe, Tick, LoseKeyring, Pin, vars
  <2> QED BY <2>1, <2>2, <2>3, <2>5 DEF Next, System, Environment
<1> QED BY <1>1, <1>2, TypeInvariant, Accounts, PTL DEF Spec

\* First lines appear in the order of acceptance, but for refused messages.
THEOREM InOrder == Spec => []OvertakenOnlyIfRefused
<1>1. OrderInv => OvertakenOnlyIfRefused
  BY DEF OrderInv
<1> QED BY <1>1, OrderAlways, PTL

\* mqtt.py 318-326: at every moment each message the session ever took is still in the
\* queue, in the inbox file, or refused with a printed reason - and nothing else is in
\* the first two: crashes, redelivery and a failing append lose nothing silently.
NothingIsLost ==
  /\ Elements(accepted) \subseteq Elements(queue) \cup Written \cup Refused
  /\ Elements(queue) \cup Written \subseteq Elements(accepted)
THEOREM NothingLost == Spec => []NothingIsLost
<1>1. OrderInv => NothingIsLost
  BY DEF OrderInv, NothingIsLost, Accounted
<1> QED BY <1>1, OrderAlways, PTL
=============================================================================
