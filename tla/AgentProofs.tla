---------------------------- MODULE AgentProofs -----------------------------
(***************************************************************************)
(* For any messages, budget, window and clock: no window sees more than    *)
(* one reply over the budget leave, a message is refused only if replies   *)
(* fill it, an exhausted budget is announced once per window - but for     *)
(* the two cases the property names - and, given the records that the wire *)
(* carries, the agent never publishes at all.                              *)
(***************************************************************************)
EXTENDS AgentRunner, FiniteSetTheorems, TLAPS

(* Types                                                                   *)

\* AgentRunner is well typed, and one message at a time is in its model turn.
THEOREM AgentTypes == Spec => []TypeOK
  <1>1. Init => TypeOK
    <2> SUFFICES ASSUME Init PROVE TypeOK
      OBVIOUS
    <2>1. Boot \in Boot..MaxClock /\ 0 \in 0..MaxClock
      BY AgentAssumption
    <2>2. /\ fate \in [Msgs -> Fates] /\ at \in [Msgs -> 0..MaxClock]
          /\ sentAt \in [Msgs -> 0..MaxClock]
          /\ \A m, n \in Msgs : ~(fate[m] = "asking" /\ fate[n] = "asking")
      BY <2>1 DEF Init, Fates
    <2> QED
      BY <2>1, <2>2 DEF Init, TypeOK
  <1>2. TypeOK /\ [Next]_vars => TypeOK'
    <2> SUFFICES ASSUME TypeOK, [Next]_vars PROVE TypeOK'
      OBVIOUS
    <2> USE AgentAssumption DEF TypeOK, Fates
    <2>1. CASE Tick
      BY <2>1 DEF Tick
    <2>2. CASE Die \/ Break \/ Subscribe
      BY <2>2 DEF Die, Break, Subscribe
    <2>3. ASSUME NEW m \in Msgs, Ignore(m) PROVE TypeOK'
      BY <2>3 DEF Ignore, Consider, Idle
    <2>4. ASSUME NEW m \in Msgs, RefuseUnlisted(m) PROVE TypeOK'
      BY <2>4 DEF RefuseUnlisted, Consider, Idle
    <2>5. ASSUME NEW m \in Msgs, RefuseExhausted(m) PROVE TypeOK'
      <3>1. /\ fate[m] = "waiting" /\ fate' = [fate EXCEPT ![m] = "exhausted"]
            /\ at' = [at EXCEPT ![m] = mono] /\ stamps' = Pruned
            /\ UNCHANGED <<mono, sentAt>>
        BY <2>5 DEF RefuseExhausted, Consider
      <3>2. /\ running' \in BOOLEAN /\ subscribed' \in BOOLEAN
            /\ noticeAt' \in 0..MaxClock /\ notices' \subseteq 0..MaxClock
        <4>1. /\ running' \in BOOLEAN /\ subscribed' \in BOOLEAN
              /\ noticeAt' = mono \/ noticeAt' = noticeAt
              /\ notices' = notices \/ notices' = notices \cup {mono}
          BY <2>5 DEF RefuseExhausted, SendReply
        <4>2. mono \in 0..MaxClock
          OBVIOUS
        <4> QED
          BY <4>1, <4>2
      <3>3. mono \in 0..MaxClock /\ mono' \in Boot..MaxClock
        BY <3>1
      <3>4. /\ fate' \in [Msgs -> Fates] /\ at' \in [Msgs -> 0..MaxClock]
            /\ sentAt' \in [Msgs -> 0..MaxClock] /\ stamps' \subseteq Msgs
        BY <3>1, <3>3 DEF Pruned
      <3>5. \A k, n \in Msgs : fate'[k] = "asking" /\ fate'[n] = "asking" => k = n
        BY <3>1
      <3> QED
        BY <3>2, <3>3, <3>4, <3>5
    <2>6. ASSUME NEW m \in Msgs, StartTurn(m) PROVE TypeOK'
      BY <2>6 DEF StartTurn, Consider, Idle, Pruned
    <2>7. ASSUME NEW m \in Msgs, Reply(m) PROVE TypeOK'
      <3>1. /\ sentAt' = [sentAt EXCEPT ![m] = mono]
            /\ fate' = [fate EXCEPT ![m] = "replied"] /\ stamps' = stamps \cup {m}
            /\ mono' = mono /\ at' = at /\ noticeAt' = noticeAt /\ notices' = notices
        BY <2>7 DEF Reply
      <3>2. running' \in BOOLEAN /\ subscribed' \in BOOLEAN
        BY <2>7 DEF Reply, SendReply
      <3>3. sentAt' \in [Msgs -> 0..MaxClock]
        BY <3>1
      <3>4. /\ fate' \in [Msgs -> Fates]
            /\ \A k, n \in Msgs : fate'[k] = "asking" /\ fate'[n] = "asking" => k = n
        BY <3>1
      <3> QED
        BY <3>1, <3>2, <3>3, <3>4
    <2>8. ASSUME NEW m \in Msgs, ReplyError(m) PROVE TypeOK'
      BY <2>8 DEF ReplyError, SendReply
    <2>9. ASSUME NEW m \in Msgs, Arrive(m) PROVE TypeOK'
      BY <2>9 DEF Arrive
    <2>10. CASE UNCHANGED vars
      BY <2>10 DEF vars
    <2> QED
      BY <2>1, <2>2, <2>3, <2>4, <2>5, <2>6, <2>7, <2>8, <2>9, <2>10
         DEF Next, Decide, EndTurn
  <1> QED
    BY <1>1, <1>2, PTL DEF Spec

-----------------------------------------------------------------------------
(* The reply budget                                                        *)

\* Of the messages that were taken up in any one window, at most Limit are replied to.
TakenWithinBudget == \A t \in 0..MaxClock : Cardinality(TakenIn(t)) <= Limit

\* A recorded reply was sent, a forgotten one is out of the window; what was taken
\* up before a message whose turn is under way is no younger, and the budget as
\* that message found it has room for one more.
BudgetInv ==
  /\ stamps \subseteq Replied
  /\ \A m \in Msgs : at[m] <= mono
  /\ \A m \in Replied : m \in stamps \/ at[m] + Window <= mono
  /\ \A n \in Msgs : fate[n] = "asking" =>
       /\ Cardinality(stamps) < Limit
       /\ \A m \in Msgs : at[m] <= at[n]
       /\ \A m \in Replied : m \in stamps \/ at[m] + Window <= at[n]
  /\ TakenWithinBudget

LEMMA FinitelyMany ==
  ASSUME NEW S \in SUBSET Msgs
  PROVE  IsFiniteSet(S) /\ Cardinality(S) \in Nat
  BY AgentAssumption, FS_Subset, FS_CardinalityType

\* What a step that leaves the replies alone does to TakenWithinBudget: nothing.
LEMMA SameReplies ==
  ASSUME TakenWithinBudget, Replied' = Replied, \A m \in Replied : at'[m] = at[m]
  PROVE  TakenWithinBudget'
  <1>1. \A t \in 0..MaxClock : TakenIn(t)' = TakenIn(t)
    BY DEF TakenIn
  <1> QED
    BY <1>1 DEF TakenWithinBudget

LEMMA BudgetStep ==
  ASSUME TypeOK, TypeOK', BudgetInv, [Next]_vars
  PROVE  BudgetInv'
  <1> USE AgentAssumption
  <1>1. ASSUME \/ Tick \/ Die \/ Break \/ Subscribe \/ UNCHANGED vars
               \/ \E n \in Msgs : Arrive(n) \/ Ignore(n) \/ RefuseUnlisted(n)
        PROVE  BudgetInv'
    <2>1. /\ UNCHANGED <<at, stamps>> /\ mono <= mono' /\ mono \in Nat /\ mono' \in Nat
          /\ \A m \in Msgs : fate'[m] = fate[m]
               \/ {fate[m], fate'[m]} \cap {"asking", "replied"} = {}
      BY <1>1 DEF Tick, Die, Break, Subscribe, Arrive, Ignore, RefuseUnlisted, Consider,
                  vars, TypeOK
    <2>2. Replied' = Replied
      BY <2>1 DEF Replied
    <2>3. TakenWithinBudget'
      BY <2>1, <2>2, SameReplies DEF BudgetInv
    <2>4. \A m \in Msgs : at[m] \in Nat
      BY DEF TypeOK
    <2>5. \A m \in Replied : m \in stamps \/ at[m] + Window <= mono'
      BY <2>1, <2>4 DEF BudgetInv, Replied
    <2>6. \A m \in Msgs : at[m] <= mono'
      BY <2>1, <2>4 DEF BudgetInv
    <2> QED
      BY <2>1, <2>2, <2>3, <2>5, <2>6 DEF BudgetInv
  <1>2. ASSUME NEW n \in Msgs, RefuseExhausted(n) \/ StartTurn(n)
        PROVE  BudgetInv'
    <2>1. /\ Idle /\ fate[n] = "waiting" /\ at' = [at EXCEPT ![n] = mono]
          /\ mono' = mono /\ mono \in Nat
      BY <1>2 DEF RefuseExhausted, StartTurn, Consider, TypeOK
    <2>2. /\ fate'[n] # "replied"
          /\ \A m \in Msgs \ {n} : fate'[m] = fate[m] /\ at'[m] = at[m]
          /\ at'[n] = mono
      BY <1>2, <2>1 DEF RefuseExhausted, StartTurn, TypeOK, Fates
    <2>3. Replied' = Replied /\ \A m \in Replied : at'[m] = at[m]
      BY <2>1, <2>2 DEF Replied
    <2>4. TakenWithinBudget'
      BY <2>3, SameReplies DEF BudgetInv
    <2>5. stamps' = Pruned
      BY <1>2 DEF RefuseExhausted, StartTurn
    <2>6. /\ stamps' \subseteq Replied'
          /\ \A m \in Replied' : m \in stamps' \/ at'[m] + Window <= mono'
      BY <2>1, <2>3, <2>5 DEF BudgetInv, Pruned, Replied, TypeOK
    <2>7. \A m \in Msgs : at'[m] <= mono'
      BY <2>1, <2>2 DEF BudgetInv
    <2>8. ASSUME NEW k \in Msgs, fate'[k] = "asking"
          PROVE  k = n /\ Cardinality(stamps') < Limit
      <3>1. k = n
        BY <2>1, <2>2, <2>8 DEF Idle
      <3>2. StartTurn(n)
        BY <1>2, <2>8, <3>1 DEF RefuseExhausted, TypeOK
      <3> QED
        BY <3>1, <3>2 DEF StartTurn, Allows
    <2> QED
      BY <2>1, <2>2, <2>4, <2>6, <2>7, <2>8 DEF BudgetInv
  <1>3. ASSUME NEW n \in Msgs, Reply(n) PROVE BudgetInv'
    <2>1. /\ fate[n] = "asking" /\ fate' = [fate EXCEPT ![n] = "replied"]
          /\ stamps' = stamps \cup {n} /\ UNCHANGED <<mono, at>>
          /\ mono \in Nat /\ \A m \in Msgs : at[m] \in Nat
      BY <1>3 DEF Reply, TypeOK
    <2>2. Replied' = Replied \cup {n} /\ n \notin Replied
      BY <2>1 DEF Replied, TypeOK
    <2>3. \A k \in Msgs : fate'[k] # "asking"
      BY <2>1 DEF TypeOK
    <2>4. ASSUME NEW t \in 0..MaxClock PROVE Cardinality(TakenIn(t)') <= Limit
      <3>1. CASE at[n] <= t
        <4>1. TakenIn(t)' \subseteq stamps \cup {n}
          BY <2>1, <2>2, <3>1 DEF TakenIn, BudgetInv, Replied
        <4>2. IsFiniteSet(stamps \cup {n}) /\ Cardinality(stamps \cup {n}) <= Limit
          BY <2>1, FinitelyMany, FS_AddElement DEF TypeOK, BudgetInv
        <4>3. Cardinality(TakenIn(t)') <= Cardinality(stamps \cup {n})
          BY <4>1, <4>2, FS_Subset
        <4>4. Cardinality(TakenIn(t)') \in Nat /\ Cardinality(stamps \cup {n}) \in Nat
          BY <4>1, <4>2, FinitelyMany, FS_Subset, FS_CardinalityType DEF TypeOK
        <4> QED
          BY <4>2, <4>3, <4>4
      <3>2. CASE ~(at[n] <= t)
        <4>1. TakenIn(t)' = TakenIn(t)
          BY <2>1, <2>2, <3>2 DEF TakenIn, Replied
        <4> QED
          BY <4>1 DEF BudgetInv, TakenWithinBudget
      <3> QED
        BY <3>1, <3>2
    <2> QED
      BY <2>1, <2>2, <2>3, <2>4 DEF BudgetInv, TakenWithinBudget, Replied, TypeOK
  <1>4. ASSUME NEW n \in Msgs, ReplyError(n) PROVE BudgetInv'
    <2>1. /\ fate[n] = "asking" /\ fate' = [fate EXCEPT ![n] = "failed"]
          /\ UNCHANGED <<mono, at, stamps>>
      BY <1>4 DEF ReplyError
    <2>2. Replied' = Replied
      BY <2>1 DEF Replied, TypeOK
    <2>3. TakenWithinBudget'
      BY <2>1, <2>2, SameReplies DEF BudgetInv
    <2> QED
      BY <2>1, <2>2, <2>3 DEF BudgetInv, TypeOK
  <1> QED
    BY <1>1, <1>2, <1>3, <1>4 DEF Next, Decide, EndTurn

LEMMA BudgetAlways == Spec => []BudgetInv
  <1>1. Init => BudgetInv
    <2> SUFFICES ASSUME Init PROVE BudgetInv
      OBVIOUS
    <2>1. Replied = {}
      BY DEF Init, Replied
    <2>2. \A t \in 0..MaxClock : Cardinality(TakenIn(t)) = 0
      BY <2>1, FS_EmptySet DEF TakenIn
    <2> QED
      BY <2>1, <2>2, AgentAssumption DEF Init, BudgetInv, TakenWithinBudget
  <1>2. TypeOK /\ TypeOK' /\ BudgetInv /\ [Next]_vars => BudgetInv'
    BY BudgetStep
  <1> QED
    BY <1>1, <1>2, AgentTypes, PTL DEF Spec

\* Messages are taken up one at a time: of two that were replied to, one was
\* taken up no earlier than the reply to the other was sent.
OrderInv ==
  /\ \A m \in Replied : at[m] <= sentAt[m] /\ sentAt[m] <= mono
  /\ \A k, m \in Replied : k = m \/ sentAt[k] <= at[m] \/ sentAt[m] <= at[k]
  /\ \A n \in Msgs, k \in Replied : fate[n] = "asking" => sentAt[k] <= at[n]

LEMMA OrderStep ==
  ASSUME TypeOK, BudgetInv, OrderInv, [Next]_vars
  PROVE  OrderInv'
  <1> USE AgentAssumption
  <1>1. /\ mono \in Nat /\ \A m \in Msgs : at[m] \in Nat /\ sentAt[m] \in Nat
        /\ \A m \in Msgs : at[m] <= mono
    BY DEF TypeOK, BudgetInv
  <1>2. ASSUME \/ Tick \/ Die \/ Break \/ Subscribe \/ UNCHANGED vars
               \/ \E n \in Msgs : Arrive(n) \/ Ignore(n) \/ RefuseUnlisted(n) \/ ReplyError(n)
        PROVE  OrderInv'
    <2>1. /\ UNCHANGED <<at, sentAt>> /\ (mono' = mono \/ mono' = mono + 1)
          /\ \A m \in Msgs : fate'[m] = "asking" => fate[m] = "asking"
          /\ \A m \in Msgs : fate'[m] = "replied" <=> fate[m] = "replied"
      BY <1>2 DEF Tick, Die, Break, Subscribe, Arrive, Ignore, RefuseUnlisted, ReplyError,
                  Consider, vars, TypeOK
    <2>2. Replied' = Replied
      BY <2>1 DEF Replied
    <2>3. \A m \in Replied : sentAt[m] <= mono'
      BY <1>1, <2>1 DEF OrderInv, Replied
    <2> QED
      BY <2>1, <2>2, <2>3 DEF OrderInv
  <1>3. ASSUME NEW n \in Msgs, RefuseExhausted(n) \/ StartTurn(n) PROVE OrderInv'
    <2>1. /\ Idle /\ fate[n] = "waiting" /\ at' = [at EXCEPT ![n] = mono]
          /\ UNCHANGED <<mono, sentAt>>
          /\ \A m \in Msgs \ {n} : fate'[m] = fate[m]
          /\ fate'[n] # "replied"
      BY <1>3 DEF RefuseExhausted, StartTurn, Consider, TypeOK
    <2>2. Replied' = Replied /\ n \notin Replied
      BY <2>1 DEF Replied
    <2>3. at'[n] = mono /\ \A m \in Replied : at'[m] = at[m]
      BY <2>1, <2>2 DEF TypeOK, Replied
    <2>4. \A k \in Msgs : fate'[k] = "asking" => k = n
      BY <2>1 DEF Idle
    <2> QED
      BY <2>1, <2>2, <2>3, <2>4 DEF OrderInv
  <1>4. ASSUME NEW n \in Msgs, Reply(n) PROVE OrderInv'
    <2>1. /\ fate[n] = "asking" /\ fate' = [fate EXCEPT ![n] = "replied"]
          /\ sentAt' = [sentAt EXCEPT ![n] = mono] /\ UNCHANGED <<mono, at>>
      BY <1>4 DEF Reply
    <2>2. Replied' = Replied \cup {n} /\ n \notin Replied
      BY <2>1 DEF Replied, TypeOK
    <2>3. \A k \in Msgs : fate'[k] # "asking"
      BY <2>1 DEF TypeOK
    <2>4. sentAt'[n] = mono /\ \A m \in Replied : sentAt'[m] = sentAt[m] /\ sentAt[m] <= at[n]
      BY <2>1, <2>2 DEF TypeOK, Replied, OrderInv
    <2> QED
      BY <1>1, <2>1, <2>2, <2>3, <2>4 DEF OrderInv
  <1> QED
    BY <1>2, <1>3, <1>4 DEF Next, Decide, EndTurn

\* The replies that left in a window were taken up in it, all but at most one.
LEMMA OneLeftLate ==
  ASSUME TypeOK, BudgetInv, OrderInv, NEW t \in 0..MaxClock
  PROVE  Cardinality(SentIn(t)) <= Limit + 1
  <1> USE AgentAssumption
  <1>1. \A m \in Msgs : at[m] \in Nat /\ sentAt[m] \in Nat
    BY DEF TypeOK
  <1> DEFINE Late == {m \in SentIn(t) : at[m] <= t - Window}
  <1>2. SentIn(t) \subseteq TakenIn(t) \cup Late
    BY <1>1 DEF SentIn, TakenIn, OrderInv, Replied
  <1>3. \A k, m \in Late : k = m
    BY <1>1 DEF SentIn, OrderInv, Replied
  <1>4. PICK b : Late \subseteq {b}
    BY <1>3
  <1>5. /\ IsFiniteSet(TakenIn(t)) /\ Cardinality(TakenIn(t)) \in Nat
        /\ Cardinality(TakenIn(t)) <= Limit
    BY FinitelyMany DEF TakenIn, Replied, BudgetInv, TakenWithinBudget
  <1>6. /\ IsFiniteSet(TakenIn(t) \cup {b})
        /\ \/ Cardinality(TakenIn(t) \cup {b}) = Cardinality(TakenIn(t))
           \/ Cardinality(TakenIn(t) \cup {b}) = Cardinality(TakenIn(t)) + 1
    BY <1>5, FS_AddElement
  <1>7. /\ SentIn(t) \subseteq TakenIn(t) \cup {b}
        /\ Cardinality(SentIn(t)) \in Nat
    BY <1>2, <1>4, FinitelyMany DEF SentIn, Replied
  <1>8. Cardinality(SentIn(t)) <= Cardinality(TakenIn(t) \cup {b})
    BY <1>6, <1>7, FS_Subset
  <1> QED
    BY <1>5, <1>6, <1>7, <1>8

\* agent.py 95-122: for any budget, window and clock, no window sees more than
\* max_replies_per_window + 1 replies leave, however long the model turns take.
THEOREM BudgetNeverExceeded == Spec => []BudgetHolds
  <1>1. Init => OrderInv
    BY DEF Init, OrderInv, Replied
  <1>2. TypeOK /\ BudgetInv /\ OrderInv /\ [Next]_vars => OrderInv'
    BY OrderStep
  <1>3. TypeOK /\ BudgetInv /\ OrderInv => BudgetHolds
    BY OneLeftLate DEF BudgetHolds
  <1> QED
    BY <1>1, <1>2, <1>3, BudgetAlways, AgentTypes, PTL DEF Spec
-----------------------------------------------------------------------------
(* The budget recovers                                                     *)

\* What was replied to stays so, and what the budget was asked for keeps its time.
LEMMA DecidedForGood ==
  ASSUME TypeOK, [Next]_vars
  PROVE  /\ Replied \subseteq Replied'
         /\ \A m \in Msgs : fate[m] \in {"replied", "exhausted"} => at'[m] = at[m]
  BY DEF TypeOK, Fates, Next, Decide, EndTurn, Tick, Die, Break, Subscribe, Arrive, Consider,
         Ignore, RefuseUnlisted, RefuseExhausted, StartTurn, Reply, ReplyError, vars, Replied

\* What the budget held against a message it refused are replies of the window
\* that ended with it.
LEMMA RefusedIsSpent ==
  ASSUME TypeOK, TypeOK', BudgetInv, [Next]_vars,
         NEW m \in Msgs, fate'[m] = "exhausted", fate[m] # "exhausted"
  PROVE  Cardinality(TakenIn(at[m])') >= Limit
  <1>1. RefuseExhausted(m)
    BY DEF TypeOK, Fates, Next, Decide, EndTurn, Tick, Die, Break, Subscribe, Arrive, Ignore,
           RefuseUnlisted, RefuseExhausted, StartTurn, Reply, ReplyError, vars
  <1>2. /\ at'[m] = mono /\ m \notin Replied
        /\ \A k \in Msgs \ {m} : at'[k] = at[k] /\ fate'[k] = fate[k]
        /\ ~(Cardinality(Pruned) < Limit)
    BY <1>1 DEF RefuseExhausted, Consider, Allows, TypeOK, Replied
  <1>3. Pruned \subseteq TakenIn(at[m])'
    BY <1>2 DEF Pruned, TakenIn, BudgetInv, Replied
  <1>4. /\ TakenIn(at[m])' \in SUBSET Msgs /\ Pruned \in SUBSET Msgs
        /\ IsFiniteSet(TakenIn(at[m])')
    BY <1>3, FinitelyMany DEF TakenIn, Replied
  <1>5. /\ Cardinality(Pruned) <= Cardinality(TakenIn(at[m])')
        /\ Cardinality(Pruned) \in Nat /\ Cardinality(TakenIn(at[m])') \in Nat
    BY <1>3, <1>4, FinitelyMany, FS_Subset
  <1> QED
    BY <1>2, <1>5, AgentAssumption

LEMMA SpentStep ==
  ASSUME TypeOK, TypeOK', BudgetInv, RefusedOnlyIfSpent, [Next]_vars
  PROVE  RefusedOnlyIfSpent'
  <1> SUFFICES ASSUME NEW m \in Msgs, fate'[m] = "exhausted", fate[m] = "exhausted"
               PROVE  Cardinality(TakenIn(at[m])') >= Limit
    BY RefusedIsSpent DEF RefusedOnlyIfSpent
  <1>1. TakenIn(at[m]) \subseteq TakenIn(at[m])'
    BY DecidedForGood DEF TakenIn, Replied
  <1>2. TakenIn(at[m])' \in SUBSET Msgs /\ TakenIn(at[m]) \in SUBSET Msgs
    BY DEF TakenIn, Replied
  <1>3. /\ Cardinality(TakenIn(at[m])) <= Cardinality(TakenIn(at[m])')
        /\ Cardinality(TakenIn(at[m])) \in Nat /\ Cardinality(TakenIn(at[m])') \in Nat
    BY <1>1, <1>2, FinitelyMany, FS_Subset
  <1> QED
    BY <1>3, AgentAssumption DEF RefusedOnlyIfSpent

\* test_agent.py 116-119: for any budget and window, a message is refused only if
\* the replies of the window that ended with it had filled the budget.
THEOREM BudgetRecovers == Spec => []RefusedOnlyIfSpent
  <1>1. Init => RefusedOnlyIfSpent
    BY DEF Init, RefusedOnlyIfSpent
  <1> QED
    BY <1>1, BudgetAlways, SpentStep, AgentTypes, PTL DEF Spec
-----------------------------------------------------------------------------
(* Notices of an exhausted budget                                          *)

\* The time noted is that of the last notice, while the process is alive.
NoticeInv ==
  /\ noticeAt <= mono
  /\ \A t \in notices : t <= noticeAt
  /\ running => noticeAt = 0 \/ noticeAt \in notices
  /\ AnnouncedOncePerWindow

\* A step that announces nothing and exhausts nothing leaves it alone.
LEMMA NothingAnnounced ==
  ASSUME NoticeInv, UNCHANGED <<noticeAt, notices>>, running' => running,
         mono' = mono \/ mono' = mono + 1, mono \in Nat, noticeAt \in Nat,
         \A m \in Msgs : fate'[m] = "exhausted" => fate[m] = "exhausted" /\ at'[m] = at[m]
  PROVE  NoticeInv'
  <1>1. \A m \in Msgs : at'[m] = at[m] => Announced(m)' = Announced(m)
    BY DEF Announced
  <1> QED
    BY <1>1 DEF NoticeInv, AnnouncedOncePerWindow

LEMMA NoticeStep ==
  ASSUME TypeOK, NoticeInv, [Next]_vars
  PROVE  NoticeInv'
  <1> USE AgentAssumption
  <1> mono \in Nat /\ noticeAt \in Nat /\ \A t \in notices : t \in Nat
    BY DEF TypeOK
  <1>1. CASE Tick \/ Die \/ Break \/ Subscribe \/ UNCHANGED vars
    BY <1>1, NothingAnnounced DEF Tick, Die, Break, Subscribe, vars, TypeOK
  <1>2. ASSUME NEW n \in Msgs, Arrive(n) \/ Ignore(n) \/ RefuseUnlisted(n) \/ StartTurn(n)
        PROVE  NoticeInv'
    BY <1>2, NothingAnnounced
       DEF Arrive, Ignore, RefuseUnlisted, StartTurn, Consider, TypeOK, Fates
  <1>3. ASSUME NEW n \in Msgs, Reply(n) \/ ReplyError(n) PROVE NoticeInv'
    BY <1>3, NothingAnnounced DEF Reply, ReplyError, TypeOK, Fates
  <1>4. ASSUME NEW n \in Msgs, RefuseExhausted(n) PROVE NoticeInv'
    <2>1. /\ running /\ mono' = mono /\ at'[n] = mono
          /\ \A m \in Msgs \ {n} : fate'[m] = fate[m] /\ at'[m] = at[m]
      BY <1>4 DEF RefuseExhausted, Consider, TypeOK
    <2>2. \A m \in Msgs \ {n} : fate'[m] = "exhausted" => Announced(m) \/ at[m] < Window
      BY <2>1 DEF NoticeInv, AnnouncedOncePerWindow
    <2>3. CASE ShouldAnnounce /\ notices' = notices \cup {mono} /\ noticeAt' = mono
      <3>1. \A s \in notices : s + Window <= mono
        BY <2>3 DEF ShouldAnnounce, NoticeInv
      <3>2. \A s, t \in notices' : s < t => s + Window <= t
        BY <2>3, <3>1 DEF NoticeInv, AnnouncedOncePerWindow
      <3>3. Announced(n)'
        BY <2>1, <2>3 DEF Announced
      <3>4. \A m \in Msgs \ {n} : Announced(m) => Announced(m)'
        BY <2>1, <2>3 DEF Announced
      <3>5. \A m \in Msgs : fate'[m] = "exhausted" => Announced(m)' \/ at'[m] < Window
        BY <2>1, <2>2, <3>3, <3>4
      <3> QED
        BY <2>1, <2>3, <3>2, <3>5 DEF NoticeInv, AnnouncedOncePerWindow
    <2>4. CASE ShouldAnnounce /\ running' = FALSE /\ notices' = notices /\ noticeAt' = mono
      <3>1. \A m \in Msgs \ {n} : Announced(m)' = Announced(m)
        BY <2>1, <2>4 DEF Announced
      <3> QED
        BY <2>1, <2>2, <2>4, <3>1 DEF NoticeInv, AnnouncedOncePerWindow
    <2>5. CASE ~ShouldAnnounce /\ UNCHANGED <<running, notices, noticeAt>>
      <3>1. mono < noticeAt + Window /\ noticeAt <= mono
        BY <2>5 DEF ShouldAnnounce, NoticeInv
      <3>2. noticeAt = 0 \/ noticeAt \in notices
        BY <2>1 DEF NoticeInv
      <3>3. Announced(n)' \/ at'[n] < Window
        BY <2>1, <2>5, <3>1, <3>2 DEF Announced
      <3>4. \A m \in Msgs \ {n} : Announced(m)' = Announced(m)
        BY <2>1, <2>5 DEF Announced
      <3>5. \A m \in Msgs : fate'[m] = "exhausted" => Announced(m)' \/ at'[m] < Window
        BY <2>1, <2>2, <3>3, <3>4
      <3> QED
        BY <2>1, <2>5, <3>5 DEF NoticeInv, AnnouncedOncePerWindow
    <2> QED
      BY <1>4, <2>3, <2>4, <2>5 DEF RefuseExhausted, SendReply
  <1> QED
    BY <1>1, <1>2, <1>3, <1>4 DEF Next, Decide, EndTurn

\* agent.py 125-130: whenever the agent starts, an exhausted budget is announced
\* once per window, but for the two cases AnnouncedOncePerWindow names.
THEOREM AnnouncedOnce == Spec => []AnnouncedOncePerWindow
  <1>1. Init => NoticeInv
    BY AgentAssumption DEF Init, NoticeInv, AnnouncedOncePerWindow
  <1>2. TypeOK /\ NoticeInv /\ [Next]_vars => NoticeInv'
    BY NoticeStep
  <1>3. NoticeInv => AnnouncedOncePerWindow
    BY DEF NoticeInv
  <1> QED
    BY <1>1, <1>2, <1>3, AgentTypes, PTL DEF Spec
-----------------------------------------------------------------------------
(* The agent on the wire                                                   *)

\* agent.py 145-147 with wire.py 105-123: given records as wrap_outer makes them, the
\* agent takes up every message and answers none, refuses none and announces nothing:
\* whatever reaches it, it never publishes.
Silent ==
  /\ \A m \in Msgs : fate[m] \in {"none", "waiting", "ignored"}
  /\ stamps = {} /\ notices = {}

THEOREM SilentOnTheWire == ~PayloadIsObject /\ Spec => []Silent
  <1> SUFFICES ASSUME ~PayloadIsObject PROVE Spec => []Silent
    OBVIOUS
  <1>1. Init => Silent
    BY DEF Init, Silent
  <1>2. TypeOK /\ Silent /\ [Next]_vars => Silent'
    <2> SUFFICES ASSUME TypeOK, Silent, [Next]_vars PROVE Silent'
      OBVIOUS
    <2>1. \A m \in Msgs : ~IsUnlisted(m) /\ ~IsListed(m)
      BY DEF IsUnlisted, IsListed, Ignores, SeesBody
    <2>2. CASE Tick \/ Die \/ Break \/ Subscribe
      BY <2>2 DEF Silent, Tick, Die, Break, Subscribe
    <2>3. ASSUME NEW m \in Msgs, Arrive(m) PROVE Silent'
      BY <2>3 DEF Silent, TypeOK, Arrive
    <2>4. ASSUME NEW m \in Msgs, Decide(m) PROVE Silent'
      <3>1. Ignore(m)
        BY <2>1, <2>4 DEF Decide, RefuseUnlisted, RefuseExhausted, StartTurn
      <3> QED
        BY <3>1 DEF Silent, TypeOK, Ignore
    <2>5. ASSUME NEW m \in Msgs PROVE ~EndTurn(m)
      BY DEF Silent, EndTurn, Reply, ReplyError
    <2>6. CASE UNCHANGED vars
      BY <2>6 DEF Silent, vars
    <2> QED
      BY <2>2, <2>3, <2>4, <2>5, <2>6 DEF Next
  <1> QED
    BY <1>1, <1>2, AgentTypes, PTL DEF Spec
=============================================================================
