--------------------------- MODULE PresenceProofs ---------------------------
(***************************************************************************)
(* For any number of listener processes, messages and broken connections:  *)
(* an agent that is shown online has its subscription at the broker, the   *)
(* broker has its connection while its record says online, and a who shows *)
(* the newest record.                                                      *)
(***************************************************************************)
EXTENDS WhoCommand, SequenceTheorems, TLAPS

Wires == Seq(Packets)

\* On its way to the broker, ONLINE comes after the SUBSCRIBE of the same
\* connection, or the session is subscribed already.
Ordered(w, isSubscribed) ==
  \A i \in 1..Len(w) :
    w[i] = "ONLINE" => isSubscribed \/ \E j \in 1..(i - 1) : w[j] = "SUBSCRIBE"

OnlineInv ==
  /\ TypeOK
  /\ OnlineMeansSubscribed
  /\ \A p \in Procs : Ordered(wire[p], subscribed)

LEMMA ShortWires ==
  /\ <<>> \in Wires /\ Ordered(<<>>, subscribed)
  /\ <<"CONNECT">> \in Wires /\ Ordered(<<"CONNECT">>, subscribed)
  /\ <<"SUBSCRIBE", "ONLINE">> \in Wires /\ <<"SUBSCRIBE">> \in Wires
  /\ Ordered(<<"SUBSCRIBE", "ONLINE">>, subscribed) /\ Ordered(<<"SUBSCRIBE">>, subscribed)
  BY DEF Wires, Packets, Ordered

LEMMA AppendedWires ==
  ASSUME NEW w \in Wires, Ordered(w, subscribed), NEW x \in Packets, x # "ONLINE"
  PROVE  Append(w, x) \in Wires /\ Ordered(Append(w, x), subscribed)
  BY DEF Wires, Ordered

LEMMA TailOfWire ==
  ASSUME NEW w \in Wires, w # <<>>, Ordered(w, subscribed), Head(w) # "SUBSCRIBE"
  PROVE  Tail(w) \in Wires /\ Ordered(Tail(w), subscribed)
  <1>1. Tail(w) \in Wires /\ Len(Tail(w)) = Len(w) - 1 /\ Len(w) \in Nat \ {0}
    BY HeadTailProperties, EmptySeq DEF Wires
  <1>2. \A i \in 1..Len(Tail(w)) : Tail(w)[i] = w[i + 1]
    BY HeadTailProperties DEF Wires
  <1>3. w[1] # "SUBSCRIBE"
    BY DEF Wires
  <1>4. ASSUME NEW i \in 1..Len(Tail(w)), Tail(w)[i] = "ONLINE", ~subscribed
        PROVE  \E j \in 1..(i - 1) : Tail(w)[j] = "SUBSCRIBE"
    <2>1. i + 1 \in 1..Len(w) /\ w[i + 1] = "ONLINE"
      BY <1>1, <1>2, <1>4
    <2>2. PICK j \in 1..i : w[j] = "SUBSCRIBE"
      BY <2>1, <1>4 DEF Ordered
    <2>3. j - 1 \in 1..(i - 1) /\ j - 1 \in 1..Len(Tail(w))
      BY <2>2, <1>1, <1>3
    <2>4. Tail(w)[j - 1] = "SUBSCRIBE"
      BY <2>2, <2>3, <1>2
    <2> QED
      BY <2>3, <2>4
  <1> QED
    BY <1>1, <1>4 DEF Ordered

LEMMA HeadOfWire ==
  ASSUME NEW w \in Wires, w # <<>>, Ordered(w, subscribed), Head(w) = "ONLINE"
  PROVE  subscribed
  <1>1. 1 \in 1..Len(w) /\ w[1] = "ONLINE"
    BY EmptySeq DEF Wires
  <1>2. ~ \E j \in 1..(1 - 1) : w[j] = "SUBSCRIBE"
    OBVIOUS
  <1> QED
    BY <1>1, <1>2 DEF Ordered

LEMMA OnlineInit == Init => OnlineInv
  <1> SUFFICES ASSUME Init PROVE OnlineInv
    OBVIOUS
  <1>1. breaks \in 0..MaxBreaks
    BY PresenceAssumption DEF Init
  <1>2. wire \in [Procs -> Wires] /\ \A p \in Procs : Ordered(wire[p], subscribed)
    BY ShortWires DEF Init
  <1> QED
    BY <1>1, <1>2 DEF Init, OnlineInv, TypeOK, OnlineMeansSubscribed, Wires

\* A step that gives some wires a new content, each of them ordered, and keeps
\* the record or changes it to something else than "connect".
LEMMA OnlineStep == OnlineInv /\ [Next]_vars => OnlineInv'
  <1> SUFFICES ASSUME OnlineInv, [Next]_vars PROVE OnlineInv'
    OBVIOUS
  <1>0. /\ TypeOK /\ OnlineMeansSubscribed
        /\ wire \in [Procs -> Wires]
        /\ \A p \in Procs : wire[p] \in Wires /\ Ordered(wire[p], subscribed)
    BY DEF OnlineInv, TypeOK, Wires
  <1>1. ASSUME NEW p \in Procs, Connect(p) PROVE OnlineInv'
    BY <1>0, <1>1, ShortWires
    DEF Connect, OnlineInv, TypeOK, OnlineMeansSubscribed, saidVars, mailVars, Wires
  <1>2. ASSUME NEW p \in Procs, OnConnect(p) PROVE OnlineInv'
    <2>1. /\ wire' = [wire EXCEPT ![p] = wire'[p]] /\ wire'[p] \in Wires
          /\ Ordered(wire'[p], subscribed)
          /\ unsaid' \in [Procs -> {"nothing", "ONLINE", "OFFLINE"}]
      BY <1>0, <1>2, ShortWires DEF OnConnect, Say, TypeOK
    <2> QED
      BY <1>0, <1>2, <2>1
      DEF OnConnect, OnlineInv, TypeOK, OnlineMeansSubscribed, saidVars, mailVars, Wires
  <1>3. ASSUME NEW p \in Procs, Interrupt(p) PROVE OnlineInv'
    <2>1. /\ Append(wire[p], "OFFLINE") \in Wires
          /\ Ordered(Append(wire[p], "OFFLINE"), subscribed)
      BY <1>0, AppendedWires DEF Packets
    <2>2. /\ wire' = [wire EXCEPT ![p] = wire'[p]] /\ wire'[p] \in Wires
          /\ Ordered(wire'[p], subscribed)
          /\ unsaid' \in [Procs -> {"nothing", "ONLINE", "OFFLINE"}]
      BY <1>0, <1>3, <2>1 DEF Interrupt, Say, TypeOK
    <2> QED
      BY <1>0, <1>3, <2>2
      DEF Interrupt, OnlineInv, TypeOK, OnlineMeansSubscribed, saidVars, mailVars, Wires
  <1>4. ASSUME NEW p \in Procs, Disconnect(p) PROVE OnlineInv'
    <2>1. /\ Append(wire[p], "DISCONNECT") \in Wires
          /\ Ordered(Append(wire[p], "DISCONNECT"), subscribed)
      BY <1>0, AppendedWires DEF Packets
    <2> QED
      BY <1>0, <1>4, <2>1
      DEF Disconnect, OnlineInv, TypeOK, OnlineMeansSubscribed, saidVars, mailVars, Wires
  <1>5. ASSUME NEW p \in Procs, Die(p) PROVE OnlineInv'
    BY <1>0, <1>5 DEF Die, OnlineInv, TypeOK, OnlineMeansSubscribed, saidVars, mailVars
  <1>6. ASSUME NEW p \in Procs, Break(p) PROVE OnlineInv'
    <2>1. breaks' \in 0..MaxBreaks
      <3>1. breaks \in 0..MaxBreaks /\ breaks < MaxBreaks /\ breaks' = breaks + 1
        BY <1>0, <1>6 DEF Break, TypeOK
      <3> QED
        BY <3>1, PresenceAssumption
    <2> QED
      BY <1>0, <1>6, <2>1, ShortWires
      DEF Break, Dropped, OnlineInv, TypeOK, OnlineMeansSubscribed, saidVars, mailVars, Wires
  <1>7. ASSUME NEW p \in Procs, Accept(p) PROVE OnlineInv'
    <2>1. wire[p] # <<>> /\ Head(wire[p]) = "CONNECT"
      BY <1>7 DEF Accept, AtHead
    <2>2. Tail(wire[p]) \in Wires /\ Ordered(Tail(wire[p]), subscribed)
      BY <1>0, <2>1, TailOfWire
    <2>3. pc[p] # "new" /\ holder' = p /\ retained' \in {retained, "lwt"}
      BY <1>0, <1>7, <2>1 DEF Accept, Will, TypeOK
    <2>4. CASE holder \in Procs \ {p} /\ ~Unopened(holder)
      <3>1. /\ pc' = [pc EXCEPT ![holder] = IF @ = "gone" THEN @ ELSE Dropped(holder)]
            /\ wire' = [wire EXCEPT ![p] = Tail(@), ![holder] = <<>>]
        BY <1>7, <2>4 DEF Accept
      <3>2. wire' \in [Procs -> Wires] /\ \A q \in Procs : Ordered(wire'[q], subscribed)
        BY <1>0, <2>2, <2>4, <3>1, ShortWires
      <3>3. /\ pc' \in [Procs -> {"new", "connecting", "up", "lost", "closing", "gone"}]
            /\ \A q \in Procs \ {holder} : pc'[q] = pc[q]
            /\ pc'[holder] # "new"
        BY <1>0, <2>4, <3>1 DEF TypeOK, Dropped
      <3>4. \A q \in Procs : pc'[q] = "new" => wire'[q] = <<>>
        BY <1>0, <2>3, <2>4, <3>1, <3>3 DEF TypeOK
      <3> QED
        BY <1>0, <1>7, <2>3, <2>4, <3>2, <3>3, <3>4
        DEF Accept, KeepSpeaker, OnlineInv, TypeOK, OnlineMeansSubscribed, saidVars, mailVars, Wires
    <2>5. CASE ~(holder \in Procs \ {p} /\ ~Unopened(holder))
      <3>1. UNCHANGED pc /\ wire' = [wire EXCEPT ![p] = Tail(@)]
        BY <1>7, <2>5 DEF Accept
      <3>2. wire' \in [Procs -> Wires] /\ \A q \in Procs : Ordered(wire'[q], subscribed)
        BY <1>0, <2>2, <3>1
      <3> QED
        BY <1>0, <1>7, <2>3, <3>1, <3>2
        DEF Accept, KeepSpeaker, OnlineInv, TypeOK, OnlineMeansSubscribed, saidVars, mailVars, Wires
    <2> QED
      BY <2>4, <2>5
  <1>8. ASSUME NEW p \in Procs, Handle(p) PROVE OnlineInv'
    <2>1. /\ wire[p] # <<>> /\ wire[p] \in Wires /\ Ordered(wire[p], subscribed)
          /\ wire' = [wire EXCEPT ![p] = Tail(@)]
          /\ UNCHANGED pc
      BY <1>0, <1>8 DEF Handle
    <2>2. Tail(wire[p]) \in Wires
      BY <2>1, HeadTailProperties DEF Wires
    <2>3. TypeOK'
      BY <1>0, <1>8, <2>1, <2>2 DEF Handle, TypeOK, saidVars, mailVars, Wires
    <2>4. CASE AtHead(p, "SUBSCRIBE") /\ subscribed' = TRUE
      BY <2>3, <2>4 DEF OnlineInv, OnlineMeansSubscribed, Ordered
    <2>5. CASE ~AtHead(p, "SUBSCRIBE") /\ subscribed' = subscribed
      <3>1. Ordered(Tail(wire[p]), subscribed)
        BY <2>1, <2>5, TailOfWire DEF AtHead
      <3>2. \A q \in Procs : Ordered(wire'[q], subscribed')
        BY <1>0, <2>1, <2>5, <3>1
      <3>3. AtHead(p, "ONLINE") => subscribed
        BY <2>1, HeadOfWire DEF AtHead
      <3>4. retained' = "connect" => retained = "connect" \/ AtHead(p, "ONLINE")
        BY <1>8 DEF Handle
      <3>5. OnlineMeansSubscribed'
        BY <1>0, <2>5, <3>3, <3>4 DEF OnlineMeansSubscribed
      <3> QED
        BY <2>3, <3>2, <3>5 DEF OnlineInv
    <2> QED
      BY <1>8, <2>4, <2>5 DEF Handle, AtHead
  <1>9. ASSUME NEW p \in Procs, Notice(p) PROVE OnlineInv'
    BY <1>0, <1>9, ShortWires
    DEF Notice, KeepSpeaker, Will, OnlineInv, TypeOK, OnlineMeansSubscribed, saidVars, mailVars, Wires
  <1>10. ASSUME NEW m \in Msgs, Send(m) \/ Deliver(m) \/ Peek(m) PROVE OnlineInv'
    BY <1>0, <1>10
    DEF Send, Deliver, Peek, OnlineInv, TypeOK, OnlineMeansSubscribed, clientVars, saidVars
  <1>11. CASE UNCHANGED vars
    BY <1>0, <1>11
    DEF vars, clientVars, saidVars, mailVars, OnlineInv, TypeOK, OnlineMeansSubscribed
  <1> QED
    BY <1>1, <1>2, <1>3, <1>4, <1>5, <1>6, <1>7, <1>8, <1>9, <1>10, <1>11
    DEF Next, Listening, Brokering, Mailing

LEMMA OnlineAlways == Spec => []OnlineInv
  BY OnlineInit, OnlineStep, PTL DEF Spec

\* The broker client and the broker keep their types.
THEOREM PresenceTypes == Spec => []TypeOK
  <1>1. OnlineInv => TypeOK
    BY DEF OnlineInv
  <1> QED
    BY <1>1, OnlineAlways, PTL

\* mqtt.py 332-335: whatever connections break and whichever processes take
\* over or die, an agent shown online has its inbox subscription.
THEOREM OnlineIsSubscribed == Spec => []OnlineMeansSubscribed
  <1>1. OnlineInv => OnlineMeansSubscribed
    BY DEF OnlineInv
  <1> QED
    BY <1>1, OnlineAlways, PTL
-----------------------------------------------------------------------------
(* The record and the connection                                           *)

Has(w, x) == \E i \in 1..Len(w) : w[i] = x
EndsWith(w, x) == w # <<>> => w[Len(w)] = x

\* DISCONNECT is the last word, and right after OFFLINE.
Parting(w) ==
  \A i \in 1..Len(w) : w[i] = "DISCONNECT" =>
    i = Len(w) /\ (i > 1 => w[i - 1] = "OFFLINE")

\* What a listener has on its way ends with ONLINE and what a closing process has
\* with OFFLINE, unless they could not publish that; once the broker has read that
\* last word, and until another connection has the client id, the record says the same.
RecordOf(p) ==
  /\ pc[p] = "up" => /\ unsaid[p] # "ONLINE" => EndsWith(wire[p], "ONLINE")
                     /\ ~Has(wire[p], "CONNECT")
  /\ pc[p] = "closing" /\ unsaid[p] # "OFFLINE" => EndsWith(wire[p], "OFFLINE")
  /\ pc[p] # "gone" => ~Has(wire[p], "DISCONNECT")
  /\ unsaid[p] = "OFFLINE" => pc[p] \in {"closing", "gone"}
  /\ unsaid[p] # "OFFLINE" => Parting(wire[p])
  /\ holder = p =>
       /\ pc[p] = "up" /\ wire[p] = <<>> /\ unsaid[p] # "ONLINE" => ReadsOnlineFor(p)
       /\ unsaid[p] # "OFFLINE" =>
            /\ pc[p] = "closing" /\ wire[p] = <<>> => retained # "connect"
            /\ AtHead(p, "DISCONNECT") => retained # "connect"

SpokenFor == retained = "connect" => speaker \in Procs

RecordInv == SpokenFor /\ OnlineOnlyIfConnected /\ \A p \in Procs : RecordOf(p)

LEMMA ShortSayings ==
  /\ <<>> \in Wires /\ <<"CONNECT">> \in Wires
  /\ <<"SUBSCRIBE", "ONLINE">> \in Wires /\ <<"SUBSCRIBE">> \in Wires
  /\ \A x : ~Has(<<>>, x) /\ EndsWith(<<>>, x)
  /\ <<"CONNECT">> # <<>> /\ Head(<<"CONNECT">>) = "CONNECT"
  /\ ~Has(<<"CONNECT">>, "DISCONNECT")
  /\ <<"SUBSCRIBE", "ONLINE">> # <<>> /\ Head(<<"SUBSCRIBE", "ONLINE">>) = "SUBSCRIBE"
  /\ EndsWith(<<"SUBSCRIBE", "ONLINE">>, "ONLINE")
  /\ <<"SUBSCRIBE">> # <<>> /\ Head(<<"SUBSCRIBE">>) = "SUBSCRIBE"
  /\ \A x \in {"CONNECT", "DISCONNECT"} :
       ~Has(<<"SUBSCRIBE", "ONLINE">>, x) /\ ~Has(<<"SUBSCRIBE">>, x)
  BY DEF Wires, Packets, Has, EndsWith

\* Where DISCONNECT was not said, it is not in the wrong place.
LEMMA NotPartingYet ==
  ASSUME NEW w, ~Has(w, "DISCONNECT")
  PROVE  Parting(w)
  BY DEF Has, Parting

\* One more word.
LEMMA AppendedSaying ==
  ASSUME NEW w \in Wires, ~Has(w, "DISCONNECT"), NEW x \in Packets
  PROVE  /\ Append(w, x) # <<>> /\ EndsWith(Append(w, x), x)
         /\ Head(Append(w, x)) = IF w = <<>> THEN x ELSE Head(w)
         /\ x # "DISCONNECT" => ~Has(Append(w, x), "DISCONNECT")
         /\ x = "DISCONNECT" /\ EndsWith(w, "OFFLINE") => Parting(Append(w, x))
  <1>1. /\ Append(w, x) \in Wires /\ Len(Append(w, x)) = Len(w) + 1 /\ Len(w) \in Nat
        /\ Append(w, x)[Len(w) + 1] = x
        /\ \A i \in 1..Len(w) : Append(w, x)[i] = w[i]
    BY AppendProperties DEF Wires
  <1>2. Append(w, x) # <<>> /\ (w # <<>> => Len(w) > 0) /\ (Len(w) = 0 => w = <<>>)
    BY <1>1, EmptySeq DEF Wires
  <1>3. Head(Append(w, x)) = IF w = <<>> THEN x ELSE Head(w)
    BY HeadTailAppend DEF Wires
  <1>4. EndsWith(Append(w, x), x)
    BY <1>1 DEF EndsWith
  <1>5. x # "DISCONNECT" => ~Has(Append(w, x), "DISCONNECT")
    BY <1>1 DEF Has
  <1>6. ASSUME x = "DISCONNECT", EndsWith(w, "OFFLINE") PROVE Parting(Append(w, x))
    <2> SUFFICES ASSUME NEW i \in 1..(Len(w) + 1), Append(w, x)[i] = "DISCONNECT"
                 PROVE  i = Len(w) + 1 /\ (i > 1 => Append(w, x)[i - 1] = "OFFLINE")
      BY <1>1 DEF Parting
    <2>1. i = Len(w) + 1
      BY <1>1 DEF Has
    <2>2. i > 1 => w # <<>> /\ Append(w, x)[i - 1] = w[Len(w)]
      BY <1>1, <2>1, EmptySeq
    <2> QED
      BY <1>6, <2>1, <2>2 DEF EndsWith
  <1> QED
    BY <1>2, <1>3, <1>4, <1>5, <1>6

\* One word less.
LEMMA TailOfSaying ==
  ASSUME NEW w \in Wires, w # <<>>
  PROVE  /\ \A x : Has(Tail(w), x) => Has(w, x)
         /\ \A x : EndsWith(w, x) =>
              EndsWith(Tail(w), x) /\ (Tail(w) = <<>> => Head(w) = x)
         /\ Parting(w) =>
              /\ Parting(Tail(w))
              /\ Tail(w) # <<>> /\ Head(Tail(w)) = "DISCONNECT" => Head(w) = "OFFLINE"
  <1>1. /\ Tail(w) \in Wires /\ Len(Tail(w)) = Len(w) - 1 /\ Len(w) \in Nat \ {0}
        /\ \A i \in 1..Len(Tail(w)) : Tail(w)[i] = w[i + 1]
    BY HeadTailProperties, EmptySeq DEF Wires
  <1>2. Head(w) = w[1] /\ (Tail(w) # <<>> => Head(Tail(w)) = Tail(w)[1])
    BY <1>1 DEF Wires
  <1>3. /\ Tail(w) = <<>> => Len(w) = 1
        /\ Tail(w) # <<>> => Len(w) > 1 /\ Len(Tail(w)) \in 1..Len(Tail(w))
    <2>1. Tail(w) = <<>> <=> Len(Tail(w)) = 0
      BY <1>1, EmptySeq DEF Wires
    <2> QED
      BY <1>1, <2>1
  <1>4. ASSUME NEW x, Has(Tail(w), x) PROVE Has(w, x)
    <2>1. PICK i \in 1..Len(Tail(w)) : Tail(w)[i] = x
      BY <1>4 DEF Has
    <2>2. i + 1 \in 1..Len(w) /\ w[i + 1] = x
      BY <1>1, <2>1
    <2> QED
      BY <2>2 DEF Has
  <1>5. ASSUME NEW x, EndsWith(w, x)
        PROVE  EndsWith(Tail(w), x) /\ (Tail(w) = <<>> => Head(w) = x)
    BY <1>1, <1>2, <1>3, <1>5 DEF EndsWith
  <1>6. ASSUME Parting(w)
        PROVE  /\ Parting(Tail(w))
               /\ Tail(w) # <<>> /\ Head(Tail(w)) = "DISCONNECT" => Head(w) = "OFFLINE"
    <2>1. ASSUME NEW i \in 1..Len(Tail(w)), Tail(w)[i] = "DISCONNECT"
          PROVE  /\ i = Len(Tail(w)) /\ w[i] = "OFFLINE"
                 /\ i > 1 => Tail(w)[i - 1] = "OFFLINE"
      <3>1. i + 1 \in 1..Len(w) /\ w[i + 1] = "DISCONNECT"
        BY <1>1, <2>1
      <3>2. i + 1 = Len(w) /\ w[(i + 1) - 1] = "OFFLINE"
        BY <1>6, <3>1 DEF Parting
      <3>3. i > 1 => Tail(w)[i - 1] = w[i]
        <4> SUFFICES ASSUME i > 1 PROVE Tail(w)[i - 1] = w[i]
          OBVIOUS
        <4>1. i - 1 \in 1..Len(Tail(w))
          BY <1>1
        <4>2. Tail(w)[i - 1] = w[(i - 1) + 1] /\ (i - 1) + 1 = i
          BY <1>1, <4>1
        <4> QED
          BY <4>2
      <3>4. w[i] = "OFFLINE" /\ i = Len(Tail(w))
        <4>1. (i + 1) - 1 = i /\ i + 1 > 1 /\ i \in Nat
          OBVIOUS
        <4>2. Len(Tail(w)) = Len(w) - 1 /\ Len(w) \in Nat
          BY <1>1
        <4> QED
          BY <3>2, <4>1, <4>2
      <3> QED
        BY <3>3, <3>4
    <2> QED
      BY <1>2, <1>3, <2>1 DEF Parting
  <1> QED
    BY <1>4, <1>5, <1>6

\* The first word is a word.
LEMMA FirstSaying ==
  ASSUME NEW w \in Wires, w # <<>>
  PROVE  Has(w, Head(w))
  <1>1. 1 \in 1..Len(w) /\ Head(w) = w[1]
    BY EmptySeq DEF Wires
  <1> QED
    BY <1>1 DEF Has

LEMMA RecordInit == Init => RecordInv
  BY ShortSayings, NotPartingYet, PresenceAssumption
  DEF Init, RecordInv, RecordOf, OnlineOnlyIfConnected, ReadsOnlineWrongly, SpokenFor, AtHead

\* A process that nothing happened to, if the record it reads is the old one or the
\* connection the broker has is another's.
LEMMA RecordOfBystander ==
  ASSUME NEW q \in Procs, RecordOf(q), pc'[q] = pc[q], wire'[q] = wire[q],
         unsaid'[q] = unsaid[q],
         holder' = q => holder = q /\ retained' = retained /\ speaker' = speaker
  PROVE  RecordOf(q)'
  BY DEF RecordOf, ReadsOnlineFor, AtHead

\* The record stands, and no failed OFFLINE is forgotten.
LEMMA RecordStands ==
  ASSUME SpokenFor, OnlineOnlyIfConnected, UNCHANGED <<holder, retained, speaker>>,
         \A q \in Procs : unsaid[q] = "OFFLINE" => unsaid'[q] = "OFFLINE"
  PROVE  SpokenFor' /\ OnlineOnlyIfConnected'
  BY DEF SpokenFor, OnlineOnlyIfConnected, ReadsOnlineWrongly

LEMMA RecordStep == TypeOK /\ RecordInv /\ [Next]_vars => RecordInv'
  <1> SUFFICES ASSUME TypeOK, RecordInv, [Next]_vars PROVE RecordInv'
    OBVIOUS
  <1>0. /\ pc \in [Procs -> {"new", "connecting", "up", "lost", "closing", "gone"}]
        /\ wire \in [Procs -> Wires] /\ holder \in Procs \cup {Nobody}
        /\ unsaid \in [Procs -> {"nothing", "ONLINE", "OFFLINE"}]
        /\ Nobody \notin Procs /\ SpokenFor /\ OnlineOnlyIfConnected
        /\ \A q \in Procs : wire[q] \in Wires /\ RecordOf(q)
    BY PresenceAssumption DEF TypeOK, RecordInv, Wires
  <1>1. ASSUME NEW p \in Procs, Connect(p) PROVE RecordInv'
    <2>1. /\ pc' = [pc EXCEPT ![p] = "connecting"]
          /\ wire' = [wire EXCEPT ![p] = <<"CONNECT">>]
          /\ UNCHANGED <<holder, retained, speaker, unsaid>>
          /\ pc[p] \in {"new", "lost"}
      BY <1>1 DEF Connect, saidVars
    <2>2. RecordOf(p)'
      BY <1>0, <2>1, ShortSayings, NotPartingYet DEF RecordOf, AtHead
    <2>3. \A q \in Procs \ {p} : RecordOf(q)'
      BY <1>0, <2>1, RecordOfBystander
    <2> QED
      BY <1>0, <2>1, <2>2, <2>3, RecordStands DEF RecordInv
  <1>2. ASSUME NEW p \in Procs, OnConnect(p) PROVE RecordInv'
    <2>1. /\ pc' = [pc EXCEPT ![p] = "up"] /\ pc[p] = "connecting"
          /\ UNCHANGED <<holder, retained, speaker>>
          /\ \A q \in Procs \ {p} : wire'[q] = wire[q] /\ unsaid'[q] = unsaid[q]
      BY <1>0, <1>2 DEF OnConnect, Say
    <2>2. \/ wire'[p] = <<"SUBSCRIBE", "ONLINE">> /\ unsaid'[p] = "nothing"
          \/ wire'[p] = <<"SUBSCRIBE">> /\ unsaid'[p] = "ONLINE"
      BY <1>0, <1>2 DEF OnConnect, Say
    <2>3. RecordOf(p)'
      BY <1>0, <2>1, <2>2, ShortSayings, NotPartingYet DEF RecordOf, AtHead
    <2>4. \A q \in Procs \ {p} : RecordOf(q)'
      BY <1>0, <2>1, RecordOfBystander
    <2>5. unsaid[p] # "OFFLINE"
      BY <1>0, <2>1 DEF RecordOf
    <2> QED
      BY <1>0, <2>1, <2>3, <2>4, <2>5, RecordStands DEF RecordInv
  <1>3. ASSUME NEW p \in Procs, Interrupt(p) PROVE RecordInv'
    <2>1. /\ UNCHANGED <<holder, retained, speaker>>
          /\ \A q \in Procs \ {p} :
               pc'[q] = pc[q] /\ wire'[q] = wire[q] /\ unsaid'[q] = unsaid[q]
      BY <1>0, <1>3 DEF Interrupt, Say
    <2>2. \/ /\ pc[p] \in {"connecting", "up"} /\ pc'[p] = "closing"
             /\ wire'[p] = Append(wire[p], "OFFLINE") /\ unsaid'[p] = "nothing"
          \/ /\ pc[p] \in {"connecting", "up"} /\ pc'[p] = "closing"
             /\ wire'[p] = wire[p] /\ unsaid'[p] = "OFFLINE"
          \/ /\ pc[p] = "lost" /\ pc'[p] = "gone"
             /\ wire'[p] = wire[p] /\ unsaid'[p] = unsaid[p]
      BY <1>0, <1>3 DEF Interrupt, Say
    <2>3. ASSUME pc[p] = "lost", pc'[p] = "gone",
                 wire'[p] = wire[p], unsaid'[p] = unsaid[p]
          PROVE  RecordOf(p)'
      BY <1>0, <2>1, <2>3 DEF RecordOf, AtHead
    <2>4. ASSUME pc[p] \in {"connecting", "up"}, pc'[p] = "closing",
                 wire'[p] = Append(wire[p], "OFFLINE"), unsaid'[p] = "nothing"
          PROVE  RecordOf(p)'
      <3>1. ~Has(wire[p], "DISCONNECT") /\ wire[p] \in Wires /\ "OFFLINE" \in Packets
        BY <1>0, <2>4 DEF RecordOf, Packets
      <3>2. /\ wire'[p] # <<>> /\ EndsWith(wire'[p], "OFFLINE") /\ ~Has(wire'[p], "DISCONNECT")
            /\ wire'[p] \in Wires
        BY <2>4, <3>1, AppendedSaying, AppendProperties DEF Wires
      <3>3. Parting(wire'[p]) /\ Head(wire'[p]) # "DISCONNECT"
        BY <3>2, NotPartingYet, FirstSaying
      <3> QED
        BY <2>4, <3>2, <3>3 DEF RecordOf, AtHead
    <2>5. ASSUME pc[p] \in {"connecting", "up"}, pc'[p] = "closing",
                 wire'[p] = wire[p], unsaid'[p] = "OFFLINE"
          PROVE  RecordOf(p)'
      BY <1>0, <2>5 DEF RecordOf
    <2>6. \A q \in Procs \ {p} : RecordOf(q)'
      BY <1>0, <2>1, RecordOfBystander
    <2>7. unsaid[p] = "OFFLINE" => unsaid'[p] = "OFFLINE"
      BY <1>0, <2>2 DEF RecordOf
    <2> QED
      BY <1>0, <2>1, <2>2, <2>3, <2>4, <2>5, <2>6, <2>7, RecordStands DEF RecordInv
  <1>4. ASSUME NEW p \in Procs, Disconnect(p) PROVE RecordInv'
    <2>1. /\ pc[p] = "closing" /\ pc' = [pc EXCEPT ![p] = "gone"]
          /\ wire' = [wire EXCEPT ![p] = Append(@, "DISCONNECT")]
          /\ UNCHANGED <<holder, retained, speaker, unsaid>>
      BY <1>4 DEF Disconnect, saidVars
    <2>2. RecordOf(p)'
      <3>1. CASE unsaid[p] = "OFFLINE"
        BY <1>0, <2>1, <3>1 DEF RecordOf
      <3>2. CASE unsaid[p] # "OFFLINE"
        <4>1. /\ ~Has(wire[p], "DISCONNECT") /\ EndsWith(wire[p], "OFFLINE")
              /\ wire[p] \in Wires /\ "DISCONNECT" \in Packets
          BY <1>0, <2>1, <3>2 DEF RecordOf, Packets
        <4>2. /\ Parting(wire'[p])
              /\ Head(wire'[p]) = "DISCONNECT" => wire[p] = <<>> \/ Head(wire[p]) = "DISCONNECT"
          BY <1>0, <2>1, <4>1, AppendedSaying
        <4>3. Head(wire'[p]) = "DISCONNECT" => wire[p] = <<>>
          BY <4>1, <4>2, FirstSaying
        <4> QED
          BY <1>0, <2>1, <3>2, <4>2, <4>3 DEF RecordOf, AtHead
      <3> QED
        BY <3>1, <3>2
    <2>3. \A q \in Procs \ {p} : RecordOf(q)'
      BY <1>0, <2>1, RecordOfBystander
    <2> QED
      BY <1>0, <2>1, <2>2, <2>3, RecordStands DEF RecordInv
  <1>5. ASSUME NEW p \in Procs, Die(p) \/ Break(p) PROVE RecordInv'
    <2>1. /\ pc'[p] \in {"lost", "gone"} /\ wire'[p] \in {<<>>, wire[p]}
          /\ UNCHANGED <<holder, retained, speaker, unsaid>>
          /\ pc'[p] = "lost" => wire'[p] = <<>> /\ pc[p] # "closing" /\ pc[p] # "gone"
          /\ \A q \in Procs \ {p} : pc'[q] = pc[q] /\ wire'[q] = wire[q]
      BY <1>0, <1>5 DEF Die, Break, Dropped, saidVars
    <2>2. RecordOf(p)'
      BY <1>0, <2>1, ShortSayings, NotPartingYet DEF RecordOf, AtHead
    <2>3. \A q \in Procs \ {p} : RecordOf(q)'
      BY <1>0, <2>1, RecordOfBystander
    <2> QED
      BY <1>0, <2>1, <2>2, <2>3, RecordStands DEF RecordInv
  <1>6. ASSUME NEW p \in Procs, Accept(p) PROVE RecordInv'
    <2>1. /\ wire[p] \in Wires /\ wire[p] # <<>> /\ Head(wire[p]) = "CONNECT"
          /\ holder' = p /\ RecordOf(p) /\ unsaid' = unsaid
      BY <1>0, <1>6 DEF Accept, AtHead
    <2>2. pc'[p] = pc[p] /\ wire'[p] = Tail(wire[p])
      BY <1>0, <1>6 DEF Accept
    <2>3. pc[p] # "up"
      BY <2>1, FirstSaying DEF RecordOf
    <2>4. /\ pc[p] # "gone" => ~Has(wire'[p], "DISCONNECT")
          /\ unsaid[p] # "OFFLINE" =>
               /\ pc[p] = "closing" => EndsWith(wire'[p], "OFFLINE") /\ wire'[p] # <<>>
               /\ Parting(wire'[p]) /\ ~AtHead(p, "DISCONNECT")'
      BY <2>1, <2>2, TailOfSaying DEF RecordOf, AtHead
    <2>5. RecordOf(p)'
      BY <2>1, <2>2, <2>3, <2>4 DEF RecordOf
    <2>6. ASSUME NEW q \in Procs \ {p} PROVE RecordOf(q)'
      <3>1. CASE q = holder /\ ~Unopened(holder)
        <4>1. /\ pc'[q] \in {"lost", "gone"} /\ wire'[q] = <<>>
              /\ pc[q] \in {"closing", "gone"} => pc'[q] = "gone"
          BY <1>0, <1>6, <3>1 DEF Accept, Dropped
        <4> QED
          BY <1>0, <2>1, <4>1, ShortSayings, NotPartingYet DEF RecordOf
      <3>2. CASE ~(q = holder /\ ~Unopened(holder))
        <4>1. pc'[q] = pc[q] /\ wire'[q] = wire[q]
          BY <1>0, <1>6, <3>2 DEF Accept
        <4> QED
          BY <1>0, <2>1, <4>1, RecordOfBystander
      <3> QED
        BY <3>1, <3>2
    <2>7. \/ retained' # "connect"
          \/ holder = Nobody /\ retained' = retained /\ speaker' = speaker
      BY <1>6 DEF Accept, Will, KeepSpeaker
    <2>8. SpokenFor' /\ OnlineOnlyIfConnected'
      BY <1>0, <2>1, <2>7 DEF SpokenFor, OnlineOnlyIfConnected, ReadsOnlineWrongly
    <2> QED
      BY <2>5, <2>6, <2>8 DEF RecordInv
  <1>7. ASSUME NEW p \in Procs, Handle(p) PROVE RecordInv'
    <2>1. /\ holder = p /\ wire[p] \in Wires /\ wire[p] # <<>> /\ RecordOf(p)
          /\ pc' = pc /\ unsaid' = unsaid
          /\ wire' = [wire EXCEPT ![p] = Tail(@)] /\ wire'[p] = Tail(wire[p])
      BY <1>0, <1>7 DEF Handle
    <2>2. /\ pc[p] = "up" => ~Has(wire'[p], "CONNECT")
          /\ pc[p] = "up" /\ unsaid[p] # "ONLINE" =>
               EndsWith(wire'[p], "ONLINE") /\ (wire'[p] = <<>> => Head(wire[p]) = "ONLINE")
          /\ pc[p] = "closing" /\ unsaid[p] # "OFFLINE" =>
               EndsWith(wire'[p], "OFFLINE") /\ (wire'[p] = <<>> => Head(wire[p]) = "OFFLINE")
          /\ pc[p] # "gone" => ~Has(wire'[p], "DISCONNECT")
          /\ unsaid[p] # "OFFLINE" =>
               Parting(wire'[p]) /\ (AtHead(p, "DISCONNECT")' => Head(wire[p]) = "OFFLINE")
      BY <2>1, TailOfSaying DEF RecordOf, AtHead
    <2>3. /\ Head(wire[p]) = "ONLINE" => retained' = "connect" /\ speaker' = p
          /\ Head(wire[p]) = "OFFLINE" => retained' = "clean-shutdown"
          /\ Head(wire[p]) = "DISCONNECT" =>
               /\ retained' = retained /\ speaker' = speaker
               /\ unsaid[p] # "OFFLINE" => retained # "connect"
          /\ Head(wire[p]) = "SUBSCRIBE" => retained' = retained /\ speaker' = speaker
          /\ Head(wire[p]) # "DISCONNECT" => holder' = p
          /\ Head(wire[p]) \in {"ONLINE", "OFFLINE", "DISCONNECT", "SUBSCRIBE"}
          /\ holder' \in {p, Nobody}
      BY <1>7, <2>1 DEF Handle, AtHead, RecordOf
    <2>4. RecordOf(p)'
      BY <2>1, <2>2, <2>3 DEF RecordOf, ReadsOnlineFor
    <2>5. \A q \in Procs \ {p} : RecordOf(q)'
      BY <1>0, <2>1, <2>3, RecordOfBystander
    <2>6. SpokenFor' /\ OnlineOnlyIfConnected'
      BY <1>0, <2>1, <2>3 DEF SpokenFor, OnlineOnlyIfConnected, ReadsOnlineWrongly
    <2> QED
      BY <2>4, <2>5, <2>6 DEF RecordInv
  <1>8. ASSUME NEW p \in Procs, Notice(p) PROVE RecordInv'
    <2>1. /\ pc' = pc /\ holder' = Nobody /\ unsaid' = unsaid
          /\ wire'[p] # wire[p] => wire'[p] = <<>> /\ pc[p] \in {"lost", "gone"}
          /\ \A q \in Procs \ {p} : wire'[q] = wire[q]
          /\ retained' # "connect"
      <3>1. pc' = pc /\ holder' = Nobody /\ retained' = "lwt" /\ unsaid' = unsaid
        BY <1>8 DEF Notice, Will
      <3>2. CASE Unopened(p)
        <4>1. wire' = wire
          BY <1>8, <3>2 DEF Notice
        <4> QED
          BY <3>1, <4>1
      <3>3. CASE ~Unopened(p)
        <4>1. wire' = [wire EXCEPT ![p] = <<>>] /\ pc[p] \in {"lost", "gone"}
          BY <1>8, <3>3 DEF Notice, IsDead
        <4> QED
          BY <1>0, <3>1, <4>1
      <3> QED
        BY <3>2, <3>3
    <2>2. RecordOf(p)'
      BY <1>0, <2>1, ShortSayings, NotPartingYet DEF RecordOf
    <2>3. \A q \in Procs \ {p} : RecordOf(q)'
      BY <1>0, <2>1, RecordOfBystander
    <2> QED
      BY <2>1, <2>2, <2>3
      DEF RecordInv, SpokenFor, OnlineOnlyIfConnected, ReadsOnlineWrongly
  <1>9. ASSUME UNCHANGED <<pc, wire, holder, retained, speaker, unsaid>> PROVE RecordInv'
    BY <1>0, <1>9, RecordOfBystander, RecordStands DEF RecordInv
  <1>10. CASE Mailing \/ UNCHANGED vars
    BY <1>9, <1>10 DEF Mailing, Send, Deliver, Peek, vars, clientVars, saidVars
  <1> QED
    BY <1>1, <1>2, <1>3, <1>4, <1>5, <1>6, <1>7, <1>8, <1>10
    DEF Next, Listening, Brokering

LEMMA RecordAlways == Spec => []RecordInv
  <1>1. OnlineInv => TypeOK
    BY DEF OnlineInv
  <1> QED
    BY <1>1, RecordInit, RecordStep, OnlineAlways, PTL DEF Spec

\* presence.py 5-7: whatever take-overs, half-open connections and deaths there
\* were, an agent reads online only while the broker has the connection that said so,
\* or if its process failed to publish its OFFLINE before its DISCONNECT.
THEOREM OnlineWhileConnected == Spec => []OnlineOnlyIfConnected
  <1>1. RecordInv => OnlineOnlyIfConnected
    BY DEF RecordInv
  <1> QED
    BY <1>1, RecordAlways, PTL

\* presence.py 5-7: a listener whose connection the broker has and whose words it has
\* read reads online, in whatever order wills and last words came before, unless it
\* could not publish its ONLINE.
THEOREM ListeningReadsOnline == Spec => []SettledReadsOnline
  <1>1. TypeOK /\ RecordInv => SettledReadsOnline
    BY PresenceAssumption DEF RecordInv, RecordOf, SettledReadsOnline, TypeOK
  <1>2. OnlineInv => TypeOK
    BY DEF OnlineInv
  <1> QED
    BY <1>1, <1>2, RecordAlways, OnlineAlways, PTL

\* presence.py 210-212 asks for more than the broker promises (see presence_note): what
\* the line says is true of every agent that no one has sent to before its first
\* subscription.
SubscribedFirst == subscribed \/ \A m \in Msgs : note[m] = "unsent"

SentIsQueued == \A m \in Msgs : note[m] # "unsent" => m \in held \cup delivered

\* presence.py 210-212: under that condition the note is right; a message once accepted
\* for the session stays with it or with a listener.
THEOREM QueuedOnceSubscribed == Spec /\ []SubscribedFirst => []UnknownMeansQueued
  <1>1. Init => SentIsQueued
    BY DEF Init, SentIsQueued
  <1>2. ASSUME TypeOK, SubscribedFirst', SentIsQueued, [Next]_vars
        PROVE  SentIsQueued'
    <2>0. note \in [Msgs -> {"unsent", "sent", "silent", "no record", "bad record", "offline"}]
      BY <1>2 DEF TypeOK
    <2>1. ASSUME NEW m \in Msgs, Send(m) PROVE SentIsQueued'
      <3>1. subscribed' = subscribed /\ note'[m] = "sent"
        BY <2>0, <2>1 DEF Send
      <3>2. held' = held \cup {m} /\ delivered' = delivered
        BY <1>2, <2>1, <3>1 DEF Send, SubscribedFirst
      <3>3. \A n \in Msgs \ {m} : note'[n] = note[n]
        BY <2>0, <2>1 DEF Send
      <3> QED
        BY <1>2, <3>2, <3>3 DEF SentIsQueued
    <2>2. ASSUME NEW m \in Msgs, Deliver(m) PROVE SentIsQueued'
      BY <1>2, <2>2 DEF Deliver, SentIsQueued
    <2>3. ASSUME NEW m \in Msgs, Peek(m) PROVE SentIsQueued'
      <3>1. note[m] = "sent" /\ held' = held /\ delivered' = delivered
        BY <2>3 DEF Peek
      <3>2. \A n \in Msgs \ {m} : note'[n] = note[n]
        BY <2>0, <2>3 DEF Peek
      <3> QED
        BY <1>2, <3>1, <3>2 DEF SentIsQueued
    <2>4. CASE UNCHANGED mailVars
      BY <1>2, <2>4 DEF mailVars, SentIsQueued
    <2> QED
      BY <1>2, <2>1, <2>2, <2>3, <2>4
      DEF Next, Listening, Brokering, Mailing, Connect, OnConnect, Interrupt, Disconnect,
          Die, Break, Accept, Handle, Notice, vars
  <1>3. SentIsQueued => UnknownMeansQueued
    BY DEF SentIsQueued, UnknownMeansQueued
  <1>4. OnlineInv => TypeOK
    BY DEF OnlineInv
  <1> QED
    BY <1>1, <1>2, <1>3, <1>4, OnlineAlways, PTL DEF Spec
-----------------------------------------------------------------------------
(* A who                                                                   *)

\* Before its subscription a who has nothing, and what is on its way to it may be
\* shown as well.
WhoInv ==
  /\ WhoTypeOK /\ ShowsTheNewest /\ ShownOnlineIsKept
  /\ asking \in {"new", "subscribing"} => entry = "none"
  /\ \A i \in 1..Len(updates) : updates[i] = "connect" => subscribed

\* No step of the model takes a subscription back.
LEMMA SubscribedForGood == [Next]_vars => (subscribed => subscribed')
  BY DEF Next, Listening, Brokering, Mailing, Connect, OnConnect, Interrupt, Disconnect, Die,
         Break, Accept, Handle, Notice, Send, Deliver, Peek, vars

\* What is published is a record, not the lack of one.
LEMMA PublishedIsRecord ==
  ASSUME TypeOK, TypeOK', [Next]_vars, retained' # retained
  PROVE  retained' \in Vias
  BY DEF Next, Listening, Brokering, Mailing, Connect, OnConnect, Interrupt, Disconnect, Die,
         Break, Accept, Handle, Notice, Send, Deliver, Peek, vars, mailVars, Will, Vias, TypeOK

LEMMA WhoInvInit == WhoInit => WhoInv
  <1> SUFFICES ASSUME WhoInit PROVE WhoInv
    OBVIOUS
  <1>1. TypeOK
    BY OnlineInit DEF WhoInit, OnlineInv
  <1> QED
    BY <1>1 DEF WhoInit, WhoInv, WhoTypeOK, ShowsTheNewest, ShownOnlineIsKept

LEMMA WhoInvStep ==
  ASSUME OnlineInv, OnlineInv', WhoInv, [WhoNext]_<<vars, whoVars>>
  PROVE  WhoInv'
  <1>1. /\ TypeOK /\ TypeOK' /\ updates \in Seq(Vias) /\ entry \in Vias \cup {"none"}
        /\ OnlineMeansSubscribed'
    BY DEF OnlineInv, WhoInv, WhoTypeOK
  <1>2. CASE Next /\ Forward
    <2>1. (subscribed => subscribed') /\ asking' = asking /\ entry' = entry
      BY <1>2, SubscribedForGood DEF Forward
    <2>2. CASE asking = "collecting" /\ retained' # retained
      <3>1. updates' = Append(updates, retained') /\ retained' \in Vias
        BY <1>1, <1>2, <2>2, PublishedIsRecord DEF Forward
      <3>2. /\ updates' \in Seq(Vias) /\ Len(updates') = Len(updates) + 1 /\ updates' # <<>>
            /\ updates'[Len(updates')] = retained'
            /\ \A i \in 1..Len(updates) : updates'[i] = updates[i]
        BY <1>1, <3>1, AppendProperties
      <3>3. \A i \in 1..Len(updates') : updates'[i] = "connect" => subscribed'
        BY <1>1, <2>1, <3>2 DEF WhoInv, OnlineMeansSubscribed
      <3> QED
        BY <1>1, <2>1, <2>2, <3>2, <3>3
        DEF WhoInv, WhoTypeOK, ShowsTheNewest, ShownOnlineIsKept
    <2>3. CASE ~(asking = "collecting" /\ retained' # retained)
      <3>1. updates' = updates /\ (asking = "collecting" => retained' = retained)
        BY <1>2, <2>3 DEF Forward
      <3> QED
        BY <1>1, <2>1, <3>1 DEF WhoInv, WhoTypeOK, ShowsTheNewest, ShownOnlineIsKept
    <2> QED
      BY <2>2, <2>3
  <1>3. CASE Ask
    BY <1>1, <1>3 DEF Ask, WhoInv, WhoTypeOK, ShowsTheNewest, ShownOnlineIsKept, vars
  <1>4. CASE Replay
    <2>1. /\ asking = "subscribing" /\ asking' = "collecting" /\ entry' = entry
          /\ updates' = IF retained = "none" THEN <<>> ELSE <<retained>>
          /\ retained' = retained /\ subscribed' = subscribed
      BY <1>4 DEF Replay, vars
    <2>2. retained \in Vias \cup {"none"} /\ entry = "none"
      BY <1>1, <2>1 DEF TypeOK, Vias, WhoInv
    <2>3. CASE retained = "none"
      BY <1>1, <2>1, <2>2, <2>3 DEF WhoInv, WhoTypeOK, ShowsTheNewest, ShownOnlineIsKept
    <2>4. CASE retained # "none"
      <3>1. /\ updates' = <<retained>> /\ updates' \in Seq(Vias) /\ Len(updates') = 1
            /\ updates'[1] = retained /\ updates' # <<>>
        BY <2>1, <2>2, <2>4
      <3> QED
        BY <1>1, <2>1, <2>2, <3>1
        DEF WhoInv, WhoTypeOK, ShowsTheNewest, ShownOnlineIsKept, OnlineMeansSubscribed
    <2> QED
      BY <2>3, <2>4
  <1>5. CASE OnMessage
    <2>1. /\ updates # <<>> /\ entry' = Head(updates) /\ updates' = Tail(updates)
          /\ retained' = retained /\ subscribed' = subscribed /\ asking' = asking
          /\ asking = "collecting"
      BY <1>5 DEF OnMessage, vars, WhoInv, WhoTypeOK
    <2>2. /\ Len(updates) \in Nat \ {0} /\ updates' \in Seq(Vias)
          /\ Len(updates') = Len(updates) - 1
          /\ \A i \in 1..Len(updates') : updates'[i] = updates[i + 1]
      BY <1>1, <2>1, HeadTailProperties, EmptySeq
    <2>3. entry' = updates[1] /\ entry' \in Vias /\ retained = updates[Len(updates)]
      BY <1>1, <2>1, <2>2, ElementOfSeq DEF WhoInv, ShowsTheNewest
    <2>4. retained' = IF updates' = <<>> THEN entry' ELSE updates'[Len(updates')]
      <3>1. CASE Len(updates) = 1
        BY <2>1, <2>2, <2>3, <3>1, EmptySeq
      <3>2. CASE Len(updates) # 1
        <4>1. Len(updates') \in 1..Len(updates') /\ Len(updates') + 1 = Len(updates)
          BY <2>2, <3>2
        <4>2. updates'[Len(updates')] = updates[Len(updates)] /\ updates' # <<>>
          BY <2>2, <4>1, EmptySeq
        <4> QED
          BY <2>1, <2>3, <4>2
      <3> QED
        BY <3>1, <3>2
    <2>5. entry' = "connect" => subscribed'
      BY <2>1, <2>2, <2>3 DEF WhoInv
    <2>6. \A i \in 1..Len(updates') : updates'[i] = "connect" => subscribed'
      BY <2>1, <2>2 DEF WhoInv
    <2> QED
      BY <1>1, <2>1, <2>2, <2>3, <2>4, <2>5, <2>6
      DEF WhoInv, WhoTypeOK, ShowsTheNewest, ShownOnlineIsKept
  <1>6. CASE Show
    BY <1>1, <1>6 DEF Show, WhoInv, WhoTypeOK, ShowsTheNewest, ShownOnlineIsKept, vars
  <1>7. CASE UNCHANGED <<vars, whoVars>>
    BY <1>1, <1>7 DEF vars, whoVars, WhoInv, WhoTypeOK, ShowsTheNewest, ShownOnlineIsKept
  <1> QED
    BY <1>2, <1>3, <1>4, <1>5, <1>6, <1>7 DEF WhoNext, Who

\* A who beside it changes nothing of the agent's presence.
LEMMA PresenceBesideWho == WhoSpec => Spec
  <1>1. WhoInit => Init
    BY DEF WhoInit
  <1>2. [WhoNext]_<<vars, whoVars>> => [Next]_vars
    BY DEF WhoNext, Who, Ask, Replay, OnMessage, Show
  <1> QED
    BY <1>1, <1>2, PTL DEF WhoSpec, Spec

LEMMA WhoAlways == WhoSpec => []WhoInv
  BY WhoInvInit, WhoInvStep, PresenceBesideWho, OnlineAlways, PTL DEF WhoSpec

\* who.py with the presence it reads is well typed.
THEOREM WhoTypes == WhoSpec => []WhoTypeOK
  <1>1. WhoInv => WhoTypeOK
    BY DEF WhoInv
  <1> QED
    BY <1>1, WhoAlways, PTL

\* who.py 45-47: with nothing more on its way, a who shows what the broker retains,
\* however many records were published while it collected.
THEOREM WhoShowsNewest == WhoSpec => []ShowsTheNewest
  <1>1. WhoInv => ShowsTheNewest
    BY DEF WhoInv
  <1> QED
    BY <1>1, WhoAlways, PTL

\* who.py 70: an agent a who has shown online keeps what is sent to it.
THEOREM WhoShownOnlineIsKept == WhoSpec => []ShownOnlineIsKept
  <1>1. WhoInv => ShownOnlineIsKept
    BY DEF WhoInv
  <1> QED
    BY <1>1, WhoAlways, PTL
=============================================================================
