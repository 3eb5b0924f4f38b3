----------------------------- MODULE SendProofs -----------------------------
(***************************************************************************)
(* In any environment, what a send command leaves in the inbox file is     *)
(* handled as InboxFile says, and what leaves the host leaves as meant.    *)
(***************************************************************************)
EXTENDS SendCommand, InboxProofs

\* send.py 127-135: for the file and its reader, a send that goes elsewhere
\* does not happen.
THEOREM SendsAreInboxSteps == SendSpec => Spec
  <1>1. SendInit => Init
    BY DEF SendInit
  <1>2. [SendNext]_sendVars => [Next]_vars
    BY DEF SendNext, OnFile, SendToFile, RefuseToSend, PublishOne, Next, sendVars, vars
  <1> QED
    BY <1>1, <1>2, PTL DEF SendSpec, Spec

\* inbox.py 3-4: so the reader catches up with the messages that the command
\* does append, in whatever shell and by whatever choice of transport.
THEOREM SentToFileIsRead == SendSpec => []CatchesUp
  BY SendsAreInboxSteps, ReaderCatchesUp, PTL

-----------------------------------------------------------------------------
(* ParseHostport inverts WaysToWrite                                       *)

Letters == {":", "0", "a", "[", "]"}

LEMMA FirstIs ==
  ASSUME NEW S \in SUBSET Int, NEW n \in S, \A i \in S : n <= i
  PROVE  FirstOf(S) = n
  <1>1. FirstOf(S) = CHOOSE x \in S : \A y \in S : x <= y
    BY DEF FirstOf, Min
  <1>2. \A x \in S : (\A y \in S : x <= y) => x = n
    <2> SUFFICES ASSUME NEW x \in S, \A y \in S : x <= y PROVE x = n
      OBVIOUS
    <2>1. x <= n /\ n <= x /\ x \in Int /\ n \in Int
      OBVIOUS
    <2> QED
      BY <2>1
  <1> QED
    BY <1>1, <1>2

\* The middle of three texts.
LEMMA Middle ==
  ASSUME NEW s \in Seq(Letters), NEW t \in Seq(Letters), NEW u \in Seq(Letters)
  PROVE  SubSeq(s \o t \o u, Len(s) + 1, Len(s) + Len(t)) = t
  <1> DEFINE w == s \o t \o u
  <1>1. Len(s) \in Nat /\ Len(t) \in Nat /\ Len(u) \in Nat
    BY LenProperties
  <1>2. s \o t \in Seq(Letters) /\ Len(s \o t) = Len(s) + Len(t)
    BY ConcatProperties
  <1>3. /\ w \in Seq(Letters) /\ Len(w) = Len(s) + Len(t) + Len(u)
        /\ \A i \in 1..Len(t) : w[Len(s) + i] = (s \o t)[Len(s) + i]
    BY <1>1, <1>2, ConcatProperties
  <1>4. \A i \in 1..Len(t) : (s \o t)[Len(s) + i] = t[i]
    BY <1>1, ConcatProperties
  <1>5. \A i \in (Len(s) + 1)..(Len(s) + Len(t)) : w[i] \in Letters
    BY <1>1, <1>3, ElementOfSeq
  <1> HIDE DEF w
  <1>6. /\ SubSeq(w, Len(s) + 1, Len(s) + Len(t)) \in Seq(Letters)
        /\ Len(SubSeq(w, Len(s) + 1, Len(s) + Len(t))) = Len(t)
        /\ \A i \in 1..Len(t) : SubSeq(w, Len(s) + 1, Len(s) + Len(t))[i] = w[Len(s) + 1 + i - 1]
    BY <1>1, <1>5, SubSeqProperties
  <1>7. \A i \in 1..Len(t) : w[Len(s) + 1 + i - 1] = t[i]
    BY <1>1, <1>3, <1>4
  <1>8. SubSeq(w, Len(s) + 1, Len(s) + Len(t)) = t
    BY <1>6, <1>7, SeqEqual
  <1> QED
    BY <1>8 DEF w

LEMMA Types ==
  ASSUME NEW host, IsHost(host), NEW port, IsPort(port)
  PROVE  /\ host \in Seq(Letters) /\ Len(host) \in Nat
         /\ port \in Seq(Letters) /\ Len(port) \in Nat
         /\ \A i \in 1..Len(host) : host[i] \notin {"[", "]"}
         /\ \A i \in 1..Len(port) : port[i] = "0"
         /\ port # NoPort => IsNumber(port) /\ Len(port) > 0
         /\ ~IsNumber(NoPort)
  <1>1. host \in Seq({":", "0", "a"}) /\ port \in Seq({"0"})
    BY DEF IsHost, IsPort
  <1>2. host \in Seq(Letters) /\ port \in Seq(Letters)
    BY <1>1, SeqMonotonic DEF Letters
  <1>3. Len(host) \in Nat /\ Len(port) \in Nat
    BY <1>1, LenProperties
  <1>4. \A i \in 1..Len(host) : host[i] \in {":", "0", "a"}
    BY <1>1, ElementOfSeq
  <1>5. \A i \in 1..Len(port) : port[i] \in {"0"}
    BY <1>1, ElementOfSeq
  <1>6. port # <<>> => Len(port) > 0
    BY <1>1, EmptySeq
  <1> QED
    BY <1>2, <1>3, <1>4, <1>5, <1>6 DEF IsNumber, NoPort

\* A name, or an address with several colons, without a port.
LEMMA ParsesBare ==
  ASSUME NEW host, IsHost(host), host # <<>>, NEW default
  PROVE  ParseHostport(host, default) = [host |-> host, port |-> default]
  <1>1. host \in Seq({":", "0", "a"})
    BY DEF IsHost
  <1>2. Head(host) # "["
    BY <1>1, HeadTailProperties
  <1> QED
    BY <1>2 DEF ParseHostport, IsHost

\* A name with a port.
LEMMA ParsesColon ==
  ASSUME NEW host, IsHost(host), Colons(host) = {},
         NEW port, IsPort(port), port # NoPort, NEW default
  PROVE  ParseHostport(host \o <<":">> \o port, default) = [host |-> host, port |-> port]
  <1> DEFINE raw == host \o <<":">> \o port
             n   == Len(host) + 1
  <1>1. /\ host \in Seq(Letters) /\ Len(host) \in Nat
        /\ port \in Seq(Letters) /\ Len(port) \in Nat
        /\ \A i \in 1..Len(host) : host[i] \notin {"[", "]"}
        /\ \A i \in 1..Len(port) : port[i] = "0"
        /\ IsNumber(port) /\ Len(port) > 0
    BY Types
  <1>2. <<":">> \in Seq(Letters) /\ Len(<<":">>) = 1 /\ <<":">>[1] = ":"
    BY DEF Letters
  <1>3. /\ host \o <<":">> \in Seq(Letters) /\ Len(host \o <<":">>) = n
        /\ \A i \in 1..n : (host \o <<":">>)[i] = IF i <= Len(host) THEN host[i] ELSE ":"
    BY <1>1, <1>2, ConcatProperties
  <1>4. /\ raw \in Seq(Letters) /\ Len(raw) = n + Len(port)
        /\ \A i \in 1..(n + Len(port)) :
             raw[i] = IF i <= n THEN (host \o <<":">>)[i] ELSE port[i - n]
    BY <1>1, <1>3, ConcatProperties
  <1>5. \A i \in 1..Len(raw) : raw[i] = IF i <= Len(host) THEN host[i]
                                       ELSE IF i = n THEN ":" ELSE "0"
    BY <1>1, <1>3, <1>4
  <1>6. Colons(raw) = {n}
    BY <1>1, <1>4, <1>5 DEF Colons
  <1>7. Head(raw) # "["
    <2>1. 1 \in 1..Len(raw) /\ Head(raw) = raw[1]
      BY <1>1, <1>4
    <2> QED
      BY <2>1, <1>1, <1>5
  <1>8. Cardinality(Colons(raw)) = 1 /\ FirstOf(Colons(raw)) = n
    <2>1. Cardinality({n}) = 1
      BY FS_Singleton
    <2>2. n \in Int /\ \A i \in {n} : n <= i
      BY <1>1
    <2>3. FirstOf({n}) = n
      BY <2>2, FirstIs
    <2> QED
      BY <1>6, <2>1, <2>3
  <1>9. SubSeq(raw, n + 1, Len(raw)) = port
    <2>1. (host \o <<":">>) \o port \o <<>> = raw
      BY <1>1, <1>3, <1>4, ConcatEmptySeq
    <2>2. SubSeq((host \o <<":">>) \o port \o <<>>, n + 1, n + Len(port)) = port
      BY <1>1, <1>3, Middle, EmptySeq
    <2> QED
      BY <2>1, <2>2, <1>4
  <1>10. SubSeq(raw, 1, n - 1) = host
    <2>1. <<>> \o host \o (<<":">> \o port) = raw
      BY <1>1, <1>2, ConcatEmptySeq, ConcatAssociative
    <2>2. SubSeq(<<>> \o host \o (<<":">> \o port), Len(<<>>) + 1, Len(<<>>) + Len(host)) = host
      BY <1>1, <1>2, Middle, EmptySeq, ConcatProperties
    <2>3. Len(<<>>) = 0
      OBVIOUS
    <2> QED
      BY <2>1, <2>2, <2>3, <1>1
  <1> HIDE DEF raw, n
  <1>11. FromColon(raw, n, default) = [host |-> host, port |-> port]
    BY <1>1, <1>9, <1>10 DEF FromColon
  <1>12. ParseHostport(raw, default) = [host |-> host, port |-> port]
    BY <1>7, <1>8, <1>11 DEF ParseHostport
  <1> QED
    BY <1>12 DEF raw

\* What follows an address in brackets.
Ending(port) == IF port = NoPort THEN <<>> ELSE <<":">> \o port

\* An address in brackets, with or without a port.
LEMMA ParsesBrackets ==
  ASSUME NEW host, IsHost(host), NEW port, IsPort(port), NEW default
  PROVE  ParseHostport(InBrackets(host) \o Ending(port), default)
           = [host |-> host, port |-> IF port = NoPort THEN default ELSE port]
  <1> DEFINE rest == Ending(port)
             raw  == InBrackets(host) \o rest
             n    == Len(host) + 2
  <1>1. /\ host \in Seq(Letters) /\ Len(host) \in Nat
        /\ port \in Seq(Letters) /\ Len(port) \in Nat
        /\ \A i \in 1..Len(host) : host[i] \notin {"[", "]"}
        /\ \A i \in 1..Len(port) : port[i] = "0"
        /\ port # NoPort => IsNumber(port) /\ Len(port) > 0
    BY Types
  <1>0. n = Len(host) + 2 /\ n \in Nat
    BY <1>1
  <1> HIDE DEF n
  <1>2. \A c \in Letters : <<c>> \in Seq(Letters) /\ Len(<<c>>) = 1 /\ <<c>>[1] = c
    BY DEF Letters
  <1>3. "[" \in Letters /\ "]" \in Letters /\ ":" \in Letters
    BY DEF Letters
  <1>4. /\ rest \in Seq(Letters)
        /\ port # NoPort => /\ Len(rest) = 1 + Len(port)
                           /\ \A i \in 1..(1 + Len(port)) : rest[i] = IF i <= 1 THEN ":" ELSE port[i - 1]
    <2>1. CASE port = NoPort
      BY <2>1, EmptySeq DEF Ending
    <2>2. CASE port # NoPort
      <3>1. /\ <<":">> \o port \in Seq(Letters) /\ Len(<<":">> \o port) = 1 + Len(port)
            /\ \A i \in 1..(1 + Len(port)) :
                 (<<":">> \o port)[i] = IF i <= 1 THEN <<":">>[i] ELSE port[i - 1]
        BY <1>1, <1>2, <1>3, ConcatProperties
      <3> QED
        BY <2>2, <3>1, <1>1 DEF Ending
    <2> QED
      BY <2>1, <2>2
  <1>18. rest = IF port = NoPort THEN <<>> ELSE <<":">> \o port
    BY DEF Ending
  <1> HIDE DEF rest
  <1>5. /\ <<"[">> \o host \in Seq(Letters) /\ Len(<<"[">> \o host) = 1 + Len(host)
        /\ \A i \in 1..(1 + Len(host)) :
             (<<"[">> \o host)[i] = IF i <= 1 THEN <<"[">>[i] ELSE host[i - 1]
    BY <1>1, <1>2, <1>3, ConcatProperties
  <1>6. /\ InBrackets(host) \in Seq(Letters) /\ Len(InBrackets(host)) = n
        /\ \A i \in 1..n : InBrackets(host)[i]
             = IF i <= 1 + Len(host) THEN (<<"[">> \o host)[i] ELSE <<"]">>[i - (1 + Len(host))]
    BY <1>0, <1>1, <1>2, <1>3, <1>5, ConcatProperties DEF InBrackets
  <1>7. \A i \in 1..n : InBrackets(host)[i]
          = IF i = 1 THEN "[" ELSE IF i = n THEN "]" ELSE host[i - 1]
    BY <1>0, <1>1, <1>2, <1>3, <1>5, <1>6
  <1>8. /\ raw \in Seq(Letters) /\ Len(raw) = n + Len(rest) /\ Len(rest) \in Nat
        /\ \A i \in 1..n : raw[i] = InBrackets(host)[i]
    <2>1. n \in Nat /\ Len(rest) \in Nat
      BY <1>0, <1>4, LenProperties
    <2>2. /\ raw \in Seq(Letters) /\ Len(raw) = Len(InBrackets(host)) + Len(rest)
          /\ \A i \in 1..(Len(InBrackets(host)) + Len(rest)) : raw[i]
               = IF i <= Len(InBrackets(host)) THEN InBrackets(host)[i] ELSE rest[i - Len(InBrackets(host))]
      BY <1>4, <1>6, ConcatProperties
    <2> HIDE DEF raw
    <2> QED
      BY <1>6, <2>1, <2>2
  <1> HIDE DEF raw
  <1>17. n >= 2 /\ Len(raw) \in Nat /\ Len(raw) >= n
    <2>1. Len(raw) = n + Len(rest) /\ Len(rest) \in Nat
      BY <1>8
    <2>2. Len(host) \in Nat
      BY <1>1
    <2>3. n >= 2
      BY <1>0, <2>2
    <2> QED
      BY <1>0, <2>1, <2>3
  <1>9. Head(raw) = "["
    <2>1. 1 \in 1..n /\ 1 \in 1..Len(raw)
      BY <1>0, <1>17
    <2>2. raw[1] = "["
      BY <2>1, <1>7, <1>8
    <2> QED
      BY <2>1, <2>2, <1>8
  <1>10. FirstOf({i \in 1..Len(raw) : raw[i] = "]"}) = n
    <2> DEFINE S == {i \in 1..Len(raw) : raw[i] = "]"}
    <2>1. S \in SUBSET Int
      BY <1>17
    <2>2. n \in S
      <3>1. n \in 1..n /\ n \in 1..Len(raw) /\ n # 1
        BY <1>0, <1>17
      <3> QED
        BY <3>1, <1>7, <1>8
    <2>3. \A i \in S : n <= i
      <3> SUFFICES ASSUME NEW i \in 1..Len(raw), i < n PROVE raw[i] # "]"
        BY <1>0, <1>17
      <3>1. i \in 1..n /\ i # n /\ (i = 1 \/ i - 1 \in 1..Len(host))
        BY <1>0, <1>1
      <3>2. raw[i] = IF i = 1 THEN "[" ELSE host[i - 1]
        BY <3>1, <1>7, <1>8
      <3> QED
        BY <3>1, <3>2, <1>1
    <2> HIDE DEF S
    <2>4. FirstOf(S) = n
      BY <2>1, <2>2, <2>3, FirstIs
    <2> QED
      BY <2>4 DEF S
  <1>11. SubSeq(raw, 2, n - 1) = host
    <2>1. (<<"[">> \o host) \o (<<"]">> \o rest) = raw
      <3> DEFINE a == <<"[">> \o host
                 b == <<"]">>
      <3>1. a \in Seq(Letters) /\ b \in Seq(Letters) /\ rest \in Seq(Letters)
        BY <1>2, <1>3, <1>4, <1>5
      <3> HIDE DEF a, b
      <3>2. (a \o b) \o rest = a \o (b \o rest)
        BY <3>1, ConcatAssociative
      <3> QED
        BY <3>2 DEF InBrackets, raw, a, b
    <2>2. <<"]">> \o rest \in Seq(Letters)
      BY <1>2, <1>3, <1>4, ConcatProperties
    <2>3. SubSeq(<<"[">> \o host \o (<<"]">> \o rest), Len(<<"[">>) + 1, Len(<<"[">>) + Len(host)) = host
      BY <1>1, <1>2, <1>3, <2>2, Middle
    <2>4. Len(<<"[">>) + 1 = 2 /\ Len(<<"[">>) + Len(host) = n - 1
      BY <1>0, <1>1, <1>2, <1>3
    <2> QED
      BY <2>1, <2>3, <2>4
  <1>12. SubSeq(raw, n + 1, Len(raw)) = rest
    <2>1. InBrackets(host) \o rest \o <<>> = raw
      BY <1>8, ConcatEmptySeq DEF raw
    <2>2. SubSeq(InBrackets(host) \o rest \o <<>>, Len(InBrackets(host)) + 1,
                 Len(InBrackets(host)) + Len(rest)) = rest
      BY <1>4, <1>6, Middle, EmptySeq
    <2> QED
      BY <2>1, <2>2, <1>6, <1>8
  <1> DEFINE digits == (1..Len(rest)) \ Colons(rest)
             number == SubSeq(rest, FirstOf(digits), Len(rest))
  <1>13. port = NoPort => FirstOf(digits) = 0
    <2>1. port = NoPort => digits = {}
      BY <1>18 DEF Colons
    <2> QED
      BY <2>1 DEF FirstOf
  <1>14. port # NoPort => FirstOf(digits) = 2 /\ number = port
    <2> SUFFICES ASSUME port # NoPort PROVE FirstOf(digits) = 2 /\ number = port
      OBVIOUS
    <2>1. digits = 2..Len(rest) /\ 2 <= Len(rest)
      <3>1. Len(rest) = 1 + Len(port) /\ Len(port) \in Nat /\ Len(port) > 0
        BY <1>1, <1>4
      <3>2. rest[1] = ":"
        BY <1>4, <3>1
      <3>3. ASSUME NEW i \in 2..Len(rest) PROVE rest[i] # ":"
        <4>1. i \in 1..(1 + Len(port)) /\ ~(i <= 1) /\ i - 1 \in 1..Len(port)
          BY <3>1
        <4>2. rest[i] = port[i - 1]
          BY <4>1, <1>4
        <4> QED
          BY <4>1, <4>2, <1>1
      <3> QED
        BY <3>1, <3>2, <3>3 DEF Colons
    <2>2. digits \in SUBSET Int /\ 2 \in digits /\ \A i \in digits : 2 <= i
      BY <2>1, <1>8
    <2>3. FirstOf(digits) = 2
      BY <2>2, FirstIs
    <2>4. <<":">> \o port \o <<>> = rest
      BY <1>1, <1>4, <1>18, ConcatEmptySeq
    <2>5. SubSeq(<<":">> \o port \o <<>>, Len(<<":">>) + 1, Len(<<":">>) + Len(port)) = port
      BY <1>1, <1>2, <1>3, Middle, EmptySeq
    <2>6. Len(<<":">>) + 1 = 2 /\ Len(<<":">>) + Len(port) = Len(rest)
      BY <1>1, <1>2, <1>3, <1>4
    <2> QED
      BY <2>3, <2>4, <2>5, <2>6
  <1> HIDE DEF digits, number
  <1>15. FromBrackets(raw, default)
           = [host |-> SubSeq(raw, 2, n - 1),
              port |-> IF FirstOf(digits) > 0 /\ IsNumber(number) THEN number ELSE default]
    <2>1. n # 0
      BY <1>0, <1>1
    <2> QED
      BY <1>10, <1>12, <2>1 DEF FromBrackets, digits, number
  <1>16. ParseHostport(raw, default)
           = [host |-> host, port |-> IF port = NoPort THEN default ELSE port]
    <2>1. ParseHostport(raw, default) = FromBrackets(raw, default)
      BY <1>9 DEF ParseHostport
    <2>2. (IF FirstOf(digits) > 0 /\ IsNumber(number) THEN number ELSE default)
            = IF port = NoPort THEN default ELSE port
      <3>1. CASE port = NoPort
        BY <3>1, <1>13
      <3>2. CASE port # NoPort
        BY <3>2, <1>1, <1>14
      <3> QED
        BY <3>1, <3>2
    <2> QED
      BY <2>1, <2>2, <1>11, <1>15
  <1> QED
    BY <1>16 DEF raw, rest

\* mqtt.py 90-97: whichever way an operator writes a host and a port, the parser
\* finds both, and takes the default for a port that is not there.
THEOREM ParserInvertsSpelling ==
  ASSUME NEW host, IsHost(host), NEW port, IsPort(port), NEW default,
         NEW text \in WaysToWrite(host, port), text # <<>>
  PROVE  ParseHostport(text, default)
           = [host |-> host, port |-> IF port = NoPort THEN default ELSE port]
  <1>1. CASE port = NoPort /\ text = host
    BY <1>1, ParsesBare
  <1>2. CASE port = NoPort /\ text = InBrackets(host)
    <2>1. text \o Ending(port) = text
      <3>1. host \in Seq(Letters)
        BY Types
      <3>2. <<"[">> \in Seq(Letters) /\ <<"]">> \in Seq(Letters)
        BY DEF Letters
      <3>3. text \in Seq(Letters)
        BY <1>2, <3>1, <3>2, ConcatProperties DEF InBrackets
      <3> QED
        BY <1>2, <3>3, ConcatEmptySeq DEF Ending
    <2> QED
      BY <1>2, <2>1, ParsesBrackets
  <1>3. CASE Colons(host) = {} /\ port # NoPort /\ text = host \o <<":">> \o port
    BY <1>3, ParsesColon
  <1>4. CASE port # NoPort /\ text = InBrackets(host) \o <<":">> \o port
    <2>1. text = InBrackets(host) \o Ending(port)
      <3> DEFINE a == InBrackets(host)
                 b == <<":">>
      <3>1. host \in Seq(Letters) /\ port \in Seq(Letters)
        BY Types
      <3>2. <<"[">> \in Seq(Letters) /\ <<"]">> \in Seq(Letters) /\ b \in Seq(Letters)
        BY DEF Letters
      <3>3. a \in Seq(Letters)
        BY <3>1, <3>2, ConcatProperties DEF InBrackets
      <3>4. text = (a \o b) \o port /\ Ending(port) = b \o port
        BY <1>4 DEF Ending
      <3> HIDE DEF a, b
      <3>5. (a \o b) \o port = a \o (b \o port)
        BY <3>1, <3>2, <3>3, ConcatAssociative
      <3> QED
        BY <3>4, <3>5 DEF a
    <2> QED
      BY <1>4, <2>1, ParsesBrackets
  <1> QED
    BY <1>1, <1>2, <1>3, <1>4 DEF WaysToWrite

-----------------------------------------------------------------------------
(* What leaves the host                                                    *)

SendInv ==
  /\ env \in Environments
  /\ outcome \in [Msgs -> {"none", "refused"} \cup Dialled]
  /\ \A m \in Msgs : outcome[m] # "none" => phase[m] = "unsent"
  /\ LeavesOnlyAsMeant

\* A message that PublishOne dials out leaves as it was meant to.
LEMMA DiallingIsMeant ==
  ASSUME env \in Environments, NEW m \in Msgs, Transport(m) = "mqtt", IsAcceptable(env)
  PROVE  /\ Ask[m] \in {"mqtt", "auto"} /\ Configured(env)
         /\ ResolveBroker(env).host = env.host
         /\ env.port # NoPort => ResolveBroker(env).port = env.port
         /\ env.tls \/ env.host \in LoopbackHosts \/ env.allow
  <1>1. Ask[m] \in {"local", "file", "mqtt", "auto"}
    BY SendAssumption
  <1>2. Ask[m] \in {"mqtt", "auto"} /\ Configured(env)
    BY <1>1 DEF Transport, SelectTransport
  <1>3. /\ IsHost(env.host) /\ IsPort(env.port)
        /\ env.broker \in WaysToWrite(env.host, env.port) /\ env.broker # <<>>
    BY <1>2, SendAssumption DEF Configured
  <1>4. ResolveBroker(env)
          = [host |-> env.host,
             port |-> IF env.port = NoPort THEN IF env.tls THEN TlsPort ELSE PlainPort
                                           ELSE env.port]
    BY <1>3, ParserInvertsSpelling DEF ResolveBroker
  <1> QED
    BY <1>2, <1>4 DEF IsAcceptable

LEMMA SendStep == TypeOK /\ SendInv /\ [SendNext]_sendVars => SendInv'
  <1> SUFFICES ASSUME TypeOK, SendInv, [SendNext]_sendVars PROVE SendInv'
    OBVIOUS
  <1>0. /\ outcome \in [Msgs -> {"none", "refused"} \cup Dialled]
        /\ phase \in [Msgs -> {"unsent", "minted", "half", "reported", "cut"}]
    BY DEF SendInv, TypeOK
  <1>1. CASE OnFile
    <2>1. UNCHANGED <<env, outcome>>
      BY <1>1 DEF OnFile
    <2>2. \A m \in Msgs : phase[m] = "unsent" => phase'[m] = "unsent"
      BY <1>0, <1>1 DEF OnFile, Read, Tick, WriteWhole, WriteFirst, WriteSecond, Cut
    <2> QED
      BY <2>1, <2>2 DEF SendInv, LeavesOnlyAsMeant
  <1>2. ASSUME NEW m \in Msgs, SendToFile(m) PROVE SendInv'
    BY <1>0, <1>2 DEF SendToFile, IsPending, Mint, SendInv, LeavesOnlyAsMeant
  <1>3. ASSUME NEW m \in Msgs, RefuseToSend(m) PROVE SendInv'
    BY <1>0, <1>3
    DEF RefuseToSend, IsPending, SendInv, LeavesOnlyAsMeant, Dialled, vars
  <1>4. ASSUME NEW m \in Msgs, PublishOne(m) PROVE SendInv'
    <2>1. PICK o \in {"refused"} \cup IF IsAcceptable(env) THEN Dialled ELSE {} :
            outcome' = [outcome EXCEPT ![m] = o]
      BY <1>4 DEF PublishOne
    <2>2. env' = env /\ phase' = phase /\ phase[m] = "unsent" /\ Transport(m) = "mqtt"
      BY <1>4 DEF PublishOne, IsPending, vars
    <2>3. outcome' \in [Msgs -> {"none", "refused"} \cup Dialled]
      BY <1>0, <2>1
    <2>4. LeavesOnlyAsMeant'
      <3> SUFFICES ASSUME NEW n \in Msgs, outcome'[n] \in Dialled
                   PROVE  /\ Ask[n] \in {"mqtt", "auto"} /\ Configured(env)
                          /\ ResolveBroker(env).host = env.host
                          /\ env.port # NoPort => ResolveBroker(env).port = env.port
                          /\ env.tls \/ env.host \in LoopbackHosts \/ env.allow
        BY <2>2 DEF LeavesOnlyAsMeant
      <3>1. CASE n = m
        <4>1. o \in Dialled
          BY <1>0, <2>1, <3>1
        <4>2. IsAcceptable(env)
          BY <2>1, <4>1 DEF Dialled
        <4> QED
          BY <2>2, <3>1, <4>2, DiallingIsMeant DEF SendInv
      <3>2. CASE n # m
        BY <1>0, <2>1, <3>2 DEF SendInv, LeavesOnlyAsMeant
      <3> QED
        BY <3>1, <3>2
    <2> QED
      BY <1>0, <2>1, <2>2, <2>3, <2>4 DEF SendInv
  <1>5. CASE UNCHANGED sendVars
    BY <1>5 DEF sendVars, vars, SendInv, LeavesOnlyAsMeant
  <1> QED
    BY <1>1, <1>2, <1>3, <1>4, <1>5 DEF SendNext

LEMMA SendInvariant == SendSpec => []SendInv
  <1>1. SendInit => SendInv
    BY DEF SendInit, SendInv, Init, LeavesOnlyAsMeant, Dialled
  <1> QED
    BY <1>1, SendStep, SendsAreInboxSteps, InboxTypes, PTL DEF SendSpec

\* The send command keeps its types, and a message is either in the file or
\* went elsewhere.
THEOREM SendTypes == SendSpec => []SendTypeOK
  <1>1. TypeOK /\ SendInv => SendTypeOK
    BY DEF SendInv, SendTypeOK
  <1> QED
    BY <1>1, SendInvariant, SendsAreInboxSteps, InboxTypes, PTL

\* mqtt.py 138-142: in every environment, a message leaves the host only if its
\* command did not ask for the file, to the address that was written, encrypted
\* unless that is this host or plaintext was allowed.
THEOREM SendsAsMeant == SendSpec => []LeavesOnlyAsMeant
  <1>1. SendInv => LeavesOnlyAsMeant
    BY DEF SendInv
  <1> QED
    BY <1>1, SendInvariant, PTL
=============================================================================
