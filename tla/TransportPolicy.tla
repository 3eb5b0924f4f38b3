-------------------------- MODULE TransportPolicy ---------------------------
(***************************************************************************)
(* The pure part of comms/mqtt.py: what SYN_BROKER and the variables next  *)
(* to it say, and whether a message may leave by them.  A text is a        *)
(* sequence of characters, of which the parser tells four kinds apart:     *)
(* ":", "[", "]" and "0", which stands for any digit; "a" is the rest.     *)
(***************************************************************************)
EXTENDS Naturals, Sequences, FiniteSetsExt

CONSTANTS
  LoopbackHosts,
  TlsPort, PlainPort   \* the default ports, 8883 and 1883

Colons(text) == {i \in 1..Len(text) : text[i] = ":"}
IsNumber(text) == text # <<>> /\ \A i \in 1..Len(text) : text[i] = "0"

-----------------------------------------------------------------------------
(* _parse_hostport                                                         *)

\* The first of some positions, 0 if there is none.
FirstOf(positions) == IF positions = {} THEN 0 ELSE Min(positions)

\* "[host]" or "[host]:port"
FromBrackets(raw, default) ==
  LET close == FirstOf({i \in 1..Len(raw) : raw[i] = "]"})
      rest  == SubSeq(raw, close + 1, Len(raw))
      digit == FirstOf((1..Len(rest)) \ Colons(rest))
      port  == SubSeq(rest, digit, Len(rest))
  IN IF close = 0
     THEN [host |-> Tail(raw), port |-> default]
     ELSE [host |-> SubSeq(raw, 2, close - 1),
           port |-> IF digit > 0 /\ IsNumber(port) THEN port ELSE default]

\* "host:port", split at a colon
FromColon(raw, colon, default) ==
  LET port == SubSeq(raw, colon + 1, Len(raw))
  IN IF IsNumber(port)
     THEN [host |-> SubSeq(raw, 1, colon - 1), port |-> port]
     ELSE [host |-> raw, port |-> default]

\* Mutant of ParseHostport: splits at the last colon, whatever comes before.
ParseAtLastColon(raw, default) ==
  IF Head(raw) = "[" THEN FromBrackets(raw, default)
  ELSE IF Colons(raw) # {} THEN FromColon(raw, Max(Colons(raw)), default)
  ELSE [host |-> raw, port |-> default]

ParseHostport(raw, default) ==
  IF Head(raw) = "[" THEN FromBrackets(raw, default)
  ELSE IF Cardinality(Colons(raw)) = 1 THEN FromColon(raw, FirstOf(Colons(raw)), default)
  ELSE [host |-> raw, port |-> default]     \* a bare IPv6 address, or no port

-----------------------------------------------------------------------------
(* resolve_broker, check_transport_security, select_transport.  An         *)
(* environment has broker, the text of SYN_BROKER (empty if unset), tls,   *)
(* whether there is a CA, and allow, SYN_ALLOW_PLAINTEXT.                  *)

Configured(env) == env.broker # <<>>

ResolveBroker(env) ==
  ParseHostport(env.broker, IF env.tls THEN TlsPort ELSE PlainPort)

IsAcceptable(env) ==
  env.tls \/ ResolveBroker(env).host \in LoopbackHosts \/ env.allow

\* ask is "local" (--local), or the value of --via: "file", "mqtt" or "auto".
SelectTransport(ask, env) ==
  CASE ask \in {"local", "file"} -> "file"
    [] ask = "mqtt" -> IF Configured(env) THEN "mqtt" ELSE "error"
    [] ask = "auto" -> IF Configured(env) THEN "mqtt" ELSE "file"

-----------------------------------------------------------------------------
(* What an operator may write (mqtt.py 90-96): a port needs brackets       *)
(* around an address that itself has colons.                               *)

IsHost(text) == text \in Seq({":", "0", "a"}) /\ Cardinality(Colons(text)) # 1

NoPort == <<>>
IsPort(text) == text \in Seq({"0"})

InBrackets(host) == <<"[">> \o host \o <<"]">>
WaysToWrite(host, port) ==
  IF Colons(host) = {}
  THEN {IF port = NoPort THEN host ELSE host \o <<":">> \o port}
  ELSE IF port = NoPort
  THEN {host, InBrackets(host)}
  ELSE {InBrackets(host) \o <<":">> \o port}
=============================================================================
