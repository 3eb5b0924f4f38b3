------------------------------- MODULE MCSend -------------------------------
(* One inbox file, its writers and its reader, in every shell environment. *)
EXTENDS SendCommand, TLC

CONSTANTS m1, m2, m3, m4, m5

Asks == m1 :> "local" @@ m2 :> "auto" @@ m3 :> "auto" @@ m4 :> "auto" @@ m5 :> "mqtt"

\* ::1, localhost, an IPv6 address with a digit at its end, and another host
Home == <<":", ":", "0">>
Local == <<"a">>
Hosts == {Home, Local, <<"a", ":", ":", "0">>, <<"a", "a">>}
Here == {Home, Local}

Tls   == <<"0", "0", "0">>
Plain == <<"0", "0">>
Ports == {NoPort, <<"0">>}

Unset == [broker |-> <<>>, host |-> <<>>, port |-> NoPort, tls |-> FALSE, allow |-> FALSE]
Shells == {Unset} \cup
  {e \in UNION {[broker : WaysToWrite(h, p), host : {h}, port : {p}, tls : BOOLEAN, allow : BOOLEAN]
                  : h \in Hosts, p \in Ports} : ~(e.tls /\ e.allow)}
=============================================================================
