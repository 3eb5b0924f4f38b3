---------------------------- MODULE SendCommand -----------------------------
(***************************************************************************)
(* comms/send.py: the whole of cmd_send, in the environment of one shell.  *)
(* It composes TransportPolicy, which says by which way a message goes,    *)
(* with InboxFile, where it ends up if that way is the file.               *)
(***************************************************************************)
EXTENDS InboxFile, TransportPolicy

CONSTANTS
  Ask,           \* Ask[m]: "local", or the --via of the command that sends m
  Environments   \* with host and port, what the operator meant by broker

ASSUME SendAssumption ==
  /\ Ask \in [Msgs -> {"local", "file", "mqtt", "auto"}]
  /\ \A e \in Environments : Configured(e) =>
       IsHost(e.host) /\ IsPort(e.port) /\ e.broker \in WaysToWrite(e.host, e.port)

VARIABLES
  env,
  outcome   \* outcome[m]: how a send that did not go to the file ended

sendVars == <<vars, env, outcome>>

Dialled == {"failed", "published"}

\* Types; a message that was dialled out or refused is not in the file, too.
SendTypeOK ==
  /\ TypeOK
  /\ env \in Environments
  /\ outcome \in [Msgs -> {"none", "refused"} \cup Dialled]
  /\ \A m \in Msgs : outcome[m] # "none" => phase[m] = "unsent"

SendInit ==
  /\ Init
  /\ env \in Environments
  /\ outcome = [m \in Msgs |-> "none"]

Transport(m) == SelectTransport(Ask[m], env)

IsPending(m) == phase[m] = "unsent" /\ outcome[m] = "none"

\* The file transport starts with the message that new_message made.
SendToFile(m) ==
  /\ IsPending(m) /\ Transport(m) = "file"
  /\ Mint(m)
  /\ UNCHANGED <<env, outcome>>

\* select_transport raised.
RefuseToSend(m) ==
  /\ IsPending(m) /\ Transport(m) = "error"
  /\ outcome' = [outcome EXCEPT ![m] = "refused"]
  /\ UNCHANGED <<vars, env>>

\* publish_one: the security floor and the optional library come first, then
\* the connection, the publish and the wait for its PUBACK, each of which may
\* fail.
PublishOne(m) ==
  /\ IsPending(m) /\ Transport(m) = "mqtt"
  /\ \E o \in {"refused"} \cup IF IsAcceptable(env) THEN Dialled ELSE {} :
       outcome' = [outcome EXCEPT ![m] = o]
  /\ UNCHANGED <<vars, env>>

\* Everything else that happens to the file.
OnFile ==
  /\ \/ Read \/ Tick
     \/ \E m \in Msgs : WriteWhole(m) \/ WriteFirst(m) \/ WriteSecond(m) \/ Cut(m)
  /\ UNCHANGED <<env, outcome>>

SendNext ==
  \/ OnFile
  \/ \E m \in Msgs : SendToFile(m) \/ RefuseToSend(m) \/ PublishOne(m)

SendSpec == SendInit /\ [][SendNext]_sendVars
-----------------------------------------------------------------------------
(* Properties                                                              *)

\* send.py 86-88, mqtt.py 138-142: a message leaves this host only if its
\* command did not ask for the file, and then to the address that the operator
\* wrote, however it was written - encrypted, unless that address is this host
\* or the operator allowed plaintext.
LeavesOnlyAsMeant ==
  \A m \in Msgs : outcome[m] \in Dialled =>
    /\ Ask[m] \in {"mqtt", "auto"} /\ Configured(env)
    /\ ResolveBroker(env).host = env.host
    /\ env.port # NoPort => ResolveBroker(env).port = env.port
    /\ env.tls \/ env.host \in LoopbackHosts \/ env.allow
=============================================================================
