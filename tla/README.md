# A TLA+ verification of synnoesis

Synnoesis is a mesh of agents that exchange signed messages over an MQTT broker
or a shared directory. These modules model the parts of it whose correctness
depends on the order of steps of several processes, on crashes, redelivery and
clocks. They are checked with TLC on small instances and, for the properties that
matter most, proved with TLAPS for every value of the constants.

Line numbers are those of the sources under `src/`.

## 1. Inventory

| component | state it keeps | operations | talks to |
|---|---|---|---|
| listener (`comms/listen.py`) | `seen`, the nonce cache, in memory; `<me>-inbox.jsonl`, appended | `process_incoming`, `on_message`, `run` (start, connect, stop) | broker, keyring file, inbox file |
| broker client (`comms/mqtt.py`) | none of its own; the broker holds the durable session | `open_subscriber`, `publish_one`, transport policy | broker |
| signing (`comms/sign.py`) | private key files, `mesh-keyring.json` (read) | `new_message`, `verify_against_keyring`, `load_keyring[_strict]`, record signatures | files |
| keyring commands (`comms/keyring.py`) | `mesh-keyring.json` and its `.tmp` | `--add`, `--import`, `--export` | other keyring commands, through the file |
| agent runner (`comms/agent.py`) | `seen`, the reply `Budget`, the inbox file | `on_message`, `decide`, `call_model`, `_send_reply` | broker, model endpoint |
| presence (`comms/presence.py`, `comms/who.py`) | a retained record per agent, at the broker | last will, online, clean shutdown, `peek`, `offline_note`, `who` | broker, listener, sender |
| inbox reader (`comms/inbox.py`) | none; reads the inbox file | `main`: filter, sort, limit, enforce | inbox file |
| sender (`comms/send.py`, `comms/wire.py`) | none; appends to the inbox file in file mode | `cmd_send` | broker or file, presence |
| key generation (`comms/keygen.py`) | the private key file `mesh-keys/<agent>.key`; the public key is shown once | `cmd_keygen` | signing, through the file; a peer's keyring commands, through people |
| transport policy (`comms/mqtt.py` 89-202) | none (pure) | `_parse_hostport`, `resolve_broker`, `check_transport_security`, `select_transport` | environment |
| paths, doctor, fingerprint, dispatcher, release gate | none | look-ups and diagnosis | - |

What is hard in it:

* **redelivery**: the broker hands a message over again after any crash or broken
  connection before its PUBACK; publishers repeat packets; only an in-memory nonce
  cache with an expiry tells copies apart;
* **clocks**: freshness compares the sender's clock with the listener's, and the
  cache uses the listener's alone;
* **crashes** between the append and the PUBACK, and inside the keyring's
  write-then-rename;
* **interleavings** of keyring commands on one ring and one `.tmp` name;
* **promises to a human**: an offline note, a "registered", a budget notice - each
  states something about another process's state.

What makes each component right:

* listener: nothing accepted is lost; duplicates are written only where the design
  says so; order is kept; the cache is bounded; the queue drains;
* keyring: the ring is never torn, never silently overwritten, every reported
  command took effect;
* agent runner: no window sees more than one reply over the budget leave, nobody is refused
  before it is spent, an exhausted budget is announced once per window, nobody else's message is ignored in silence, and the agent comes
  back after each send that cuts it off;
* keys: an identity that was reported is the one that signs, and a peer that pinned it accepts
  what it signs, until somebody rotates it;
* presence: `offline_note` is true of the message it accompanies; a dead listener
  does not stay online, a live one does not stay offline, unless it failed to say so; `who` shows the newest record;
* inbox reader: a reader that runs often enough sees every whole record once, or counts it as
  suppressed; what a torn line costs is bounded;
* sender and transport policy: a message goes to the address the operator wrote, never to the
  broker if the command asked for the file, and in plaintext only where the operator allowed it.

## 2. Modules

| module | what it is |
|---|---|
| `Listener` | `listen.py` with its durable session, senders, key store and clock |
| `DurableMailbox` | the abstract mailbox `Listener` implements |
| `MCListener` | TLC instances of `Listener` |
| `ListenerProofs` | types, dedup, cache bound and when a message is written once, proved |
| `ListenerMailboxProofs` | refinement of `DurableMailbox`, order and that nothing is lost, proved |
| `KeyringMerge` | what `--add` and `--import` do to a ring in memory |
| `AtomicKeyring` | the ring as its commands present it: each takes effect at once |
| `KeyringStore` | the commands as processes on one file system |
| `MCKeyring` | TLC instances of `KeyringStore`, for the two races |
| `KeyringProofs` | types, the fate of a corrupt ring, and what serial commands guarantee, proved |
| `KeyFile` | `keygen.py` and the signer that reads the key it writes |
| `Signing` | the pure part of `sign.py`: what is signed, in which form, and what is accepted |
| `MeshTrust` | composes `KeyFile`, `KeyringStore` and `Signing`: from a keygen to a verdict |
| `MCTrust` | TLC instance of `MeshTrust` |
| `TrustProofs` | identities, pins, verdicts, what races break and what they cannot, proved |
| `Presence` | presence record, session and client id of one agent; its listeners and senders |
| `WhoCommand` | `who.py`: composes `Presence` with a process that collects the records |
| `MCPresence` | TLC instances of `WhoCommand` |
| `PresenceProofs` | shown online implies subscribed, the record follows the connection, and what `who` shows, proved |
| `AgentRunner` | `agent.py`: decide, budget, model turn, replies and notices |
| `MCAgent` | TLC instances of `AgentRunner` |
| `AgentProofs` | types, budget and notices, proved |
| `InboxFile` | one inbox file, the processes that append to it and `inbox.py` |
| `InboxProofs` | confinement of losses and completeness of the reader, proved |
| `TransportPolicy` | the pure part of `mqtt.py` (89-202) |
| `SendCommand` | `send.py`: composes `TransportPolicy` and `InboxFile` |
| `MCSend` | TLC instance of `SendCommand` |
| `SendProofs` | what leaves the host and what stays, proved |

### 2.1 Listener

One listener, its session at the broker, any number of senders.

| variable | code |
|---|---|
| `seen`, `life` | the local `seen` of `run` (172), which dies with the process; `life` counts the processes that wrote a line or threw a nonce out (one that left no trace gives its number back, so that there may be any number of restarts) |
| `queue`, `handled`, `subscribed` | the broker's session (`clean_session=False`, 229): unacknowledged messages, how many of them `on_message` has returned from, and whether the SUBSCRIBE of `_on_connect` (mqtt.py 332) has ever arrived |
| `conn`, `losses` | no process, a process without a connection, a connection |
| `inbox` | the file appended to in 182-183; each line carries when and by which process it was written |
| `at`, `copies` | the signed `_at` (sign.py 412), how often the broker got the message |
| `keyring` | what `load_keyring` returns, reloaded for each message (176) |
| `verdicts`, `trimmed`, `accepted` | history: what was printed, which nonces the cap threw out, in which order the session took the messages |

`OnMessage(m)` is the whole of `on_message` with `process_incoming`: parse, evict,
trim, dedup, record, freshness, verify, enforce, append or fail to append - when it returns.
`Raise(m)` is when it does not: a `_from` or `_nonce` that is a list or an object cannot be looked up
(116, sign.py 336), and a lone surrogate cannot be encoded (183; the `UnicodeEncodeError` is no
`OSError`). paho lets the exception through, the process ends without a PUBACK, and the session
keeps the message for the next process, for ever: `MustRaise` says when that is certain, and
`Unencodable` messages may raise or be dropped first. The
PUBACK is an action of its own: paho sends it when the callback has returned, and a
crash can come between. `Start`, `Connect`, `Subscribe`, `ConnLost`, `Stop` are the
process and its connection (`losses` counts what ends either from outside); `Publish`, `Republish`, `Pin`, `LoseKeyring`, `Tick` are
everybody else.

Abstractions: a message *is* its (sender, nonce) pair, for the nonce is eight random
bytes; signatures are an equality of keys; the payload is in some of five classes
(no JSON object, no nonce, no parsable date, unhashable, unencodable); which of several nonces that expire
together survive the cap is left open. A line torn by a crash inside the append is not
modelled here but in `InboxFile`.

### 2.2 Keyring

Each command is a process: `Load` (strict read, conflict check and merge, all on the
copy in memory), `Open`, `Write`, `Replace` are the system calls of `_write`, and
`Die` may come between any two. Files are inodes, so that a rename moves a file some
other command is still writing to. `Exclusive` says whether the operator runs one
command at a time; nothing in the code does.

### 2.3 Key file, signatures and trust

`KeyFile` is one agent's machine. A keygen is a process of four steps, any of which may be its
last: look for a key (72), open the file and thereby empty it, write the line (81), show the public
half (87). A key pair is named by the keygen that drew it.

| variable | code |
|---|---|
| `stage` | how far each `cmd_keygen` is |
| `keyFile` | `<agent>.key`: absent, just emptied, or the key of one keygen |
| `signature` | the key each message, presence record and last will was signed with, by `load_private_key` (sign.py 353-361), which reads an empty file as no key |
| `pin` | the key `load_keyring` gave the peer for the agent when it verified |
| `before`, `known`, `earlier` | history: what had ended or been reported when a keygen looked, a signature was made, a keyring command loaded |

`MeshTrust` puts a peer's keyring commands beside it. A command can be given a key of the
agent only after a keygen has shown it (`IsTold`: the fingerprint read over a trusted channel); verifying
comes at any time after signing, so that messages and wills may be in flight during a rotation.
`Signing` says what a signature covers: six fields of a message, untagged; all of a record, behind the
presence tag; a verifier tries the tag it expects and then none. `Made`, `Accepts`, `Verdict` follow one
message and one record from `new_message` and `presence.build` to the status words of
`verify_against_keyring`.

Abstractions: `cryptography` is installed; a signature equals another exactly if key, tag and
fields do; a one-line key file is written in one piece; an out-of-band message is not forged.
Two properties carry exceptions the code does have: `Takes` names the keygens that may cost another
its reported identity, those given `--force` and those that ran at the same time - two *unforced* ones
at once both report an identity, and one of them is gone, which is therefore stated here and not caught
by a property; and something genuine is found
"bad" when it was signed before a rotation and is verified after it, which sign.py 324 calls
"forgery / tamper". Without a rotation neither can happen.

### 2.4 Presence

One agent; the listener processes that ever use its client id, one after the other or, by
mistake, at once; the broker's session, retained record and connection for that client
id; senders that look the agent up after a send.

| variable | code |
|---|---|
| `pc` | where a process is in `listen.run`: connecting, up, reconnecting inside `loop_forever`, waiting for the PUBACK of its OFFLINE (244-248), gone |
| `wire` | the packets a connection has sent and the broker has not read |
| `holder` | the connection the broker has for the client id |
| `subscribed`, `held`, `delivered` | the durable session |
| `retained` | the `via` of the retained record |
| `speaker`, `unsaid` | history: whose ONLINE the retained record is; which record, ONLINE or OFFLINE, a process published last, if that failed |
| `note` | which note of `offline_note` a sender printed (send.py 118-123) |

`Connect`, `OnConnect`, `Interrupt`, `Disconnect` are what the client does: connect with a will, then
SUBSCRIBE and ONLINE, OFFLINE on Ctrl-C or an exception out of `on_message`, DISCONNECT. Building or
publishing ONLINE may fail, which is a warning (216-217), and so may OFFLINE, which is swallowed
(247-248); the DISCONNECT of 250 goes out in either case. `Die` and `Break` can come anywhere. `Accept`,
`Handle`, `Notice` are the broker's side, in the order TCP gives each connection but in any
order between connections: taking a client id over publishes the will of the connection that
loses it, and a broken connection is noticed at any later time. A record's signature
matters only to what a sender is told, where a verdict of "bad" is one of the outcomes of a look-up.

`WhoCommand` adds a `who` of its own client id: `Ask` and `Replay` are its subscription and the broker's
answer, the retained record; `Forward` rides on every step that publishes another one; `OnMessage` is
`seen[...] = entry` (47), and `Show` the end of `time.sleep(collect_sec)` (53), which may cut the stream off
anywhere. `MaxUpdates` bounds what is on its way, so that the broker waits when it is full.

That the record tells the truth is stated at three strengths. `DeadLooksOffline` and `AliveLooksOnline` say
what becomes of it, and hold for fair brokers. `OnlineOnlyIfConnected` and `SettledReadsOnline` are what a state may
never be, fair or not: online but not by the word of the connection the broker has, or a listener
whose connection the broker has and whose packets it has read that does not read online. All four except
what the code does not hold, and no more: a listener whose own last ONLINE failed does not read online while its connection
lasts, and after one whose OFFLINE failed the record goes on saying online, by that one's word, for
its DISCONNECT keeps the will back (section 5). `OnlineMeansSubscribed` is what a
sender relies on.

### 2.5 Agent runner

One agent process. `on_message` is split at the model turn alone, for that is where
time passes: `Ignore`, `RefuseUnlisted`, `RefuseExhausted`, `StartTurn` are the branches of `decide` and what
`on_message` does at once, `Reply` and `ReplyError` the two ends of a turn. The budget's stamps are
kept as the messages whose replies they record, each with the `now` taken when it arrived (343).
A failing broker ends the process in any of the sends, since `SynBrokerError` is no
`RuntimeError`; so may the model call. Each send also ends
the agent's own subscription: it uses the same client id (316, 411), which the broker gives to the
newer connection. `SendReply` therefore clears `subscribed`, and `Subscribe` - paho reconnecting inside
`loop_forever`, then `_on_connect` - sets it again. The session is clean: what `Arrive` brought and
`on_message` has not taken by then is lost, as is what is published meanwhile; nobody promises
otherwise. `BudgetHolds` bounds the replies that *leave* in a window. `allows` and `record` go by the time a
message arrived, and a turn may outlast the window, so that the bound the code keeps is `max_replies_per_window + 1`:
messages are taken up one at a time, and only one reply can have been taken up before the window it leaves
in (section 5). Errors in place of a reply are not counted by the code, nor here. `AnnouncedOncePerWindow`
names the two cases in which a refusal is not announced: the host's clock is younger than a window
(`noticeAt` starts as 0), or the process ended of sending that very notice; `agent_unannounced` shows the
first. `RefusedOnlyIfSpent` is the
other side of the budget: nobody is refused while there is room, so a window that rolls past
old replies, and a turn that failed, give it back.

`PayloadIsObject` says in which shape records come. The tests of `decide` use an object, and
`agent_replies` and `agent_unannounced` show the runner as they drive it. `process_incoming` hands over the JSON text of
`wire.wrap_outer`, and then `decide` ignores everything: `agent_silent`, which checks `IgnoresOnlyOwnOrEmpty` there, where the code decides it. The properties of
`agent_replies` are therefore those of the runner once that is repaired; the theorems hold for both shapes.

### 2.6 Inbox file, sender and transport policy

`InboxFile` is a sequence of writes. A record up to the size of the write buffer is one write, a
longer one two; `Cut` is an append that stops half-way. A line is what lies between two newlines,
so a scrap spoils the record that follows it and a record that gets between the halves of
another spoils both. `inbox.py` keeps no state: what a run of it prints (filter, stable sort by
`_at`, `matches[-limit:]`, then the enforce gate) is an operator, and the action `Read` notes what has
been printed so far. The reader promises what is new since its last run; the assumption
`Every + Delay <= Since` says what that takes: `--since` counts back from now to the sender's `_at`, so it
must cover the pause between runs *and* the way of a message. `Tick` lets nobody be later than that. What comes later is
never shown: the assumption names that loss, no property catches it. Likewise `CatchesUp` lets a
record be missing behind `limit` others that matched, those withheld under enforce mode among them, for that is
where the code applies the limit (214).

`SendCommand` is `cmd_send` in the environment of one shell, chosen once. `Transport` is the
choice of `select_transport`; the file transport goes on in `InboxFile`, `PublishOne` is everything
that may come of `publish_one`, after the security floor, and `RefuseToSend` the error of `--via
mqtt` without a broker. `TransportPolicy` translates the parser on texts made of the five kinds of
character it can tell apart. An environment carries, next to the text of `SYN_BROKER`, the host and
port its operator meant, and `WaysToWrite` (from the docstring of `_parse_hostport`) ties the two.

## 3. Runs

| run | module | checks | shows |
|---|---|---|---|
| `listener_clock` | `MCListener` | `CacheBounded`, `SecondWriteOnlyFromAheadClock` | Three messages through a cache capped at one entry, redelivered after a broken connection, from clocks a tick behind and ahead: the cap holds up to the insertion that follows it, and a second write in one process needs a nonce the cap took, or a sender clock ahead and a full dedup period. |
| `listener_session` | `MCListener` | `TypeOK`, `OvertakenOnlyIfRefused`, `IsDurableMailbox`, `Drains` | Enforce mode with a key pinned and lost, a hand-made and a garbled message, one of them in two copies, one on which on_message raises, a crash or a broken connection at any point, and as many restarts as the operator likes: nothing the session accepted is lost or reordered, a refusal is printed before the message leaves the queue, and if the listener always comes back the queue drains up to the message on which it cannot. |
| `listener_double_write` (expected violation) | `MCListener` | `NeverDoubleWrites` | A crash between the append and the PUBACK makes the broker redeliver to a process whose nonce cache is empty: the same nonce is appended twice at once. |
| `keyring_torn` (expected violation) | `MCKeyring` | `RingIntact` | Two commands in parallel share mesh-keyring.json.tmp: one empties the file the other is about to move into place. |
| `keyring_overwrite` (expected violation) | `MCKeyring` | `NoSilentOverwrite` | Two commands in parallel both check for a conflict before either writes: the later one replaces a different key without --rotate. |
| `mesh_trust` | `MCTrust` | `TrustTypeOK`, `IdentityHolds`, `SignedAsReported`, `RejectedOnlyIfRotated`, `CorruptOnlyByRace`, `PinsHold`, `CorruptRingSurvives`, `LoneCommandsAtomic`, `OverwrittenOnlyByRace` | Two keygens of one agent, the second forced, a message or record it signs, and three keyring commands of a peer who was told the keys, all in parallel and each killed anywhere: an identity that was reported signs and is accepted until it is rotated, a pin that was reported holds, none is replaced without --rotate and the ring is whole but for commands that ran at the same time, a command that ran alone takes effect at once or not at all, and a torn ring is refused and stays for the operator to inspect. |
| `presence_record` | `MCPresence` | `WhoTypeOK`, `OnlineMeansSubscribed`, `OnlineOnlyIfConnected`, `SettledReadsOnline`, `ShowsTheNewest`, `ShownOnlineIsKept`, `DeadLooksOffline`, `AliveLooksOnline` | Two listener processes on one client id, killed, interrupted, taken over and cut off at any point, any of whose presence records may fail to be published, a sender, and a who that collects meanwhile: an agent shown online has its subscription, whoever shows it and however late; its record says online only while the broker has the connection that said so, or a listener failed to say OFFLINE before its DISCONNECT; it does say online once all that a connection sent has arrived, unless its ONLINE failed; a who ends up with the newest record it was sent; and, but for these failures, what the record finally says is true in either direction. |
| `presence_note` (expected violation) | `MCPresence` | `UnknownMeansQueued` | A message to an agent that never listened is acknowledged and dropped by the broker while its sender is told that it is queued. |
| `send_and_read` | `MCSend` | `SendTypeOK`, `CatchesUp`, `LossIsConfined`, `LeavesOnlyAsMeant` | Five sends from one shell, in every environment its operator may have written, to the broker or to the file; a record of two writes among them, one append cut short, a reader in enforce mode every tick: a message leaves only as it was meant to, the reader prints or counts every whole record there was at its last run, and what a cut or interleaved append swallows is bounded. |
| `agent_replies` | `MCAgent` | `TypeOK`, `BudgetHolds`, `RefusedOnlyIfSpent`, `AnnouncedOncePerWindow`, `ComesBack` | A stranger's message, a blank one and four that ask for two replies in a window of two ticks, on a host whose clock has not yet run a window when the agent starts, in the records decide's tests present, with model turns of any length and an agent that cuts itself off with each send: no window sees more than one reply over the budget leave, nobody is refused before it is spent, its exhaustion is announced once per window but where the code cannot, and the agent subscribes again. |
| `agent_unannounced` (expected violation) | `MCAgent` | `TripsAreAnnounced` | On a host whose monotonic clock is younger than a window, noticeAt = 0.0 passes for a notice just sent: the exhausted budget of a live agent is not announced. |
| `agent_silent` (expected violation) | `MCAgent` | `IgnoresOnlyOwnOrEmpty` | The same messages in the records that process_incoming really makes: decide sees neither sender nor body and ignores every one. |

`CHECK_DEADLOCK FALSE` is in every configuration because the systems really stop: a
listener or an agent may stay down with nothing left to publish within the bounds, a keyring
command and a send end, and the reader's clock stops at its bound.

Bounds, and why they are enough:

* a double write within one process needs a message delivered twice, which one broken
  connection brings about, and an expiry in between: `listener_clock` has `MaxAge` 2 >
  `DedupMinTtl` 1 and a clock that runs to 3, so that a message stamped by a clock ahead (skew 1)
  is still fresh when its nonce expires, and one stamped by a clock behind (skew -1) is not; three
  nonces compete for a cache of one;
* loss and reordering need two messages and a crash or a broken connection between their
  append and their PUBACK: `listener_session` has either, a second copy of one message, a message
  without a nonce, one that is no JSON object, one on which `on_message` raises, with as many
  restarts after it as the operator cares for, and a key that is pinned and lost. No clock is
  needed (`MaxClock = 0`) since nothing there expires;
* a keyring conflict needs one agent with two keys, a lost update needs a second agent, and
  a torn file needs two commands; there are three, one of each kind (`--add`, `--add
  --rotate`, `--import`), in the two runs on the store alone and in `mesh_trust`, where they also run
  one after the other;
* a presence record that is wrong needs a listener and one that takes over its client id, and a
  will that comes late: `presence_record` has two processes, which take over from each other at
  will, and a broken connection, so that a connection can be lost in two ways, its successor too, and
  both be noticed in either order; each ONLINE and each OFFLINE may fail;
  and `MaxUpdates` 3, so that a replayed record, a will and the ONLINE that corrects it are all on
  their way to `who` at once;
* an exceeded budget needs one reply more than it allows, in a window that starts between two of
  them: `agent_replies` has four askers for two replies in a window of two ticks, so that a reply
  taken up in one window can leave in the next beside two of its own, on a clock from 1 to 4: one
  tick short of a first window at the start, which is when a refusal goes unannounced, and two
  windows long. A stranger's and a blank message are there for the other outcomes;
* an identity is lost to a second keygen, a rotation or a death half-way: `mesh_trust` has two keygens,
  one of them forced, and three keyring commands in parallel that pin the first key, move to the
  second, and import the second with another agent's. One signing is enough, since no signing
  changes what another one reads;
* a record is swallowed by an append cut short before it or by one that it interrupts:
  `send_and_read` has one record of two writes and one cut; its `Since` of 2 is `Delay` 1 + `Every` 1,
  the least that the reader's promise allows. Four kinds of host (`::1`, a name for this host, an
  IPv6 address elsewhere that ends like a port, a name elsewhere), with and without a port, in
  each way of writing them, with and without TLS or leave for plaintext, meet each case of
  `_parse_hostport` and of the security floor.

Mutants: for each property of a passing run PROJECT.json names a mutant of a
modelled definition (a swallowed write error, a cap never applied, a ring written in place,
...) with which TLC finds the property violated.

### Fairness

`FairSpec` of `Listener` assumes weak fairness of handling the next message (`OnMessage`, or
`Raise` if that is how it ends): `loop_forever` (236) reads on as long as the connection lasts; and
strong fairness of `Puback`: paho sends it before it reads on, and though the connection may end just
then, it does not do so each time. Nobody is obliged to restart the listener, keep the network up or
publish; `Drains` is therefore stated under "the connection is up again and again", which a
process that a message ends each time still satisfies; what ends it from outside is bounded (`MaxLosses`). Then what stays in the queue is the first
such message and what came after it; everything before it gets through.

`FairWhoSpec` of `WhoCommand` assumes weak fairness of the broker's reading what reached it (`Accept` or
`Handle`), of its noticing a dead connection (`Notice`: keepalive 30, mqtt.py 342), of paho's
loop running `on_connect`, and of the end of `who`'s collection.
No process is obliged to connect, to reconnect, or to end. Hence
`DeadLooksOffline` is stated for processes that have all ended for good and `AliveLooksOnline` for a
connection that lasts.

`FairSpec` of `AgentRunner` assumes weak fairness of `Subscribe` (`loop_forever` retries for ever, and the broker
lets it in, in the end) and of the end of a model turn (`call_model` passes a timeout to its
request; it is one for each read, so that the endpoint is taken not to trickle its answer for ever). Peers owe nothing; the process may die.

## 4. Proofs

`ListenerProofs` and `ListenerMailboxProofs` assume only `ListenerAssumption` (constants
have their types, one copy may be published). No theorem assumes fairness or bounds
the number of messages; `MaxClock`, `MaxCopies`, `MaxLives`, `MaxLosses` are arbitrary
naturals.

* `TypeCorrect`: the type invariant is inductive with the fact that the handled
  messages are still queued.
* `SecondWrites`: not inductive as it stands, for it speaks of two lines of the file and the
  decision is made on the cache. `DedupInv` ties them: every line this process wrote is no
  younger than the clock, its nonce is in the cache with an expiry a full period later
  unless the period has passed or the cap took it, and no cached expiry is
  further than a period ahead.
* `OneLifeNeverDoubleWrites`, `PunctualWritesOnce`: when the promise that `listener_double_write`
  refutes does hold. The first: as long as only one process has left a trace and the cap threw no
  nonce out, at the full strength of listen.py 53-54. The second, with freshness on and each sender's clock
  behind the listener's, or ahead of it by less than `DedupMinTtl - MaxAge` (`ClocksArePunctual`; at the defaults, 120
  and 300 s, no clock may be ahead, and one exactly level fails only in the one instant in which
  `exp <= now` has forgotten what `age > max_age_sec` still lets in): a process writes a dated message once. It needs `StampInv`, that a stamp is ahead of the clock, and of each line's time, by some
  sender's skew at most.
* `CacheCapped`: `CacheInv` says the cache's domain is finite and at most one over the cap; the
  step uses that a survivor set has at most `SeenMax` members and an insertion adds one.
* `ListenerIsDurable`: the refinement. `AccountInv` says that what has been handled has been
  written or refused and that a cached nonce has been too - so a duplicate of it may be
  acknowledged; every step then maps to `Accept`, `Write`, `Refuse`, `Settle` or a stutter.
* `InOrder`: `OrderInv` says that what the session accepted earlier is settled or queued
  before whatever was accepted later.
* `NothingLost`: of the same invariant the part on sets: accepted is queued, written or refused,
  and what is queued or written was accepted. The refinement says it of each step; this says
  it of each state, in the listener's own variables.
* `KeyringProofs!TypeCorrect` and `CorruptRingIsKept` hold with commands in parallel: `Load` refuses a ring that is
  not one, so whoever starts on it fails, and only `Replace` changes the ring's name.
* `RingStaysIntact`, `NothingOverwrittenSilently`, `CommandsImplementAtomic`: under
  `Exclusive`, from `AloneInv`: one command runs at a time, a command's file is new until it
  opens it, what it is about to store is the merge of the ring as it is, and the `.tmp` it
  writes is not the ring. Only `Replace` changes the ring. Without `Exclusive` all three fail
  (runs `keyring_torn`, `keyring_overwrite`), so that no run checks them as they stand; what is left of them then is in `TrustProofs`, below.
* `OnlineIsSubscribed`: from `OnlineInv`. What the record says was on a wire
  before, so the invariant also speaks of wires: on each, ONLINE comes after a SUBSCRIBE of the
  same connection unless the session is subscribed already (`Ordered`). Cutting a wire off, appending
  to it and reading its head keep that.
* `OnlineWhileConnected`, `ListeningReadsOnline`: from `RecordInv`. A record that no packet announces any
  more is known by the last word on the wire: what a listener has on its way ends with ONLINE, what a closing
  process has ends with OFFLINE unless that failed (`unsaid`), DISCONNECT comes last and right after OFFLINE (`Parting`); once the broker
  has read that word the record says so, and keeps it until another connection has the client id,
  whose taking over publishes the will. Hence a DISCONNECT, which publishes no will, is read
  while the record says online only if that connection's OFFLINE failed; and a record that says online is
  somebody's word (`SpokenFor`), that of the connection the broker has in every other case.
* `QueuedOnceSubscribed`: an action of a sender finds the subscription there, and what the session
  holds only moves on to a listener (`SentIsQueued`).
* `WhoTypes`, `WhoShowsNewest`, `WhoShownOnlineIsKept`: a `who` changes nothing of `Presence`
  (`PresenceBesideWho`), so that `OnlineInv` holds beside it; `WhoInv` adds that the last record on its way is
  the one retained, and that no record on its way says online of an agent without a subscription.
* `AgentTypes`; `BudgetNeverExceeded`: from `BudgetInv` and `OrderInv`. A reply is checked against the stamps when its
  message arrives and recorded when the turn ends, maybe a window later; the first invariant says that
  every reply young enough to share a window with a message still to come is among the stamps, and
  that the asking message has room left in its own window, so that the replies *taken up* in a window are within the
  budget (`TakenWithinBudget`). The second says that of two replies one was sent before the other was
  taken up, so that at most one leaves in a window it was not taken up in (`OneLeftLate`).
* `BudgetRecovers`: from the same invariant. What `Pruned` leaves when a message is refused are replies of the
  window that ends with it (`RefusedIsSpent`), and a reply once made stays one (`DecidedForGood`).
* `AnnouncedOnce`: from `NoticeInv`, that the last notice is the one noted, or none has been noted since the
  process began, as long as it lives. It assumes nothing of the clock: on one that has run a window when a
  message is refused the exception is void.
* `SilentOnTheWire`: where they carry it as text, `Silent` is inductive: no message is asked about,
  refused or answered, and no notice sent, ever.
* `ReportedIdentityHolds`, `SignedWithReportedKey`: from `KeyInv`. The file is never removed, so a command that
  looked after another had written goes on only under `--force` (`LaterIsForced`), and of two commands at
  most one came after the other (`OneWay`); hence the key a command has written is in the file, or a
  taker has touched it since (`WrittenHolds`). What is signed later is that key or a taker's.
* `OnlyRotationRejects`: with `PinInv`, that a key of the agent is in a ring, a command's hands or an
  earlier verdict only once a keygen has reported it (`Told`), and with two lemmas on the forms,
  `MessageAccepted` and `RecordAccepted`: a verifier that expects a tag accepts what `new_message` makes
  without one and `sign_record` with it, under the same key and no other.
* `OnlyRacesCorrupt`: from `RaceInv`. While no two commands have run at the same time they are alone, and
  then `AloneInv` of the serial case holds; a command that loads while another runs has raced for good.
* `ReportedPinsHold`: from `SoloInv`, which follows one command that never raced: while it runs the
  `.tmp` is its own, and from its `os.replace` on its pins are in the ring, in the `.tmp` and in
  whatever a later command is about to store (`KeptByAll`), unless that command rotates them.
* `LoneCommandsAreAtomic`: the serial case again, for one command among any number that race.
  `LoneInv` says that what it is about to store is the merge of the ring as it is, which stays so because
  nobody else runs, and that ring and `.tmp` are two files (`NamesApart`), which holds however others
  raced: a leftover `.tmp` may be anyone's, but is never the ring, so that opening it harms no pin. The
  theorem covers a ring or a leftover that an earlier race or death spoiled, which the serial theorems do not.
* `OnlyRacesOverwrite`: a pin that changes is changed by a command that ran alone, as long as all have; and
  that one takes effect as `Merged` says (`OnlyRotationReplaces`).
* `TrustImplementsParts`, `TrustKeepsCorruptRing`: every step of `MeshTrust` is a step of `KeyringStore` and of
  `KeyFile`, or a stutter of it, so that what is proved of either holds in the composition.
* `InboxTypes`, `LossConfined`: from `WriterInv`, which ties a message's phase to what is in the
  file. A lost record follows a write that does not end a line, which is the first half of a
  split record or a scrap, and no other lost record follows the same write (`EachItsOwn`): an
  injection, and the bound is on cardinalities.
* `ReaderCatchesUp`: from `TimelyInv`, that nothing readable since the last read is older than
  `Delay` before it, with the facts that a line once whole stays whole and that the order of two
  lines never changes (`LinesStay`, `OrderStays`).
* `SendsAreInboxSteps`: every step of `SendCommand` is a step of `InboxFile` or a stutter, so that
  `SentToFileIsRead` follows for whatever environments there are.
* `ParserInvertsSpelling`: `ParseHostport` inverts `WaysToWrite`, by the position of the only colon, or of the
  only closing bracket and the first character after the colon behind it. It assumes of a host
  that it has no brackets and not exactly one colon, of a port that it is digits.
* `SendTypes`, `SendsAsMeant`: inductive as they stand, once a dialled address is known to be the one that
  was written (`DiallingIsMeant`, from `ParserInvertsSpelling`).

Only model-checked: the liveness properties `Drains`, `DeadLooksOffline`, `AliveLooksOnline` and
`ComesBack` (liveness under fairness is out of the prover's reach). Every other property of a
passing run is a theorem. Of the first three the half that says what may never happen is proved:
`NothingLost` (what leaves the queue is written or refused), `OnlineWhileConnected` and `ListeningReadsOnline`
(the record follows the connection, so that the broker's reading and noticing are all that liveness adds).

Each property that a run finds violated has a theorem that says when it holds, or that it never does:

| violated in | holds, as proved |
|---|---|
| `listener_double_write` | within one process whose cap threw out no nonce (`OneLifeNeverDoubleWrites`) |
| `keyring_torn` | for commands one at a time (`RingStaysIntact`); a ring is corrupt only if two commands ran at the same time (`OnlyRacesCorrupt`) |
| `keyring_overwrite` | for commands one at a time (`NothingOverwrittenSilently`), keygens and signers beside them or not, until the first two have run at the same time (`OnlyRacesOverwrite`) |
| `presence_note` | for agents first sent to after their first subscription (`QueuedOnceSubscribed`) |
| `agent_unannounced` | on a clock that has run a window (`AnnouncedOnce`) |
| `agent_silent` | never: for the records of the wire nothing is ever answered (`SilentOnTheWire`) |

## 5. Where the code and its documentation disagree

* `listener_double_write`: listen.py 53-54 promises that broker duplicates never
  double-write. The cache lives in the process (172): a crash after the append and before
  the PUBACK writes the message twice.
* `keyring_torn`: keyring.py 56-60 says the writer cannot manufacture a corrupt ring. Two
  commands share `mesh-keyring.json.tmp` and no lock; the one that opens it empties what the
  other moves onto the ring.
* `keyring_overwrite`: keyring.py 10-11 says a different key is never overwritten silently.
  The check is made on the ring as loaded; another command's pin written since is replaced.
* `presence_note`: for an agent without a presence record, presence.py 210-212 tells the
  sender that the message is queued on the broker. An agent that never listened has no session:
  the broker acknowledges the message and drops it.
* `agent_unannounced`: agent.py 125-130 says that an exhausted budget is announced, since a silent trip
  cannot be told from a dead agent. The time of the last notice starts as 0.0 (111), on a monotonic
  clock that starts with the host: an agent that exhausts its budget within `window_sec` of boot
  announces nothing until that has passed.
* `agent_silent`: `decide` (agent.py 228) takes the payload if it is an object; the records it is
  given hold it as a JSON text (wire.py 77). It sees an empty body from "?" and ignores
  every message, in silence.

Four more are part of the model and have no run of their own:

* agent.py 104-106 says that the budget bounds what the process emits. It bounds replies by the arrival of their
  messages: with two replies per window, a slow one that leaves with two of the next window makes three
  (`BudgetHolds` has `Limit + 1`), and error replies (383) are neither asked for nor recorded.
* A message on which `on_message` raises (listen.py 116, 183) ends every listener that is handed it; the
  session never lets go of it, and nothing behind it is delivered (`Drains`, `BehindPoison`).
* listen.py 240-241 wants a clean shutdown told from a death. If OFFLINE fails, the failure is swallowed (247)
  and the DISCONNECT keeps the will from telling it either: the agent reads online until it next connects
  (`OnlineOnlyIfConnected`, `DeadLooksOffline`).
* A listener whose ONLINE fails (216) goes on, and keeps reading as whatever the record said before, until
  it next reconnects (`SettledReadsOnline`, `AliveLooksOnline`).

## 6. Not modelled

* **Two agents that answer each other.** A failing model call sends an error (agent.py 376-386) that
  the budget neither asks nor records, and the other agent answers that error in turn. Agent.py 104-106 says
  the budget "bounds what THIS process emits"; the replies it does bound are in `AgentRunner`, and for
  the errors there is no bound to check. A pair of agents adds no state to that.
* **A send repeated by hand.** When `publish_one` gives up after its timeout (mqtt.py 291-295) the broker may
  have the message; what the operator sends next has a nonce of its own and is another message to
  every component.
* **Configuration and model answers.** `load_config` (agent.py) and the parsing in `call_model` either
  give a value or raise; the raise is modelled (`ReplyError`, `Die`), the parsing is not.
* **doctor, fingerprint, paths, dispatcher.** A read-only report, a hash, a path and a table of
  commands: no state, nothing concurrent. `doctor` calls a key file present if it exists
  (doctor.py 131), the empty one of a dead keygen included.
* **release gate.** A maintainer's script on the source tree, no part of the running system.
* **Codecs and cryptography.** `decode_pubkey`, `pubkey_fingerprint`, base64 and JSON are taken to be
  injective, signatures to be unforgeable.
* **Fields of unexpected types in the inbox file.** A record with a number as `_urgency` or `body`, or a list as
  `_from`, makes `inbox.py` raise (180, 186, 192). `send.py` writes none, and `InboxFile` models what
  `send.py` writes; a listener would append one.
* **A ring that is JSON but of another shape** (`agents` not an object): `load_keyring_strict` refuses it like any
  other corrupt ring, `load_keyring` lets it through to fail in `verify_against_keyring`. No command writes one.
* **An append that lacks its newline alone.** `Cut` leaves a scrap nobody can read. A cut right
  before the newline would leave a record that can be read until the next append spoils it.
* Texts, formatting, file permissions and the TLS set-up of `_new_client`.
