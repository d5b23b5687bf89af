# A TLA+ verification of the Zafro bridge

The Zafro bridge stands between air conditioners that were built to talk to
their vendor's cloud and a Home Assistant installation. An appliance opens a
WebSocket to the bridge and speaks MQTT on it; the bridge plays the broker
itself, or relays the packets to the vendor cloud and listens in, and publishes
what it learns to Home Assistant's own MQTT broker. It is one asyncio process
in Python. All paths below are under
`src/zafro_bridge/rootfs/usr/src/zafro_bridge/`.

This directory models the parts of it that keep state and run concurrently,
checks them with TLC on small instances, and proves the safety properties that
matter most with TLAPS for every value of the constants.

- [The system](#the-system): its components and what makes each correct
- [The modules](#the-modules): how state and actions correspond to the code
- [What is checked](#what-is-checked), with bounds and fairness
- [What the checks found](#what-the-checks-found)
- [What is proved](#what-is-proved)
- [What is left out](#what-is-left-out), and the [plan](#plan)

## The system

asyncio runs one task at a time and switches tasks only at an `await` that
really suspends. So the unit of atomicity everywhere is the code between two
awaits, and every hazard of this program has the same shape: something read
before an await and used after it.

| component | state | operations | talks to |
|---|---|---|---|
| **Device session** (`device_session.py`), one per WebSocket | the upstream link, the five `_pending_*` fields ("the ledger" of requests forwarded and not answered), the retry task, `_closed`, receive buffers | `run` (the packet loop), `_pump_upstream`, `_fallback_to_local`, `_retry_relay_recovery`, `_connection_watchdog`, `close`, `inject_publish` | appliance (WebSocket), cloud link (awaited calls), bridge (callbacks `on_connected`, `on_publish`, `on_disconnected`) |
| **Injected ids** (`device_session.py`) | the table of outstanding packet ids, the id counter | allocate, evict at the cap, filter PUBACKs | appliance, cloud |
| **Cloud link** (`cloud_relay.py`) | one WebSocket to the cloud | connect, send, receive loop, close; REST proxy | vendor cloud |
| **MQTT codec** (`mqtt_codec.py`) | none | decode a stream into packets, encode answers | - |
| **Bridge** (`bridge.py`) | registry of sessions by serial, `DeviceState` by serial, published discovery identities, background tasks | connect, publish and disconnect handlers, commands, initial requests, discovery fallback, republishing, refresh loop, shutdown | sessions (calls `close`, `inject_publish`), HA client |
| **Appliance state** (`state.py`) | `state`, `info`, `online` | merge a message | bridge |
| **Home Assistant client** (`ha_mqtt.py`) | the MQTT client, if connected | connect, subscribe, publish, reconnect, last will, goodbye | Home Assistant's broker, bridge |
| **Device server** (`device_server.py`) | set of active sessions | cap, REST stubs and proxy, WebSocket upgrade | sessions |
| **Protocol** (`protocol.py`), **discovery payloads** (`ha_discovery.py`) | none | translate topics, messages, commands | bridge |
| **Configuration, start-up** (`config.py`, `__main__.py`) | settings, read once | - | all |

What is hard, and what makes each part correct:

* **Device session.** Up to five tasks share one session: the loop, the pump of
  cloud answers, the retry task, the watchdog, and whichever task of the bridge
  calls `close()`. The cloud link may break at any moment, a send on it may fail
  before the pump notices, and the bridge may replace the session while it is
  still opening its upstream. It is correct if the appliance cannot tell: every
  request it sends is answered, once, by the cloud or by the bridge; a session
  that is closed ends, releases what it holds and tells the bridge; and probing
  for the cloud never disturbs a relay that works.
* **Injected ids.** Commands are injected as QoS-1 PUBLISHes under private ids
  whose PUBACKs must not reach the cloud. The table is capped, ids wrap around,
  the appliance may acknowledge in any order or never, and nothing keeps the
  cloud from the same ids. Correct: a PUBACK of ours is recognised unless its
  record was lost in one of two exactly known ways.
* **Codec and buffers.** A packet may be cut anywhere across frames, and a
  header may promise more than anybody should buffer. Correct: what is handled
  does not depend on the cuts, and memory is bounded.
* **Bridge and Home Assistant client.** Sessions of the same appliance overlap:
  the new one registers before it closes the old one, and the old one's
  disconnect comes later. Publishes are retained, may be dropped, and the broker
  may forget them all. Correct: what Home Assistant shows, namely the
  availability of the appliance and of the bridge, its state and its device
  card, is what is.
* **Device server and watchdog.** Upgrades race for the last slot, a CONNECT
  changes the deadline a watchdog is already sleeping towards, and frames that
  wait behind a slow handler look like silence. Correct: never more sessions
  than the cap, every slot comes back, a client that says nothing is closed on
  time and one that keeps its keepalive is not.
* **Protocol and appliance state.** The appliance reports deltas, some keys
  never; connections are lost with what they carry; the fields of the document
  hide each other (a boost hides the speed, a power the mode). Correct: Home
  Assistant shows the appliance as it is, shows what it asked for, and is shown
  only what it could ask for.

## The modules

| module | models | proofs |
|---|---|---|
| `Broker` | abstract: what an appliance may expect of a broker | |
| `DeviceSession` | one session with its link, the appliance and the cloud around it; refines `Broker` | `DeviceSession_proofs` |
| `InjectedIds` | the id table of one session | `InjectedIds_proofs` |
| `Streams` | decoding, the receive buffers of both directions, the header of what is encoded | `Streams_proofs` |
| `Bridge` | the bridge's handlers for one appliance, its state and the Home Assistant client | `Bridge_proofs` |
| `DeviceServer` | the listener's cap and slots, and each session's watchdog, in discrete time | `DeviceServer_proofs` |
| `Climate` | translation between appliance and Home Assistant, and the merge: constant-level, no state | `Climate_proofs` |
| `Sync` | the appliance, its messages, the commands, requests and sessions around `Climate` | `Climate_proofs` |
| `MC*` | values of the constants for TLC | |

The modules share no variables: each keeps of its neighbours what its own
properties depend on. A session's handler of a packet is many steps in
`DeviceSession`, a delay in `DeviceServer`, and one step in `Sync`; the
bridge's publishes are lost, delayed and repeated in `Bridge`, and succeed in
`Sync`, because `ShownIsCurrent` of `Bridge` already says that the document
published last is the current one.

`PROJECT.json` maps every definition to the lines it stands for.

### DeviceSession

A program counter per task names the await the task is suspended at, and an
action is the code from there to the next await.

| variables | code |
|---|---|
| `loop`, `packet`, `more` | `run()`: its await, the packet in `_handle_device_packet`, more packets in the frame |
| `pump`, `refusal` | `_pump_upstream()`; it is in the fallback because of a CONNACK refusal |
| `retry`, `refused` | `_retry_task`, `_relay_refused` |
| `closed`, `closing`, `closer` | `_closed`, how far `close()` is, who runs it |
| `connectSeen`, `keepalive`, `accepted`, `fired` | `_connect_seen`, `_keepalive_seconds > 0`, `_accepted`, `_disconnected_fired` |
| `attached`, `ws` | `_upstream is not None`; its socket: idle, connecting, open, broken (not yet noticed), closed |
| `ledger` | the union of the five `_pending_*` fields |
| `toAnswer` | per task, the local `answers` of `_answer_pending_locally` |
| `atCloud`, `deviceOpen`, `awaiting`, `stray` | the peers: what the cloud has to answer, the appliance's socket, what it expects, an answer it did not expect |
| `late`, `cloudRefused` | history |

The path of a packet is `Receive`, then `RejectPacket`, `RefuseConnect`,
`AdmitConnect` (`UpstreamOpened` or `UpstreamUnreachable`), `ObservePublish`,
`DropPacket`, then `ForwardUpstream` or `AnswerLocally`, then `SendReturns` or
`SendFails`. `_fallback_to_local` is one operator, `DetachAndOwe(t)`, with
which either task `t` enters it, and the answer, teardown and retry steps that
follow (`LoopAnswers`, `LoopDropsUpstream`, `LoopFallsBack`, and the same for
the pump). `close()` is `Close(t)` for its synchronous part - it cancels the
other tasks there and then - and `CloseUpstream`, `CloseDevice` for its awaits.
`upstream.close()` may raise wherever it is awaited (`TeardownFails`). Inside
`close()` that leaves `closing = "failed"`: the appliance's socket stays open,
`_closed` being set nobody tries again, and a `close()` the loop called from a
packet's handler leaves `run()`'s loop with the exception (`LoopCloseFails`).
`NoRequestForgotten` and its relatives speak of the moments between.

`Foreign` are the QoS-1 PUBLISHes whose topic names another serial number. The
code drops them, neither forwarded nor acknowledged (lines 248-250), so they are
no requests anybody owes; every property about requests leaves out exactly them.

Choices: cloud answers come in any order except that CONNACK comes first; what
a task reads is chosen when it reads; a request is not repeated by the
appliance before it is answered (MQTT forbids it); the watchdog may fire
whenever its deadline exists; `SendCanFail` separates the runs in which a send
may raise before the pump has seen the link drop, because two of the promises
hold only without it.

`Broker` is what the session promises: `Ask`, `Answer` once, every request
answered in the end, `HangUp`. `DeviceSession` maps its requests to
`Request \ Foreign` and `online` to "the socket is open and `close()` was not
called", and hides everything else.

### InjectedIds

The insertion-ordered dict becomes `since[id]`, the number of the insertion;
`itertools.cycle` becomes `counter` with `Wrap`. `Inject` is the whole of
`inject_publish`, eviction included; a send that fails leaves the record, as in
the code. `AcksOwn` and `AcksCloud` both run `HandlePubAck`, which cannot tell
them apart: that is the code's situation. `gone` is history: the ids whose
record was evicted, or spent on a PUBACK of the cloud's.

### Streams

Bytes, literally: `DecodePackets` is a recursive function over offsets like the
loop of `decode_packets`, and `RemainingLength` has the value and the multiplier
of the loop of `_decode_remaining_length`. `IsPacket` and `Number` are reference
definitions, without an offset, a scan or a multiplier. The base, the number of
digits, the size limit and the shortest body per packet type are constants (128,
4, 64 KiB in the code). `EncodeRemainingLength` and `MqttFrame` are what the bridge
puts before the bodies it writes; no action uses them, but `MCStreams` has TLC
read back every length they can write, and the proofs are about all lengths. `HandleDeviceBytes` closes
the session on an error, `HandleUpstreamBytes` forwards undecodable bytes
verbatim and empties the buffer; `FallbackDropsBuffer` is line 441 of
`device_session.py`. The fields inside a body are only "long enough" or not.

### Bridge

One serial number: handlers of different serials share nothing but the client.

| variables | code |
|---|---|
| `pc`, `closed`, `registry` | where a session's handler waits; `close()` was called on it; `_sessions[serial]` |
| `known`, `online`, `core`, `info`, `identity` | `_states[serial]` and its fields as numbers: versions of the state, the details of a device card; `_published_discovery_identity[serial]` |
| `fallback` | the `_discovery_fallback` task of that session |
| `run`, `ha`, `link` | `Bridge.run`, `HomeAssistantMqtt.run`, whether the broker can be reached |
| `bridgeTopic`, `availability`, `discovery`, `document` | what the broker retains |
| `told`, `revived`, `overtaken`, `cutShort` | history, naming the exceptions of the properties |

A handler publishes and then waits for the broker; the message counts when it is
handed to the client (`Published`), and is lost without a client or on a dead
link. `Subscribed`, `Redescribed`, `Reannounced` are `_on_broker_connected`.
`Cancel`, `HaLeaves`, `ClientEnded`, `RunStops` are the shutdown: the client is
cancelled where it is, and only when it has ended does `Bridge.run` set
`_shutting_down`, cancel the timers, and close the sessions.

New device info is one of two actions, by the guard of bridge.py:210. `HandleInfo`
publishes a card that differs from the one on record; `HandleRecordedInfo` finds
the details on record and publishes none, although a handler of an overlapping
session may have published another card and not recorded it yet (line 191 does
so after the await). `SubscribeFails` is an MqttError from `subscribe` on a live
connection, which leaves through the context manager's clean disconnect.

Choices: the state only moves to new versions (a message without news publishes
nothing, and news is compared with the value before it alone), the details of
the card may return to earlier ones; `ConnectOver` always suspends in
`previous.close()`, also where a session that has closed itself would make it
return at once, which adds behaviours and removes none; Wi-Fi details, which
change `info` but not the discovery payload, count as news of the state.

### DeviceServer

One record per client holds what its `DeviceSession` keeps for the watchdog,
and its side of the socket. Clocks are ages, in half seconds; `Tick` makes
everything older at once, and may not while a task is due: asyncio runs a ready
task before it sleeps.

| fields | code |
|---|---|
| `active` | `_active_sessions` |
| `phase` | where `_handle_websocket` is: in `prepare()`, in `run()` reading or in a handler, in its teardown |
| `open`, `closed` | the WebSocket; `_closed` and who closed it |
| `connectSeen`, `keepalive` | `_connect_seen`, `_keepalive_seconds` |
| `sinceStart`, `sinceRead` | the ages of `_session_started_monotonic` and `_last_activity_monotonic` |
| `sleep` | what is left of the watchdog's `asyncio.sleep` |
| `unread`, `sinceSent` | frames the loop has not read; the age of the client's last |
| `lively` | history: the client never let its keepalive pass |

`Upgrade` claims the slot in the same step that checks the cap, as the code
does; `Watchdog` is one turn of the loop in `_connection_watchdog`. A handler
keeps the loop from reading for at most `MaxHandler`: the sends, the upstream's
connect timeout and the publish timeout bound it. What `close()` does is
`DeviceSession`'s subject; here it takes time (`SocketCloses`) and cancels the
watchdog. `Cancel` is aiohttp's cleanup, external.

### Climate and Sync

A state is a function from keys to values, `Absent` where there is none. Flags
are Booleans and levels integers, as the appliance sends them; `Odd` is any
scalar no table knows, `Container` a list or an object. `HaDocument` is
`device_state_to_ha`, `Changes` is `ha_command_to_device` for what `Accepted`
admits, `Merge` is `_merge_scalars`, `Offered` and `FieldOf` are what
`build_discovery_payload` tells Home Assistant.

In `Sync` a connection is a pair of queues that is lost with what it holds. The
appliance follows PROTOCOL.md: it echoes a command (`Obey`), reports what it
changes by itself (`Press`) except a few `Quiet` keys, answers a snapshot
request with everything, and pushes nothing when it connects. `Hear` is
`_on_device_publish`; `Command` is `_handle_ha_command`; `InitialRequests` and
`RefreshRound` are the two places that ask for snapshots. `Connect` may find a
session in place: a part of that session's packets is decoded already, goes to
`late`, and is still merged (`HearLate`), possibly after the new session's
snapshot. That is what the code does: `close()` does not stop the loop over
the packets of a frame. `Restart` forgets everything but the retained document.

History: `asked` is the last command unless anything interfered since, `synced`
says that this session has sent a snapshot.

## What is checked

Passing runs. The state counts are TLC's distinct states.

| run | bounds | states | shows |
|---|---|---|---|
| `Session` | CONNECT, one SUBSCRIBE id, one PUBLISH id and one more in another appliance's name; sends and teardowns may fail | 1 355 982 | `NoRequestForgotten`, `LedgerNeedsUpstream`: an unanswered request, unless it is `Foreign`, is always in exactly one place that will answer it, also while two fallbacks race. `StrayOnlyAfterLateRelay`: a doubled answer has one cause only. `RetryOnlyWhenLocal`: a bounce never cuts a relay. `BridgeHearsTheEnd`: `on_disconnected` follows whatever `close()` met, a raising `upstream.close()` included |
| `SessionBroker` | CONNECT, one PUBLISH id and one more in another appliance's name; `SendCanFail = FALSE` (no send fails before the pump has seen the end of the link), `TeardownFails = TRUE`; fair | 142 538 | `ActsAsBroker`: the refinement of `Broker`, its liveness included. `ClosedSessionEnds`: a closed session shuts the appliance's socket and returns from `run()`, except that after a raising `upstream.close()` inside `close()` the socket is shut by nobody. `BrokenLinkIsGivenUp`: no request waits on a dead link forever. `RefusalIsFinal`, `AnsweredOnce` without the exceptions below |
| `InjectedIds` | a range of 4 ids, 2 outstanding, 7 injections, one id shared with the cloud | 12 797 | the table is bounded, only the oldest record is evicted and only after `MaxPending` newer injections, and a PUBACK leaks only after a loss |
| `Streams` | base 2, 3 digits, packets to 4 bytes, every stream of at most 9 bytes in frames of at most 3 | 602 469 | `HandledAsSent`, `RelayedAsSent`: independence of the cuts, against the reference `IsPacket`. `BufferIsBounded` |
| `Bridge` | two overlapping sessions, one version of the state, details that appear and disappear (0 and 1), the appliance's own status messages; fair | 910 565 | `OpenIsRegistered`, `AvailabilityAgrees`, `ShownIsCurrent`, `NotLeftOnline`; `AppearsInTheEnd`: the appliance appears even if it never describes itself |
| `Server` | two clients, one slot; connect timeout 2.5 s, polls of 1 s, keepalives 0, 1, 2 s, handlers of at most 1.5 s, two unread frames; fair | 118 294 | `CapIsKept`, `ConnectInTime`, `SilenceIsNoticed`, `LivelyIsKept`; `SlotIsReclaimed`, `ClosedIsFreed`: no slot is lost |
| `Climate` | five commands that meet in one field or are refused, three changes of the appliance (a bad value, a dropped one, a quiet key), two of both, one lost connection or restart, two messages each way; fair | 445 115 | `NothingLost`, `ShownIsKnown`, `ShownAsAsked`, `ShownIsOffered`; `InfoInTime`: two requests for device info are apart by their period, give or take less than one round; `Converges`: the document comes to show the appliance as it is |

Why the bounds are enough. The session code treats CONNECT, the packets that ask
for an answer, and QoS-1 PUBLISH (which awaits a callback first) differently,
and nothing depends on two ids of one kind: every pair of different requests can
be outstanding at once. `Session` has all three kinds; `SessionBroker` has the
two with most awaits, and meets local brokering whenever the upstream cannot be
reached. With two sessions every pair of handlers overlaps; a third, which is
needed to replace one that is replacing another, is in `BridgeRace`, and the
theorems about `Bridge` hold for any number. In `Server` the connect timeout is
longer than the shortest keepalive's deadline and no multiple of the poll, a
handler is as long as one of the deadlines and shorter than the other, and two
clients compete for one slot. In `Climate` two changes and one loss are what it
takes for a command, a press and a reconnect to cross, and the periods 2 and 3
do not divide each other: the loop asks at 4, 6, 10, 12, 16, gaps of 2 and 4.
In `Bridge` details that go from 0 to 1 and back, in two sessions, are enough for
a card to be overtaken. Seven injections fill the table of two, wrap the four ids and
reuse one with a record evicted. In base 2 with three digits the stream's three
byte values write legal lengths of one, two and three digits (padded ones
included), one over the limit and one that never ends, and nine bytes hold
several whole packets and a half. The proofs remove the bounds for the theorems
listed below; the rest stands on the bounds alone.

`Streams`, `InjectedIds` and `Bridge` may stop (their bounds are used up), so
deadlock is not checked there. It is in every session run, where a session may rest
only when `run()` has returned, and in `Server` and `Climate`, where time or the
refresh loop goes on for ever.

**Fairness.** `DeviceSession`: a ready task runs, and awaits of sends, closes
and callbacks return (weak fairness of the loop, the pump and the closer); a
frame holds finitely many packets; the cloud answers what it was sent or its
link breaks (strong fairness, because a task in between can disable the read;
nothing is assumed for `Foreign`, which it never gets).
Nothing is assumed of the appliance, of the watchdog, of the bridge, or of
the cloud ever being reachable. `Bridge`: of the client and the timers of all
sessions together, one goes on while one can; nothing is assumed of the
sessions' handlers or of a reconnect, and `AppearsInTheEnd` assumes
explicitly that the broker stays reachable and the bridge is not stopped. That
no publish of an old connection is in flight when the next one opens
(`NothingInFlight`) is the code's arithmetic: a publish gives up after 3
seconds, a reconnect waits 5. `Server`: a ready task runs, `prepare()`, a handler
and a socket's close end, and time passes; nothing is assumed of the client. That
a close ends (`SocketCloses`) is assumed, and takes a teardown of the upstream
that does not raise; if it does, `ClosedSessionEnds` of `DeviceSession` says what
is left.
`Climate`: the appliance reconnects (PROTOCOL.md: it does so by itself), and while
messages are queued at either end or in a late loop, one of them is taken (weak
fairness); the initial requests need no fairness. The
refresh loop is strongly fair only because `MaxQueue`, a bound of the model, can
keep it from injecting; in the code nothing does. `Converges` asks for no
command, press or loss: it is about what happens when those come to an end,
which the bounds make happen.

## What the checks found

Each of these runs checks one property as a comment or document of the
repository states it, and TLC refutes it.

* `SessionLeak`. `close()` during `upstream.connect()` (device_session.py:303):
  the loop attaches the new link and starts its pump in a session that is
  already closed. `run()` returns, and nobody closes that link or cancels
  that task. In the model: `EndedSessionHoldsNoUpstream`. The theorem
  `SessionLeaksOnlyAtOpening` says there is no other way: no upstream that was
  attached when `close()` began outlives it.
* `SessionAnswers`. A failed forward makes the loop fall back and answer the
  ledger; the pump, not cancelled, still passes down cloud answers it had
  received for the same requests. The appliance gets a second SUBACK or CONNACK,
  although the ledger is cleared so that nothing can "be answered twice".
  `StrayOnlyAfterLateRelay` (proved) says this is the only way.
* `SessionRefusal`. If the cloud's CONNACK refusal is read after another
  fallback has begun, `_fallback_to_local` returns before it records the
  refusal: the retry task goes on and will bounce the appliance, although "a
  CONNACK refusal ends relay for good this session".
* `BridgeRace`. Session 2 replaces 1 and waits in `previous.close()`; 3
  replaces 2 and disconnects; 2 goes on and publishes "online" for an appliance
  without a session. Its own disconnect is ignored as that of a replaced
  session, so nothing corrects it before the next broker reconnect.
  `AvailabilityAgrees` has this as its exception `revived`.
* `BridgeShutdown`. A stop that finds the MQTT client subscribing or
  republishing leaves through the context manager, whose clean disconnect
  discards the last will, without the goodbye: the bridge stays "online". So
  does a subscribe that raises on a live connection, when the stop comes in the
  pause before the next attempt. `NotLeftOnline` (proved) says it takes one of
  the two.

## What is proved

TLAPS checks these for every value of the constants under the modules' named
assumptions: `PacketsDiffer` (the kinds of packets are disjoint) and
`FlagsAreBoolean` for `DeviceSession`; `SizesAssumption` (a positive range, a
cap between 1 and the range: 5535 ids and 256 in the code) for `InjectedIds`;
`BridgeAssumption` for `Bridge`; `Sizes` and `Times` for `DeviceServer` (a finite
set of clients; a poll is no longer than any deadline, which holds in the code:
one second against at least 1.5); `Markers`, `Periods`, `Appliance` and `Bounds`
for `Climate` and `Sync` (the markers are no values; periods are positive);
`StreamsAssumption` for `Streams` (a base above 1, positive limits, bytes of two
digits' range). The sets of packets, sessions, commands and presses need not be
finite, and streams and frames may be of any length.

| theorem | invariant behind it |
|---|---|
| `SessionTypeOK` | inductive |
| `SessionForgetsNoRequest`, `SessionLedgerNeedsUpstream` | `RequestInv` |
| `SessionStraysAreLate`, `SessionAnswersOnce` (given `~SendCanFail`) | `AnswerInv` |
| `SessionRetriesOnlyWhenLocal` | `RetryInv` |
| `SessionRefusalIsFinal` (given `~SendCanFail`) | `RefusalInv` |
| `SessionStepsAsBroker` (given `~SendCanFail`) | `AnswerInv` |
| `SessionTellsItsEnd` | `EndInv` |
| `SessionLeaksOnlyAtOpening` | no invariant: every step that attaches or closes, one by one |
| `InjectedTypeOK`, `InjectedTableIsBounded`, `InjectedIsOnRecord`, `InjectedLeaksNeedALoss`, `InjectedEvictsOnlyTheOldest` | `InjectedInv` |
| `BridgeTypeOK`, `BridgeOpenIsRegistered` | inductive, with `TypeOK` |
| `BridgeNotLeftOnline` | `ClientInv` |
| `BridgeShownIsCurrent`, `BridgeAvailabilityAgrees` | `ShownInv` |
| `DeviceServer_proofs`: `TypesKept`, `CapKept`, `ConnectsInTime`, `SilenceNoticed`, `LivelyKept` | `Inductive` |
| `Climate_proofs`: `TypesKept`, `InfoKept`, `NothingIsLost`, `ShownKept`, `OfferedKept` | `Types`, `Rounds`, `InStep` |
| `AskedIsShown` (given that only offered choices, or any temperature, are sent) | `Heeded`, with `Types` and `ShownIsKnown` |
| `RoundTrip` | none: a fact about `Climate` for every state and every offered command |
| `StreamsTypeOK`, `StreamsHandledAsSent`, `StreamsRelayedAsSent`, `StreamsBufferIsBounded` | inductive, with `TypeOK` and `DecodeTakesApart` |
| `StreamsInOneGo`, `StreamsCloseHasCause` | inductive, with `TypeOK`, `BufferIsBounded` and `DecodeInPieces` |
| `LengthIsTheNumber`, `DecodeTakesApart`, `DecodeInPieces`, `EncodedIsTheLength`, `FrameIsDecoded` | none: facts about the codec for any bytes |

Why the strengthenings are needed:

* `NoRequestForgotten` alone allows a state in which an upstream is opened over
  a ledger that is not empty, or a fallback overwrites the answers another one
  still owes. `RequestInv` adds that nothing exists before the upstream is
  opened (`FreshUntilOpened`), that the packet in hand fits the await
  (`PacketInHand`), and that a ledger entry has an upstream while only one
  fallback owes answers (`LedgerNeedsUpstream`).
* `StrayOnlyAfterLateRelay` needs to know who may answer what: as long as nothing
  was relayed late, ledger and `toAnswer` hold only awaited requests, the cloud
  holds only requests of the ledger, the packet in hand is owed by nobody else
  (`OwedIsAwaited`, `HandIsItsOwn`), and there is one debtor (`OneDebtor`).
  `PumpIsAttached` makes a late relay impossible when sends do not fail.
* `RetryOnlyWhenLocal` needs that a task inside a fallback has detached
  (`FallbackIsDetached`), since the probe starts at its end.
* `RefusalIsFinal` needs that the loop itself never falls back when sends do not
  fail, that the refusal finds the CONNECT decided and the retry task gone
  (the upstream was attached: `RetryOnlyWhenLocal`), and that the pump is from
  then on in the refusal's own fallback or done (`RefusedForGood`).
* `SessionStepsAsBroker` is the safety part of `ActsAsBroker`: every
  action is, to the appliance, an `Ask`, an `Answer`, a `HangUp` or nothing
  (`VisibleStep`), and an answer goes to a request that is awaited because
  nothing is ever `stray` (`AnswerInv`).
* For the ids, `NumberedApart`: two records never have the same number, so
  "the oldest" is one id, and evicting it keeps the table at its cap. That the
  evicted record is older than `MaxPending` injections is a counting argument:
  the outstanding numbers fit between it and the last.
* `WillOrGoodbye`: whenever the connection is down or being left, "online" has
  been replaced by the last will or a goodbye, or the client left by a clean
  disconnect without one: stopped too early, or its subscribe failed.
* `ShownInv` says when what Home Assistant shows may trail what the bridge
  remembers. The state document trails only while a handler waits for the
  discovery payload (`Describing`), and so does the identity on record; the
  payload itself, once published in this connection, trails only when it was
  `overtaken`, and until the next one (`Current`); availability agrees with the
  registry from the step of `_on_broker_connected` that says so on
  (`Announced`). Both theorems hold for any number of sessions, which is why the
  `Bridge` run can do with two.
* For the watchdog, that its sleep never reaches past the deadline it will find
  when it wakes: before the CONNECT the sleep is at most what remains of the
  connect timeout, afterwards of 1.5 times the keepalive, and the CONNECT itself
  leaves at most one poll of sleep, which `Times` makes no longer than any
  deadline. `LivelyKept` adds `Young`: what the loop has read last is no older
  than the client's last frame or the handler that keeps it from reading.
* `NothingIsLost` is `Told` and `Behind`: the last word on a key among the
  messages on their way is what the appliance has, and a key on which none says
  anything is one the bridge knows already; plus `NoSession`, that nothing is on
  its way without a session. `ShownKept` and `OfferedKept` need that only proper
  values are known (`Types`); `InfoKept` that between
  two requests the loop's tick is ahead of the time since the last by less than
  a round (`Rounds`), and that a round goes round the period exactly if it asks
  (`RoundOfTick`).
* `AskedIsShown` joins `RoundTrip` to the queues: each key the last command sets
  has that value once the appliance has read what is on its way to it, and, when
  none of that is about the key any more, once the bridge has read what is on
  its way back (`Heeded`); a snapshot between them carries the value too.
* In `Streams` the invariants are inductive as they stand; the work is in the
  codec. The library's induction theorems take an operator as a parameter, which
  no installed prover can instantiate, so `Induction` is stated for a set of
  numbers, from the well-foundedness of `<`; a recursive function is first shown
  to exist and then to be the one that its definition chooses (`Recursion`,
  `DecodingExists`, `EncodingExists`).
  - `LengthIsTheNumber`: after n digits, the loop's value, plus its multiplier
    times the number that the other digits write, is the whole number.
  - `DecodeTakesApart`, by induction on the bytes that are left: a part of the
    buffer is a packet exactly where the scan ends it (`PacketEnds`), and bytes
    in which no packet ends are short because their header was not refused
    (`RestIsShort`).
  - `DecodeInPieces`: decoding from an offset is decoding what is left alone
    (`DecodingFrom`), so every accepted packet comes off the front of whatever
    follows it (`DecodeAfterPackets`). `StreamsInOneGo` is the consequence for
    the session. The cap on its buffer is the one thing that depends on where
    frames are cut. `StreamsCloseHasCause` says of every step that closes the
    session that the bytes read do not decode, or that the frame is longer than a
    largest packet less its length bytes: over 65 532 bytes, after a packet that
    lacks little. `max_msg_size` lets frames of up to 69 632 through, so that is
    possible with legal packets only; nothing is assumed of the frames, and TLC
    refutes the statement without that second cause.
  - `FrameIsDecoded` assumes that all byte values occur, that the body is long
    enough for its type, and that it is within both limits (the encoder's
    `LengthLimit` and the decoder's `MaxPacketBytes`).

Each proof has one step per action. Only model-checked: everything under
fairness (`ActsAsBroker` as a whole, `ClosedSessionEnds`, `BrokenLinkIsGivenUp`,
`AppearsInTheEnd`, `SlotIsReclaimed`, `ClosedIsFreed`, `Converges`), since
`ENABLED` and liveness are beyond the prover.

## What is left out

* Cloud PUBLISHes in `DeviceSession`: they change no state of it (they appear in
  `InjectedIds`). Cloud bytes that do not decode, or only half arrive, are in
  `Streams` and not in `DeviceSession`: that they leave the ledger unstruck, and
  what a pump that reads on after a fallback makes of the rest of a packet that
  was cut, is not modelled. Nor is the frame of a refused CONNACK in `Streams`,
  which the bridge keeps from the appliance (lines 349-360).
* Order of answers across tasks: `awaiting` is a set.
* Time, except in `DeviceServer`: elsewhere a timer may fire whenever it runs.
* The device server's REST handlers: each answers one request and keeps nothing.
* In `Climate`: JSON null, the device-info fields, the filter counter, timers,
  the parsing and rounding of a temperature's text, the envelope of a message.
  The rest of the discovery payload is constant: names, icons, device classes.
* In `Sync`: QoS and acknowledgements (`InjectedIds`), publishes that fail
  (`Bridge`), the reply to a device-info request, which changes no key.
* What happens after an exception of a property: the appliance's availability
  after a status message of its own (`told`), and what a replaced session's
  packet does to `NothingLost` when it is merged after the new session's first
  snapshot (`synced` is taken back; `Converges` says it is repaired).
* A session whose client takes nothing more from its socket: every send is
  assumed to return.
* The bodies the MQTT encoders write: pure, no case distinctions but lengths.
* Configuration and start-up: read once; what matters of them is in the
  CONSTANTS.
* A process crash, except in `Sync` (`Restart`): nothing is persisted; after a restart the program is in its
  initial state, and what is left of the old run is the retained messages,
  which the last will and the republish deal with.

## Plan

Done: `Broker` and `DeviceSession`, `InjectedIds`, `Bridge`, `Streams`,
`DeviceServer`, `Climate` and `Sync`. In order of importance, what would come
next:

1. `RelayStream`: `Streams` composed with the ledger of `DeviceSession`, so that
   a half packet at a fallback and an undecodable answer meet what is owed.
2. `DeviceServer` composed with `Bridge`: sessions that connect while
   `Bridge.run` shuts down.
3. The fields of the bodies: `decode(encode(x)) = x` for the answers the bridge
   sends (`FrameIsDecoded` is about their framing).
4. The order of answers across tasks in `DeviceSession`.

Every safety property of the passing runs is proved.
