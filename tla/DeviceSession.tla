---------------------------- MODULE DeviceSession ----------------------------
(***************************************************************************)
(* One connected appliance (device_session.py): the tasks that serve its   *)
(* WebSocket and the cloud link they share.                                *)
(*                                                                         *)
(*   loop     run(): reads the appliance's packets, one at a time          *)
(*   pump     _pump_upstream(): reads the cloud's answers                  *)
(*   retry    _retry_relay_recovery(): probes the cloud while local        *)
(*   closer   whichever task is inside close(): the loop, the watchdog,    *)
(*            the retry task, or the bridge                                *)
(*                                                                         *)
(* asyncio runs one task at a time and switches only at an await, so an    *)
(* action is the code between two awaits; the program counters name the    *)
(* await at which a task is suspended.  A frame reaches the appliance when *)
(* _send_to_device is called: its lock serves the callers in order.        *)
(*                                                                         *)
(* What a task reads from a socket is chosen when it reads it, which       *)
(* covers every earlier moment at which the peer may have sent it.         *)
(***************************************************************************)
CONSTANTS
    Connect,        \* the CONNECT packet
    Asks,           \* SUBSCRIBE, UNSUBSCRIBE and PINGREQ packets, with their ids
    Publishes,      \* QoS-1 PUBLISH packets, with their ids
    Foreign,        \* those of them whose topic names another serial number
    Disconnect,     \* the DISCONNECT packet
    Quiet,          \* any packet no broker answers: PUBACK, QoS-0 PUBLISH, ...
    Garbage,        \* bytes the codec cannot decode, or an overlong packet
    RelayEnabled,   \* settings.cloud_relay_enabled
    SendCanFail,    \* an upstream send can raise before the pump sees the link drop
    TeardownFails   \* upstream.close() can raise

Request == {Connect} \cup Asks \cup Publishes

Packet == Request \cup {Disconnect, Quiet, Garbage}

ASSUME PacketsDiffer ==
    /\ Connect \notin Asks \cup Publishes
    /\ Asks \cap Publishes = {}
    /\ Foreign \subseteq Publishes
    /\ Request \cap {Disconnect, Quiet, Garbage} = {}
    /\ Disconnect # Quiet /\ Quiet # Garbage /\ Garbage # Disconnect

ASSUME FlagsAreBoolean ==
    RelayEnabled \in BOOLEAN /\ SendCanFail \in BOOLEAN /\ TeardownFails \in BOOLEAN

VARIABLES
    loop, packet, more,             \* run(): its await, the packet in hand, more in its frame
    pump, refusal,                  \* the pump: its await, and after_connack_refusal
    retry, refused,                 \* _retry_task, _relay_refused
    closed, closing, closer,        \* _closed, the await inside close(), who runs it
    connectSeen, keepalive,         \* _connect_seen, _keepalive_seconds > 0
    accepted, fired,                \* _accepted, _disconnected_fired
    attached, ws,                   \* _upstream is not None, and that socket's state
    ledger,                         \* the five _pending_* fields
    toAnswer,                       \* per task: `answers` of its _answer_pending_locally
    atCloud,                        \* requests the cloud has and has not been heard on
    deviceOpen, awaiting, stray,    \* the appliance: its socket, and what it expects
    late, cloudRefused              \* history: see LateRelay and PumpRefusal

loopVars  == <<loop, packet, more>>
pumpVars  == <<pump, refusal>>
retryVars == <<retry, refused>>
closeVars == <<closed, closing, closer>>
lifeVars  == <<connectSeen, keepalive, accepted, fired>>
linkVars  == <<attached, ws, atCloud>>
owedVars  == <<ledger, toAnswer>>
devVars   == <<deviceOpen, awaiting, stray>>
history   == <<late, cloudRefused>>

vars == <<loopVars, pumpVars, retryVars, closeVars, lifeVars, linkVars,
          owedVars, devVars, history>>

Relayer == {"loop", "pump"}

FlagsOK ==
    /\ more \in BOOLEAN /\ refusal \in BOOLEAN /\ refused \in BOOLEAN
    /\ closed \in BOOLEAN /\ connectSeen \in BOOLEAN /\ keepalive \in BOOLEAN
    /\ accepted \in BOOLEAN /\ fired \in BOOLEAN
    /\ attached \in BOOLEAN /\ deviceOpen \in BOOLEAN
    /\ stray \in BOOLEAN /\ late \in BOOLEAN /\ cloudRefused \in BOOLEAN

CountersOK ==
    /\ loop \in {"recv", "frame", "packet", "observing", "opening", "sending",
                 "answering", "dropping", "sent", "refusing", "connected",
                 "closing", "ending", "disconnecting", "done"}
    /\ pump \in {"none", "created", "receiving", "sending", "answering",
                 "dropping", "ending", "done", "failed"}
    /\ retry \in {"none", "sleeping", "probing", "closing", "done"}
    /\ closing \in {"no", "upstream", "device", "done", "failed"}
    /\ closer \in {"nobody", "loop", "watchdog", "retry", "bridge"}
    /\ ws \in {"idle", "connecting", "open", "broken", "closed"}

PacketsOK ==
    /\ packet \in Packet
    /\ ledger \subseteq Request
    /\ atCloud \subseteq Request
    /\ awaiting \subseteq Request
    /\ toAnswer \in [Relayer -> SUBSET Request]

TypeOK == FlagsOK /\ CountersOK /\ PacketsOK

Init ==
    /\ loop = "recv" /\ packet = Quiet /\ more = FALSE
    /\ pump = "none" /\ refusal = FALSE
    /\ retry = "none" /\ refused = FALSE
    /\ closed = FALSE /\ closing = "no" /\ closer = "nobody"
    /\ connectSeen = FALSE /\ keepalive = FALSE
    /\ accepted = FALSE /\ fired = FALSE
    /\ attached = FALSE /\ ws = "idle" /\ atCloud = {}
    /\ ledger = {} /\ toAnswer = [t \in Relayer |-> {}]
    /\ deviceOpen = TRUE /\ awaiting = {} /\ stray = FALSE
    /\ late = FALSE /\ cloudRefused = FALSE

-----------------------------------------------------------------------------
(* Shared steps *)

\* self.relaying: the socket counts as open until this side notices its end.
relaying == attached /\ ws \in {"open", "broken"}

\* _send_to_device of the answer to r; nothing is sent on a closed socket.
SendToDevice(r) ==
    /\ awaiting' = IF deviceOpen THEN awaiting \ {r} ELSE awaiting
    /\ stray' = (stray \/ (deviceOpen /\ r \notin awaiting))
    /\ UNCHANGED deviceOpen

\* Mutant: every packet is remembered.
RecordEveryPacket(p) == ledger \cup {p}

\* Mutant: PUBLISH packets are not remembered.
RecordNoPublish(p) == ledger \cup ({p} \cap ({Connect} \cup Asks))

\* _record_pending_ack: only packets a broker answers are remembered.
RecordPendingAck(p) == ledger \cup ({p} \cap Request)

\* Mutant: the cloud's answer is passed down and stays owed.
StrikeNothing(r) == ledger

\* The ledger once the cloud has answered r.
StrikeFromLedger(r) == ledger \ {r}

\* Mutant: probing is started in a closed session too.
StartRetryAlways ==
    IF RelayEnabled /\ ~refused /\ retry \in {"none", "done"} THEN "sleeping" ELSE retry

\* _maybe_start_relay_retry, as the new value of _retry_task.
MaybeStartRelayRetry ==
    IF RelayEnabled /\ ~refused /\ ~closed /\ retry \in {"none", "done"}
    THEN "sleeping"
    ELSE retry

\* A packet is handled: the loop has none in hand and goes on to the next.
NextPacket ==
    /\ loop' = IF more THEN "frame" ELSE "recv"
    /\ packet' = Quiet

\* CONNACK precedes every other answer.
FirstOf(S) == {r \in S : Connect \in S => r = Connect}

(***************************************************************************)
(* close(), up to its first await, run by task t.  It cancels the other    *)
(* tasks at once: a cancelled task takes no further step.  (Its finally    *)
(* clauses do nothing more here: the pump's sees _closed, the probe's      *)
(* closes a socket of its own.)  A pump in the fallback of its own finally *)
(* clause goes on: it has given up _upstream_task before.  The watchdog    *)
(* has no state to cancel: it only acts while the session is not closed.   *)
(***************************************************************************)
PumpOutlivesClose == pump = "none" \/ (pump \in {"answering", "dropping"} /\ ~refusal)

Close(t) ==
    /\ ~closed
    /\ closed' = TRUE
    /\ closer' = t
    /\ closing' = IF attached THEN "upstream" ELSE "device"
    /\ attached' = FALSE
    /\ pump' = IF PumpOutlivesClose THEN pump ELSE "done"
    /\ retry' = IF t = "retry" THEN "closing" ELSE IF retry = "none" THEN "none" ELSE "done"

\* Mutant: the ledger is kept while its answers are sent.
DetachAndKeep(t) ==
    /\ attached' = FALSE
    /\ toAnswer' = [toAnswer EXCEPT ![t] = ledger]
    /\ ledger' = ledger

(***************************************************************************)
(* _fallback_to_local, up to its first await, run by task t: the upstream  *)
(* is detached and the ledger turned into answers in one step.             *)
(***************************************************************************)
DetachAndOwe(t) ==
    /\ attached' = FALSE
    /\ toAnswer' = [toAnswer EXCEPT ![t] = ledger]
    /\ ledger' = {}

-----------------------------------------------------------------------------
(* The run loop *)

\* The next packet, from a new WebSocket frame or from the rest of this one.
\* An appliance does not reuse a request's id while it awaits the answer.
Receive(p) ==
    /\ loop = "frame" \/ (loop = "recv" /\ deviceOpen)
    /\ p \notin awaiting
    /\ packet' = p
    /\ more' \in BOOLEAN
    /\ awaiting' = awaiting \cup ({p} \cap Request)
    /\ loop' = "packet"
    /\ UNCHANGED <<deviceOpen, stray, pumpVars, retryVars, closeVars, lifeVars,
                   linkVars, owedVars, history>>

\* Undecodable bytes, a second CONNECT, a packet before CONNECT: close the session.
MustReject ==
    \/ packet = Garbage
    \/ packet = Connect /\ connectSeen
    \/ packet # Connect /\ ~connectSeen

\* A close() by the loop itself; one that finds the session closed returns.
LoopCloses ==
    \/ /\ Close("loop")
       /\ loop' = "closing"
       /\ UNCHANGED packet
    \/ /\ closed
       /\ NextPacket
       /\ UNCHANGED <<closeVars, attached, pump, retry>>

RejectPacket ==
    /\ loop = "packet" /\ MustReject
    /\ LoopCloses
    /\ UNCHANGED <<more, refusal, refused, lifeVars, ws, atCloud,
                   owedVars, devVars, history>>

\* _handle_connect with a client id that is malformed or not allowed.
RefuseConnect ==
    /\ loop = "packet" /\ ~MustReject /\ packet = Connect
    /\ connectSeen' = TRUE
    /\ SendToDevice(Connect)
    /\ loop' = "refusing"
    /\ UNCHANGED <<packet, more, pumpVars, retryVars, closeVars, keepalive,
                   accepted, fired, linkVars, owedVars, history>>

CloseAfterRefusal ==
    /\ loop = "refusing"
    /\ LoopCloses
    /\ UNCHANGED <<more, refusal, refused, lifeVars, ws, atCloud,
                   owedVars, devVars, history>>

\* _handle_connect of an appliance we serve: relay if the cloud can be opened.
AdmitConnect ==
    /\ loop = "packet" /\ ~MustReject /\ packet = Connect
    /\ connectSeen' = TRUE
    /\ keepalive' \in BOOLEAN
    /\ IF RelayEnabled
       THEN /\ loop' = "opening"
            /\ ws' = "connecting"
            /\ UNCHANGED devVars
       ELSE /\ loop' = "sent"
            /\ SendToDevice(Connect)
            /\ UNCHANGED ws
    /\ UNCHANGED <<packet, more, pumpVars, retryVars, closeVars, accepted, fired,
                   attached, atCloud, owedVars, history>>

\* upstream.connect() returned: the pump task is created and the CONNECT sent up.
UpstreamOpened ==
    /\ loop = "opening"
    /\ ws' = "open"
    /\ attached' = TRUE
    /\ pump' = "created"
    /\ ledger' = RecordPendingAck(Connect)
    /\ atCloud' = {Connect}
    /\ loop' = "sending"
    /\ UNCHANGED <<packet, more, refusal, retryVars, closeVars, lifeVars, toAnswer,
                   devVars, history>>

\* upstream.connect() raised: start probing and accept the CONNECT ourselves.
UpstreamUnreachable ==
    /\ loop = "opening"
    /\ ws' = "closed"
    /\ retry' = MaybeStartRelayRetry
    /\ SendToDevice(Connect)
    /\ loop' = "sent"
    /\ UNCHANGED <<packet, more, pumpVars, refused, closeVars, lifeVars, attached,
                   atCloud, owedVars, history>>

\* A PUBLISH is first reported to the bridge (on_publish) ...
ObservePublish ==
    /\ loop = "packet" /\ ~MustReject
    /\ packet \in (Publishes \ Foreign) \cup {Quiet}
    /\ loop' = "observing"
    /\ UNCHANGED <<packet, more, pumpVars, retryVars, closeVars, lifeVars, linkVars,
                   owedVars, devVars, history>>

\* ... or dropped, neither forwarded nor acknowledged: its topic names another
\* appliance than this one, which has no serial number if its CONNECT was
\* refused (the session is closed then).  A PUBACK for a packet we injected is
\* dropped too.
DropPacket ==
    /\ loop = "packet" /\ ~MustReject
    /\ \/ packet \in Foreign \cup {Quiet}
       \/ packet \in Publishes /\ closed /\ ~accepted
    /\ NextPacket
    /\ UNCHANGED <<more, pumpVars, retryVars, closeVars, lifeVars, linkVars,
                   owedVars, devVars, history>>

\* A packet to be forwarded or answered; relaying is read after on_publish.
ToRoute ==
    \/ loop = "observing"
    \/ loop = "packet" /\ ~MustReject /\ packet \notin {Connect} \cup Publishes

\* _forward_upstream, up to the send: the answer is owed by the cloud from here.
\* What is written to a broken link is lost.
ForwardUpstream ==
    /\ ToRoute /\ relaying
    /\ ledger' = RecordPendingAck(packet)
    /\ atCloud' = IF ws = "open" THEN atCloud \cup ({packet} \cap Request) ELSE atCloud
    /\ loop' = "sending"
    /\ UNCHANGED <<packet, more, pumpVars, retryVars, closeVars, lifeVars, attached,
                   ws, toAnswer, devVars, history>>

\* Mutant: a QoS-1 PUBLISH is taken for one that nobody acknowledges.
AnswerAsksOnly ==
    /\ ToRoute /\ ~relaying
    /\ IF packet \in Asks
       THEN SendToDevice(packet) /\ loop' = "sent" /\ UNCHANGED packet
       ELSE NextPacket /\ UNCHANGED devVars
    /\ UNCHANGED <<more, pumpVars, retryVars, closeVars, lifeVars, linkVars,
                   owedVars, history>>

\* _answer_locally
AnswerLocally ==
    /\ ToRoute /\ ~relaying
    /\ \/ /\ packet \in Request
          /\ SendToDevice(packet)
          /\ loop' = "sent"
          /\ UNCHANGED <<packet, closeVars, attached, pump, retry>>
       \/ /\ packet = Disconnect
          /\ LoopCloses
          /\ UNCHANGED devVars
       \/ /\ packet = Quiet
          /\ NextPacket
          /\ UNCHANGED <<devVars, closeVars, attached, pump, retry>>
    /\ UNCHANGED <<more, refusal, refused, lifeVars, ws, atCloud, owedVars,
                   history>>

\* The packet is handled; after the CONNECT the bridge is told (on_connected).
PacketDone ==
    /\ \/ packet = Connect
          /\ accepted' = TRUE
          /\ loop' = "connected"
          /\ UNCHANGED packet
       \/ packet # Connect
          /\ NextPacket
          /\ UNCHANGED accepted

\* upstream.send() returned, or a send to the appliance did.
SendReturns ==
    /\ loop \in {"sending", "sent"}
    /\ PacketDone
    /\ UNCHANGED <<more, pumpVars, retryVars, closeVars, connectSeen,
                   keepalive, fired, linkVars, owedVars, devVars, history>>

\* upstream.send() raised: _fallback_to_local, unless already local.
SendFails ==
    /\ loop = "sending" /\ ws # "open"
    /\ SendCanFail
    /\ IF attached
       THEN /\ DetachAndOwe("loop")
            /\ loop' = "answering"
            /\ UNCHANGED <<packet, accepted>>
       ELSE /\ PacketDone
            /\ UNCHANGED <<attached, owedVars>>
    /\ UNCHANGED <<more, pumpVars, retryVars, closeVars, connectSeen,
                   keepalive, fired, ws, atCloud, devVars, history>>

CallbackReturns ==
    /\ loop = "connected"
    /\ NextPacket
    /\ UNCHANGED <<more, pumpVars, retryVars, closeVars, lifeVars, linkVars,
                   owedVars, devVars, history>>

\* The loop's own close() has finished; it goes on with the frame in hand ...
LoopCloseReturns ==
    /\ loop = "closing" /\ closing = "done"
    /\ NextPacket
    /\ UNCHANGED <<more, pumpVars, retryVars, closeVars, lifeVars, linkVars,
                   owedVars, devVars, history>>

\* ... or upstream.close() raised in it: the exception leaves run()'s loop.
LoopCloseFails ==
    /\ loop = "closing" /\ closing = "failed"
    /\ loop' = "ending"
    /\ UNCHANGED <<packet, more, pumpVars, retryVars, closeVars, lifeVars, linkVars,
                   owedVars, devVars, history>>

\* The appliance's socket has ended: run()'s finally clause.
SocketEnds ==
    /\ loop = "recv" /\ ~deviceOpen
    /\ loop' = "ending"
    /\ UNCHANGED <<packet, more, pumpVars, retryVars, closeVars, lifeVars, linkVars,
                   owedVars, devVars, history>>

FinalClose ==
    /\ loop = "ending" /\ Close("loop")
    /\ UNCHANGED <<loopVars, refusal, refused, lifeVars, ws, atCloud, owedVars,
                   devVars, history>>

\* Mutant: the bridge is told only of sessions the loop closed itself.
OwesOwnEnd == accepted /\ ~fired /\ closer = "loop"

\* _safe_on_disconnected: at most once, and only for an accepted session.
OwesDisconnected == accepted /\ ~fired

TellDisconnected ==
    /\ loop = "ending" /\ closed
    /\ closer = "loop" => closing \in {"done", "failed"}
    /\ fired' = (fired \/ OwesDisconnected)
    /\ loop' = IF OwesDisconnected THEN "disconnecting" ELSE "done"
    /\ UNCHANGED <<packet, more, pumpVars, retryVars, closeVars, connectSeen,
                   keepalive, accepted, linkVars, owedVars, devVars, history>>

RunReturns ==
    /\ loop = "disconnecting"
    /\ loop' = "done"
    /\ UNCHANGED <<packet, more, pumpVars, retryVars, closeVars, lifeVars, linkVars,
                   owedVars, devVars, history>>

-----------------------------------------------------------------------------
(* The rest of _fallback_to_local, in the loop or in the pump *)

\* One of the answers owed; the task's program counter stays at the send.
AnswerOne(t) ==
    /\ \E r \in FirstOf(toAnswer[t]) :
          /\ SendToDevice(r)
          /\ toAnswer' = [toAnswer EXCEPT ![t] = @ \ {r}]
    /\ UNCHANGED <<loopVars, pumpVars, retryVars, closeVars, lifeVars, linkVars,
                   ledger, history>>

LoopAnswers == loop = "answering" /\ AnswerOne("loop")

LoopDropsUpstream ==
    /\ loop = "answering" /\ toAnswer["loop"] = {}
    /\ ws' = "closed"
    /\ loop' = "dropping"
    /\ UNCHANGED <<packet, more, pumpVars, retryVars, closeVars, lifeVars, attached,
                   atCloud, owedVars, devVars, history>>

LoopFallsBack ==
    /\ loop = "dropping"
    /\ retry' = MaybeStartRelayRetry
    /\ PacketDone
    /\ UNCHANGED <<more, pumpVars, refused, closeVars, connectSeen, keepalive,
                   fired, linkVars, owedVars, devVars, history>>

\* upstream.close() raised: the exception leaves run()'s loop.
LoopDropFails ==
    /\ loop = "dropping" /\ TeardownFails
    /\ loop' = "ending"
    /\ UNCHANGED <<packet, more, pumpVars, retryVars, closeVars, lifeVars, linkVars,
                   owedVars, devVars, history>>

PumpAnswers == pump = "answering" /\ AnswerOne("pump")

PumpDropsUpstream ==
    /\ pump = "answering" /\ toAnswer["pump"] = {}
    /\ ws' = "closed"
    /\ pump' = "dropping"
    /\ UNCHANGED <<loopVars, refusal, retryVars, closeVars, lifeVars, attached,
                   atCloud, owedVars, devVars, history>>

\* Mutant: probing is started after a refusal too.
PumpAlwaysRetries ==
    /\ pump = "dropping"
    /\ pump' = "done"
    /\ retry' = MaybeStartRelayRetry
    /\ UNCHANGED <<loopVars, refusal, refused, closeVars, lifeVars, linkVars, owedVars,
                   devVars, history>>

PumpFallsBack ==
    /\ pump = "dropping"
    /\ pump' = "done"
    /\ IF refusal
       THEN refused' = TRUE /\ UNCHANGED retry
       ELSE retry' = MaybeStartRelayRetry /\ UNCHANGED refused
    /\ UNCHANGED <<loopVars, refusal, closeVars, lifeVars, linkVars, owedVars,
                   devVars, history>>

PumpDropFails ==
    /\ pump = "dropping" /\ TeardownFails
    /\ pump' = "done"
    /\ UNCHANGED <<loopVars, refusal, retryVars, closeVars, lifeVars, linkVars,
                   owedVars, devVars, history>>

-----------------------------------------------------------------------------
(* The upstream pump *)

\* The task's first step: `assert upstream is not None`.
PumpStarts ==
    /\ pump = "created"
    /\ pump' = IF attached THEN "receiving" ELSE "failed"
    /\ UNCHANGED <<loopVars, refusal, retryVars, closeVars, lifeVars, linkVars,
                   owedVars, devVars, history>>

\* The cloud's answer to r: struck from the ledger and passed down.  The pump
\* does not ask whether the upstream it reads is still attached (late).
PumpRelays(r) ==
    /\ pump = "receiving" /\ ws \in {"open", "broken"}
    /\ r \in FirstOf(atCloud)
    /\ atCloud' = atCloud \ {r}
    /\ ledger' = StrikeFromLedger(r)
    /\ SendToDevice(r)
    /\ pump' = "sending"
    /\ late' = (late \/ ~attached)
    /\ UNCHANGED <<loopVars, refusal, retryVars, closeVars, lifeVars, attached, ws,
                   toAnswer, cloudRefused>>

PumpSendReturns ==
    /\ pump = "sending"
    /\ pump' = "receiving"
    /\ UNCHANGED <<loopVars, refusal, retryVars, closeVars, lifeVars, linkVars,
                   owedVars, devVars, history>>

\* A CONNACK that refuses the appliance: fall back, unless already local.
PumpRefusal ==
    /\ pump = "receiving" /\ ws \in {"open", "broken"}
    /\ Connect \in atCloud
    /\ atCloud' = atCloud \ {Connect}
    /\ cloudRefused' = TRUE
    /\ IF attached
       THEN /\ DetachAndOwe("pump")
            /\ refusal' = TRUE
            /\ pump' = "answering"
       ELSE /\ pump' = "done"
            /\ UNCHANGED <<attached, owedVars, refusal>>
    /\ UNCHANGED <<loopVars, retryVars, closeVars, lifeVars, ws, devVars, late>>

\* receive() meets the end of the socket and closes its own side ...
PumpSeesEnd ==
    /\ pump = "receiving" /\ ws \in {"broken", "closed"}
    /\ ws' = "closed"
    /\ pump' = "ending"
    /\ UNCHANGED <<loopVars, refusal, retryVars, closeVars, lifeVars, attached,
                   atCloud, owedVars, devVars, history>>

\* Mutant: a pump that ends on its own reconciles nothing.
PumpJustEnds ==
    /\ pump = "ending"
    /\ pump' = "done"
    /\ UNCHANGED <<loopVars, refusal, retryVars, closeVars, lifeVars, linkVars,
                   owedVars, devVars, history>>

\* ... and the pump's finally clause reconciles, unless somebody else has.
PumpEnds ==
    /\ pump = "ending"
    /\ IF ~closed /\ attached
       THEN DetachAndOwe("pump") /\ pump' = "answering"
       ELSE pump' = "done" /\ UNCHANGED <<attached, owedVars>>
    /\ UNCHANGED <<loopVars, refusal, retryVars, closeVars, lifeVars, ws, atCloud,
                   devVars, history>>

-----------------------------------------------------------------------------
(* The retry task, the watchdog, the bridge: close() from outside the loop *)

RetryWakes ==
    /\ retry = "sleeping"
    /\ retry' = "probing"
    /\ UNCHANGED <<loopVars, pumpVars, refused, closeVars, lifeVars, linkVars,
                   owedVars, devVars, history>>

ProbeFails ==
    /\ retry = "probing"
    /\ retry' = "sleeping"
    /\ UNCHANGED <<loopVars, pumpVars, refused, closeVars, lifeVars, linkVars,
                   owedVars, devVars, history>>

\* probe.close() raised, after a failed probe or a good one: the task is over.
ProbeCloseFails ==
    /\ retry = "probing" /\ TeardownFails
    /\ retry' = "done"
    /\ UNCHANGED <<loopVars, pumpVars, refused, closeVars, lifeVars, linkVars,
                   owedVars, devVars, history>>

\* The cloud answers the probe: bounce the appliance onto the relay.
ProbeSucceeds ==
    /\ retry = "probing" /\ Close("retry")
    /\ UNCHANGED <<loopVars, refusal, refused, lifeVars, ws, atCloud, owedVars,
                   devVars, history>>

\* A deadline passed: before CONNECT, or 1.5 keepalives if the appliance asked for any.
WatchdogFires ==
    /\ connectSeen => keepalive
    /\ Close("watchdog")
    /\ UNCHANGED <<loopVars, refusal, refused, lifeVars, ws, atCloud, owedVars,
                   devVars, history>>

\* The bridge replaces this session by a newer one of the appliance, or shuts down.
BridgeCloses ==
    /\ accepted
    /\ Close("bridge")
    /\ UNCHANGED <<loopVars, refusal, refused, lifeVars, ws, atCloud, owedVars,
                   devVars, history>>

\* Mutant: with a relay, close() leaves the appliance's socket open.
CloseUpstreamOnly ==
    /\ closing = "upstream"
    /\ ws' = "closed"
    /\ closing' = "done"
    /\ UNCHANGED <<loopVars, pumpVars, retryVars, closed, closer, lifeVars, attached,
                   atCloud, owedVars, devVars, history>>

\* The rest of close(): the upstream socket, then the appliance's.  If the first
\* raises, the appliance's stays open and, _closed being set, nobody tries again.
CloseUpstream ==
    /\ closing = "upstream"
    /\ ws' = "closed"
    /\ \/ closing' = "device"
       \/ TeardownFails /\ closing' = "failed"
    /\ UNCHANGED <<loopVars, pumpVars, retryVars, closed, closer, lifeVars, attached,
                   atCloud, owedVars, devVars, history>>

CloseDevice ==
    /\ closing = "device"
    /\ deviceOpen' = FALSE
    /\ closing' = "done"
    /\ UNCHANGED <<loopVars, pumpVars, retryVars, closed, closer, lifeVars, linkVars,
                   owedVars, awaiting, stray, history>>

RetryCloseReturns ==
    /\ retry = "closing" /\ closing \in {"done", "failed"}
    /\ retry' = "done"
    /\ UNCHANGED <<loopVars, pumpVars, refused, closeVars, lifeVars, linkVars,
                   owedVars, devVars, history>>

-----------------------------------------------------------------------------
(* The peers *)

DeviceHangsUp ==
    /\ deviceOpen
    /\ deviceOpen' = FALSE
    /\ UNCHANGED <<loopVars, pumpVars, retryVars, closeVars, lifeVars, linkVars,
                   owedVars, awaiting, stray, history>>

LinkBreaks ==
    /\ ws = "open"
    /\ ws' = "broken"
    /\ UNCHANGED <<loopVars, pumpVars, retryVars, closeVars, lifeVars, attached,
                   atCloud, owedVars, devVars, history>>

-----------------------------------------------------------------------------
LoopStep ==
    \/ loop = "frame" /\ \E p \in Packet : Receive(p)
    \/ RejectPacket \/ RefuseConnect \/ CloseAfterRefusal \/ AdmitConnect
    \/ UpstreamOpened \/ UpstreamUnreachable
    \/ ObservePublish \/ DropPacket \/ ForwardUpstream \/ AnswerLocally
    \/ SendReturns \/ SendFails \/ CallbackReturns
    \/ LoopAnswers \/ LoopDropsUpstream \/ LoopFallsBack \/ LoopDropFails
    \/ LoopCloseReturns \/ LoopCloseFails
    \/ SocketEnds \/ FinalClose \/ TellDisconnected \/ RunReturns

PumpStep ==
    \/ PumpStarts \/ PumpSendReturns \/ PumpSeesEnd \/ PumpEnds
    \/ PumpAnswers \/ PumpDropsUpstream \/ PumpFallsBack \/ PumpDropFails

CloserStep == CloseUpstream \/ CloseDevice \/ RetryCloseReturns

RetryStep == RetryWakes \/ ProbeFails \/ ProbeCloseFails \/ ProbeSucceeds

Environment ==
    \/ loop = "recv" /\ \E p \in Packet : Receive(p)
    \/ \E r \in Request : PumpRelays(r)
    \/ PumpRefusal \/ WatchdogFires \/ BridgeCloses \/ DeviceHangsUp \/ LinkBreaks

\* A session whose run() has returned may rest.
Finished == loop = "done" /\ UNCHANGED vars

Next == Finished \/ LoopStep \/ PumpStep \/ CloserStep \/ RetryStep \/ Environment

(***************************************************************************)
(* Fairness: asyncio runs every ready task, every await of a send, a close *)
(* or a callback returns, a WebSocket frame holds finitely many packets,   *)
(* and the cloud answers what it was sent or its link breaks.  Nothing is  *)
(* assumed of the appliance, of the watchdog, of the bridge, or of how     *)
(* often the cloud can be reached.                                         *)
(***************************************************************************)
Fairness ==
    /\ WF_vars(LoopStep)
    /\ SF_vars(loop = "frame" /\ more' = FALSE /\ \E p \in Packet : Receive(p))
    /\ WF_vars(PumpStep)
    /\ WF_vars(CloserStep)
    /\ \A r \in Request \ Foreign :
          SF_vars(PumpRelays(r) \/ (r = Connect /\ PumpRefusal))

Spec == Init /\ [][Next]_vars

FairSpec == Spec /\ Fairness

-----------------------------------------------------------------------------
(* Properties *)

(***************************************************************************)
(* No request is forgotten (_fallback_to_local: "the device must never be  *)
(* left waiting for an answer that will now never arrive").  While the     *)
(* session is open, an unanswered request is in the loop's hand, or in the *)
(* ledger of a relay that is still attached, or among the answers a        *)
(* fallback is about to send.  Only a PUBLISH whose topic names another    *)
(* serial number is left unanswered, on purpose.                           *)
(***************************************************************************)
InHand(r) == packet = r /\ loop \in {"packet", "observing", "opening"}

BeingAnswered(r) ==
    \/ loop = "answering" /\ r \in toAnswer["loop"]
    \/ pump = "answering" /\ r \in toAnswer["pump"]

NoRequestForgotten ==
    deviceOpen /\ ~closed /\ loop # "ending" =>
        \A r \in awaiting \ Foreign :
            InHand(r) \/ (attached /\ r \in ledger) \/ BeingAnswered(r)

(***************************************************************************)
(* A ledger entry has an upstream that owes it, and the two fallbacks that *)
(* may race (a failed forward and the pump's) never both owe answers.      *)
(***************************************************************************)
LedgerNeedsUpstream ==
    ~closed =>
        /\ ledger # {} => attached
        /\ \A t \in Relayer : toAnswer[t] # {} => ~attached
        /\ \E t \in Relayer : toAnswer[t] = {}

(***************************************************************************)
(* The inductive invariant behind the two: before the upstream is opened   *)
(* there is no pump, no ledger and nothing to answer, and the packet in    *)
(* the loop's hand fits the await the loop is at.                          *)
(***************************************************************************)
FreshUntilOpened ==
    ~connectSeen \/ loop = "opening" =>
        /\ pump = "none" /\ ~attached /\ ledger = {}
        /\ \A t \in Relayer : toAnswer[t] = {}

PacketInHand ==
    /\ loop = "observing" => packet \in (Publishes \ Foreign) \cup {Quiet}
    /\ loop = "opening" => packet = Connect /\ connectSeen

RequestInv ==
    /\ TypeOK
    /\ FreshUntilOpened
    /\ PacketInHand
    /\ LedgerNeedsUpstream
    /\ NoRequestForgotten

(***************************************************************************)
(* The appliance gets an answer it does not await (a second CONNACK, a     *)
(* second SUBACK) in one way only: the pump passed down a cloud answer     *)
(* after the upstream had been detached.                                   *)
(***************************************************************************)
StrayOnlyAfterLateRelay == stray => late

(***************************************************************************)
(* Its inductive invariant.  As long as nothing was relayed late, what the *)
(* ledger and the fallbacks owe is awaited, what the cloud may still       *)
(* answer is in the ledger, and the packet in the loop's hand is owed by   *)
(* nobody else.                                                            *)
(***************************************************************************)
OwedIsAwaited ==
    /\ attached => ledger \subseteq awaiting /\ atCloud \subseteq ledger
    /\ \A t \in Relayer : toAnswer[t] \subseteq awaiting

HandIsItsOwn ==
    loop \in {"packet", "observing", "opening"} /\ packet \in Request =>
        /\ packet \in awaiting
        /\ attached => packet \notin ledger
        /\ \A t \in Relayer : packet \notin toAnswer[t]

OneDebtor ==
    /\ attached => \A t \in Relayer : toAnswer[t] = {}
    /\ toAnswer["loop"] = {} \/ toAnswer["pump"] = {}
    /\ toAnswer["loop"] \cap toAnswer["pump"] = {}

PumpIsAttached ==
    pump \in {"created", "receiving", "sending", "ending"} /\ ~SendCanFail => attached

AnswerInv ==
    /\ RequestInv
    /\ OneDebtor
    /\ PumpIsAttached
    /\ late => SendCanFail
    /\ ~late => ~stray /\ OwedIsAwaited /\ HandIsItsOwn

(***************************************************************************)
(* The appliance is never answered twice (_answer_pending_locally: traffic *)
(* handled meanwhile can not "be answered twice").                         *)
(***************************************************************************)
AnsweredOnce == ~stray

(***************************************************************************)
(* The retry task lives only in a session that relays nothing, so a bounce *)
(* never cuts a working relay; and it never outlives the session.          *)
(***************************************************************************)
RetryOnlyWhenLocal ==
    retry \in {"sleeping", "probing"} => ~attached /\ ~closed /\ RelayEnabled

(***************************************************************************)
(* Its inductive invariant: a task inside a fallback has detached the      *)
(* upstream, and the retry task does not start before CONNECT is decided.  *)
(***************************************************************************)
FallbackIsDetached ==
    /\ loop \in {"answering", "dropping"} => ~attached /\ connectSeen
    /\ pump \in {"answering", "dropping"} => ~attached
    /\ ~connectSeen \/ loop = "opening" => retry \notin {"sleeping", "probing"}

RetryInv ==
    /\ RequestInv
    /\ FallbackIsDetached
    /\ RetryOnlyWhenLocal

(***************************************************************************)
(* on_disconnected follows every on_connected once run() has returned,     *)
(* whatever close() met on its way.                                        *)
(***************************************************************************)
BridgeHearsTheEnd == loop = "done" => closed /\ (accepted => fired)

\* Its inductive invariant: what is left of run() is the callback.
EndInv ==
    /\ TypeOK
    /\ loop \in {"disconnecting", "done"} => closed /\ (accepted => fired)

(***************************************************************************)
(* Once the cloud has refused the appliance's CONNECT the session stays    *)
(* local and stops probing (DOCS.md: "the app stays local for that         *)
(* connection").                                                           *)
(***************************************************************************)
RefusalIsFinal == cloudRefused => retry \notin {"sleeping", "probing"}

(***************************************************************************)
(* Its inductive invariant when sends do not fail: the loop never falls    *)
(* back, so a refusal finds the CONNECT decided and the pump in the        *)
(* refusal's own fallback or gone, and nobody is left to start a probe.    *)
(***************************************************************************)
OnlyThePumpFallsBack == loop \notin {"answering", "dropping"}

RefusedForGood ==
    cloudRefused =>
        /\ retry \notin {"sleeping", "probing"}
        /\ connectSeen /\ loop # "opening"
        /\ pump \in {"answering", "dropping", "done"}
        /\ pump # "done" => refusal

RefusalInv ==
    /\ AnswerInv
    /\ RetryInv
    /\ ~SendCanFail => OnlyThePumpFallsBack /\ RefusedForGood

(***************************************************************************)
(* A session that has ended holds no upstream connection.                  *)
(***************************************************************************)
EndedSessionHoldsNoUpstream == loop = "done" => ~attached

(***************************************************************************)
(* The appliance's view of the session as a broker: whoever answers, no    *)
(* request is answered twice, and every one is answered in the end but a   *)
(* PUBLISH in another appliance's name, which is dropped.                  *)
(***************************************************************************)
Serving == deviceOpen /\ ~closed

AsBroker == INSTANCE Broker WITH
    Request  <- Request \ Foreign,
    online   <- Serving,
    awaiting <- IF Serving THEN awaiting \ Foreign ELSE {},
    stray    <- Serving /\ stray

ActsAsBroker == AsBroker!Spec

(***************************************************************************)
(* A session that is closed, by whomever, comes to its end: the            *)
(* appliance's socket is shut and run() returns.  The exception is an      *)
(* upstream.close() that raised in close(): run() returns if it was the    *)
(* loop's own call, but the appliance's socket is shut by nobody here.     *)
(***************************************************************************)
ClosedSessionEnds ==
    closed ~> \/ loop = "done" /\ ~deviceOpen
              \/ closing = "failed" /\ (closer = "loop" => loop = "done")

(***************************************************************************)
(* While the session is open, a broken upstream is noticed and given up,   *)
(* so that the appliance is served locally from then on.                   *)
(***************************************************************************)
BrokenLinkIsGivenUp == ws = "broken" ~> ~attached \/ closed
=============================================================================
