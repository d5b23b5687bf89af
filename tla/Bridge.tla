-------------------------------- MODULE Bridge --------------------------------
(***************************************************************************)
(* One appliance as the bridge shows it to Home Assistant: the handlers of *)
(* bridge.py for the sessions of one serial number, what they remember of  *)
(* it (state.py), and the MQTT client they publish through (ha_mqtt.py).   *)
(*                                                                         *)
(* Sessions of one appliance overlap: the new one registers itself before  *)
(* it closes the old one, and each runs its handlers in its own task.  An  *)
(* action is the code between two awaits; a session's `pc` names the await *)
(* its handler is suspended at.  Everything published is retained by the   *)
(* broker, which is what Home Assistant shows.                             *)
(*                                                                         *)
(* The appliance's state takes new values only, numbered in order: the     *)
(* code compares a report with the value before it, so one that returns is *)
(* as good as new.  The details on the device card may return to earlier   *)
(* values: the code compares them with those it published last.  Info that *)
(* is on no card (the Wi-Fi signal) is published with the state document   *)
(* like any news of the state.                                             *)
(***************************************************************************)
EXTENDS Naturals

CONSTANTS
    Sessions,       \* the appliance's DeviceSessions, numbered as they connect
    None,           \* no session, or nothing retained on a topic
    MaxCore,        \* bound on the versions of the state
    MaxInfo,        \* bound on the different details a device card can show
    StatusMessages  \* the appliance also publishes online/offline status itself

ASSUME BridgeAssumption ==
    /\ Sessions \subseteq Nat
    /\ MaxCore \in Nat \ {0} /\ MaxInfo \in Nat \ {0}
    /\ None \notin Nat \cup {"online", "offline"}
    /\ StatusMessages \in BOOLEAN

VARIABLES
    pc,             \* per session: where its handler waits
    closed,         \* per session: close() was called on it
    registry,       \* _sessions[serial]
    known,          \* the serial is in _states
    online,         \* DeviceState.online
    core, info,     \* versions of DeviceState.state, of the card's .info; 0: not told
    identity,       \* _published_discovery_identity[serial]
    fallback,       \* per session: the discovery timer its connect started
    run,            \* Bridge.run
    ha, link,       \* HomeAssistantMqtt.run, and whether its broker can be reached
    bridgeTopic, availability, discovery, document,  \* retained by the broker
    told, revived, overtaken, cutShort  \* history: see the properties

sessionVars == <<pc, closed, registry>>
stateVars   == <<known, online, core, info, identity>>
clientVars  == <<run, ha, link, bridgeTopic>>
topicVars   == <<availability, discovery, document>>
history     == <<told, revived, overtaken, cutShort>>

vars == <<sessionVars, stateVars, fallback, clientVars, topicVars, history>>

Core == 0 .. MaxCore
Info == 0 .. MaxInfo
Document == [core : Core \ {0}, info : Info]

TypeOK ==
    /\ pc \in [Sessions -> {"new", "replacing", "announcing", "discovering", "live",
                            "describing", "gone"}]
    /\ closed \in [Sessions -> BOOLEAN]
    /\ registry \in Sessions \cup {None}
    /\ known \in BOOLEAN /\ online \in BOOLEAN
    /\ core \in Core /\ info \in Info
    /\ identity \in Info \cup {None}
    /\ fallback \in [Sessions -> {"none", "sleeping", "publishing"}]
    /\ run \in {"running", "stopping", "closing", "stopped"}
    /\ ha \in {"down", "setup", "redescribing", "reannouncing", "messages", "leaving",
               "stopped"}
    /\ link \in BOOLEAN
    /\ bridgeTopic \in {None, "online", "offline"}
    /\ availability \in {None, "online", "offline"}
    /\ discovery \in Info \cup {None}
    /\ document \in Document \cup {None}
    /\ told \in BOOLEAN /\ revived \in BOOLEAN
    /\ overtaken \in BOOLEAN /\ cutShort \in BOOLEAN

Init ==
    /\ pc = [s \in Sessions |-> "new"]
    /\ closed = [s \in Sessions |-> FALSE]
    /\ registry = None
    /\ known = FALSE /\ online = FALSE /\ core = 0 /\ info = 0
    /\ identity = None
    /\ fallback = [s \in Sessions |-> "none"]
    /\ run = "running"
    /\ ha = "down" /\ link = FALSE
    /\ bridgeTopic = None /\ availability = None /\ discovery = None /\ document = None
    /\ told = FALSE /\ revived = FALSE /\ overtaken = FALSE /\ cutShort = FALSE

-----------------------------------------------------------------------------
(* Publishing (HomeAssistantMqtt._publish) *)

\* self._client is set
HasClient == ha \notin {"down", "stopped"}

\* What a topic retains after a publish: lost without a client, or on a dead link.
Published(topic, value) == IF HasClient /\ link THEN value ELSE topic

Status(up) == IF up THEN "online" ELSE "offline"

\* Mutant: a state document is published before the state is known.
DocumentAlways(c, i) == Published(document, [core |-> c, info |-> i])

\* publish_state, if has_core_state
DocumentOf(c, i) ==
    IF c = 0 THEN document ELSE Published(document, [core |-> c, info |-> i])

\* self._shutting_down
ShuttingDown == run \in {"closing", "stopped"}

-----------------------------------------------------------------------------
(* _on_device_connected *)

\* Every session connects once, after those before it.
Connects(s) ==
    /\ pc[s] = "new" /\ run # "stopped"
    /\ \A t \in Sessions : t < s => pc[t] # "new"
    /\ registry' = s

\* set_online(True) and publish_availability, by the handler of session s
Announces(s) ==
    /\ known' = TRUE
    /\ online' = TRUE
    /\ availability' = Published(availability, "online")
    /\ pc' = [pc EXCEPT ![s] = "announcing"]
    /\ told' = (told /\ registry' # s)
    /\ revived' = (registry' = None)
    /\ UNCHANGED <<core, info, identity, fallback, clientVars, discovery, document,
                   overtaken, cutShort>>

ConnectFirst(s) ==
    /\ Connects(s) /\ registry = None
    /\ Announces(s)
    /\ UNCHANGED closed

\* The new session takes the old one's place before it closes it ...
ConnectOver(s) ==
    /\ Connects(s) /\ registry # None
    /\ closed' = [closed EXCEPT ![registry] = TRUE]
    /\ pc' = [pc EXCEPT ![s] = "replacing"]
    /\ UNCHANGED <<stateVars, fallback, clientVars, topicVars, history>>

\* ... and goes on when previous.close() has returned.
PreviousClosed(s) ==
    /\ pc[s] = "replacing"
    /\ UNCHANGED <<closed, registry>>
    /\ Announces(s)

\* Mutant: no timer is started.
NoFallback(s) == fallback

\* _spawn(_discovery_fallback)
StartFallback(s) == [fallback EXCEPT ![s] = "sleeping"]

\* The availability is published: the discovery payload is next, if it is due
\* and the product is known, else a timer for it ...
Discover(s) ==
    /\ pc[s] = "announcing"
    /\ IF identity = None /\ info > 0
       THEN /\ discovery' = Published(discovery, info)
            /\ pc' = [pc EXCEPT ![s] = "discovering"]
            /\ UNCHANGED <<document, fallback>>
       ELSE /\ document' = DocumentOf(core, info)
            /\ fallback' = IF identity = None THEN StartFallback(s) ELSE fallback
            /\ pc' = [pc EXCEPT ![s] = "live"]
            /\ UNCHANGED discovery
    /\ UNCHANGED <<closed, registry, stateVars, clientVars, availability, history>>

\* ... and then the state document.  From here on the session reports publishes.
Discovered(s) ==
    /\ pc[s] = "discovering"
    /\ identity' = info
    /\ document' = DocumentOf(core, info)
    /\ pc' = [pc EXCEPT ![s] = "live"]
    /\ UNCHANGED <<closed, registry, known, online, core, info, fallback, clientVars,
                   availability, discovery, history>>

\* _discovery_fallback: after the sleep, unless a discovery was published meanwhile
FallbackWakes(s) ==
    /\ fallback[s] = "sleeping"
    /\ IF identity = None
       THEN /\ discovery' = Published(discovery, info)
            /\ fallback' = [fallback EXCEPT ![s] = "publishing"]
       ELSE /\ fallback' = [fallback EXCEPT ![s] = "none"]
            /\ UNCHANGED discovery
    /\ UNCHANGED <<sessionVars, stateVars, clientVars, availability, document, history>>

FallbackPublished(s) ==
    /\ fallback[s] = "publishing"
    /\ identity' = info
    /\ fallback' = [fallback EXCEPT ![s] = "none"]
    /\ UNCHANGED <<sessionVars, known, online, core, info, clientVars, topicVars, history>>

-----------------------------------------------------------------------------
(* _on_device_publish *)

\* Mutant: the state document waits for the next message.
DocumentLater(c, i) == document

\* publish_state of what the message told.
DocumentTold(c, i) == DocumentOf(c, i)

\* A state snapshot or a reply with news: the last await of its handler.
HandleState(s) ==
    /\ pc[s] = "live" /\ core < MaxCore
    /\ core' = core + 1
    /\ document' = DocumentTold(core', info)
    /\ UNCHANGED <<sessionVars, known, online, info, identity, fallback, clientVars,
                   availability, discovery, history>>

\* Device info with news: the discovery payload shows another device card.
HandleInfo(s, i) ==
    /\ pc[s] = "live" /\ i # info
    /\ identity # i
    /\ info' = i
    /\ discovery' = Published(discovery, i)
    /\ overtaken' = FALSE
    /\ pc' = [pc EXCEPT ![s] = "describing"]
    /\ UNCHANGED <<closed, registry, known, online, core, identity, fallback, clientVars,
                   availability, document, told, revived, cutShort>>

\* News that is what the record says was published last: no payload is published,
\* although one of another handler may be on its way and not yet on record.
HandleRecordedInfo(s, i) ==
    /\ pc[s] = "live" /\ i # info
    /\ identity = i
    /\ info' = i
    /\ document' = DocumentOf(core, i)
    /\ overtaken' = TRUE
    /\ UNCHANGED <<sessionVars, known, online, core, identity, fallback, clientVars,
                   availability, discovery, told, revived, cutShort>>

Described(s) ==
    /\ pc[s] = "describing"
    /\ identity' = info
    /\ document' = DocumentOf(core, info)
    /\ pc' = [pc EXCEPT ![s] = "live"]
    /\ UNCHANGED <<closed, registry, known, online, core, info, fallback, clientVars,
                   availability, discovery, history>>

\* A status on the last-will topic that differs from what is remembered.
HandleStatus(s, up) ==
    /\ StatusMessages /\ pc[s] = "live" /\ online # up
    /\ online' = up
    /\ availability' = Published(availability, Status(up))
    /\ told' = TRUE
    /\ UNCHANGED <<sessionVars, known, core, info, identity, fallback, clientVars,
                   discovery, document, revived, overtaken, cutShort>>

\* The same status on any other topic: only the state document is published.
HandleStatusReply(s, up) ==
    /\ StatusMessages /\ pc[s] = "live" /\ online # up
    /\ online' = up
    /\ document' = DocumentOf(core, info)
    /\ told' = TRUE
    /\ UNCHANGED <<sessionVars, known, core, info, identity, fallback, clientVars,
                   availability, discovery, revived, overtaken, cutShort>>

-----------------------------------------------------------------------------
(* _on_device_disconnected *)

\* Mutant: whichever session ends evicts the entry.
EvictsAny(s) == registry # None

\* A session that was replaced must not evict its replacement.
IsCurrent(s) == registry = s

Disconnect(s) ==
    /\ pc[s] = "live"
    /\ pc' = [pc EXCEPT ![s] = "gone"]
    /\ IF IsCurrent(s)
       THEN /\ registry' = None
            /\ online' = FALSE
            /\ availability' = IF online /\ ~ShuttingDown
                               THEN Published(availability, "offline")
                               ELSE availability
       ELSE UNCHANGED <<registry, online, availability>>
    /\ UNCHANGED <<closed, known, core, info, identity, fallback, clientVars, discovery,
                   document, history>>

-----------------------------------------------------------------------------
(* HomeAssistantMqtt.run and _on_broker_connected *)

\* No publish of an earlier connection is waited for: they give up after
\* _PUBLISH_TIMEOUT_SECONDS, less than _RECONNECT_DELAY_SECONDS.
NothingInFlight ==
    \A s \in Sessions :
        /\ pc[s] \notin {"announcing", "discovering", "describing"}
        /\ fallback[s] # "publishing"

\* The broker accepts the client, which publishes its own availability.
HaConnects ==
    /\ ha = "down" /\ run = "running" /\ NothingInFlight
    /\ link' = TRUE
    /\ bridgeTopic' = "online"
    /\ ha' = "setup"
    /\ cutShort' = FALSE
    /\ UNCHANGED <<sessionVars, stateVars, fallback, run, topicVars, told, revived,
                   overtaken>>

\* Mutant: the retained availability is trusted to have survived.
AvailabilityKept == availability

\* publish_availability(serial, serial in self._sessions)
AvailabilityNow == Status(registry # None)

\* client.subscribe returned.  Everything known of the appliance is published
\* again, one publish after the other: discovery if there was any, availability ...
Subscribed ==
    /\ ha = "setup" /\ link
    /\ \/ /\ ~known
          /\ ha' = "messages"
          /\ UNCHANGED <<discovery, availability, overtaken>>
       \/ /\ known /\ identity # None
          /\ discovery' = Published(discovery, info)
          /\ overtaken' = FALSE
          /\ ha' = "redescribing"
          /\ UNCHANGED availability
       \/ /\ known /\ identity = None
          /\ availability' = Published(availability, AvailabilityNow)
          /\ ha' = "reannouncing"
          /\ UNCHANGED <<discovery, overtaken>>
    /\ UNCHANGED <<sessionVars, stateVars, fallback, run, link, bridgeTopic, document,
                   told, revived, cutShort>>

Redescribed ==
    /\ ha = "redescribing"
    /\ availability' = Published(availability, AvailabilityNow)
    /\ ha' = "reannouncing"
    /\ UNCHANGED <<sessionVars, stateVars, fallback, run, link, bridgeTopic, discovery,
                   document, history>>

\* ... and the state document; then the client waits for commands.
Reannounced ==
    /\ ha = "reannouncing"
    /\ document' = DocumentOf(core, info)
    /\ ha' = "messages"
    /\ UNCHANGED <<sessionVars, stateVars, fallback, run, link, bridgeTopic, availability,
                   discovery, history>>

\* MqttError from subscribe or from the message loop.
LinkLost ==
    /\ ha \in {"setup", "messages"} /\ ~link
    /\ ha' = "down"
    /\ UNCHANGED <<sessionVars, stateVars, fallback, run, link, bridgeTopic, topicVars,
                   history>>

\* MqttError from subscribe on a connection that is alive: the client leaves by a
\* clean disconnect, which discards the last will, and says no goodbye.
SubscribeFails ==
    /\ ha = "setup" /\ link
    /\ ha' = "down"
    /\ link' = FALSE
    /\ cutShort' = TRUE
    /\ UNCHANGED <<sessionVars, stateVars, fallback, run, bridgeTopic, topicVars, told,
                   revived, overtaken>>

\* The connection breaks and the broker publishes the last will, or the broker
\* itself restarts, with its retained messages or without.
LinkBreaks ==
    /\ link
    /\ link' = FALSE
    /\ \/ /\ bridgeTopic' = "offline"
          /\ UNCHANGED topicVars
       \/ /\ bridgeTopic' = None /\ availability' = None
          /\ discovery' = None /\ document' = None
    /\ UNCHANGED <<sessionVars, stateVars, fallback, run, ha, history>>

-----------------------------------------------------------------------------
(* Shutdown *)

\* Mutant: a client stopped while it waits for commands just disconnects.
SaysNothing == bridgeTopic

\* _publish_offline_best_effort
SaysOffline == Published(bridgeTopic, "offline")

\* Bridge.run is cancelled, and the client with it, wherever it is.  Only the
\* message loop says goodbye.
Cancel ==
    /\ run = "running"
    /\ run' = "stopping"
    /\ ha' = IF ha = "down" THEN "stopped" ELSE "leaving"
    /\ bridgeTopic' = IF ha = "messages" THEN SaysOffline ELSE bridgeTopic
    /\ cutShort' = IF ha = "down" THEN cutShort ELSE ha # "messages"
    /\ UNCHANGED <<sessionVars, stateVars, fallback, link, topicVars, told, revived,
                   overtaken>>

\* The client disconnects; a clean disconnect discards the last will.
HaLeaves ==
    /\ ha = "leaving"
    /\ ha' = "stopped"
    /\ link' = FALSE
    /\ UNCHANGED <<sessionVars, stateVars, fallback, run, bridgeTopic, topicVars, history>>

\* The client has ended: Bridge.run goes on to its finally clause, which stops
\* the timers ...
ClientEnded ==
    /\ run = "stopping" /\ ha = "stopped"
    /\ run' = "closing"
    /\ fallback' = [s \in Sessions |-> "none"]
    /\ UNCHANGED <<sessionVars, stateVars, ha, link, bridgeTopic, topicVars, history>>

\* ... closes the sessions still registered, and stops the server.
RunStops ==
    /\ run = "closing"
    /\ run' = "stopped"
    /\ closed' = [s \in Sessions |-> closed[s] \/ registry = s]
    /\ UNCHANGED <<pc, registry, stateVars, fallback, ha, link, bridgeTopic, topicVars,
                   history>>

-----------------------------------------------------------------------------
(* What a session's own task runs, the timers, the client, and the world *)

Handler(s) ==
    \/ PreviousClosed(s) \/ Discover(s) \/ Discovered(s) \/ Described(s)
    \/ closed[s] /\ Disconnect(s)

Timer(s) == FallbackWakes(s) \/ FallbackPublished(s)

Client == Subscribed \/ SubscribeFails \/ Redescribed \/ Reannounced \/ LinkLost
          \/ HaLeaves \/ ClientEnded \/ RunStops

Appliance(s) ==
    \/ ConnectFirst(s) \/ ConnectOver(s)
    \/ ~closed[s] /\ Disconnect(s)
    \/ HandleState(s)
    \/ \E i \in Info : HandleInfo(s, i) \/ HandleRecordedInfo(s, i)
    \/ \E up \in BOOLEAN : HandleStatus(s, up) \/ HandleStatusReply(s, up)

Next ==
    \/ \E s \in Sessions : Handler(s) \/ Timer(s) \/ Appliance(s)
    \/ Client \/ HaConnects \/ LinkBreaks \/ Cancel

Spec == Init /\ [][Next]_vars

(***************************************************************************)
(* Fairness: sleeps and publishes end, and the event loop does not leave   *)
(* both the timers and the client waiting for ever; which of them it runs  *)
(* is open.  Nothing is assumed of the sessions' handlers, of the          *)
(* appliance or of the broker.                                             *)
(***************************************************************************)
FairSpec ==
    /\ Spec
    /\ WF_vars(Client \/ \E s \in Sessions : Timer(s))

-----------------------------------------------------------------------------
(* Properties *)

(***************************************************************************)
(* One open session: a session that is connected and not being closed is   *)
(* the one commands are sent to, however connects, closes and late         *)
(* disconnects are ordered.                                                *)
(***************************************************************************)
OpenIsRegistered ==
    \A s \in Sessions :
        pc[s] \notin {"new", "gone"} /\ ~closed[s] => registry = s

\* Home Assistant's broker is connected and no handler is about to publish.
Quiet ==
    /\ link /\ ha = "messages"
    /\ \A s \in Sessions :
          /\ pc[s] \in {"new", "live", "gone"}
          /\ fallback[s] # "publishing"

(***************************************************************************)
(* Home Assistant shows the appliance as available if and only if it has a *)
(* session, across broker losses and wiped retained messages               *)
(* (_on_broker_connected: "can never leave Home Assistant showing stale    *)
(* data").  Two things break the agreement: a status message of the        *)
(* appliance's own (told), and the connect of a session that was replaced  *)
(* while it waited and whose replacement has already gone (revived).       *)
(***************************************************************************)
AvailabilityAgrees ==
    Quiet /\ ~told /\ ~revived =>
        (availability = "online" <=> registry # None)

(***************************************************************************)
(* The same without exceptions, as the code promises it.                   *)
(***************************************************************************)
NeverStale == Quiet => (availability = "online" => registry # None)

(***************************************************************************)
(* What the appliance told last is what Home Assistant shows: the state    *)
(* document, and the device card once discovery was published.  One card   *)
(* stays stale until the next one is published: details that returned to   *)
(* those on record while a payload with others was on its way (overtaken). *)
(***************************************************************************)
ShownIsCurrent ==
    Quiet =>
        /\ core > 0 => document = [core |-> core, info |-> info]
        /\ identity # None => identity = info
        /\ identity # None /\ ~overtaken => discovery = info

(***************************************************************************)
(* Why these hold.  A connection has a client, and a bridge that shuts     *)
(* down has none; nothing is remembered or shown of an appliance before    *)
(* its first session is announced.                                         *)
(***************************************************************************)
Linked ==
    /\ link => HasClient
    /\ ShuttingDown => ha = "stopped"

Remembering(s) ==
    pc[s] \in {"announcing", "discovering", "live", "describing"} \/ fallback[s] # "none"

KnownFirst ==
    /\ ~known => core = 0 /\ identity = None /\ registry = None /\ availability # "online"
    /\ \A s \in Sessions : Remembering(s) => known

\* A handler or a timer waits for a discovery payload it has published.
InFlight ==
    \E s \in Sessions : pc[s] \in {"discovering", "describing"} \/ fallback[s] = "publishing"

Describing == \E s \in Sessions : pc[s] = "describing"

\* The state document trails the device info only while a handler waits for the
\* discovery payload; the payload itself trails only when overtaken, from the
\* moment that _on_broker_connected, or a handler since the connect, has
\* published it; and the identity on record trails only until that handler goes on.
Current ==
    /\ link /\ ha = "messages" /\ core > 0 /\ ~Describing =>
          document = [core |-> core, info |-> info]
    /\ link /\ InFlight /\ ~overtaken => discovery = info
    /\ link /\ ha \in {"redescribing", "reannouncing", "messages"} /\ identity # None
            /\ ~overtaken =>
          discovery = info
    /\ identity # None /\ ~Describing => identity = info
    /\ overtaken => identity # None

\* The registered session was announced, unless a status message said otherwise;
\* what Home Assistant is told of it agrees from _on_broker_connected on.
Announced ==
    /\ registry # None /\ ~told => online
    /\ link /\ ha \in {"reannouncing", "messages"} /\ ~told /\ ~revived =>
          (availability = "online" <=> registry # None)

ShownInv == TypeOK /\ Linked /\ KnownFirst /\ Current /\ Announced

(***************************************************************************)
(* A bridge without a client is shown as online only if the client left by *)
(* a clean disconnect without a goodbye (cutShort): it was stopped while   *)
(* still being set up, or its subscribe failed on a live connection.       *)
(***************************************************************************)
NotLeftOnline ==
    ha \in {"down", "stopped"} /\ bridgeTopic = "online" => cutShort

(***************************************************************************)
(* Its inductive invariant: whenever the connection is down, the last will *)
(* or a goodbye has replaced "online", or the client left without one.     *)
(***************************************************************************)
WillOrGoodbye ==
    /\ ha = "down" => ~link
    /\ ha = "leaving" \/ ~link => bridgeTopic # "online" \/ cutShort
    /\ cutShort => ha \in {"down", "leaving", "stopped"}

ClientInv == TypeOK /\ WillOrGoodbye /\ NotLeftOnline

(***************************************************************************)
(* The same without exceptions: "every entity goes unavailable if the app  *)
(* itself stops".                                                          *)
(***************************************************************************)
StoppedIsOffline == ha = "stopped" => bridgeTopic # "online"

(***************************************************************************)
(* An appliance that has connected appears in Home Assistant in the end,   *)
(* even if it never answers the device-info request, provided the broker   *)
(* stays reachable and the bridge is not stopped.                          *)
(***************************************************************************)
AppearsInTheEnd ==
    <>[](link /\ run = "running") =>
        (\E s \in Sessions : pc[s] = "live") ~> discovery # None
=============================================================================
