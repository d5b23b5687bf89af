--------------------------------- MODULE Sync ---------------------------------
(***************************************************************************)
(* How the bridge keeps Home Assistant's document in step with an appliance *)
(* it only hears deltas from (bridge.py with Climate's translation): the    *)
(* appliance, the two directions of its session, what the bridge knows and  *)
(* the document it published last.                                          *)
(*                                                                          *)
(* The session's own work is DeviceSession's subject, and what happens to a *)
(* publish is Bridge's: here a queue is a connection, which delivers in     *)
(* order until it is lost with all it holds, and a publish succeeds.  The   *)
(* appliance is external, modelled after PROTOCOL.md: it echoes what a      *)
(* command sets (cmd 4), reports what it changes itself (cmd 4) except the  *)
(* Quiet keys, answers a cmd 3 with every key, and pushes nothing when it   *)
(* connects.                                                                *)
(***************************************************************************)
EXTENDS Climate, Sequences

CONSTANTS
    Factory,        \* the appliance's state at first
    Quiet,          \* keys the appliance only reports in a snapshot
    Presses,        \* <<key, value>>: changes the appliance makes by itself
    Commands,       \* what arrives on Home Assistant's command topics
    StateRefresh,   \* settings.state_refresh_seconds
    InfoRefresh,    \* settings.info_refresh_seconds
    MaxChanges,     \* bound: commands and presses
    MaxDrops,       \* bound: lost connections and restarts
    MaxQueue        \* bound: messages on their way in one direction

ASSUME Periods == StateRefresh \in Nat \ {0} /\ InfoRefresh \in Nat \ {0}

\* The appliance has a value for every key, and sends one key's or a bad value.
ASSUME Appliance ==
    /\ Factory = [k \in Key |-> Factory[k]] /\ \A k \in Key : Factory[k] \in Value(k)
    /\ \A p \in Presses : p[1] \in Key /\ p[2] \in {Container} \cup Value(p[1])

ASSUME Bounds == MaxChanges \in Nat /\ MaxDrops \in Nat /\ MaxQueue \in Nat

VARIABLES
    appliance,      \* the appliance's own state
    connected,      \* the serial has a session
    toAppliance,    \* injected messages on their way
    toBridge,       \* the appliance's messages on their way, this session's
    late,           \* a replaced session's messages, still to be handled
    known,          \* DeviceState.state
    shown,          \* the retained state document; Unknown before the first
    pending,        \* _initial_requests tasks that still sleep
    tick,           \* _refresh_loop's tick, modulo info_refresh_seconds
    sinceInfo,      \* time from the loop's last request for device info (or its
                    \* start) to its last round, also one that asks again
    asked,          \* history: the last command, if nothing else interfered since
    synced,         \* history: this session has sent a snapshot, and nothing late
                    \* was merged after it was
    changes, drops  \* bounds

vars == <<appliance, connected, toAppliance, toBridge, late, known, shown, pending,
          tick, sinceInfo, asked, synced, changes, drops>>

link == <<connected, toAppliance, toBridge>>
bridge == <<late, known, shown>>
rounds == <<tick, sinceInfo>>
bounds == <<changes, drops>>

Set(result) == [cmd |-> "set", result |-> result]
\* Mutant: a cmd 2, which brings nothing that is merged.
AskStatus == [cmd |-> "set", result |-> Silent]
Ask == [cmd |-> "ask", result |-> Silent]
NoCommand == [topic |-> "none", payload |-> "none"]

Init ==
    /\ appliance = Factory /\ connected = FALSE
    /\ toAppliance = <<>> /\ toBridge = <<>> /\ late = <<>>
    /\ known = Silent /\ shown = Unknown
    /\ pending = 0 /\ tick = 0 /\ sinceInfo = 0
    /\ asked = NoCommand /\ synced = FALSE
    /\ changes = 0 /\ drops = 0

-----------------------------------------------------------------------------
(* The appliance *)

\* A button, a sensor, the remembered values of a mode, or the vendor's app.
\* A bad value (Container) is only what it sends, not what it has.
Press(k, v) ==
    /\ changes < MaxChanges /\ changes' = changes + 1
    /\ connected => Len(toBridge) < MaxQueue
    /\ appliance' = IF v = Container THEN appliance ELSE [appliance EXCEPT ![k] = v]
    /\ toBridge' = IF connected /\ k \notin Quiet
                   THEN Append(toBridge, [Silent EXCEPT ![k] = v]) ELSE toBridge
    /\ asked' = NoCommand
    /\ UNCHANGED <<connected, toAppliance, bridge, pending, rounds, synced, drops>>

\* It takes the next message: a command, or the request for a snapshot.
Obey ==
    /\ toAppliance # <<>> /\ Len(toBridge) < MaxQueue
    /\ toAppliance' = Tail(toAppliance)
    /\ LET m == Head(toAppliance)
       IN  IF m.cmd = "set"
           THEN /\ appliance' = Merge(appliance, m.result)
                /\ toBridge' = Append(toBridge, m.result)
                /\ UNCHANGED synced
           ELSE /\ toBridge' = Append(toBridge, appliance)
                /\ synced' = TRUE
                /\ UNCHANGED appliance
    /\ UNCHANGED <<connected, bridge, pending, rounds, asked, bounds>>

-----------------------------------------------------------------------------
(* bridge.py: what the appliance says *)

\* Mutant: the document is built before the merge.
LearnAfterwards(result) ==
    /\ known' = Merge(known, result)
    /\ shown' = IF known' # known /\ HasCoreState(known') THEN HaDocument(known) ELSE shown

\* _on_device_publish: merge, and publish if that changed anything and both
\* the power and the mode are known.
Learn(result) ==
    /\ known' = Merge(known, result)
    /\ shown' = IF known' # known /\ HasCoreState(known') THEN HaDocument(known') ELSE shown

Hear ==
    /\ toBridge # <<>> /\ toBridge' = Tail(toBridge)
    /\ Learn(Head(toBridge))
    /\ UNCHANGED <<appliance, connected, toAppliance, late, pending, rounds, asked,
                   synced, bounds>>

\* The loop of a replaced session still goes through the packets it decoded.
HearLate ==
    /\ late # <<>> /\ late' = Tail(late)
    /\ Learn(Head(late))
    /\ synced' = (synced /\ \E i \in 1 .. Len(toBridge) : \A k \in Key : Mentions(toBridge[i], k))
    /\ asked' = NoCommand
    /\ UNCHANGED <<appliance, link, pending, rounds, bounds>>

-----------------------------------------------------------------------------
(* bridge.py: what is sent to the appliance *)

Inject(m) == Len(toAppliance) < MaxQueue /\ toAppliance' = Append(toAppliance, m)

\* _handle_ha_command; without a session, or unknown, the command is dropped.
Command(c) ==
    /\ changes < MaxChanges /\ changes' = changes + 1
    /\ IF connected /\ Accepted(c)
       THEN Inject(Set(Changes(c))) /\ asked' = c
       ELSE UNCHANGED <<toAppliance, asked>>
    /\ UNCHANGED <<appliance, connected, toBridge, bridge, pending, rounds, synced, drops>>

\* _request_snapshot, to the session that is current by then.  The request for
\* device info, which follows it, changes nothing here.
RequestSnapshot == IF connected THEN Inject(Ask) ELSE UNCHANGED toAppliance

\* _initial_requests, after its delay.
InitialRequests ==
    /\ pending > 0 /\ pending' = pending - 1
    /\ RequestSnapshot
    /\ UNCHANGED <<appliance, connected, toBridge, bridge, rounds, asked, synced, bounds>>

\* Mutant: the round's length is not looked at.
AskOnTheDot(t) == t = 0

\* A round of _refresh_loop asks for device info too if AsksInfo of its tick.
AsksInfo(t) == t < StateRefresh

RefreshRound ==
    /\ tick' = (tick + StateRefresh) % InfoRefresh
    /\ sinceInfo' = IF AsksInfo(tick) THEN StateRefresh ELSE sinceInfo + StateRefresh
    /\ RequestSnapshot
    /\ UNCHANGED <<appliance, connected, toBridge, bridge, pending, asked, synced, bounds>>

-----------------------------------------------------------------------------
(* Sessions *)

\* _on_device_connected: maybe over a session that still is there, some of
\* whose messages its loop has decoded.  What is known is shown again.
Connect ==
    /\ connected => drops < MaxDrops
    /\ drops' = IF connected THEN drops + 1 ELSE drops
    /\ connected' = TRUE
    /\ \E n \in 0 .. Len(toBridge) :
          /\ Len(late) + n <= MaxQueue
          /\ late' = late \o SubSeq(toBridge, 1, n)
    /\ toAppliance' = <<>> /\ toBridge' = <<>>
    /\ shown' = IF HasCoreState(known) THEN HaDocument(known) ELSE shown
    /\ pending < MaxQueue /\ pending' = pending + 1
    /\ asked' = NoCommand /\ synced' = FALSE
    /\ UNCHANGED <<appliance, known, rounds, changes>>

\* The connection is lost, with what it held.
Disconnect ==
    /\ connected /\ drops < MaxDrops /\ drops' = drops + 1
    /\ connected' = FALSE /\ toAppliance' = <<>> /\ toBridge' = <<>>
    /\ asked' = NoCommand /\ synced' = FALSE
    /\ UNCHANGED <<appliance, bridge, pending, rounds, changes>>

\* The bridge's process ends and starts again: only the retained document stays.
Restart ==
    /\ drops < MaxDrops /\ drops' = drops + 1
    /\ connected' = FALSE /\ toAppliance' = <<>> /\ toBridge' = <<>> /\ late' = <<>>
    /\ known' = Silent /\ pending' = 0 /\ tick' = 0 /\ sinceInfo' = 0
    /\ asked' = NoCommand /\ synced' = FALSE
    /\ UNCHANGED <<appliance, shown, changes>>

Next ==
    \/ \E p \in Presses : Press(p[1], p[2])
    \/ \E c \in Commands : Command(c)
    \/ Obey \/ Hear \/ HearLate \/ InitialRequests \/ RefreshRound
    \/ Connect \/ Disconnect \/ Restart

Spec == Init /\ [][Next]_vars

\* The appliance reconnects, the refresh loop wakes up, and as long as there are
\* messages one of them is taken, by whichever end; a full queue makes one end
\* wait for the other.  No command, press or loss is ever required.
FairSpec ==
    /\ Spec
    /\ WF_vars(Connect /\ ~connected)
    /\ WF_vars(Obey \/ Hear \/ HearLate)
    /\ SF_vars(RefreshRound)

-----------------------------------------------------------------------------
(* Properties *)

Idle == toAppliance = <<>> /\ toBridge = <<>> /\ late = <<>>

TypeOK ==
    /\ connected \in BOOLEAN /\ synced \in BOOLEAN
    /\ DOMAIN appliance = Key /\ \A k \in Key : appliance[k] \in Value(k)
    /\ DOMAIN known = Key /\ \A k \in Key : known[k] \in {Absent} \cup Value(k)
    /\ Len(toAppliance) <= MaxQueue /\ Len(toBridge) <= MaxQueue /\ Len(late) <= MaxQueue
    /\ pending \in 0 .. MaxQueue /\ changes \in 0 .. MaxChanges /\ drops \in 0 .. MaxDrops
    /\ tick \in 0 .. InfoRefresh - 1

\* Of the messages in q, number i is the last to say something of k; 0 is none.
LastWord(q, k, i) ==
    /\ i > 0 => Mentions(q[i], k)
    /\ \A j \in i + 1 .. Len(q) : ~Mentions(q[j], k)

\* From a session's first snapshot on, the bridge is as far behind the
\* appliance as the messages on their way, and no further: no change falls
\* between a snapshot and the deltas around it.
NothingLost ==
    synced => \A k \in Key \ Quiet : \A i \in 0 .. Len(toBridge) :
        LastWord(toBridge, k, i) => (IF i = 0 THEN known ELSE toBridge[i])[k] = appliance[k]

\* Publishing only when something changed never leaves an older document.
ShownIsKnown == HasCoreState(known) => shown = HaDocument(known)

\* When all is read, Home Assistant shows what it asked for last, whatever the
\* appliance was doing before (a boost or a preset that hides the speed, a
\* power that hides the mode).
ShownAsAsked ==
    Idle /\ asked # NoCommand /\ HasCoreState(known) => Shows(shown, asked)

\* Every choice Home Assistant offers would be accepted, and whatever the
\* appliance sends, the document shows only choices that are offered, which
\* can be sent back, or nothing.
ShownIsOffered ==
    /\ \A topic \in DOMAIN Offered : \A v \in Offered[topic] :
          Accepted([topic |-> topic, payload |-> v])
    /\ shown # Unknown =>
          \A topic \in DOMAIN Offered \ {"temperature"} :
              shown[FieldOf[topic]] \in Offered[topic] \cup {Unknown}

\* Rounds that do not divide the info period neither lose a request for device
\* info nor repeat one: the last request is never a whole round overdue, and the
\* next one is never early by a whole round.
InfoInTime ==
    /\ sinceInfo < InfoRefresh + StateRefresh
    /\ AsksInfo(tick) /\ sinceInfo > 0 => sinceInfo > InfoRefresh - StateRefresh

\* If the appliance, the users and the network come to rest, the document
\* comes to show the appliance as it is, quiet keys included.
Converges == <>[](shown = HaDocument(appliance))
=============================================================================
