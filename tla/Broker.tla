------------------------------- MODULE Broker -------------------------------
(***************************************************************************)
(* What an appliance may expect of the MQTT broker it is connected to,     *)
(* whoever plays that broker: the vendor cloud through the relay, or the   *)
(* bridge itself.  Every request is answered, once, and nothing is         *)
(* answered that was not asked (device_session.py: "the device is never    *)
(* left hanging mid-handshake", "nor be answered twice").                  *)
(*                                                                         *)
(* A request is a packet that a broker must answer, its packet id          *)
(* included: CONNECT, SUBSCRIBE, UNSUBSCRIBE, QoS-1 PUBLISH, PINGREQ.       *)
(***************************************************************************)
CONSTANT Request

VARIABLES
    online,     \* the appliance's WebSocket is open and the session serves it
    awaiting,   \* requests the appliance has sent and has no answer to
    stray       \* an answer reached the appliance that it was not awaiting

vars == <<online, awaiting, stray>>

TypeOK ==
    /\ online \in BOOLEAN
    /\ awaiting \subseteq Request
    /\ stray \in BOOLEAN

Init ==
    /\ online = TRUE
    /\ awaiting = {}
    /\ stray = FALSE

\* A packet id is not used again while its request is unanswered.
Ask(r) ==
    /\ online
    /\ r \notin awaiting
    /\ awaiting' = awaiting \cup {r}
    /\ UNCHANGED <<online, stray>>

Answer(r) ==
    /\ online
    /\ r \in awaiting
    /\ awaiting' = awaiting \ {r}
    /\ UNCHANGED <<online, stray>>

\* The session ends: the appliance reconnects and starts afresh.
HangUp ==
    /\ online
    /\ online' = FALSE
    /\ awaiting' = {}
    /\ UNCHANGED stray

Next ==
    \/ \E r \in Request : Ask(r) \/ Answer(r)
    \/ HangUp

Safety == Init /\ [][Next]_vars

Spec == Safety /\ \A r \in Request : WF_vars(Answer(r))
=============================================================================
