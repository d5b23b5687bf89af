----------------------------- MODULE DeviceServer -----------------------------
(***************************************************************************)
(* The listener (device_server.py) and, for every WebSocket it has         *)
(* accepted, the session's watchdog and the clocks it reads                *)
(* (_connection_watchdog of device_session.py).  What a session does with  *)
(* a packet is DeviceSession's subject: here a handler is only something   *)
(* that keeps the read loop busy for a while.                              *)
(*                                                                         *)
(* Time is discrete, in half seconds, so that 1.5 x keepalive is whole.    *)
(* Tick lets one unit pass everywhere, and may not when a task is due at   *)
(* this very instant: asyncio runs a ready task before it sleeps.          *)
(***************************************************************************)
EXTENDS Integers, FiniteSets

CONSTANTS
    Peer,            \* the clients that may connect, one WebSocket each at a time
    MaxSessions,     \* settings.max_device_sessions
    ConnectTimeout,  \* settings.device_connect_timeout_seconds, in half seconds
    KeepAlives,      \* the keepalives a CONNECT may ask for, in seconds
    Poll,            \* _WATCHDOG_POLL_SECONDS, in half seconds
    MaxHandler,      \* the longest a handler keeps the loop from reading
    MaxUnread,       \* bound: frames a client has waiting at once
    MaxAge           \* bound: ages stop growing here

\* The keepalive's deadline (1.5 times it) and the keepalive itself.
Deadline(k) == 3 * k
Interval(k) == 2 * k

ASSUME Sizes ==
    /\ MaxSessions \in Nat \ {0} /\ Poll \in Nat \ {0} /\ MaxHandler \in Nat
    /\ ConnectTimeout \in Nat \ {0} /\ MaxUnread \in Nat
    /\ KeepAlives \subseteq Nat
    /\ IsFiniteSet(Peer)

\* The ages tell apart what the code compares them with, and a poll (1 s) is
\* shorter than any deadline (1.5 s at least).
ASSUME Times ==
    /\ MaxAge \in Nat /\ ConnectTimeout <= MaxAge
    /\ \A k \in KeepAlives \ {0} : Poll <= Deadline(k) /\ Deadline(k) <= MaxAge

VARIABLES
    listening,       \* the TCP site accepts connections
    active,          \* _active_sessions
    sess             \* per client, its DeviceSession and its side of the socket

vars == <<listening, active, sess>>

Off == -1            \* the watchdog has returned, or does not run yet

Age == 0 .. MaxAge

Session ==
    [phase : {"away", "upgrading", "reading", "handling", "ending"},
     open : BOOLEAN,                        \* the WebSocket is open
     closed : {"no", "watchdog", "other"},  \* _closed, and who closed it
     connectSeen : BOOLEAN,                 \* _connect_seen
     keepalive : KeepAlives \cup {0},       \* _keepalive_seconds
     sinceStart : Age,                      \* age of _session_started_monotonic
     sinceRead : Age,                       \* age of _last_activity_monotonic
     sleep : Off .. Poll,                   \* what is left of the watchdog's sleep:
                                            \* a poll at most
     unread : 0 .. MaxUnread,               \* binary frames the loop has not read yet
     sinceSent : Age,                       \* age of the client's last binary frame
     lively : BOOLEAN]                      \* history: no gap between its frames
                                            \* was longer than the keepalive

TypeOK == listening \in BOOLEAN /\ active \subseteq Peer /\ sess \in [Peer -> Session]

Fresh ==
    [phase |-> "away", open |-> FALSE, closed |-> "no", connectSeen |-> FALSE,
     keepalive |-> 0, sinceStart |-> 0, sinceRead |-> 0, sleep |-> Off,
     unread |-> 0, sinceSent |-> 0, lively |-> TRUE]

Init == listening = TRUE /\ active = {} /\ sess = [p \in Peer |-> Fresh]

Running(s) == s.phase \in {"reading", "handling"}

Becomes(p, s) == sess' = [sess EXCEPT ![p] = s]

\* A step of p's session that takes or frees no slot.
Turn(p, s) == Becomes(p, s) /\ UNCHANGED <<listening, active>>

-----------------------------------------------------------------------------
(* _handle_websocket *)

\* Mutant: the slot is claimed only when prepare() has returned.
ClaimLate(p) ==
    /\ listening /\ sess[p].phase = "away"
    /\ Cardinality(active) < MaxSessions
    /\ Turn(p, [Fresh EXCEPT !.phase = "upgrading", !.open = TRUE])

\* Below the cap: the session is made and its slot claimed before the first
\* await.  At the cap the request is answered 503 and nothing changes.
Upgrade(p) ==
    /\ listening /\ sess[p].phase = "away"
    /\ Cardinality(active) < MaxSessions
    /\ active' = active \cup {p}
    /\ Becomes(p, [Fresh EXCEPT !.phase = "upgrading", !.open = TRUE])
    /\ UNCHANGED listening

\* websocket.prepare() returned; run() starts the watchdog, due at once.
Prepared(p) ==
    /\ sess[p].phase = "upgrading"
    /\ Turn(p, [sess[p] EXCEPT !.phase = "reading", !.sleep = 0])

\* The finally of _handle_websocket: prepare() failed, or run() is over, after
\* close() and on_disconnected.  The session is gone with its clocks.
FreeSlot(p) ==
    /\ sess[p].phase \in {"upgrading", "ending"}
    /\ active' = active \ {p}
    /\ Becomes(p, Fresh)
    /\ UNCHANGED listening

-----------------------------------------------------------------------------
(* The session, as far as the watchdog sees it *)

\* close(): the first caller wins, and cancels the watchdog.
Closed(s, who) ==
    [s EXCEPT !.closed = IF s.closed = "no" THEN who ELSE s.closed, !.sleep = Off]

\* The loop reads a binary frame.  It may hold no whole packet; packets that
\* are handled (the first must be a CONNECT); or something it closes on.
Read(p) ==
    LET s == [sess[p] EXCEPT !.unread = sess[p].unread - 1, !.sinceRead = 0]
    IN  /\ sess[p].phase = "reading" /\ sess[p].unread > 0
        /\ s.open \/ s.closed = "no"
        /\ \/ Turn(p, s)
           \/ s.connectSeen /\ Turn(p, [s EXCEPT !.phase = "handling"])
           \/ /\ ~s.connectSeen
              /\ \E k \in KeepAlives :
                    Turn(p, [s EXCEPT !.phase = "handling", !.connectSeen = TRUE,
                                      !.keepalive = k,
                                      !.lively = s.sinceSent <= Interval(k)])
           \/ Turn(p, Closed(s, "other"))

HandlerEnds(p) ==
    /\ sess[p].phase = "handling"
    /\ Turn(p, [sess[p] EXCEPT !.phase = "reading"])

\* A newer session replaces this one, the relay is back, or the bridge stops.
CloseFromOutside(p) ==
    /\ Running(sess[p]) /\ sess[p].connectSeen
    /\ Turn(p, Closed(sess[p], "other"))

\* Mutant: the watchdog's close() cancels the watchdog, and stops there.
SocketOutlivesWatchdog(p) ==
    /\ Running(sess[p]) /\ sess[p].closed = "other"
    /\ Turn(p, [sess[p] EXCEPT !.open = FALSE])

\* close() has done with the upstream and closes the WebSocket.
SocketCloses(p) ==
    /\ Running(sess[p]) /\ sess[p].closed # "no"
    /\ Turn(p, [sess[p] EXCEPT !.open = FALSE])

\* The loop finds the socket closed, after the frames that came before the
\* client's own close; the finally of run() calls close().
LoopEnds(p) ==
    /\ sess[p].phase = "reading" /\ ~sess[p].open
    /\ sess[p].closed # "no" \/ sess[p].unread = 0
    /\ Turn(p, [Closed(sess[p], "other") EXCEPT !.phase = "ending"])

-----------------------------------------------------------------------------
(* _connection_watchdog: one turn of its loop *)

\* Mutants: nothing is enforced before the CONNECT; the keepalive without its
\* tolerance; one reference for both phases; a sleep to the deadline in one go;
\* the longer of poll and remaining time.
NoKeepAliveYet(s) == s.keepalive = 0
NoTolerance(s) == IF s.connectSeen THEN Interval(s.keepalive) ELSE ConnectTimeout
LastRead(s) == s.sinceRead

\* _current_watchdog_timeout() is None.
NotEnforced(s) == s.connectSeen /\ s.keepalive = 0

Timeout(s) == IF s.connectSeen THEN Deadline(s.keepalive) ELSE ConnectTimeout
Reference(s) == IF s.connectSeen THEN s.sinceRead ELSE s.sinceStart
Remaining(s) == Timeout(s) - Reference(s)
WholeSleep(s) == Remaining(s)
LongerNap(s) == IF Remaining(s) < Poll THEN Poll ELSE Remaining(s)
Nap(s) == IF Remaining(s) < Poll THEN Remaining(s) ELSE Poll

Watchdog(p) ==
    LET s == sess[p]
    IN  /\ Running(s) /\ s.closed = "no" /\ s.sleep = 0
        /\ \/ NotEnforced(s) /\ Turn(p, [s EXCEPT !.sleep = Off])
           \/ ~NotEnforced(s) /\ Remaining(s) <= 0 /\ Turn(p, Closed(s, "watchdog"))
           \/ ~NotEnforced(s) /\ Remaining(s) > 0 /\ Turn(p, [s EXCEPT !.sleep = Nap(s)])

-----------------------------------------------------------------------------
(* stop(): nothing more is accepted, and aiohttp cancels what is left *)

Stop == listening /\ listening' = FALSE /\ UNCHANGED <<active, sess>>

Cancel(p) ==
    /\ ~listening /\ Running(sess[p])
    /\ Turn(p, [Closed(sess[p], "other") EXCEPT !.phase = "ending"])

-----------------------------------------------------------------------------
(* The client, and time *)

\* Bound: a client sends at most one frame in half a second.
Send(p) ==
    /\ Running(sess[p]) /\ sess[p].open
    /\ sess[p].sinceSent > 0 /\ sess[p].unread < MaxUnread
    /\ Turn(p, [sess[p] EXCEPT !.unread = sess[p].unread + 1, !.sinceSent = 0])

HangUp(p) ==
    /\ Running(sess[p]) /\ sess[p].open
    /\ Turn(p, [sess[p] EXCEPT !.open = FALSE])

\* Something of the session is due now: the watchdog, the loop, or the end of
\* a handler.
Due(s) ==
    /\ Running(s)
    /\ \/ s.closed = "no" /\ s.sleep = 0
       \/ s.phase = "reading" /\ (s.unread > 0 \/ ~s.open)
       \/ s.phase = "handling" /\ s.sinceRead >= MaxHandler

Older(age) == IF age < MaxAge THEN age + 1 ELSE age

\* sinceStart is not read any more once CONNECT was seen, and stands still.
Aged(s) ==
    IF s.phase = "away" THEN s ELSE
    [s EXCEPT !.sinceStart = IF s.connectSeen THEN s.sinceStart ELSE Older(s.sinceStart),
              !.sinceRead = Older(s.sinceRead),
              !.sinceSent = Older(s.sinceSent),
              !.sleep = IF s.sleep > 0 THEN s.sleep - 1 ELSE s.sleep,
              !.lively = s.lively /\ (s.connectSeen => s.sinceSent < Interval(s.keepalive))]

Tick ==
    /\ \A p \in Peer : ~Due(sess[p])
    /\ sess' = [p \in Peer |-> Aged(sess[p])]
    /\ UNCHANGED <<listening, active>>

Act(p) ==
    \/ Upgrade(p) \/ Prepared(p) \/ FreeSlot(p) \/ Read(p) \/ HandlerEnds(p)
    \/ CloseFromOutside(p) \/ SocketCloses(p) \/ LoopEnds(p) \/ Watchdog(p)
    \/ Cancel(p) \/ Send(p) \/ HangUp(p)

Next == (\E p \in Peer : Act(p)) \/ Stop \/ Tick

Spec == Init /\ [][Next]_vars

\* asyncio runs every ready task, a socket's close and a handler's awaits are
\* bounded by timeouts, and time passes.  SocketCloses is fair only if the teardown
\* of the upstream, which comes before it in close(), does not raise; DeviceSession
\* models one that does.  Nothing is assumed of the client.
FairSpec ==
    /\ Spec
    /\ WF_vars(Tick)
    /\ \A p \in Peer :
          /\ WF_vars(Prepared(p) \/ FreeSlot(p)) /\ WF_vars(Read(p))
          /\ WF_vars(HandlerEnds(p)) /\ WF_vars(SocketCloses(p))
          /\ WF_vars(LoopEnds(p)) /\ WF_vars(Watchdog(p))

-----------------------------------------------------------------------------
(* Properties *)

\* A slot is held by exactly the upgrades that are under way, from before
\* their first await to after the session's teardown, and never by more than
\* max_device_sessions of them: upgrades that start together cannot all pass
\* the check, and one that fails gives its slot back.
CapIsKept ==
    /\ active = {p \in Peer : sess[p].phase # "away"}
    /\ Cardinality(active) <= MaxSessions

Guarded(s) == Running(s) /\ s.closed = "no"

\* However many frames it trickles, a client that has not sent a CONNECT is
\* closed no later than device_connect_timeout_seconds after its upgrade
\* began: past that, the watchdog is due and time stands still.
ConnectInTime ==
    \A p \in Peer : Guarded(sess[p]) /\ ~sess[p].connectSeen =>
        sess[p].sinceStart < ConnectTimeout \/ sess[p].sleep = 0

\* A connected session with a keepalive is closed once the loop has read
\* nothing for 1.5 times that, and not a poll later, however long the
\* connect timeout whose sleep the CONNECT found the watchdog in.
SilenceIsNoticed ==
    \A p \in Peer : Guarded(sess[p]) /\ sess[p].connectSeen /\ sess[p].keepalive > 0 =>
        sess[p].sinceRead < Deadline(sess[p].keepalive) \/ sess[p].sleep = 0

\* The watchdog does not close a session whose client kept its side of the
\* keepalive, although frames that wait behind a slow handler (an upstream
\* that does not connect, a publish nobody acknowledges) count only when they
\* are read -- unless one handler alone lasts as long as the deadline.
Struck(p) ==
    sess[p].connectSeen /\ sess[p].closed = "no" /\ sess'[p].closed = "watchdog"

LivelyIsKept ==
    [][\A p \in Peer : Struck(p) =>
           ~sess[p].lively \/ MaxHandler >= Deadline(sess[p].keepalive)]_vars

\* A client cannot hold a slot without ever sending a CONNECT.
SlotIsReclaimed ==
    \A p \in Peer : (p \in active /\ ~sess[p].connectSeen)
                     ~> (p \notin active \/ sess[p].connectSeen)

\* A session that something closed gives its slot back.
ClosedIsFreed == \A p \in Peer : (sess[p].closed # "no") ~> (p \notin active)
=============================================================================
