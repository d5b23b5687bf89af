-------------------------- MODULE DeviceServer_proofs --------------------------
(***************************************************************************)
(* The cap, the watchdog's deadlines and what they mean for a client that  *)
(* keeps its side of the keepalive, for every number of clients and every  *)
(* choice of the timeouts that satisfies the assumptions of DeviceServer.  *)
(***************************************************************************)
EXTENDS DeviceServer, FiniteSetTheorems, TLAPS

\* A session whose run() has not begun has seen nothing.
Young(s) == s.phase \in {"away", "upgrading"} => ~s.connectSeen

\* The watchdog of an open session sleeps no longer than to the deadline in
\* force, whichever of the two that is now.
SleepInTime(s) ==
    Guarded(s) =>
        /\ ~s.connectSeen =>
              s.sleep # Off /\ (s.sleep = 0 \/ s.sinceStart + s.sleep <= ConnectTimeout)
        /\ s.connectSeen /\ s.keepalive > 0 =>
              s.sleep # Off /\ s.sinceRead + s.sleep <= Deadline(s.keepalive)

\* What a client that keeps its side is owed: its last frame was read when it
\* came, or waits behind a handler that has not run for long.
KeptSide(s) ==
    Guarded(s) /\ s.connectSeen /\ s.keepalive > 0 /\ s.lively
    /\ MaxHandler < Deadline(s.keepalive) =>
        /\ s.sinceSent <= Interval(s.keepalive)
        /\ s.unread = 0 => s.sinceRead <= s.sinceSent
        /\ s.phase = "handling" => s.sinceRead <= MaxHandler
        /\ s.sinceRead < Deadline(s.keepalive)

Sound(s) == s \in Session /\ Young(s) /\ SleepInTime(s) /\ KeptSide(s)

IInv == TypeOK /\ CapIsKept /\ \A p \in Peer : Sound(sess[p])

\* The constants, one fact at a time.
LEMMA Constants ==
    /\ MaxSessions \in Nat /\ MaxSessions > 0 /\ Poll \in Nat /\ Poll > 0
    /\ MaxHandler \in Nat /\ MaxUnread \in Nat /\ MaxAge \in Nat
    /\ ConnectTimeout \in Nat /\ ConnectTimeout > 0 /\ ConnectTimeout <= MaxAge
BY Sizes, Times

LEMMA KeepAlive ==
    ASSUME NEW k \in KeepAlives \cup {0}
    PROVE  k \in Nat /\ (k > 0 => Poll <= Deadline(k))
<1>1. CASE k \in KeepAlives
  <2>1. k \in Nat
    BY <1>1, Sizes
  <2>2. k > 0 => k \in KeepAlives \ {0}
    BY <1>1, <2>1
  <2> QED
    BY <2>1, <2>2, Times
<1>2. CASE k = 0
  BY <1>2
<1> QED
  BY <1>1, <1>2

LEMMA Zeros == 0 \in Age /\ 0 \in 0 .. MaxUnread /\ Off \in Off .. Poll /\ 0 \in Off .. Poll
BY Constants DEF Age, Off

-----------------------------------------------------------------------------
(* What each turn makes of a session *)

\* A session that is closed, or not running, has no deadline.
LEMMA NoDeadline ==
    ASSUME NEW s \in Session, Young(s), ~Guarded(s) PROVE Sound(s)
BY DEF Sound, SleepInTime, KeptSide

LEMMA ClosedSound ==
    ASSUME NEW s, Sound(s), NEW who \in {"watchdog", "other"}
    PROVE  Sound(Closed(s, who)) /\ Closed(s, who).closed # "no"
<1> DEFINE by == IF s.closed = "no" THEN who ELSE s.closed
<1>0. by \in {"watchdog", "other"} /\ s \in Session
  BY DEF Sound, Session
<1>1. Closed(s, who) \in Session /\ Closed(s, who).closed # "no"
  <2> HIDE DEF by
  <2>1. Closed(s, who) = [s EXCEPT !.closed = by, !.sleep = Off]
    BY DEF Closed, by
  <2> QED
    BY <1>0, <2>1, Zeros DEF Session
<1>2. Young(Closed(s, who))
  BY DEF Sound, Session, Young, Closed
<1> QED
  BY <1>1, <1>2, NoDeadline DEF Guarded

LEMMA FreshSound == Sound(Fresh) /\ Sound([Fresh EXCEPT !.phase = "upgrading", !.open = TRUE])
<1>1. Fresh \in Session /\ [Fresh EXCEPT !.phase = "upgrading", !.open = TRUE] \in Session
  BY Zeros DEF Fresh, Session
<1> QED
  BY <1>1, NoDeadline DEF Fresh, Young, Guarded, Running

\* A session whose loop has just read a frame: its clock starts again.
LEMMA ReadSound ==
    ASSUME NEW s, Sound(s), s.phase = "reading", s.unread > 0
    PROVE  Sound([s EXCEPT !.unread = s.unread - 1, !.sinceRead = 0])
<1> DEFINE r == [s EXCEPT !.unread = s.unread - 1, !.sinceRead = 0]
<1>0. s \in Session /\ s.unread - 1 \in 0 .. MaxUnread
  BY Constants DEF Sound, Session
<1>1. r \in Session
  BY <1>0, Zeros DEF Session
<1>2. /\ r.phase = s.phase /\ r.closed = s.closed /\ r.connectSeen = s.connectSeen
      /\ r.keepalive = s.keepalive /\ r.sinceStart = s.sinceStart /\ r.sleep = s.sleep
      /\ r.sinceSent = s.sinceSent /\ r.lively = s.lively /\ r.sinceRead = 0
  BY DEF Sound, Session
<1>3. /\ s.keepalive \in Nat /\ (s.keepalive > 0 => Poll <= Deadline(s.keepalive))
      /\ s.sleep \in Off .. Poll /\ s.sinceSent \in Nat
  BY KeepAlive DEF Sound, Session, Age
<1>4. Young(r) /\ SleepInTime(r)
  BY <1>2, <1>3, Constants DEF Sound, Young, SleepInTime, Guarded, Running, Deadline, Off
<1>5. KeptSide(r)
  BY <1>2, <1>3, Constants DEF Sound, KeptSide, Guarded, Running, Deadline
<1> QED
  BY <1>1, <1>4, <1>5 DEF Sound

\* A handler begins right after the read, the CONNECT's with a new deadline.
LEMMA HandledSound ==
    ASSUME NEW s, Sound(s), s.phase = "reading", s.sinceRead = 0
    PROVE  /\ s.connectSeen => Sound([s EXCEPT !.phase = "handling"])
           /\ ~s.connectSeen => \A k \in KeepAlives :
                Sound([s EXCEPT !.phase = "handling", !.connectSeen = TRUE, !.keepalive = k,
                                !.lively = s.sinceSent <= Interval(k)])
<1>0. /\ s.sinceSent \in Nat /\ s.sleep \in Off .. Poll /\ s.keepalive \in Nat
  BY KeepAlive DEF Sound, Session, Age
<1>1. ASSUME s.connectSeen PROVE Sound([s EXCEPT !.phase = "handling"])
  <2> DEFINE r == [s EXCEPT !.phase = "handling"]
  <2>1. r \in Session
    BY DEF Sound, Session
  <2>2. /\ r.phase = "handling" /\ r.closed = s.closed /\ r.connectSeen = s.connectSeen
        /\ r.keepalive = s.keepalive /\ r.sinceStart = s.sinceStart /\ r.sleep = s.sleep
        /\ r.sinceSent = s.sinceSent /\ r.lively = s.lively /\ r.sinceRead = 0
        /\ r.unread = s.unread
    BY DEF Sound, Session
  <2>3. Young(r) /\ SleepInTime(r)
    BY <2>2 DEF Sound, Young, SleepInTime, Guarded, Running
  <2>4. KeptSide(r)
    BY <1>0, <2>2, Constants DEF Sound, KeptSide, Guarded, Running, Deadline
  <2> QED
    BY <2>1, <2>3, <2>4 DEF Sound
<1>2. ASSUME ~s.connectSeen, NEW k \in KeepAlives
      PROVE  Sound([s EXCEPT !.phase = "handling", !.connectSeen = TRUE, !.keepalive = k,
                             !.lively = s.sinceSent <= Interval(k)])
  <2> DEFINE r == [s EXCEPT !.phase = "handling", !.connectSeen = TRUE, !.keepalive = k,
                            !.lively = s.sinceSent <= Interval(k)]
  <2>0. s \in Session /\ k \in KeepAlives \cup {0} /\ (s.sinceSent <= Interval(k)) \in BOOLEAN
    BY DEF Sound
  <2>1. r \in Session
    BY <2>0 DEF Session
  <2>2. /\ r.phase = "handling" /\ r.closed = s.closed /\ r.connectSeen
        /\ r.keepalive = k /\ r.sleep = s.sleep /\ r.sinceSent = s.sinceSent
        /\ r.sinceRead = 0 /\ r.unread = s.unread
    BY DEF Sound, Session
  <2>3. r.lively => s.sinceSent <= Interval(k)
    BY DEF Sound, Session
  <2>4. k \in Nat /\ (k > 0 => Poll <= Deadline(k))
    BY KeepAlive
  <2>5. Young(r) /\ SleepInTime(r)
    BY <1>0, <1>2, <2>2, <2>4, Constants
    DEF Sound, Young, SleepInTime, Guarded, Running, Deadline, Off
  <2>6. KeptSide(r)
    BY <1>0, <2>2, <2>3, <2>4, Constants DEF KeptSide, Guarded, Running, Deadline
  <2> QED
    BY <2>1, <2>5, <2>6 DEF Sound
<1> QED
  BY <1>1, <1>2
\* The watchdog goes back to sleep, to no later than the deadline.
LEMMA NapSound ==
    ASSUME NEW s, Sound(s), Guarded(s), ~NotEnforced(s), Remaining(s) > 0
    PROVE  Sound([s EXCEPT !.sleep = Nap(s)])
<1> DEFINE r == [s EXCEPT !.sleep = Nap(s)]
<1>0. /\ s \in Session /\ s.keepalive \in Nat /\ s.sinceRead \in Nat /\ s.sinceStart \in Nat
  BY KeepAlive DEF Sound, Session, Age
<1>1. Remaining(s) \in Int
  BY <1>0, Constants DEF Remaining, Timeout, Reference, Deadline
<1>2. Nap(s) \in 0 .. Poll /\ Nap(s) <= Remaining(s) /\ Nap(s) \in Off .. Poll /\ Nap(s) # Off
  BY <1>1, Constants DEF Nap, Off
<1>3. r \in Session
  BY <1>0, <1>2 DEF Session
<1>4. /\ r.phase = s.phase /\ r.closed = s.closed /\ r.connectSeen = s.connectSeen
      /\ r.keepalive = s.keepalive /\ r.sinceStart = s.sinceStart /\ r.sleep = Nap(s)
      /\ r.sinceSent = s.sinceSent /\ r.lively = s.lively /\ r.sinceRead = s.sinceRead
      /\ r.unread = s.unread
  BY <1>0 DEF Session
<1>5. Young(r) /\ KeptSide(r)
  BY <1>4 DEF Sound, Young, KeptSide, Guarded, Running
<1>6. SleepInTime(r)
  <2>1. CASE s.connectSeen
    BY <1>0, <1>2, <1>4, <2>1
    DEF SleepInTime, Guarded, Running, Remaining, Timeout, Reference, Deadline
  <2>2. CASE ~s.connectSeen
    BY <1>0, <1>2, <1>4, <2>2, Constants
    DEF SleepInTime, Guarded, Running, Remaining, Timeout, Reference
  <2> QED
    BY <2>1, <2>2
<1> QED
  BY <1>3, <1>5, <1>6 DEF Sound

\* Half a second passes only when nothing of the session is due.
LEMMA AgedSound ==
    ASSUME NEW s, Sound(s), ~Due(s) PROVE Sound(Aged(s))
<1>0. /\ s \in Session /\ s.sinceStart \in Age /\ s.sinceRead \in Age /\ s.sinceSent \in Age
      /\ s.sleep \in Off .. Poll /\ s.lively \in BOOLEAN /\ s.unread \in Nat
      /\ s.keepalive \in Nat /\ s.connectSeen \in BOOLEAN
  BY KeepAlive DEF Sound, Session
<1>1. CASE s.phase = "away"
  BY <1>1 DEF Aged
<1>2. CASE s.phase # "away"
  <2> DEFINE start == IF s.connectSeen THEN s.sinceStart ELSE Older(s.sinceStart)
             nap == IF s.sleep > 0 THEN s.sleep - 1 ELSE s.sleep
             live == s.lively /\ (s.connectSeen => s.sinceSent < Interval(s.keepalive))
             r == [s EXCEPT !.sinceStart = start, !.sinceRead = Older(s.sinceRead),
                            !.sinceSent = Older(s.sinceSent), !.sleep = nap, !.lively = live]
  <2>1. \A age \in Age : Older(age) \in Age /\ Older(age) <= age + 1
    BY Constants DEF Age, Older
  <2>2. /\ start \in Age /\ nap \in Off .. Poll /\ live \in BOOLEAN
        /\ Older(s.sinceRead) \in Age /\ Older(s.sinceSent) \in Age
    BY <1>0, <2>1, Constants DEF Off
  <2>3. start <= s.sinceStart + 1
    BY <1>0, <2>1, Constants DEF Age
  <2>4. live => s.lively /\ (s.connectSeen => s.sinceSent < Interval(s.keepalive))
    OBVIOUS
  <2>5. nap = IF s.sleep > 0 THEN s.sleep - 1 ELSE s.sleep
    OBVIOUS
  <2>6. Aged(s) = r
    BY <1>2 DEF Aged
  <2> HIDE DEF start, nap, live
  <2>7. r \in Session
    BY <1>0, <2>2 DEF Session
  <2>8. /\ r.phase = s.phase /\ r.closed = s.closed /\ r.connectSeen = s.connectSeen
        /\ r.keepalive = s.keepalive /\ r.unread = s.unread /\ r.sinceStart = start
        /\ r.sinceRead = Older(s.sinceRead) /\ r.sinceSent = Older(s.sinceSent)
        /\ r.sleep = nap /\ r.lively = live
    BY <1>0 DEF Session
  <2> HIDE DEF r
  <2>9. Young(r)
    BY <2>8 DEF Sound, Young
  <2>10. CASE ~Guarded(s)
    BY <2>6, <2>7, <2>8, <2>9, <2>10, NoDeadline DEF Guarded, Running
  <2>11. CASE Guarded(s)
    <3>1. /\ s.sleep # 0
          /\ s.phase = "reading" => s.unread = 0
          /\ s.phase = "handling" => s.sinceRead < MaxHandler
      BY <1>0, <2>11, Constants DEF Due, Guarded, Age
    <3>2. s.sleep # Off => nap \in Nat /\ s.sleep = nap + 1 /\ nap # Off
      BY <1>0, <2>5, <3>1, Constants DEF Off
    <3>3. Older(s.sinceRead) <= s.sinceRead + 1
      BY <1>0, <2>1
    <3>4. SleepInTime(r)
      <4>1. CASE s.connectSeen
        BY <1>0, <2>2, <2>8, <2>11, <3>1, <3>2, <3>3, <4>1
        DEF Sound, SleepInTime, Guarded, Running, Deadline, Age
      <4>2. CASE ~s.connectSeen
        BY <1>0, <2>2, <2>3, <2>8, <2>11, <3>1, <3>2, <4>2, Constants
        DEF Sound, SleepInTime, Guarded, Running, Age
      <4> QED
        BY <4>1, <4>2
    <3>5. KeptSide(r)
      <4>1. SUFFICES ASSUME s.connectSeen, s.keepalive > 0, live, MaxHandler < Deadline(s.keepalive)
                     PROVE  /\ Older(s.sinceSent) <= Interval(s.keepalive)
                            /\ s.unread = 0 => Older(s.sinceRead) <= Older(s.sinceSent)
                            /\ s.phase = "handling" => Older(s.sinceRead) <= MaxHandler
                            /\ Older(s.sinceRead) < Deadline(s.keepalive)
        BY <2>8 DEF KeptSide
      <4>2. /\ s.unread = 0 => s.sinceRead <= s.sinceSent
            /\ s.sinceSent < Interval(s.keepalive)
        BY <2>4, <2>11, <4>1 DEF Sound, KeptSide
      <4>3. Older(s.sinceSent) <= Interval(s.keepalive)
        BY <1>0, <2>1, <4>2 DEF Interval, Age, Older
      <4>4. s.unread = 0 => Older(s.sinceRead) <= Older(s.sinceSent)
        BY <1>0, <4>2, Constants DEF Age, Older
      <4>5. s.phase = "handling" => Older(s.sinceRead) <= MaxHandler
        BY <1>0, <3>1, <3>3, <2>2, Constants DEF Age
      <4>6. Older(s.sinceRead) < Deadline(s.keepalive)
        BY <1>0, <2>2, <2>11, <3>1, <4>1, <4>3, <4>4, <4>5, Constants
        DEF Interval, Deadline, Age, Guarded, Running
      <4> QED
        BY <4>3, <4>4, <4>5, <4>6
    <3> QED
      BY <2>6, <2>7, <2>9, <3>4, <3>5 DEF Sound
  <2> QED
    BY <2>10, <2>11
<1> QED
  BY <1>1, <1>2
-----------------------------------------------------------------------------
(* Steps *)

\* Whatever client p's step is, it leaves its session sound and the others
\* untouched.
LEMMA ActSound ==
    ASSUME TypeOK, NEW p \in Peer, Sound(sess[p]), Act(p)
    PROVE  \E s : Sound(s) /\ Becomes(p, s)
<1> DEFINE s == sess[p]
<1>0. s \in Session
  BY DEF Sound
<1>1. CASE Upgrade(p) \/ FreeSlot(p)
  BY <1>1, FreshSound DEF Upgrade, FreeSlot
<1>2. CASE Prepared(p)
  <2> DEFINE r == [s EXCEPT !.phase = "reading", !.sleep = 0]
  <2>1. r \in Session
    BY <1>0, Zeros DEF Session
  <2>2. r.phase = "reading" /\ r.sleep = 0 /\ r.connectSeen = FALSE
    BY <1>0, <1>2 DEF Prepared, Sound, Young, Session
  <2>3. Sound(r)
    BY <2>1, <2>2 DEF Sound, Young, SleepInTime, KeptSide, Off
  <2> QED
    BY <1>2, <2>3 DEF Prepared, Turn
<1>3. CASE Read(p)
  <2> DEFINE r == [s EXCEPT !.unread = s.unread - 1, !.sinceRead = 0]
  <2>1. Sound(r) /\ r.phase = "reading" /\ r.sinceRead = 0
    BY <1>0, <1>3, ReadSound DEF Read, Session
  <2> HIDE DEF r
  <2>2. \/ Turn(p, r)
        \/ r.connectSeen /\ Turn(p, [r EXCEPT !.phase = "handling"])
        \/ ~r.connectSeen /\ \E k \in KeepAlives :
              Turn(p, [r EXCEPT !.phase = "handling", !.connectSeen = TRUE, !.keepalive = k,
                                !.lively = r.sinceSent <= Interval(k)])
        \/ Turn(p, Closed(r, "other"))
    BY <1>3 DEF Read, r
  <2> QED
    BY <2>1, <2>2, HandledSound, ClosedSound DEF Turn
<1>4. CASE HandlerEnds(p)
  <2> DEFINE r == [s EXCEPT !.phase = "reading"]
  <2>1. r \in Session
    BY <1>0 DEF Session
  <2>2. /\ r.phase = "reading" /\ r.closed = s.closed /\ r.connectSeen = s.connectSeen
        /\ r.keepalive = s.keepalive /\ r.sinceStart = s.sinceStart /\ r.sleep = s.sleep
        /\ r.sinceSent = s.sinceSent /\ r.lively = s.lively /\ r.sinceRead = s.sinceRead
        /\ r.unread = s.unread
    BY <1>0 DEF Session
  <2>3. Sound(r)
    BY <1>4, <2>1, <2>2
    DEF HandlerEnds, Sound, Young, SleepInTime, KeptSide, Guarded, Running
  <2> QED
    BY <1>4, <2>3 DEF HandlerEnds, Turn
<1>5. CASE CloseFromOutside(p)
  BY <1>5, ClosedSound DEF CloseFromOutside, Turn
<1>6. CASE SocketCloses(p) \/ HangUp(p)
  <2> DEFINE r == [s EXCEPT !.open = FALSE]
  <2>1. r \in Session
    BY <1>0 DEF Session
  <2>2. /\ r.phase = s.phase /\ r.closed = s.closed /\ r.connectSeen = s.connectSeen
        /\ r.keepalive = s.keepalive /\ r.sinceStart = s.sinceStart /\ r.sleep = s.sleep
        /\ r.sinceSent = s.sinceSent /\ r.lively = s.lively /\ r.sinceRead = s.sinceRead
        /\ r.unread = s.unread
    BY <1>0 DEF Session
  <2>3. Sound(r)
    BY <2>1, <2>2 DEF Sound, Young, SleepInTime, KeptSide, Guarded, Running
  <2> QED
    BY <1>6, <2>3 DEF SocketCloses, HangUp, Turn
<1>7. CASE LoopEnds(p) \/ Cancel(p)
  <2> DEFINE c == Closed(s, "other")
             r == [c EXCEPT !.phase = "ending"]
  <2>1. Sound(c) /\ c.closed # "no"
    BY ClosedSound
  <2> HIDE DEF c
  <2>2. c \in Session
    BY <2>1 DEF Sound
  <2>3. r \in Session /\ r.phase = "ending"
    BY <2>2 DEF Session
  <2>4. Sound(r)
    BY <2>3, NoDeadline DEF Young, Guarded, Running
  <2> QED
    BY <1>7, <2>4 DEF LoopEnds, Cancel, Turn, c
<1>8. CASE Watchdog(p)
  <2>1. CASE NotEnforced(s) /\ Turn(p, [s EXCEPT !.sleep = Off])
    <3> DEFINE r == [s EXCEPT !.sleep = Off]
    <3>1. r \in Session
      BY <1>0, Zeros DEF Session
    <3>2. /\ r.phase = s.phase /\ r.connectSeen /\ r.keepalive = 0
      BY <1>0, <2>1 DEF Session, NotEnforced
    <3>3. Sound(r)
      BY <3>1, <3>2 DEF Sound, Young, SleepInTime, KeptSide, Guarded, Running, NotEnforced
    <3> QED
      BY <2>1, <3>3 DEF Turn
  <2>2. CASE Turn(p, Closed(s, "watchdog"))
    BY <2>2, ClosedSound DEF Turn
  <2>3. CASE ~NotEnforced(s) /\ Remaining(s) > 0 /\ Turn(p, [s EXCEPT !.sleep = Nap(s)])
    BY <1>8, <2>3, NapSound DEF Watchdog, Guarded, Turn
  <2> QED
    BY <1>8, <2>1, <2>2, <2>3 DEF Watchdog
<1>9. CASE Send(p)
  <2> DEFINE r == [s EXCEPT !.unread = s.unread + 1, !.sinceSent = 0]
  <2>0. s.unread + 1 \in 0 .. MaxUnread /\ s.unread + 1 > 0 /\ s.keepalive \in Nat
    BY <1>0, <1>9, Constants, KeepAlive DEF Send, Session
  <2>1. r \in Session
    BY <1>0, <2>0, Zeros DEF Session
  <2>2. /\ r.phase = s.phase /\ r.closed = s.closed /\ r.connectSeen = s.connectSeen
        /\ r.keepalive = s.keepalive /\ r.sinceStart = s.sinceStart /\ r.sleep = s.sleep
        /\ r.sinceSent = 0 /\ r.lively = s.lively /\ r.sinceRead = s.sinceRead
        /\ r.unread > 0
    BY <1>0, <2>0 DEF Session
  <2>3. Sound(r)
    BY <2>0, <2>1, <2>2 DEF Sound, Young, SleepInTime, KeptSide, Guarded, Running, Interval
  <2> QED
    BY <1>9, <2>3 DEF Send, Turn
<1> QED
  BY <1>1, <1>2, <1>3, <1>4, <1>5, <1>6, <1>7, <1>8, <1>9 DEF Act

LEMMA SoundStep ==
    ASSUME TypeOK, \A p \in Peer : Sound(sess[p]), [Next]_vars
    PROVE  TypeOK' /\ \A p \in Peer : Sound(sess'[p])
<1>0. sess \in [Peer -> Session] /\ active \subseteq Peer /\ listening \in BOOLEAN
  BY DEF TypeOK
<1>1. ASSUME NEW p \in Peer, Act(p) PROVE TypeOK' /\ \A q \in Peer : Sound(sess'[q])
  <2>1. PICK s : Sound(s) /\ Becomes(p, s)
    BY <1>1, ActSound
  <2>2. s \in Session
    BY <2>1 DEF Sound
  <2>3. active' \subseteq Peer /\ listening' = listening
    BY <1>0, <1>1 DEF Act, Upgrade, Prepared, FreeSlot, Read, HandlerEnds, CloseFromOutside,
       SocketCloses, LoopEnds, Watchdog, Cancel, Send, HangUp, Turn
  <2>4. sess' \in [Peer -> Session] /\ \A q \in Peer : sess'[q] = IF q = p THEN s ELSE sess[q]
    BY <1>0, <2>1, <2>2 DEF Becomes
  <2> QED
    BY <1>0, <2>1, <2>3, <2>4 DEF TypeOK
<1>2. CASE Tick
  <2>1. \A p \in Peer : Sound(Aged(sess[p]))
    BY <1>2, AgedSound DEF Tick
  <2>2. \A p \in Peer : Aged(sess[p]) \in Session
    BY <2>1 DEF Sound
  <2> QED
    BY <1>0, <1>2, <2>1, <2>2 DEF Tick, TypeOK
<1>3. CASE Stop \/ UNCHANGED vars
  BY <1>0, <1>3 DEF Stop, vars, TypeOK
<1> QED
  BY <1>1, <1>2, <1>3 DEF Next

\* A slot is claimed below the cap, and only together with its phase.
LEMMA CapStep ==
    ASSUME TypeOK, CapIsKept, [Next]_vars PROVE CapIsKept'
<1>0. IsFiniteSet(active) /\ Cardinality(active) \in Nat
  BY Sizes, FS_Subset, FS_CardinalityType DEF TypeOK
<1>1. ASSUME NEW p \in Peer, Upgrade(p) PROVE CapIsKept'
  <2>1. active' = {q \in Peer : sess'[q].phase # "away"}
    BY <1>1 DEF Upgrade, Becomes, Fresh, TypeOK, CapIsKept
  <2>2. Cardinality(active') = Cardinality(active) + 1
    BY <1>0, <1>1, FS_AddElement DEF Upgrade, CapIsKept
  <2> QED
    BY <1>0, <1>1, <2>1, <2>2, Constants DEF Upgrade, CapIsKept
<1>2. ASSUME NEW p \in Peer, FreeSlot(p) PROVE CapIsKept'
  <2>1. active' = {q \in Peer : sess'[q].phase # "away"}
    BY <1>2 DEF FreeSlot, Becomes, Fresh, TypeOK, CapIsKept
  <2>2. Cardinality(active') <= Cardinality(active) /\ Cardinality(active') \in Nat
    BY <1>0, <1>2, FS_RemoveElement, FS_Subset, FS_CardinalityType DEF FreeSlot
  <2> QED
    BY <1>0, <2>1, <2>2, Constants DEF CapIsKept
<1>3. ASSUME UNCHANGED active, \A q \in Peer : sess'[q].phase = "away" <=> sess[q].phase = "away"
      PROVE CapIsKept'
  BY <1>3 DEF CapIsKept
<1>4. ASSUME NEW p \in Peer, NEW s, Turn(p, s), s.phase # "away", sess[p].phase # "away"
      PROVE CapIsKept'
  BY <1>3, <1>4 DEF Turn, Becomes, TypeOK
<1>5. ASSUME NEW p \in Peer, Act(p), ~Upgrade(p), ~FreeSlot(p)
      PROVE  \E s : Turn(p, s) /\ s.phase # "away" /\ sess[p].phase # "away"
  <2>0. sess[p] \in Session
    BY DEF TypeOK
  <2>1. CASE Prepared(p) \/ HandlerEnds(p) \/ SocketCloses(p) \/ HangUp(p) \/ Send(p)
    BY <2>0, <2>1 DEF Prepared, HandlerEnds, SocketCloses, HangUp, Send, Running, Session
  <2>2. CASE CloseFromOutside(p) \/ LoopEnds(p) \/ Cancel(p) \/ Watchdog(p)
    BY <2>0, <2>2 DEF CloseFromOutside, LoopEnds, Cancel, Watchdog, Closed, Running, Session
  <2>3. CASE Read(p)
    <3> DEFINE r == [sess[p] EXCEPT !.unread = sess[p].unread - 1, !.sinceRead = 0]
    <3>0. r.unread = sess[p].unread - 1 /\ r.phase = "reading" /\ Closed(r, "other").phase = "reading"
      BY <2>0, <2>3 DEF Read, Session, Closed
    <3>1. [r EXCEPT !.phase = "handling"].phase = "handling"
      BY <2>0 DEF Session
    <3>2. \A k : [r EXCEPT !.phase = "handling", !.connectSeen = TRUE, !.keepalive = k,
                           !.lively = r.sinceSent <= Interval(k)].phase = "handling"
      BY <2>0 DEF Session
    <3>3. \/ Turn(p, r)
          \/ Turn(p, [r EXCEPT !.phase = "handling"])
          \/ \E k \in KeepAlives :
                Turn(p, [r EXCEPT !.phase = "handling", !.connectSeen = TRUE, !.keepalive = k,
                                  !.lively = r.sinceSent <= Interval(k)])
          \/ Turn(p, Closed(r, "other"))
      BY <2>3 DEF Read
    <3>4. sess[p].phase # "away"
      BY <2>3 DEF Read
    <3> HIDE DEF r
    <3> QED
      BY <3>0, <3>1, <3>2, <3>3, <3>4
  <2> QED
    BY <1>5, <2>1, <2>2, <2>3 DEF Act
<1>6. CASE Tick
  <2>1. \A q \in Peer : Aged(sess[q]).phase = sess[q].phase
    BY DEF TypeOK, Aged, Session
  <2> QED
    BY <1>3, <1>6, <2>1 DEF Tick
<1>7. CASE Stop \/ UNCHANGED vars
  BY <1>3, <1>7 DEF Stop, vars
<1> QED
  BY <1>1, <1>2, <1>4, <1>5, <1>6, <1>7 DEF Next

-----------------------------------------------------------------------------
(* The theorems *)

\* The inductive invariant behind everything below.
THEOREM Inductive == Spec => []IInv
<1>1. Init => IInv
  <2> SUFFICES ASSUME Init PROVE IInv
    OBVIOUS
  <2>1. TypeOK /\ \A p \in Peer : Sound(sess[p])
    BY FreshSound DEF Init, TypeOK, Sound
  <2>2. CapIsKept
    BY Constants, FS_EmptySet DEF Init, CapIsKept, Fresh
  <2> QED
    BY <2>1, <2>2 DEF IInv
<1>2. IInv /\ [Next]_vars => IInv'
  BY SoundStep, CapStep DEF IInv
<1> QED
  BY <1>1, <1>2, PTL DEF Spec

\* Every variable keeps its type.
THEOREM TypesKept == Spec => []TypeOK
<1>1. IInv => TypeOK
  BY DEF IInv
<1> QED
  BY <1>1, Inductive, PTL

\* Slots belong to the upgrades under way, and there are never more of them
\* than max_device_sessions, however many clients race for them.
THEOREM CapKept == Spec => []CapIsKept
<1>1. IInv => CapIsKept
  BY DEF IInv
<1> QED
  BY <1>1, Inductive, PTL

\* Without a CONNECT a session does not outlive device_connect_timeout_seconds.
THEOREM ConnectsInTime == Spec => []ConnectInTime
<1>1. IInv => ConnectInTime
  <2> SUFFICES ASSUME IInv, NEW p \in Peer, Guarded(sess[p]), ~sess[p].connectSeen
               PROVE  sess[p].sinceStart < ConnectTimeout \/ sess[p].sleep = 0
    BY DEF ConnectInTime
  <2> DEFINE s == sess[p]
  <2>1. Sound(s)
    BY DEF IInv
  <2> HIDE DEF s
  <2>2. s.sleep \in Off .. Poll /\ s.sinceStart \in Nat
    BY <2>1 DEF Sound, Session, Age
  <2>3. s.sleep # Off /\ (s.sleep = 0 \/ s.sinceStart + s.sleep <= ConnectTimeout)
    BY <2>1 DEF Sound, SleepInTime, s
  <2>4. s.sinceStart < ConnectTimeout \/ s.sleep = 0
    BY <2>2, <2>3, Constants DEF Off
  <2> QED
    BY <2>4 DEF s
<1> QED
  BY <1>1, Inductive, PTL

\* Silence is noticed at 1.5 times the keepalive, not a poll later.
THEOREM SilenceNoticed == Spec => []SilenceIsNoticed
<1>1. IInv => SilenceIsNoticed
  <2> SUFFICES ASSUME IInv, NEW p \in Peer, Guarded(sess[p]), sess[p].connectSeen,
                      sess[p].keepalive > 0
               PROVE  sess[p].sinceRead < Deadline(sess[p].keepalive) \/ sess[p].sleep = 0
    BY DEF SilenceIsNoticed
  <2> DEFINE s == sess[p]
  <2>1. Sound(s)
    BY DEF IInv
  <2> HIDE DEF s
  <2>2. s.sleep \in Off .. Poll /\ s.sinceRead \in Nat /\ s.keepalive \in Nat
    BY <2>1, KeepAlive DEF Sound, Session, Age
  <2>3. s.sleep # Off /\ s.sinceRead + s.sleep <= Deadline(s.keepalive)
    BY <2>1 DEF Sound, SleepInTime, s
  <2>4. s.sinceRead < Deadline(s.keepalive) \/ s.sleep = 0
    BY <2>2, <2>3, Constants DEF Off, Deadline
  <2> QED
    BY <2>4 DEF s
<1> QED
  BY <1>1, Inductive, PTL

\* Only the watchdog closes as "watchdog", and only past the deadline.
LEMMA StruckLate ==
    ASSUME TypeOK, Next, NEW p \in Peer, Struck(p)
    PROVE  /\ Guarded(sess[p]) /\ sess[p].keepalive > 0
           /\ Remaining(sess[p]) <= 0
<1>0. sess \in [Peer -> Session] /\ sess[p] \in Session
  BY DEF TypeOK
<1>1. ASSUME NEW q \in Peer, Act(q) PROVE q = p
  <2>1. \E s : Becomes(q, s)
    BY <1>1 DEF Act, Upgrade, Prepared, FreeSlot, Read, HandlerEnds, CloseFromOutside,
       SocketCloses, LoopEnds, Watchdog, Cancel, Send, HangUp, Turn
  <2> QED
    BY <1>0, <2>1 DEF Becomes, Struck
<1>2. CASE Tick
  BY <1>0, <1>2 DEF Tick, Aged, Struck, Session
<1>3. CASE Stop
  BY <1>3 DEF Stop, Struck
<1>9. ASSUME NEW s, Becomes(p, s) PROVE s.closed = "watchdog" /\ sess[p].closed = "no"
  BY <1>0, <1>9 DEF Becomes, Struck
<1>4. ~(Upgrade(p) \/ FreeSlot(p))
  <2>1. Fresh.closed = "no" /\ [Fresh EXCEPT !.phase = "upgrading", !.open = TRUE].closed = "no"
    BY DEF Fresh
  <2> QED
    BY <1>9, <2>1 DEF Upgrade, FreeSlot
<1>5. CASE Prepared(p) \/ HandlerEnds(p) \/ SocketCloses(p) \/ HangUp(p) \/ Send(p)
  <2>1. ASSUME NEW s, Becomes(p, s), s.closed = sess[p].closed PROVE FALSE
    BY <1>9, <2>1
  <2>2. ~(Prepared(p) \/ HandlerEnds(p) \/ SocketCloses(p))
    BY <1>0, <2>1 DEF Prepared, HandlerEnds, SocketCloses, Turn, Session
  <2>3. ~(HangUp(p) \/ Send(p))
    BY <1>0, <2>1 DEF HangUp, Send, Turn, Session
  <2> QED
    BY <1>5, <2>2, <2>3
<1>6. ~(CloseFromOutside(p) \/ LoopEnds(p) \/ Cancel(p))
  <2> DEFINE c == Closed(sess[p], "other")
  <2>1. sess[p].closed = "no" => c.closed = "other" /\ [c EXCEPT !.phase = "ending"].closed = "other"
    BY <1>0 DEF Closed, Session
  <2> HIDE DEF c
  <2> QED
    BY <1>9, <2>1 DEF CloseFromOutside, LoopEnds, Cancel, Turn, c
<1>7. ~Read(p)
  <2> SUFFICES ASSUME Read(p) PROVE FALSE
    OBVIOUS
  <2> DEFINE r == [sess[p] EXCEPT !.unread = sess[p].unread - 1, !.sinceRead = 0]
  <2>0. r.closed = "no" /\ Closed(r, "other").closed = "other"
    BY <1>0 DEF Session, Closed, Struck
  <2>1. [r EXCEPT !.phase = "handling"].closed = "no"
    BY <1>0 DEF Session, Struck
  <2>2. \A k : [r EXCEPT !.phase = "handling", !.connectSeen = TRUE, !.keepalive = k,
                         !.lively = r.sinceSent <= Interval(k)].closed = "no"
    BY <1>0 DEF Session, Struck
  <2>3. \/ Becomes(p, r)
        \/ Becomes(p, [r EXCEPT !.phase = "handling"])
        \/ \E k \in KeepAlives :
              Becomes(p, [r EXCEPT !.phase = "handling", !.connectSeen = TRUE, !.keepalive = k,
                                   !.lively = r.sinceSent <= Interval(k)])
        \/ Becomes(p, Closed(r, "other"))
    BY DEF Read, Turn
  <2> HIDE DEF r
  <2> QED
    BY <1>9, <2>0, <2>1, <2>2, <2>3
<1>8. CASE Watchdog(p)
  <2>1. ~NotEnforced(sess[p]) /\ Remaining(sess[p]) <= 0
    BY <1>0, <1>8 DEF Watchdog, Turn, Becomes, Struck, Session
  <2>2. sess[p].keepalive \in Nat
    BY <1>0, KeepAlive DEF Session
  <2> QED
    BY <1>8, <2>1, <2>2 DEF Watchdog, Guarded, NotEnforced, Struck
<1> QED
  BY <1>1, <1>2, <1>3, <1>4, <1>5, <1>6, <1>7, <1>8 DEF Next, Act

\* The watchdog closes no session whose client kept its side, unless a single
\* handler can last 1.5 times the keepalive.
THEOREM LivelyKept == Spec => LivelyIsKept
<1>1. IInv /\ [Next]_vars =>
        [\A p \in Peer : Struck(p) =>
            ~sess[p].lively \/ MaxHandler >= Deadline(sess[p].keepalive)]_vars
  <2> SUFFICES ASSUME IInv, Next, NEW p \in Peer, Struck(p), sess[p].lively,
                      ~(MaxHandler >= Deadline(sess[p].keepalive))
               PROVE  FALSE
    OBVIOUS
  <2> DEFINE s == sess[p]
  <2>1. Sound(s) /\ s.connectSeen
    BY DEF IInv, Struck
  <2>2. Guarded(s) /\ s.keepalive > 0 /\ Remaining(s) <= 0
    BY StruckLate DEF IInv
  <2> HIDE DEF s
  <2>3. s.sinceRead \in Nat /\ s.keepalive \in Nat /\ MaxHandler \in Nat
    BY <2>1, KeepAlive, Constants DEF Sound, Session, Age
  <2>4. MaxHandler < Deadline(s.keepalive) /\ s.lively
    BY <2>3 DEF Deadline, s
  <2>5. s.sinceRead < Deadline(s.keepalive)
    BY <2>1, <2>2, <2>4 DEF Sound, KeptSide
  <2> QED
    BY <2>1, <2>2, <2>3, <2>5 DEF Remaining, Timeout, Reference, Deadline
<1> QED
  BY <1>1, Inductive, PTL DEF Spec, LivelyIsKept
=============================================================================
