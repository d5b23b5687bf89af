----------------------------- MODULE Bridge_proofs -----------------------------
(***************************************************************************)
(* Proofs about Bridge, for every set of sessions and every version bound. *)
(***************************************************************************)
EXTENDS Bridge, TLAPS

\* What is published is of the topic's type.
LEMMA PublishedType ==
    ASSUME NEW T, NEW topic \in T, NEW value \in T
    PROVE  Published(topic, value) \in T
BY DEF Published

LEMMA DocumentType ==
    ASSUME NEW c \in Core, NEW i \in Info, document \in Document \cup {None}
    PROVE  DocumentOf(c, i) \in Document \cup {None}
<1>1. CASE c = 0
    BY <1>1 DEF DocumentOf
<1>2. CASE c # 0
    <2>1. [core |-> c, info |-> i] \in Document \cup {None}
        BY <1>2 DEF Document, Core, Info
    <2>2. QED
        BY <1>2, <2>1, PublishedType DEF DocumentOf
<1>3. QED
    BY <1>1, <1>2

\* Every step of Next, named.
LEMMA NextCases ==
    ASSUME Next
    PROVE  \/ \E s \in Sessions :
                \/ ConnectFirst(s)
                \/ ConnectOver(s)
                \/ PreviousClosed(s)
                \/ Discover(s)
                \/ Discovered(s)
                \/ FallbackWakes(s)
                \/ FallbackPublished(s)
                \/ HandleState(s)
                \/ \E i \in Info : HandleInfo(s, i) \/ HandleRecordedInfo(s, i)
                \/ Described(s)
                \/ Disconnect(s)
                \/ \E up \in BOOLEAN : HandleStatus(s, up) \/ HandleStatusReply(s, up)
           \/ HaConnects \/ Subscribed \/ SubscribeFails \/ Redescribed \/ Reannounced
           \/ LinkLost \/ LinkBreaks \/ Cancel \/ HaLeaves \/ ClientEnded \/ RunStops
BY DEF Next, Handler, Timer, Appliance, Client

(***************************************************************************)
(* Every step keeps the types.                                             *)
(***************************************************************************)
LEMMA TypeNext == TypeOK /\ [Next]_vars => TypeOK'
<1> SUFFICES ASSUME TypeOK, [Next]_vars PROVE TypeOK'
    OBVIOUS
<1> USE BridgeAssumption DEF vars, sessionVars, stateVars, clientVars, topicVars,
        history, TypeOK, Published, HasClient, DocumentOf, Document, Core,
        Info, Status
<1>1. ASSUME NEW s \in Sessions, ConnectFirst(s)
      PROVE  TypeOK'
    BY <1>1 DEF ConnectFirst, Connects, Announces
<1>2. ASSUME NEW s \in Sessions, ConnectOver(s)
      PROVE  TypeOK'
    BY <1>2 DEF ConnectOver, Connects
<1>3. ASSUME NEW s \in Sessions, PreviousClosed(s)
      PROVE  TypeOK'
    BY <1>3 DEF PreviousClosed, Announces
<1>4. ASSUME NEW s \in Sessions, Discover(s)
      PROVE  TypeOK'
    BY <1>4 DEF Discover, StartFallback
<1>5. ASSUME NEW s \in Sessions, Discovered(s)
      PROVE  TypeOK'
    BY <1>5 DEF Discovered
<1>6. ASSUME NEW s \in Sessions, FallbackWakes(s)
      PROVE  TypeOK'
    BY <1>6 DEF FallbackWakes
<1>7. ASSUME NEW s \in Sessions, FallbackPublished(s)
      PROVE  TypeOK'
    BY <1>7 DEF FallbackPublished
<1>8. ASSUME NEW s \in Sessions, HandleState(s)
      PROVE  TypeOK'
    BY <1>8 DEF HandleState, DocumentTold
<1>9. ASSUME NEW s \in Sessions, NEW i \in Info, HandleInfo(s, i)
      PROVE  TypeOK'
    <2>1. overtaken' \in BOOLEAN
        <3>1. overtaken' = FALSE
            BY <1>9 DEF HandleInfo, history
        <3>2. QED
            BY <3>1 DEF TypeOK
    <2>2. QED
        BY <2>1, <1>9 DEF HandleInfo
<1>10. ASSUME NEW s \in Sessions, NEW i \in Info, HandleRecordedInfo(s, i)
      PROVE  TypeOK'
    BY <1>10 DEF HandleRecordedInfo
<1>11. ASSUME NEW s \in Sessions, Described(s)
      PROVE  TypeOK'
    BY <1>11 DEF Described
<1>12. ASSUME NEW s \in Sessions, Disconnect(s)
      PROVE  TypeOK'
    <2>1. online' \in BOOLEAN
        <3>1. online' = FALSE \/ online' = online
            BY <1>12 DEF Disconnect
        <3>2. QED
            BY <3>1 DEF TypeOK
    <2>2. QED
        BY <2>1, <1>12 DEF TypeOK, Disconnect, IsCurrent, Published,
           clientVars, history
<1>13. ASSUME NEW s \in Sessions, NEW up \in BOOLEAN, HandleStatus(s, up)
      PROVE  TypeOK'
    BY <1>13 DEF HandleStatus
<1>14. ASSUME NEW s \in Sessions, NEW up \in BOOLEAN, HandleStatusReply(s, up)
      PROVE  TypeOK'
    BY <1>14 DEF HandleStatusReply
<1>15. CASE HaConnects
    <2>1. link' \in BOOLEAN /\ cutShort' \in BOOLEAN
        <3>1. link' = TRUE /\ cutShort' = FALSE
            BY <1>15 DEF HaConnects
        <3>2. QED
            BY <3>1 DEF TypeOK
    <2>2. QED
        BY <2>1, <1>15 DEF HaConnects
<1>16. CASE Subscribed
    <2>1. overtaken' \in BOOLEAN
        <3>1. overtaken' = FALSE \/ overtaken' = overtaken
            BY <1>16 DEF Subscribed, history
        <3>2. QED
            BY <3>1 DEF TypeOK
    <2>2. QED
        BY <2>1, <1>16 DEF Subscribed, AvailabilityNow
<1>17. CASE Redescribed
    BY <1>17 DEF Redescribed, AvailabilityNow
<1>18. CASE Reannounced
    BY <1>18 DEF Reannounced
<1>19. CASE LinkLost
    BY <1>19 DEF LinkLost
<1>20. CASE LinkBreaks
    <2>1. link' \in BOOLEAN
        <3>1. link' = FALSE
            BY <1>20 DEF LinkBreaks
        <3>2. QED
            BY <3>1 DEF TypeOK
    <2>2. QED
        BY <2>1, <1>20 DEF TypeOK, LinkBreaks, sessionVars, stateVars,
           topicVars, history
<1>21. CASE Cancel
    <2>1. cutShort' \in BOOLEAN
        <3>1. cutShort' = cutShort \/ cutShort' = (ha # "messages")
            BY <1>21 DEF Cancel, history
        <3>2. QED
            BY <3>1 DEF TypeOK
    <2>2. QED
        BY <2>1, <1>21 DEF Cancel, SaysOffline
<1>22. CASE HaLeaves
    <2>1. link' \in BOOLEAN
        <3>1. link' = FALSE
            BY <1>22 DEF HaLeaves
        <3>2. QED
            BY <3>1 DEF TypeOK
    <2>2. QED
        BY <2>1, <1>22 DEF TypeOK, HaLeaves, sessionVars, stateVars,
           topicVars, history
<1>23. CASE ClientEnded
    BY <1>23 DEF ClientEnded
<1>24. CASE RunStops
    BY <1>24 DEF RunStops
<1>25. CASE SubscribeFails
    <2>1. link' \in BOOLEAN
        <3>1. link' = FALSE
            BY <1>25 DEF SubscribeFails, history
        <3>2. QED
            BY <3>1 DEF TypeOK
    <2>2. QED
        BY <2>1, <1>25 DEF SubscribeFails
<1>26. CASE UNCHANGED vars
    BY <1>26
<1>27. QED
    BY <1>1, <1>2, <1>3, <1>4, <1>5, <1>6, <1>7, <1>8, <1>9, <1>10, <1>11,
       <1>12, <1>13, <1>14, <1>15, <1>16, <1>17, <1>18, <1>19, <1>20, <1>21,
       <1>22, <1>23, <1>24, <1>25, <1>26, NextCases

(***************************************************************************)
(* Every step keeps at most one session open.  A connect closes the        *)
(* session it replaces in the step in which it takes its place; a session  *)
(* that ends takes its own entry with it, or none.                         *)
(***************************************************************************)
LEMMA OpenNext == TypeOK /\ OpenIsRegistered /\ [Next]_vars => OpenIsRegistered'
<1> SUFFICES ASSUME TypeOK /\ OpenIsRegistered, [Next]_vars PROVE OpenIsRegistered'
    OBVIOUS
<1> USE DEF vars, sessionVars, OpenIsRegistered
<1>0. /\ DOMAIN pc = Sessions /\ DOMAIN closed = Sessions
    BY DEF TypeOK
<1>1. ASSUME NEW s \in Sessions, ConnectFirst(s)
      PROVE  OpenIsRegistered'
    <2>1. SUFFICES ASSUME NEW t \in Sessions, pc'[t] \notin {"new", "gone"}, ~closed'[t]
                   PROVE  registry' = t
        OBVIOUS
    <2>2. CASE t = s
        BY <1>1, <1>0, <2>1, <2>2 DEF ConnectFirst, Connects, Announces
    <2>3. CASE t # s
        <3>1. pc[t] \notin {"new", "gone"}
            BY <1>1, <1>0, <2>1, <2>3 DEF ConnectFirst, Connects, Announces
        <3>2. QED
            BY <1>1, <1>0, <2>1, <2>3, <3>1, BridgeAssumption DEF
               ConnectFirst, Connects, Announces
    <2>4. QED
        BY <2>2, <2>3
<1>2. ASSUME NEW s \in Sessions, ConnectOver(s)
      PROVE  OpenIsRegistered'
    <2>1. SUFFICES ASSUME NEW t \in Sessions, pc'[t] \notin {"new", "gone"}, ~closed'[t]
                   PROVE  registry' = t
        OBVIOUS
    <2>2. CASE t = s
        BY <1>2, <1>0, <2>1, <2>2 DEF ConnectOver, Connects
    <2>3. CASE t # s
        <3>1. pc[t] \notin {"new", "gone"}
            BY <1>2, <1>0, <2>1, <2>3 DEF ConnectOver, Connects
        <3>2. QED
            BY <1>2, <1>0, <2>1, <2>3, <3>1 DEF ConnectOver, Connects
    <2>4. QED
        BY <2>2, <2>3
<1>3. ASSUME NEW s \in Sessions, PreviousClosed(s)
      PROVE  OpenIsRegistered'
    BY <1>0, <1>3 DEF PreviousClosed, Announces
<1>4. ASSUME NEW s \in Sessions, Discover(s)
      PROVE  OpenIsRegistered'
    <2>1. SUFFICES ASSUME NEW t \in Sessions, pc'[t] \notin {"new", "gone"}, ~closed'[t]
                   PROVE  registry' = t
        OBVIOUS
    <2>2. CASE t = s
        BY <1>4, <1>0, <2>1, <2>2 DEF Discover
    <2>3. CASE t # s
        <3>1. pc[t] \notin {"new", "gone"}
            BY <1>4, <1>0, <2>1, <2>3 DEF Discover
        <3>2. QED
            BY <1>4, <1>0, <2>1, <2>3, <3>1 DEF Discover
    <2>4. QED
        BY <2>2, <2>3
<1>5. ASSUME NEW s \in Sessions, Discovered(s)
      PROVE  OpenIsRegistered'
    BY <1>0, <1>5 DEF Discovered
<1>6. ASSUME NEW s \in Sessions, FallbackWakes(s)
      PROVE  OpenIsRegistered'
    BY <1>0, <1>6 DEF FallbackWakes
<1>7. ASSUME NEW s \in Sessions, FallbackPublished(s)
      PROVE  OpenIsRegistered'
    BY <1>0, <1>7 DEF FallbackPublished
<1>8. ASSUME NEW s \in Sessions, HandleState(s)
      PROVE  OpenIsRegistered'
    BY <1>0, <1>8 DEF HandleState, DocumentTold
<1>9. ASSUME NEW s \in Sessions, NEW i \in Info, HandleInfo(s, i)
      PROVE  OpenIsRegistered'
    BY <1>0, <1>9 DEF HandleInfo
<1>10. ASSUME NEW s \in Sessions, NEW i \in Info, HandleRecordedInfo(s, i)
      PROVE  OpenIsRegistered'
    BY <1>0, <1>10 DEF HandleRecordedInfo
<1>11. ASSUME NEW s \in Sessions, Described(s)
      PROVE  OpenIsRegistered'
    BY <1>0, <1>11 DEF Described
<1>12. ASSUME NEW s \in Sessions, Disconnect(s)
      PROVE  OpenIsRegistered'
    <2>1. SUFFICES ASSUME NEW t \in Sessions, pc'[t] \notin {"new", "gone"}, ~closed'[t]
                   PROVE  registry' = t
        OBVIOUS
    <2>2. CASE t = s
        BY <1>12, <1>0, <2>1, <2>2 DEF Disconnect, IsCurrent
    <2>3. CASE t # s
        <3>1. pc[t] \notin {"new", "gone"}
            BY <1>12, <1>0, <2>1, <2>3 DEF Disconnect, IsCurrent
        <3>2. QED
            BY <1>12, <1>0, <2>1, <2>3, <3>1 DEF Disconnect, IsCurrent
    <2>4. QED
        BY <2>2, <2>3
<1>13. ASSUME NEW s \in Sessions, NEW up \in BOOLEAN, HandleStatus(s, up)
      PROVE  OpenIsRegistered'
    BY <1>0, <1>13 DEF HandleStatus
<1>14. ASSUME NEW s \in Sessions, NEW up \in BOOLEAN, HandleStatusReply(s, up)
      PROVE  OpenIsRegistered'
    BY <1>0, <1>14 DEF HandleStatusReply
<1>15. CASE HaConnects
    BY <1>0, <1>15 DEF HaConnects
<1>16. CASE Subscribed
    BY <1>0, <1>16 DEF Subscribed, AvailabilityNow
<1>17. CASE Redescribed
    BY <1>0, <1>17 DEF Redescribed, AvailabilityNow
<1>18. CASE Reannounced
    BY <1>0, <1>18 DEF Reannounced
<1>19. CASE LinkLost
    BY <1>0, <1>19 DEF LinkLost
<1>20. CASE LinkBreaks
    BY <1>0, <1>20 DEF LinkBreaks
<1>21. CASE Cancel
    BY <1>0, <1>21 DEF Cancel, SaysOffline
<1>22. CASE HaLeaves
    BY <1>0, <1>22 DEF HaLeaves
<1>23. CASE ClientEnded
    BY <1>0, <1>23 DEF ClientEnded
<1>24. CASE RunStops
    BY <1>0, <1>24 DEF RunStops
<1>25. CASE SubscribeFails
    BY <1>0, <1>25 DEF SubscribeFails
<1>26. CASE UNCHANGED vars
    BY <1>0, <1>26
<1>27. QED
    BY <1>1, <1>2, <1>3, <1>4, <1>5, <1>6, <1>7, <1>8, <1>9, <1>10, <1>11,
       <1>12, <1>13, <1>14, <1>15, <1>16, <1>17, <1>18, <1>19, <1>20, <1>21,
       <1>22, <1>23, <1>24, <1>25, <1>26, NextCases

(***************************************************************************)
(* Every step keeps the client's part: only HaConnects publishes "online"  *)
(* and it brings the connection up, only a loss or a goodbye takes it down.*)
(***************************************************************************)
LEMMA ClientNext == ClientInv /\ [Next]_vars => (WillOrGoodbye /\ NotLeftOnline)'
<1> SUFFICES ASSUME ClientInv, [Next]_vars PROVE (WillOrGoodbye /\ NotLeftOnline)'
    OBVIOUS
<1> USE DEF vars, clientVars, history, WillOrGoodbye, NotLeftOnline, ClientInv,
        TypeOK, Published, HasClient
<1>1. ASSUME NEW s \in Sessions, ConnectFirst(s)
      PROVE  (WillOrGoodbye /\ NotLeftOnline)'
    BY <1>1 DEF ConnectFirst, Connects, Announces
<1>2. ASSUME NEW s \in Sessions, ConnectOver(s)
      PROVE  (WillOrGoodbye /\ NotLeftOnline)'
    BY <1>2 DEF ConnectOver, Connects
<1>3. ASSUME NEW s \in Sessions, PreviousClosed(s)
      PROVE  (WillOrGoodbye /\ NotLeftOnline)'
    BY <1>3 DEF PreviousClosed, Announces
<1>4. ASSUME NEW s \in Sessions, Discover(s)
      PROVE  (WillOrGoodbye /\ NotLeftOnline)'
    BY <1>4 DEF Discover, StartFallback
<1>5. ASSUME NEW s \in Sessions, Discovered(s)
      PROVE  (WillOrGoodbye /\ NotLeftOnline)'
    BY <1>5 DEF Discovered
<1>6. ASSUME NEW s \in Sessions, FallbackWakes(s)
      PROVE  (WillOrGoodbye /\ NotLeftOnline)'
    BY <1>6 DEF FallbackWakes
<1>7. ASSUME NEW s \in Sessions, FallbackPublished(s)
      PROVE  (WillOrGoodbye /\ NotLeftOnline)'
    BY <1>7 DEF FallbackPublished
<1>8. ASSUME NEW s \in Sessions, HandleState(s)
      PROVE  (WillOrGoodbye /\ NotLeftOnline)'
    BY <1>8 DEF HandleState, DocumentTold
<1>9. ASSUME NEW s \in Sessions, NEW i \in Info, HandleInfo(s, i)
      PROVE  (WillOrGoodbye /\ NotLeftOnline)'
    BY <1>9 DEF HandleInfo
<1>10. ASSUME NEW s \in Sessions, NEW i \in Info, HandleRecordedInfo(s, i)
      PROVE  (WillOrGoodbye /\ NotLeftOnline)'
    BY <1>10 DEF HandleRecordedInfo
<1>11. ASSUME NEW s \in Sessions, Described(s)
      PROVE  (WillOrGoodbye /\ NotLeftOnline)'
    BY <1>11 DEF Described
<1>12. ASSUME NEW s \in Sessions, Disconnect(s)
      PROVE  (WillOrGoodbye /\ NotLeftOnline)'
    BY <1>12 DEF Disconnect, IsCurrent, ShuttingDown
<1>13. ASSUME NEW s \in Sessions, NEW up \in BOOLEAN, HandleStatus(s, up)
      PROVE  (WillOrGoodbye /\ NotLeftOnline)'
    BY <1>13 DEF HandleStatus
<1>14. ASSUME NEW s \in Sessions, NEW up \in BOOLEAN, HandleStatusReply(s, up)
      PROVE  (WillOrGoodbye /\ NotLeftOnline)'
    BY <1>14 DEF HandleStatusReply
<1>15. CASE HaConnects
    BY <1>15 DEF HaConnects
<1>16. CASE Subscribed
    BY <1>16 DEF Subscribed, AvailabilityNow
<1>17. CASE Redescribed
    BY <1>17 DEF Redescribed, AvailabilityNow
<1>18. CASE Reannounced
    BY <1>18 DEF Reannounced
<1>19. CASE LinkLost
    BY <1>19 DEF LinkLost
<1>20. CASE LinkBreaks
    <2>1. bridgeTopic' # "online"
        BY <1>20, BridgeAssumption DEF LinkBreaks
    <2>2. ~link' /\ run' = run /\ ha' = ha
        BY <1>20 DEF LinkBreaks
    <2>3. cutShort' = cutShort
        BY <1>20 DEF LinkBreaks
    <2>4. QED
        BY <2>1, <2>2, <2>3
<1>21. CASE Cancel
    <2>1. link' = link /\ ha' = IF ha = "down" THEN "stopped" ELSE "leaving"
        BY <1>21 DEF Cancel
    <2>2. CASE ha \notin {"down", "messages"}
        <3>1. cutShort' /\ run' = "stopping"
            BY <1>21, <2>2 DEF Cancel
        <3>2. QED
            BY <2>1, <2>2, <3>1
    <2>3. CASE ha = "down"
        <3>1. bridgeTopic # "online" \/ cutShort
            BY <2>3
        <3>2. ha' = "stopped" /\ bridgeTopic' = bridgeTopic /\ cutShort' = cutShort
            BY <1>21, <2>3 DEF Cancel
        <3>3. QED
            BY <3>1, <3>2
    <2>4. CASE ha = "messages"
        <3>1. bridgeTopic' # "online" /\ run' = "stopping"
            BY <1>21, <2>4, BridgeAssumption DEF Cancel, SaysOffline
        <3>2. QED
            BY <2>1, <2>4, <3>1
    <2>5. QED
        BY <2>2, <2>3, <2>4
<1>22. CASE HaLeaves
    BY <1>22 DEF HaLeaves
<1>23. CASE ClientEnded
    BY <1>23 DEF ClientEnded
<1>24. CASE RunStops
    BY <1>24 DEF RunStops
<1>25. CASE SubscribeFails
    BY <1>25 DEF SubscribeFails
<1>26. CASE UNCHANGED vars
    BY <1>26
<1>27. QED
    BY <1>1, <1>2, <1>3, <1>4, <1>5, <1>6, <1>7, <1>8, <1>9, <1>10, <1>11,
       <1>12, <1>13, <1>14, <1>15, <1>16, <1>17, <1>18, <1>19, <1>20, <1>21,
       <1>22, <1>23, <1>24, <1>25, <1>26, NextCases

(***************************************************************************)
(* A connection always has its client, and a bridge that shuts down none.  *)
(***************************************************************************)
LEMMA LinkedNext ==
    TypeOK /\ Linked /\ [Next]_vars => Linked'
<1> SUFFICES ASSUME TypeOK /\ Linked, [Next]_vars PROVE Linked'
    OBVIOUS
<1> USE BridgeAssumption DEF vars, sessionVars, stateVars, clientVars, topicVars, history
<1> USE DEF Linked, HasClient, ShuttingDown
<1>1. ASSUME NEW s \in Sessions, ConnectFirst(s)
      PROVE  Linked'
    BY <1>1 DEF ConnectFirst, Connects, Announces
<1>2. ASSUME NEW s \in Sessions, ConnectOver(s)
      PROVE  Linked'
    BY <1>2 DEF ConnectOver, Connects
<1>3. ASSUME NEW s \in Sessions, PreviousClosed(s)
      PROVE  Linked'
    BY <1>3 DEF PreviousClosed, Announces
<1>4. ASSUME NEW s \in Sessions, Discover(s)
      PROVE  Linked'
    BY <1>4 DEF Discover, StartFallback
<1>5. ASSUME NEW s \in Sessions, Discovered(s)
      PROVE  Linked'
    BY <1>5 DEF Discovered
<1>6. ASSUME NEW s \in Sessions, FallbackWakes(s)
      PROVE  Linked'
    BY <1>6 DEF FallbackWakes
<1>7. ASSUME NEW s \in Sessions, FallbackPublished(s)
      PROVE  Linked'
    BY <1>7 DEF FallbackPublished
<1>8. ASSUME NEW s \in Sessions, HandleState(s)
      PROVE  Linked'
    BY <1>8 DEF HandleState, DocumentTold
<1>9. ASSUME NEW s \in Sessions, NEW i \in Info, HandleInfo(s, i)
      PROVE  Linked'
    BY <1>9 DEF HandleInfo
<1>10. ASSUME NEW s \in Sessions, NEW i \in Info, HandleRecordedInfo(s, i)
      PROVE  Linked'
    BY <1>10 DEF HandleRecordedInfo
<1>11. ASSUME NEW s \in Sessions, Described(s)
      PROVE  Linked'
    BY <1>11 DEF Described
<1>12. ASSUME NEW s \in Sessions, Disconnect(s)
      PROVE  Linked'
    BY <1>12 DEF Disconnect, IsCurrent
<1>13. ASSUME NEW s \in Sessions, NEW up \in BOOLEAN, HandleStatus(s, up)
      PROVE  Linked'
    BY <1>13 DEF HandleStatus
<1>14. ASSUME NEW s \in Sessions, NEW up \in BOOLEAN, HandleStatusReply(s, up)
      PROVE  Linked'
    BY <1>14 DEF HandleStatusReply
<1>15. CASE HaConnects
    BY <1>15 DEF HaConnects, NothingInFlight
<1>16. CASE Subscribed
    BY <1>16 DEF Subscribed, AvailabilityNow
<1>17. CASE Redescribed
    BY <1>17 DEF Redescribed, AvailabilityNow
<1>18. CASE Reannounced
    BY <1>18 DEF Reannounced
<1>19. CASE LinkLost
    BY <1>19 DEF LinkLost
<1>20. CASE LinkBreaks
    BY <1>20 DEF LinkBreaks
<1>21. CASE Cancel
    BY <1>21 DEF Cancel, SaysOffline
<1>22. CASE HaLeaves
    BY <1>22 DEF HaLeaves
<1>23. CASE ClientEnded
    BY <1>23 DEF ClientEnded
<1>24. CASE RunStops
    BY <1>24 DEF RunStops
<1>25. CASE SubscribeFails
    BY <1>25 DEF SubscribeFails
<1>26. CASE UNCHANGED vars
    BY <1>26
<1>27. QED
    BY <1>1, <1>2, <1>3, <1>4, <1>5, <1>6, <1>7, <1>8, <1>9, <1>10, <1>11,
       <1>12, <1>13, <1>14, <1>15, <1>16, <1>17, <1>18, <1>19, <1>20, <1>21,
       <1>22, <1>23, <1>24, <1>25, <1>26, NextCases

(***************************************************************************)
(* A handler gets past its announcement, and a timer starts, only for an   *)
(* appliance that is known, which it stays.                                *)
(***************************************************************************)
LEMMA KnownNext ==
    TypeOK /\ Linked /\ KnownFirst /\ [Next]_vars => KnownFirst'
<1> SUFFICES ASSUME TypeOK /\ Linked /\ KnownFirst, [Next]_vars PROVE KnownFirst'
    OBVIOUS
<1> USE BridgeAssumption DEF vars, sessionVars, stateVars, clientVars, topicVars, history
<1> USE DEF Linked, HasClient, ShuttingDown, KnownFirst, Remembering, TypeOK,
        Published, Status
<1>1. ASSUME NEW s \in Sessions, ConnectFirst(s)
      PROVE  KnownFirst'
    BY <1>1 DEF ConnectFirst, Connects, Announces
<1>2. ASSUME NEW s \in Sessions, ConnectOver(s)
      PROVE  KnownFirst'
    BY <1>2 DEF ConnectOver, Connects
<1>3. ASSUME NEW s \in Sessions, PreviousClosed(s)
      PROVE  KnownFirst'
    BY <1>3 DEF PreviousClosed, Announces
<1>4. ASSUME NEW s \in Sessions, Discover(s)
      PROVE  KnownFirst'
    BY <1>4 DEF Discover, StartFallback
<1>5. ASSUME NEW s \in Sessions, Discovered(s)
      PROVE  KnownFirst'
    BY <1>5 DEF Discovered
<1>6. ASSUME NEW s \in Sessions, FallbackWakes(s)
      PROVE  KnownFirst'
    BY <1>6 DEF FallbackWakes
<1>7. ASSUME NEW s \in Sessions, FallbackPublished(s)
      PROVE  KnownFirst'
    BY <1>7 DEF FallbackPublished
<1>8. ASSUME NEW s \in Sessions, HandleState(s)
      PROVE  KnownFirst'
    BY <1>8 DEF HandleState, DocumentTold
<1>9. ASSUME NEW s \in Sessions, NEW i \in Info, HandleInfo(s, i)
      PROVE  KnownFirst'
    BY <1>9 DEF HandleInfo
<1>10. ASSUME NEW s \in Sessions, NEW i \in Info, HandleRecordedInfo(s, i)
      PROVE  KnownFirst'
    BY <1>10 DEF HandleRecordedInfo
<1>11. ASSUME NEW s \in Sessions, Described(s)
      PROVE  KnownFirst'
    BY <1>11 DEF Described
<1>12. ASSUME NEW s \in Sessions, Disconnect(s)
      PROVE  KnownFirst'
    BY <1>12 DEF Disconnect, IsCurrent
<1>13. ASSUME NEW s \in Sessions, NEW up \in BOOLEAN, HandleStatus(s, up)
      PROVE  KnownFirst'
    BY <1>13 DEF HandleStatus
<1>14. ASSUME NEW s \in Sessions, NEW up \in BOOLEAN, HandleStatusReply(s, up)
      PROVE  KnownFirst'
    BY <1>14 DEF HandleStatusReply
<1>15. CASE HaConnects
    BY <1>15 DEF HaConnects, NothingInFlight
<1>16. CASE Subscribed
    BY <1>16 DEF Subscribed, AvailabilityNow
<1>17. CASE Redescribed
    BY <1>17 DEF Redescribed, AvailabilityNow
<1>18. CASE Reannounced
    BY <1>18 DEF Reannounced
<1>19. CASE LinkLost
    BY <1>19 DEF LinkLost
<1>20. CASE LinkBreaks
    BY <1>20 DEF LinkBreaks
<1>21. CASE Cancel
    BY <1>21 DEF Cancel, SaysOffline
<1>22. CASE HaLeaves
    BY <1>22 DEF HaLeaves
<1>23. CASE ClientEnded
    BY <1>23 DEF ClientEnded
<1>24. CASE RunStops
    BY <1>24 DEF RunStops
<1>25. CASE SubscribeFails
    BY <1>25 DEF SubscribeFails
<1>26. CASE UNCHANGED vars
    BY <1>26
<1>27. QED
    BY <1>1, <1>2, <1>3, <1>4, <1>5, <1>6, <1>7, <1>8, <1>9, <1>10, <1>11,
       <1>12, <1>13, <1>14, <1>15, <1>16, <1>17, <1>18, <1>19, <1>20, <1>21,
       <1>22, <1>23, <1>24, <1>25, <1>26, NextCases

(***************************************************************************)
(* What is published is what is remembered at that moment, and no step     *)
(* changes what is remembered without publishing it, or waiting to.        *)
(***************************************************************************)
LEMMA CurrentNext ==
    TypeOK /\ Linked /\ KnownFirst /\ Current /\ [Next]_vars => Current'
<1> SUFFICES ASSUME TypeOK /\ Linked /\ KnownFirst /\ Current, [Next]_vars PROVE Current'
    OBVIOUS
<1> USE BridgeAssumption DEF vars, sessionVars, stateVars, clientVars, topicVars, history
<1> USE DEF Linked, HasClient, ShuttingDown, KnownFirst, Remembering, TypeOK,
        Published, DocumentOf, Current, InFlight, Describing, Info
<1>1. ASSUME NEW s \in Sessions, ConnectFirst(s)
      PROVE  Current'
    BY <1>1 DEF ConnectFirst, Connects, Announces
<1>2. ASSUME NEW s \in Sessions, ConnectOver(s)
      PROVE  Current'
    BY <1>2 DEF ConnectOver, Connects
<1>3. ASSUME NEW s \in Sessions, PreviousClosed(s)
      PROVE  Current'
    BY <1>3 DEF PreviousClosed, Announces
<1>4. ASSUME NEW s \in Sessions, Discover(s)
      PROVE  Current'
    BY <1>4 DEF Discover, StartFallback
<1>5. ASSUME NEW s \in Sessions, Discovered(s)
      PROVE  Current'
    BY <1>5 DEF Discovered
<1>6. ASSUME NEW s \in Sessions, FallbackWakes(s)
      PROVE  Current'
    BY <1>6 DEF FallbackWakes
<1>7. ASSUME NEW s \in Sessions, FallbackPublished(s)
      PROVE  Current'
    BY <1>7 DEF FallbackPublished
<1>8. ASSUME NEW s \in Sessions, HandleState(s)
      PROVE  Current'
    BY <1>8 DEF HandleState, DocumentTold
<1>9. ASSUME NEW s \in Sessions, NEW i \in Info, HandleInfo(s, i)
      PROVE  Current'
    BY <1>9 DEF HandleInfo
<1>10. ASSUME NEW s \in Sessions, NEW i \in Info, HandleRecordedInfo(s, i)
      PROVE  Current'
    BY <1>10 DEF HandleRecordedInfo
<1>11. ASSUME NEW s \in Sessions, Described(s)
      PROVE  Current'
    BY <1>11 DEF Described
<1>12. ASSUME NEW s \in Sessions, Disconnect(s)
      PROVE  Current'
    BY <1>12 DEF Disconnect, IsCurrent
<1>13. ASSUME NEW s \in Sessions, NEW up \in BOOLEAN, HandleStatus(s, up)
      PROVE  Current'
    BY <1>13 DEF HandleStatus
<1>14. ASSUME NEW s \in Sessions, NEW up \in BOOLEAN, HandleStatusReply(s, up)
      PROVE  Current'
    BY <1>14 DEF HandleStatusReply
<1>15. CASE HaConnects
    BY <1>15 DEF HaConnects, NothingInFlight
<1>16. CASE Subscribed
    BY <1>16 DEF Subscribed, AvailabilityNow
<1>17. CASE Redescribed
    BY <1>17 DEF Redescribed, AvailabilityNow
<1>18. CASE Reannounced
    BY <1>18 DEF Reannounced
<1>19. CASE LinkLost
    BY <1>19 DEF LinkLost
<1>20. CASE LinkBreaks
    BY <1>20 DEF LinkBreaks
<1>21. CASE Cancel
    BY <1>21 DEF Cancel, SaysOffline
<1>22. CASE HaLeaves
    BY <1>22 DEF HaLeaves
<1>23. CASE ClientEnded
    BY <1>23 DEF ClientEnded
<1>24. CASE RunStops
    BY <1>24 DEF RunStops
<1>25. CASE SubscribeFails
    BY <1>25 DEF SubscribeFails
<1>26. CASE UNCHANGED vars
    BY <1>26
<1>27. QED
    BY <1>1, <1>2, <1>3, <1>4, <1>5, <1>6, <1>7, <1>8, <1>9, <1>10, <1>11,
       <1>12, <1>13, <1>14, <1>15, <1>16, <1>17, <1>18, <1>19, <1>20, <1>21,
       <1>22, <1>23, <1>24, <1>25, <1>26, NextCases

(***************************************************************************)
(* A session is registered, or its entry removed, in a step that publishes *)
(* what follows from it; a replacement leaves the appliance available.     *)
(***************************************************************************)
LEMMA AnnouncedNext ==
    TypeOK /\ Linked /\ KnownFirst /\ Announced /\ [Next]_vars => Announced'
<1> SUFFICES ASSUME TypeOK /\ Linked /\ KnownFirst /\ Announced, [Next]_vars PROVE Announced'
    OBVIOUS
<1> USE BridgeAssumption DEF vars, sessionVars, stateVars, clientVars, topicVars, history
<1> USE DEF Linked, HasClient, ShuttingDown, KnownFirst, TypeOK, Published, Status,
        Announced
<1>1. ASSUME NEW s \in Sessions, ConnectFirst(s)
      PROVE  Announced'
    BY <1>1 DEF ConnectFirst, Connects, Announces
<1>2. ASSUME NEW s \in Sessions, ConnectOver(s)
      PROVE  Announced'
    BY <1>2 DEF ConnectOver, Connects
<1>3. ASSUME NEW s \in Sessions, PreviousClosed(s)
      PROVE  Announced'
    BY <1>3 DEF PreviousClosed, Announces
<1>4. ASSUME NEW s \in Sessions, Discover(s)
      PROVE  Announced'
    BY <1>4 DEF Discover, StartFallback
<1>5. ASSUME NEW s \in Sessions, Discovered(s)
      PROVE  Announced'
    BY <1>5 DEF Discovered
<1>6. ASSUME NEW s \in Sessions, FallbackWakes(s)
      PROVE  Announced'
    BY <1>6 DEF FallbackWakes
<1>7. ASSUME NEW s \in Sessions, FallbackPublished(s)
      PROVE  Announced'
    BY <1>7 DEF FallbackPublished
<1>8. ASSUME NEW s \in Sessions, HandleState(s)
      PROVE  Announced'
    BY <1>8 DEF HandleState, DocumentTold
<1>9. ASSUME NEW s \in Sessions, NEW i \in Info, HandleInfo(s, i)
      PROVE  Announced'
    BY <1>9 DEF HandleInfo
<1>10. ASSUME NEW s \in Sessions, NEW i \in Info, HandleRecordedInfo(s, i)
      PROVE  Announced'
    BY <1>10 DEF HandleRecordedInfo
<1>11. ASSUME NEW s \in Sessions, Described(s)
      PROVE  Announced'
    BY <1>11 DEF Described
<1>12. ASSUME NEW s \in Sessions, Disconnect(s)
      PROVE  Announced'
    BY <1>12 DEF Disconnect, IsCurrent
<1>13. ASSUME NEW s \in Sessions, NEW up \in BOOLEAN, HandleStatus(s, up)
      PROVE  Announced'
    BY <1>13 DEF HandleStatus
<1>14. ASSUME NEW s \in Sessions, NEW up \in BOOLEAN, HandleStatusReply(s, up)
      PROVE  Announced'
    BY <1>14 DEF HandleStatusReply
<1>15. CASE HaConnects
    BY <1>15 DEF HaConnects, NothingInFlight
<1>16. CASE Subscribed
    BY <1>16 DEF Subscribed, AvailabilityNow
<1>17. CASE Redescribed
    BY <1>17 DEF Redescribed, AvailabilityNow
<1>18. CASE Reannounced
    BY <1>18 DEF Reannounced
<1>19. CASE LinkLost
    BY <1>19 DEF LinkLost
<1>20. CASE LinkBreaks
    BY <1>20 DEF LinkBreaks
<1>21. CASE Cancel
    BY <1>21 DEF Cancel, SaysOffline
<1>22. CASE HaLeaves
    BY <1>22 DEF HaLeaves
<1>23. CASE ClientEnded
    BY <1>23 DEF ClientEnded
<1>24. CASE RunStops
    BY <1>24 DEF RunStops
<1>25. CASE SubscribeFails
    BY <1>25 DEF SubscribeFails
<1>26. CASE UNCHANGED vars
    BY <1>26
<1>27. QED
    BY <1>1, <1>2, <1>3, <1>4, <1>5, <1>6, <1>7, <1>8, <1>9, <1>10, <1>11,
       <1>12, <1>13, <1>14, <1>15, <1>16, <1>17, <1>18, <1>19, <1>20, <1>21,
       <1>22, <1>23, <1>24, <1>25, <1>26, NextCases

LEMMA ShownNext == ShownInv /\ [Next]_vars => ShownInv'
BY TypeNext, LinkedNext, KnownNext, CurrentNext, AnnouncedNext DEF ShownInv

\* The invariants hold at first.
LEMMA InitInv == Init => TypeOK /\ OpenIsRegistered /\ ClientInv
<1> SUFFICES ASSUME Init PROVE TypeOK /\ OpenIsRegistered /\ ClientInv
    OBVIOUS
<1>1. TypeOK
    <2>1. known \in BOOLEAN /\ online \in BOOLEAN /\ link \in BOOLEAN
        BY DEF Init
    <2>2. told \in BOOLEAN /\ revived \in BOOLEAN
        BY DEF Init
    <2>5. overtaken \in BOOLEAN /\ cutShort \in BOOLEAN
        BY DEF Init
    <2>3. closed \in [Sessions -> BOOLEAN]
        BY DEF Init
    <2>4. QED
        BY <2>1, <2>2, <2>3, <2>5, BridgeAssumption DEF Init, TypeOK, Core, Info
<1>2. OpenIsRegistered
    BY DEF Init, OpenIsRegistered
<1>3. WillOrGoodbye /\ NotLeftOnline
    <2>1. ha = "down" /\ ~link /\ ~cutShort /\ run = "running" /\ bridgeTopic # "online"
        BY BridgeAssumption DEF Init
    <2>2. QED
        BY <2>1 DEF WillOrGoodbye, NotLeftOnline
<1>4. QED
    BY <1>1, <1>2, <1>3 DEF ClientInv

\* At first nothing is known, connected or shown.
LEMMA InitShown == Init => ShownInv
<1> SUFFICES ASSUME Init PROVE ShownInv
    OBVIOUS
<1>1. TypeOK
    BY InitInv
<1>2. Linked
    BY DEF Init, Linked, ShuttingDown
<1>3. KnownFirst
    <2>1. core = 0 /\ identity = None /\ registry = None /\ availability # "online"
        BY BridgeAssumption DEF Init
    <2>2. ASSUME NEW s \in Sessions PROVE ~Remembering(s)
        BY DEF Init, Remembering
    <2>3. QED
        BY <2>1, <2>2 DEF KnownFirst
<1>4. Current
    BY DEF Init, Current
<1>5. Announced
    BY DEF Init, Announced
<1>6. QED
    BY <1>1, <1>2, <1>3, <1>4, <1>5 DEF ShownInv

-----------------------------------------------------------------------------
(* The theorems *)

(***************************************************************************)
(* Every variable keeps its type.                                          *)
(***************************************************************************)
THEOREM BridgeTypeOK == Spec => []TypeOK
BY InitInv, TypeNext, PTL DEF Spec

(***************************************************************************)
(* However connects, replacements and late disconnects of one appliance    *)
(* are ordered, a session that is connected and was not told to close is   *)
(* the registered one (_on_device_connected, _on_device_disconnected).     *)
(***************************************************************************)
THEOREM BridgeOpenIsRegistered == Spec => []OpenIsRegistered
BY InitInv, OpenNext, BridgeTypeOK, PTL DEF Spec

(***************************************************************************)
(* A bridge that has no client is shown as offline, by its last will or    *)
(* its goodbye, unless the client left by a clean disconnect: stopped      *)
(* while it was being set up, or after a subscribe failed on a live link.  *)
(***************************************************************************)
THEOREM BridgeNotLeftOnline == Spec => []NotLeftOnline
<1>1. ClientInv /\ [Next]_vars => ClientInv'
    BY ClientNext, TypeNext DEF ClientInv
<1>2. ClientInv => NotLeftOnline
    BY DEF ClientInv
<1>3. QED
    BY <1>1, <1>2, InitInv, PTL DEF Spec

\* A quiet bridge shows what ShownInv says of it.
LEMMA ShownWhenQuiet == ShownInv => ShownIsCurrent /\ AvailabilityAgrees
<1> SUFFICES ASSUME ShownInv PROVE ShownIsCurrent /\ AvailabilityAgrees
    OBVIOUS
<1>1. Quiet => ~Describing
    BY DEF Quiet, Describing
<1>2. ShownIsCurrent
    BY <1>1 DEF ShownInv, Current, ShownIsCurrent, Quiet
<1>3. AvailabilityAgrees
    BY DEF ShownInv, Announced, AvailabilityAgrees, Quiet
<1>4. QED
    BY <1>2, <1>3

(***************************************************************************)
(* Once the broker is connected and no handler is about to publish, Home   *)
(* Assistant shows the appliance's state and device card as they were last *)
(* told, over any losses of the broker and its retained messages, for any  *)
(* number of sessions, states and cards.  A card stays stale only while    *)
(* the details on record are those of an older payload (bridge.py:210).    *)
(***************************************************************************)
THEOREM BridgeShownIsCurrent == Spec => []ShownIsCurrent
BY InitShown, ShownNext, ShownWhenQuiet, PTL DEF Spec

(***************************************************************************)
(* It shows the appliance as available if and only if it has a session,    *)
(* but for a status message of the appliance's own, and for a connect that *)
(* outlived both the session it replaced and the one that replaced it.     *)
(***************************************************************************)
THEOREM BridgeAvailabilityAgrees == Spec => []AvailabilityAgrees
BY InitShown, ShownNext, ShownWhenQuiet, PTL DEF Spec
=============================================================================
