------------------------ MODULE DeviceSession_proofs ------------------------
(***************************************************************************)
(* Proofs about DeviceSession, for any sets of request packets.            *)
(***************************************************************************)
EXTENDS DeviceSession, TLAPS

-----------------------------------------------------------------------------
(* Type correctness *)

LEMMA InitTypeOK == Init => TypeOK
BY DEF Init, TypeOK, FlagsOK, CountersOK, PacketsOK, Packet, Relayer

(***************************************************************************)
(* The flags each shared step leaves typed.                                *)
(***************************************************************************)
LEMMA PacketDoneFlags ==
    ASSUME accepted \in BOOLEAN, PacketDone PROVE accepted' \in BOOLEAN
BY DEF PacketDone

LEMMA DetachFlags ==
    ASSUME NEW t, DetachAndOwe(t) PROVE attached' \in BOOLEAN
BY DEF DetachAndOwe

LEMMA CloseFlags ==
    ASSUME NEW t, Close(t) PROVE closed' = TRUE /\ attached' = FALSE
BY DEF Close

LEMMA LoopClosesFlags ==
    ASSUME FlagsOK, LoopCloses
    PROVE  closed' \in BOOLEAN /\ attached' \in BOOLEAN
<1>1. CASE Close("loop") /\ loop' = "closing"
  BY <1>1, CloseFlags
<1>2. CASE UNCHANGED <<closeVars, attached, pump, retry>>
  BY <1>2 DEF FlagsOK, closeVars
<1> QED BY <1>1, <1>2 DEF LoopCloses

LEMMA StepFlagsOK == TypeOK /\ [Next]_vars => FlagsOK'
<1> SUFFICES ASSUME TypeOK, [Next]_vars PROVE FlagsOK'
  OBVIOUS
<1> USE DEF TypeOK, FlagsOK, loopVars, pumpVars, retryVars,
        closeVars, lifeVars, linkVars, owedVars, devVars, history
<1>1. ASSUME NEW p \in Packet, Receive(p) PROVE FlagsOK'
  BY <1>1 DEF Receive
<1>2. ASSUME NEW r \in Request, PumpRelays(r) PROVE FlagsOK'
  BY <1>2 DEF PumpRelays, StrikeFromLedger, SendToDevice
<1>3. CASE RejectPacket
  BY <1>3, LoopClosesFlags DEF RejectPacket
<1>4. CASE RefuseConnect
  BY <1>4 DEF RefuseConnect, SendToDevice
<1>5. CASE CloseAfterRefusal
  BY <1>5, LoopClosesFlags DEF CloseAfterRefusal
<1>6. CASE AdmitConnect
  BY <1>6 DEF AdmitConnect, SendToDevice
<1>7. CASE UpstreamOpened
  BY <1>7 DEF UpstreamOpened, RecordPendingAck, Request
<1>8. CASE UpstreamUnreachable
  BY <1>8 DEF UpstreamUnreachable, MaybeStartRelayRetry, SendToDevice
<1>9. CASE ObservePublish
  BY <1>9 DEF ObservePublish
<1>10. CASE DropPacket
  BY <1>10 DEF DropPacket, NextPacket
<1>11. CASE ForwardUpstream
  BY <1>11 DEF ForwardUpstream, RecordPendingAck
<1>12. CASE AnswerLocally
  <2>1. CASE SendToDevice(packet) /\ UNCHANGED <<closeVars, attached>>
    BY <1>12, <2>1 DEF AnswerLocally, SendToDevice
  <2>2. CASE LoopCloses /\ UNCHANGED devVars
    BY <1>12, <2>2, LoopClosesFlags DEF AnswerLocally
  <2>3. CASE UNCHANGED <<devVars, closeVars, attached>>
    BY <1>12, <2>3 DEF AnswerLocally
  <2> QED BY <1>12, <2>1, <2>2, <2>3 DEF AnswerLocally
<1>13. CASE SendReturns
  BY <1>13, PacketDoneFlags DEF SendReturns
<1>14. CASE SendFails
  <2>1. CASE attached /\ DetachAndOwe("loop") /\ UNCHANGED accepted
    BY <1>14, <2>1, DetachFlags DEF SendFails
  <2>2. CASE PacketDone /\ UNCHANGED attached
    BY <1>14, <2>2, PacketDoneFlags DEF SendFails
  <2> QED BY <1>14, <2>1, <2>2 DEF SendFails
<1>15. CASE CallbackReturns
  BY <1>15 DEF CallbackReturns, NextPacket
<1>16. CASE LoopCloseReturns
  BY <1>16 DEF LoopCloseReturns, NextPacket
<1>17. CASE SocketEnds
  BY <1>17 DEF SocketEnds
<1>18. CASE FinalClose
  <2>1. UNCHANGED <<more, refusal, refused, connectSeen, keepalive, accepted, fired,
                    deviceOpen, stray, late, cloudRefused>>
    BY <1>18 DEF FinalClose
  <2>2. closed' \in BOOLEAN /\ attached' \in BOOLEAN
    BY <1>18, CloseFlags DEF FinalClose
  <2> QED BY <2>1, <2>2
<1>19. CASE TellDisconnected
  BY <1>19 DEF TellDisconnected, OwesDisconnected
<1>20. CASE RunReturns
  BY <1>20 DEF RunReturns
<1>21. CASE LoopAnswers
  BY <1>21 DEF LoopAnswers, AnswerOne, SendToDevice
<1>22. CASE LoopDropsUpstream
  BY <1>22 DEF LoopDropsUpstream
<1>23. CASE LoopFallsBack
  BY <1>23, PacketDoneFlags DEF LoopFallsBack
<1>24. CASE LoopDropFails
  BY <1>24 DEF LoopDropFails
<1>25. CASE PumpAnswers
  BY <1>25 DEF PumpAnswers, AnswerOne, SendToDevice
<1>26. CASE PumpDropsUpstream
  BY <1>26 DEF PumpDropsUpstream
<1>27. CASE PumpFallsBack
  <2>1. refused' \in BOOLEAN
    BY <1>27 DEF PumpFallsBack
  <2>2. UNCHANGED <<more, refusal, closed, connectSeen, keepalive, accepted, fired,
                    attached, deviceOpen, stray, late, cloudRefused>>
    BY <1>27 DEF PumpFallsBack
  <2> QED BY <2>1, <2>2
<1>28. CASE PumpDropFails
  BY <1>28 DEF PumpDropFails
<1>29. CASE PumpStarts
  BY <1>29 DEF PumpStarts
<1>30. CASE PumpSendReturns
  BY <1>30 DEF PumpSendReturns
<1>31. CASE PumpRefusal
  <2>1. CASE DetachAndOwe("pump") /\ refusal' = TRUE
    BY <1>31, <2>1, DetachFlags DEF PumpRefusal
  <2>2. CASE UNCHANGED <<attached, refusal>>
    BY <1>31, <2>2 DEF PumpRefusal
  <2> QED BY <1>31, <2>1, <2>2 DEF PumpRefusal
<1>32. CASE PumpSeesEnd
  BY <1>32 DEF PumpSeesEnd
<1>33. CASE PumpEnds
  <2>1. CASE DetachAndOwe("pump")
    BY <1>33, <2>1, DetachFlags DEF PumpEnds
  <2>2. CASE UNCHANGED attached
    BY <1>33, <2>2 DEF PumpEnds
  <2> QED BY <1>33, <2>1, <2>2 DEF PumpEnds
<1>34. CASE RetryWakes
  BY <1>34 DEF RetryWakes
<1>35. CASE ProbeFails
  BY <1>35 DEF ProbeFails
<1>36. CASE ProbeSucceeds
  <2>1. UNCHANGED <<more, refusal, refused, connectSeen, keepalive, accepted, fired,
                    deviceOpen, stray, late, cloudRefused>>
    BY <1>36 DEF ProbeSucceeds
  <2>2. closed' \in BOOLEAN /\ attached' \in BOOLEAN
    BY <1>36, CloseFlags DEF ProbeSucceeds
  <2> QED BY <2>1, <2>2
<1>37. CASE WatchdogFires
  <2>1. UNCHANGED <<more, refusal, refused, connectSeen, keepalive, accepted, fired,
                    deviceOpen, stray, late, cloudRefused>>
    BY <1>37 DEF WatchdogFires
  <2>2. closed' \in BOOLEAN /\ attached' \in BOOLEAN
    BY <1>37, CloseFlags DEF WatchdogFires
  <2> QED BY <2>1, <2>2
<1>38. CASE BridgeCloses
  <2>1. UNCHANGED <<more, refusal, refused, connectSeen, keepalive, accepted, fired,
                    deviceOpen, stray, late, cloudRefused>>
    BY <1>38 DEF BridgeCloses
  <2>2. closed' \in BOOLEAN /\ attached' \in BOOLEAN
    BY <1>38, CloseFlags DEF BridgeCloses
  <2> QED BY <2>1, <2>2
<1>39. CASE CloseUpstream
  BY <1>39 DEF CloseUpstream
<1>40. CASE CloseDevice
  <2>1. UNCHANGED <<more, refusal, refused, closed, connectSeen, keepalive, accepted,
                    fired, attached, stray, late, cloudRefused>>
    BY <1>40 DEF CloseDevice
  <2>2. deviceOpen' \in BOOLEAN
    BY <1>40 DEF CloseDevice
  <2> QED BY <2>1, <2>2
<1>41. CASE RetryCloseReturns
  BY <1>41 DEF RetryCloseReturns
<1>42. CASE DeviceHangsUp
  <2>1. UNCHANGED <<more, refusal, refused, closed, connectSeen, keepalive, accepted,
                    fired, attached, stray, late, cloudRefused>>
    BY <1>42 DEF DeviceHangsUp
  <2>2. deviceOpen' \in BOOLEAN
    BY <1>42 DEF DeviceHangsUp
  <2> QED BY <2>1, <2>2
<1>43. CASE LinkBreaks
  BY <1>43 DEF LinkBreaks
<1>44. CASE UNCHANGED vars
  BY <1>44 DEF vars
<1>45. CASE LoopCloseFails
  BY <1>45 DEF LoopCloseFails
<1>46. CASE ProbeCloseFails
  BY <1>46 DEF ProbeCloseFails
<1> QED
  BY <1>1, <1>2, <1>3, <1>4, <1>5, <1>6, <1>7, <1>8, <1>9, <1>10, <1>11,
     <1>12, <1>13, <1>14, <1>15, <1>16, <1>17, <1>18, <1>19, <1>20, <1>21,
     <1>22, <1>23, <1>24, <1>25, <1>26, <1>27, <1>28, <1>29, <1>30, <1>31,
     <1>32, <1>33, <1>34, <1>35, <1>36, <1>37, <1>38, <1>39, <1>40, <1>41,
     <1>42, <1>43, <1>44, <1>45, <1>46
     DEF Next, LoopStep, PumpStep, CloserStep, RetryStep, Environment, Finished

LEMMA StepCountersOK == TypeOK /\ [Next]_vars => CountersOK'
<1> SUFFICES ASSUME TypeOK, [Next]_vars PROVE CountersOK'
  OBVIOUS
<1> USE DEF TypeOK, FlagsOK, CountersOK, PacketsOK, Relayer, loopVars, pumpVars,
        retryVars, closeVars, lifeVars, linkVars, owedVars, devVars, history
<1>1. ASSUME NEW p \in Packet, Receive(p) PROVE CountersOK'
  BY <1>1 DEF Receive
<1>2. ASSUME NEW r \in Request, PumpRelays(r) PROVE CountersOK'
  BY <1>2 DEF PumpRelays, StrikeFromLedger, SendToDevice
<1>3. CASE RejectPacket
  BY <1>3 DEF RejectPacket, LoopCloses, Close, PumpOutlivesClose, NextPacket
<1>4. CASE RefuseConnect
  BY <1>4 DEF RefuseConnect, SendToDevice
<1>5. CASE CloseAfterRefusal
  BY <1>5 DEF CloseAfterRefusal, LoopCloses, Close, PumpOutlivesClose, NextPacket
<1>6. CASE AdmitConnect
  BY <1>6 DEF AdmitConnect, SendToDevice
<1>7. CASE UpstreamOpened
  BY <1>7 DEF UpstreamOpened, RecordPendingAck, Request
<1>8. CASE UpstreamUnreachable
  BY <1>8 DEF UpstreamUnreachable, MaybeStartRelayRetry, SendToDevice
<1>9. CASE ObservePublish
  BY <1>9 DEF ObservePublish
<1>10. CASE DropPacket
  BY <1>10 DEF DropPacket, NextPacket
<1>11. CASE ForwardUpstream
  BY <1>11 DEF ForwardUpstream, RecordPendingAck
<1>12. CASE AnswerLocally
  BY <1>12 DEF AnswerLocally, LoopCloses, Close, PumpOutlivesClose, NextPacket, SendToDevice
<1>13. CASE SendReturns
  BY <1>13 DEF SendReturns, PacketDone, NextPacket
<1>14. CASE SendFails
  BY <1>14 DEF SendFails, DetachAndOwe, PacketDone, NextPacket
<1>15. CASE CallbackReturns
  BY <1>15 DEF CallbackReturns, NextPacket
<1>16. CASE LoopCloseReturns
  BY <1>16 DEF LoopCloseReturns, NextPacket
<1>17. CASE SocketEnds
  BY <1>17 DEF SocketEnds
<1>18. CASE FinalClose
  BY <1>18 DEF FinalClose, Close, PumpOutlivesClose
<1>19. CASE TellDisconnected
  BY <1>19 DEF TellDisconnected, OwesDisconnected
<1>20. CASE RunReturns
  BY <1>20 DEF RunReturns
<1>21. CASE LoopAnswers
  BY <1>21 DEF LoopAnswers, AnswerOne, SendToDevice
<1>22. CASE LoopDropsUpstream
  BY <1>22 DEF LoopDropsUpstream
<1>23. CASE LoopFallsBack
  BY <1>23 DEF LoopFallsBack, MaybeStartRelayRetry, PacketDone, NextPacket
<1>24. CASE LoopDropFails
  BY <1>24 DEF LoopDropFails
<1>25. CASE PumpAnswers
  BY <1>25 DEF PumpAnswers, AnswerOne, SendToDevice
<1>26. CASE PumpDropsUpstream
  BY <1>26 DEF PumpDropsUpstream
<1>27. CASE PumpFallsBack
  BY <1>27 DEF PumpFallsBack, MaybeStartRelayRetry
<1>28. CASE PumpDropFails
  BY <1>28 DEF PumpDropFails
<1>29. CASE PumpStarts
  BY <1>29 DEF PumpStarts
<1>30. CASE PumpSendReturns
  BY <1>30 DEF PumpSendReturns
<1>31. CASE PumpRefusal
  BY <1>31 DEF PumpRefusal, DetachAndOwe
<1>32. CASE PumpSeesEnd
  BY <1>32 DEF PumpSeesEnd
<1>33. CASE PumpEnds
  BY <1>33 DEF PumpEnds, DetachAndOwe
<1>34. CASE RetryWakes
  BY <1>34 DEF RetryWakes
<1>35. CASE ProbeFails
  BY <1>35 DEF ProbeFails
<1>36. CASE ProbeSucceeds
  BY <1>36 DEF ProbeSucceeds, Close, PumpOutlivesClose
<1>37. CASE WatchdogFires
  BY <1>37 DEF WatchdogFires, Close, PumpOutlivesClose
<1>38. CASE BridgeCloses
  BY <1>38 DEF BridgeCloses, Close, PumpOutlivesClose
<1>39. CASE CloseUpstream
  BY <1>39 DEF CloseUpstream
<1>40. CASE CloseDevice
  BY <1>40 DEF CloseDevice
<1>41. CASE RetryCloseReturns
  BY <1>41 DEF RetryCloseReturns
<1>42. CASE DeviceHangsUp
  BY <1>42 DEF DeviceHangsUp
<1>43. CASE LinkBreaks
  BY <1>43 DEF LinkBreaks
<1>44. CASE UNCHANGED vars
  BY <1>44 DEF vars
<1>45. CASE LoopCloseFails
  BY <1>45 DEF LoopCloseFails
<1>46. CASE ProbeCloseFails
  BY <1>46 DEF ProbeCloseFails
<1> QED
  BY <1>1, <1>2, <1>3, <1>4, <1>5, <1>6, <1>7, <1>8, <1>9, <1>10, <1>11,
     <1>12, <1>13, <1>14, <1>15, <1>16, <1>17, <1>18, <1>19, <1>20, <1>21,
     <1>22, <1>23, <1>24, <1>25, <1>26, <1>27, <1>28, <1>29, <1>30, <1>31,
     <1>32, <1>33, <1>34, <1>35, <1>36, <1>37, <1>38, <1>39, <1>40, <1>41,
     <1>42, <1>43, <1>44, <1>45, <1>46
     DEF Next, LoopStep, PumpStep, CloserStep, RetryStep, Environment, Finished

LEMMA QuietIsAPacket == Quiet \in Packet
BY DEF Packet

LEMMA StepPacketsOK == TypeOK /\ [Next]_vars => PacketsOK'
<1> SUFFICES ASSUME TypeOK, [Next]_vars PROVE PacketsOK'
  OBVIOUS
<1> USE DEF TypeOK, FlagsOK, CountersOK, PacketsOK, Relayer, loopVars, pumpVars,
        retryVars, closeVars, lifeVars, linkVars, owedVars, devVars, history
<1>1. ASSUME NEW p \in Packet, Receive(p) PROVE PacketsOK'
  BY <1>1 DEF Receive
<1>2. ASSUME NEW r \in Request, PumpRelays(r) PROVE PacketsOK'
  BY <1>2 DEF PumpRelays, StrikeFromLedger, SendToDevice
<1>3. CASE RejectPacket
  BY <1>3, QuietIsAPacket
     DEF RejectPacket, LoopCloses, Close, PumpOutlivesClose, NextPacket
<1>4. CASE RefuseConnect
  BY <1>4 DEF RefuseConnect, SendToDevice
<1>5. CASE CloseAfterRefusal
  BY <1>5, QuietIsAPacket
     DEF CloseAfterRefusal, LoopCloses, Close, PumpOutlivesClose, NextPacket
<1>6. CASE AdmitConnect
  BY <1>6 DEF AdmitConnect, SendToDevice
<1>7. CASE UpstreamOpened
  BY <1>7 DEF UpstreamOpened, RecordPendingAck, Request
<1>8. CASE UpstreamUnreachable
  BY <1>8 DEF UpstreamUnreachable, MaybeStartRelayRetry, SendToDevice
<1>9. CASE ObservePublish
  BY <1>9 DEF ObservePublish
<1>10. CASE DropPacket
  BY <1>10, QuietIsAPacket DEF DropPacket, NextPacket
<1>11. CASE ForwardUpstream
  BY <1>11 DEF ForwardUpstream, RecordPendingAck
<1>12. CASE AnswerLocally
  BY <1>12, QuietIsAPacket
     DEF AnswerLocally, LoopCloses, Close, PumpOutlivesClose, NextPacket, SendToDevice
<1>13. CASE SendReturns
  BY <1>13, QuietIsAPacket DEF SendReturns, PacketDone, NextPacket
<1>14. CASE SendFails
  BY <1>14, QuietIsAPacket DEF SendFails, DetachAndOwe, PacketDone, NextPacket
<1>15. CASE CallbackReturns
  BY <1>15, QuietIsAPacket DEF CallbackReturns, NextPacket
<1>16. CASE LoopCloseReturns
  BY <1>16, QuietIsAPacket DEF LoopCloseReturns, NextPacket
<1>17. CASE SocketEnds
  BY <1>17 DEF SocketEnds
<1>18. CASE FinalClose
  BY <1>18 DEF FinalClose, Close, PumpOutlivesClose
<1>19. CASE TellDisconnected
  BY <1>19 DEF TellDisconnected, OwesDisconnected
<1>20. CASE RunReturns
  BY <1>20 DEF RunReturns
<1>21. CASE LoopAnswers
  BY <1>21 DEF LoopAnswers, AnswerOne, SendToDevice
<1>22. CASE LoopDropsUpstream
  BY <1>22 DEF LoopDropsUpstream
<1>23. CASE LoopFallsBack
  BY <1>23, QuietIsAPacket DEF LoopFallsBack, MaybeStartRelayRetry, PacketDone, NextPacket
<1>24. CASE LoopDropFails
  BY <1>24 DEF LoopDropFails
<1>25. CASE PumpAnswers
  BY <1>25 DEF PumpAnswers, AnswerOne, SendToDevice
<1>26. CASE PumpDropsUpstream
  BY <1>26 DEF PumpDropsUpstream
<1>27. CASE PumpFallsBack
  BY <1>27 DEF PumpFallsBack, MaybeStartRelayRetry
<1>28. CASE PumpDropFails
  BY <1>28 DEF PumpDropFails
<1>29. CASE PumpStarts
  BY <1>29 DEF PumpStarts
<1>30. CASE PumpSendReturns
  BY <1>30 DEF PumpSendReturns
<1>31. CASE PumpRefusal
  BY <1>31 DEF PumpRefusal, DetachAndOwe
<1>32. CASE PumpSeesEnd
  BY <1>32 DEF PumpSeesEnd
<1>33. CASE PumpEnds
  BY <1>33 DEF PumpEnds, DetachAndOwe
<1>34. CASE RetryWakes
  BY <1>34 DEF RetryWakes
<1>35. CASE ProbeFails
  BY <1>35 DEF ProbeFails
<1>36. CASE ProbeSucceeds
  BY <1>36 DEF ProbeSucceeds, Close, PumpOutlivesClose
<1>37. CASE WatchdogFires
  BY <1>37 DEF WatchdogFires, Close, PumpOutlivesClose
<1>38. CASE BridgeCloses
  BY <1>38 DEF BridgeCloses, Close, PumpOutlivesClose
<1>39. CASE CloseUpstream
  BY <1>39 DEF CloseUpstream
<1>40. CASE CloseDevice
  BY <1>40 DEF CloseDevice
<1>41. CASE RetryCloseReturns
  BY <1>41 DEF RetryCloseReturns
<1>42. CASE DeviceHangsUp
  BY <1>42 DEF DeviceHangsUp
<1>43. CASE LinkBreaks
  BY <1>43 DEF LinkBreaks
<1>44. CASE UNCHANGED vars
  BY <1>44 DEF vars
<1>45. CASE LoopCloseFails
  BY <1>45 DEF LoopCloseFails
<1>46. CASE ProbeCloseFails
  BY <1>46 DEF ProbeCloseFails
<1> QED
  BY <1>1, <1>2, <1>3, <1>4, <1>5, <1>6, <1>7, <1>8, <1>9, <1>10, <1>11,
     <1>12, <1>13, <1>14, <1>15, <1>16, <1>17, <1>18, <1>19, <1>20, <1>21,
     <1>22, <1>23, <1>24, <1>25, <1>26, <1>27, <1>28, <1>29, <1>30, <1>31,
     <1>32, <1>33, <1>34, <1>35, <1>36, <1>37, <1>38, <1>39, <1>40, <1>41,
     <1>42, <1>43, <1>44, <1>45, <1>46
     DEF Next, LoopStep, PumpStep, CloserStep, RetryStep, Environment, Finished

LEMMA StepTypeOK == TypeOK /\ [Next]_vars => TypeOK'
BY StepFlagsOK, StepCountersOK, StepPacketsOK DEF TypeOK

(***************************************************************************)
(* Every variable of a session keeps its type, whatever the tasks, the     *)
(* appliance and the cloud do.                                             *)
(***************************************************************************)
THEOREM SessionTypeOK == Spec => []TypeOK
BY InitTypeOK, StepTypeOK, PTL DEF Spec

-----------------------------------------------------------------------------
(* No request is forgotten *)

LEMMA InitRequestInv == Init => RequestInv
BY InitTypeOK DEF Init, RequestInv, FreshUntilOpened, PacketInHand,
   LedgerNeedsUpstream,
   NoRequestForgotten, Relayer

LEMMA StepFresh ==
    RequestInv /\ [Next]_vars => FreshUntilOpened'
<1> SUFFICES ASSUME RequestInv, [Next]_vars PROVE FreshUntilOpened'
  OBVIOUS
<1> USE DEF RequestInv, FreshUntilOpened, PacketInHand, TypeOK, FlagsOK,
        CountersOK, PacketsOK, Relayer, MustReject, relaying, FirstOf, loopVars,
        pumpVars, retryVars, closeVars, lifeVars, linkVars, owedVars, devVars,
        history
<1>1. ASSUME NEW p \in Packet, Receive(p) PROVE FreshUntilOpened'
  BY <1>1 DEF Receive
<1>2. ASSUME NEW r \in Request, PumpRelays(r) PROVE FreshUntilOpened'
  BY <1>2 DEF PumpRelays, StrikeFromLedger, SendToDevice
<1>3. CASE RejectPacket
  BY <1>3 DEF RejectPacket, LoopCloses, Close, PumpOutlivesClose, NextPacket
<1>4. CASE RefuseConnect
  BY <1>4 DEF RefuseConnect, SendToDevice
<1>5. CASE CloseAfterRefusal
  BY <1>5 DEF CloseAfterRefusal, LoopCloses, Close, PumpOutlivesClose, NextPacket
<1>6. CASE AdmitConnect
  BY <1>6 DEF AdmitConnect, SendToDevice
<1>7. CASE UpstreamOpened
  BY <1>7 DEF UpstreamOpened, RecordPendingAck, Request
<1>8. CASE UpstreamUnreachable
  BY <1>8 DEF UpstreamUnreachable, MaybeStartRelayRetry, SendToDevice
<1>9. CASE ObservePublish
  BY <1>9 DEF ObservePublish
<1>10. CASE DropPacket
  BY <1>10 DEF DropPacket, NextPacket
<1>11. CASE ForwardUpstream
  BY <1>11 DEF ForwardUpstream, RecordPendingAck
<1>12. CASE AnswerLocally
  BY <1>12 DEF AnswerLocally, LoopCloses, Close, PumpOutlivesClose, NextPacket, SendToDevice
<1>13. CASE SendReturns
  BY <1>13 DEF SendReturns, PacketDone, NextPacket
<1>14. CASE SendFails
  BY <1>14 DEF SendFails, DetachAndOwe, PacketDone, NextPacket
<1>15. CASE CallbackReturns
  BY <1>15 DEF CallbackReturns, NextPacket
<1>16. CASE LoopCloseReturns
  BY <1>16 DEF LoopCloseReturns, NextPacket
<1>17. CASE SocketEnds
  BY <1>17 DEF SocketEnds
<1>18. CASE FinalClose
  BY <1>18 DEF FinalClose, Close, PumpOutlivesClose
<1>19. CASE TellDisconnected
  BY <1>19 DEF TellDisconnected, OwesDisconnected
<1>20. CASE RunReturns
  BY <1>20 DEF RunReturns
<1>21. CASE LoopAnswers
  BY <1>21 DEF LoopAnswers, AnswerOne, SendToDevice
<1>22. CASE LoopDropsUpstream
  BY <1>22 DEF LoopDropsUpstream
<1>23. CASE LoopFallsBack
  BY <1>23 DEF LoopFallsBack, MaybeStartRelayRetry, PacketDone, NextPacket
<1>24. CASE LoopDropFails
  BY <1>24 DEF LoopDropFails
<1>25. CASE PumpAnswers
  BY <1>25 DEF PumpAnswers, AnswerOne, SendToDevice
<1>26. CASE PumpDropsUpstream
  BY <1>26 DEF PumpDropsUpstream
<1>27. CASE PumpFallsBack
  BY <1>27 DEF PumpFallsBack, MaybeStartRelayRetry
<1>28. CASE PumpDropFails
  BY <1>28 DEF PumpDropFails
<1>29. CASE PumpStarts
  BY <1>29 DEF PumpStarts
<1>30. CASE PumpSendReturns
  BY <1>30 DEF PumpSendReturns
<1>31. CASE PumpRefusal
  BY <1>31 DEF PumpRefusal, DetachAndOwe
<1>32. CASE PumpSeesEnd
  BY <1>32 DEF PumpSeesEnd
<1>33. CASE PumpEnds
  BY <1>33 DEF PumpEnds, DetachAndOwe
<1>34. CASE RetryWakes
  BY <1>34 DEF RetryWakes
<1>35. CASE ProbeFails
  BY <1>35 DEF ProbeFails
<1>36. CASE ProbeSucceeds
  BY <1>36 DEF ProbeSucceeds, Close, PumpOutlivesClose
<1>37. CASE WatchdogFires
  BY <1>37 DEF WatchdogFires, Close, PumpOutlivesClose
<1>38. CASE BridgeCloses
  BY <1>38 DEF BridgeCloses, Close, PumpOutlivesClose
<1>39. CASE CloseUpstream
  BY <1>39 DEF CloseUpstream
<1>40. CASE CloseDevice
  BY <1>40 DEF CloseDevice
<1>41. CASE RetryCloseReturns
  BY <1>41 DEF RetryCloseReturns
<1>42. CASE DeviceHangsUp
  BY <1>42 DEF DeviceHangsUp
<1>43. CASE LinkBreaks
  BY <1>43 DEF LinkBreaks
<1>44. CASE UNCHANGED vars
  BY <1>44 DEF vars
<1>45. CASE LoopCloseFails
  BY <1>45 DEF LoopCloseFails
<1>46. CASE ProbeCloseFails
  BY <1>46 DEF ProbeCloseFails
<1> QED
  BY <1>1, <1>2, <1>3, <1>4, <1>5, <1>6, <1>7, <1>8, <1>9, <1>10, <1>11,
     <1>12, <1>13, <1>14, <1>15, <1>16, <1>17, <1>18, <1>19, <1>20, <1>21,
     <1>22, <1>23, <1>24, <1>25, <1>26, <1>27, <1>28, <1>29, <1>30, <1>31,
     <1>32, <1>33, <1>34, <1>35, <1>36, <1>37, <1>38, <1>39, <1>40, <1>41,
     <1>42, <1>43, <1>44, <1>45, <1>46
     DEF Next, LoopStep, PumpStep, CloserStep, RetryStep, Environment, Finished

LEMMA StepPacketInHand ==
    RequestInv /\ [Next]_vars => PacketInHand'
<1> SUFFICES ASSUME RequestInv, [Next]_vars PROVE PacketInHand'
  OBVIOUS
<1> USE DEF RequestInv, PacketInHand, TypeOK, FlagsOK, CountersOK, PacketsOK,
        Relayer, MustReject, loopVars, pumpVars, retryVars, closeVars, lifeVars,
        linkVars, owedVars, devVars, history
<1>1. ASSUME NEW p \in Packet, Receive(p) PROVE PacketInHand'
  BY <1>1 DEF Receive
<1>2. ASSUME NEW r \in Request, PumpRelays(r) PROVE PacketInHand'
  BY <1>2 DEF PumpRelays, StrikeFromLedger, SendToDevice
<1>3. CASE RejectPacket
  BY <1>3 DEF RejectPacket, LoopCloses, Close, PumpOutlivesClose, NextPacket
<1>4. CASE RefuseConnect
  BY <1>4 DEF RefuseConnect, SendToDevice
<1>5. CASE CloseAfterRefusal
  BY <1>5 DEF CloseAfterRefusal, LoopCloses, Close, PumpOutlivesClose, NextPacket
<1>6. CASE AdmitConnect
  BY <1>6 DEF AdmitConnect, SendToDevice
<1>7. CASE UpstreamOpened
  BY <1>7 DEF UpstreamOpened, RecordPendingAck, Request
<1>8. CASE UpstreamUnreachable
  BY <1>8 DEF UpstreamUnreachable, MaybeStartRelayRetry, SendToDevice
<1>9. CASE ObservePublish
  BY <1>9 DEF ObservePublish
<1>10. CASE DropPacket
  BY <1>10 DEF DropPacket, NextPacket
<1>11. CASE ForwardUpstream
  BY <1>11 DEF ForwardUpstream, RecordPendingAck
<1>12. CASE AnswerLocally
  BY <1>12 DEF AnswerLocally, LoopCloses, Close, PumpOutlivesClose, NextPacket, SendToDevice
<1>13. CASE SendReturns
  BY <1>13 DEF SendReturns, PacketDone, NextPacket
<1>14. CASE SendFails
  BY <1>14 DEF SendFails, DetachAndOwe, PacketDone, NextPacket
<1>15. CASE CallbackReturns
  BY <1>15 DEF CallbackReturns, NextPacket
<1>16. CASE LoopCloseReturns
  BY <1>16 DEF LoopCloseReturns, NextPacket
<1>17. CASE SocketEnds
  BY <1>17 DEF SocketEnds
<1>18. CASE FinalClose
  BY <1>18 DEF FinalClose, Close, PumpOutlivesClose
<1>19. CASE TellDisconnected
  BY <1>19 DEF TellDisconnected, OwesDisconnected
<1>20. CASE RunReturns
  BY <1>20 DEF RunReturns
<1>21. CASE LoopAnswers
  BY <1>21 DEF LoopAnswers, AnswerOne, SendToDevice
<1>22. CASE LoopDropsUpstream
  BY <1>22 DEF LoopDropsUpstream
<1>23. CASE LoopFallsBack
  BY <1>23 DEF LoopFallsBack, MaybeStartRelayRetry, PacketDone, NextPacket
<1>24. CASE LoopDropFails
  BY <1>24 DEF LoopDropFails
<1>25. CASE PumpAnswers
  BY <1>25 DEF PumpAnswers, AnswerOne, SendToDevice
<1>26. CASE PumpDropsUpstream
  BY <1>26 DEF PumpDropsUpstream
<1>27. CASE PumpFallsBack
  BY <1>27 DEF PumpFallsBack, MaybeStartRelayRetry
<1>28. CASE PumpDropFails
  BY <1>28 DEF PumpDropFails
<1>29. CASE PumpStarts
  BY <1>29 DEF PumpStarts
<1>30. CASE PumpSendReturns
  BY <1>30 DEF PumpSendReturns
<1>31. CASE PumpRefusal
  BY <1>31 DEF PumpRefusal, DetachAndOwe
<1>32. CASE PumpSeesEnd
  BY <1>32 DEF PumpSeesEnd
<1>33. CASE PumpEnds
  BY <1>33 DEF PumpEnds, DetachAndOwe
<1>34. CASE RetryWakes
  BY <1>34 DEF RetryWakes
<1>35. CASE ProbeFails
  BY <1>35 DEF ProbeFails
<1>36. CASE ProbeSucceeds
  BY <1>36 DEF ProbeSucceeds, Close, PumpOutlivesClose
<1>37. CASE WatchdogFires
  BY <1>37 DEF WatchdogFires, Close, PumpOutlivesClose
<1>38. CASE BridgeCloses
  BY <1>38 DEF BridgeCloses, Close, PumpOutlivesClose
<1>39. CASE CloseUpstream
  BY <1>39 DEF CloseUpstream
<1>40. CASE CloseDevice
  BY <1>40 DEF CloseDevice
<1>41. CASE RetryCloseReturns
  BY <1>41 DEF RetryCloseReturns
<1>42. CASE DeviceHangsUp
  BY <1>42 DEF DeviceHangsUp
<1>43. CASE LinkBreaks
  BY <1>43 DEF LinkBreaks
<1>44. CASE UNCHANGED vars
  BY <1>44 DEF vars
<1>45. CASE LoopCloseFails
  BY <1>45 DEF LoopCloseFails
<1>46. CASE ProbeCloseFails
  BY <1>46 DEF ProbeCloseFails
<1> QED
  BY <1>1, <1>2, <1>3, <1>4, <1>5, <1>6, <1>7, <1>8, <1>9, <1>10, <1>11,
     <1>12, <1>13, <1>14, <1>15, <1>16, <1>17, <1>18, <1>19, <1>20, <1>21,
     <1>22, <1>23, <1>24, <1>25, <1>26, <1>27, <1>28, <1>29, <1>30, <1>31,
     <1>32, <1>33, <1>34, <1>35, <1>36, <1>37, <1>38, <1>39, <1>40, <1>41,
     <1>42, <1>43, <1>44, <1>45, <1>46
     DEF Next, LoopStep, PumpStep, CloserStep, RetryStep, Environment, Finished

LEMMA StepLedger ==
    RequestInv /\ [Next]_vars => LedgerNeedsUpstream'
<1> SUFFICES ASSUME RequestInv, [Next]_vars PROVE LedgerNeedsUpstream'
  OBVIOUS
<1> USE DEF RequestInv, LedgerNeedsUpstream, FreshUntilOpened, TypeOK, FlagsOK,
        CountersOK, PacketsOK, Relayer, relaying, FirstOf, RecordPendingAck,
        loopVars, pumpVars, retryVars, closeVars, lifeVars, linkVars, owedVars,
        devVars, history
<1>1. ASSUME NEW p \in Packet, Receive(p) PROVE LedgerNeedsUpstream'
  BY <1>1 DEF Receive
<1>2. ASSUME NEW r \in Request, PumpRelays(r) PROVE LedgerNeedsUpstream'
  BY <1>2 DEF PumpRelays, StrikeFromLedger, SendToDevice
<1>3. CASE RejectPacket
  BY <1>3 DEF RejectPacket, LoopCloses, Close, PumpOutlivesClose, NextPacket
<1>4. CASE RefuseConnect
  BY <1>4 DEF RefuseConnect, SendToDevice
<1>5. CASE CloseAfterRefusal
  BY <1>5 DEF CloseAfterRefusal, LoopCloses, Close, PumpOutlivesClose, NextPacket
<1>6. CASE AdmitConnect
  BY <1>6 DEF AdmitConnect, SendToDevice
<1>7. CASE UpstreamOpened
  BY <1>7 DEF UpstreamOpened, RecordPendingAck, Request
<1>8. CASE UpstreamUnreachable
  BY <1>8 DEF UpstreamUnreachable, MaybeStartRelayRetry, SendToDevice
<1>9. CASE ObservePublish
  BY <1>9 DEF ObservePublish
<1>10. CASE DropPacket
  BY <1>10 DEF DropPacket, NextPacket
<1>11. CASE ForwardUpstream
  BY <1>11 DEF ForwardUpstream, RecordPendingAck
<1>12. CASE AnswerLocally
  BY <1>12 DEF AnswerLocally, LoopCloses, Close, PumpOutlivesClose, NextPacket, SendToDevice
<1>13. CASE SendReturns
  BY <1>13 DEF SendReturns, PacketDone, NextPacket
<1>14. CASE SendFails
  BY <1>14 DEF SendFails, DetachAndOwe, PacketDone, NextPacket
<1>15. CASE CallbackReturns
  BY <1>15 DEF CallbackReturns, NextPacket
<1>16. CASE LoopCloseReturns
  BY <1>16 DEF LoopCloseReturns, NextPacket
<1>17. CASE SocketEnds
  BY <1>17 DEF SocketEnds
<1>18. CASE FinalClose
  BY <1>18 DEF FinalClose, Close, PumpOutlivesClose
<1>19. CASE TellDisconnected
  BY <1>19 DEF TellDisconnected, OwesDisconnected
<1>20. CASE RunReturns
  BY <1>20 DEF RunReturns
<1>21. CASE LoopAnswers
  BY <1>21 DEF LoopAnswers, AnswerOne, SendToDevice
<1>22. CASE LoopDropsUpstream
  BY <1>22 DEF LoopDropsUpstream
<1>23. CASE LoopFallsBack
  BY <1>23 DEF LoopFallsBack, MaybeStartRelayRetry, PacketDone, NextPacket
<1>24. CASE LoopDropFails
  BY <1>24 DEF LoopDropFails
<1>25. CASE PumpAnswers
  BY <1>25 DEF PumpAnswers, AnswerOne, SendToDevice
<1>26. CASE PumpDropsUpstream
  BY <1>26 DEF PumpDropsUpstream
<1>27. CASE PumpFallsBack
  BY <1>27 DEF PumpFallsBack, MaybeStartRelayRetry
<1>28. CASE PumpDropFails
  BY <1>28 DEF PumpDropFails
<1>29. CASE PumpStarts
  BY <1>29 DEF PumpStarts
<1>30. CASE PumpSendReturns
  BY <1>30 DEF PumpSendReturns
<1>31. CASE PumpRefusal
  BY <1>31 DEF PumpRefusal, DetachAndOwe
<1>32. CASE PumpSeesEnd
  BY <1>32 DEF PumpSeesEnd
<1>33. CASE PumpEnds
  BY <1>33 DEF PumpEnds, DetachAndOwe
<1>34. CASE RetryWakes
  BY <1>34 DEF RetryWakes
<1>35. CASE ProbeFails
  BY <1>35 DEF ProbeFails
<1>36. CASE ProbeSucceeds
  BY <1>36 DEF ProbeSucceeds, Close, PumpOutlivesClose
<1>37. CASE WatchdogFires
  BY <1>37 DEF WatchdogFires, Close, PumpOutlivesClose
<1>38. CASE BridgeCloses
  BY <1>38 DEF BridgeCloses, Close, PumpOutlivesClose
<1>39. CASE CloseUpstream
  BY <1>39 DEF CloseUpstream
<1>40. CASE CloseDevice
  BY <1>40 DEF CloseDevice
<1>41. CASE RetryCloseReturns
  BY <1>41 DEF RetryCloseReturns
<1>42. CASE DeviceHangsUp
  BY <1>42 DEF DeviceHangsUp
<1>43. CASE LinkBreaks
  BY <1>43 DEF LinkBreaks
<1>44. CASE UNCHANGED vars
  BY <1>44 DEF vars
<1>45. CASE LoopCloseFails
  BY <1>45 DEF LoopCloseFails
<1>46. CASE ProbeCloseFails
  BY <1>46 DEF ProbeCloseFails
<1> QED
  BY <1>1, <1>2, <1>3, <1>4, <1>5, <1>6, <1>7, <1>8, <1>9, <1>10, <1>11,
     <1>12, <1>13, <1>14, <1>15, <1>16, <1>17, <1>18, <1>19, <1>20, <1>21,
     <1>22, <1>23, <1>24, <1>25, <1>26, <1>27, <1>28, <1>29, <1>30, <1>31,
     <1>32, <1>33, <1>34, <1>35, <1>36, <1>37, <1>38, <1>39, <1>40, <1>41,
     <1>42, <1>43, <1>44, <1>45, <1>46
     DEF Next, LoopStep, PumpStep, CloserStep, RetryStep, Environment, Finished

LEMMA StepForgotten ==
    RequestInv /\ [Next]_vars => NoRequestForgotten'
<1> SUFFICES ASSUME RequestInv, [Next]_vars PROVE NoRequestForgotten'
  OBVIOUS
<1> USE PacketsDiffer DEF RequestInv, NoRequestForgotten, LedgerNeedsUpstream,
        FreshUntilOpened, PacketInHand, InHand, BeingAnswered, TypeOK, FlagsOK,
        CountersOK, PacketsOK, Relayer, relaying, MustReject, ToRoute, FirstOf,
        RecordPendingAck, Request, Packet, loopVars, pumpVars, retryVars,
        closeVars, lifeVars, linkVars, owedVars, devVars, history
<1>1. ASSUME NEW p \in Packet, Receive(p) PROVE NoRequestForgotten'
  BY <1>1 DEF Receive
<1>2. ASSUME NEW r \in Request, PumpRelays(r) PROVE NoRequestForgotten'
  BY <1>2 DEF PumpRelays, StrikeFromLedger, SendToDevice
<1>3. CASE RejectPacket
  BY <1>3 DEF RejectPacket, LoopCloses, Close, PumpOutlivesClose, NextPacket
<1>4. CASE RefuseConnect
  BY <1>4 DEF RefuseConnect, SendToDevice
<1>5. CASE CloseAfterRefusal
  BY <1>5 DEF CloseAfterRefusal, LoopCloses, Close, PumpOutlivesClose, NextPacket
<1>6. CASE AdmitConnect
  BY <1>6 DEF AdmitConnect, SendToDevice
<1>7. CASE UpstreamOpened
  BY <1>7 DEF UpstreamOpened, RecordPendingAck, Request
<1>8. CASE UpstreamUnreachable
  BY <1>8 DEF UpstreamUnreachable, MaybeStartRelayRetry, SendToDevice
<1>9. CASE ObservePublish
  BY <1>9 DEF ObservePublish
<1>10. CASE DropPacket
  BY <1>10 DEF DropPacket, NextPacket
<1>11. CASE ForwardUpstream
  BY <1>11 DEF ForwardUpstream, RecordPendingAck
<1>12. CASE AnswerLocally
  <2>1. CASE packet \in Request /\ SendToDevice(packet) /\ loop' = "sent"
             /\ UNCHANGED <<closeVars, attached, pump, retry>>
    BY <1>12, <2>1 DEF AnswerLocally, SendToDevice
  <2>2. CASE packet = Disconnect /\ LoopCloses /\ UNCHANGED devVars
    <3>1. CASE Close("loop")
      BY <3>1 DEF Close, PumpOutlivesClose
    <3>2. CASE closed /\ UNCHANGED <<closeVars, attached, pump, retry>>
      BY <3>2
    <3> QED BY <2>2, <3>1, <3>2 DEF LoopCloses
  <2>3. CASE packet = Quiet /\ NextPacket
             /\ UNCHANGED <<devVars, closeVars, attached, pump, retry>>
    BY <1>12, <2>3 DEF AnswerLocally, NextPacket
  <2> QED BY <1>12, <2>1, <2>2, <2>3 DEF AnswerLocally
<1>13. CASE SendReturns
  BY <1>13 DEF SendReturns, PacketDone, NextPacket
<1>14. CASE SendFails
  BY <1>14 DEF SendFails, DetachAndOwe, PacketDone, NextPacket
<1>15. CASE CallbackReturns
  BY <1>15 DEF CallbackReturns, NextPacket
<1>16. CASE LoopCloseReturns
  BY <1>16 DEF LoopCloseReturns, NextPacket
<1>17. CASE SocketEnds
  BY <1>17 DEF SocketEnds
<1>18. CASE FinalClose
  BY <1>18 DEF FinalClose, Close, PumpOutlivesClose
<1>19. CASE TellDisconnected
  BY <1>19 DEF TellDisconnected, OwesDisconnected
<1>20. CASE RunReturns
  BY <1>20 DEF RunReturns
<1>21. CASE LoopAnswers
  BY <1>21 DEF LoopAnswers, AnswerOne, SendToDevice
<1>22. CASE LoopDropsUpstream
  BY <1>22 DEF LoopDropsUpstream
<1>23. CASE LoopFallsBack
  BY <1>23 DEF LoopFallsBack, MaybeStartRelayRetry, PacketDone, NextPacket
<1>24. CASE LoopDropFails
  BY <1>24 DEF LoopDropFails
<1>25. CASE PumpAnswers
  BY <1>25 DEF PumpAnswers, AnswerOne, SendToDevice
<1>26. CASE PumpDropsUpstream
  BY <1>26 DEF PumpDropsUpstream
<1>27. CASE PumpFallsBack
  BY <1>27 DEF PumpFallsBack, MaybeStartRelayRetry
<1>28. CASE PumpDropFails
  BY <1>28 DEF PumpDropFails
<1>29. CASE PumpStarts
  BY <1>29 DEF PumpStarts
<1>30. CASE PumpSendReturns
  BY <1>30 DEF PumpSendReturns
<1>31. CASE PumpRefusal
  BY <1>31 DEF PumpRefusal, DetachAndOwe
<1>32. CASE PumpSeesEnd
  BY <1>32 DEF PumpSeesEnd
<1>33. CASE PumpEnds
  BY <1>33 DEF PumpEnds, DetachAndOwe
<1>34. CASE RetryWakes
  BY <1>34 DEF RetryWakes
<1>35. CASE ProbeFails
  BY <1>35 DEF ProbeFails
<1>36. CASE ProbeSucceeds
  BY <1>36 DEF ProbeSucceeds, Close, PumpOutlivesClose
<1>37. CASE WatchdogFires
  BY <1>37 DEF WatchdogFires, Close, PumpOutlivesClose
<1>38. CASE BridgeCloses
  BY <1>38 DEF BridgeCloses, Close, PumpOutlivesClose
<1>39. CASE CloseUpstream
  BY <1>39 DEF CloseUpstream
<1>40. CASE CloseDevice
  BY <1>40 DEF CloseDevice
<1>41. CASE RetryCloseReturns
  BY <1>41 DEF RetryCloseReturns
<1>42. CASE DeviceHangsUp
  BY <1>42 DEF DeviceHangsUp
<1>43. CASE LinkBreaks
  BY <1>43 DEF LinkBreaks
<1>44. CASE UNCHANGED vars
  BY <1>44 DEF vars
<1>45. CASE LoopCloseFails
  BY <1>45 DEF LoopCloseFails
<1>46. CASE ProbeCloseFails
  BY <1>46 DEF ProbeCloseFails
<1> QED
  BY <1>1, <1>2, <1>3, <1>4, <1>5, <1>6, <1>7, <1>8, <1>9, <1>10, <1>11,
     <1>12, <1>13, <1>14, <1>15, <1>16, <1>17, <1>18, <1>19, <1>20, <1>21,
     <1>22, <1>23, <1>24, <1>25, <1>26, <1>27, <1>28, <1>29, <1>30, <1>31,
     <1>32, <1>33, <1>34, <1>35, <1>36, <1>37, <1>38, <1>39, <1>40, <1>41,
     <1>42, <1>43, <1>44, <1>45, <1>46
     DEF Next, LoopStep, PumpStep, CloserStep, RetryStep, Environment, Finished

LEMMA StepRequestInv == RequestInv /\ [Next]_vars => RequestInv'
<1> SUFFICES ASSUME RequestInv, [Next]_vars PROVE RequestInv'
  OBVIOUS
<1>1. TypeOK'
  BY StepTypeOK DEF RequestInv
<1> QED
  BY <1>1, StepFresh, StepPacketInHand, StepLedger, StepForgotten DEF RequestInv

LEMMA RequestInvHolds == Spec => []RequestInv
BY InitRequestInv, StepRequestInv, PTL DEF Spec

(***************************************************************************)
(* While the session is open every unanswered request is owed by somebody  *)
(* who will answer it (NoRequestForgotten), for any packets and any set of *)
(* PUBLISHes in another appliance's name, which alone go unanswered.       *)
(***************************************************************************)
THEOREM SessionForgetsNoRequest == Spec => []NoRequestForgotten
<1>1. RequestInv => NoRequestForgotten
  BY DEF RequestInv
<1> QED
  BY RequestInvHolds, <1>1, PTL

(***************************************************************************)
(* The ledger and the answers under way have one debtor                    *)
(* (LedgerNeedsUpstream), however the fallbacks race.                      *)
(***************************************************************************)
THEOREM SessionLedgerNeedsUpstream == Spec => []LedgerNeedsUpstream
<1>1. RequestInv => LedgerNeedsUpstream
  BY DEF RequestInv
<1> QED
  BY RequestInvHolds, <1>1, PTL

-----------------------------------------------------------------------------
(* Strays *)

LEMMA StepOneDebtor ==
    AnswerInv /\ [Next]_vars => OneDebtor'
<1> SUFFICES ASSUME AnswerInv, [Next]_vars PROVE OneDebtor'
  OBVIOUS
<1> USE DEF AnswerInv, OneDebtor, RequestInv, FreshUntilOpened, PacketInHand,
        TypeOK, FlagsOK, CountersOK, PacketsOK, Relayer, MustReject, relaying,
        FirstOf, loopVars, pumpVars, retryVars, closeVars, lifeVars, linkVars,
        owedVars, devVars, history
<1>1. ASSUME NEW p \in Packet, Receive(p) PROVE OneDebtor'
  BY <1>1 DEF Receive
<1>2. ASSUME NEW r \in Request, PumpRelays(r) PROVE OneDebtor'
  BY <1>2 DEF PumpRelays, StrikeFromLedger, SendToDevice
<1>3. CASE RejectPacket
  BY <1>3 DEF RejectPacket, LoopCloses, Close, PumpOutlivesClose, NextPacket
<1>4. CASE RefuseConnect
  BY <1>4 DEF RefuseConnect, SendToDevice
<1>5. CASE CloseAfterRefusal
  BY <1>5 DEF CloseAfterRefusal, LoopCloses, Close, PumpOutlivesClose, NextPacket
<1>6. CASE AdmitConnect
  BY <1>6 DEF AdmitConnect, SendToDevice
<1>7. CASE UpstreamOpened
  BY <1>7 DEF UpstreamOpened, RecordPendingAck, Request
<1>8. CASE UpstreamUnreachable
  BY <1>8 DEF UpstreamUnreachable, MaybeStartRelayRetry, SendToDevice
<1>9. CASE ObservePublish
  BY <1>9 DEF ObservePublish
<1>10. CASE DropPacket
  BY <1>10 DEF DropPacket, NextPacket
<1>11. CASE ForwardUpstream
  BY <1>11 DEF ForwardUpstream, RecordPendingAck
<1>12. CASE AnswerLocally
  BY <1>12 DEF AnswerLocally, LoopCloses, Close, PumpOutlivesClose, NextPacket, SendToDevice
<1>13. CASE SendReturns
  BY <1>13 DEF SendReturns, PacketDone, NextPacket
<1>14. CASE SendFails
  BY <1>14 DEF SendFails, DetachAndOwe, PacketDone, NextPacket
<1>15. CASE CallbackReturns
  BY <1>15 DEF CallbackReturns, NextPacket
<1>16. CASE LoopCloseReturns
  BY <1>16 DEF LoopCloseReturns, NextPacket
<1>17. CASE SocketEnds
  BY <1>17 DEF SocketEnds
<1>18. CASE FinalClose
  BY <1>18 DEF FinalClose, Close, PumpOutlivesClose
<1>19. CASE TellDisconnected
  BY <1>19 DEF TellDisconnected, OwesDisconnected
<1>20. CASE RunReturns
  BY <1>20 DEF RunReturns
<1>21. CASE LoopAnswers
  BY <1>21 DEF LoopAnswers, AnswerOne, SendToDevice
<1>22. CASE LoopDropsUpstream
  BY <1>22 DEF LoopDropsUpstream
<1>23. CASE LoopFallsBack
  BY <1>23 DEF LoopFallsBack, MaybeStartRelayRetry, PacketDone, NextPacket
<1>24. CASE LoopDropFails
  BY <1>24 DEF LoopDropFails
<1>25. CASE PumpAnswers
  BY <1>25 DEF PumpAnswers, AnswerOne, SendToDevice
<1>26. CASE PumpDropsUpstream
  BY <1>26 DEF PumpDropsUpstream
<1>27. CASE PumpFallsBack
  BY <1>27 DEF PumpFallsBack, MaybeStartRelayRetry
<1>28. CASE PumpDropFails
  BY <1>28 DEF PumpDropFails
<1>29. CASE PumpStarts
  BY <1>29 DEF PumpStarts
<1>30. CASE PumpSendReturns
  BY <1>30 DEF PumpSendReturns
<1>31. CASE PumpRefusal
  BY <1>31 DEF PumpRefusal, DetachAndOwe
<1>32. CASE PumpSeesEnd
  BY <1>32 DEF PumpSeesEnd
<1>33. CASE PumpEnds
  BY <1>33 DEF PumpEnds, DetachAndOwe
<1>34. CASE RetryWakes
  BY <1>34 DEF RetryWakes
<1>35. CASE ProbeFails
  BY <1>35 DEF ProbeFails
<1>36. CASE ProbeSucceeds
  BY <1>36 DEF ProbeSucceeds, Close, PumpOutlivesClose
<1>37. CASE WatchdogFires
  BY <1>37 DEF WatchdogFires, Close, PumpOutlivesClose
<1>38. CASE BridgeCloses
  BY <1>38 DEF BridgeCloses, Close, PumpOutlivesClose
<1>39. CASE CloseUpstream
  BY <1>39 DEF CloseUpstream
<1>40. CASE CloseDevice
  BY <1>40 DEF CloseDevice
<1>41. CASE RetryCloseReturns
  BY <1>41 DEF RetryCloseReturns
<1>42. CASE DeviceHangsUp
  BY <1>42 DEF DeviceHangsUp
<1>43. CASE LinkBreaks
  BY <1>43 DEF LinkBreaks
<1>44. CASE UNCHANGED vars
  BY <1>44 DEF vars
<1>45. CASE LoopCloseFails
  BY <1>45 DEF LoopCloseFails
<1>46. CASE ProbeCloseFails
  BY <1>46 DEF ProbeCloseFails
<1> QED
  BY <1>1, <1>2, <1>3, <1>4, <1>5, <1>6, <1>7, <1>8, <1>9, <1>10, <1>11,
     <1>12, <1>13, <1>14, <1>15, <1>16, <1>17, <1>18, <1>19, <1>20, <1>21,
     <1>22, <1>23, <1>24, <1>25, <1>26, <1>27, <1>28, <1>29, <1>30, <1>31,
     <1>32, <1>33, <1>34, <1>35, <1>36, <1>37, <1>38, <1>39, <1>40, <1>41,
     <1>42, <1>43, <1>44, <1>45, <1>46
     DEF Next, LoopStep, PumpStep, CloserStep, RetryStep, Environment, Finished

LEMMA StepPumpIsAttached ==
    AnswerInv /\ [Next]_vars => PumpIsAttached'
<1> SUFFICES ASSUME AnswerInv, [Next]_vars PROVE PumpIsAttached'
  OBVIOUS
<1> USE FlagsAreBoolean DEF AnswerInv, PumpIsAttached, RequestInv,
        FreshUntilOpened, PacketInHand, TypeOK, FlagsOK, CountersOK, PacketsOK,
        Relayer, MustReject, relaying, loopVars, pumpVars, retryVars, closeVars,
        lifeVars, linkVars, owedVars, devVars, history
<1>1. ASSUME NEW p \in Packet, Receive(p) PROVE PumpIsAttached'
  BY <1>1 DEF Receive
<1>2. ASSUME NEW r \in Request, PumpRelays(r) PROVE PumpIsAttached'
  BY <1>2 DEF PumpRelays, StrikeFromLedger, SendToDevice
<1>3. CASE RejectPacket
  BY <1>3 DEF RejectPacket, LoopCloses, Close, PumpOutlivesClose, NextPacket
<1>4. CASE RefuseConnect
  BY <1>4 DEF RefuseConnect, SendToDevice
<1>5. CASE CloseAfterRefusal
  BY <1>5 DEF CloseAfterRefusal, LoopCloses, Close, PumpOutlivesClose, NextPacket
<1>6. CASE AdmitConnect
  BY <1>6 DEF AdmitConnect, SendToDevice
<1>7. CASE UpstreamOpened
  BY <1>7 DEF UpstreamOpened, RecordPendingAck, Request
<1>8. CASE UpstreamUnreachable
  BY <1>8 DEF UpstreamUnreachable, MaybeStartRelayRetry, SendToDevice
<1>9. CASE ObservePublish
  BY <1>9 DEF ObservePublish
<1>10. CASE DropPacket
  BY <1>10 DEF DropPacket, NextPacket
<1>11. CASE ForwardUpstream
  BY <1>11 DEF ForwardUpstream, RecordPendingAck
<1>12. CASE AnswerLocally
  BY <1>12 DEF AnswerLocally, LoopCloses, Close, PumpOutlivesClose, NextPacket, SendToDevice
<1>13. CASE SendReturns
  BY <1>13 DEF SendReturns, PacketDone, NextPacket
<1>14. CASE SendFails
  BY <1>14 DEF SendFails, DetachAndOwe, PacketDone, NextPacket
<1>15. CASE CallbackReturns
  BY <1>15 DEF CallbackReturns, NextPacket
<1>16. CASE LoopCloseReturns
  BY <1>16 DEF LoopCloseReturns, NextPacket
<1>17. CASE SocketEnds
  BY <1>17 DEF SocketEnds
<1>18. CASE FinalClose
  BY <1>18 DEF FinalClose, Close, PumpOutlivesClose
<1>19. CASE TellDisconnected
  BY <1>19 DEF TellDisconnected, OwesDisconnected
<1>20. CASE RunReturns
  BY <1>20 DEF RunReturns
<1>21. CASE LoopAnswers
  BY <1>21 DEF LoopAnswers, AnswerOne, SendToDevice
<1>22. CASE LoopDropsUpstream
  BY <1>22 DEF LoopDropsUpstream
<1>23. CASE LoopFallsBack
  BY <1>23 DEF LoopFallsBack, MaybeStartRelayRetry, PacketDone, NextPacket
<1>24. CASE LoopDropFails
  BY <1>24 DEF LoopDropFails
<1>25. CASE PumpAnswers
  BY <1>25 DEF PumpAnswers, AnswerOne, SendToDevice
<1>26. CASE PumpDropsUpstream
  BY <1>26 DEF PumpDropsUpstream
<1>27. CASE PumpFallsBack
  BY <1>27 DEF PumpFallsBack, MaybeStartRelayRetry
<1>28. CASE PumpDropFails
  BY <1>28 DEF PumpDropFails
<1>29. CASE PumpStarts
  BY <1>29 DEF PumpStarts
<1>30. CASE PumpSendReturns
  BY <1>30 DEF PumpSendReturns
<1>31. CASE PumpRefusal
  BY <1>31 DEF PumpRefusal, DetachAndOwe
<1>32. CASE PumpSeesEnd
  BY <1>32 DEF PumpSeesEnd
<1>33. CASE PumpEnds
  BY <1>33 DEF PumpEnds, DetachAndOwe
<1>34. CASE RetryWakes
  BY <1>34 DEF RetryWakes
<1>35. CASE ProbeFails
  BY <1>35 DEF ProbeFails
<1>36. CASE ProbeSucceeds
  BY <1>36 DEF ProbeSucceeds, Close, PumpOutlivesClose
<1>37. CASE WatchdogFires
  BY <1>37 DEF WatchdogFires, Close, PumpOutlivesClose
<1>38. CASE BridgeCloses
  BY <1>38 DEF BridgeCloses, Close, PumpOutlivesClose
<1>39. CASE CloseUpstream
  BY <1>39 DEF CloseUpstream
<1>40. CASE CloseDevice
  BY <1>40 DEF CloseDevice
<1>41. CASE RetryCloseReturns
  BY <1>41 DEF RetryCloseReturns
<1>42. CASE DeviceHangsUp
  BY <1>42 DEF DeviceHangsUp
<1>43. CASE LinkBreaks
  BY <1>43 DEF LinkBreaks
<1>44. CASE UNCHANGED vars
  BY <1>44 DEF vars
<1>45. CASE LoopCloseFails
  BY <1>45 DEF LoopCloseFails
<1>46. CASE ProbeCloseFails
  BY <1>46 DEF ProbeCloseFails
<1> QED
  BY <1>1, <1>2, <1>3, <1>4, <1>5, <1>6, <1>7, <1>8, <1>9, <1>10, <1>11,
     <1>12, <1>13, <1>14, <1>15, <1>16, <1>17, <1>18, <1>19, <1>20, <1>21,
     <1>22, <1>23, <1>24, <1>25, <1>26, <1>27, <1>28, <1>29, <1>30, <1>31,
     <1>32, <1>33, <1>34, <1>35, <1>36, <1>37, <1>38, <1>39, <1>40, <1>41,
     <1>42, <1>43, <1>44, <1>45, <1>46
     DEF Next, LoopStep, PumpStep, CloserStep, RetryStep, Environment, Finished

LEMMA StepOwedIsAwaited ==
    AnswerInv /\ [Next]_vars => (~late => ~stray /\ OwedIsAwaited /\ HandIsItsOwn)'
<1> SUFFICES ASSUME AnswerInv, [Next]_vars PROVE (~late => ~stray /\ OwedIsAwaited /\ HandIsItsOwn)'
  OBVIOUS
<1> USE PacketsDiffer DEF AnswerInv, OneDebtor, OwedIsAwaited, HandIsItsOwn,
        RequestInv, FreshUntilOpened, PacketInHand, TypeOK, FlagsOK, CountersOK,
        PacketsOK, Relayer, MustReject, relaying, ToRoute, FirstOf,
        RecordPendingAck, Request, Packet, loopVars, pumpVars, retryVars,
        closeVars, lifeVars, linkVars, owedVars, devVars, history
<1>1. ASSUME NEW p \in Packet, Receive(p) PROVE (~late => ~stray /\ OwedIsAwaited /\ HandIsItsOwn)'
  BY <1>1 DEF Receive
<1>2. ASSUME NEW r \in Request, PumpRelays(r) PROVE (~late => ~stray /\ OwedIsAwaited /\ HandIsItsOwn)'
  BY <1>2 DEF PumpRelays, StrikeFromLedger, SendToDevice
<1>3. CASE RejectPacket
  BY <1>3 DEF RejectPacket, LoopCloses, Close, PumpOutlivesClose, NextPacket
<1>4. CASE RefuseConnect
  BY <1>4 DEF RefuseConnect, SendToDevice
<1>5. CASE CloseAfterRefusal
  BY <1>5 DEF CloseAfterRefusal, LoopCloses, Close, PumpOutlivesClose, NextPacket
<1>6. CASE AdmitConnect
  BY <1>6 DEF AdmitConnect, SendToDevice
<1>7. CASE UpstreamOpened
  BY <1>7 DEF UpstreamOpened, RecordPendingAck, Request
<1>8. CASE UpstreamUnreachable
  BY <1>8 DEF UpstreamUnreachable, MaybeStartRelayRetry, SendToDevice
<1>9. CASE ObservePublish
  BY <1>9 DEF ObservePublish
<1>10. CASE DropPacket
  BY <1>10 DEF DropPacket, NextPacket
<1>11. CASE ForwardUpstream
  BY <1>11 DEF ForwardUpstream, RecordPendingAck
<1>12. CASE AnswerLocally
  <2>1. CASE packet \in Request /\ SendToDevice(packet) /\ loop' = "sent"
             /\ UNCHANGED <<closeVars, attached, pump, retry>>
    BY <1>12, <2>1 DEF AnswerLocally, SendToDevice
  <2>2. CASE packet = Disconnect /\ LoopCloses /\ UNCHANGED devVars
    <3>1. CASE Close("loop") /\ loop' = "closing"
      BY <1>12, <2>2, <3>1 DEF Close, AnswerLocally
    <3>2. CASE closed /\ NextPacket /\ UNCHANGED <<closeVars, attached, pump, retry>>
      BY <1>12, <2>2, <3>2 DEF AnswerLocally, NextPacket
    <3> QED BY <2>2, <3>1, <3>2 DEF LoopCloses
  <2>3. CASE packet = Quiet /\ NextPacket
             /\ UNCHANGED <<devVars, closeVars, attached, pump, retry>>
    BY <1>12, <2>3 DEF AnswerLocally, NextPacket
  <2> QED BY <1>12, <2>1, <2>2, <2>3 DEF AnswerLocally
<1>13. CASE SendReturns
  BY <1>13 DEF SendReturns, PacketDone, NextPacket
<1>14. CASE SendFails
  BY <1>14 DEF SendFails, DetachAndOwe, PacketDone, NextPacket
<1>15. CASE CallbackReturns
  BY <1>15 DEF CallbackReturns, NextPacket
<1>16. CASE LoopCloseReturns
  BY <1>16 DEF LoopCloseReturns, NextPacket
<1>17. CASE SocketEnds
  BY <1>17 DEF SocketEnds
<1>18. CASE FinalClose
  BY <1>18 DEF FinalClose, Close, PumpOutlivesClose
<1>19. CASE TellDisconnected
  BY <1>19 DEF TellDisconnected, OwesDisconnected
<1>20. CASE RunReturns
  BY <1>20 DEF RunReturns
<1>21. CASE LoopAnswers
  BY <1>21 DEF LoopAnswers, AnswerOne, SendToDevice
<1>22. CASE LoopDropsUpstream
  BY <1>22 DEF LoopDropsUpstream
<1>23. CASE LoopFallsBack
  BY <1>23 DEF LoopFallsBack, MaybeStartRelayRetry, PacketDone, NextPacket
<1>24. CASE LoopDropFails
  BY <1>24 DEF LoopDropFails
<1>25. CASE PumpAnswers
  BY <1>25 DEF PumpAnswers, AnswerOne, SendToDevice
<1>26. CASE PumpDropsUpstream
  BY <1>26 DEF PumpDropsUpstream
<1>27. CASE PumpFallsBack
  BY <1>27 DEF PumpFallsBack, MaybeStartRelayRetry
<1>28. CASE PumpDropFails
  BY <1>28 DEF PumpDropFails
<1>29. CASE PumpStarts
  BY <1>29 DEF PumpStarts
<1>30. CASE PumpSendReturns
  BY <1>30 DEF PumpSendReturns
<1>31. CASE PumpRefusal
  BY <1>31 DEF PumpRefusal, DetachAndOwe
<1>32. CASE PumpSeesEnd
  BY <1>32 DEF PumpSeesEnd
<1>33. CASE PumpEnds
  BY <1>33 DEF PumpEnds, DetachAndOwe
<1>34. CASE RetryWakes
  BY <1>34 DEF RetryWakes
<1>35. CASE ProbeFails
  BY <1>35 DEF ProbeFails
<1>36. CASE ProbeSucceeds
  BY <1>36 DEF ProbeSucceeds, Close, PumpOutlivesClose
<1>37. CASE WatchdogFires
  BY <1>37 DEF WatchdogFires, Close, PumpOutlivesClose
<1>38. CASE BridgeCloses
  BY <1>38 DEF BridgeCloses, Close, PumpOutlivesClose
<1>39. CASE CloseUpstream
  BY <1>39 DEF CloseUpstream
<1>40. CASE CloseDevice
  BY <1>40 DEF CloseDevice
<1>41. CASE RetryCloseReturns
  BY <1>41 DEF RetryCloseReturns
<1>42. CASE DeviceHangsUp
  BY <1>42 DEF DeviceHangsUp
<1>43. CASE LinkBreaks
  BY <1>43 DEF LinkBreaks
<1>44. CASE UNCHANGED vars
  BY <1>44 DEF vars
<1>45. CASE LoopCloseFails
  BY <1>45 DEF LoopCloseFails
<1>46. CASE ProbeCloseFails
  BY <1>46 DEF ProbeCloseFails
<1> QED
  BY <1>1, <1>2, <1>3, <1>4, <1>5, <1>6, <1>7, <1>8, <1>9, <1>10, <1>11,
     <1>12, <1>13, <1>14, <1>15, <1>16, <1>17, <1>18, <1>19, <1>20, <1>21,
     <1>22, <1>23, <1>24, <1>25, <1>26, <1>27, <1>28, <1>29, <1>30, <1>31,
     <1>32, <1>33, <1>34, <1>35, <1>36, <1>37, <1>38, <1>39, <1>40, <1>41,
     <1>42, <1>43, <1>44, <1>45, <1>46
     DEF Next, LoopStep, PumpStep, CloserStep, RetryStep, Environment, Finished

LEMMA StepLate ==
    AnswerInv /\ [Next]_vars => (late => SendCanFail)'
<1> SUFFICES ASSUME AnswerInv, [Next]_vars PROVE (late => SendCanFail)'
  OBVIOUS
<1> USE FlagsAreBoolean DEF AnswerInv, PumpIsAttached, RequestInv, TypeOK,
        FlagsOK, CountersOK, PacketsOK, Relayer, loopVars, pumpVars, retryVars,
        closeVars, lifeVars, linkVars, owedVars, devVars, history
<1>1. ASSUME NEW p \in Packet, Receive(p) PROVE (late => SendCanFail)'
  BY <1>1 DEF Receive
<1>2. ASSUME NEW r \in Request, PumpRelays(r) PROVE (late => SendCanFail)'
  BY <1>2 DEF PumpRelays, StrikeFromLedger, SendToDevice
<1>3. CASE RejectPacket
  BY <1>3 DEF RejectPacket, LoopCloses, Close, PumpOutlivesClose, NextPacket
<1>4. CASE RefuseConnect
  BY <1>4 DEF RefuseConnect, SendToDevice
<1>5. CASE CloseAfterRefusal
  BY <1>5 DEF CloseAfterRefusal, LoopCloses, Close, PumpOutlivesClose, NextPacket
<1>6. CASE AdmitConnect
  BY <1>6 DEF AdmitConnect, SendToDevice
<1>7. CASE UpstreamOpened
  BY <1>7 DEF UpstreamOpened, RecordPendingAck, Request
<1>8. CASE UpstreamUnreachable
  BY <1>8 DEF UpstreamUnreachable, MaybeStartRelayRetry, SendToDevice
<1>9. CASE ObservePublish
  BY <1>9 DEF ObservePublish
<1>10. CASE DropPacket
  BY <1>10 DEF DropPacket, NextPacket
<1>11. CASE ForwardUpstream
  BY <1>11 DEF ForwardUpstream, RecordPendingAck
<1>12. CASE AnswerLocally
  BY <1>12 DEF AnswerLocally, LoopCloses, Close, PumpOutlivesClose, NextPacket, SendToDevice
<1>13. CASE SendReturns
  BY <1>13 DEF SendReturns, PacketDone, NextPacket
<1>14. CASE SendFails
  BY <1>14 DEF SendFails, DetachAndOwe, PacketDone, NextPacket
<1>15. CASE CallbackReturns
  BY <1>15 DEF CallbackReturns, NextPacket
<1>16. CASE LoopCloseReturns
  BY <1>16 DEF LoopCloseReturns, NextPacket
<1>17. CASE SocketEnds
  BY <1>17 DEF SocketEnds
<1>18. CASE FinalClose
  BY <1>18 DEF FinalClose, Close, PumpOutlivesClose
<1>19. CASE TellDisconnected
  BY <1>19 DEF TellDisconnected, OwesDisconnected
<1>20. CASE RunReturns
  BY <1>20 DEF RunReturns
<1>21. CASE LoopAnswers
  BY <1>21 DEF LoopAnswers, AnswerOne, SendToDevice
<1>22. CASE LoopDropsUpstream
  BY <1>22 DEF LoopDropsUpstream
<1>23. CASE LoopFallsBack
  BY <1>23 DEF LoopFallsBack, MaybeStartRelayRetry, PacketDone, NextPacket
<1>24. CASE LoopDropFails
  BY <1>24 DEF LoopDropFails
<1>25. CASE PumpAnswers
  BY <1>25 DEF PumpAnswers, AnswerOne, SendToDevice
<1>26. CASE PumpDropsUpstream
  BY <1>26 DEF PumpDropsUpstream
<1>27. CASE PumpFallsBack
  BY <1>27 DEF PumpFallsBack, MaybeStartRelayRetry
<1>28. CASE PumpDropFails
  BY <1>28 DEF PumpDropFails
<1>29. CASE PumpStarts
  BY <1>29 DEF PumpStarts
<1>30. CASE PumpSendReturns
  BY <1>30 DEF PumpSendReturns
<1>31. CASE PumpRefusal
  BY <1>31 DEF PumpRefusal, DetachAndOwe
<1>32. CASE PumpSeesEnd
  BY <1>32 DEF PumpSeesEnd
<1>33. CASE PumpEnds
  BY <1>33 DEF PumpEnds, DetachAndOwe
<1>34. CASE RetryWakes
  BY <1>34 DEF RetryWakes
<1>35. CASE ProbeFails
  BY <1>35 DEF ProbeFails
<1>36. CASE ProbeSucceeds
  BY <1>36 DEF ProbeSucceeds, Close, PumpOutlivesClose
<1>37. CASE WatchdogFires
  BY <1>37 DEF WatchdogFires, Close, PumpOutlivesClose
<1>38. CASE BridgeCloses
  BY <1>38 DEF BridgeCloses, Close, PumpOutlivesClose
<1>39. CASE CloseUpstream
  BY <1>39 DEF CloseUpstream
<1>40. CASE CloseDevice
  BY <1>40 DEF CloseDevice
<1>41. CASE RetryCloseReturns
  BY <1>41 DEF RetryCloseReturns
<1>42. CASE DeviceHangsUp
  BY <1>42 DEF DeviceHangsUp
<1>43. CASE LinkBreaks
  BY <1>43 DEF LinkBreaks
<1>44. CASE UNCHANGED vars
  BY <1>44 DEF vars
<1>45. CASE LoopCloseFails
  BY <1>45 DEF LoopCloseFails
<1>46. CASE ProbeCloseFails
  BY <1>46 DEF ProbeCloseFails
<1> QED
  BY <1>1, <1>2, <1>3, <1>4, <1>5, <1>6, <1>7, <1>8, <1>9, <1>10, <1>11,
     <1>12, <1>13, <1>14, <1>15, <1>16, <1>17, <1>18, <1>19, <1>20, <1>21,
     <1>22, <1>23, <1>24, <1>25, <1>26, <1>27, <1>28, <1>29, <1>30, <1>31,
     <1>32, <1>33, <1>34, <1>35, <1>36, <1>37, <1>38, <1>39, <1>40, <1>41,
     <1>42, <1>43, <1>44, <1>45, <1>46
     DEF Next, LoopStep, PumpStep, CloserStep, RetryStep, Environment, Finished

LEMMA AnswerInvHolds == Spec => []AnswerInv
<1>1. Init => AnswerInv
  <2> SUFFICES ASSUME Init PROVE AnswerInv
    OBVIOUS
  <2>1. RequestInv
    BY InitRequestInv
  <2> QED
    BY <2>1 DEF Init, AnswerInv, OneDebtor, PumpIsAttached, OwedIsAwaited,
       HandIsItsOwn,
       Relayer
<1>2. AnswerInv /\ [Next]_vars => AnswerInv'
  <2> SUFFICES ASSUME AnswerInv, [Next]_vars PROVE AnswerInv'
    OBVIOUS
  <2>1. RequestInv'
    BY StepRequestInv DEF AnswerInv
  <2> QED
    BY <2>1, StepOneDebtor, StepPumpIsAttached, StepLate, StepOwedIsAwaited
       DEF AnswerInv
<1> QED
  BY <1>1, <1>2, PTL DEF Spec

(***************************************************************************)
(* An answer the appliance does not await reaches it only after the pump   *)
(* has passed down a cloud answer of a detached upstream.                  *)
(***************************************************************************)
THEOREM SessionStraysAreLate == Spec => []StrayOnlyAfterLateRelay
<1>1. AnswerInv => StrayOnlyAfterLateRelay
  BY DEF AnswerInv, StrayOnlyAfterLateRelay
<1> QED
  BY AnswerInvHolds, <1>1, PTL

(***************************************************************************)
(* If no upstream send fails before the pump has seen the link drop, the   *)
(* appliance is never answered twice.                                      *)
(***************************************************************************)
THEOREM SessionAnswersOnce == ~SendCanFail => (Spec => []AnsweredOnce)
<1> SUFFICES ASSUME ~SendCanFail PROVE Spec => []AnsweredOnce
  OBVIOUS
<1>1. AnswerInv => AnsweredOnce
  BY DEF AnswerInv, AnsweredOnce
<1> QED
  BY AnswerInvHolds, <1>1, PTL

-----------------------------------------------------------------------------
(* The retry task *)

LEMMA StepFallbackIsDetached ==
    RetryInv /\ [Next]_vars => FallbackIsDetached'
<1> SUFFICES ASSUME RetryInv, [Next]_vars PROVE FallbackIsDetached'
  OBVIOUS
<1> USE DEF RetryInv, FallbackIsDetached, RequestInv, FreshUntilOpened,
        PacketInHand, TypeOK, FlagsOK, CountersOK, PacketsOK, Relayer, MustReject,
        loopVars, pumpVars, retryVars, closeVars, lifeVars, linkVars, owedVars,
        devVars, history
<1>1. ASSUME NEW p \in Packet, Receive(p) PROVE FallbackIsDetached'
  BY <1>1 DEF Receive
<1>2. ASSUME NEW r \in Request, PumpRelays(r) PROVE FallbackIsDetached'
  BY <1>2 DEF PumpRelays, StrikeFromLedger, SendToDevice
<1>3. CASE RejectPacket
  BY <1>3 DEF RejectPacket, LoopCloses, Close, PumpOutlivesClose, NextPacket
<1>4. CASE RefuseConnect
  BY <1>4 DEF RefuseConnect, SendToDevice
<1>5. CASE CloseAfterRefusal
  BY <1>5 DEF CloseAfterRefusal, LoopCloses, Close, PumpOutlivesClose, NextPacket
<1>6. CASE AdmitConnect
  BY <1>6 DEF AdmitConnect, SendToDevice
<1>7. CASE UpstreamOpened
  BY <1>7 DEF UpstreamOpened, RecordPendingAck, Request
<1>8. CASE UpstreamUnreachable
  BY <1>8 DEF UpstreamUnreachable, MaybeStartRelayRetry, SendToDevice
<1>9. CASE ObservePublish
  BY <1>9 DEF ObservePublish
<1>10. CASE DropPacket
  BY <1>10 DEF DropPacket, NextPacket
<1>11. CASE ForwardUpstream
  BY <1>11 DEF ForwardUpstream, RecordPendingAck
<1>12. CASE AnswerLocally
  <2>1. CASE packet \in Request /\ SendToDevice(packet) /\ loop' = "sent"
             /\ UNCHANGED <<closeVars, attached, pump, retry>>
    BY <1>12, <2>1 DEF AnswerLocally, SendToDevice
  <2>2. CASE packet = Disconnect /\ LoopCloses /\ UNCHANGED devVars
    <3>1. CASE Close("loop") /\ loop' = "closing"
      BY <1>12, <2>2, <3>1 DEF Close, AnswerLocally
    <3>2. CASE closed /\ NextPacket /\ UNCHANGED <<closeVars, attached, pump, retry>>
      BY <1>12, <2>2, <3>2 DEF AnswerLocally, NextPacket
    <3> QED BY <2>2, <3>1, <3>2 DEF LoopCloses
  <2>3. CASE packet = Quiet /\ NextPacket
             /\ UNCHANGED <<devVars, closeVars, attached, pump, retry>>
    BY <1>12, <2>3 DEF AnswerLocally, NextPacket
  <2> QED BY <1>12, <2>1, <2>2, <2>3 DEF AnswerLocally
<1>13. CASE SendReturns
  BY <1>13 DEF SendReturns, PacketDone, NextPacket
<1>14. CASE SendFails
  BY <1>14 DEF SendFails, DetachAndOwe, PacketDone, NextPacket
<1>15. CASE CallbackReturns
  BY <1>15 DEF CallbackReturns, NextPacket
<1>16. CASE LoopCloseReturns
  BY <1>16 DEF LoopCloseReturns, NextPacket
<1>17. CASE SocketEnds
  BY <1>17 DEF SocketEnds
<1>18. CASE FinalClose
  BY <1>18 DEF FinalClose, Close, PumpOutlivesClose
<1>19. CASE TellDisconnected
  BY <1>19 DEF TellDisconnected, OwesDisconnected
<1>20. CASE RunReturns
  BY <1>20 DEF RunReturns
<1>21. CASE LoopAnswers
  BY <1>21 DEF LoopAnswers, AnswerOne, SendToDevice
<1>22. CASE LoopDropsUpstream
  BY <1>22 DEF LoopDropsUpstream
<1>23. CASE LoopFallsBack
  BY <1>23 DEF LoopFallsBack, MaybeStartRelayRetry, PacketDone, NextPacket
<1>24. CASE LoopDropFails
  BY <1>24 DEF LoopDropFails
<1>25. CASE PumpAnswers
  BY <1>25 DEF PumpAnswers, AnswerOne, SendToDevice
<1>26. CASE PumpDropsUpstream
  BY <1>26 DEF PumpDropsUpstream
<1>27. CASE PumpFallsBack
  BY <1>27 DEF PumpFallsBack, MaybeStartRelayRetry
<1>28. CASE PumpDropFails
  BY <1>28 DEF PumpDropFails
<1>29. CASE PumpStarts
  BY <1>29 DEF PumpStarts
<1>30. CASE PumpSendReturns
  BY <1>30 DEF PumpSendReturns
<1>31. CASE PumpRefusal
  BY <1>31 DEF PumpRefusal, DetachAndOwe
<1>32. CASE PumpSeesEnd
  BY <1>32 DEF PumpSeesEnd
<1>33. CASE PumpEnds
  BY <1>33 DEF PumpEnds, DetachAndOwe
<1>34. CASE RetryWakes
  BY <1>34 DEF RetryWakes
<1>35. CASE ProbeFails
  BY <1>35 DEF ProbeFails
<1>36. CASE ProbeSucceeds
  BY <1>36 DEF ProbeSucceeds, Close, PumpOutlivesClose
<1>37. CASE WatchdogFires
  BY <1>37 DEF WatchdogFires, Close, PumpOutlivesClose
<1>38. CASE BridgeCloses
  BY <1>38 DEF BridgeCloses, Close, PumpOutlivesClose
<1>39. CASE CloseUpstream
  BY <1>39 DEF CloseUpstream
<1>40. CASE CloseDevice
  BY <1>40 DEF CloseDevice
<1>41. CASE RetryCloseReturns
  BY <1>41 DEF RetryCloseReturns
<1>42. CASE DeviceHangsUp
  BY <1>42 DEF DeviceHangsUp
<1>43. CASE LinkBreaks
  BY <1>43 DEF LinkBreaks
<1>44. CASE UNCHANGED vars
  BY <1>44 DEF vars
<1>45. CASE LoopCloseFails
  BY <1>45 DEF LoopCloseFails
<1>46. CASE ProbeCloseFails
  BY <1>46 DEF ProbeCloseFails
<1> QED
  BY <1>1, <1>2, <1>3, <1>4, <1>5, <1>6, <1>7, <1>8, <1>9, <1>10, <1>11,
     <1>12, <1>13, <1>14, <1>15, <1>16, <1>17, <1>18, <1>19, <1>20, <1>21,
     <1>22, <1>23, <1>24, <1>25, <1>26, <1>27, <1>28, <1>29, <1>30, <1>31,
     <1>32, <1>33, <1>34, <1>35, <1>36, <1>37, <1>38, <1>39, <1>40, <1>41,
     <1>42, <1>43, <1>44, <1>45, <1>46
     DEF Next, LoopStep, PumpStep, CloserStep, RetryStep, Environment, Finished

LEMMA StepRetryOnlyWhenLocal ==
    RetryInv /\ [Next]_vars => RetryOnlyWhenLocal'
<1> SUFFICES ASSUME RetryInv, [Next]_vars PROVE RetryOnlyWhenLocal'
  OBVIOUS
<1> USE DEF RetryInv, FallbackIsDetached, RetryOnlyWhenLocal, RequestInv,
        FreshUntilOpened, PacketInHand, TypeOK, FlagsOK, CountersOK, PacketsOK,
        Relayer, loopVars, pumpVars, retryVars, closeVars, lifeVars, linkVars,
        owedVars, devVars, history
<1>1. ASSUME NEW p \in Packet, Receive(p) PROVE RetryOnlyWhenLocal'
  BY <1>1 DEF Receive
<1>2. ASSUME NEW r \in Request, PumpRelays(r) PROVE RetryOnlyWhenLocal'
  BY <1>2 DEF PumpRelays, StrikeFromLedger, SendToDevice
<1>3. CASE RejectPacket
  BY <1>3 DEF RejectPacket, LoopCloses, Close, PumpOutlivesClose, NextPacket
<1>4. CASE RefuseConnect
  BY <1>4 DEF RefuseConnect, SendToDevice
<1>5. CASE CloseAfterRefusal
  BY <1>5 DEF CloseAfterRefusal, LoopCloses, Close, PumpOutlivesClose, NextPacket
<1>6. CASE AdmitConnect
  BY <1>6 DEF AdmitConnect, SendToDevice
<1>7. CASE UpstreamOpened
  BY <1>7 DEF UpstreamOpened, RecordPendingAck, Request
<1>8. CASE UpstreamUnreachable
  BY <1>8 DEF UpstreamUnreachable, MaybeStartRelayRetry, SendToDevice
<1>9. CASE ObservePublish
  BY <1>9 DEF ObservePublish
<1>10. CASE DropPacket
  BY <1>10 DEF DropPacket, NextPacket
<1>11. CASE ForwardUpstream
  BY <1>11 DEF ForwardUpstream, RecordPendingAck
<1>12. CASE AnswerLocally
  <2>1. CASE packet \in Request /\ SendToDevice(packet) /\ loop' = "sent"
             /\ UNCHANGED <<closeVars, attached, pump, retry>>
    BY <1>12, <2>1 DEF AnswerLocally, SendToDevice
  <2>2. CASE packet = Disconnect /\ LoopCloses /\ UNCHANGED devVars
    <3>1. CASE Close("loop") /\ loop' = "closing"
      BY <1>12, <2>2, <3>1 DEF Close, AnswerLocally
    <3>2. CASE closed /\ NextPacket /\ UNCHANGED <<closeVars, attached, pump, retry>>
      BY <1>12, <2>2, <3>2 DEF AnswerLocally, NextPacket
    <3> QED BY <2>2, <3>1, <3>2 DEF LoopCloses
  <2>3. CASE packet = Quiet /\ NextPacket
             /\ UNCHANGED <<devVars, closeVars, attached, pump, retry>>
    BY <1>12, <2>3 DEF AnswerLocally, NextPacket
  <2> QED BY <1>12, <2>1, <2>2, <2>3 DEF AnswerLocally
<1>13. CASE SendReturns
  BY <1>13 DEF SendReturns, PacketDone, NextPacket
<1>14. CASE SendFails
  BY <1>14 DEF SendFails, DetachAndOwe, PacketDone, NextPacket
<1>15. CASE CallbackReturns
  BY <1>15 DEF CallbackReturns, NextPacket
<1>16. CASE LoopCloseReturns
  BY <1>16 DEF LoopCloseReturns, NextPacket
<1>17. CASE SocketEnds
  BY <1>17 DEF SocketEnds
<1>18. CASE FinalClose
  BY <1>18 DEF FinalClose, Close, PumpOutlivesClose
<1>19. CASE TellDisconnected
  BY <1>19 DEF TellDisconnected, OwesDisconnected
<1>20. CASE RunReturns
  BY <1>20 DEF RunReturns
<1>21. CASE LoopAnswers
  BY <1>21 DEF LoopAnswers, AnswerOne, SendToDevice
<1>22. CASE LoopDropsUpstream
  BY <1>22 DEF LoopDropsUpstream
<1>23. CASE LoopFallsBack
  BY <1>23 DEF LoopFallsBack, MaybeStartRelayRetry, PacketDone, NextPacket
<1>24. CASE LoopDropFails
  BY <1>24 DEF LoopDropFails
<1>25. CASE PumpAnswers
  BY <1>25 DEF PumpAnswers, AnswerOne, SendToDevice
<1>26. CASE PumpDropsUpstream
  BY <1>26 DEF PumpDropsUpstream
<1>27. CASE PumpFallsBack
  BY <1>27 DEF PumpFallsBack, MaybeStartRelayRetry
<1>28. CASE PumpDropFails
  BY <1>28 DEF PumpDropFails
<1>29. CASE PumpStarts
  BY <1>29 DEF PumpStarts
<1>30. CASE PumpSendReturns
  BY <1>30 DEF PumpSendReturns
<1>31. CASE PumpRefusal
  BY <1>31 DEF PumpRefusal, DetachAndOwe
<1>32. CASE PumpSeesEnd
  BY <1>32 DEF PumpSeesEnd
<1>33. CASE PumpEnds
  BY <1>33 DEF PumpEnds, DetachAndOwe
<1>34. CASE RetryWakes
  BY <1>34 DEF RetryWakes
<1>35. CASE ProbeFails
  BY <1>35 DEF ProbeFails
<1>36. CASE ProbeSucceeds
  BY <1>36 DEF ProbeSucceeds, Close, PumpOutlivesClose
<1>37. CASE WatchdogFires
  BY <1>37 DEF WatchdogFires, Close, PumpOutlivesClose
<1>38. CASE BridgeCloses
  BY <1>38 DEF BridgeCloses, Close, PumpOutlivesClose
<1>39. CASE CloseUpstream
  BY <1>39 DEF CloseUpstream
<1>40. CASE CloseDevice
  BY <1>40 DEF CloseDevice
<1>41. CASE RetryCloseReturns
  BY <1>41 DEF RetryCloseReturns
<1>42. CASE DeviceHangsUp
  BY <1>42 DEF DeviceHangsUp
<1>43. CASE LinkBreaks
  BY <1>43 DEF LinkBreaks
<1>44. CASE UNCHANGED vars
  BY <1>44 DEF vars
<1>45. CASE LoopCloseFails
  BY <1>45 DEF LoopCloseFails
<1>46. CASE ProbeCloseFails
  BY <1>46 DEF ProbeCloseFails
<1> QED
  BY <1>1, <1>2, <1>3, <1>4, <1>5, <1>6, <1>7, <1>8, <1>9, <1>10, <1>11,
     <1>12, <1>13, <1>14, <1>15, <1>16, <1>17, <1>18, <1>19, <1>20, <1>21,
     <1>22, <1>23, <1>24, <1>25, <1>26, <1>27, <1>28, <1>29, <1>30, <1>31,
     <1>32, <1>33, <1>34, <1>35, <1>36, <1>37, <1>38, <1>39, <1>40, <1>41,
     <1>42, <1>43, <1>44, <1>45, <1>46
     DEF Next, LoopStep, PumpStep, CloserStep, RetryStep, Environment, Finished

LEMMA RetryInvHolds == Spec => []RetryInv
<1>1. Init => RetryInv
  <2> SUFFICES ASSUME Init PROVE RetryInv
    OBVIOUS
  <2>1. RequestInv
    BY InitRequestInv
  <2> QED
    BY <2>1 DEF Init, RetryInv, FallbackIsDetached, RetryOnlyWhenLocal
<1>2. RetryInv /\ [Next]_vars => RetryInv'
  <2> SUFFICES ASSUME RetryInv, [Next]_vars PROVE RetryInv'
    OBVIOUS
  <2>1. RequestInv'
    BY StepRequestInv DEF RetryInv
  <2> QED
    BY <2>1, StepFallbackIsDetached, StepRetryOnlyWhenLocal DEF RetryInv
<1> QED
  BY <1>1, <1>2, PTL DEF Spec

(***************************************************************************)
(* The cloud is probed only by a session that is open, relays nothing and  *)
(* has the relay enabled: a bounce never cuts a working relay.             *)
(***************************************************************************)
THEOREM SessionRetriesOnlyWhenLocal == Spec => []RetryOnlyWhenLocal
<1>1. RetryInv => RetryOnlyWhenLocal
  BY DEF RetryInv
<1> QED
  BY RetryInvHolds, <1>1, PTL

-----------------------------------------------------------------------------
(* The refusal *)

LEMMA StepRefusedForGood ==
    RefusalInv /\ ~SendCanFail /\ [Next]_vars
        => RefusedForGood' /\ OnlyThePumpFallsBack'
<1> SUFFICES ASSUME RefusalInv, ~SendCanFail, [Next]_vars
             PROVE RefusedForGood' /\ OnlyThePumpFallsBack'
  OBVIOUS
<1> USE FlagsAreBoolean DEF RefusalInv, RefusedForGood, OnlyThePumpFallsBack,
        AnswerInv, PumpIsAttached, RetryInv, RetryOnlyWhenLocal,
        FallbackIsDetached, RequestInv, FreshUntilOpened, PacketInHand, TypeOK,
        FlagsOK, CountersOK, PacketsOK, Relayer, MustReject, loopVars, pumpVars,
        retryVars, closeVars, lifeVars, linkVars, owedVars, devVars, history
<1>1. ASSUME NEW p \in Packet, Receive(p) PROVE RefusedForGood' /\ OnlyThePumpFallsBack'
  BY <1>1 DEF Receive
<1>2. ASSUME NEW r \in Request, PumpRelays(r) PROVE RefusedForGood' /\ OnlyThePumpFallsBack'
  BY <1>2 DEF PumpRelays, StrikeFromLedger, SendToDevice
<1>3. CASE RejectPacket
  BY <1>3 DEF RejectPacket, LoopCloses, Close, PumpOutlivesClose, NextPacket
<1>4. CASE RefuseConnect
  BY <1>4 DEF RefuseConnect, SendToDevice
<1>5. CASE CloseAfterRefusal
  BY <1>5 DEF CloseAfterRefusal, LoopCloses, Close, PumpOutlivesClose, NextPacket
<1>6. CASE AdmitConnect
  BY <1>6 DEF AdmitConnect, SendToDevice
<1>7. CASE UpstreamOpened
  BY <1>7 DEF UpstreamOpened, RecordPendingAck, Request
<1>8. CASE UpstreamUnreachable
  BY <1>8 DEF UpstreamUnreachable, MaybeStartRelayRetry, SendToDevice
<1>9. CASE ObservePublish
  BY <1>9 DEF ObservePublish
<1>10. CASE DropPacket
  BY <1>10 DEF DropPacket, NextPacket
<1>11. CASE ForwardUpstream
  BY <1>11 DEF ForwardUpstream, RecordPendingAck
<1>12. CASE AnswerLocally
  <2>1. CASE packet \in Request /\ SendToDevice(packet) /\ loop' = "sent"
             /\ UNCHANGED <<closeVars, attached, pump, retry>>
    BY <1>12, <2>1 DEF AnswerLocally, SendToDevice
  <2>2. CASE packet = Disconnect /\ LoopCloses /\ UNCHANGED devVars
    <3>1. CASE Close("loop") /\ loop' = "closing"
      BY <1>12, <2>2, <3>1 DEF Close, AnswerLocally
    <3>2. CASE closed /\ NextPacket /\ UNCHANGED <<closeVars, attached, pump, retry>>
      BY <1>12, <2>2, <3>2 DEF AnswerLocally, NextPacket
    <3> QED BY <2>2, <3>1, <3>2 DEF LoopCloses
  <2>3. CASE packet = Quiet /\ NextPacket
             /\ UNCHANGED <<devVars, closeVars, attached, pump, retry>>
    BY <1>12, <2>3 DEF AnswerLocally, NextPacket
  <2> QED BY <1>12, <2>1, <2>2, <2>3 DEF AnswerLocally
<1>13. CASE SendReturns
  BY <1>13 DEF SendReturns, PacketDone, NextPacket
<1>14. CASE SendFails
  BY <1>14 DEF SendFails, DetachAndOwe, PacketDone, NextPacket
<1>15. CASE CallbackReturns
  BY <1>15 DEF CallbackReturns, NextPacket
<1>16. CASE LoopCloseReturns
  BY <1>16 DEF LoopCloseReturns, NextPacket
<1>17. CASE SocketEnds
  BY <1>17 DEF SocketEnds
<1>18. CASE FinalClose
  BY <1>18 DEF FinalClose, Close, PumpOutlivesClose
<1>19. CASE TellDisconnected
  BY <1>19 DEF TellDisconnected, OwesDisconnected
<1>20. CASE RunReturns
  BY <1>20 DEF RunReturns
<1>21. CASE LoopAnswers
  BY <1>21 DEF LoopAnswers, AnswerOne, SendToDevice
<1>22. CASE LoopDropsUpstream
  BY <1>22 DEF LoopDropsUpstream
<1>23. CASE LoopFallsBack
  BY <1>23 DEF LoopFallsBack, MaybeStartRelayRetry, PacketDone, NextPacket
<1>24. CASE LoopDropFails
  BY <1>24 DEF LoopDropFails
<1>25. CASE PumpAnswers
  BY <1>25 DEF PumpAnswers, AnswerOne, SendToDevice
<1>26. CASE PumpDropsUpstream
  BY <1>26 DEF PumpDropsUpstream
<1>27. CASE PumpFallsBack
  BY <1>27 DEF PumpFallsBack, MaybeStartRelayRetry
<1>28. CASE PumpDropFails
  BY <1>28 DEF PumpDropFails
<1>29. CASE PumpStarts
  BY <1>29 DEF PumpStarts
<1>30. CASE PumpSendReturns
  BY <1>30 DEF PumpSendReturns
<1>31. CASE PumpRefusal
  BY <1>31 DEF PumpRefusal, DetachAndOwe
<1>32. CASE PumpSeesEnd
  BY <1>32 DEF PumpSeesEnd
<1>33. CASE PumpEnds
  BY <1>33 DEF PumpEnds, DetachAndOwe
<1>34. CASE RetryWakes
  BY <1>34 DEF RetryWakes
<1>35. CASE ProbeFails
  BY <1>35 DEF ProbeFails
<1>36. CASE ProbeSucceeds
  BY <1>36 DEF ProbeSucceeds, Close, PumpOutlivesClose
<1>37. CASE WatchdogFires
  BY <1>37 DEF WatchdogFires, Close, PumpOutlivesClose
<1>38. CASE BridgeCloses
  BY <1>38 DEF BridgeCloses, Close, PumpOutlivesClose
<1>39. CASE CloseUpstream
  BY <1>39 DEF CloseUpstream
<1>40. CASE CloseDevice
  BY <1>40 DEF CloseDevice
<1>41. CASE RetryCloseReturns
  BY <1>41 DEF RetryCloseReturns
<1>42. CASE DeviceHangsUp
  BY <1>42 DEF DeviceHangsUp
<1>43. CASE LinkBreaks
  BY <1>43 DEF LinkBreaks
<1>44. CASE UNCHANGED vars
  BY <1>44 DEF vars
<1>45. CASE LoopCloseFails
  BY <1>45 DEF LoopCloseFails
<1>46. CASE ProbeCloseFails
  BY <1>46 DEF ProbeCloseFails
<1> QED
  BY <1>1, <1>2, <1>3, <1>4, <1>5, <1>6, <1>7, <1>8, <1>9, <1>10, <1>11,
     <1>12, <1>13, <1>14, <1>15, <1>16, <1>17, <1>18, <1>19, <1>20, <1>21,
     <1>22, <1>23, <1>24, <1>25, <1>26, <1>27, <1>28, <1>29, <1>30, <1>31,
     <1>32, <1>33, <1>34, <1>35, <1>36, <1>37, <1>38, <1>39, <1>40, <1>41,
     <1>42, <1>43, <1>44, <1>45, <1>46
     DEF Next, LoopStep, PumpStep, CloserStep, RetryStep, Environment, Finished

(***************************************************************************)
(* If no upstream send fails before the pump has seen the link drop, a     *)
(* refusal by the cloud is final: the session never probes again.          *)
(***************************************************************************)
THEOREM SessionRefusalIsFinal == ~SendCanFail => (Spec => []RefusalIsFinal)
<1> SUFFICES ASSUME ~SendCanFail PROVE Spec => []RefusalIsFinal
  OBVIOUS
<1>1. Init /\ AnswerInv /\ RetryInv => RefusalInv
  BY DEF Init, RefusalInv, OnlyThePumpFallsBack, RefusedForGood
<1>2. RefusalInv /\ AnswerInv' /\ RetryInv' /\ [Next]_vars => RefusalInv'
  BY StepRefusedForGood DEF RefusalInv
<1>3. RefusalInv => RefusalIsFinal
  BY DEF RefusalInv, RefusedForGood, RefusalIsFinal
<1> QED
  BY AnswerInvHolds, RetryInvHolds, <1>1, <1>2, <1>3, PTL DEF Spec

-----------------------------------------------------------------------------
(* The session as a broker *)

\* What of a step the appliance sees: it asks, is answered, is hung up on, or nothing.
VisibleStep ==
    \/ \E p \in Packet : Receive(p)
    \/ \E r \in Request : SendToDevice(r) /\ UNCHANGED closed
    \/ ~Serving'
    \/ UNCHANGED <<closed, devVars>>

LEMMA EveryStepIsVisible == TypeOK /\ [Next]_vars => VisibleStep
<1> SUFFICES ASSUME TypeOK, [Next]_vars PROVE VisibleStep
  OBVIOUS
<1> USE DEF VisibleStep, Serving, TypeOK, PacketsOK, Relayer, Request, loopVars,
        pumpVars, retryVars, closeVars, lifeVars, linkVars, owedVars, devVars,
        history
<1>1. ASSUME NEW p \in Packet, Receive(p) PROVE VisibleStep
  BY <1>1 DEF Receive
<1>2. ASSUME NEW r \in Request, PumpRelays(r) PROVE VisibleStep
  BY <1>2 DEF PumpRelays, StrikeFromLedger
<1>3. CASE RejectPacket
  BY <1>3 DEF RejectPacket, LoopCloses, Close, PumpOutlivesClose, NextPacket
<1>4. CASE RefuseConnect
  BY <1>4 DEF RefuseConnect
<1>5. CASE CloseAfterRefusal
  BY <1>5 DEF CloseAfterRefusal, LoopCloses, Close, PumpOutlivesClose, NextPacket
<1>6. CASE AdmitConnect
  BY <1>6 DEF AdmitConnect
<1>7. CASE UpstreamOpened
  BY <1>7 DEF UpstreamOpened, RecordPendingAck, Request
<1>8. CASE UpstreamUnreachable
  BY <1>8 DEF UpstreamUnreachable, MaybeStartRelayRetry
<1>9. CASE ObservePublish
  BY <1>9 DEF ObservePublish
<1>10. CASE DropPacket
  BY <1>10 DEF DropPacket, NextPacket
<1>11. CASE ForwardUpstream
  BY <1>11 DEF ForwardUpstream, RecordPendingAck
<1>12. CASE AnswerLocally
  BY <1>12 DEF AnswerLocally, LoopCloses, Close
<1>13. CASE SendReturns
  BY <1>13 DEF SendReturns, PacketDone, NextPacket
<1>14. CASE SendFails
  BY <1>14 DEF SendFails, DetachAndOwe, PacketDone, NextPacket
<1>15. CASE CallbackReturns
  BY <1>15 DEF CallbackReturns, NextPacket
<1>16. CASE LoopCloseReturns
  BY <1>16 DEF LoopCloseReturns, NextPacket
<1>17. CASE SocketEnds
  BY <1>17 DEF SocketEnds
<1>18. CASE FinalClose
  BY <1>18 DEF FinalClose, Close, PumpOutlivesClose
<1>19. CASE TellDisconnected
  BY <1>19 DEF TellDisconnected, OwesDisconnected
<1>20. CASE RunReturns
  BY <1>20 DEF RunReturns
<1>21. CASE LoopAnswers
  BY <1>21 DEF LoopAnswers, AnswerOne, FirstOf
<1>22. CASE LoopDropsUpstream
  BY <1>22 DEF LoopDropsUpstream
<1>23. CASE LoopFallsBack
  BY <1>23 DEF LoopFallsBack, MaybeStartRelayRetry, PacketDone, NextPacket
<1>24. CASE LoopDropFails
  BY <1>24 DEF LoopDropFails
<1>25. CASE PumpAnswers
  BY <1>25 DEF PumpAnswers, AnswerOne, FirstOf
<1>26. CASE PumpDropsUpstream
  BY <1>26 DEF PumpDropsUpstream
<1>27. CASE PumpFallsBack
  BY <1>27 DEF PumpFallsBack, MaybeStartRelayRetry
<1>28. CASE PumpDropFails
  BY <1>28 DEF PumpDropFails
<1>29. CASE PumpStarts
  BY <1>29 DEF PumpStarts
<1>30. CASE PumpSendReturns
  BY <1>30 DEF PumpSendReturns
<1>31. CASE PumpRefusal
  BY <1>31 DEF PumpRefusal, DetachAndOwe
<1>32. CASE PumpSeesEnd
  BY <1>32 DEF PumpSeesEnd
<1>33. CASE PumpEnds
  BY <1>33 DEF PumpEnds, DetachAndOwe
<1>34. CASE RetryWakes
  BY <1>34 DEF RetryWakes
<1>35. CASE ProbeFails
  BY <1>35 DEF ProbeFails
<1>36. CASE ProbeSucceeds
  BY <1>36 DEF ProbeSucceeds, Close, PumpOutlivesClose
<1>37. CASE WatchdogFires
  BY <1>37 DEF WatchdogFires, Close, PumpOutlivesClose
<1>38. CASE BridgeCloses
  BY <1>38 DEF BridgeCloses, Close, PumpOutlivesClose
<1>39. CASE CloseUpstream
  BY <1>39 DEF CloseUpstream
<1>40. CASE CloseDevice
  BY <1>40 DEF CloseDevice
<1>41. CASE RetryCloseReturns
  BY <1>41 DEF RetryCloseReturns
<1>42. CASE DeviceHangsUp
  BY <1>42 DEF DeviceHangsUp
<1>43. CASE LinkBreaks
  BY <1>43 DEF LinkBreaks
<1>44. CASE UNCHANGED vars
  BY <1>44 DEF vars
<1>45. CASE LoopCloseFails
  BY <1>45 DEF LoopCloseFails
<1>46. CASE ProbeCloseFails
  BY <1>46 DEF ProbeCloseFails
<1> QED
  BY <1>1, <1>2, <1>3, <1>4, <1>5, <1>6, <1>7, <1>8, <1>9, <1>10, <1>11,
     <1>12, <1>13, <1>14, <1>15, <1>16, <1>17, <1>18, <1>19, <1>20, <1>21,
     <1>22, <1>23, <1>24, <1>25, <1>26, <1>27, <1>28, <1>29, <1>30, <1>31,
     <1>32, <1>33, <1>34, <1>35, <1>36, <1>37, <1>38, <1>39, <1>40, <1>41,
     <1>42, <1>43, <1>44, <1>45, <1>46
     DEF Next, LoopStep, PumpStep, CloserStep, RetryStep, Environment, Finished

\* The four kinds of step, seen through the refinement mapping.

LEMMA AskingIsABrokerStep ==
    ASSUME NEW p \in Packet, Receive(p), AnswerInv, ~SendCanFail
    PROVE  [AsBroker!Next]_(AsBroker!vars)
<1>1. ~stray /\ stray' = stray /\ Serving' = Serving
  BY DEF AnswerInv, Receive, Serving, closeVars
<1>2. CASE Serving /\ p \in Request \ Foreign
  <2>1. AsBroker!Ask(p)
    BY <1>1, <1>2 DEF AsBroker!Ask, Receive
  <2> QED
    BY <2>1, <1>2 DEF AsBroker!Next
<1>3. CASE ~Serving \/ p \notin Request \ Foreign
  <2>1. Serving => awaiting' \ Foreign = awaiting \ Foreign
    BY <1>3 DEF Receive
  <2> QED
    BY <1>1, <2>1 DEF AsBroker!vars
<1> QED
  BY <1>2, <1>3

LEMMA AnsweringIsABrokerStep ==
    ASSUME NEW r \in Request, SendToDevice(r), UNCHANGED closed,
           AnswerInv, AnswerInv', ~SendCanFail
    PROVE  [AsBroker!Next]_(AsBroker!vars)
<1>1. ~stray /\ ~stray'
  BY DEF AnswerInv
<1>2. Serving' = Serving
  BY DEF SendToDevice, Serving
<1>3. CASE Serving
  <2>1. r \in awaiting /\ awaiting' = awaiting \ {r}
    BY <1>1, <1>3 DEF SendToDevice, Serving
  <2>2. CASE r \in Foreign
    BY <1>1, <1>2, <1>3, <2>1, <2>2 DEF AsBroker!vars
  <2>3. CASE r \notin Foreign
    <3>1. AsBroker!Answer(r)
      BY <1>1, <1>2, <1>3, <2>1, <2>3 DEF AsBroker!Answer
    <3> QED
      BY <2>3, <3>1 DEF AsBroker!Next
  <2> QED
    BY <2>2, <2>3
<1>4. CASE ~Serving
  BY <1>2, <1>4 DEF AsBroker!vars, Serving
<1> QED
  BY <1>3, <1>4

LEMMA LeavingIsABrokerStep ==
    ASSUME ~Serving', AnswerInv, ~SendCanFail
    PROVE  [AsBroker!Next]_(AsBroker!vars)
<1>1. ~stray
  BY DEF AnswerInv
<1>2. CASE Serving
  <2>1. AsBroker!HangUp
    BY <1>1, <1>2 DEF AsBroker!HangUp
  <2> QED
    BY <2>1 DEF AsBroker!Next
<1>3. CASE ~Serving
  BY <1>3 DEF AsBroker!vars, Serving
<1> QED
  BY <1>2, <1>3

LEMMA StepIsABrokerStep ==
    ~SendCanFail /\ AnswerInv /\ AnswerInv' /\ [Next]_vars
        => [AsBroker!Next]_(AsBroker!vars)
<1> SUFFICES ASSUME ~SendCanFail, AnswerInv, AnswerInv', [Next]_vars
             PROVE  [AsBroker!Next]_(AsBroker!vars)
  OBVIOUS
<1>1. VisibleStep
  BY EveryStepIsVisible DEF AnswerInv, RequestInv
<1>2. CASE \E p \in Packet : Receive(p)
  BY <1>2, AskingIsABrokerStep
<1>3. CASE \E r \in Request : SendToDevice(r) /\ UNCHANGED closed
  <2>1. PICK r \in Request : SendToDevice(r) /\ UNCHANGED closed
    BY <1>3
  <2> QED
    BY <2>1, AnsweringIsABrokerStep
<1>4. CASE ~Serving'
  BY <1>4, LeavingIsABrokerStep
<1>5. CASE UNCHANGED <<closed, devVars>>
  BY <1>5 DEF AsBroker!vars, Serving, devVars
<1> QED
  BY <1>1, <1>2, <1>3, <1>4, <1>5 DEF VisibleStep

(***************************************************************************)
(* If no upstream send fails before the pump has seen the link drop, the   *)
(* appliance sees a broker: whoever answers, it gets one answer to what it *)
(* awaits and nothing else, across every fallback and close.  That each    *)
(* answer comes in the end is ActsAsBroker, which adds Broker's fairness.  *)
(***************************************************************************)
THEOREM SessionStepsAsBroker == ~SendCanFail => (Spec => AsBroker!Safety)
<1> SUFFICES ASSUME ~SendCanFail PROVE Spec => AsBroker!Safety
  OBVIOUS
<1>1. Init => AsBroker!Init
  BY DEF Init, AsBroker!Init, Serving
<1>2. AnswerInv /\ AnswerInv' /\ [Next]_vars => [AsBroker!Next]_(AsBroker!vars)
  BY StepIsABrokerStep
<1> QED
  BY AnswerInvHolds, <1>1, <1>2, PTL DEF Spec, AsBroker!Safety

-----------------------------------------------------------------------------
(* The end of the session *)

LEMMA StepEnd ==
    EndInv /\ [Next]_vars => (loop \in {"disconnecting", "done"} => closed /\ (accepted => fired))'
<1> SUFFICES ASSUME EndInv, [Next]_vars PROVE (loop \in {"disconnecting", "done"} => closed /\ (accepted => fired))'
  OBVIOUS
<1> USE DEF EndInv, TypeOK, FlagsOK, CountersOK, PacketsOK, Relayer, loopVars,
        pumpVars, retryVars, closeVars, lifeVars, linkVars, owedVars, devVars,
        history
<1>1. ASSUME NEW p \in Packet, Receive(p) PROVE (loop \in {"disconnecting", "done"} => closed /\ (accepted => fired))'
  BY <1>1 DEF Receive
<1>2. ASSUME NEW r \in Request, PumpRelays(r) PROVE (loop \in {"disconnecting", "done"} => closed /\ (accepted => fired))'
  BY <1>2 DEF PumpRelays, StrikeFromLedger, SendToDevice
<1>3. CASE RejectPacket
  BY <1>3 DEF RejectPacket, LoopCloses, Close, PumpOutlivesClose, NextPacket
<1>4. CASE RefuseConnect
  BY <1>4 DEF RefuseConnect, SendToDevice
<1>5. CASE CloseAfterRefusal
  BY <1>5 DEF CloseAfterRefusal, LoopCloses, Close, PumpOutlivesClose, NextPacket
<1>6. CASE AdmitConnect
  BY <1>6 DEF AdmitConnect, SendToDevice
<1>7. CASE UpstreamOpened
  BY <1>7 DEF UpstreamOpened, RecordPendingAck, Request
<1>8. CASE UpstreamUnreachable
  BY <1>8 DEF UpstreamUnreachable, MaybeStartRelayRetry, SendToDevice
<1>9. CASE ObservePublish
  BY <1>9 DEF ObservePublish
<1>10. CASE DropPacket
  BY <1>10 DEF DropPacket, NextPacket
<1>11. CASE ForwardUpstream
  BY <1>11 DEF ForwardUpstream, RecordPendingAck
<1>12. CASE AnswerLocally
  <2>1. CASE packet \in Request /\ SendToDevice(packet) /\ loop' = "sent"
             /\ UNCHANGED <<closeVars, attached, pump, retry>>
    BY <1>12, <2>1 DEF AnswerLocally, SendToDevice
  <2>2. CASE packet = Disconnect /\ LoopCloses /\ UNCHANGED devVars
    <3>1. CASE Close("loop") /\ loop' = "closing"
      BY <1>12, <2>2, <3>1 DEF Close, AnswerLocally
    <3>2. CASE closed /\ NextPacket /\ UNCHANGED <<closeVars, attached, pump, retry>>
      BY <1>12, <2>2, <3>2 DEF AnswerLocally, NextPacket
    <3> QED BY <2>2, <3>1, <3>2 DEF LoopCloses
  <2>3. CASE packet = Quiet /\ NextPacket
             /\ UNCHANGED <<devVars, closeVars, attached, pump, retry>>
    BY <1>12, <2>3 DEF AnswerLocally, NextPacket
  <2> QED BY <1>12, <2>1, <2>2, <2>3 DEF AnswerLocally
<1>13. CASE SendReturns
  BY <1>13 DEF SendReturns, PacketDone, NextPacket
<1>14. CASE SendFails
  BY <1>14 DEF SendFails, DetachAndOwe, PacketDone, NextPacket
<1>15. CASE CallbackReturns
  BY <1>15 DEF CallbackReturns, NextPacket
<1>16. CASE LoopCloseReturns
  BY <1>16 DEF LoopCloseReturns, NextPacket
<1>17. CASE SocketEnds
  BY <1>17 DEF SocketEnds
<1>18. CASE FinalClose
  BY <1>18 DEF FinalClose, Close, PumpOutlivesClose
<1>19. CASE TellDisconnected
  BY <1>19 DEF TellDisconnected, OwesDisconnected
<1>20. CASE RunReturns
  BY <1>20 DEF RunReturns
<1>21. CASE LoopAnswers
  BY <1>21 DEF LoopAnswers, AnswerOne, SendToDevice
<1>22. CASE LoopDropsUpstream
  BY <1>22 DEF LoopDropsUpstream
<1>23. CASE LoopFallsBack
  BY <1>23 DEF LoopFallsBack, MaybeStartRelayRetry, PacketDone, NextPacket
<1>24. CASE LoopDropFails
  BY <1>24 DEF LoopDropFails
<1>25. CASE PumpAnswers
  BY <1>25 DEF PumpAnswers, AnswerOne, SendToDevice
<1>26. CASE PumpDropsUpstream
  BY <1>26 DEF PumpDropsUpstream
<1>27. CASE PumpFallsBack
  BY <1>27 DEF PumpFallsBack, MaybeStartRelayRetry
<1>28. CASE PumpDropFails
  BY <1>28 DEF PumpDropFails
<1>29. CASE PumpStarts
  BY <1>29 DEF PumpStarts
<1>30. CASE PumpSendReturns
  BY <1>30 DEF PumpSendReturns
<1>31. CASE PumpRefusal
  BY <1>31 DEF PumpRefusal, DetachAndOwe
<1>32. CASE PumpSeesEnd
  BY <1>32 DEF PumpSeesEnd
<1>33. CASE PumpEnds
  BY <1>33 DEF PumpEnds, DetachAndOwe
<1>34. CASE RetryWakes
  BY <1>34 DEF RetryWakes
<1>35. CASE ProbeFails
  BY <1>35 DEF ProbeFails
<1>36. CASE ProbeSucceeds
  BY <1>36 DEF ProbeSucceeds, Close, PumpOutlivesClose
<1>37. CASE WatchdogFires
  BY <1>37 DEF WatchdogFires, Close, PumpOutlivesClose
<1>38. CASE BridgeCloses
  BY <1>38 DEF BridgeCloses, Close, PumpOutlivesClose
<1>39. CASE CloseUpstream
  BY <1>39 DEF CloseUpstream
<1>40. CASE CloseDevice
  BY <1>40 DEF CloseDevice
<1>41. CASE RetryCloseReturns
  BY <1>41 DEF RetryCloseReturns
<1>42. CASE DeviceHangsUp
  BY <1>42 DEF DeviceHangsUp
<1>43. CASE LinkBreaks
  BY <1>43 DEF LinkBreaks
<1>44. CASE UNCHANGED vars
  BY <1>44 DEF vars
<1>45. CASE LoopCloseFails
  BY <1>45 DEF LoopCloseFails
<1>46. CASE ProbeCloseFails
  BY <1>46 DEF ProbeCloseFails
<1> QED
  BY <1>1, <1>2, <1>3, <1>4, <1>5, <1>6, <1>7, <1>8, <1>9, <1>10, <1>11,
     <1>12, <1>13, <1>14, <1>15, <1>16, <1>17, <1>18, <1>19, <1>20, <1>21,
     <1>22, <1>23, <1>24, <1>25, <1>26, <1>27, <1>28, <1>29, <1>30, <1>31,
     <1>32, <1>33, <1>34, <1>35, <1>36, <1>37, <1>38, <1>39, <1>40, <1>41,
     <1>42, <1>43, <1>44, <1>45, <1>46
     DEF Next, LoopStep, PumpStep, CloserStep, RetryStep, Environment, Finished

(***************************************************************************)
(* When run() has returned the session is closed, and the bridge has been  *)
(* told of the end of every session it was told of the start of.           *)
(***************************************************************************)
THEOREM SessionTellsItsEnd == Spec => []BridgeHearsTheEnd
<1>1. Init => EndInv
  BY InitTypeOK DEF Init, EndInv
<1>2. EndInv /\ [Next]_vars => EndInv'
  <2> SUFFICES ASSUME EndInv, [Next]_vars PROVE EndInv'
    OBVIOUS
  <2>1. TypeOK'
    BY StepTypeOK DEF EndInv
  <2> QED
    BY <2>1, StepEnd DEF EndInv
<1>3. EndInv => BridgeHearsTheEnd
  BY DEF EndInv, BridgeHearsTheEnd
<1> QED
  BY <1>1, <1>2, <1>3, PTL DEF Spec
(***************************************************************************)
(* How a closed session comes to hold an upstream: the loop's              *)
(* upstream.connect() returns after another task has closed the session,   *)
(* and _handle_connect attaches the new link without reading _closed.      *)
(***************************************************************************)
AttachedOnceClosed ==
    (closed /\ attached)' /\ ~(closed /\ attached) => closed /\ UpstreamOpened

\* No other step attaches an upstream, and close() itself detaches it.
LEMMA StepAttaches ==
    [Next]_vars => AttachedOnceClosed
<1> SUFFICES ASSUME [Next]_vars PROVE AttachedOnceClosed
  OBVIOUS
<1> USE DEF AttachedOnceClosed, loopVars, pumpVars, retryVars, closeVars,
        lifeVars, linkVars, owedVars, devVars, history
<1>1. ASSUME NEW p \in Packet, Receive(p) PROVE AttachedOnceClosed
  BY <1>1 DEF Receive
<1>2. ASSUME NEW r \in Request, PumpRelays(r) PROVE AttachedOnceClosed
  BY <1>2 DEF PumpRelays, StrikeFromLedger, SendToDevice
<1>3. CASE RejectPacket
  BY <1>3 DEF RejectPacket, LoopCloses, Close, PumpOutlivesClose, NextPacket
<1>4. CASE RefuseConnect
  BY <1>4 DEF RefuseConnect, SendToDevice
<1>5. CASE CloseAfterRefusal
  BY <1>5 DEF CloseAfterRefusal, LoopCloses, Close, PumpOutlivesClose, NextPacket
<1>6. CASE AdmitConnect
  BY <1>6 DEF AdmitConnect, SendToDevice
<1>7. CASE UpstreamOpened
  BY <1>7 DEF UpstreamOpened, RecordPendingAck, Request
<1>8. CASE UpstreamUnreachable
  BY <1>8 DEF UpstreamUnreachable, MaybeStartRelayRetry, SendToDevice
<1>9. CASE ObservePublish
  BY <1>9 DEF ObservePublish
<1>10. CASE DropPacket
  BY <1>10 DEF DropPacket, NextPacket
<1>11. CASE ForwardUpstream
  BY <1>11 DEF ForwardUpstream, RecordPendingAck
<1>12. CASE AnswerLocally
  <2>1. CASE packet \in Request /\ SendToDevice(packet) /\ loop' = "sent"
             /\ UNCHANGED <<closeVars, attached, pump, retry>>
    BY <1>12, <2>1 DEF AnswerLocally, SendToDevice
  <2>2. CASE packet = Disconnect /\ LoopCloses /\ UNCHANGED devVars
    <3>1. CASE Close("loop") /\ loop' = "closing"
      BY <1>12, <2>2, <3>1 DEF Close, AnswerLocally
    <3>2. CASE closed /\ NextPacket /\ UNCHANGED <<closeVars, attached, pump, retry>>
      BY <1>12, <2>2, <3>2 DEF AnswerLocally, NextPacket
    <3> QED BY <2>2, <3>1, <3>2 DEF LoopCloses
  <2>3. CASE packet = Quiet /\ NextPacket
             /\ UNCHANGED <<devVars, closeVars, attached, pump, retry>>
    BY <1>12, <2>3 DEF AnswerLocally, NextPacket
  <2> QED BY <1>12, <2>1, <2>2, <2>3 DEF AnswerLocally
<1>13. CASE SendReturns
  BY <1>13 DEF SendReturns, PacketDone, NextPacket
<1>14. CASE SendFails
  BY <1>14 DEF SendFails, DetachAndOwe, PacketDone, NextPacket
<1>15. CASE CallbackReturns
  BY <1>15 DEF CallbackReturns, NextPacket
<1>16. CASE LoopCloseReturns
  BY <1>16 DEF LoopCloseReturns, NextPacket
<1>17. CASE SocketEnds
  BY <1>17 DEF SocketEnds
<1>18. CASE FinalClose
  BY <1>18 DEF FinalClose, Close, PumpOutlivesClose
<1>19. CASE TellDisconnected
  BY <1>19 DEF TellDisconnected, OwesDisconnected
<1>20. CASE RunReturns
  BY <1>20 DEF RunReturns
<1>21. CASE LoopAnswers
  BY <1>21 DEF LoopAnswers, AnswerOne, SendToDevice
<1>22. CASE LoopDropsUpstream
  BY <1>22 DEF LoopDropsUpstream
<1>23. CASE LoopFallsBack
  BY <1>23 DEF LoopFallsBack, MaybeStartRelayRetry, PacketDone, NextPacket
<1>24. CASE LoopDropFails
  BY <1>24 DEF LoopDropFails
<1>25. CASE PumpAnswers
  BY <1>25 DEF PumpAnswers, AnswerOne, SendToDevice
<1>26. CASE PumpDropsUpstream
  BY <1>26 DEF PumpDropsUpstream
<1>27. CASE PumpFallsBack
  BY <1>27 DEF PumpFallsBack, MaybeStartRelayRetry
<1>28. CASE PumpDropFails
  BY <1>28 DEF PumpDropFails
<1>29. CASE PumpStarts
  BY <1>29 DEF PumpStarts
<1>30. CASE PumpSendReturns
  BY <1>30 DEF PumpSendReturns
<1>31. CASE PumpRefusal
  BY <1>31 DEF PumpRefusal, DetachAndOwe
<1>32. CASE PumpSeesEnd
  BY <1>32 DEF PumpSeesEnd
<1>33. CASE PumpEnds
  BY <1>33 DEF PumpEnds, DetachAndOwe
<1>34. CASE RetryWakes
  BY <1>34 DEF RetryWakes
<1>35. CASE ProbeFails
  BY <1>35 DEF ProbeFails
<1>36. CASE ProbeSucceeds
  BY <1>36 DEF ProbeSucceeds, Close, PumpOutlivesClose
<1>37. CASE WatchdogFires
  BY <1>37 DEF WatchdogFires, Close, PumpOutlivesClose
<1>38. CASE BridgeCloses
  BY <1>38 DEF BridgeCloses, Close, PumpOutlivesClose
<1>39. CASE CloseUpstream
  BY <1>39 DEF CloseUpstream
<1>40. CASE CloseDevice
  BY <1>40 DEF CloseDevice
<1>41. CASE RetryCloseReturns
  BY <1>41 DEF RetryCloseReturns
<1>42. CASE DeviceHangsUp
  BY <1>42 DEF DeviceHangsUp
<1>43. CASE LinkBreaks
  BY <1>43 DEF LinkBreaks
<1>44. CASE UNCHANGED vars
  BY <1>44 DEF vars
<1>45. CASE LoopCloseFails
  BY <1>45 DEF LoopCloseFails
<1>46. CASE ProbeCloseFails
  BY <1>46 DEF ProbeCloseFails
<1> QED
  BY <1>1, <1>2, <1>3, <1>4, <1>5, <1>6, <1>7, <1>8, <1>9, <1>10, <1>11,
     <1>12, <1>13, <1>14, <1>15, <1>16, <1>17, <1>18, <1>19, <1>20, <1>21,
     <1>22, <1>23, <1>24, <1>25, <1>26, <1>27, <1>28, <1>29, <1>30, <1>31,
     <1>32, <1>33, <1>34, <1>35, <1>36, <1>37, <1>38, <1>39, <1>40, <1>41,
     <1>42, <1>43, <1>44, <1>45, <1>46
     DEF Next, LoopStep, PumpStep, CloserStep, RetryStep, Environment, Finished
(***************************************************************************)
(* The upstream a closed session keeps (close() during upstream.connect()) *)
(* is always one it opened after it was closed: none that was attached     *)
(* when close() began survives it, whoever closes and whatever the         *)
(* fallbacks are doing.                                                    *)
(***************************************************************************)
THEOREM SessionLeaksOnlyAtOpening == Spec => [][AttachedOnceClosed]_vars
<1>1. [Next]_vars => [AttachedOnceClosed]_vars
  BY StepAttaches
<1> QED
  BY <1>1, PTL DEF Spec

=============================================================================
