----------------------------- MODULE Climate_proofs -----------------------------
(***************************************************************************)
(* Theorems about the translation (Climate) and about Sync.                *)
(***************************************************************************)
EXTENDS Sync, TLAPS

-----------------------------------------------------------------------------
(* The sets the values come from *)

Val == {Absent, Odd, Container} \cup BOOLEAN \cup Int

State == {s \in [Key -> Val] : \A k \in Key : s[k] \in Value(k)}
Partial == {s \in [Key -> Val] : \A k \in Key : s[k] \in {Absent} \cup Value(k)}
Message == {s \in [Key -> Val] : \A k \in Key : s[k] \in {Absent, Container} \cup Value(k)}

LEMMA Values == \A k \in Key : Value(k) \subseteq Val /\ Absent \notin Value(k) /\ Container \notin Value(k)
  BY Markers DEF Value, Val

LEMMA SilentIsMessage == Silent \in Message /\ Silent \in Partial
  BY DEF Silent, Message, Partial, Val

LEMMA StateIsMessage ==
  ASSUME NEW s \in State
  PROVE  s \in Message /\ \A k \in Key : Mentions(s, k)
  BY Values DEF State, Message, Mentions

LEMMA MergedState ==
  ASSUME NEW s \in State, NEW m \in Message
  PROVE  Merge(s, m) \in State
  BY DEF Merge, State, Message, Mentions

LEMMA MergedPartial ==
  ASSUME NEW s \in Partial, NEW m \in Message
  PROVE  Merge(s, m) \in Partial
  BY DEF Merge, Partial, Message, Mentions

LEMMA Merged ==
  ASSUME NEW s, NEW m, NEW k \in Key
  PROVE  Merge(s, m)[k] = IF Mentions(m, k) THEN m[k] ELSE s[k]
  BY DEF Merge

\* One key changed.
LEMMA OneKey ==
  ASSUME NEW k \in Key, NEW v \in {Container} \cup Value(k)
  PROVE  /\ [Silent EXCEPT ![k] = v] \in Message
         /\ \A j \in Key : Mentions([Silent EXCEPT ![k] = v], j) <=> j = k /\ v # Container
         /\ [Silent EXCEPT ![k] = v][k] = v
  <1>1. v \in Val /\ v # Absent
    BY Values, Markers DEF Val
  <1>2. \A j \in Key : [Silent EXCEPT ![k] = v][j] = IF j = k THEN v ELSE Absent
    BY DEF Silent
  <1>3. [Silent EXCEPT ![k] = v] \in [Key -> Val]
    BY <1>1 DEF Silent, Val
  <1> QED
    BY <1>1, <1>2, <1>3 DEF Message, Mentions

LEMMA OneKeyOfState ==
  ASSUME NEW s \in State, NEW k \in Key, NEW v \in Value(k)
  PROVE  [s EXCEPT ![k] = v] \in State
  BY Values DEF State

-----------------------------------------------------------------------------
(* Commands *)

LEMMA ClampInRange ==
  ASSUME NEW t \in Int
  PROVE  Clamp(t) \in MIN_TARGET_TEMP_F .. MAX_TARGET_TEMP_F
  BY DEF Clamp, MIN_TARGET_TEMP_F, MAX_TARGET_TEMP_F

LEMMA Topics ==
  /\ DOMAIN Payloads = {"hvac_mode", "fan_mode", "temperature", "preset", "swing",
                        "swing_horizontal", "power", "mute", "light", "child_lock"}
  /\ DOMAIN Offered = DOMAIN Payloads
  BY DEF Payloads, Offered

LEMMA Modes ==
  /\ \A m \in DOMAIN HVAC_MODE_TO_DEVICE : HVAC_MODE_TO_DEVICE[m] \in Int
  /\ \A m \in DOMAIN FAN_MODE_TO_DEVICE : FAN_MODE_TO_DEVICE[m] \in Int
  BY DEF HVAC_MODE_TO_DEVICE, FAN_MODE_TO_DEVICE

\* What an accepted command changes is a message of proper values.
LEMMA ChangesAreMessage ==
  ASSUME NEW c, Accepted(c)
  PROVE  Changes(c) \in Message
  <1>1. c.topic \in DOMAIN Payloads /\ c.payload \in Payloads[c.topic]
    BY DEF Accepted
  <1> DEFINE IsFlag(t) == t \in {"swing", "swing_horizontal", "power", "mute", "light", "child_lock"}
  <1>2. CASE c.topic = "hvac_mode"
    <2>1. c.payload \in {"off"} \cup DOMAIN HVAC_MODE_TO_DEVICE
      BY <1>1, <1>2 DEF Payloads
    <2>2. Changes(c) = Hvac(c.payload)
      BY <1>2 DEF Changes
    <2>3. Hvac(c.payload) \in Message
      BY <2>1, Modes DEF Hvac, Silent, Message, Value, Val, Key, Flags, Numbers
    <2> QED
      BY <2>2, <2>3
  <1>3. CASE c.topic = "fan_mode"
    <2>1. c.payload \in {"extra"} \cup DOMAIN FAN_MODE_TO_DEVICE
      BY <1>1, <1>3 DEF Payloads
    <2>2. Changes(c) = Fan(c.payload)
      BY <1>3 DEF Changes
    <2>3. Fan(c.payload) \in Message
      BY <2>1, Modes DEF Fan, Silent, Message, Value, Val, Key, Flags, Numbers
    <2> QED
      BY <2>2, <2>3
  <1>4. CASE c.topic = "temperature"
    <2>1. Clamp(c.payload) \in Int
      BY <1>1, <1>4, ClampInRange DEF Payloads
    <2>2. Changes(c) = [Silent EXCEPT !["templevel"] = Clamp(c.payload)]
      BY <1>4 DEF Changes
    <2> QED
      BY <2>1, <2>2 DEF Silent, Message, Value, Val, Key, Flags, Numbers
  <1>5. CASE c.topic = "preset"
    <2>1. Changes(c) = [Silent EXCEPT !["eco"] = (c.payload = "eco"),
                                     !["sleep"] = (c.payload = "sleep")]
      BY <1>5 DEF Changes
    <2>2. (c.payload = "eco") \in BOOLEAN /\ (c.payload = "sleep") \in BOOLEAN
      OBVIOUS
    <2> QED
      BY <2>1, <2>2 DEF Silent, Message, Value, Val, Key, Flags, Numbers
  <1>6. CASE IsFlag(c.topic)
    <2>1. FlagOf[c.topic] \in Flags
      BY <1>6 DEF FlagOf, Flags
    <2>2. Changes(c) = [Silent EXCEPT ![FlagOf[c.topic]] = ToBool(c.payload)]
      BY <1>6 DEF Changes
    <2>3. ASSUME NEW k \in Flags, NEW v \in BOOLEAN
          PROVE  [Silent EXCEPT ![k] = v] \in Message
      BY OneKey DEF Value, Key
    <2>4. ToBool(c.payload) \in BOOLEAN
      BY DEF ToBool
    <2> QED
      BY <2>1, <2>2, <2>3, <2>4
  <1> QED
    BY <1>1, <1>2, <1>3, <1>4, <1>5, <1>6, Topics

-----------------------------------------------------------------------------
(* Queues of messages *)

\* What q says last of k, if it says anything, is v.
Says(q, k, v) == \A i \in 1 .. Len(q) : LastWord(q, k, i) => q[i][k] = v

\* An appended message has the last word on what it mentions.
LEMMA Appended ==
  ASSUME NEW q \in Seq(Message), NEW m \in Message, NEW k \in Key, NEW old, Says(q, k, old)
  PROVE  /\ Says(Append(q, m), k, IF Mentions(m, k) THEN m[k] ELSE old)
         /\ LastWord(Append(q, m), k, 0) => LastWord(q, k, 0) /\ ~Mentions(m, k)
  <1> USE DEF Says
  <1> DEFINE r == Append(q, m)
             new == IF Mentions(m, k) THEN m[k] ELSE old
  <1>1. Len(q) \in Nat /\ Len(r) = Len(q) + 1 /\ r[Len(q) + 1] = m
        /\ \A i \in 1 .. Len(q) : r[i] = q[i]
    OBVIOUS
  <1> HIDE DEF r
  <1>2. ASSUME NEW i \in 1 .. Len(r), LastWord(r, k, i)
        PROVE  r[i][k] = new
    <2>1. CASE i = Len(q) + 1
      BY <1>1, <1>2, <2>1 DEF LastWord
    <2>2. CASE i \in 1 .. Len(q)
      <3>1. ~Mentions(m, k) /\ LastWord(q, k, i)
        BY <1>1, <1>2, <2>2 DEF LastWord
      <3> QED
        BY <1>1, <2>2, <3>1
    <2> QED
      BY <1>1, <2>1, <2>2
  <1>3. LastWord(r, k, 0) => LastWord(q, k, 0) /\ ~Mentions(m, k)
    BY <1>1 DEF LastWord
  <1> QED
    BY <1>2, <1>3 DEF r

\* Taking the head leaves every last word but the head's own.
LEMMA Shifted ==
  ASSUME NEW q \in Seq(Message), q # <<>>, NEW k \in Key
  PROVE  /\ \A i \in 1 .. Len(Tail(q)) :
               i + 1 \in 1 .. Len(q) /\ Tail(q)[i] = q[i + 1]
               /\ (LastWord(Tail(q), k, i) => LastWord(q, k, i + 1))
         /\ LastWord(Tail(q), k, 0) =>
               IF Mentions(Head(q), k) THEN LastWord(q, k, 1) ELSE LastWord(q, k, 0)
         /\ 1 \in 1 .. Len(q) /\ Head(q) = q[1]
  <1> DEFINE r == Tail(q)
  <1>1. Len(q) \in Nat /\ Len(q) >= 1 /\ Len(r) = Len(q) - 1 /\ Head(q) = q[1]
        /\ \A i \in 1 .. Len(r) : r[i] = q[i + 1]
    OBVIOUS
  <1> HIDE DEF r
  <1>2. ASSUME NEW i \in 0 .. Len(r)
        PROVE  (\A j \in i + 1 .. Len(r) : ~Mentions(r[j], k))
               => \A j \in i + 2 .. Len(q) : ~Mentions(q[j], k)
    <2>1. SUFFICES ASSUME \A j \in i + 1 .. Len(r) : ~Mentions(r[j], k),
                          NEW j \in i + 2 .. Len(q)
                   PROVE  ~Mentions(q[j], k)
      OBVIOUS
    <2>2. j - 1 \in i + 1 .. Len(r) /\ r[j - 1] = q[j]
      BY <1>1
    <2> QED
      BY <2>1, <2>2
  <1>3. ASSUME NEW i \in 1 .. Len(r), LastWord(r, k, i)
        PROVE  LastWord(q, k, i + 1)
    <2>1. Mentions(q[i + 1], k)
      BY <1>1, <1>3 DEF LastWord
    <2>2. \A j \in i + 2 .. Len(q) : ~Mentions(q[j], k)
      BY <1>1, <1>2, <1>3 DEF LastWord
    <2> QED
      BY <2>1, <2>2 DEF LastWord
  <1>4. LastWord(r, k, 0) =>
            IF Mentions(Head(q), k) THEN LastWord(q, k, 1) ELSE LastWord(q, k, 0)
    BY <1>1, <1>2 DEF LastWord
  <1> QED
    BY <1>1, <1>3, <1>4 DEF r

-----------------------------------------------------------------------------
(* Type correctness *)

Injected == [cmd : {"set", "ask"}, result : Message]

Types ==
    /\ connected \in BOOLEAN /\ synced \in BOOLEAN
    /\ appliance \in State /\ known \in Partial
    /\ toAppliance \in Seq(Injected) /\ toBridge \in Seq(Message) /\ late \in Seq(Message)
    /\ Len(toAppliance) <= MaxQueue /\ Len(toBridge) <= MaxQueue /\ Len(late) <= MaxQueue
    /\ pending \in 0 .. MaxQueue /\ changes \in 0 .. MaxChanges /\ drops \in 0 .. MaxDrops
    /\ tick \in 0 .. InfoRefresh - 1

LEMMA Put ==
  ASSUME NEW S, NEW q \in Seq(S), NEW m \in S, Len(q) < MaxQueue
  PROVE  Append(q, m) \in Seq(S) /\ Len(Append(q, m)) <= MaxQueue
  BY Bounds

LEMMA Empty == Len(<<>>) <= MaxQueue /\ <<>> \in Seq(Message) /\ <<>> \in Seq(Injected)
  BY Bounds

LEMMA AskIsInjected == Ask \in Injected
  BY SilentIsMessage DEF Ask, Injected

LEMMA SetIsInjected ==
  ASSUME NEW c, Accepted(c)
  PROVE  Set(Changes(c)) \in Injected
  BY ChangesAreMessage DEF Set, Injected

LEMMA TickInRange ==
  ASSUME NEW t \in Nat
  PROVE  t % InfoRefresh \in 0 .. InfoRefresh - 1
  BY Periods

LEMMA RequestTyped ==
  ASSUME Types, RequestSnapshot
  PROVE  toAppliance' \in Seq(Injected) /\ Len(toAppliance') <= MaxQueue
  BY AskIsInjected, Put DEF Types, RequestSnapshot, Inject

LEMMA TypesStep == Types /\ [Next]_vars => Types'
  <1> SUFFICES ASSUME Types, [Next]_vars PROVE Types'
    OBVIOUS
  <1> USE Bounds
  <1>1. ASSUME NEW p \in Presses, Press(p[1], p[2])
        PROVE  Types'
    <2>1. p[1] \in Key /\ p[2] \in {Container} \cup Value(p[1])
      BY Appliance
    <2>2. appliance' \in State
      BY <1>1, <2>1, OneKeyOfState DEF Press, Types
    <2>3. toBridge' \in Seq(Message) /\ Len(toBridge') <= MaxQueue
      <3>1. CASE connected /\ p[1] \notin Quiet
        <4>1. [Silent EXCEPT ![p[1]] = p[2]] \in Message
          BY <2>1, OneKey
        <4>2. toBridge' = Append(toBridge, [Silent EXCEPT ![p[1]] = p[2]]) /\ Len(toBridge) < MaxQueue
          BY <1>1, <3>1 DEF Press
        <4>3. toBridge \in Seq(Message)
          BY DEF Types
        <4> QED
          BY <4>1, <4>2, <4>3, Put
      <3>2. CASE ~(connected /\ p[1] \notin Quiet)
        BY <1>1, <3>2 DEF Press, Types
      <3> QED
        BY <3>1, <3>2
    <2> QED
      BY <1>1, <2>2, <2>3 DEF Press, Types, bridge, rounds
  <1>2. ASSUME NEW c \in Commands, Command(c)
        PROVE  Types'
    <2>1. toAppliance' \in Seq(Injected) /\ Len(toAppliance') <= MaxQueue
      BY <1>2, SetIsInjected, Put DEF Command, Types, Inject
    <2> QED
      BY <1>2, <2>1 DEF Command, Types, bridge, rounds
  <1>3. CASE Obey
    <2> DEFINE m == Head(toAppliance)
    <2>1. m \in Injected /\ toAppliance' \in Seq(Injected) /\ Len(toAppliance') <= MaxQueue
      BY <1>3 DEF Obey, Types
    <2>2. m.result \in Message
      BY <2>1 DEF Injected
    <2>3. CASE m.cmd = "set"
      <3>1. appliance' \in State
        BY <1>3, <2>2, <2>3, MergedState DEF Obey, Types
      <3>2. toBridge' \in Seq(Message) /\ Len(toBridge') <= MaxQueue
        BY <1>3, <2>2, <2>3, Put DEF Obey, Types
      <3> QED
        BY <1>3, <2>1, <2>3, <3>1, <3>2 DEF Obey, Types, bridge, rounds, bounds
    <2>4. CASE m.cmd # "set"
      <3>1. toBridge' \in Seq(Message) /\ Len(toBridge') <= MaxQueue
        BY <1>3, <2>4, StateIsMessage, Put DEF Obey, Types
      <3> QED
        BY <1>3, <2>1, <2>4, <3>1 DEF Obey, Types, bridge, rounds, bounds
    <2> QED
      BY <2>3, <2>4
  <1>4. CASE Hear
    <2>1. Head(toBridge) \in Message /\ toBridge' \in Seq(Message) /\ Len(toBridge') <= MaxQueue
      BY <1>4 DEF Hear, Types
    <2>2. known' \in Partial
      BY <1>4, <2>1, MergedPartial DEF Hear, Learn, Types
    <2> QED
      BY <1>4, <2>1, <2>2 DEF Hear, Types, rounds, bounds
  <1>5. CASE HearLate
    <2>1. Head(late) \in Message /\ late' \in Seq(Message) /\ Len(late') <= MaxQueue
      BY <1>5 DEF HearLate, Types
    <2>2. known' \in Partial
      BY <1>5, <2>1, MergedPartial DEF HearLate, Learn, Types
    <2>3. synced' \in BOOLEAN
      BY <1>5 DEF HearLate
    <2> QED
      BY <1>5, <2>1, <2>2, <2>3 DEF HearLate, Types, link, rounds, bounds
  <1>6. CASE InitialRequests
    <2>1. toAppliance' \in Seq(Injected) /\ Len(toAppliance') <= MaxQueue
      BY <1>6, RequestTyped DEF InitialRequests
    <2> QED
      BY <1>6, <2>1 DEF InitialRequests, Types, bridge, rounds, bounds
  <1>7. CASE RefreshRound
    <2>1. toAppliance' \in Seq(Injected) /\ Len(toAppliance') <= MaxQueue
      BY <1>7, RequestTyped DEF RefreshRound
    <2>2. tick' \in 0 .. InfoRefresh - 1
      <3>1. tick + StateRefresh \in Nat /\ tick' = (tick + StateRefresh) % InfoRefresh
        BY <1>7, Periods DEF RefreshRound, Types
      <3> QED
        BY <3>1, TickInRange
    <2> QED
      BY <1>7, <2>1, <2>2 DEF RefreshRound, Types, bridge, bounds
  <1>8. CASE Connect
    <2>1. late' \in Seq(Message) /\ Len(late') <= MaxQueue
      <3>1. PICK n \in 0 .. Len(toBridge) :
                Len(late) + n <= MaxQueue /\ late' = late \o SubSeq(toBridge, 1, n)
        BY <1>8 DEF Connect
      <3>2. SubSeq(toBridge, 1, n) \in Seq(Message) /\ Len(SubSeq(toBridge, 1, n)) = n
        BY DEF Types
      <3> QED
        BY <3>1, <3>2 DEF Types
    <2>2. /\ toAppliance' \in Seq(Injected) /\ toBridge' \in Seq(Message)
          /\ Len(toAppliance') <= MaxQueue /\ Len(toBridge') <= MaxQueue
      BY <1>8, Empty DEF Connect
    <2>3. drops' \in 0 .. MaxDrops
      BY <1>8 DEF Connect, Types
    <2>4. pending' \in 0 .. MaxQueue
      BY <1>8 DEF Connect, Types
    <2>5. connected' \in BOOLEAN /\ synced' \in BOOLEAN
      BY <1>8 DEF Connect
    <2> QED
      BY <1>8, <2>1, <2>2, <2>3, <2>4, <2>5 DEF Connect, Types, rounds
  <1>9. CASE Disconnect
    <2>1. /\ toAppliance' \in Seq(Injected) /\ toBridge' \in Seq(Message)
          /\ Len(toAppliance') <= MaxQueue /\ Len(toBridge') <= MaxQueue
      BY <1>9, Empty DEF Disconnect
    <2>2. drops' \in 0 .. MaxDrops
      BY <1>9 DEF Disconnect, Types
    <2>3. connected' \in BOOLEAN /\ synced' \in BOOLEAN
      BY <1>9 DEF Disconnect
    <2> QED
      BY <1>9, <2>1, <2>2, <2>3 DEF Disconnect, Types, bridge, rounds
  <1>10. CASE Restart
    <2>1. /\ toAppliance' \in Seq(Injected) /\ toBridge' \in Seq(Message) /\ late' \in Seq(Message)
          /\ Len(toAppliance') <= MaxQueue /\ Len(toBridge') <= MaxQueue /\ Len(late') <= MaxQueue
      BY <1>10, Empty DEF Restart
    <2>2. /\ drops' \in 0 .. MaxDrops
          /\ pending' \in 0 .. MaxQueue /\ tick' \in 0 .. InfoRefresh - 1
      BY <1>10, Periods DEF Restart, Types
    <2>3. connected' \in BOOLEAN /\ synced' \in BOOLEAN
      BY <1>10 DEF Restart
    <2> QED
      BY <1>10, <2>1, <2>2, <2>3, SilentIsMessage DEF Restart, Types
  <1>11. CASE UNCHANGED vars
    BY <1>11 DEF vars, Types
  <1> QED
    BY <1>1, <1>2, <1>3, <1>4, <1>5, <1>6, <1>7, <1>8, <1>9, <1>10, <1>11 DEF Next

LEMMA TypesInit == Init => Types
  <1>1. ASSUME Init PROVE appliance \in State
    BY <1>1, Appliance, Values DEF Init, State
  <1>2. ASSUME Init
        PROVE  /\ toAppliance \in Seq(Injected) /\ toBridge \in Seq(Message) /\ late \in Seq(Message)
               /\ Len(toAppliance) <= MaxQueue /\ Len(toBridge) <= MaxQueue /\ Len(late) <= MaxQueue
    BY <1>2, Empty DEF Init
  <1>3. ASSUME Init
        PROVE  /\ pending \in 0 .. MaxQueue /\ changes \in 0 .. MaxChanges
               /\ drops \in 0 .. MaxDrops /\ tick \in 0 .. InfoRefresh - 1
    BY <1>3, Bounds, Periods DEF Init
  <1>4. ASSUME Init PROVE connected \in BOOLEAN /\ synced \in BOOLEAN
    BY <1>4 DEF Init
  <1> QED
    BY <1>1, <1>2, <1>3, <1>4, SilentIsMessage DEF Init, Types

\* Whatever the appliance sends, the bridge keeps a proper value of each key or
\* none, and no connection holds more than its bound.
THEOREM TypesKept == Spec => []TypeOK
  <1>1. Types => TypeOK
    BY DEF Types, TypeOK, State, Partial
  <1> QED
    BY <1>1, TypesInit, TypesStep, PTL DEF Spec

-----------------------------------------------------------------------------
(* The refresh loop *)

\* A round that asks follows the last one that did by about the period; another
\* one has not gone round the period since, and less than a round is unaccounted for.
Rounds ==
    /\ Types /\ sinceInfo \in Nat
    /\ IF AsksInfo(tick)
       THEN /\ sinceInfo < InfoRefresh + StateRefresh
            /\ sinceInfo > 0 => sinceInfo > InfoRefresh - StateRefresh
       ELSE sinceInfo <= tick /\ tick < sinceInfo + StateRefresh

\* A round goes round the period exactly if it asks for device info.
LEMMA RoundOfTick ==
  ASSUME NEW t \in 0 .. InfoRefresh - 1
  PROVE  LET u == (t + StateRefresh) % InfoRefresh
         IN  /\ u \in 0 .. InfoRefresh - 1
             /\ t + StateRefresh < InfoRefresh => u = t + StateRefresh
             /\ t + StateRefresh >= InfoRefresh => u < StateRefresh
  <1> DEFINE u == (t + StateRefresh) % InfoRefresh
             d == (t + StateRefresh) \div InfoRefresh
  <1>1. u \in 0 .. InfoRefresh - 1 /\ d \in Nat /\ t + StateRefresh = InfoRefresh * d + u
    BY Periods
  <1>2. ASSUME d >= 1 PROVE t + StateRefresh >= InfoRefresh /\ u < StateRefresh
    <2>1. InfoRefresh * d >= InfoRefresh
      BY <1>1, <1>2, Periods
    <2> QED
      BY <1>1, <2>1, Periods
  <1>3. ASSUME d = 0 PROVE t + StateRefresh < InfoRefresh /\ u = t + StateRefresh
    BY <1>1, <1>3, Periods
  <1> QED
    BY <1>1, <1>2, <1>3, Periods

\* However the two periods divide, the refresh loop asks for device info once a
\* period: never a whole round late, and never a whole round early.
THEOREM InfoKept == Spec => []InfoInTime
  <1>1. Init => Rounds
    BY TypesInit, Periods DEF Init, Rounds, AsksInfo
  <1>2. Rounds /\ [Next]_vars => Rounds'
    <2> SUFFICES ASSUME Rounds, [Next]_vars PROVE Rounds'
      OBVIOUS
    <2>1. Types'
      BY TypesStep DEF Rounds
    <2>2. CASE RefreshRound
      <3>1. tick' = (tick + StateRefresh) % InfoRefresh /\ tick \in 0 .. InfoRefresh - 1
        BY <2>2 DEF RefreshRound, Rounds, Types
      <3>2. sinceInfo' = IF AsksInfo(tick) THEN StateRefresh ELSE sinceInfo + StateRefresh
        BY <2>2 DEF RefreshRound
      <3>3. CASE tick + StateRefresh < InfoRefresh
        <4>1. tick' = tick + StateRefresh
          BY <3>1, <3>3, RoundOfTick
        <4> QED
          BY <2>1, <3>1, <3>2, <4>1, Periods DEF AsksInfo, Rounds
      <3>4. CASE tick + StateRefresh >= InfoRefresh
        <4>1. tick' < StateRefresh
          BY <3>1, <3>4, RoundOfTick
        <4> QED
          BY <2>1, <3>1, <3>2, <3>4, <4>1, Periods DEF AsksInfo, Rounds
      <3> QED
        BY <3>1, <3>3, <3>4, Periods
    <2>3. CASE Restart
      BY <2>1, <2>3, Periods DEF Restart, Rounds, AsksInfo
    <2>4. CASE UNCHANGED rounds
      BY <2>1, <2>4 DEF rounds, Rounds, AsksInfo
    <2> QED
      BY <2>2, <2>3, <2>4 DEF Next, Press, Command, Obey, Hear, HearLate, InitialRequests,
                              Connect, Disconnect, vars, rounds
  <1>3. Rounds => InfoInTime
    BY Periods DEF Rounds, Types, InfoInTime, AsksInfo
  <1> QED
    BY <1>1, <1>2, <1>3, PTL DEF Spec

-----------------------------------------------------------------------------
(* Deltas and snapshots *)

\* Outside a session there is nothing on its way.
NoSession == ~connected => toAppliance = <<>> /\ toBridge = <<>> /\ ~synced

\* The last word on a key is what the appliance has.
Told ==
    \A k \in Key \ Quiet : \A i \in 1 .. Len(toBridge) :
        LastWord(toBridge, k, i) => toBridge[i][k] = appliance[k]

\* After a snapshot, a key nothing is said of is one the bridge knows.
Behind ==
    synced => \A k \in Key \ Quiet :
                  LastWord(toBridge, k, 0) => known[k] = appliance[k]

InStep == Types /\ NoSession /\ Told /\ Behind

\* The session stays, and is no more in step than it was.
Steady == (connected => connected') /\ (synced' => synced)

LEMMA NoSessionKept ==
  ASSUME InStep, Steady, connected \/ (toAppliance' = toAppliance /\ toBridge' = toBridge)
  PROVE  NoSession'
  BY DEF InStep, NoSession, Steady

LEMMA Kept ==
  ASSUME InStep, Steady, connected \/ toAppliance' = toAppliance,
         toBridge' = toBridge, appliance' = appliance, known' = known
  PROVE  NoSession' /\ Told' /\ Behind'
  <1>1. Told'
    BY DEF InStep, Told
  <1>2. Behind'
    BY DEF InStep, Behind, Steady
  <1> QED
    BY <1>1, <1>2, NoSessionKept

\* A message is sent that says of k what the appliance then has.
LEMMA TellOne ==
  ASSUME InStep, NEW m \in Message, NEW k \in Key \ Quiet,
         toBridge' = Append(toBridge, m),
         appliance'[k] = IF Mentions(m, k) THEN m[k] ELSE appliance[k]
  PROVE  /\ \A i \in 1 .. Len(toBridge') :
               LastWord(toBridge', k, i) => toBridge'[i][k] = appliance'[k]
         /\ LastWord(toBridge', k, 0) => LastWord(toBridge, k, 0) /\ ~Mentions(m, k)
  <1>1. toBridge \in Seq(Message) /\ k \in Key
    BY DEF InStep, Types
  <1>2. \A i \in 1 .. Len(toBridge) : LastWord(toBridge, k, i) => toBridge[i][k] = appliance[k]
    BY DEF InStep, Told
  <1>3. Says(toBridge, k, appliance[k])
    BY <1>2 DEF Says
  <1>4. /\ Says(Append(toBridge, m), k, IF Mentions(m, k) THEN m[k] ELSE appliance[k])
        /\ LastWord(Append(toBridge, m), k, 0) => LastWord(toBridge, k, 0) /\ ~Mentions(m, k)
    BY <1>1, <1>3, Appended
  <1>5. Says(toBridge', k, appliance'[k])
    BY <1>4
  <1> QED
    BY <1>4, <1>5 DEF Says

\* The same for every key: what is told stays true, and the bridge is no further behind.
LEMMA Tell ==
  ASSUME InStep, NEW m \in Message, toBridge' = Append(toBridge, m),
         \A k \in Key \ Quiet :
             appliance'[k] = IF Mentions(m, k) THEN m[k] ELSE appliance[k],
         known' = known,
         synced' => synced \/ \A k \in Key : Mentions(m, k)
  PROVE  Told' /\ Behind'
  <1>1. ASSUME NEW k \in Key \ Quiet
        PROVE  /\ \A i \in 1 .. Len(toBridge') :
                     LastWord(toBridge', k, i) => toBridge'[i][k] = appliance'[k]
               /\ LastWord(toBridge', k, 0) => LastWord(toBridge, k, 0) /\ ~Mentions(m, k)
    BY TellOne
  <1>2. ASSUME synced', NEW k \in Key \ Quiet, LastWord(toBridge', k, 0)
        PROVE  known'[k] = appliance'[k]
    <2>1. LastWord(toBridge, k, 0) /\ ~Mentions(m, k)
      BY <1>1, <1>2
    <2>2. synced
      BY <1>2, <2>1
    <2> QED
      BY <2>1, <2>2 DEF InStep, Behind
  <1>3. Told'
    BY <1>1 DEF Told
  <1>4. Behind'
    BY <1>2 DEF Behind
  <1> QED
    BY <1>3, <1>4

LEMMA InStepStep == InStep /\ [Next]_vars => InStep'
  <1> SUFFICES ASSUME InStep, [Next]_vars PROVE InStep'
    OBVIOUS
  <1>0. Types /\ Types'
    BY TypesStep DEF InStep
  <1>1. ASSUME NEW x \in Key, NEW v \in {Container} \cup Value(x), Press(x, v)
        PROVE  NoSession' /\ Told' /\ Behind'
    <2> DEFINE m == [Silent EXCEPT ![x] = v]
    <2>2. m \in Message /\ m[x] = v
          /\ \A j \in Key : Mentions(m, j) <=> j = x /\ v # Container
      BY OneKey
    <2>3. \A k \in Key : appliance'[k] = IF Mentions(m, k) THEN m[k] ELSE appliance[k]
      <3>1. appliance \in [Key -> Val]
        BY <1>0 DEF Types, State
      <3> HIDE DEF m
      <3> QED
        BY <1>1, <2>2, <3>1 DEF Press
    <2> HIDE DEF m
    <2>4. Steady /\ toAppliance' = toAppliance /\ known' = known
      BY <1>1 DEF Press, Steady, bridge
    <2>5. CASE connected /\ x \notin Quiet
      <3>1. toBridge' = Append(toBridge, m)
        BY <1>1, <2>5 DEF Press, m
      <3>2. Told' /\ Behind'
        BY <2>2, <2>3, <2>4, <3>1, Tell DEF Steady
      <3> QED
        BY <2>4, <2>5, <3>2, NoSessionKept
    <2>6. CASE ~(connected /\ x \notin Quiet)
      <3>1. toBridge' = toBridge
        BY <1>1, <2>6 DEF Press
      <3>2. CASE connected
        <4>1. \A k \in Key \ Quiet : appliance'[k] = appliance[k]
          BY <2>2, <2>3, <2>6, <3>2
        <4>2. Told' /\ Behind'
          BY <2>4, <3>1, <4>1 DEF InStep, Told, Behind, Steady
        <4> QED
          BY <2>4, <3>1, <4>2, NoSessionKept
      <3>3. CASE ~connected
        <4>1. toBridge' = <<>> /\ ~synced'
          BY <2>4, <3>1, <3>3 DEF InStep, NoSession, Steady
        <4>2. Told' /\ Behind'
          BY <4>1 DEF Told, Behind
        <4> QED
          BY <2>4, <3>1, <4>2, NoSessionKept
      <3> QED
        BY <3>2, <3>3
    <2> QED
      BY <2>5, <2>6
  <1>2. ASSUME NEW c \in Commands, Command(c)
        PROVE  NoSession' /\ Told' /\ Behind'
    <2>1. Steady /\ (connected \/ toAppliance' = toAppliance)
      BY <1>2 DEF Command, Steady
    <2> QED
      BY <1>2, <2>1, Kept DEF Command, bridge
  <1>3. CASE Obey
    <2> DEFINE m == Head(toAppliance)
    <2>1. m \in Injected
      BY <1>0, <1>3 DEF Obey, Types
    <2>2. connected /\ (connected => connected') /\ known' = known
      BY <1>3 DEF Obey, InStep, NoSession, bridge
    <2>3. appliance \in State /\ m.result \in Message
      BY <1>0, <2>1 DEF Types, Injected
    <2>4. NoSession'
      BY <2>2 DEF NoSession
    <2>5. CASE m.cmd = "set"
      <3>1. toBridge' = Append(toBridge, m.result) /\ (synced' => synced)
            /\ appliance' = Merge(appliance, m.result)
        BY <1>3, <2>5 DEF Obey
      <3>2. \A k \in Key \ Quiet :
               appliance'[k] = IF Mentions(m.result, k) THEN m.result[k] ELSE appliance[k]
        BY <3>1, Merged
      <3> HIDE DEF m
      <3>3. Told' /\ Behind'
        BY <2>2, <2>3, <3>1, <3>2, Tell
      <3> QED
        BY <1>0, <2>4, <3>3 DEF InStep
    <2>6. CASE m.cmd # "set"
      <3>1. toBridge' = Append(toBridge, appliance) /\ appliance' = appliance
        BY <1>3, <2>6 DEF Obey
      <3>2. appliance \in Message /\ \A k \in Key : Mentions(appliance, k)
        BY <2>3, StateIsMessage
      <3>3. \A k \in Key \ Quiet :
               appliance'[k] = IF Mentions(appliance, k) THEN appliance[k] ELSE appliance[k]
        BY <3>1
      <3>4. Told' /\ Behind'
        BY <2>2, <3>1, <3>2, <3>3, Tell
      <3> QED
        BY <1>0, <2>4, <3>4 DEF InStep
    <2> QED
      BY <2>5, <2>6
  <1>4. CASE Hear
    <2>1. toBridge \in Seq(Message) /\ toBridge # <<>> /\ toBridge' = Tail(toBridge)
          /\ known' = Merge(known, Head(toBridge))
          /\ appliance' = appliance /\ Steady
      BY <1>0, <1>4 DEF Hear, Learn, Types, Steady
    <2>2. NoSession'
      BY <2>1, NoSessionKept DEF InStep, NoSession
    <2>3. ASSUME NEW k \in Key \ Quiet, NEW i \in 1 .. Len(toBridge'), LastWord(toBridge', k, i)
          PROVE  toBridge'[i][k] = appliance'[k]
      BY <2>1, <2>3, Shifted DEF InStep, Told
    <2>4. ASSUME synced', NEW k \in Key \ Quiet, LastWord(toBridge', k, 0)
          PROVE  known'[k] = appliance'[k]
      <3>0. synced
        BY <2>1, <2>4 DEF Steady
      <3>1. 1 \in 1 .. Len(toBridge) /\ Head(toBridge) = toBridge[1]
            /\ IF Mentions(Head(toBridge), k) THEN LastWord(toBridge, k, 1)
                                             ELSE LastWord(toBridge, k, 0)
        BY <2>1, <2>4, Shifted
      <3>2. known'[k] = IF Mentions(Head(toBridge), k) THEN Head(toBridge)[k] ELSE known[k]
        BY <2>1, Merged
      <3> QED
        BY <2>1, <3>0, <3>1, <3>2 DEF InStep, Told, Behind
    <2>5. Told'
      BY <2>3 DEF Told
    <2>6. Behind'
      BY <2>4 DEF Behind
    <2> QED
      BY <1>0, <2>2, <2>5, <2>6 DEF InStep
  <1>5. CASE HearLate
    <2>1. toBridge' = toBridge /\ appliance' = appliance /\ toAppliance' = toAppliance
          /\ (connected => connected')
      BY <1>5 DEF HearLate, link
    <2>2. synced' => synced /\ \E i \in 1 .. Len(toBridge) : \A k \in Key : Mentions(toBridge[i], k)
      BY <1>5 DEF HearLate
    <2>3. ASSUME synced', NEW k \in Key \ Quiet
          PROVE  ~LastWord(toBridge, k, 0)
      <3>1. PICK i \in 1 .. Len(toBridge) : Mentions(toBridge[i], k)
        BY <2>2, <2>3
      <3>2. i \in 0 + 1 .. Len(toBridge)
        OBVIOUS
      <3> QED
        BY <3>1, <3>2 DEF LastWord
    <2>4. NoSession'
      BY <2>1, <2>2, NoSessionKept DEF Steady
    <2>5. Told'
      BY <2>1 DEF InStep, Told
    <2>6. Behind'
      BY <2>1, <2>3 DEF Behind
    <2> QED
      BY <1>0, <2>4, <2>5, <2>6 DEF InStep
  <1>6. CASE InitialRequests
    <2>1. Steady /\ (connected \/ toAppliance' = toAppliance)
      BY <1>6 DEF InitialRequests, RequestSnapshot, Steady
    <2> QED
      BY <1>0, <1>6, <2>1, Kept DEF InitialRequests, bridge, InStep
  <1>7. CASE RefreshRound
    <2>1. Steady /\ (connected \/ toAppliance' = toAppliance)
      BY <1>7 DEF RefreshRound, RequestSnapshot, Steady
    <2> QED
      BY <1>0, <1>7, <2>1, Kept DEF RefreshRound, bridge, InStep
  <1>8. CASE Connect \/ Disconnect \/ Restart
    <2>1. toBridge' = <<>> /\ toAppliance' = <<>> /\ ~synced'
      BY <1>8 DEF Connect, Disconnect, Restart
    <2>2. Told'
      <3>1. Len(toBridge') = 0
        BY <2>1
      <3> QED
        BY <3>1 DEF Told
    <2>3. NoSession'
      BY <2>1 DEF NoSession
    <2>4. Behind'
      BY <2>1 DEF Behind
    <2> QED
      BY <1>0, <2>2, <2>3, <2>4 DEF InStep
  <1>9. CASE UNCHANGED vars
    <2>1. Steady /\ toAppliance' = toAppliance
      BY <1>9 DEF vars, Steady
    <2> QED
      BY <1>0, <1>9, <2>1, Kept DEF vars, InStep
  <1>10. ASSUME NEW p \in Presses, Press(p[1], p[2])
         PROVE  NoSession' /\ Told' /\ Behind'
    <2>1. p[1] \in Key /\ p[2] \in {Container} \cup Value(p[1])
      BY Appliance
    <2> QED
      BY <1>1, <1>10, <2>1
  <1> QED
    BY <1>0, <1>2, <1>3, <1>4, <1>5, <1>6, <1>7, <1>8, <1>9, <1>10 DEF Next, InStep

\* From a session's first snapshot on, what the bridge knows and the messages on
\* their way make up the appliance's state: no delta falls in between.
THEOREM NothingIsLost == Spec => []NothingLost
  <1>1. Init => InStep
    <2>1. ASSUME Init PROVE Len(toBridge) = 0 /\ ~synced
      BY <2>1 DEF Init
    <2> QED
      BY <2>1, TypesInit DEF Init, InStep, NoSession, Told, Behind
  <1>2. InStep => NothingLost
    <2> SUFFICES ASSUME InStep, synced, NEW k \in Key \ Quiet, NEW i \in 0 .. Len(toBridge),
                        LastWord(toBridge, k, i)
                 PROVE  (IF i = 0 THEN known ELSE toBridge[i])[k] = appliance[k]
      BY DEF NothingLost
    <2>1. CASE i = 0
      BY <2>1 DEF InStep, Behind
    <2>2. CASE i \in 1 .. Len(toBridge)
      BY <2>2 DEF InStep, Told
    <2>3. Len(toBridge) \in Nat
      BY DEF InStep, Types
    <2> QED
      BY <2>1, <2>2, <2>3
  <1> QED
    BY <1>1, <1>2, InStepStep, PTL DEF Spec

-----------------------------------------------------------------------------
(* Documents *)

\* Publishing only what changed never leaves an older document of what is known.
THEOREM ShownKept == Spec => []ShownIsKnown
  <1>1. Init => ShownIsKnown
    BY DEF Init, ShownIsKnown, HasCoreState, Silent, Key, Flags, Numbers
  <1>2. ShownIsKnown /\ [Next]_vars => ShownIsKnown'
    <2> SUFFICES ASSUME ShownIsKnown, [Next]_vars PROVE ShownIsKnown'
      OBVIOUS
    <2>1. CASE Hear \/ HearLate
      <3>1. PICK result : Learn(result)
        BY <2>1 DEF Hear, HearLate
      <3> QED
        BY <3>1 DEF Learn, ShownIsKnown
    <2>2. CASE Connect
      BY <2>2 DEF Connect, ShownIsKnown
    <2>3. CASE Restart
      BY <2>3 DEF Restart, ShownIsKnown, HasCoreState, Silent, Key, Flags, Numbers
    <2>4. CASE UNCHANGED <<known, shown>>
      BY <2>4 DEF ShownIsKnown
    <2> QED
      BY <2>1, <2>2, <2>3, <2>4 DEF Next, Press, Command, Obey, InitialRequests, RefreshRound,
                                    Disconnect, vars, bridge
  <1> QED
    BY <1>1, <1>2, PTL DEF Spec

LEMMA HvacNames == \A v : NameOf(HVAC_MODE_TO_DEVICE, v) \in {"cool", "dry", "fan_only", "heat", Unknown}
  BY DEF NameOf, HVAC_MODE_TO_DEVICE

LEMMA FanNames == \A v : NameOf(FAN_MODE_TO_DEVICE, v) \in {"low", "medium", "high", "auto", Unknown}
  BY DEF NameOf, FAN_MODE_TO_DEVICE

\* Whatever is known, the document of it shows offered choices or nothing.
LEMMA DocumentIsOffered ==
  ASSUME NEW s, NEW topic \in DOMAIN Offered \ {"temperature"}
  PROVE  HaDocument(s)[FieldOf[topic]] \in Offered[topic] \cup {Unknown}
  <1>1. CASE topic = "hvac_mode"
    BY <1>1, HvacNames DEF HaDocument, FieldOf, Offered, HvacMode
  <1>2. CASE topic = "fan_mode"
    BY <1>2, FanNames DEF HaDocument, FieldOf, Offered, FanMode
  <1>3. CASE topic = "preset"
    BY <1>3 DEF HaDocument, FieldOf, Offered, Preset
  <1>4. CASE topic \in {"swing", "swing_horizontal"}
    BY <1>4 DEF HaDocument, FieldOf, Offered, Swing
  <1>5. CASE topic \in {"power", "mute", "light", "child_lock"}
    BY <1>5 DEF HaDocument, FieldOf, Offered, OnOff
  <1> QED
    BY <1>1, <1>2, <1>3, <1>4, <1>5, Topics

LEMMA OfferedIsAccepted ==
  ASSUME NEW topic \in DOMAIN Offered, NEW v \in Offered[topic]
  PROVE  Accepted([topic |-> topic, payload |-> v])
  <1>1. v \in Payloads[topic]
    <2>1. CASE topic = "temperature"
      BY <2>1 DEF Offered, Payloads, MIN_TARGET_TEMP_F, MAX_TARGET_TEMP_F
    <2>2. CASE topic \in {"hvac_mode", "fan_mode"}
      BY <2>2 DEF Offered, Payloads, HVAC_MODE_TO_DEVICE, FAN_MODE_TO_DEVICE
    <2>3. CASE topic \in {"preset", "swing", "swing_horizontal"}
      BY <2>3 DEF Offered, Payloads
    <2>4. CASE topic \in {"power", "mute", "light", "child_lock"}
      BY <2>4 DEF Offered, Payloads, On, Off
    <2> QED
      BY <2>1, <2>2, <2>3, <2>4, Topics
  <1> QED
    BY <1>1, Topics DEF Accepted

\* Every choice that is offered would be accepted, and Home Assistant never
\* shows one that is not offered, whatever values the appliance reports.
THEOREM OfferedKept == Spec => []ShownIsOffered
  <1> DEFINE FromState == shown = Unknown \/ \E s : shown = HaDocument(s)
  <1>1. Init => FromState
    BY DEF Init
  <1>2. FromState /\ [Next]_vars => FromState'
    BY DEF Next, Press, Command, Obey, Hear, HearLate, Learn, InitialRequests, RefreshRound,
           Connect, Disconnect, Restart, vars, bridge
  <1>3. FromState => ShownIsOffered
    BY DocumentIsOffered, OfferedIsAccepted DEF ShownIsOffered
  <1> QED
    BY <1>1, <1>2, <1>3, PTL DEF Spec

\* Whatever is known of the appliance, once the echo of an offered command, or of
\* one for any temperature, is merged the document shows what was asked, in the field that Home Assistant
\* reads the command's state back from.
THEOREM RoundTrip ==
  ASSUME NEW s \in Partial, NEW topic \in DOMAIN Offered, NEW v,
         v \in Offered[topic] \/ (topic = "temperature" /\ v \in Int)
  PROVE  LET c == [topic |-> topic, payload |-> v]
         IN  Shows(HaDocument(Merge(s, Changes(c))), c)
  <1> DEFINE c == [topic |-> topic, payload |-> v]
             n == Merge(s, Changes(c))
  <1>1. c.topic = topic /\ c.payload = v
    OBVIOUS
  <1>2. \A k \in Key : n[k] = IF Mentions(Changes(c), k) THEN Changes(c)[k] ELSE s[k]
    BY DEF Merge
  <1> SUFFICES Shows(HaDocument(n), c)
    OBVIOUS
  <1> HIDE DEF c, n
  <1>3. CASE topic = "hvac_mode"
    <2>1. Changes(c) = Hvac(v)
      BY <1>1, <1>3 DEF Changes
    <2>2. v \in {"off", "cool", "dry", "fan_only", "heat"}
      BY <1>3 DEF Offered
    <2>3. CASE v = "off"
      <3>1. n["poweron"] = FALSE
        BY <1>2, <2>1, <2>3, Markers DEF Hvac, Silent, Mentions, Key, Flags, Numbers
      <3>2. HvacMode(n) = "off"
        BY <3>1, Markers DEF HvacMode, Truthy
      <3> QED
        BY <1>1, <1>3, <2>3, <3>2 DEF Shows, HaDocument, FieldOf
    <2>4. CASE v # "off"
      <3>1. n["poweron"] = TRUE /\ n["mode"] = HVAC_MODE_TO_DEVICE[v]
        <4>1. HVAC_MODE_TO_DEVICE[v] \in Int
          BY <2>2, <2>4 DEF HVAC_MODE_TO_DEVICE
        <4>2. Changes(c) = [Silent EXCEPT !["poweron"] = TRUE, !["mode"] = HVAC_MODE_TO_DEVICE[v]]
          BY <2>1, <2>4 DEF Hvac
        <4>3. PICK level \in Int : level = HVAC_MODE_TO_DEVICE[v]
          BY <4>1
        <4>4. Changes(c)["poweron"] = TRUE /\ Changes(c)["mode"] = level
          BY <4>2, <4>3 DEF Silent, Key, Flags, Numbers
        <4>5. Mentions(Changes(c), "poweron") /\ Mentions(Changes(c), "mode")
          BY <4>4, Markers DEF Mentions
        <4> QED
          BY <1>2, <4>3, <4>4, <4>5 DEF Key, Flags, Numbers
      <3>2. NameOf(HVAC_MODE_TO_DEVICE, n["mode"]) = v
        BY <2>2, <2>4, <3>1 DEF NameOf, HVAC_MODE_TO_DEVICE
      <3>3. HvacMode(n) = v
        BY <3>1, <3>2, Markers DEF HvacMode, Truthy
      <3> QED
        BY <1>1, <1>3, <3>3 DEF Shows, HaDocument, FieldOf
    <2> QED
      BY <2>3, <2>4
  <1>4. CASE topic = "fan_mode"
    <2>1. Changes(c) = Fan(v)
      BY <1>1, <1>4 DEF Changes
    <2>2. v \in {"auto", "low", "medium", "high", "extra"}
      BY <1>4 DEF Offered
    <2>3. CASE v = "extra"
      <3>1. n["extra"] = TRUE
        BY <1>2, <2>1, <2>3, Markers DEF Fan, Silent, Mentions, Key, Flags, Numbers
      <3>2. FanMode(n) = "extra"
        BY <3>1, Markers DEF FanMode, Truthy
      <3> QED
        BY <1>1, <1>4, <2>3, <3>2 DEF Shows, HaDocument, FieldOf
    <2>4. CASE v # "extra"
      <3>1. n["extra"] = FALSE /\ n["windlevel"] = FAN_MODE_TO_DEVICE[v]
        <4>1. FAN_MODE_TO_DEVICE[v] \in Int
          BY <2>2, <2>4 DEF FAN_MODE_TO_DEVICE
        <4>2. Changes(c) = [Silent EXCEPT !["eco"] = FALSE, !["extra"] = FALSE, !["sleep"] = FALSE,
                                         !["windlevel"] = FAN_MODE_TO_DEVICE[v]]
          BY <2>1, <2>4 DEF Fan
        <4>3. PICK level \in Int : level = FAN_MODE_TO_DEVICE[v]
          BY <4>1
        <4>4. Changes(c)["extra"] = FALSE /\ Changes(c)["windlevel"] = level
          BY <4>2, <4>3 DEF Silent, Key, Flags, Numbers
        <4>5. Mentions(Changes(c), "extra") /\ Mentions(Changes(c), "windlevel")
          BY <4>4, Markers DEF Mentions
        <4> QED
          BY <1>2, <4>3, <4>4, <4>5 DEF Key, Flags, Numbers
      <3>2. NameOf(FAN_MODE_TO_DEVICE, n["windlevel"]) = v
        BY <2>2, <2>4, <3>1 DEF NameOf, FAN_MODE_TO_DEVICE
      <3>3. FanMode(n) = v
        BY <3>1, <3>2, Markers DEF FanMode, Truthy
      <3> QED
        BY <1>1, <1>4, <3>3 DEF Shows, HaDocument, FieldOf
    <2> QED
      BY <2>3, <2>4
  <1>5. CASE topic = "temperature"
    <2>1. Changes(c) = [Silent EXCEPT !["templevel"] = Clamp(v)] /\ Clamp(v) \in Int
      BY <1>1, <1>5, ClampInRange
         DEF Changes, Offered, MIN_TARGET_TEMP_F, MAX_TARGET_TEMP_F
    <2>2. n["templevel"] = Clamp(v)
      BY <1>2, <2>1, Markers DEF Silent, Mentions, Key, Flags, Numbers
    <2> QED
      BY <1>1, <1>5, <2>1, <2>2 DEF Shows, HaDocument, FieldOf, NumberOrNone
  <1>6. CASE topic = "preset"
    <2>1. v \in {"eco", "sleep", "none"}
      BY <1>6 DEF Offered
    <2>2. Changes(c) = [Silent EXCEPT !["eco"] = (v = "eco"), !["sleep"] = (v = "sleep")]
      BY <1>1, <1>6 DEF Changes
    <2>3. n["eco"] = (v = "eco") /\ n["sleep"] = (v = "sleep")
      BY <1>2, <2>1, <2>2, Markers DEF Silent, Mentions, Key, Flags, Numbers
    <2>4. Preset(n) = v
      BY <2>1, <2>3, Markers DEF Preset, Truthy
    <2> QED
      BY <1>1, <1>6, <2>4 DEF Shows, HaDocument, FieldOf
  <1>7. CASE topic \notin {"hvac_mode", "fan_mode", "temperature", "preset"}
    <2>1. topic \in {"swing", "swing_horizontal", "power", "mute", "light", "child_lock"}
      BY <1>7, Topics
    <2>2. Changes(c) = [Silent EXCEPT ![FlagOf[topic]] = ToBool(v)]
      BY <1>1, <2>1 DEF Changes
    <2>3. FlagOf[topic] \in Flags
      BY <2>1 DEF FlagOf, Flags
    <2>4. ToBool(v) \in BOOLEAN
      BY DEF ToBool
    <2>5. n[FlagOf[topic]] = ToBool(v)
      BY <1>2, <2>2, <2>3, <2>4, Markers DEF Silent, Mentions, Key
    <2>6. CASE topic \in {"swing", "swing_horizontal"}
      <3>1. v = IF ToBool(v) = TRUE THEN "on" ELSE "off"
        BY <2>6 DEF Offered, ToBool, On
      <3>2. Swing(n[FlagOf[topic]]) = v
        BY <2>4, <2>5, <3>1, Markers DEF Swing, Truthy
      <3> QED
        BY <1>1, <2>6, <3>2 DEF Shows, HaDocument, FieldOf, FlagOf
    <2>7. CASE topic \in {"power", "mute", "light", "child_lock"}
      <3>1. v = IF ToBool(v) = TRUE THEN "ON" ELSE "OFF"
        BY <2>7 DEF Offered, ToBool, On
      <3>2. OnOff(n[FlagOf[topic]]) = v
        BY <2>4, <2>5, <3>1, Markers DEF OnOff, Truthy
      <3> QED
        BY <1>1, <2>7, <3>2 DEF Shows, HaDocument, FieldOf, FlagOf
    <2> QED
      BY <2>1, <2>6, <2>7
  <1> QED
    BY <1>3, <1>4, <1>5, <1>6, <1>7

-----------------------------------------------------------------------------
(* The last command *)

\* What reading q to its end makes of key k, starting from base, is v.
Ends(q, base, k, v) ==
    \A i \in 0 .. Len(q) :
        LastWord(q, k, i) => (IF i = 0 THEN base ELSE q[i])[k] = v

LEMMA EndsAppended ==
  ASSUME NEW q \in Seq(Message), NEW m \in Message, NEW base, NEW k \in Key, NEW v,
         IF Mentions(m, k) THEN m[k] = v ELSE Ends(q, base, k, v)
  PROVE  Ends(Append(q, m), base, k, v)
  <1> DEFINE r == Append(q, m)
  <1>1. Len(q) \in Nat /\ Len(r) = Len(q) + 1 /\ r[Len(q) + 1] = m
        /\ \A i \in 1 .. Len(q) : r[i] = q[i]
    OBVIOUS
  <1> HIDE DEF r
  <1> SUFFICES ASSUME NEW i \in 0 .. Len(r), LastWord(r, k, i)
               PROVE  (IF i = 0 THEN base ELSE r[i])[k] = v
    BY DEF Ends, r
  <1>2. CASE i = Len(q) + 1
    BY <1>1, <1>2 DEF LastWord
  <1>3. CASE i \in 0 .. Len(q)
    <2>1. ~Mentions(m, k)
      BY <1>1, <1>3 DEF LastWord
    <2>2. LastWord(q, k, i)
      BY <1>1, <1>3 DEF LastWord
    <2> QED
      BY <1>1, <1>3, <2>1, <2>2 DEF Ends
  <1> QED
    BY <1>1, <1>2, <1>3

LEMMA EndsShifted ==
  ASSUME NEW q \in Seq(Message), q # <<>>, NEW base, NEW next, NEW k \in Key, NEW v,
         next[k] = (IF Mentions(Head(q), k) THEN Head(q)[k] ELSE base[k]),
         Ends(q, base, k, v)
  PROVE  Ends(Tail(q), next, k, v)
  <1> SUFFICES ASSUME NEW i \in 0 .. Len(Tail(q)), LastWord(Tail(q), k, i)
               PROVE  (IF i = 0 THEN next ELSE Tail(q)[i])[k] = v
    BY DEF Ends
  <1>1. Len(q) \in Nat /\ 0 \in 0 .. Len(q)
    OBVIOUS
  <1>2. CASE i = 0
    BY <1>1, <1>2, Shifted DEF Ends
  <1>3. CASE i # 0
    <2>1. i + 1 \in 1 .. Len(q) /\ Tail(q)[i] = q[i + 1] /\ LastWord(q, k, i + 1)
      BY <1>3, Shifted
    <2> QED
      BY <1>3, <2>1 DEF Ends
  <1> QED
    BY <1>2, <1>3

\* The changes on their way to the appliance.
Order(m) == IF m.cmd = "set" THEN m.result ELSE Silent
Orders(q) == [i \in 1 .. Len(q) |-> Order(q[i])]

LEMMA OrderIsMessage ==
  ASSUME NEW m \in Injected
  PROVE  Order(m) \in Message
  BY SilentIsMessage DEF Injected, Order

LEMMA OrdersTyped ==
  ASSUME NEW q \in Seq(Injected)
  PROVE  Orders(q) \in Seq(Message) /\ Len(Orders(q)) = Len(q)
  <1>1. \A i \in 1 .. Len(q) : Order(q[i]) \in Message
    BY OrderIsMessage
  <1> QED
    BY <1>1 DEF Orders

LEMMA OrdersAppended ==
  ASSUME NEW q \in Seq(Injected), NEW m \in Injected
  PROVE  Orders(Append(q, m)) = Append(Orders(q), Order(m))
  BY OrdersTyped, OrderIsMessage DEF Orders

LEMMA OrdersShifted ==
  ASSUME NEW q \in Seq(Injected), q # <<>>
  PROVE  /\ Orders(Tail(q)) = Tail(Orders(q)) /\ Orders(q) # <<>>
         /\ Head(Orders(q)) = Order(Head(q))
  BY OrdersTyped DEF Orders

\* Each key the last command sets has that value once everything on its way is
\* read: by the appliance, and, when nothing more is on its way there, by the bridge.
Heeded ==
    asked # NoCommand =>
        /\ asked \in Commands /\ Accepted(asked)
        /\ \A k \in Key : Mentions(Changes(asked), k) =>
              /\ Ends(Orders(toAppliance), appliance, k, Changes(asked)[k])
              /\ LastWord(Orders(toAppliance), k, 0) =>
                    Ends(toBridge, known, k, Changes(asked)[k])

LEMMA HeededStep == Types /\ Heeded /\ [Next]_vars => Heeded'
  <1> SUFFICES ASSUME Types, Heeded, [Next]_vars, asked' # NoCommand
               PROVE  Heeded'
    BY DEF Heeded
  <1>0. toAppliance \in Seq(Injected) /\ toBridge \in Seq(Message)
        /\ appliance \in State /\ Orders(toAppliance) \in Seq(Message)
    BY OrdersTyped DEF Types
  \* Nothing happens, or a snapshot is asked for.
  <1>1. ASSUME UNCHANGED <<asked, appliance, toBridge, known>>,
               toAppliance' = toAppliance \/ toAppliance' = Append(toAppliance, Ask)
        PROVE  Heeded'
    <2>1. CASE toAppliance' = toAppliance
      BY <1>1, <2>1 DEF Heeded
    <2>2. CASE toAppliance' = Append(toAppliance, Ask)
      <3>1. Orders(toAppliance') = Append(Orders(toAppliance), Silent)
        BY <1>0, <2>2, AskIsInjected, OrdersAppended DEF Ask, Order
      <3>2. ASSUME NEW k \in Key PROVE ~Mentions(Silent, k)
        BY DEF Silent, Mentions
      <3>3. ASSUME NEW k \in Key, Mentions(Changes(asked), k)
            PROVE  /\ Ends(Orders(toAppliance'), appliance', k, Changes(asked)[k])
                   /\ LastWord(Orders(toAppliance'), k, 0) =>
                         Ends(toBridge', known', k, Changes(asked)[k])
        <4>1. Ends(Orders(toAppliance), appliance, k, Changes(asked)[k])
          BY <1>1, <3>3 DEF Heeded
        <4>2. Ends(Orders(toAppliance'), appliance', k, Changes(asked)[k])
          BY <1>0, <1>1, <3>1, <3>2, <4>1, SilentIsMessage, EndsAppended
        <4>3. LastWord(Orders(toAppliance'), k, 0) => LastWord(Orders(toAppliance), k, 0)
          BY <1>0, <3>1 DEF LastWord
        <4> QED
          BY <1>1, <3>3, <4>2, <4>3 DEF Heeded
      <3> QED
        BY <1>1, <3>3 DEF Heeded
    <2> QED
      BY <1>1, <2>1, <2>2
  <1>2. ASSUME NEW c \in Commands, Command(c), connected, Accepted(c)
        PROVE  Heeded'
    <2>1. asked' = c /\ toAppliance' = Append(toAppliance, Set(Changes(c)))
      BY <1>2 DEF Command, Inject
    <2>2. Orders(toAppliance') = Append(Orders(toAppliance), Changes(c))
      BY <1>0, <1>2, <2>1, SetIsInjected, OrdersAppended DEF Set, Order
    <2>3. ASSUME NEW k \in Key, Mentions(Changes(c), k)
          PROVE  /\ Ends(Orders(toAppliance'), appliance', k, Changes(c)[k])
                 /\ ~LastWord(Orders(toAppliance'), k, 0)
      <3>1. Changes(c) \in Message
        BY <1>2, ChangesAreMessage
      <3>2. Ends(Orders(toAppliance'), appliance', k, Changes(c)[k])
        BY <1>0, <2>2, <2>3, <3>1, EndsAppended
      <3>3. ~LastWord(Orders(toAppliance'), k, 0)
        BY <1>0, <2>2, <2>3, <3>1 DEF LastWord
      <3> QED
        BY <3>2, <3>3
    <2> QED
      BY <1>2, <2>1, <2>3 DEF Heeded
  <1>3. CASE Obey
    <2> DEFINE o == Head(Orders(toAppliance))
               m == IF Head(toAppliance).cmd = "set" THEN o ELSE appliance
    <2>1. /\ Orders(toAppliance) # <<>> /\ Orders(toAppliance') = Tail(Orders(toAppliance))
          /\ o = Order(Head(toAppliance)) /\ Head(toAppliance) \in Injected
      BY <1>0, <1>3, OrdersShifted DEF Obey
    <2>2. o \in Message /\ m \in Message
      BY <1>0, <2>1, OrderIsMessage, StateIsMessage
    <2>3. UNCHANGED <<asked, known>> /\ toBridge' = Append(toBridge, m)
      BY <1>3, <2>1 DEF Obey, Order, bridge
    <2>4. ASSUME NEW k \in Key
          PROVE  appliance'[k] = IF Mentions(o, k) THEN o[k] ELSE appliance[k]
      <3>1. CASE Head(toAppliance).cmd = "set"
        BY <1>3, <2>1, <3>1, Merged DEF Obey, Order
      <3>2. CASE Head(toAppliance).cmd # "set"
        BY <1>3, <2>1, <3>2 DEF Obey, Order, Silent, Mentions
      <3> QED
        BY <3>1, <3>2
    <2>5. ASSUME NEW k \in Key
          PROVE  /\ Mentions(o, k) => Mentions(m, k) /\ m[k] = o[k]
                 /\ Mentions(m, k) => m[k] = o[k] \/ m[k] = appliance[k]
                 /\ Mentions(m, k) /\ ~Mentions(o, k) => m[k] = appliance[k]
      BY <1>0, <2>1, StateIsMessage DEF Order, Silent, Mentions
    <2> HIDE DEF o, m
    <2>6. ASSUME NEW k \in Key, Mentions(Changes(asked), k)
          PROVE  /\ Ends(Orders(toAppliance'), appliance', k, Changes(asked)[k])
                 /\ LastWord(Orders(toAppliance'), k, 0) =>
                       Ends(toBridge', known', k, Changes(asked)[k])
      <3> DEFINE v == Changes(asked)[k]
      <3>1. Ends(Orders(toAppliance), appliance, k, v)
            /\ (LastWord(Orders(toAppliance), k, 0) => Ends(toBridge, known, k, v))
        BY <2>3, <2>6 DEF Heeded
      <3> HIDE DEF v
      <3>2. Ends(Orders(toAppliance'), appliance', k, v)
        BY <1>0, <2>1, <2>4, <3>1, EndsShifted DEF o
      <3>3. ASSUME LastWord(Orders(toAppliance'), k, 0)
            PROVE  Ends(toBridge', known', k, v)
        <4>1. IF Mentions(o, k) THEN LastWord(Orders(toAppliance), k, 1)
                                ELSE LastWord(Orders(toAppliance), k, 0)
          BY <1>0, <2>1, <3>3, Shifted DEF o
        <4>2. 1 \in 1 .. Len(Orders(toAppliance)) /\ o = Orders(toAppliance)[1]
          BY <1>0, <2>1, Shifted DEF o
        <4>3. CASE Mentions(o, k)
          <5>1. m[k] = v /\ Mentions(m, k)
            BY <2>5, <3>1, <4>1, <4>2, <4>3 DEF Ends
          <5> QED
            BY <1>0, <2>2, <2>3, <5>1, EndsAppended
        <4>4. CASE ~Mentions(o, k)
          <5>1. Ends(toBridge, known, k, v) /\ appliance[k] = v
            BY <3>1, <4>1, <4>2, <4>4 DEF Ends
          <5>2. Mentions(m, k) => m[k] = v
            BY <2>5, <4>4, <5>1
          <5> QED
            BY <1>0, <2>2, <2>3, <5>1, <5>2, EndsAppended
        <4> QED
          BY <4>3, <4>4
      <3> QED
        BY <3>2, <3>3 DEF v
    <2> QED
      BY <2>3, <2>6 DEF Heeded
  <1>4. CASE Hear
    <2>1. /\ toBridge # <<>> /\ toBridge' = Tail(toBridge)
          /\ known' = Merge(known, Head(toBridge))
          /\ UNCHANGED <<asked, appliance, toAppliance>>
      BY <1>4 DEF Hear, Learn
    <2>2. ASSUME NEW k \in Key, NEW v, Ends(toBridge, known, k, v)
          PROVE  Ends(toBridge', known', k, v)
      BY <1>0, <2>1, <2>2, Merged, EndsShifted
    <2> QED
      BY <2>1, <2>2 DEF Heeded
  <1>5. CASE InitialRequests \/ RefreshRound
    <2>1. /\ UNCHANGED <<asked, appliance, toBridge, known>>
          /\ toAppliance' = toAppliance \/ toAppliance' = Append(toAppliance, Ask)
      BY <1>5 DEF InitialRequests, RefreshRound, RequestSnapshot, Inject, bridge
    <2> QED
      BY <1>1, <2>1
  <1>6. ASSUME NEW c \in Commands, Command(c), ~(connected /\ Accepted(c))
        PROVE  Heeded'
    BY <1>1, <1>6 DEF Command, bridge
  <1>7. CASE UNCHANGED vars
    BY <1>1, <1>7 DEF vars
  <1>8. ~(\E p \in Presses : Press(p[1], p[2])) /\ ~HearLate /\ ~Connect /\ ~Disconnect /\ ~Restart
    BY DEF Press, HearLate, Connect, Disconnect, Restart
  <1> QED
    BY <1>2, <1>3, <1>4, <1>5, <1>6, <1>7, <1>8 DEF Next

\* If Home Assistant sends only what it was offered (or any temperature), then
\* once everything is read it shows what was asked for last, whatever the
\* appliance was doing when it was asked.
THEOREM AskedIsShown ==
  ASSUME \A c \in Commands : Accepted(c) =>
             c.payload \in Offered[c.topic] \/ c.topic = "temperature"
  PROVE  Spec => []ShownAsAsked
  <1>1. Init => Types /\ Heeded
    BY TypesInit DEF Init, Heeded
  <1>2. Types /\ Heeded /\ [Next]_vars => Types' /\ Heeded'
    BY TypesStep, HeededStep
  <1>3. Types /\ Heeded /\ ShownIsKnown => ShownAsAsked
    <2> SUFFICES ASSUME Types, Heeded, ShownIsKnown, Idle, asked # NoCommand,
                        HasCoreState(known)
                 PROVE  Shows(shown, asked)
      BY DEF ShownAsAsked
    <2> DEFINE c == [topic |-> asked.topic, payload |-> asked.payload]
    <2>1. asked \in Commands /\ Accepted(asked)
      BY DEF Heeded
    <2>2. asked.topic \in DOMAIN Offered
          /\ \/ asked.payload \in Offered[asked.topic]
             \/ asked.topic = "temperature" /\ asked.payload \in Int
      BY <2>1, Topics DEF Accepted, Payloads
    <2>3. Changes(c) = Changes(asked)
      BY DEF Changes
    <2>4. ASSUME NEW k \in Key, Mentions(Changes(asked), k)
          PROVE  known[k] = Changes(asked)[k]
      <3>1. Len(Orders(toAppliance)) = 0 /\ Len(toBridge) = 0
        BY OrdersTyped DEF Idle, Types
      <3>2. LastWord(Orders(toAppliance), k, 0) /\ LastWord(toBridge, k, 0)
        BY <3>1 DEF LastWord
      <3>3. Ends(toBridge, known, k, Changes(asked)[k])
        BY <2>4, <3>2 DEF Heeded
      <3> QED
        BY <3>1, <3>2, <3>3 DEF Ends
    <2>5. Merge(known, Changes(asked)) = known
      BY <2>4 DEF Merge, Types, Partial
    <2>6. Shows(HaDocument(known), c)
      BY <2>2, <2>3, <2>5, RoundTrip DEF Types
    <2> QED
      BY <2>6 DEF Shows, ShownIsKnown
  <1> QED
    BY <1>1, <1>2, <1>3, ShownKept, PTL DEF Spec
=============================================================================
