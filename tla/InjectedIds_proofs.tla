-------------------------- MODULE InjectedIds_proofs --------------------------
(***************************************************************************)
(* Proofs about InjectedIds, for every range of ids, every cap and every   *)
(* set of ids the cloud may use.                                           *)
(*                                                                         *)
(* The facts about sets come first: a set of numbers has a least member, a *)
(* table below its cap leaves an id free, the allocator finds it.          *)
(***************************************************************************)
EXTENDS InjectedIds, FiniteSetTheorems, TLAPS

(***************************************************************************)
(* A non-empty set of numbers below a bound has a least member.  If it had *)
(* none, adding one would map its lower bounds one-to-one into themselves, *)
(* a finite set, and yet nothing maps to 0.                                *)
(***************************************************************************)
LEMMA LeastMember ==
    ASSUME NEW n \in Nat, NEW S \in SUBSET (0 .. n), S # {}
    PROVE  \E k \in S : \A j \in S : k <= j
<1> SUFFICES ASSUME ~ \E k \in S : \A j \in S : k <= j
             PROVE  FALSE
    OBVIOUS
<1>1. S \subseteq Int /\ \A j \in S : 0 <= j /\ j <= n
    OBVIOUS
<1> DEFINE Lower == {k \in 0 .. n : \A j \in S : k <= j}
           Succ  == [k \in Lower |-> k + 1]
<1>2. IsFiniteSet(Lower)
    <2>1. IsFiniteSet(0 .. n)
        BY 0 \in Int, n \in Int, FS_Interval
    <2>2. QED
        BY <2>1, Lower \in SUBSET (0 .. n), FS_Subset
<1>3. \A k \in Lower : k + 1 \in Lower
    <2>1. TAKE k \in Lower
    <2>2. k \notin S /\ k \in Int
        OBVIOUS
    <2>3. \A j \in S : k + 1 <= j
        BY <1>1, <2>2
    <2>4. PICK j \in S : TRUE
        OBVIOUS
    <2>5. k + 1 <= n
        BY <1>1, <2>2, <2>3, <2>4
    <2>6. QED
        BY <2>2, <2>3, <2>5
<1>4. Succ \in [Lower -> Lower]
    BY <1>3
<1>5. \A a, b \in Lower : Succ[a] = Succ[b] => a = b
    OBVIOUS
<1>6. Succ \in Injection(Lower, Lower)
    BY <1>4, <1>5 DEF Injection, IsInjective
<1>7. Succ \in Surjection(Lower, Lower)
    BY <1>2, <1>6, FS_Injection
<1>8. 0 \in Lower
    BY <1>1
<1>9. PICK k \in Lower : Succ[k] = 0
    BY <1>7, <1>8 DEF Surjection
<1>10. k + 1 = 0 /\ k \in Nat
    BY <1>9
<1>11. QED
    BY <1>10

\* The counter stays in the range.
LEMMA WrapInRange ==
    ASSUME NEW a \in Ids, NEW b \in Ids
    PROVE  Wrap(a + b) \in Ids /\ Wrap(a + 1) \in Ids
BY SizesAssumption DEF Ids, Wrap

(***************************************************************************)
(* The allocator returns an id of the range, and a free one if there is    *)
(* one (_allocate_injected_packet_id: "a free id always exists within one  *)
(* pass").                                                                 *)
(***************************************************************************)
LEMMA FreeIdIsFree ==
    ASSUME counter \in Ids, NEW taken \in SUBSET Ids
    PROVE  /\ FreeId(taken) \in Ids
           /\ taken # Ids => FreeId(taken) \notin taken
<1> DEFINE Free(k) == Wrap(counter + k) \notin taken
           First   == {k \in Ids : Free(k) /\ \A j \in 0 .. k - 1 : ~Free(j)}
<1>1. FreeId(taken) = IF First = {} THEN counter ELSE Wrap(counter + CHOOSE k \in First : TRUE)
    BY DEF FreeId
<1>2. First # {} => /\ (CHOOSE k \in First : TRUE) \in Ids
                    /\ Free(CHOOSE k \in First : TRUE)
    OBVIOUS
<1>3. ASSUME taken # Ids
      PROVE  First # {}
    <2>1. PICK x \in Ids : x \notin taken
        BY <1>3
    <2> DEFINE d == IF x >= counter THEN x - counter ELSE x - counter + RangeSize
    <2>2. d \in Ids /\ Wrap(counter + d) = x
        BY SizesAssumption DEF Ids, Wrap
    <2> DEFINE AllFree == {k \in Ids : Free(k)}
    <2>3. AllFree # {} /\ AllFree \in SUBSET (0 .. RangeSize - 1)
        BY <2>1, <2>2 DEF Ids
    <2> HIDE DEF AllFree
    <2>4. PICK k \in AllFree : \A j \in AllFree : k <= j
        <3>1. RangeSize - 1 \in Nat
            BY SizesAssumption
        <3>2. QED
            BY <2>3, <3>1, LeastMember
    <2> USE DEF AllFree
    <2>5. \A j \in 0 .. k - 1 : ~Free(j)
        BY <2>4, SizesAssumption DEF Ids
    <2>6. QED
        BY <2>4, <2>5
<1>4. QED
    BY <1>1, <1>2, <1>3, WrapInRange

\* The table is a finite set of ids.
LEMMA PendingIsFinite ==
    /\ IsFiniteSet(Ids) /\ Cardinality(Ids) = RangeSize
    /\ IsFiniteSet(Pending) /\ Cardinality(Pending) \in Nat
<1>1. IsFiniteSet(Ids) /\ Cardinality(Ids) = RangeSize
    BY FS_Interval, SizesAssumption DEF Ids
<1>2. IsFiniteSet(Pending)
    BY <1>1, FS_Subset DEF Pending
<1>3. QED
    BY <1>1, <1>2, FS_CardinalityType

(***************************************************************************)
(* A full table has an oldest record.                                      *)
(***************************************************************************)
LEMMA OldestExists ==
    ASSUME TypeOK, Pending # {}
    PROVE  Oldest # {}
<1> DEFINE Numbers == {since[id] : id \in Pending}
<1>1. injects \in Nat /\ \A id \in Pending : since[id] \in 0 .. injects
    BY DEF TypeOK, Pending
<1>2. Numbers \in SUBSET (0 .. injects)
    BY <1>1
<1>3. Numbers # {}
    OBVIOUS
<1>4. PICK k \in Numbers : \A j \in Numbers : k <= j
    BY <1>1, <1>2, <1>3, LeastMember
<1>5. PICK id \in Pending : since[id] = k
    OBVIOUS
<1>6. id \in Oldest
    BY <1>4, <1>5 DEF Oldest
<1>7. QED
    BY <1>6

(***************************************************************************)
(* Eviction makes room: with the cap respected before, what is left is     *)
(* smaller than the cap, hence smaller than the range.                     *)
(***************************************************************************)
LEMMA EvictionMakesRoom ==
    ASSUME TypeOK, TableIsBounded
    PROVE  /\ IsFiniteSet(Pending \ Evicted)
           /\ Cardinality(Pending \ Evicted) \in Nat
           /\ Cardinality(Pending \ Evicted) < MaxPending
           /\ Pending \ Evicted # Ids
           /\ Pending \ Evicted \subseteq Ids
<1>1. /\ IsFiniteSet(Pending \ Evicted)
      /\ Cardinality(Pending \ Evicted) \in Nat
      /\ Cardinality(Pending \ Evicted) <= Cardinality(Pending)
    BY PendingIsFinite, FS_Subset, FS_CardinalityType
<1>2. Cardinality(Pending \ Evicted) < MaxPending
    <2>1. CASE Cardinality(Pending) < MaxPending
        <3>1. \A a, b, c \in Int : a <= b /\ b < c => a < c
            OBVIOUS
        <3>2. MaxPending \in Int
            BY SizesAssumption
        <3>3. QED
            BY <1>1, <2>1, <3>1, <3>2, PendingIsFinite
    <2>2. CASE Cardinality(Pending) >= MaxPending
        <3>1. Pending # {}
            BY <2>2, FS_EmptySet, SizesAssumption
        <3>2. PICK x \in Oldest : TRUE
            BY <3>1, OldestExists
        <3>3. x \in Pending /\ x \in Evicted
            BY <2>2, <3>2 DEF Evicted, Oldest
        <3>4. Cardinality(Pending \ {x}) = Cardinality(Pending) - 1 /\ IsFiniteSet(Pending \ {x})
            BY <3>3, PendingIsFinite, FS_RemoveElement
        <3>5. Cardinality(Pending \ Evicted) <= Cardinality(Pending \ {x})
            BY <3>3, <3>4, FS_Subset
        <3>6. QED
            BY <1>1, <3>4, <3>5, PendingIsFinite, SizesAssumption DEF TableIsBounded
    <2>3. QED
        BY <2>1, <2>2, PendingIsFinite, SizesAssumption
<1>3. Pending \ Evicted # Ids
    BY <1>1, <1>2, PendingIsFinite, SizesAssumption
<1>4. QED
    BY <1>1, <1>2, <1>3 DEF Pending

-----------------------------------------------------------------------------
(* The invariant *)

(***************************************************************************)
(* What an injection does: the id it takes is of the range, and is not     *)
(* among the records it keeps.                                             *)
(***************************************************************************)
LEMMA InjectTakesAFreeId ==
    ASSUME TypeOK, TableIsBounded, Inject
    PROVE  \E id \in Ids :
              /\ id \notin Pending \ Evicted
              /\ since' = [i \in Ids |-> IF i = id THEN injects + 1
                                         ELSE IF i \in Evicted THEN 0 ELSE since[i]]
              /\ Pending' = (Pending \ Evicted) \cup {id}
              /\ counter' \in Ids
              /\ own' = [own EXCEPT ![id] = @ + 1] \/ own' = own
<1> DEFINE id == FreeId(Pending \ Evicted)
<1>1. counter \in Ids /\ injects \in Nat
    BY DEF TypeOK
<1>2. id \in Ids /\ id \notin Pending \ Evicted
    BY <1>1, EvictionMakesRoom, FreeIdIsFree
<1>3. /\ since' = [i \in Ids |-> IF i = id THEN injects + 1
                                 ELSE IF i \in Evicted THEN 0 ELSE since[i]]
      /\ counter' = Wrap(id + 1)
      /\ own' = [own EXCEPT ![id] = @ + 1] \/ own' = own
    BY DEF Inject
<1> HIDE DEF id
<1>4. Pending' = (Pending \ Evicted) \cup {id}
    <2>1. Pending' = {i \in Ids : since'[i] # 0}
        BY DEF Pending
    <2>2. \A i \in Ids : since'[i] # 0 <=> i = id \/ (i \notin Evicted /\ since[i] # 0)
        BY <1>1, <1>3
    <2>3. QED
        BY <1>2, <2>1, <2>2 DEF Pending
<1>5. QED
    BY <1>2, <1>3, <1>4, WrapInRange

\* Nothing is on record at first.
LEMMA InvInit == Init => InjectedInv
<1> SUFFICES ASSUME Init PROVE InjectedInv
    OBVIOUS
<1>1. Pending = {}
    BY DEF Init, Pending
<1>2. TypeOK
    BY SizesAssumption DEF Init, TypeOK, Ids
<1>3. TableIsBounded
    BY <1>1, FS_EmptySet, SizesAssumption DEF TableIsBounded
<1>4. OutstandingIsOnRecord
    BY <1>1 DEF Init, OutstandingIsOnRecord, Records
<1>5. QED
    BY <1>1, <1>2, <1>3, <1>4 DEF InjectedInv, NumberedApart

\* An injection keeps the invariant.
LEMMA InvInject == InjectedInv /\ Inject => InjectedInv'
<1> SUFFICES ASSUME InjectedInv, Inject PROVE InjectedInv'
    OBVIOUS
<1> USE DEF InjectedInv
<1>1. PICK id \in Ids :
          /\ id \notin Pending \ Evicted
          /\ since' = [i \in Ids |-> IF i = id THEN injects + 1
                                     ELSE IF i \in Evicted THEN 0 ELSE since[i]]
          /\ Pending' = (Pending \ Evicted) \cup {id}
          /\ counter' \in Ids
          /\ own' = [own EXCEPT ![id] = @ + 1] \/ own' = own
    BY InjectTakesAFreeId
<1>2. /\ injects \in Nat /\ injects' = injects + 1
      /\ since \in [Ids -> 0 .. injects] /\ own \in [Ids -> Nat] /\ gone \subseteq Ids
      /\ gone' = gone \cup StillUnacked(Evicted, own)
      /\ sentUp' = {} /\ cloud' = cloud /\ relaying' = relaying
    BY DEF TypeOK, Inject
<1>3. Evicted \subseteq Pending /\ Pending \subseteq Ids
    BY DEF Evicted, Oldest, Pending
<1>4. TypeOK'
    <2>1. since' \in [Ids -> 0 .. injects']
        BY <1>1, <1>2
    <2>2. own' \in [Ids -> Nat]
        BY <1>1, <1>2
    <2>3. gone' \subseteq Ids
        BY <1>2, <1>3 DEF StillUnacked
    <2>4. QED
        BY <1>1, <1>2, <2>1, <2>2, <2>3 DEF TypeOK
<1>5. NumberedApart'
    <2>1. \A a \in Pending' : since'[a] = IF a = id THEN injects + 1 ELSE since[a]
        BY <1>1, <1>3
    <2>2. \A a \in Pending' : a # id => a \in Pending
        BY <1>1
    <2>3. SUFFICES ASSUME NEW a \in Pending', NEW b \in Pending', since'[a] = since'[b]
                   PROVE  a = b
        BY DEF NumberedApart
    <2>4. \A i \in Pending : since[i] # injects + 1
        BY <1>2, <1>3
    <2>5. CASE a = id \/ b = id
        BY <2>1, <2>2, <2>3, <2>4, <2>5
    <2>6. CASE a # id /\ b # id
        BY <2>1, <2>2, <2>3, <2>6 DEF NumberedApart
    <2>7. QED
        BY <2>5, <2>6
<1>6. TableIsBounded'
    <2>1. /\ IsFiniteSet(Pending \ Evicted)
          /\ Cardinality(Pending \ Evicted) \in Nat
          /\ Cardinality(Pending \ Evicted) < MaxPending
        BY EvictionMakesRoom
    <2>2. Cardinality((Pending \ Evicted) \cup {id}) = Cardinality(Pending \ Evicted) + 1
        BY <1>1, <2>1, FS_AddElement
    <2>3. QED
        BY <1>1, <2>1, <2>2, SizesAssumption DEF TableIsBounded
<1>7. OutstandingIsOnRecord'
    <2>1. SUFFICES ASSUME NEW i \in Ids, own'[i] > Records(i)'
                   PROVE  i \in gone'
        BY DEF OutstandingIsOnRecord
    <2>2. own[i] \in Nat /\ (own[i] > Records(i) => i \in gone)
        BY <1>2 DEF OutstandingIsOnRecord
    <2>3. CASE i \in Evicted /\ own[i] > 0
        BY <1>2, <2>3 DEF StillUnacked
    <2>4. CASE i \in Evicted /\ own[i] = 0
        <3>1. own'[i] = IF i = id THEN own'[i] ELSE 0
            BY <1>1, <1>2, <2>4
        <3>2. own'[i] <= 1 /\ (i # id => own'[i] = 0)
            BY <1>1, <1>2, <2>4
        <3>3. i = id => Records(i)' = 1
            BY <1>1 DEF Records
        <3>4. Records(i)' \in {0, 1} /\ own'[i] \in Nat
            BY <1>4 DEF Records, TypeOK
        <3>5. QED
            BY <2>1, <3>2, <3>3, <3>4
    <2>5. CASE i \notin Evicted /\ i = id
        <3>1. i \notin Pending /\ Records(i) = 0 /\ Records(i)' = 1
            BY <1>1, <2>5 DEF Records
        <3>2. own'[i] <= own[i] + 1
            BY <1>1, <1>2, <2>2, <2>5
        <3>3. own[i] > 0
            BY <2>1, <2>2, <3>1, <3>2, <1>4 DEF TypeOK
        <3>4. QED
            BY <1>2, <2>2, <3>1, <3>3
    <2>6. CASE i \notin Evicted /\ i # id
        <3>1. Records(i)' = Records(i) /\ own'[i] = own[i]
            BY <1>1, <1>2, <2>6 DEF Records
        <3>2. QED
            BY <1>2, <2>1, <2>2, <3>1
    <2>7. QED
        BY <2>2, <2>3, <2>4, <2>5, <2>6
<1>8. QED
    BY <1>4, <1>5, <1>6, <1>7

(***************************************************************************)
(* A PUBACK, whomever it is for: its record goes, or nothing changes.      *)
(***************************************************************************)
LEMMA PubAckKeepsTheTable ==
    ASSUME InjectedInv, NEW id \in Ids, NEW of \in {"bridge", "cloud"}, HandlePubAck(id, of)
    PROVE  /\ Pending' = Pending \ {id}
           /\ since' \in [Ids -> 0 .. injects']
           /\ sentUp' \subseteq [id : Ids, of : {"bridge", "cloud"}]
           /\ NumberedApart' /\ TableIsBounded'
<1> USE DEF InjectedInv
<1>1. since \in [Ids -> 0 .. injects] /\ injects \in Nat /\ injects' = injects
    BY DEF TypeOK, HandlePubAck
<1>2. since' = IF id \in Pending THEN [since EXCEPT ![id] = 0] ELSE since
    BY DEF HandlePubAck, Swallowed
<1>3. \A i \in Ids : since'[i] = IF i = id /\ id \in Pending THEN 0 ELSE since[i]
    BY <1>1, <1>2
<1>4. Pending' = Pending \ {id}
    BY <1>1, <1>3 DEF Pending
<1>5. NumberedApart'
    BY <1>3, <1>4 DEF NumberedApart, Pending
<1>6. TableIsBounded'
    <2>1. Cardinality(Pending') <= Cardinality(Pending) /\ Cardinality(Pending') \in Nat
        BY <1>4, PendingIsFinite, FS_Subset, FS_CardinalityType
    <2>2. QED
        BY <2>1, PendingIsFinite, SizesAssumption DEF TableIsBounded
<1>7. QED
    BY <1>1, <1>2, <1>4, <1>5, <1>6 DEF HandlePubAck

\* The appliance acknowledges an injected PUBLISH.
LEMMA InvAcksOwn ==
    ASSUME InjectedInv, NEW id \in Ids, AcksOwn(id)
    PROVE  InjectedInv'
<1> USE DEF InjectedInv
<1>1. /\ own \in [Ids -> Nat] /\ own[id] > 0 /\ own' = [own EXCEPT ![id] = @ - 1]
      /\ gone \subseteq Ids /\ gone' = StillUnacked(gone, own')
      /\ cloud' = cloud /\ counter' = counter /\ relaying' = relaying /\ injects' = injects
      /\ HandlePubAck(id, "bridge")
    BY DEF AcksOwn, HandlePubAck, TypeOK
<1>2. /\ Pending' = Pending \ {id}
      /\ since' \in [Ids -> 0 .. injects']
      /\ sentUp' \subseteq [id : Ids, of : {"bridge", "cloud"}]
      /\ NumberedApart' /\ TableIsBounded'
    BY <1>1, PubAckKeepsTheTable
<1>3. own' \in [Ids -> Nat]
    BY <1>1
<1>4. TypeOK'
    BY <1>1, <1>2, <1>3 DEF TypeOK, StillUnacked
<1>5. OutstandingIsOnRecord'
    <2>1. SUFFICES ASSUME NEW i \in Ids, own'[i] > Records(i)'
                   PROVE  i \in gone'
        BY DEF OutstandingIsOnRecord
    <2>2. /\ own[i] \in Nat /\ own'[i] \in Nat
          /\ own'[i] = IF i = id THEN own[i] - 1 ELSE own[i]
        BY <1>1
    <2>3. Records(i)' = IF i \in Pending /\ i # id THEN 1 ELSE 0
        BY <1>2 DEF Records
    <2>4. Records(i) = IF i \in Pending THEN 1 ELSE 0
        BY DEF Records
    <2>5. own[i] > Records(i) /\ own'[i] > 0
        BY <2>1, <2>2, <2>3, <2>4
    <2>6. i \in gone
        BY <2>5 DEF OutstandingIsOnRecord
    <2>7. QED
        BY <1>1, <2>5, <2>6 DEF StillUnacked
<1>6. QED
    BY <1>2, <1>4, <1>5

\* The appliance acknowledges a PUBLISH of the cloud.
LEMMA InvAcksCloud ==
    ASSUME InjectedInv, NEW id \in CloudIds, AcksCloud(id)
    PROVE  InjectedInv'
<1> USE DEF InjectedInv
<1>1. id \in Ids
    BY SizesAssumption
<1>2. /\ cloud \in [CloudIds -> Nat] /\ cloud[id] > 0 /\ cloud' = [cloud EXCEPT ![id] = @ - 1]
      /\ gone \subseteq Ids /\ gone' = gone \cup StillUnacked({id} \cap Pending, own)
      /\ own \in [Ids -> Nat] /\ own' = own
      /\ counter' = counter /\ relaying' = relaying /\ injects' = injects
      /\ HandlePubAck(id, "cloud")
    BY DEF AcksCloud, HandlePubAck, TypeOK
<1>3. /\ Pending' = Pending \ {id}
      /\ since' \in [Ids -> 0 .. injects']
      /\ sentUp' \subseteq [id : Ids, of : {"bridge", "cloud"}]
      /\ NumberedApart' /\ TableIsBounded'
    BY <1>1, <1>2, PubAckKeepsTheTable
<1>4. cloud' \in [CloudIds -> Nat]
    BY <1>2
<1>5. TypeOK'
    BY <1>1, <1>2, <1>3, <1>4 DEF TypeOK, StillUnacked
<1>6. OutstandingIsOnRecord'
    <2>1. SUFFICES ASSUME NEW i \in Ids, own[i] > Records(i)'
                   PROVE  i \in gone'
        BY <1>2 DEF OutstandingIsOnRecord
    <2>2. CASE i = id /\ i \in Pending
        <3>1. Records(i)' = 0
            BY <1>3, <2>2 DEF Records
        <3>2. QED
            BY <1>2, <2>1, <2>2, <3>1 DEF StillUnacked
    <2>3. CASE ~(i = id /\ i \in Pending)
        <3>1. Records(i)' = Records(i)
            BY <1>3, <2>3 DEF Records
        <3>2. QED
            BY <1>2, <2>1, <3>1 DEF OutstandingIsOnRecord
    <2>4. QED
        BY <2>2, <2>3
<1>7. QED
    BY <1>3, <1>5, <1>6

\* The steps that leave the table alone.
LEMMA InvOther ==
    InjectedInv /\ (UNCHANGED vars \/ FallBack \/ \E id \in CloudIds : CloudPublish(id))
        => InjectedInv'
<1> SUFFICES ASSUME InjectedInv,
                    UNCHANGED vars \/ FallBack \/ \E id \in CloudIds : CloudPublish(id)
             PROVE  InjectedInv'
    OBVIOUS
<1> USE DEF InjectedInv
<1>1. since' = since /\ own' = own /\ gone' = gone /\ injects' = injects /\ counter' = counter
    BY DEF vars, FallBack, CloudPublish
<1>2. Pending' = Pending
    BY <1>1 DEF Pending
<1>3. cloud' \in [CloudIds -> Nat] /\ relaying' \in BOOLEAN
    <2>1. cloud \in [CloudIds -> Nat] /\ relaying \in BOOLEAN
        BY DEF TypeOK
    <2>2. CASE UNCHANGED vars \/ FallBack
        <3>1. cloud' = cloud /\ (relaying' = relaying \/ relaying' = FALSE)
            BY <2>2 DEF vars, FallBack
        <3>2. QED
            BY <2>1, <3>1
    <2>3. CASE \E id \in CloudIds : CloudPublish(id)
        <3>1. PICK id \in CloudIds : CloudPublish(id)
            BY <2>3
        <3>2. cloud' = [cloud EXCEPT ![id] = @ + 1] /\ relaying' = relaying
            BY <3>1 DEF CloudPublish
        <3>3. cloud' \in [CloudIds -> Nat]
            BY <2>1, <3>2
        <3>4. QED
            BY <2>1, <3>2, <3>3
    <2>4. QED
        BY <2>2, <2>3
<1>4. sentUp' \subseteq [id : Ids, of : {"bridge", "cloud"}]
    BY DEF vars, FallBack, CloudPublish, TypeOK
<1>5. TypeOK'
    BY <1>1, <1>3, <1>4 DEF TypeOK
<1>6. NumberedApart' /\ TableIsBounded' /\ OutstandingIsOnRecord'
    BY <1>1, <1>2 DEF NumberedApart, TableIsBounded, OutstandingIsOnRecord, Records
<1>7. QED
    BY <1>5, <1>6

\* Every step keeps the invariant.
LEMMA InvNext == InjectedInv /\ [Next]_vars => InjectedInv'
<1> SUFFICES ASSUME InjectedInv, [Next]_vars PROVE InjectedInv'
    OBVIOUS
<1>1. CASE Inject
    BY <1>1, InvInject
<1>2. CASE \E id \in Ids : AcksOwn(id)
    BY <1>2, InvAcksOwn
<1>3. CASE \E id \in CloudIds : AcksCloud(id)
    BY <1>3, InvAcksCloud
<1>4. CASE UNCHANGED vars \/ FallBack \/ \E id \in CloudIds : CloudPublish(id)
    BY <1>4, InvOther
<1>5. QED
    BY <1>1, <1>2, <1>3, <1>4 DEF Next

LEMMA Invariant == Spec => []InjectedInv
BY InvInit, InvNext, PTL DEF Spec

-----------------------------------------------------------------------------
(* The theorems *)

(***************************************************************************)
(* Every variable keeps its type: ids stay in the range whatever wraps.    *)
(***************************************************************************)
THEOREM InjectedTypeOK == Spec => []TypeOK
<1>1. InjectedInv => TypeOK
    BY DEF InjectedInv
<1>2. QED
    BY <1>1, Invariant, PTL

(***************************************************************************)
(* _allocate_injected_packet_id never lets the table outgrow its cap.      *)
(***************************************************************************)
THEOREM InjectedTableIsBounded == Spec => []TableIsBounded
<1>1. InjectedInv => TableIsBounded
    BY DEF InjectedInv
<1>2. QED
    BY <1>1, Invariant, PTL

(***************************************************************************)
(* An injected PUBLISH still to be acknowledged is on record, unless its   *)
(* record was evicted or spent on a PUBACK meant for the cloud.            *)
(***************************************************************************)
THEOREM InjectedIsOnRecord == Spec => []OutstandingIsOnRecord
<1>1. InjectedInv => OutstandingIsOnRecord
    BY DEF InjectedInv
<1>2. QED
    BY <1>1, Invariant, PTL

(***************************************************************************)
(* _handle_device_packet forwards no PUBACK of an injected PUBLISH to the  *)
(* cloud but for such a lost record.                                       *)
(***************************************************************************)
THEOREM InjectedLeaksNeedALoss == Spec => LeaksNeedALoss
<1>1. ASSUME InjectedInv, [Next]_vars
      PROVE  [\A id \in Ids : [id |-> id, of |-> "bridge"] \in sentUp' => id \in gone]_vars
    <2> SUFFICES ASSUME ~ UNCHANGED vars,
                        NEW id \in Ids, [id |-> id, of |-> "bridge"] \in sentUp'
                 PROVE  id \in gone
        OBVIOUS
    <2>1. PICK i \in Ids : AcksOwn(i)
        <3>1. ~ Inject /\ ~ FallBack /\ ~ \E c \in CloudIds : CloudPublish(c)
            BY DEF Inject, FallBack, CloudPublish
        <3>2. ~ \E c \in CloudIds : AcksCloud(c)
            <4> SUFFICES ASSUME NEW c \in CloudIds, AcksCloud(c) PROVE FALSE
                OBVIOUS
            <4>1. sentUp' \subseteq {[id |-> c, of |-> "cloud"]}
                BY DEF AcksCloud, HandlePubAck
            <4>2. [id |-> id, of |-> "bridge"] = [id |-> c, of |-> "cloud"]
                BY <4>1
            <4>3. [id |-> id, of |-> "bridge"].of = "bridge" /\ [id |-> c, of |-> "cloud"].of = "cloud"
                OBVIOUS
            <4>4. QED
                BY <4>2, <4>3
        <3>3. QED
            BY <1>1, <3>1, <3>2 DEF Next
    <2>2. i = id /\ id \notin Pending
        BY <2>1 DEF AcksOwn, HandlePubAck, Swallowed
    <2>3. own[id] > 0 /\ own[id] \in Nat
        BY <1>1, <2>1, <2>2 DEF AcksOwn, InjectedInv, TypeOK
    <2>4. QED
        BY <1>1, <2>2, <2>3 DEF InjectedInv, OutstandingIsOnRecord, Records
<1>2. QED
    BY <1>1, Invariant, PTL DEF Spec, LeaksNeedALoss

(***************************************************************************)
(* The record evicted is the oldest: MaxPending newer ids were injected    *)
(* since.  The records since then are numbered apart from it to the last   *)
(* injection, and the table is full, so there are that many of them.       *)
(***************************************************************************)
THEOREM InjectedEvictsOnlyTheOldest == Spec => EvictsOnlyTheOldest
<1> DEFINE Old == injects' > injects =>
                     \A id \in Pending : since'[id] # since[id] =>
                         injects' - since[id] >= MaxPending
<1>1. ASSUME InjectedInv, [Next]_vars
      PROVE  Old
    <2> SUFFICES ASSUME injects' > injects, NEW id \in Pending, since'[id] # since[id]
                 PROVE  injects' - since[id] >= MaxPending
        OBVIOUS
    <2>1. TypeOK /\ NumberedApart /\ TableIsBounded /\ injects \in Nat
        BY <1>1 DEF InjectedInv, TypeOK
    <2>2. Inject
        <3>1. ~ (injects' = injects)
            BY <2>1
        <3>2. QED
            BY <1>1, <3>1 DEF Next, vars, FallBack, CloudPublish,
               AcksOwn, AcksCloud, HandlePubAck
    <2>3. id \in Evicted
        BY <2>1, <2>2, InjectTakesAFreeId DEF Pending
    <2>4. Cardinality(Pending) >= MaxPending /\ id \in Oldest
        BY <2>3 DEF Evicted
    <2> DEFINE Number == [i \in Pending |-> since[i]]
               Later  == since[id] .. injects
    <2>5. since[id] \in 1 .. injects /\ \A i \in Pending : since[i] \in Later
        BY <2>1, <2>4 DEF TypeOK, Pending, Oldest
    <2>6. IsFiniteSet(Later) /\ Cardinality(Later) = injects - since[id] + 1
        BY <2>1, <2>5, FS_Interval
    <2>7. Number \in Injection(Pending, Later)
        BY <2>1, <2>5 DEF Injection, IsInjective, NumberedApart
    <2>8. Cardinality(Pending) <= Cardinality(Later)
        BY <2>6, <2>7, FS_Injection
    <2>9. injects' = injects + 1
        BY <2>2 DEF Inject
    <2>10. QED
        BY <2>1, <2>4, <2>5, <2>6, <2>8, <2>9, PendingIsFinite, SizesAssumption
<1>2. QED
    BY <1>1, Invariant, PTL DEF Spec, EvictsOnlyTheOldest
=============================================================================
