----------------------------- MODULE InjectedIds -----------------------------
(***************************************************************************)
(* The packet ids of the PUBLISHes the bridge injects into a session       *)
(* (device_session.py: inject_publish, _allocate_injected_packet_id and    *)
(* the PUBACK filter of _handle_device_packet).                            *)
(*                                                                         *)
(* "Injected packets use a private packet-id range so the device's PUBACKs *)
(* for them are recognized and never leaked upstream."  The table of       *)
(* outstanding ids is capped, ids are reused, and the cloud may use the    *)
(* same ids for its own PUBLISHes: the module says what is left of that    *)
(* promise at those limits.                                                *)
(*                                                                         *)
(* An id is its offset from _INJECTED_PACKET_ID_START.  The code's table   *)
(* is an insertion-ordered dict; `since` numbers the insertions instead.   *)
(***************************************************************************)
EXTENDS Integers, FiniteSets

CONSTANTS
    RangeSize,      \* _INJECTED_PACKET_ID_RANGE_SIZE
    MaxPending,     \* _MAX_PENDING_INJECTED_PUBLISHES
    CloudIds,       \* ids of this range that the cloud uses
    MaxInjects,     \* bound on the number of injected PUBLISHes
    MaxUnacked      \* bound on the cloud's unacknowledged PUBLISHes of one id

Ids == 0 .. RangeSize - 1

ASSUME SizesAssumption ==
    /\ RangeSize \in Nat \ {0}
    /\ MaxPending \in 1 .. RangeSize
    /\ MaxInjects \in Nat /\ MaxUnacked \in Nat
    /\ CloudIds \subseteq Ids

VARIABLES
    injects,    \* number of PUBLISHes injected so far
    since,      \* _injected_packet_ids: the number of the injection, 0 if absent
    counter,    \* the next value of _packet_id_counter
    own, cloud, \* the appliance: PUBLISHes it has not acknowledged, per id
    relaying,   \* the session's upstream is attached and open
    sentUp,     \* PUBACKs the last step forwarded to the cloud
    gone        \* history: ids with an own PUBLISH whose record was dropped

vars == <<injects, since, counter, own, cloud, relaying, sentUp, gone>>

Pending == {id \in Ids : since[id] # 0}

TypeOK ==
    /\ injects \in Nat
    /\ since \in [Ids -> 0 .. injects]
    /\ counter \in Ids
    /\ own \in [Ids -> Nat]
    /\ cloud \in [CloudIds -> Nat]
    /\ relaying \in BOOLEAN
    /\ sentUp \subseteq [id : Ids, of : {"bridge", "cloud"}]
    /\ gone \subseteq Ids

Init ==
    /\ injects = 0
    /\ since = [id \in Ids |-> 0]
    /\ counter = 0
    /\ own = [id \in Ids |-> 0]
    /\ cloud = [id \in CloudIds |-> 0]
    /\ relaying \in BOOLEAN
    /\ sentUp = {}
    /\ gone = {}

-----------------------------------------------------------------------------
\* Mutant: the range does not end.
NoWrap(n) == n

\* itertools.cycle over the range
Wrap(n) == IF n < RangeSize THEN n ELSE n - RangeSize

\* Mutant: the newest record is evicted.
Newest == {id \in Pending : \A other \in Pending : since[other] <= since[id]}

\* next(iter(_injected_packet_ids)): the earliest insertion still present.
Oldest == {id \in Pending : \A other \in Pending : since[id] <= since[other]}

\* Mutant: nothing is evicted.
NothingEvicted == {}

\* What the cap evicts before an id is allocated: one id, or none.
Evicted == IF Cardinality(Pending) >= MaxPending THEN Oldest ELSE {}

\* Mutant: the counter's value is taken whatever is outstanding.
NextId(taken) == counter

\* The first value of the counter that is not outstanding, or, after a whole
\* cycle without one, the value the cycle began with.
FreeId(taken) ==
    LET Free(k) == Wrap(counter + k) \notin taken
        First   == {k \in Ids : Free(k) /\ \A j \in 0 .. k - 1 : ~Free(j)}
    IN  IF First = {} THEN counter ELSE Wrap(counter + CHOOSE k \in First : TRUE)

\* Ids of `own` PUBLISHes the appliance will still acknowledge.
StillUnacked(ids, unacked) == {id \in ids : unacked[id] > 0}

(***************************************************************************)
(* inject_publish: evict, allocate, record, send.  A failed send is only   *)
(* logged: the record stays and the appliance knows nothing.               *)
(***************************************************************************)
Inject ==
    /\ injects < MaxInjects
    /\ injects' = injects + 1
    /\ LET id == FreeId(Pending \ Evicted) IN
          /\ since' = [i \in Ids |-> IF i = id THEN injects + 1
                                     ELSE IF i \in Evicted THEN 0 ELSE since[i]]
          /\ counter' = Wrap(id + 1)
          /\ \/ own' = [own EXCEPT ![id] = @ + 1]
             \/ own' = own
    /\ gone' = gone \cup StillUnacked(Evicted, own)
    /\ sentUp' = {}
    /\ UNCHANGED <<cloud, relaying>>

\* A QoS-1 PUBLISH of the cloud is passed down, whatever its id.
CloudPublish(id) ==
    /\ relaying
    /\ cloud[id] < MaxUnacked
    /\ cloud' = [cloud EXCEPT ![id] = @ + 1]
    /\ sentUp' = {}
    /\ UNCHANGED <<injects, since, counter, own, relaying, gone>>

\* Mutant: PUBACKs are only filtered in local mode.
SwallowedInLocalMode(id) == id \in Pending /\ ~relaying

\* A PUBACK with an outstanding id is taken for the answer to our own PUBLISH.
Swallowed(id) == id \in Pending

\* _handle_device_packet of a PUBACK for `id`, which answers a PUBLISH of `of`.
HandlePubAck(id, of) ==
    /\ since' = IF Swallowed(id) THEN [since EXCEPT ![id] = 0] ELSE since
    /\ sentUp' = IF ~Swallowed(id) /\ relaying THEN {[id |-> id, of |-> of]} ELSE {}
    /\ UNCHANGED <<injects, counter, relaying>>

AcksOwn(id) ==
    /\ own[id] > 0
    /\ own' = [own EXCEPT ![id] = @ - 1]
    /\ gone' = StillUnacked(gone, own')
    /\ HandlePubAck(id, "bridge")
    /\ UNCHANGED cloud

\* The cloud's PUBLISH is acknowledged; ours of the same id loses its record.
AcksCloud(id) ==
    /\ cloud[id] > 0
    /\ cloud' = [cloud EXCEPT ![id] = @ - 1]
    /\ gone' = gone \cup StillUnacked({id} \cap Pending, own)
    /\ HandlePubAck(id, "cloud")
    /\ UNCHANGED own

\* The session falls back to local mode, for good.
FallBack ==
    /\ relaying
    /\ relaying' = FALSE
    /\ sentUp' = {}
    /\ UNCHANGED <<injects, since, counter, own, cloud, gone>>

Next ==
    \/ Inject
    \/ \E id \in Ids : AcksOwn(id)
    \/ \E id \in CloudIds : CloudPublish(id) \/ AcksCloud(id)
    \/ FallBack

Spec == Init /\ [][Next]_vars

-----------------------------------------------------------------------------
(* Properties *)

(***************************************************************************)
(* The table never outgrows its cap ("a device that stops PUBACKing        *)
(* entirely can't grow it without bound").                                 *)
(***************************************************************************)
TableIsBounded == Cardinality(Pending) <= MaxPending

(***************************************************************************)
(* An injected PUBLISH the appliance may still acknowledge is on record,   *)
(* and no two of them share a record, unless a record was evicted, or was  *)
(* spent on a PUBACK meant for the cloud.                                  *)
(***************************************************************************)
Records(id) == IF id \in Pending THEN 1 ELSE 0

OutstandingIsOnRecord == \A id \in Ids : own[id] > Records(id) => id \in gone

(***************************************************************************)
(* A PUBACK of an injected PUBLISH goes to the cloud only if its record    *)
(* was lost that way.                                                      *)
(***************************************************************************)
LeaksNeedALoss ==
    [][\A id \in Ids : [id |-> id, of |-> "bridge"] \in sentUp' => id \in gone]_vars

(***************************************************************************)
(* "The oldest outstanding id is evicted": an injected PUBLISH keeps its   *)
(* record until it is acknowledged or MaxPending newer ones were injected. *)
(***************************************************************************)
EvictsOnlyTheOldest ==
    [][injects' > injects =>
          \A id \in Pending : since'[id] # since[id] =>
              injects' - since[id] >= MaxPending]_vars

(***************************************************************************)
(* The inductive invariant behind them: the insertions are numbered apart, *)
(* so that the oldest record is older than all the others.                 *)
(***************************************************************************)
NumberedApart == \A a, b \in Pending : since[a] = since[b] => a = b

InjectedInv ==
    /\ TypeOK
    /\ NumberedApart
    /\ TableIsBounded
    /\ OutstandingIsOnRecord
=============================================================================
