----------------------- MODULE TelemetryIngest_proofs -----------------------
(***************************************************************************)
(* Proofs about TelemetryIngest for any sets of vehicles, zones, requests   *)
(* and events.  Counting is exact because of the zone row lock: from the    *)
(* UPDATE to the COMMIT nobody else commits an entry of the same zone, so   *)
(* the value a transaction carries is still one more than the committed one *)
(* (CountInv).  The rules themselves are about any two or three readings of *)
(* a vehicle, whatever integers they hold: late and repeated ones raise no  *)
(* timed rule, and a prior one reading too old turns no legal movement into *)
(* a teleport.                                                              *)
(***************************************************************************)
EXTENDS TelemetryIngest, ReadingStream, FiniteSetTheorems, TLAPS

\* A transaction that has incremented a zone owns its row, and carries the
\* successor of the value still committed there.
CountInv ==
  \A r \in Requests : pc[r] = "counted" /\ event[r].zone \in Zones =>
    /\ zoneLock[event[r].zone] = r
    /\ count[r] = zones[event[r].zone] + 1

\* A committed event belongs to a handler past its COMMIT.
RawInv == \A r \in raw : pc[r] \in {"committed", "done"}

\* What detect_anomalies saw is a state the vehicle's row has had, and what it
\* returned follows from it.
PriorInv ==
  /\ \A v \in Vehicles : current[v] \in Atomic!PastStates(v)
  /\ \A r \in Requests : pc[r] \in {"read", "upserted", "counted"} =>
       /\ prior[r] \in Atomic!PastStates(event[r].vehicle)
       /\ found[r] = DetectAnomalies(event[r].reading, event[r].errors, prior[r])

\* A sequential vehicle has one request in flight, and the prior that it read is
\* still current.
SequentialInv ==
  /\ \A p, q \in Requests :
       /\ pc[p] \notin {"idle", "done"} /\ pc[q] \notin {"idle", "done"}
       /\ event[p].vehicle = event[q].vehicle /\ event[p].vehicle \in Sequential
       => p = q
  /\ \A r \in Requests :
       pc[r] \in {"read", "upserted", "counted"} /\ event[r].vehicle \in Sequential =>
         prior[r] = current[event[r].vehicle]

\* The inductive invariant.
IInv == TypeOK /\ CountInv /\ RawInv /\ PriorInv /\ SequentialInv /\ ZoneCountsExact

-----------------------------------------------------------------------------
LEMMA NextCases ==
  ASSUME Next
  PROVE  \/ \E r \in Requests :
              \/ Arrive(r) \/ Borrow(r) \/ PoolTimeout(r) \/ SelectPrior(r)
              \/ NaiveTimestamp(r) \/ UpsertCurrent(r) \/ IncrementZone(r)
              \/ ZoneOverflow(r) \/ NoZoneRow(r) \/ Commit(r) \/ Respond(r) \/ Fail(r)
         \/ UNCHANGED vars
  BY DEF Next, HandlerStep, Transact, AllAnswered

\* The four ways a handler ends without committing are the same step.
LEMMA RefuseCases ==
  ASSUME NEW r \in Requests, PoolTimeout(r) \/ NaiveTimestamp(r) \/ ZoneOverflow(r) \/ Fail(r)
  PROVE  /\ Refuse(r)
         /\ \E a \in {"pool_timeout", "type_error", "overflow", "error"} :
              answer' = [answer EXCEPT ![r] = a]
  BY DEF PoolTimeout, NaiveTimestamp, ZoneOverflow, Fail

\* detect_anomalies returns a set of anomaly types.
LEMMA DetectType ==
  ASSUME NEW now, NEW errors, NEW p
  PROVE  DetectAnomalies(now, errors, p) \in SUBSET AnomalyTypes
  BY DEF DetectAnomalies, Stateless, Stateful, When, AnomalyTypes, StatelessRules, StatefulRules

LEMMA TypeInit == Init => TypeOK
<1> SUFFICES ASSUME Init PROVE TypeOK
  OBVIOUS
<1>1. 0 \in 0..MaxCount
  BY IngestAssumption
<1> QED
  BY <1>1 DEF Init, TypeOK

LEMMA ReleaseType ==
  ASSUME NEW S, NEW lock \in [S -> Requests \cup {None}], NEW r
  PROVE  Release(lock, r) \in [S -> Requests \cup {None}]
  BY DEF Release

LEMMA TypeStep == TypeOK /\ [Next]_vars => TypeOK'
<1> SUFFICES ASSUME TypeOK, [Next]_vars PROVE TypeOK'
  OBVIOUS
<1> USE IngestAssumption, EventAssumption DEF TypeOK, InTransaction, tables, locks, local
<1>1. ASSUME NEW r \in Requests, Arrive(r) \/ Borrow(r) \/ NoZoneRow(r) PROVE TypeOK'
  <2>1. \E s \in {"waiting", "connected", "counted"} : pc' = [pc EXCEPT ![r] = s]
    BY <1>1 DEF Arrive, Borrow, Connect, NoZoneRow
  <2>2. UNCHANGED <<tables, locks, local, answer>>
    BY <1>1 DEF Arrive, Borrow, Connect, NoZoneRow
  <2> QED
    BY <2>1, <2>2
<1>2. ASSUME NEW r \in Requests,
             PoolTimeout(r) \/ NaiveTimestamp(r) \/ ZoneOverflow(r) \/ Fail(r)
      PROVE  TypeOK'
  <2>1. /\ Refuse(r)
        /\ \E a \in {"pool_timeout", "type_error", "overflow", "error"} :
             answer' = [answer EXCEPT ![r] = a]
    BY <1>2, RefuseCases
  <2>2. /\ vehicleLock' \in [Vehicles -> Requests \cup {None}]
        /\ zoneLock' \in [Zones -> Requests \cup {None}]
    BY <2>1, ReleaseType DEF Refuse
  <2> QED
    BY <2>1, <2>2 DEF Refuse
<1>3. ASSUME NEW r \in Requests, SelectPrior(r) PROVE TypeOK'
  BY <1>3, DetectType DEF SelectPrior
<1>4. ASSUME NEW r \in Requests, UpsertCurrent(r) PROVE TypeOK'
  BY <1>4 DEF UpsertCurrent
<1>5. ASSUME NEW r \in Requests, IncrementZone(r) PROVE TypeOK'
  BY <1>5 DEF IncrementZone
<1>6. ASSUME NEW r \in Requests, Commit(r) PROVE TypeOK'
  BY <1>6, ReleaseType DEF Commit
<1>7. ASSUME NEW r \in Requests, Respond(r) PROVE TypeOK'
  BY <1>7 DEF Respond
<1>8. CASE UNCHANGED vars
  BY <1>8 DEF vars
<1> QED
  BY <1>1, <1>2, <1>3, <1>4, <1>5, <1>6, <1>7, <1>8, NextCases

\* Every reachable state of the ingest transactions is well typed.
THEOREM TypeCorrect == Spec => []TypeOK
  BY TypeInit, TypeStep, PTL DEF Spec

LEMMA IInvInit == Init => IInv
<1> SUFFICES ASSUME Init PROVE IInv
  OBVIOUS
<1>1. TypeOK
  BY TypeInit
<1>2. CountInv /\ RawInv /\ PriorInv /\ SequentialInv
  BY DEF Init, CountInv, RawInv, PriorInv, SequentialInv, Atomic!PastStates
<1>3. ZoneCountsExact
  <2>1. \A z \in Zones : Entries(z) = {}
    BY DEF Init, Entries
  <2> QED
    BY <2>1, FS_EmptySet DEF Init, ZoneCountsExact
<1> QED
  BY <1>1, <1>2, <1>3 DEF IInv

\* A step that commits nothing leaves the tables, and so the counts, alone.
LEMMA NoCommitKeepsCounts ==
  ASSUME IInv, UNCHANGED tables
  PROVE  ZoneCountsExact' /\ (\A v : Atomic!PastStates(v)' = Atomic!PastStates(v))
  BY DEF IInv, ZoneCountsExact, Entries, tables, Atomic!PastStates

\* A handler that ends without committing takes nothing from the others.
LEMMA RefuseKeepsIInv ==
  ASSUME IInv, TypeOK', NEW r \in Requests, pc[r] \in InTransaction \cup {"waiting", "committed"},
         Refuse(r)
  PROVE  IInv'
<1> USE DEF Refuse, tables, local
<1>1. /\ UNCHANGED <<tables, local>> /\ pc'[r] = "done"
      /\ \A q \in Requests : q # r => pc'[q] = pc[q]
  BY DEF IInv, TypeOK
<1>2. ZoneCountsExact' /\ (\A v : Atomic!PastStates(v)' = Atomic!PastStates(v))
  BY <1>1, NoCommitKeepsCounts
<1>3. CountInv'
  <2>1. ASSUME NEW q \in Requests, pc'[q] = "counted", event[q].zone \in Zones
        PROVE  q # r /\ zoneLock'[event[q].zone] = q
    BY <1>1, <2>1 DEF IInv, TypeOK, CountInv, Release
  <2> QED
    BY <1>1, <2>1 DEF IInv, CountInv
<1>4. RawInv'
  BY <1>1 DEF IInv, RawInv, TypeOK
<1>5. PriorInv'
  BY <1>1, <1>2 DEF IInv, PriorInv, TypeOK
<1>6. SequentialInv'
  BY <1>1 DEF IInv, SequentialInv, TypeOK
<1> QED
  BY <1>2, <1>3, <1>4, <1>5, <1>6 DEF IInv

\* A commit adds the event to its zone's counter and to nobody else's.
LEMMA CommitKeepsIInv ==
  ASSUME IInv, TypeOK', NEW r \in Requests, Commit(r)
  PROVE  IInv'
<1> DEFINE v == event[r].vehicle
<1> DEFINE z == event[r].zone
<1> USE IngestAssumption, EventAssumption
<1>1. /\ event' = event /\ raw' = raw \cup {r} /\ r \notin raw
      /\ prior' = prior /\ found' = found /\ count' = count
      /\ pc[r] = "counted" /\ pc'[r] = "committed" /\ v \in Vehicles
      /\ \A q \in Requests : q # r => pc'[q] = pc[q]
  BY DEF IInv, TypeOK, RawInv, Commit, local
<1>2. \A w \in Vehicles : current'[w] = IF w = v THEN event[r].reading ELSE current[w]
  BY DEF IInv, TypeOK, Commit
<1>3. \A y \in Zones : zones'[y] = IF y = z THEN zones[y] + 1 ELSE zones[y]
  BY <1>1 DEF IInv, CountInv, Commit
<1>4. CountInv'
  <2>1. ASSUME NEW q \in Requests, pc'[q] = "counted", event[q].zone \in Zones
        PROVE  q # r /\ event[q].zone # z /\ zoneLock'[event[q].zone] = q
    BY <1>1, <2>1 DEF IInv, TypeOK, CountInv, Release, Commit
  <2> QED
    BY <1>1, <1>3, <2>1 DEF IInv, CountInv
<1>5. RawInv'
  BY <1>1 DEF IInv, RawInv, TypeOK
<1>6. PriorInv'
  <2>1. \A w \in Vehicles : Atomic!PastStates(w) \subseteq Atomic!PastStates(w)'
    BY <1>1 DEF Atomic!PastStates
  <2>2. event[r].reading \in Atomic!PastStates(v)'
    BY <1>1 DEF Atomic!PastStates
  <2>3. \A q \in Requests : event[q].vehicle \in Vehicles
    BY DEF IInv, TypeOK
  <2> QED
    BY <1>1, <1>2, <2>1, <2>2, <2>3 DEF IInv, PriorInv
<1>7. SequentialInv'
  <2>1. \A q \in Requests : event[q].vehicle \in Vehicles
    BY DEF IInv, TypeOK
  <2> QED
    BY <1>1, <1>2, <2>1 DEF IInv, SequentialInv
<1>8. ZoneCountsExact'
  <2>1. SUFFICES ASSUME NEW y \in Zones PROVE zones'[y] = Cardinality(Entries(y)')
    BY DEF ZoneCountsExact
  <2>2. IsFiniteSet(Entries(y)) /\ zones[y] = Cardinality(Entries(y))
    BY FS_Subset DEF IInv, TypeOK, ZoneCountsExact, Entries
  <2>3. CASE y = z
    <3>1. Entries(y)' = Entries(y) \cup {r} /\ r \notin Entries(y)
      BY <1>1, <2>3 DEF Entries
    <3>2. Cardinality(Entries(y) \cup {r}) = Cardinality(Entries(y)) + 1
      BY <2>2, <3>1, FS_AddElement
    <3> QED
      BY <1>3, <2>2, <2>3, <3>1, <3>2
  <2>4. CASE y # z
    <3>1. Entries(y)' = Entries(y)
      BY <1>1, <2>4 DEF Entries
    <3> QED
      BY <1>3, <2>2, <2>4, <3>1
  <2> QED
    BY <2>3, <2>4
<1> QED
  BY <1>4, <1>5, <1>6, <1>7, <1>8 DEF IInv

LEMMA IInvStep == IInv /\ [Next]_vars => IInv'
<1> SUFFICES ASSUME IInv, [Next]_vars PROVE IInv'
  OBVIOUS
<1> USE EventAssumption
<1>0. TypeOK /\ TypeOK'
  BY TypeStep DEF IInv
<1>1. ASSUME NEW r \in Requests, Arrive(r) PROVE IInv'
  <2>1. ZoneCountsExact' /\ (\A v : Atomic!PastStates(v)' = Atomic!PastStates(v))
    BY <1>1, NoCommitKeepsCounts DEF Arrive
  <2>2. CountInv'
    BY <1>0, <1>1, <2>1 DEF IInv, TypeOK, CountInv, Arrive, tables, locks, local
  <2>3. RawInv'
    BY <1>0, <1>1, <2>1 DEF IInv, TypeOK, RawInv, Arrive, tables, locks, local
  <2>4. PriorInv'
    BY <1>0, <1>1, <2>1 DEF IInv, TypeOK, PriorInv, Arrive, tables, locks, local
  <2>5. SequentialInv'
    <3>1. \A q \in Requests : q # r => pc'[q] = pc[q]
      BY <1>0, <1>1 DEF TypeOK, Arrive
    <3>2. event[r].vehicle \in Sequential =>
            \A q \in Requests : event[q].vehicle = event[r].vehicle => pc[q] \in {"idle", "done"}
      BY <1>1 DEF Arrive, InFlight
    <3> QED
      BY <1>0, <1>1, <3>1, <3>2 DEF IInv, TypeOK, SequentialInv, Arrive, tables, local
  <2> QED
    BY <1>0, <2>1, <2>2, <2>3, <2>4, <2>5 DEF IInv
<1>2. ASSUME NEW r \in Requests, Borrow(r) PROVE IInv'
  <2>1. ZoneCountsExact' /\ (\A v : Atomic!PastStates(v)' = Atomic!PastStates(v))
    BY <1>2, NoCommitKeepsCounts DEF Borrow, Connect
  <2>2. CountInv'
    BY <1>0, <1>2, <2>1 DEF IInv, TypeOK, CountInv, Borrow, Connect, tables, locks, local
  <2>3. RawInv'
    BY <1>0, <1>2, <2>1 DEF IInv, TypeOK, RawInv, Borrow, Connect, tables, locks, local
  <2>4. PriorInv'
    BY <1>0, <1>2, <2>1 DEF IInv, TypeOK, PriorInv, Borrow, Connect, tables, locks, local
  <2>5. SequentialInv'
    BY <1>0, <1>2, <2>1 DEF IInv, TypeOK, SequentialInv, Borrow, Connect, tables, locks, local
  <2> QED
    BY <1>0, <2>1, <2>2, <2>3, <2>4, <2>5 DEF IInv
<1>3. ASSUME NEW r \in Requests, SelectPrior(r) PROVE IInv'
  <2>1. ZoneCountsExact' /\ (\A v : Atomic!PastStates(v)' = Atomic!PastStates(v))
    BY <1>3, NoCommitKeepsCounts DEF SelectPrior
  <2>2. CountInv'
    BY <1>0, <1>3, <2>1 DEF IInv, TypeOK, CountInv, SelectPrior, tables, locks, local
  <2>3. RawInv'
    BY <1>0, <1>3, <2>1 DEF IInv, TypeOK, RawInv, SelectPrior, tables, locks, local
  <2>4. PriorInv'
    BY <1>0, <1>3, <2>1 DEF IInv, TypeOK, PriorInv, SelectPrior, tables, locks, local
  <2>5. SequentialInv'
    BY <1>0, <1>3, <2>1 DEF IInv, TypeOK, SequentialInv, SelectPrior, tables, locks, local
  <2> QED
    BY <1>0, <2>1, <2>2, <2>3, <2>4, <2>5 DEF IInv
<1>4. ASSUME NEW r \in Requests, UpsertCurrent(r) PROVE IInv'
  <2>1. ZoneCountsExact' /\ (\A v : Atomic!PastStates(v)' = Atomic!PastStates(v))
    BY <1>4, NoCommitKeepsCounts DEF UpsertCurrent
  <2>2. CountInv'
    BY <1>0, <1>4, <2>1 DEF IInv, TypeOK, CountInv, UpsertCurrent, tables, locks, local
  <2>3. RawInv'
    BY <1>0, <1>4, <2>1 DEF IInv, TypeOK, RawInv, UpsertCurrent, tables, locks, local
  <2>4. PriorInv'
    BY <1>0, <1>4, <2>1 DEF IInv, TypeOK, PriorInv, UpsertCurrent, tables, locks, local
  <2>5. SequentialInv'
    BY <1>0, <1>4, <2>1 DEF IInv, TypeOK, SequentialInv, UpsertCurrent, tables, locks, local
  <2> QED
    BY <1>0, <2>1, <2>2, <2>3, <2>4, <2>5 DEF IInv
<1>5. ASSUME NEW r \in Requests, IncrementZone(r) PROVE IInv'
  <2>1. ZoneCountsExact' /\ (\A v : Atomic!PastStates(v)' = Atomic!PastStates(v))
    BY <1>5, NoCommitKeepsCounts DEF IncrementZone
  <2>2. CountInv'
    <3>1. \A q \in Requests : q # r => pc'[q] = pc[q] /\ count'[q] = count[q]
      BY <1>0, <1>5 DEF TypeOK, IncrementZone
    <3>2. \A q \in Requests : /\ q # r /\ pc[q] = "counted" /\ event[q].zone \in Zones
                             => event[q].zone # event[r].zone
      BY <1>5, IngestAssumption DEF IInv, CountInv, IncrementZone
    <3>3. \A y \in Zones : y # event[r].zone => zoneLock'[y] = zoneLock[y]
      BY <1>0, <1>5 DEF TypeOK, IncrementZone
    <3>4. zoneLock'[event[r].zone] = r /\ count'[r] = zones[event[r].zone] + 1
      BY <1>0, <1>5 DEF TypeOK, IncrementZone
    <3> QED
      BY <1>5, <3>1, <3>2, <3>3, <3>4 DEF IInv, CountInv, IncrementZone, tables
  <2>3. RawInv'
    BY <1>0, <1>5, <2>1 DEF IInv, TypeOK, RawInv, IncrementZone, tables, locks, local
  <2>4. PriorInv'
    BY <1>0, <1>5, <2>1 DEF IInv, TypeOK, PriorInv, IncrementZone, tables, locks, local
  <2>5. SequentialInv'
    BY <1>0, <1>5, <2>1 DEF IInv, TypeOK, SequentialInv, IncrementZone, tables, locks, local
  <2> QED
    BY <1>0, <2>1, <2>2, <2>3, <2>4, <2>5 DEF IInv
<1>6. ASSUME NEW r \in Requests, NoZoneRow(r) PROVE IInv'
  <2>1. ZoneCountsExact' /\ (\A v : Atomic!PastStates(v)' = Atomic!PastStates(v))
    BY <1>6, NoCommitKeepsCounts DEF NoZoneRow
  <2>2. CountInv'
    BY <1>0, <1>6, <2>1 DEF IInv, TypeOK, CountInv, NoZoneRow, tables, locks, local
  <2>3. RawInv'
    BY <1>0, <1>6, <2>1 DEF IInv, TypeOK, RawInv, NoZoneRow, tables, locks, local
  <2>4. PriorInv'
    BY <1>0, <1>6, <2>1 DEF IInv, TypeOK, PriorInv, NoZoneRow, tables, locks, local
  <2>5. SequentialInv'
    BY <1>0, <1>6, <2>1 DEF IInv, TypeOK, SequentialInv, NoZoneRow, tables, locks, local
  <2> QED
    BY <1>0, <2>1, <2>2, <2>3, <2>4, <2>5 DEF IInv
<1>7. ASSUME NEW r \in Requests, Respond(r) PROVE IInv'
  <2>1. ZoneCountsExact' /\ (\A v : Atomic!PastStates(v)' = Atomic!PastStates(v))
    BY <1>7, NoCommitKeepsCounts DEF Respond
  <2>2. CountInv'
    BY <1>0, <1>7, <2>1 DEF IInv, TypeOK, CountInv, Respond, tables, locks, local
  <2>3. RawInv'
    BY <1>0, <1>7, <2>1 DEF IInv, TypeOK, RawInv, Respond, tables, locks, local
  <2>4. PriorInv'
    BY <1>0, <1>7, <2>1 DEF IInv, TypeOK, PriorInv, Respond, tables, locks, local
  <2>5. SequentialInv'
    BY <1>0, <1>7, <2>1 DEF IInv, TypeOK, SequentialInv, Respond, tables, locks, local
  <2> QED
    BY <1>0, <2>1, <2>2, <2>3, <2>4, <2>5 DEF IInv
<1>8. ASSUME NEW r \in Requests, Commit(r) PROVE IInv'
  BY <1>0, <1>8, CommitKeepsIInv
<1>9. ASSUME NEW r \in Requests,
             PoolTimeout(r) \/ NaiveTimestamp(r) \/ ZoneOverflow(r) \/ Fail(r)
      PROVE  IInv'
  BY <1>0, <1>9, RefuseCases, RefuseKeepsIInv
     DEF PoolTimeout, NaiveTimestamp, ZoneOverflow, Fail, InTransaction
<1>10. CASE UNCHANGED vars
  <2>1. ZoneCountsExact' /\ (\A v : Atomic!PastStates(v)' = Atomic!PastStates(v))
    BY <1>10, NoCommitKeepsCounts DEF vars
  <2> QED
    BY <1>0, <1>10, <2>1 DEF vars, tables, locks, local, IInv, CountInv, RawInv, PriorInv, SequentialInv
<1> QED
  BY <1>1, <1>2, <1>3, <1>4, <1>5, <1>6, <1>7, <1>8, <1>9, <1>10, NextCases

LEMMA Inductive == Spec => []IInv
  BY IInvInit, IInvStep, PTL DEF Spec

\* No zone entry is lost or counted twice, for any number of concurrent
\* requests, aborts and zones.
THEOREM CountsExact == Spec => []ZoneCountsExact
  BY Inductive, PTL DEF IInv

-----------------------------------------------------------------------------
\* Who holds a vehicle's row has upserted it, who holds a zone's row has counted.
HolderInv ==
  /\ \A v \in Vehicles : vehicleLock[v] # None => pc[vehicleLock[v]] \in {"upserted", "counted"}
  /\ \A z \in Zones : zoneLock[z] # None => pc[zoneLock[z]] = "counted"

LEMMA HolderInit == Init => HolderInv
  BY DEF Init, HolderInv

\* At its end a transaction has neither lock.
LEMMA ReleaseKeepsHolders ==
  ASSUME TypeOK, HolderInv, NEW r \in Requests,
         vehicleLock' = Release(vehicleLock, r), zoneLock' = Release(zoneLock, r),
         \A q \in Requests : q # r => pc'[q] = pc[q]
  PROVE  HolderInv'
<1> USE IngestAssumption
<1>1. \A v \in Vehicles : vehicleLock'[v] # None =>
        vehicleLock'[v] = vehicleLock[v] /\ vehicleLock[v] \in Requests \ {r}
  BY DEF TypeOK, Release
<1>2. \A z \in Zones : zoneLock'[z] # None =>
        zoneLock'[z] = zoneLock[z] /\ zoneLock[z] \in Requests \ {r}
  BY DEF TypeOK, Release
<1> QED
  BY <1>1, <1>2 DEF HolderInv

LEMMA HolderStep ==
  ASSUME TypeOK, HolderInv, [Next]_vars
  PROVE  HolderInv'
<1> USE IngestAssumption
\* A step of a request that holds no lock and takes none.
<1>1. ASSUME NEW r \in Requests,
             Arrive(r) \/ Borrow(r) \/ SelectPrior(r) \/ Respond(r)
      PROVE  HolderInv'
  <2>1. /\ UNCHANGED locks /\ pc[r] \notin {"upserted", "counted"}
        /\ \A q \in Requests : q # r => pc'[q] = pc[q]
    BY <1>1 DEF TypeOK, Arrive, Borrow, Connect, SelectPrior, Respond
  <2> QED
    BY <2>1 DEF TypeOK, HolderInv, locks
<1>2. ASSUME NEW r \in Requests, UpsertCurrent(r) PROVE HolderInv'
  <2>1. \A q \in Requests : q # r => pc'[q] = pc[q]
    BY <1>2 DEF TypeOK, UpsertCurrent
  <2>2. /\ pc[r] = "read" /\ pc'[r] = "upserted" /\ zoneLock' = zoneLock
        /\ \A v \in Vehicles : vehicleLock'[v] \in {vehicleLock[v], r}
    BY <1>2 DEF TypeOK, UpsertCurrent
  <2> QED
    BY <2>1, <2>2 DEF TypeOK, HolderInv
<1>3. ASSUME NEW r \in Requests, IncrementZone(r) \/ NoZoneRow(r) PROVE HolderInv'
  <2>1. \A q \in Requests : q # r => pc'[q] = pc[q]
    BY <1>3 DEF TypeOK, IncrementZone, NoZoneRow
  <2>2. /\ pc[r] = "upserted" /\ pc'[r] = "counted" /\ vehicleLock' = vehicleLock
        /\ \A z \in Zones : zoneLock'[z] \in {zoneLock[z], r}
    BY <1>3 DEF TypeOK, IncrementZone, NoZoneRow, locks
  <2> QED
    BY <2>1, <2>2 DEF TypeOK, HolderInv
<1>4. ASSUME NEW r \in Requests,
             PoolTimeout(r) \/ NaiveTimestamp(r) \/ ZoneOverflow(r) \/ Fail(r) \/ Commit(r)
      PROVE  HolderInv'
  <2>1. /\ vehicleLock' = Release(vehicleLock, r) /\ zoneLock' = Release(zoneLock, r)
        /\ \A q \in Requests : q # r => pc'[q] = pc[q]
    BY <1>4, RefuseCases DEF TypeOK, Commit, Refuse
  <2> QED
    BY <2>1, ReleaseKeepsHolders
<1>5. CASE UNCHANGED vars
  BY <1>5 DEF vars, locks, HolderInv
<1> QED
  BY <1>1, <1>2, <1>3, <1>4, <1>5, NextCases

\* No two events wait for each other, directly or through others, and no row
\* stays locked: every transaction locks the vehicle's row before the zone's.
THEOREM NoDeadlock == Spec => []NoCircularWait
<1>1. TypeOK /\ HolderInv => NoCircularWait
  <2> SUFFICES ASSUME TypeOK, HolderInv, NEW r \in Requests, NEW q \in BlockedBy(r)
               PROVE  HoldsConnection(q) /\ \A p \in BlockedBy(q) : BlockedBy(p) = {}
    BY DEF NoCircularWait
  <2>1. ASSUME NEW a \in Requests, NEW b \in BlockedBy(a)
        PROVE  /\ b \in Requests
               /\ pc[a] = "read" => pc[b] \in {"upserted", "counted"}
               /\ pc[a] # "read" => pc[a] = "upserted" /\ pc[b] = "counted"
    BY <2>1, IngestAssumption, EventAssumption DEF BlockedBy, HolderInv, TypeOK
  <2>2. q \in Requests /\ pc[q] \in {"upserted", "counted"}
    BY <2>1
  <2>3. ASSUME NEW p \in BlockedBy(q) PROVE BlockedBy(p) = {}
    BY <2>1, <2>2
  <2> QED
    BY <2>2, <2>3 DEF HoldsConnection, InTransaction
<1>2. TypeOK /\ HolderInv /\ [Next]_vars => HolderInv'
  BY HolderStep
<1> QED
  BY <1>1, <1>2, HolderInit, TypeCorrect, PTL DEF Spec

-----------------------------------------------------------------------------
\* A vehicle that sends one event at a time has each compared with the reading
\* committed just before it.
THEOREM PriorExact == Spec => PriorIsPrevious
<1>1. IInv /\ [Next]_vars =>
        [\A r \in raw' \ raw : event[r].vehicle \in Sequential =>
           prior[r] = current[event[r].vehicle]]_vars
  <2> SUFFICES ASSUME IInv, [Next]_vars, NEW r \in raw' \ raw,
                      event[r].vehicle \in Sequential
               PROVE  prior[r] = current[event[r].vehicle]
    OBVIOUS
  <2>1. r \in Requests /\ Commit(r)
    BY NextCases DEF Arrive, Borrow, Connect, PoolTimeout, SelectPrior, NaiveTimestamp, UpsertCurrent,
       IncrementZone, ZoneOverflow, NoZoneRow, Commit, Respond, Fail, Refuse, vars, tables
  <2> QED
    BY <2>1 DEF IInv, SequentialInv, Commit
<1> QED
  BY <1>1, Inductive, PTL DEF Spec, PriorIsPrevious

\* The abstract specification uses the same rules.
LEMMA SameRules ==
  ASSUME NEW now, NEW errors, NEW p
  PROVE  Atomic!DetectAnomalies(now, errors, p) = DetectAnomalies(now, errors, p)
<1>1. Atomic!Stateless(now, errors) = Stateless(now, errors)
  BY DEF Atomic!Stateless, Stateless, Atomic!When, When, Atomic!LowBatteryPct, LowBatteryPct,
     Atomic!OverspeedDmps, OverspeedDmps
<1>2. Atomic!IsStuck(now, p) <=> IsStuck(now, p)
  BY DEF Atomic!IsStuck, IsStuck, Atomic!StuckSpeedDmps, StuckSpeedDmps,
     Atomic!StuckMinSeconds, StuckMinSeconds
<1>3. Atomic!IsTeleport(now, p) <=> IsTeleport(now, p)
  BY DEF Atomic!IsTeleport, IsTeleport, Atomic!Square, Square, Atomic!TeleportDmps, TeleportDmps
<1>4. Atomic!IsBatteryRising(now, p) <=> IsBatteryRising(now, p)
  BY DEF Atomic!IsBatteryRising, IsBatteryRising
<1>5. Atomic!Stateful(now, p) = Stateful(now, p)
  BY <1>2, <1>3, <1>4 DEF Atomic!Stateful, Stateful, Atomic!When, When
<1> QED
  BY <1>1, <1>5 DEF Atomic!DetectAnomalies, DetectAnomalies

LEMMA AtomicStep ==
  ASSUME IInv, [Next]_vars
  PROVE  [Atomic!Next]_(Atomic!tables)
<1> USE DEF tables, Atomic!tables
<1>1. ASSUME NEW r \in Requests, Commit(r) PROVE Atomic!Next
  <2> DEFINE e == event[r]
  <2>1. /\ r \notin raw /\ event' = event
        /\ raw' = raw \cup {r}
        /\ current' = [current EXCEPT ![e.vehicle] = e.reading]
    BY <1>1 DEF IInv, RawInv, Commit
  <2>2. \A z \in Zones : /\ zones[z] + Atomic!Entered(z, e) <= MaxCount
                         /\ (IF z = e.zone THEN count[r] ELSE zones[z])
                              = zones[z] + Atomic!Entered(z, e)
    <3>1. ASSUME NEW z \in Zones, z = e.zone
          PROVE  zones[z] + 1 = count[r] /\ count[r] <= MaxCount
      BY <1>1, <3>1, IngestAssumption DEF IInv, TypeOK, CountInv, Commit
    <3>2. \A z \in Zones : zones[z] \in Nat /\ zones[z] <= MaxCount
      BY IngestAssumption DEF IInv, TypeOK
    <3> QED
      BY <3>1, <3>2, IngestAssumption DEF Atomic!Entered
  <2>3. zones' = [z \in Zones |-> zones[z] + Atomic!Entered(z, e)]
    BY <1>1, <2>2 DEF Commit
  <2>4. /\ prior[r] \in Atomic!PastStates(e.vehicle)
        /\ anomalies' = anomalies \cup ({r} \X DetectAnomalies(e.reading, e.errors, prior[r]))
    BY <1>1 DEF IInv, PriorInv, Commit
  <2>5. \E p \in Atomic!PastStates(e.vehicle) :
          anomalies' = anomalies \cup ({r} \X Atomic!DetectAnomalies(e.reading, e.errors, p))
    BY <2>4, SameRules
  <2>6. Atomic!Ingest(r)
    BY <2>1, <2>2, <2>3, <2>5 DEF Atomic!Ingest
  <2> QED
    BY <2>6 DEF Atomic!Next
<1>2. CASE ~(\E r \in Requests : Commit(r))
  BY <1>2, NextCases DEF Arrive, Borrow, Connect, PoolTimeout, SelectPrior, NaiveTimestamp,
     UpsertCurrent, IncrementZone, ZoneOverflow, NoZoneRow, Respond, Fail, Refuse, vars
<1> QED
  BY <1>1, <1>2

\* The statements of persist_telemetry add up to one atomic step over
\* the committed tables: all of an event is stored, or nothing of it.
THEOREM Refinement == Spec => ImplementsAtomic
<1>1. Init => Atomic!Init
  BY DEF Init, Atomic!Init
<1>2. IInv /\ [Next]_vars => [Atomic!Next]_(Atomic!tables)
  BY AtomicStep
<1> QED
  BY <1>1, <1>2, Inductive, PTL DEF Spec, ImplementsAtomic, Atomic!Spec

-----------------------------------------------------------------------------
\* The rules: the readings of one vehicle (ReadingStream).

\* Every element of `readings' is a reading the vehicle may send.
ReadingsInv == readings \in Seq(Readings)

LEMMA ReadingsInvariant == ReadingSpec => []ReadingsInv
<1>1. ReadingInit => ReadingsInv
  BY DEF ReadingInit, ReadingsInv
<1>2. ReadingsInv /\ [ReadingNext]_readings => ReadingsInv'
  BY DEF ReadingsInv, ReadingNext, Report, Enough
<1> QED BY <1>1, <1>2, PTL DEF ReadingSpec

\* What the proofs use of one element.
LEMMA ElementType ==
  ASSUME ReadingsInv, NEW i \in 1..Len(readings)
  PROVE  LET r == readings[i] IN
         /\ r.battery \in Int /\ r.at \in Int
         /\ r.x = None \/ r.x \in Int
         /\ r.y = None \/ r.y \in Int
  BY ReadingsAssumption DEF ReadingsInv

-----------------------------------------------------------------------------
\* A late reading raises neither stuck nor teleport, both of which require the
\* elapsed time to be positive, and a repeated one nothing (detect_anomalies).
THEOREM LateOrRepeated == ReadingSpec => []LateOrRepeatedRaisesNoTimedRule
<1>1. ReadingsInv => LateOrRepeatedRaisesNoTimedRule
  BY ElementType DEF LateOrRepeatedRaisesNoTimedRule, Stateful, When, IsStuck, IsTeleport,
                     IsBatteryRising, StuckMinSeconds
<1> QED BY <1>1, ReadingsInvariant, PTL

-----------------------------------------------------------------------------
\* Plane geometry, in integers.

LEMMA CauchySchwarz ==
  ASSUME NEW a \in Int, NEW b \in Int, NEW c \in Int, NEW d \in Int
  PROVE  (a*c + b*d) * (a*c + b*d) <= (a*a + b*b) * (c*c + d*d)
<1>1. (a*d - b*c) * (a*d - b*c) >= 0
  <2>1. PICK n \in Int : n = a*d - b*c  OBVIOUS
  <2>2. n * n >= 0  OBVIOUS
  <2> QED BY <2>1, <2>2
<1>2. (a*a + b*b) * (c*c + d*d) - (a*c + b*d) * (a*c + b*d) = (a*d - b*c) * (a*d - b*c)
  OBVIOUS
<1> QED BY <1>1, <1>2

LEMMA SquareRoot ==
  ASSUME NEW s \in Int, NEW t \in Int, t >= 0, s * s <= t * t
  PROVE  s <= t
  OBVIOUS

LEMMA ProductBound ==
  ASSUME NEW a \in Int, NEW b \in Int, NEW p \in Int, NEW q \in Int,
         0 <= a, a <= p, 0 <= b, b <= q
  PROVE  a * b <= p * q
<1>1. a * b <= p * b  OBVIOUS
<1>2. p * b <= p * q  OBVIOUS
<1> QED BY <1>1, <1>2

\* Two steps (a, b) and (c, d) no longer than p and q make one no longer than p + q.
LEMMA Triangle ==
  ASSUME NEW a \in Int, NEW b \in Int, NEW c \in Int, NEW d \in Int,
         NEW p \in Int, NEW q \in Int, p >= 0, q >= 0,
         a*a + b*b <= p*p, c*c + d*d <= q*q
  PROVE  (a + c) * (a + c) + (b + d) * (b + d) <= (p + q) * (p + q)
<1> DEFINE dot == a*c + b*d
           u == a*a + b*b
           w == c*c + d*d
<1>1. u \in Int /\ w \in Int /\ dot \in Int /\ p*p \in Int /\ q*q \in Int /\ p*q \in Int
  OBVIOUS
<1>2. 0 <= u /\ 0 <= w
  <2>1. \A n \in Int : n * n >= 0  OBVIOUS
  <2> QED BY <2>1
<1>3. u * w <= (p*p) * (q*q)
  <2> HIDE DEF u, w
  <2>1. u <= p*p /\ w <= q*q  BY DEF u, w
  <2> QED BY <1>1, <1>2, <2>1, ProductBound
<1>4. dot * dot <= (p*q) * (p*q)
  <2>1. dot * dot <= u * w  BY CauchySchwarz
  <2>2. (p*p) * (q*q) = (p*q) * (p*q)  OBVIOUS
  <2> QED BY <1>3, <2>1, <2>2
<1>5. p*q >= 0
  OBVIOUS
<1>6. dot <= p*q
  <2> HIDE DEF dot
  <2> QED BY <1>1, <1>4, <1>5, SquareRoot
<1>7. (a + c) * (a + c) + (b + d) * (b + d) = u + w + dot + dot
  OBVIOUS
<1>8. (p + q) * (p + q) = p*p + q*q + p*q + p*q
  OBVIOUS
<1>9. u <= p*p /\ w <= q*q
  OBVIOUS
<1> HIDE DEF dot, u, w
<1> QED BY <1>1, <1>6, <1>7, <1>8, <1>9

\* The same for three points.
LEMMA ThreePoints ==
  ASSUME NEW ax \in Int, NEW ay \in Int, NEW bx \in Int, NEW by \in Int,
         NEW cx \in Int, NEW cy \in Int, NEW p \in Int, NEW q \in Int, p >= 0, q >= 0,
         (bx - ax) * (bx - ax) + (by - ay) * (by - ay) <= p*p,
         (cx - bx) * (cx - bx) + (cy - by) * (cy - by) <= q*q
  PROVE  (cx - ax) * (cx - ax) + (cy - ay) * (cy - ay) <= (p + q) * (p + q)
<1>1. /\ bx - ax \in Int /\ by - ay \in Int
      /\ cx - bx \in Int /\ cy - by \in Int
  OBVIOUS
<1>2. LET a == bx - ax  b == by - ay  c == cx - bx  d == cy - by
      IN  (a + c) * (a + c) + (b + d) * (b + d) <= (p + q) * (p + q)
  BY <1>1, Triangle
<1>3. (bx - ax) + (cx - bx) = cx - ax /\ (by - ay) + (cy - by) = cy - ay
  OBVIOUS
<1> QED BY <1>2, <1>3

\* How far a vehicle may go in two successive intervals.
LEMMA Intervals ==
  ASSUME NEW s \in Int, NEW t \in Int, NEW u \in Int, s < t, t < u
  PROVE  LET p == TeleportDmps * (t - s)  q == TeleportDmps * (u - t)
         IN  /\ p \in Int /\ q \in Int /\ p >= 0 /\ q >= 0
             /\ p + q = TeleportDmps * (u - s)
  BY DEF TeleportDmps

\* What two successive readings with no teleport between them say.
LEMMA Reachable ==
  ASSUME NEW now, NEW old, now.at \in Int, old.at \in Int, old.at < now.at,
         now.x \in Int, now.y \in Int, old.x \in Int, old.y \in Int,
         now.x # None, now.y # None, old.x # None, old.y # None,
         NEW bound \in Int, bound = TeleportDmps * (now.at - old.at)
  PROVE  IsTeleport(now, old) <=>
           ~((now.x - old.x) * (now.x - old.x) + (now.y - old.y) * (now.y - old.y)
               <= bound * bound)
  BY DEF IsTeleport, Square, TeleportDmps

\* Comparing a reading with a prior that is one reading too old reports no
\* teleport if neither of the two moves was one: persist_telemetry may read
\* such a prior when two requests of a vehicle overlap (PriorIsPrevious fails).
THEOREM StalePrior == ReadingSpec => []StalePriorNoFalseTeleport
<1>1. ReadingsInv => StalePriorNoFalseTeleport
  <2> SUFFICES ASSUME ReadingsInv,
                      NEW i \in 1..Len(readings), NEW j \in 1..Len(readings),
                      NEW k \in 1..Len(readings),
                      readings[i].at < readings[j].at, readings[j].at < readings[k].at,
                      readings[j].x # None, readings[j].y # None,
                      ~IsTeleport(readings[j], readings[i]),
                      ~IsTeleport(readings[k], readings[j]),
                      IsTeleport(readings[k], readings[i])
               PROVE  FALSE
    BY DEF StalePriorNoFalseTeleport
  <2> DEFINE a == readings[i]
             b == readings[j]
             c == readings[k]
             p == TeleportDmps * (b.at - a.at)
             q == TeleportDmps * (c.at - b.at)
  <2>1. /\ a.at \in Int /\ b.at \in Int /\ c.at \in Int
        /\ a.x # None /\ a.y # None /\ c.x # None /\ c.y # None
    BY ElementType DEF IsTeleport
  <2>2. /\ a.x \in Int /\ a.y \in Int /\ b.x \in Int
        /\ b.y \in Int /\ c.x \in Int /\ c.y \in Int
    BY <2>1, ElementType
  <2>3. a.at < b.at /\ b.at < c.at
    OBVIOUS
  <2> HIDE DEF a, b, c
  <2>4. p \in Int /\ q \in Int /\ p >= 0 /\ q >= 0 /\ p + q = TeleportDmps * (c.at - a.at)
    BY <2>1, <2>3, Intervals
  <2> HIDE DEF p, q
  <2>5. (b.x - a.x) * (b.x - a.x) + (b.y - a.y) * (b.y - a.y) <= p * p
    BY <2>1, <2>2, <2>3, <2>4, Reachable DEF a, b, p
  <2>6. (c.x - b.x) * (c.x - b.x) + (c.y - b.y) * (c.y - b.y) <= q * q
    BY <2>1, <2>2, <2>3, <2>4, Reachable DEF b, c, q
  <2>7. (c.x - a.x) * (c.x - a.x) + (c.y - a.y) * (c.y - a.y) <= (p + q) * (p + q)
    BY <2>2, <2>4, <2>5, <2>6, ThreePoints
  <2>8. IsTeleport(c, a)
    BY DEF a, c
  <2>9. a.at < c.at /\ p + q \in Int
    BY <2>1, <2>3, <2>4
  <2> QED BY <2>1, <2>2, <2>4, <2>7, <2>8, <2>9, Reachable
<1> QED BY <1>1, ReadingsInvariant, PTL

=============================================================================
