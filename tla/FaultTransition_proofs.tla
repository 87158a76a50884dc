---------------------- MODULE FaultTransition_proofs ----------------------
(***************************************************************************)
(* Proofs about FaultTransition for any numbers of vehicles, missions and   *)
(* requests.  The argument is the row lock: LockInv says that a fault       *)
(* transaction past its SELECT ... FOR UPDATE owns its vehicle, so nobody   *)
(* else can change the status it has read (SeenInv) or insert a record for  *)
(* the vehicle (IndexInv), and the writes it will commit are still the      *)
(* right ones when it commits (CancelInv).                                  *)
(***************************************************************************)
EXTENDS FaultTransition, TLAPS

LockingStates == {"locked", "cancelled", "opened", "written"}

\* A transaction past its first write owns the row of an existing vehicle.
LockInv ==
  \A r \in Requests : pc[r] \in LockingStates =>
    /\ lockedBy[call[r].vehicle] = r
    /\ vehicles[call[r].vehicle] # None

\* Only fault calls go through the three middle statements.
PathInv ==
  \A r \in Requests : pc[r] \in {"locked", "cancelled", "opened"} => call[r].status = Fault

InFault(r, states) == pc[r] \in states /\ call[r].status = Fault

\* The status read under the lock is still the committed one, and a
\* transaction past the guard has read one other than fault.
SeenInv ==
  \A r \in Requests :
    /\ InFault(r, LockingStates) => tx[r].seen = vehicles[call[r].vehicle]
    /\ InFault(r, {"cancelled", "opened", "written"}) => tx[r].seen # Fault

\* The row a transaction is about to insert still meets no conflict, and one
\* that inserts none met a record; a request's record is written at its commit.
IndexInv ==
  \A r \in Requests :
    /\ InFault(r, {"opened", "written"}) =>
         IF tx[r].opens THEN OpenRecords(call[r].vehicle) = {}
                        ELSE RecordsOf(call[r].vehicle) # {}
    /\ pc[r] \notin {"committed", "done"} => maintenance[r] = None

\* The missions a transaction will cancel are still active missions of its
\* vehicle, and all of them if missions are assigned under the lock.
CancelInv ==
  \A r \in Requests : InFault(r, {"cancelled", "opened", "written"}) =>
    /\ tx[r].cancels \subseteq ActiveMissions(call[r].vehicle)
    /\ AssignUnderLock => tx[r].cancels = ActiveMissions(call[r].vehicle)

\* The inductive invariant.
IInv ==
  /\ TypeOK
  /\ LockInv /\ PathInv /\ SeenInv /\ IndexInv /\ CancelInv
  /\ AtMostOneOpenRecord
  /\ FaultLeavesRecord
  /\ GroundedVehicleHasNoMission

-----------------------------------------------------------------------------
\* The shape of one step: every proof about Next splits on these cases.
LEMMA NextCases ==
  ASSUME Next
  PROVE  \/ \E r \in Requests :
              \/ Arrive(r) \/ Borrow(r) \/ PoolTimeout(r) \/ UnknownVehicle(r)
              \/ LockVehicle(r) \/ AlreadyFault(r) \/ CancelActiveMission(r)
              \/ OpenMaintenance(r) \/ SetVehicleFault(r) \/ CommitFault(r)
              \/ SetVehicleStatus(r) \/ CommitStatus(r) \/ Respond(r) \/ Fail(r)
         \/ \E v \in Vehicles : RegisterVehicle(v)
         \/ \E m \in Missions, v \in Vehicles : AssignMission(m, v)
         \/ \E m \in Missions : CompleteMission(m)
         \/ \E q \in Requests : ResolveRecord(q)
         \/ UNCHANGED vars
  BY DEF Next, HandlerStep, Transact, Environment, AllAnswered

LEMMA TypeInit == Init => TypeOK
  BY DEF Init, TypeOK, EmptyTx, Tx, Mission, Call

LEMMA TypeStep == TypeOK /\ [Next]_vars => TypeOK'
<1> SUFFICES ASSUME TypeOK, [Next]_vars PROVE TypeOK'
  OBVIOUS
<1> USE DEF TypeOK, InTransaction
<1>1. ASSUME NEW r \in Requests, Arrive(r) PROVE TypeOK'
  BY <1>1 DEF Arrive
<1>2. ASSUME NEW r \in Requests, Borrow(r) PROVE TypeOK'
  BY <1>2 DEF Borrow, Connect
<1>3. ASSUME NEW r \in Requests, PoolTimeout(r) PROVE TypeOK'
  BY <1>3 DEF PoolTimeout
<1>4. ASSUME NEW r \in Requests, UnknownVehicle(r) PROVE TypeOK'
  BY <1>4 DEF UnknownVehicle
<1>5. ASSUME NEW r \in Requests, LockVehicle(r) PROVE TypeOK'
  <2>1. call[r].vehicle \in Vehicles
    BY DEF Call
  <2>2. vehicles[call[r].vehicle] \in OtherStatuses \cup {Fault, None}
    BY <2>1
  <2>3. [tx[r] EXCEPT !.seen = vehicles[call[r].vehicle]] \in Tx
    BY <2>2 DEF Tx
  <2>4. tx' = [tx EXCEPT ![r] = [tx[r] EXCEPT !.seen = vehicles[call[r].vehicle]]]
    BY <1>5 DEF LockVehicle
  <2>5. tx' \in [Requests -> Tx]
    BY <2>3, <2>4
  <2> QED
    BY <1>5, <2>1, <2>5 DEF LockVehicle
<1>6. ASSUME NEW r \in Requests, AlreadyFault(r) PROVE TypeOK'
  BY <1>6 DEF AlreadyFault, Call
<1>7. ASSUME NEW r \in Requests, CancelActiveMission(r) PROVE TypeOK'
  BY <1>7 DEF CancelActiveMission, Tx, ActiveMissions
<1>8. ASSUME NEW r \in Requests, OpenMaintenance(r) PROVE TypeOK'
  <2>1. (OpenRecords(call[r].vehicle) = {}) \in BOOLEAN
    OBVIOUS
  <2>2. [tx[r] EXCEPT !.opens = (OpenRecords(call[r].vehicle) = {})] \in Tx
    BY <2>1 DEF Tx
  <2>3. tx' = [tx EXCEPT ![r] = [tx[r] EXCEPT !.opens = (OpenRecords(call[r].vehicle) = {})]]
    BY <1>8 DEF OpenMaintenance
  <2>4. tx' \in [Requests -> Tx]
    BY <2>2, <2>3
  <2> QED
    BY <1>8, <2>4 DEF OpenMaintenance
<1>9. ASSUME NEW r \in Requests, SetVehicleFault(r) PROVE TypeOK'
  BY <1>9 DEF SetVehicleFault
<1>10. ASSUME NEW r \in Requests, CommitFault(r) PROVE TypeOK'
  BY <1>10 DEF CommitFault, Mission, Record, Call, Tx
<1>11. ASSUME NEW r \in Requests, SetVehicleStatus(r) PROVE TypeOK'
  BY <1>11 DEF SetVehicleStatus, Call
<1>12. ASSUME NEW r \in Requests, CommitStatus(r) PROVE TypeOK'
  BY <1>12 DEF CommitStatus, Call
<1>13. ASSUME NEW r \in Requests, Respond(r) PROVE TypeOK'
  BY <1>13 DEF Respond
<1>14. ASSUME NEW r \in Requests, Fail(r) PROVE TypeOK'
  BY <1>14 DEF Fail, ReleasedBy
<1>15. ASSUME NEW v \in Vehicles, RegisterVehicle(v) PROVE TypeOK'
  BY <1>15 DEF RegisterVehicle
<1>16. ASSUME NEW m \in Missions, NEW v \in Vehicles, AssignMission(m, v) PROVE TypeOK'
  BY <1>16 DEF AssignMission, Mission
<1>17. ASSUME NEW m \in Missions, CompleteMission(m) PROVE TypeOK'
  BY <1>17 DEF CompleteMission, Mission
<1>18. ASSUME NEW q \in Requests, ResolveRecord(q) PROVE TypeOK'
  BY <1>18 DEF ResolveRecord, Record
<1>19. CASE UNCHANGED vars
  BY <1>19 DEF vars
<1> QED
  BY <1>1, <1>2, <1>3, <1>4, <1>5, <1>6, <1>7, <1>8, <1>9, <1>10, <1>11, <1>12, <1>13, <1>14, <1>15, <1>16, <1>17, <1>18, <1>19, NextCases

\* Every reachable state of the handler and its tables is well typed.
THEOREM TypeCorrect == Spec => []TypeOK
  BY TypeInit, TypeStep, PTL DEF Spec

\* All requests idle and all tables empty.
LEMMA IInvInit == Init => IInv
<1> SUFFICES ASSUME Init PROVE IInv
  OBVIOUS
<1>1. TypeOK
  BY TypeInit
<1>2. LockInv /\ PathInv /\ SeenInv /\ IndexInv /\ CancelInv
  BY DEF Init, LockInv, LockingStates, PathInv, SeenInv, IndexInv, CancelInv, InFault
<1>3. AtMostOneOpenRecord /\ FaultLeavesRecord /\ GroundedVehicleHasNoMission
  BY NoneAssumption DEF Init, AtMostOneOpenRecord, FaultLeavesRecord, GroundedVehicleHasNoMission
<1> QED
  BY <1>1, <1>2, <1>3 DEF IInv

\* Two transactions past their first write are on different vehicles.
LEMMA LockExclusion ==
  ASSUME LockInv, NEW r \in Requests, NEW q \in Requests \ {r},
         pc[r] \in LockingStates, pc[q] \in LockingStates
  PROVE  call[q].vehicle # call[r].vehicle
<1>1. lockedBy[call[r].vehicle] = r
  BY DEF LockInv
<1>2. lockedBy[call[q].vehicle] = q
  BY DEF LockInv
<1> QED
  BY <1>1, <1>2

\* The inductive step: one case per action, and under it the conjuncts the
\* action can disturb.
LEMMA IInvStep == IInv /\ [Next]_vars => IInv'
<1> SUFFICES ASSUME IInv, [Next]_vars PROVE IInv'
  OBVIOUS
<1> USE NoneAssumption, NoRecordAssumption, StatusAssumption
<1>0. TypeOK /\ TypeOK'
  BY TypeStep DEF IInv
<1>1. ASSUME NEW r \in Requests, Arrive(r) PROVE IInv'
  <2>1. LockInv' /\ PathInv' /\ SeenInv'
    BY <1>0, <1>1 DEF IInv, TypeOK, LockInv, LockingStates, PathInv, SeenInv, InFault, Arrive
  <2>2. IndexInv' /\ CancelInv'
    BY <1>0, <1>1 DEF IInv, TypeOK, IndexInv, InFault, OpenRecords, RecordsOf, CancelInv, ActiveMissions, Arrive
  <2>3. AtMostOneOpenRecord' /\ FaultLeavesRecord' /\ GroundedVehicleHasNoMission'
    BY <1>0, <1>1 DEF IInv, TypeOK, AtMostOneOpenRecord, FaultLeavesRecord, RecordsOf, GroundedVehicleHasNoMission, ActiveMissions, Arrive
  <2> QED
    BY <1>0, <2>1, <2>2, <2>3 DEF IInv
<1>2. ASSUME NEW r \in Requests, Borrow(r) PROVE IInv'
  <2>1. LockInv' /\ PathInv' /\ SeenInv'
    BY <1>0, <1>2 DEF IInv, TypeOK, LockInv, LockingStates, PathInv, SeenInv, InFault, Borrow, Connect
  <2>2. IndexInv' /\ CancelInv'
    BY <1>0, <1>2 DEF IInv, TypeOK, IndexInv, InFault, OpenRecords, RecordsOf, CancelInv, ActiveMissions, Borrow, Connect
  <2>3. AtMostOneOpenRecord' /\ FaultLeavesRecord' /\ GroundedVehicleHasNoMission'
    BY <1>0, <1>2 DEF IInv, TypeOK, AtMostOneOpenRecord, FaultLeavesRecord, RecordsOf, GroundedVehicleHasNoMission, ActiveMissions, Borrow, Connect
  <2> QED
    BY <1>0, <2>1, <2>2, <2>3 DEF IInv
<1>3. ASSUME NEW r \in Requests, PoolTimeout(r) PROVE IInv'
  <2>1. LockInv' /\ PathInv' /\ SeenInv'
    BY <1>0, <1>3 DEF IInv, TypeOK, LockInv, LockingStates, PathInv, SeenInv, InFault, PoolTimeout
  <2>2. IndexInv' /\ CancelInv'
    BY <1>0, <1>3 DEF IInv, TypeOK, IndexInv, InFault, OpenRecords, RecordsOf, CancelInv, ActiveMissions, PoolTimeout
  <2>3. AtMostOneOpenRecord' /\ FaultLeavesRecord' /\ GroundedVehicleHasNoMission'
    BY <1>0, <1>3 DEF IInv, TypeOK, AtMostOneOpenRecord, FaultLeavesRecord, RecordsOf, GroundedVehicleHasNoMission, ActiveMissions, PoolTimeout
  <2> QED
    BY <1>0, <2>1, <2>2, <2>3 DEF IInv
<1>4. ASSUME NEW r \in Requests, UnknownVehicle(r) PROVE IInv'
  <2>1. LockInv' /\ PathInv' /\ SeenInv'
    BY <1>0, <1>4 DEF IInv, TypeOK, LockInv, LockingStates, PathInv, SeenInv, InFault, UnknownVehicle
  <2>2. IndexInv' /\ CancelInv'
    BY <1>0, <1>4 DEF IInv, TypeOK, IndexInv, InFault, OpenRecords, RecordsOf, CancelInv, ActiveMissions, UnknownVehicle
  <2>3. AtMostOneOpenRecord' /\ FaultLeavesRecord' /\ GroundedVehicleHasNoMission'
    BY <1>0, <1>4 DEF IInv, TypeOK, AtMostOneOpenRecord, FaultLeavesRecord, RecordsOf, GroundedVehicleHasNoMission, ActiveMissions, UnknownVehicle
  <2> QED
    BY <1>0, <2>1, <2>2, <2>3 DEF IInv
<1>5. ASSUME NEW r \in Requests, LockVehicle(r) PROVE IInv'
  <2>1. LockInv'
    BY <1>0, <1>5 DEF IInv, TypeOK, LockInv, LockingStates, LockVehicle
  <2>2. PathInv' /\ SeenInv'
    BY <1>0, <1>5 DEF IInv, TypeOK, PathInv, SeenInv, InFault, LockingStates, LockVehicle
  <2>3. IndexInv'
    BY <1>0, <1>5 DEF IInv, TypeOK, IndexInv, InFault, OpenRecords, RecordsOf, LockVehicle
  <2>4. CancelInv'
    BY <1>0, <1>5 DEF IInv, TypeOK, CancelInv, InFault, ActiveMissions, LockVehicle
  <2>5. AtMostOneOpenRecord' /\ FaultLeavesRecord' /\ GroundedVehicleHasNoMission'
    BY <1>0, <1>5 DEF IInv, TypeOK, AtMostOneOpenRecord, FaultLeavesRecord, RecordsOf, GroundedVehicleHasNoMission, ActiveMissions, LockVehicle
  <2> QED
    BY <1>0, <2>1, <2>2, <2>3, <2>4, <2>5 DEF IInv
<1>6. ASSUME NEW r \in Requests, AlreadyFault(r) PROVE IInv'
  <2>1. LockInv' /\ PathInv' /\ SeenInv'
    BY <1>0, <1>6 DEF IInv, TypeOK, LockInv, LockingStates, PathInv, SeenInv, InFault, AlreadyFault
  <2>2. IndexInv' /\ CancelInv'
    BY <1>0, <1>6 DEF IInv, TypeOK, IndexInv, InFault, OpenRecords, RecordsOf, CancelInv, ActiveMissions, AlreadyFault
  <2>3. AtMostOneOpenRecord' /\ FaultLeavesRecord' /\ GroundedVehicleHasNoMission'
    BY <1>0, <1>6 DEF IInv, TypeOK, AtMostOneOpenRecord, FaultLeavesRecord, RecordsOf, GroundedVehicleHasNoMission, ActiveMissions, AlreadyFault
  <2> QED
    BY <1>0, <2>1, <2>2, <2>3 DEF IInv
<1>7. ASSUME NEW r \in Requests, CancelActiveMission(r) PROVE IInv'
  <2>1. LockInv'
    BY <1>0, <1>7 DEF IInv, TypeOK, LockInv, LockingStates, CancelActiveMission
  <2>2. PathInv' /\ SeenInv'
    BY <1>0, <1>7 DEF IInv, TypeOK, PathInv, SeenInv, InFault, LockingStates, CancelActiveMission
  <2>3. IndexInv'
    BY <1>0, <1>7 DEF IInv, TypeOK, IndexInv, InFault, OpenRecords, RecordsOf, CancelActiveMission
  <2>4. CancelInv'
    BY <1>0, <1>7 DEF IInv, TypeOK, CancelInv, InFault, ActiveMissions, CancelActiveMission
  <2>5. AtMostOneOpenRecord' /\ FaultLeavesRecord' /\ GroundedVehicleHasNoMission'
    BY <1>0, <1>7 DEF IInv, TypeOK, AtMostOneOpenRecord, FaultLeavesRecord, RecordsOf, GroundedVehicleHasNoMission, ActiveMissions, CancelActiveMission
  <2> QED
    BY <1>0, <2>1, <2>2, <2>3, <2>4, <2>5 DEF IInv
<1>8. ASSUME NEW r \in Requests, OpenMaintenance(r) PROVE IInv'
  <2>1. LockInv' /\ PathInv' /\ SeenInv'
    BY <1>0, <1>8 DEF IInv, TypeOK, LockInv, LockingStates, PathInv, SeenInv, InFault, OpenMaintenance
  <2>2. IndexInv'
    <3>1. \A v : RecordsOf(v)' = RecordsOf(v) /\ OpenRecords(v)' = OpenRecords(v)
      BY <1>8 DEF OpenMaintenance, RecordsOf, OpenRecords
    <3>2. OpenRecords(call[r].vehicle) # {} => RecordsOf(call[r].vehicle) # {}
      BY DEF OpenRecords
    <3>3. tx'[r].opens <=> OpenRecords(call[r].vehicle) = {}
      BY <1>0, <1>8 DEF OpenMaintenance, TypeOK, Tx
    <3>4. \A q \in Requests \ {r} : tx'[q] = tx[q] /\ pc'[q] = pc[q]
      BY <1>0, <1>8 DEF OpenMaintenance, TypeOK
    <3> QED
      BY <1>0, <1>8, <3>1, <3>2, <3>3, <3>4 DEF IInv, TypeOK, IndexInv, InFault, OpenMaintenance
  <2>3. CancelInv'
    BY <1>0, <1>8 DEF IInv, TypeOK, CancelInv, InFault, ActiveMissions, OpenMaintenance
  <2>4. AtMostOneOpenRecord' /\ FaultLeavesRecord' /\ GroundedVehicleHasNoMission'
    BY <1>0, <1>8 DEF IInv, TypeOK, AtMostOneOpenRecord, FaultLeavesRecord, RecordsOf, GroundedVehicleHasNoMission, ActiveMissions, OpenMaintenance
  <2> QED
    BY <1>0, <2>1, <2>2, <2>3, <2>4 DEF IInv
<1>9. ASSUME NEW r \in Requests, SetVehicleFault(r) PROVE IInv'
  <2>1. LockInv' /\ PathInv' /\ SeenInv'
    BY <1>0, <1>9 DEF IInv, TypeOK, LockInv, LockingStates, PathInv, SeenInv, InFault, SetVehicleFault
  <2>2. IndexInv' /\ CancelInv'
    BY <1>0, <1>9 DEF IInv, TypeOK, IndexInv, InFault, OpenRecords, RecordsOf, CancelInv, ActiveMissions, SetVehicleFault
  <2>3. AtMostOneOpenRecord' /\ FaultLeavesRecord' /\ GroundedVehicleHasNoMission'
    BY <1>0, <1>9 DEF IInv, TypeOK, AtMostOneOpenRecord, FaultLeavesRecord, RecordsOf, GroundedVehicleHasNoMission, ActiveMissions, SetVehicleFault
  <2> QED
    BY <1>0, <2>1, <2>2, <2>3 DEF IInv
<1>10. ASSUME NEW r \in Requests, CommitFault(r) PROVE IInv'
  <2> DEFINE v == call[r].vehicle
  <2>a. /\ v \in Vehicles /\ call[r] \in Call /\ maintenance[r] = None
        /\ tx[r] \in Tx /\ tx[r].cancels \subseteq ActiveMissions(v)
        /\ AssignUnderLock => tx[r].cancels = ActiveMissions(v)
        /\ IF tx[r].opens THEN OpenRecords(v) = {} ELSE RecordsOf(v) # {}
    BY <1>10 DEF IInv, TypeOK, Call, CancelInv, IndexInv, InFault, CommitFault
  <2>b. \A q \in Requests \ {r} : pc[q] \in LockingStates => call[q].vehicle # v
    BY <1>10, LockExclusion DEF IInv, LockingStates, CommitFault
  <2>c. \A w : w # v => ActiveMissions(w)' = ActiveMissions(w)
    BY <1>0, <2>a, <1>10 DEF ActiveMissions, CommitFault, TypeOK, Mission
  <2>d. AssignUnderLock => ActiveMissions(v)' = {}
    BY <1>0, <2>a, <1>10 DEF ActiveMissions, CommitFault, TypeOK, Mission
  <2>e. PICK named \in Missions \cup {None} :
          maintenance' = IF tx[r].opens
                         THEN [maintenance EXCEPT ![r] =
                                 [vehicle |-> v, mission |-> named, open |-> TRUE]]
                         ELSE maintenance
    BY <1>10 DEF CommitFault
  <2>f. \A q \in Requests : q # r => maintenance'[q] = maintenance[q]
    BY <1>0, <2>e DEF TypeOK
  <2>g. /\ tx[r].opens => maintenance'[r] = [vehicle |-> v, mission |-> named, open |-> TRUE]
        /\ ~tx[r].opens => maintenance' = maintenance
    BY <1>0, <2>e DEF TypeOK
  <2>h. \A w : w # v => RecordsOf(w)' = RecordsOf(w) /\ OpenRecords(w)' = OpenRecords(w)
    BY <2>a, <2>f, <2>g DEF RecordsOf, OpenRecords
  <2>i. RecordsOf(v)' # {}
    <3>1. CASE tx[r].opens
      <4>1. [vehicle |-> v, mission |-> named, open |-> TRUE] \in Record
        BY <2>a, <2>e DEF Record
      <4>2. maintenance'[r] # None /\ maintenance'[r].vehicle = v
        BY <4>1, <3>1, <2>g
      <4> QED
        BY <1>10, <4>2 DEF RecordsOf, CommitFault
    <3>2. CASE ~tx[r].opens
      BY <1>10, <3>2, <2>a, <2>g DEF RecordsOf, CommitFault
    <3> QED
      BY <3>1, <3>2
  <2>1. LockInv' /\ PathInv'
    BY <1>0, <1>10 DEF IInv, TypeOK, LockInv, LockingStates, PathInv, CommitFault
  <2>2. SeenInv'
    BY <1>0, <1>10, <2>b DEF IInv, TypeOK, SeenInv, InFault, LockingStates, CommitFault
  <2>3. IndexInv'
    <3>1. pc'[r] = "committed" /\ call' = call /\ tx' = tx
      BY <1>0, <1>10 DEF TypeOK, CommitFault
    <3>2. ASSUME NEW q \in Requests \ {r}
          PROVE  /\ pc'[q] = pc[q] /\ maintenance'[q] = maintenance[q]
                 /\ pc[q] \in {"opened", "written"} =>
                      /\ RecordsOf(call[q].vehicle)' = RecordsOf(call[q].vehicle)
                      /\ OpenRecords(call[q].vehicle)' = OpenRecords(call[q].vehicle)
      BY <1>0, <1>10, <2>b, <2>f, <2>h, <3>1 DEF TypeOK, LockingStates, CommitFault
    <3> QED
      BY <3>1, <3>2 DEF IInv, IndexInv, InFault
  <2>4. CancelInv'
    BY <1>0, <1>10, <2>b, <2>c DEF IInv, TypeOK, CancelInv, InFault, LockingStates, CommitFault
  <2>5. AtMostOneOpenRecord'
    BY <2>a, <2>f, <2>g DEF IInv, AtMostOneOpenRecord, OpenRecords, RecordsOf
  <2>6. FaultLeavesRecord'
    BY <1>0, <1>10, <2>h, <2>i DEF IInv, TypeOK, FaultLeavesRecord, CommitFault
  <2>7. GroundedVehicleHasNoMission'
    BY <1>0, <1>10, <2>c, <2>d DEF IInv, TypeOK, GroundedVehicleHasNoMission, CommitFault
  <2> QED
    BY <1>0, <2>1, <2>2, <2>3, <2>4, <2>5, <2>6, <2>7 DEF IInv
<1>11. ASSUME NEW r \in Requests, SetVehicleStatus(r) PROVE IInv'
  <2>1. LockInv'
    BY <1>0, <1>11 DEF IInv, TypeOK, LockInv, LockingStates, SetVehicleStatus
  <2>2. PathInv' /\ SeenInv'
    BY <1>0, <1>11 DEF IInv, TypeOK, PathInv, SeenInv, InFault, LockingStates, SetVehicleStatus
  <2>3. IndexInv' /\ CancelInv'
    BY <1>0, <1>11 DEF IInv, TypeOK, IndexInv, InFault, OpenRecords, RecordsOf, CancelInv, ActiveMissions, SetVehicleStatus
  <2>4. AtMostOneOpenRecord' /\ FaultLeavesRecord' /\ GroundedVehicleHasNoMission'
    BY <1>0, <1>11 DEF IInv, TypeOK, AtMostOneOpenRecord, FaultLeavesRecord, RecordsOf, GroundedVehicleHasNoMission, ActiveMissions, SetVehicleStatus
  <2> QED
    BY <1>0, <2>1, <2>2, <2>3, <2>4 DEF IInv
<1>12. ASSUME NEW r \in Requests, CommitStatus(r) PROVE IInv'
  <2>1. LockInv' /\ PathInv'
    BY <1>0, <1>12 DEF IInv, TypeOK, LockInv, LockingStates, PathInv, CommitStatus
  <2>2. SeenInv'
    <3>1. \A q \in Requests \ {r} : pc[q] \in LockingStates => call[q].vehicle # call[r].vehicle
      BY <1>12, LockExclusion DEF IInv, LockingStates, CommitStatus
    <3> QED
      BY <1>0, <1>12, <3>1 DEF IInv, TypeOK, SeenInv, InFault, LockingStates, CommitStatus
  <2>3. IndexInv' /\ CancelInv'
    BY <1>0, <1>12 DEF IInv, TypeOK, IndexInv, InFault, OpenRecords, RecordsOf, CancelInv, ActiveMissions, CommitStatus
  <2>4. AtMostOneOpenRecord'
    BY <1>0, <1>12 DEF IInv, TypeOK, AtMostOneOpenRecord, CommitStatus
  <2>5. FaultLeavesRecord' /\ GroundedVehicleHasNoMission'
    BY <1>0, <1>12 DEF IInv, TypeOK, FaultLeavesRecord, RecordsOf, GroundedVehicleHasNoMission, ActiveMissions, CommitStatus
  <2> QED
    BY <1>0, <2>1, <2>2, <2>3, <2>4, <2>5 DEF IInv
<1>13. ASSUME NEW r \in Requests, Respond(r) PROVE IInv'
  <2>1. LockInv' /\ PathInv' /\ SeenInv'
    BY <1>0, <1>13 DEF IInv, TypeOK, LockInv, LockingStates, PathInv, SeenInv, InFault, Respond
  <2>2. IndexInv' /\ CancelInv'
    BY <1>0, <1>13 DEF IInv, TypeOK, IndexInv, InFault, OpenRecords, RecordsOf, CancelInv, ActiveMissions, Respond
  <2>3. AtMostOneOpenRecord' /\ FaultLeavesRecord' /\ GroundedVehicleHasNoMission'
    BY <1>0, <1>13 DEF IInv, TypeOK, AtMostOneOpenRecord, FaultLeavesRecord, RecordsOf, GroundedVehicleHasNoMission, ActiveMissions, Respond
  <2> QED
    BY <1>0, <2>1, <2>2, <2>3 DEF IInv
<1>14. ASSUME NEW r \in Requests, Fail(r) PROVE IInv'
  <2>1. LockInv'
    <3>1. \A q \in Requests : pc'[q] \in LockingStates => q # r /\ pc'[q] = pc[q]
      BY <1>0, <1>14 DEF TypeOK, Fail, LockingStates
    <3>2. \A q \in Requests : call[q].vehicle \in Vehicles
      BY <1>0 DEF TypeOK, Call
    <3> QED
      BY <1>14, <3>1, <3>2 DEF IInv, LockInv, Fail, ReleasedBy
  <2>2. PathInv' /\ SeenInv'
    BY <1>0, <1>14 DEF IInv, TypeOK, PathInv, SeenInv, InFault, LockingStates, Fail, InTransaction
  <2>3. IndexInv' /\ CancelInv'
    BY <1>0, <1>14 DEF IInv, TypeOK, IndexInv, InFault, OpenRecords, RecordsOf, CancelInv, ActiveMissions, Fail, InTransaction
  <2>4. AtMostOneOpenRecord' /\ FaultLeavesRecord' /\ GroundedVehicleHasNoMission'
    BY <1>0, <1>14 DEF IInv, TypeOK, AtMostOneOpenRecord, FaultLeavesRecord, RecordsOf, GroundedVehicleHasNoMission, ActiveMissions, Fail, InTransaction
  <2> QED
    BY <1>0, <2>1, <2>2, <2>3, <2>4 DEF IInv
<1>15. ASSUME NEW v \in Vehicles, RegisterVehicle(v) PROVE IInv'
  <2>1. LockInv' /\ PathInv'
    BY <1>0, <1>15 DEF IInv, TypeOK, LockInv, LockingStates, PathInv, RegisterVehicle
  <2>2. SeenInv'
    <3>1. \A q \in Requests : pc[q] \in LockingStates => call[q].vehicle # v
      BY <1>15 DEF IInv, LockInv, RegisterVehicle
    <3>2. \A w \in Vehicles : w # v => vehicles'[w] = vehicles[w]
      BY <1>0, <1>15 DEF TypeOK, RegisterVehicle
    <3>3. \A q \in Requests : call[q].vehicle \in Vehicles
      BY <1>0 DEF TypeOK, Call
    <3> QED
      BY <1>15, <3>1, <3>2, <3>3 DEF IInv, SeenInv, InFault, LockingStates, RegisterVehicle
  <2>3. IndexInv' /\ CancelInv'
    BY <1>0, <1>15 DEF IInv, TypeOK, IndexInv, InFault, OpenRecords, RecordsOf, CancelInv, ActiveMissions, RegisterVehicle
  <2>4. AtMostOneOpenRecord'
    BY <1>0, <1>15 DEF IInv, TypeOK, AtMostOneOpenRecord, RegisterVehicle
  <2>5. FaultLeavesRecord' /\ GroundedVehicleHasNoMission'
    BY <1>0, <1>15 DEF IInv, TypeOK, FaultLeavesRecord, RecordsOf, GroundedVehicleHasNoMission, ActiveMissions, RegisterVehicle
  <2> QED
    BY <1>0, <2>1, <2>2, <2>3, <2>4, <2>5 DEF IInv
<1>16. ASSUME NEW m \in Missions, NEW v \in Vehicles, AssignMission(m, v) PROVE IInv'
  <2>1. LockInv' /\ PathInv' /\ SeenInv'
    BY <1>0, <1>16 DEF IInv, TypeOK, LockInv, LockingStates, PathInv, SeenInv, InFault, AssignMission
  <2>2. IndexInv'
    BY <1>0, <1>16 DEF IInv, TypeOK, IndexInv, InFault, OpenRecords, RecordsOf, AssignMission
  <2>3. CancelInv'
    <3>1. \A w \in Vehicles : w # v => ActiveMissions(w)' = ActiveMissions(w)
      BY <1>0, <1>16 DEF TypeOK, Mission, AssignMission, ActiveMissions
    <3>2. ActiveMissions(v) = {}
      BY <1>16 DEF AssignMission
    <3>3. AssignUnderLock => \A q \in Requests : pc[q] \in LockingStates => call[q].vehicle # v
      BY <1>16 DEF IInv, LockInv, AssignMission
    <3>4. \A q \in Requests : call[q].vehicle \in Vehicles
      BY <1>0 DEF TypeOK, Call
    <3> QED
      BY <1>16, <3>1, <3>2, <3>3, <3>4 DEF IInv, CancelInv, InFault, LockingStates, AssignMission
  <2>4. AtMostOneOpenRecord' /\ FaultLeavesRecord'
    BY <1>0, <1>16 DEF IInv, TypeOK, AtMostOneOpenRecord, FaultLeavesRecord, RecordsOf, AssignMission
  <2>5. GroundedVehicleHasNoMission'
    BY <1>0, <1>16 DEF IInv, TypeOK, GroundedVehicleHasNoMission, ActiveMissions, AssignMission
  <2> QED
    BY <1>0, <2>1, <2>2, <2>3, <2>4, <2>5 DEF IInv
<1>17. ASSUME NEW m \in Missions, CompleteMission(m) PROVE IInv'
  <2>1. LockInv' /\ PathInv' /\ SeenInv'
    BY <1>0, <1>17 DEF IInv, TypeOK, LockInv, LockingStates, PathInv, SeenInv, InFault, CompleteMission, MissionLocked, HoldsConnection, InTransaction
  <2>2. IndexInv'
    BY <1>0, <1>17 DEF IInv, TypeOK, IndexInv, InFault, OpenRecords, RecordsOf, CompleteMission, MissionLocked, HoldsConnection, InTransaction
  <2>3. CancelInv'
    BY <1>0, <1>17 DEF IInv, TypeOK, CancelInv, InFault, ActiveMissions, CompleteMission, MissionLocked, HoldsConnection, InTransaction
  <2>4. AtMostOneOpenRecord' /\ FaultLeavesRecord'
    BY <1>0, <1>17 DEF IInv, TypeOK, AtMostOneOpenRecord, FaultLeavesRecord, RecordsOf, CompleteMission, MissionLocked, HoldsConnection, InTransaction
  <2>5. GroundedVehicleHasNoMission'
    BY <1>0, <1>17 DEF IInv, TypeOK, GroundedVehicleHasNoMission, ActiveMissions, CompleteMission, MissionLocked, HoldsConnection, InTransaction
  <2> QED
    BY <1>0, <2>1, <2>2, <2>3, <2>4, <2>5 DEF IInv
<1>18. ASSUME NEW q \in Requests, ResolveRecord(q) PROVE IInv'
  <2>a. /\ maintenance'[q] # None /\ maintenance'[q].vehicle = maintenance[q].vehicle
        /\ ~maintenance'[q].open
        /\ \A p \in Requests : p # q => maintenance'[p] = maintenance[p]
    <3>1. maintenance[q] \in Record
      BY <1>0, <1>18 DEF TypeOK, ResolveRecord
    <3>2. maintenance'[q] = [maintenance[q] EXCEPT !.open = FALSE]
      BY <1>0, <1>18 DEF TypeOK, ResolveRecord
    <3>3. maintenance'[q] \in Record
      BY <3>1, <3>2 DEF Record
    <3>4. maintenance'[q].vehicle = maintenance[q].vehicle /\ ~maintenance'[q].open
      BY <3>1, <3>2 DEF Record
    <3>5. \A p \in Requests : p # q => maintenance'[p] = maintenance[p]
      BY <1>0, <1>18 DEF TypeOK, ResolveRecord
    <3> QED
      BY <3>3, <3>4, <3>5
  <2>b. \A v : RecordsOf(v)' = RecordsOf(v) /\ OpenRecords(v)' \subseteq OpenRecords(v)
    BY <1>18, <2>a DEF RecordsOf, OpenRecords, ResolveRecord
  <2>1. LockInv' /\ PathInv' /\ SeenInv'
    BY <1>0, <1>18 DEF IInv, TypeOK, LockInv, LockingStates, PathInv, SeenInv, InFault, ResolveRecord
  <2>2. IndexInv'
    BY <1>18, <2>a, <2>b DEF IInv, IndexInv, InFault, ResolveRecord
  <2>3. CancelInv' /\ GroundedVehicleHasNoMission'
    BY <1>0, <1>18 DEF IInv, TypeOK, CancelInv, InFault, ActiveMissions, GroundedVehicleHasNoMission, ResolveRecord
  <2>4. AtMostOneOpenRecord'
    BY <2>a DEF IInv, AtMostOneOpenRecord
  <2>5. FaultLeavesRecord'
    BY <1>18, <2>b DEF IInv, FaultLeavesRecord, ResolveRecord
  <2> QED
    BY <1>0, <2>1, <2>2, <2>3, <2>4, <2>5 DEF IInv
<1>19. CASE UNCHANGED vars
  BY <1>19 DEF vars, IInv, TypeOK, LockInv, LockingStates, PathInv, SeenInv, InFault, IndexInv, OpenRecords, RecordsOf, CancelInv, ActiveMissions, AtMostOneOpenRecord, FaultLeavesRecord, GroundedVehicleHasNoMission
<1> QED
  BY <1>1, <1>2, <1>3, <1>4, <1>5, <1>6, <1>7, <1>8, <1>9, <1>10, <1>11, <1>12, <1>13, <1>14, <1>15, <1>16, <1>17, <1>18, <1>19, NextCases

LEMMA Inductive == Spec => []IInv
  BY IInvInit, IInvStep, PTL DEF Spec

\* At most one open maintenance record per vehicle, for any number of
\* concurrent, repeated and interrupted status requests.
THEOREM OneOpenRecord == Spec => []AtMostOneOpenRecord
  BY Inductive, PTL DEF IInv

\* A vehicle in fault always has a maintenance record.
THEOREM RecordForEveryFault == Spec => []FaultLeavesRecord
  BY Inductive, PTL DEF IInv

\* If missions are assigned under the row lock, no faulted vehicle keeps one.
THEOREM FaultGrounds == Spec => []GroundedVehicleHasNoMission
  BY Inductive, PTL DEF IInv

-----------------------------------------------------------------------------
\* Who holds a row is past its first write, on that row.
HolderInv ==
  \A v \in Vehicles : lockedBy[v] # None =>
    pc[lockedBy[v]] \in LockingStates /\ call[lockedBy[v]].vehicle = v

\* Missions and an index entry are written under the row lock of a fault call.
WritesInv ==
  \A r \in Requests :
    /\ tx[r].cancels # {} =>
         InFault(r, {"cancelled", "opened", "written", "committed", "done"})
    /\ tx[r].opens => InFault(r, {"opened", "written", "committed", "done"})

LEMMA WaitInit == Init => HolderInv /\ WritesInv
  BY DEF Init, HolderInv, WritesInv, EmptyTx

LEMMA HolderStep ==
  ASSUME IInv, HolderInv, [Next]_vars
  PROVE  HolderInv'
<1> USE NoneAssumption DEF HolderInv, LockingStates
<1>0. TypeOK /\ TypeOK'
  BY TypeStep DEF IInv
<1>1. ASSUME NEW r \in Requests,
             \/ Arrive(r) \/ Borrow(r) \/ PoolTimeout(r) \/ UnknownVehicle(r) \/ Respond(r)
      PROVE  HolderInv'
  BY <1>0, <1>1 DEF TypeOK, Arrive, Borrow, Connect, PoolTimeout, UnknownVehicle, Respond
<1>2. ASSUME NEW r \in Requests,
             CancelActiveMission(r) \/ OpenMaintenance(r) \/ SetVehicleFault(r)
      PROVE  HolderInv'
  BY <1>0, <1>2 DEF TypeOK, CancelActiveMission, OpenMaintenance, SetVehicleFault
<1>3. ASSUME NEW r \in Requests, LockVehicle(r) \/ SetVehicleStatus(r) PROVE HolderInv'
  BY <1>0, <1>3 DEF TypeOK, LockVehicle, SetVehicleStatus
\* At its end a transaction gives its row back, and it holds no other.
<1>4. ASSUME NEW r \in Requests, AlreadyFault(r) \/ CommitFault(r) \/ CommitStatus(r)
      PROVE  HolderInv'
  <2>1. /\ lockedBy' = [lockedBy EXCEPT ![call[r].vehicle] = None]
        /\ \A q \in Requests : q # r => pc'[q] = pc[q]
        /\ call' = call
    BY <1>0, <1>4 DEF TypeOK, AlreadyFault, CommitFault, CommitStatus
  <2> QED
    BY <1>0, <2>1 DEF TypeOK
<1>5. ASSUME NEW r \in Requests, Fail(r) PROVE HolderInv'
  BY <1>0, <1>5 DEF TypeOK, Fail, ReleasedBy
<1>6. CASE UNCHANGED <<lockedBy, call, pc>>
  BY <1>6
<1> QED
  BY <1>1, <1>2, <1>3, <1>4, <1>5, <1>6, NextCases
     DEF RegisterVehicle, AssignMission, CompleteMission, ResolveRecord, vars

LEMMA WritesStep ==
  ASSUME IInv, WritesInv, [Next]_vars
  PROVE  WritesInv'
<1> USE DEF WritesInv, InFault
<1>0. TypeOK /\ TypeOK' /\ PathInv
  BY TypeStep DEF IInv
<1>1. ASSUME NEW r \in Requests, CancelActiveMission(r) PROVE WritesInv'
  <2>1. /\ call[r].status = Fault /\ pc'[r] = "cancelled" /\ call' = call
        /\ tx'[r].opens = tx[r].opens /\ pc[r] = "locked"
        /\ \A q \in Requests : q # r => tx'[q] = tx[q] /\ pc'[q] = pc[q]
    BY <1>0, <1>1 DEF PathInv, TypeOK, Tx, CancelActiveMission
  <2> QED
    BY <2>1
<1>2. ASSUME NEW r \in Requests, OpenMaintenance(r) PROVE WritesInv'
  <2>1. /\ call[r].status = Fault /\ pc'[r] = "opened" /\ call' = call
        /\ \A q \in Requests : q # r => tx'[q] = tx[q] /\ pc'[q] = pc[q]
    BY <1>0, <1>2 DEF PathInv, TypeOK, OpenMaintenance
  <2> QED
    BY <2>1
<1>3. ASSUME NEW r \in Requests, LockVehicle(r) PROVE WritesInv'
  <2>1. /\ tx'[r].cancels = tx[r].cancels /\ tx'[r].opens = tx[r].opens
        /\ pc[r] = "connected" /\ call' = call
        /\ \A q \in Requests : q # r => tx'[q] = tx[q] /\ pc'[q] = pc[q]
    BY <1>0, <1>3 DEF TypeOK, Tx, LockVehicle
  <2> QED
    BY <2>1
<1>4. ASSUME NEW r \in Requests,
             \/ Arrive(r) \/ Borrow(r) \/ PoolTimeout(r) \/ UnknownVehicle(r)
             \/ AlreadyFault(r) \/ SetVehicleFault(r) \/ CommitFault(r)
             \/ SetVehicleStatus(r) \/ CommitStatus(r) \/ Respond(r) \/ Fail(r)
      PROVE  WritesInv'
  <2>1. /\ tx' = tx /\ call' = call
        /\ \A q \in Requests : q # r => pc'[q] = pc[q]
        /\ \/ pc'[r] \in {"written", "committed", "done"}
           \/ pc[r] \in {"idle", "waiting"}
    BY <1>0, <1>4 DEF TypeOK, Arrive, Borrow, Connect, PoolTimeout, UnknownVehicle, AlreadyFault,
       SetVehicleFault, CommitFault, SetVehicleStatus, CommitStatus, Respond, Fail
  <2>2. pc[r] = "opened" \/ pc'[r] # "written" \/ pc[r] = "connected"
    BY <1>0, <1>4 DEF TypeOK, Arrive, Borrow, Connect, PoolTimeout, UnknownVehicle, AlreadyFault,
       SetVehicleFault, CommitFault, SetVehicleStatus, CommitStatus, Respond, Fail
  <2> QED
    BY <2>1, <2>2
<1>5. CASE UNCHANGED <<call, pc, tx>>
  BY <1>5
<1> QED
  BY <1>1, <1>2, <1>3, <1>4, <1>5, NextCases
     DEF RegisterVehicle, AssignMission, CompleteMission, ResolveRecord, vars

\* A transaction that owns its row meets no other lock: the missions of the
\* vehicle and its key in the index are written only by the owner.
LEMMA HolderWaitsForNobody ==
  ASSUME IInv, WritesInv, NEW r \in Requests, pc[r] \in LockingStates
  PROVE  BlockedBy(r) = {}
<1> SUFFICES ASSUME NEW q \in BlockedBy(r) PROVE FALSE
  OBVIOUS
<1> USE DEF LockingStates
<1>1. q \in Requests \ {r} /\ HoldsConnection(q)
  BY DEF BlockedBy
<1>2. CASE pc[r] = "locked"
  <2>1. PICK m \in ActiveMissions(call[r].vehicle) : m \in tx[q].cancels
    BY <1>2 DEF BlockedBy
  <2>2. pc[q] \in LockingStates /\ m \in ActiveMissions(call[q].vehicle)
    BY <1>1, <2>1 DEF IInv, WritesInv, CancelInv, InFault, HoldsConnection, InTransaction
  <2>3. call[q].vehicle = call[r].vehicle
    BY <2>1, <2>2 DEF ActiveMissions
  <2> QED
    BY <1>1, <2>2, <2>3, LockExclusion DEF IInv
<1>3. CASE pc[r] = "cancelled"
  <2>1. pc[q] \in LockingStates /\ call[q].vehicle = call[r].vehicle
    BY <1>1, <1>3 DEF BlockedBy, WritesInv, InFault, HoldsConnection, InTransaction
  <2> QED
    BY <1>1, <2>1, LockExclusion DEF IInv
<1> QED
  BY <1>2, <1>3 DEF BlockedBy

\* No two status requests wait for each other, directly or through others, and
\* no lock outlives its transaction: SELECT ... FOR UPDATE comes first.
THEOREM NoDeadlock == Spec => []NoCircularWait
<1>1. IInv /\ HolderInv /\ WritesInv => NoCircularWait
  <2> SUFFICES ASSUME IInv, HolderInv, WritesInv, NEW r \in Requests, NEW q \in BlockedBy(r)
               PROVE  HoldsConnection(q) /\ BlockedBy(q) = {}
    BY DEF NoCircularWait
  <2>1. pc[r] = "connected" /\ lockedBy[call[r].vehicle] = q
    BY HolderWaitsForNobody DEF BlockedBy, LockingStates
  <2>2. q \in Requests /\ call[r].vehicle \in Vehicles
    BY DEF BlockedBy, IInv, TypeOK, Call
  <2>3. pc[q] \in LockingStates
    BY <2>1, <2>2, NoneAssumption DEF HolderInv
  <2> QED
    BY <2>2, <2>3, HolderWaitsForNobody DEF HoldsConnection, InTransaction, LockingStates
<1>2. IInv /\ HolderInv /\ WritesInv /\ [Next]_vars => HolderInv' /\ WritesInv'
  BY HolderStep, WritesStep
<1> QED
  BY <1>1, <1>2, WaitInit, Inductive, PTL DEF Spec

-----------------------------------------------------------------------------
\* What a commit of a fault transaction does to the tables.
LEMMA CommitFaultIsTransition ==
  ASSUME IInv, AssignUnderLock, NEW r \in Requests, CommitFault(r)
  PROVE  Atomic!TransitionToFault(call[r].vehicle, r)
<1> DEFINE v == call[r].vehicle
<1> USE NoneAssumption, StatusAssumption
<1>1. /\ v \in Vehicles /\ maintenance[r] = None
      /\ tx[r].cancels = ActiveMissions(v)
      /\ IF tx[r].opens THEN OpenRecords(v) = {} ELSE RecordsOf(v) # {}
      /\ vehicles[v] \notin {None, Fault}
  BY DEF IInv, TypeOK, Call, CancelInv, IndexInv, LockInv, LockingStates, SeenInv,
         InFault, CommitFault
<1>2. vehicles' = [vehicles EXCEPT ![v] = Fault]
  BY DEF CommitFault
<1>3. missions' = [m \in Missions |->
                     IF m \in ActiveMissions(v)
                     THEN [missions[m] EXCEPT !.status = "cancelled"]
                     ELSE missions[m]]
  BY <1>1 DEF CommitFault
<1>4. PICK named \in Missions \cup {None} :
        /\ named \in ActiveMissions(v) \/ (named = None /\ ActiveMissions(v) = {})
        /\ maintenance' = IF tx[r].opens
                          THEN [maintenance EXCEPT ![r] =
                                  [vehicle |-> v, mission |-> named, open |-> TRUE]]
                          ELSE maintenance
  BY <1>1 DEF CommitFault
<1>5. CASE tx[r].opens
  BY <1>1, <1>2, <1>3, <1>4, <1>5 DEF Atomic!TransitionToFault, Atomic!ActiveMissions,
     Atomic!OpenRecords, Atomic!RecordsOf, ActiveMissions, OpenRecords, RecordsOf,
     Atomic!Fault, Fault
<1>6. CASE ~tx[r].opens
  BY <1>1, <1>2, <1>3, <1>4, <1>6 DEF Atomic!TransitionToFault, Atomic!ActiveMissions,
     Atomic!RecordsOf, ActiveMissions, RecordsOf, Atomic!Fault, Fault
<1> QED
  BY <1>5, <1>6

LEMMA AtomicStep ==
  ASSUME IInv, AssignUnderLock, [Next]_vars
  PROVE  [Atomic!Next]_(Atomic!tables)
<1> USE DEF Atomic!tables
<1>1. ASSUME NEW r \in Requests,
             \/ Arrive(r) \/ Borrow(r) \/ PoolTimeout(r) \/ UnknownVehicle(r)
             \/ LockVehicle(r) \/ AlreadyFault(r) \/ CancelActiveMission(r)
             \/ OpenMaintenance(r) \/ SetVehicleFault(r) \/ SetVehicleStatus(r)
             \/ Respond(r) \/ Fail(r)
      PROVE  UNCHANGED Atomic!tables
  BY <1>1 DEF Arrive, Borrow, Connect, PoolTimeout, UnknownVehicle, LockVehicle, AlreadyFault,
     CancelActiveMission, OpenMaintenance, SetVehicleFault, SetVehicleStatus, Respond, Fail
<1>2. ASSUME NEW r \in Requests, CommitFault(r) PROVE Atomic!Next
  <2>1. call[r].vehicle \in Vehicles
    BY DEF IInv, TypeOK, Call
  <2> QED
    BY <1>2, <2>1, CommitFaultIsTransition DEF Atomic!Next
<1>3. ASSUME NEW r \in Requests, CommitStatus(r) PROVE Atomic!Next
  <2>1. /\ call[r].vehicle \in Vehicles
        /\ call[r].status \in OtherStatuses
        /\ vehicles[call[r].vehicle] # None
    BY <1>3 DEF IInv, TypeOK, Call, LockInv, LockingStates, CommitStatus
  <2>2. Atomic!SetStatus(call[r].vehicle, call[r].status)
    BY <1>3, <2>1 DEF Atomic!SetStatus, CommitStatus
  <2> QED
    BY <2>1, <2>2 DEF Atomic!Next
<1>4. ASSUME NEW v \in Vehicles, RegisterVehicle(v) PROVE Atomic!Next
  BY <1>4 DEF RegisterVehicle, Atomic!RegisterVehicle, Atomic!Next
<1>5. ASSUME NEW m \in Missions, NEW v \in Vehicles, AssignMission(m, v) PROVE Atomic!Next
  <2>1. Atomic!AssignMission(m, v)
    BY <1>5 DEF AssignMission, ActiveMissions, Fault,
       Atomic!AssignMission, Atomic!ActiveMissions, Atomic!Fault
  <2> QED
    BY <2>1 DEF Atomic!Next
<1>6. ASSUME NEW m \in Missions, CompleteMission(m) PROVE Atomic!Next
  BY <1>6 DEF CompleteMission, Atomic!CompleteMission, Atomic!Next
<1>7. ASSUME NEW q \in Requests, ResolveRecord(q) PROVE Atomic!Next
  BY <1>7 DEF ResolveRecord, Atomic!ResolveRecord, Atomic!Next
<1>8. CASE UNCHANGED vars
  BY <1>8 DEF vars
<1> QED
  BY <1>1, <1>2, <1>3, <1>4, <1>5, <1>6, <1>7, <1>8, NextCases

\* With a dispatcher that takes the row lock, the statements of
\* transition_to_fault and set_vehicle_status add up to one atomic step each.
THEOREM Refinement == AssignUnderLock => (Spec => ImplementsAtomic)
<1> SUFFICES ASSUME AssignUnderLock PROVE Spec => ImplementsAtomic
  OBVIOUS
<1>1. Init => Atomic!Init
  BY DEF Init, Atomic!Init
<1>2. IInv /\ [Next]_vars => [Atomic!Next]_(Atomic!tables)
  BY AtomicStep
<1> QED
  BY <1>1, <1>2, Inductive, PTL DEF Spec, ImplementsAtomic, Atomic!Spec

\* A commit of a fault request is a transition, and touches one vehicle only.
LEMMA CommitFaultEffects ==
  ASSUME IInv, NEW r \in Requests, CommitFault(r), NEW v \in Vehicles, FaultEffect(v)
  PROVE  vehicles[v] \notin {Fault, None} /\ vehicles'[v] = Fault
<1> USE NoneAssumption
<1>1. /\ call[r] \in Call /\ call[r].vehicle \in Vehicles
      /\ tx[r].cancels \subseteq ActiveMissions(call[r].vehicle)
      /\ vehicles[call[r].vehicle] \notin {Fault, None}
      /\ vehicles' = [vehicles EXCEPT ![call[r].vehicle] = Fault]
  BY DEF IInv, TypeOK, Call, CancelInv, LockInv, LockingStates, SeenInv, InFault, CommitFault
<1>2. v = call[r].vehicle
  <2>1. ASSUME NEW m \in Missions, missions[m].vehicle = v,
               missions[m].status # "cancelled", missions'[m].status = "cancelled"
        PROVE  v = call[r].vehicle
    BY <2>1, <1>1 DEF CommitFault, ActiveMissions
  <2>2. ASSUME NEW q \in Requests, maintenance[q] = None, maintenance'[q] # None,
               maintenance'[q].vehicle = v
        PROVE  v = call[r].vehicle
    BY <2>2, <1>1 DEF CommitFault, IInv, TypeOK
  <2>3. ASSUME NEW q \in Requests, call[q] = [vehicle |-> v, status |-> Fault],
               pc[q] = "written", pc'[q] = "committed"
        PROVE  v = call[r].vehicle
    BY <2>3 DEF CommitFault, IInv, TypeOK
  <2> QED
    BY <2>1, <2>2, <2>3 DEF FaultEffect
<1> QED
  BY <1>1, <1>2 DEF IInv, TypeOK

\* Every other step is without effect.
LEMMA NoOtherEffects ==
  ASSUME IInv, [Next]_vars, NEW v \in Vehicles, FaultEffect(v)
  PROVE  \E r \in Requests : CommitFault(r)
<1> SUFFICES ASSUME ~(\E r \in Requests : CommitFault(r)) PROVE FALSE
  OBVIOUS
<1> USE NoneAssumption, NoRecordAssumption, StatusAssumption
<1>1. \A m \in Missions : missions'[m].status = "cancelled" => missions[m].status = "cancelled"
  <2>1. ASSUME NEW m \in Missions, NEW w \in Vehicles, AssignMission(m, w)
        PROVE  \A n \in Missions : missions'[n].status = "cancelled" => missions[n].status = "cancelled"
    BY <2>1 DEF AssignMission, IInv, TypeOK, Mission
  <2>2. ASSUME NEW m \in Missions, CompleteMission(m)
        PROVE  \A n \in Missions : missions'[n].status = "cancelled" => missions[n].status = "cancelled"
    BY <2>2 DEF CompleteMission, IInv, TypeOK, Mission
  <2>3. CASE UNCHANGED missions
    BY <2>3
  <2> QED
    BY <2>1, <2>2, <2>3, NextCases DEF Arrive, Borrow, Connect, PoolTimeout, UnknownVehicle,
       LockVehicle, AlreadyFault, CancelActiveMission, OpenMaintenance, SetVehicleFault,
       SetVehicleStatus, CommitStatus, Respond, Fail, RegisterVehicle, ResolveRecord, vars
<1>2. \A q \in Requests : maintenance[q] = None => maintenance'[q] = None
  <2>1. ASSUME NEW q \in Requests, ResolveRecord(q)
        PROVE  \A p \in Requests : maintenance[p] = None => maintenance'[p] = None
    BY <2>1 DEF ResolveRecord, IInv, TypeOK
  <2>2. CASE UNCHANGED maintenance
    BY <2>2
  <2> QED
    BY <2>1, <2>2, NextCases DEF Arrive, Borrow, Connect, PoolTimeout, UnknownVehicle,
       LockVehicle, AlreadyFault, CancelActiveMission, OpenMaintenance, SetVehicleFault,
       SetVehicleStatus, CommitStatus, Respond, Fail, RegisterVehicle, AssignMission,
       CompleteMission, vars
<1>3. \A q \in Requests : pc[q] = "written" /\ call[q].status = Fault => pc'[q] # "committed"
  BY NextCases DEF IInv, TypeOK, Arrive, Borrow, Connect, PoolTimeout, UnknownVehicle,
     LockVehicle, AlreadyFault, CancelActiveMission, OpenMaintenance, SetVehicleFault,
     SetVehicleStatus, CommitStatus, Respond, Fail, RegisterVehicle, AssignMission,
     CompleteMission, ResolveRecord, vars
<1> QED
  BY <1>1, <1>2, <1>3 DEF FaultEffect

\* A fault request has effects only in a step from another status to fault.
THEOREM NoDuplicateEffects == Spec => EffectsOnlyOnTransition
<1>1. IInv /\ [Next]_vars =>
        [\A v \in Vehicles :
           FaultEffect(v) => vehicles[v] \notin {Fault, None} /\ vehicles'[v] = Fault]_vars
  BY NoOtherEffects, CommitFaultEffects
<1> QED
  BY <1>1, Inductive, PTL DEF Spec, EffectsOnlyOnTransition

=============================================================================
