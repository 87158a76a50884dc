--------------------------- MODULE Migrate_proofs ---------------------------
(***************************************************************************)
(* Proofs about Migrate for any number of processes, migrations and zones.  *)
(* Two runs meet at the primary keys only: what an open transaction has     *)
(* inserted is neither committed nor inserted by another one (KeyInv), so a *)
(* commit adds exactly the keys that are missing; and a run that reaches    *)
(* its commit has passed every migration or zone (RunInv).                  *)
(***************************************************************************)
EXTENDS Migrate, TLAPS

\* A key is inserted by one open transaction, and only if it is not committed.
KeyInv ==
  \A p \in Processes :
    /\ pending[p].versions \cap recorded = {}
    /\ \A z \in pending[p].zones : zones[z] = None
    /\ \A q \in Processes \ {p} : /\ pending[p].versions \cap pending[q].versions = {}
                                  /\ pending[p].zones \cap pending[q].zones = {}

\* Where a run is, and what it has seen to by then.
RunInv ==
  \A p \in Processes :
    /\ done[p] \subseteq recorded
    /\ pc[p] # "applying" => pending[p].versions = {}
    /\ pc[p] # "seeding" => pending[p].zones = {}
    /\ pc[p] = "applying" =>
         /\ at[p] \in 1..(Last + 1)
         /\ \A m \in 1..(at[p] - 1) : m \in done[p] \cup pending[p].versions
    /\ pc[p] = "seeding" =>
         /\ at[p] \in 1..(LastZone + 1)
         /\ recorded = Migrations
         /\ \A z \in 1..(at[p] - 1) : zones[z] # None \/ z \in pending[p].zones
    /\ pc[p] = "ok" => recorded = Migrations /\ \A z \in Zones : zones[z] # None

\* The inductive invariant.
IInv == TypeOK /\ KeyInv /\ RunInv /\ AppliedOnceInOrder

-----------------------------------------------------------------------------
LEMMA NextCases ==
  ASSUME Next
  PROVE  \/ \E p \in Processes :
              \/ Start(p) \/ EnsureTable(p) \/ CreateTable(p) \/ ReadDone(p) \/ Skip(p)
              \/ Apply(p) \/ CommitMigrations(p) \/ SeedZone(p) \/ CommitSeed(p)
              \/ Abort(p)
         \/ \E z \in Zones : Enter(z)
  BY DEF Next, RunStep, TableExists, Duplicate, Fail

LEMMA TypeInit == Init => TypeOK
  BY MigrateAssumption DEF Init, TypeOK, Migrations, Zones, Nothing

LEMMA TypeStep == TypeOK /\ [Next]_vars => TypeOK'
<1> SUFFICES ASSUME TypeOK, [Next]_vars PROVE TypeOK'
  OBVIOUS
<1> USE MigrateAssumption DEF TypeOK, tables, Nothing
<1>1. ASSUME NEW p \in Processes, Start(p) PROVE TypeOK'
  BY <1>1 DEF Start
<1>2. ASSUME NEW p \in Processes, EnsureTable(p) PROVE TypeOK'
  BY <1>2 DEF EnsureTable
<1>3. ASSUME NEW p \in Processes, CreateTable(p) PROVE TypeOK'
  BY <1>3 DEF CreateTable
<1>4. ASSUME NEW p \in Processes, ReadDone(p) PROVE TypeOK'
  BY <1>4 DEF ReadDone
<1>5. ASSUME NEW p \in Processes, Skip(p) PROVE TypeOK'
  BY <1>5 DEF Skip, AtMigration
<1>6. ASSUME NEW p \in Processes, Apply(p) PROVE TypeOK'
  BY <1>6 DEF Apply, AtMigration
<1>7. ASSUME NEW p \in Processes, CommitMigrations(p) PROVE TypeOK'
  BY <1>7 DEF CommitMigrations
<1>8. ASSUME NEW p \in Processes, SeedZone(p) PROVE TypeOK'
  BY <1>8 DEF SeedZone
<1>9. ASSUME NEW p \in Processes, CommitSeed(p) PROVE TypeOK'
  BY <1>9 DEF CommitSeed
<1>10. ASSUME NEW p \in Processes, Abort(p) PROVE TypeOK'
  BY <1>10 DEF Abort
<1>11. ASSUME NEW z \in Zones, Enter(z) PROVE TypeOK'
  BY <1>11 DEF Enter
<1>12. CASE UNCHANGED vars
  BY <1>12 DEF vars
<1> QED
  BY <1>1, <1>2, <1>3, <1>4, <1>5, <1>6, <1>7, <1>8, <1>9, <1>10, <1>11, <1>12, NextCases

\* Every reachable state of the migration runs is well typed.
THEOREM TypeCorrect == Spec => []TypeOK
  BY TypeInit, TypeStep, PTL DEF Spec

LEMMA IInvInit == Init => IInv
<1> SUFFICES ASSUME Init PROVE IInv
  OBVIOUS
<1>1. TypeOK
  BY TypeInit
<1>2. KeyInv /\ RunInv
  BY DEF Init, KeyInv, RunInv, Nothing
<1>3. AppliedOnceInOrder
  BY MigrateAssumption DEF Init, AppliedOnceInOrder, Migrations
<1> QED
  BY <1>1, <1>2, <1>3 DEF IInv

LEMMA IInvStep == IInv /\ [Next]_vars => IInv'
<1> SUFFICES ASSUME IInv, [Next]_vars PROVE IInv'
  OBVIOUS
<1> USE MigrateAssumption
<1>0. TypeOK /\ TypeOK'
  BY TypeStep DEF IInv
<1>1. ASSUME NEW p \in Processes,
             Start(p) \/ EnsureTable(p) \/ CreateTable(p) \/ Skip(p)
      PROVE  IInv'
  <2>1. UNCHANGED tables
    BY <1>1 DEF Start, EnsureTable, CreateTable, Skip
  <2>2. KeyInv'
    <3>1. \A q \in Processes : /\ pending'[q].versions = pending[q].versions
                               /\ pending'[q].zones = pending[q].zones
      BY <1>0, <1>1 DEF TypeOK, Start, EnsureTable, CreateTable, Skip
    <3> QED
      BY <2>1, <3>1 DEF IInv, KeyInv, tables
  <2>3. RunInv'
    <3>1. CASE Start(p)
      BY <1>0, <2>1, <3>1 DEF IInv, TypeOK, RunInv, Start, tables
    <3>2. CASE EnsureTable(p)
      BY <1>0, <2>1, <3>2 DEF IInv, TypeOK, RunInv, EnsureTable, tables
    <3>3. CASE CreateTable(p)
      BY <1>0, <2>1, <3>3 DEF IInv, TypeOK, RunInv, CreateTable, tables
    <3>4. CASE Skip(p)
      BY <1>0, <2>1, <3>4 DEF IInv, TypeOK, RunInv, Skip, AtMigration, tables, Migrations
    <3> QED
      BY <1>1, <3>1, <3>2, <3>3, <3>4
  <2>4. AppliedOnceInOrder'
    BY <2>1 DEF IInv, AppliedOnceInOrder, tables
  <2> QED
    BY <1>0, <2>2, <2>3, <2>4 DEF IInv
<1>2. ASSUME NEW p \in Processes, ReadDone(p) PROVE IInv'
  <2>1. KeyInv'
    BY <1>0, <1>2 DEF IInv, KeyInv, ReadDone, tables
  <2>2. RunInv'
    BY <1>0, <1>2 DEF IInv, TypeOK, RunInv, ReadDone, tables
  <2>3. AppliedOnceInOrder'
    BY <1>2 DEF IInv, AppliedOnceInOrder, ReadDone, tables
  <2> QED
    BY <1>0, <2>1, <2>2, <2>3 DEF IInv
<1>3. ASSUME NEW p \in Processes, Apply(p) PROVE IInv'
  <2>1. KeyInv'
    BY <1>0, <1>3 DEF IInv, TypeOK, KeyInv, Apply, tables
  <2>2. RunInv'
    BY <1>0, <1>3 DEF IInv, TypeOK, RunInv, Apply, AtMigration, tables, Migrations
  <2>3. AppliedOnceInOrder'
    BY <1>3 DEF IInv, AppliedOnceInOrder, Apply, tables
  <2> QED
    BY <1>0, <2>1, <2>2, <2>3 DEF IInv
<1>4. ASSUME NEW p \in Processes, CommitMigrations(p) PROVE IInv'
  <2>1. recorded' = Migrations
    BY <1>0, <1>4 DEF IInv, TypeOK, RunInv, CommitMigrations, Migrations
  <2>2. UNCHANGED zones
    BY <1>4 DEF CommitMigrations
  <2>3. KeyInv'
    BY <1>0, <1>4, <2>2 DEF IInv, TypeOK, KeyInv, CommitMigrations, Nothing
  <2>4. RunInv'
    BY <1>0, <1>4, <2>1, <2>2 DEF IInv, TypeOK, RunInv, CommitMigrations, Nothing
  <2>5. AppliedOnceInOrder'
    <3>1. \A m \in Migrations : effects'[m] = 1
      BY <1>0, <1>4, <2>1
         DEF IInv, TypeOK, KeyInv, AppliedOnceInOrder, CommitMigrations
    <3> QED
      BY <2>1, <3>1 DEF AppliedOnceInOrder, Migrations
  <2> QED
    BY <1>0, <2>3, <2>4, <2>5 DEF IInv
<1>5. ASSUME NEW p \in Processes, SeedZone(p) PROVE IInv'
  <2>1. KeyInv'
    BY <1>0, <1>5 DEF IInv, TypeOK, KeyInv, RunInv, SeedZone, tables
  <2>2. RunInv'
    BY <1>0, <1>5 DEF IInv, TypeOK, RunInv, SeedZone, tables, Zones
  <2>3. AppliedOnceInOrder'
    BY <1>5 DEF IInv, AppliedOnceInOrder, SeedZone, tables
  <2> QED
    BY <1>0, <2>1, <2>2, <2>3 DEF IInv
<1>6. ASSUME NEW p \in Processes, CommitSeed(p) PROVE IInv'
  <2>1. \A z \in Zones : zones'[z] # None
    BY <1>0, <1>6 DEF IInv, TypeOK, RunInv, CommitSeed, Zones
  <2>2. KeyInv'
    BY <1>0, <1>6 DEF IInv, TypeOK, KeyInv, CommitSeed, Nothing
  <2>3. RunInv'
    BY <1>0, <1>6, <2>1 DEF IInv, TypeOK, RunInv, CommitSeed, Nothing, Zones
  <2>4. AppliedOnceInOrder'
    BY <1>6 DEF IInv, AppliedOnceInOrder, CommitSeed
  <2> QED
    BY <1>0, <2>2, <2>3, <2>4 DEF IInv
<1>7. ASSUME NEW p \in Processes, Abort(p) PROVE IInv'
  <2>1. KeyInv'
    BY <1>0, <1>7 DEF IInv, TypeOK, KeyInv, Abort, tables, Nothing
  <2>2. RunInv'
    BY <1>0, <1>7 DEF IInv, TypeOK, RunInv, Abort, tables, Nothing
  <2>3. AppliedOnceInOrder'
    BY <1>7 DEF IInv, AppliedOnceInOrder, Abort, tables
  <2> QED
    BY <1>0, <2>1, <2>2, <2>3 DEF IInv
<1>8. ASSUME NEW z \in Zones, Enter(z) PROVE IInv'
  <2>1. KeyInv'
    BY <1>0, <1>8 DEF IInv, TypeOK, KeyInv, Enter
  <2>2. RunInv'
    BY <1>0, <1>8 DEF IInv, TypeOK, RunInv, Enter, Zones
  <2>3. AppliedOnceInOrder'
    BY <1>8 DEF IInv, AppliedOnceInOrder, Enter
  <2> QED
    BY <1>0, <2>1, <2>2, <2>3 DEF IInv
<1>9. CASE UNCHANGED vars
  BY <1>0, <1>9 DEF IInv, KeyInv, RunInv, AppliedOnceInOrder, vars, tables
<1> QED
  BY <1>1, <1>2, <1>3, <1>4, <1>5, <1>6, <1>7, <1>8, <1>9, NextCases

LEMMA Inductive == Spec => []IInv
  BY IInvInit, IInvStep, PTL DEF Spec

\* Whichever runs race or fail, each recorded migration took effect once and
\* none was recorded before those it follows.
THEOREM AppliedOnce == Spec => []AppliedOnceInOrder
  BY Inductive, PTL DEF IInv

\* When some run has ended well, the schema and every zone are there, for good.
THEOREM Complete == Spec => []CompleteBeforeServing
<1>1. IInv => CompleteBeforeServing
  BY DEF IInv, RunInv, CompleteBeforeServing
<1> QED
  BY <1>1, Inductive, PTL

\* No run resets a counter or removes a zone, whatever is counted meanwhile.
THEOREM CountsKept == Spec => CountsNeverReset
<1>1. IInv /\ [Next]_vars =>
        [\A z \in Zones : zones[z] # None => zones'[z] # None /\ zones'[z] >= zones[z]]_vars
  <2> SUFFICES ASSUME IInv, [Next]_vars, NEW z \in Zones, zones[z] # None
               PROVE  zones'[z] # None /\ zones'[z] >= zones[z]
    OBVIOUS
  <2> USE MigrateAssumption DEF IInv, TypeOK
  <2>1. ASSUME NEW p \in Processes, CommitSeed(p)
        PROVE  zones'[z] # None /\ zones'[z] >= zones[z]
    BY <2>1 DEF KeyInv, CommitSeed
  <2>2. ASSUME NEW y \in Zones, Enter(y)
        PROVE  zones'[z] # None /\ zones'[z] >= zones[z]
    BY <2>2 DEF Enter
  <2>3. CASE UNCHANGED zones
    BY <2>3
  <2> QED
    BY <2>1, <2>2, <2>3, NextCases
       DEF Start, EnsureTable, CreateTable, ReadDone, Skip, Apply, CommitMigrations, SeedZone,
           Abort, tables, vars
<1> QED
  BY <1>1, Inductive, PTL DEF Spec, CountsNeverReset
-----------------------------------------------------------------------------
\* The three places where run p waits for the end of run q's transaction.
WaitsFor(p, q) ==
  \/ pc[p] = "creating" /\ ~table /\ pending[q].table
  \/ /\ AtMigration(p) /\ at[p] \notin done[p] \cup recorded
     /\ at[p] \in pending[q].versions
  \/ pc[p] = "seeding" /\ at[p] \in Zones /\ at[p] \in pending[q].zones

\* How far a run is: the table, then the migrations, then the zones, every run
\* in the same order.
Position(p) ==
  CASE pc[p] = "ensured"  -> 0
    [] pc[p] = "applying" -> at[p]
    [] pc[p] = "seeding"  -> Last + 1 + at[p]
    [] OTHER              -> -1

\* No deadlock: a run waits only for a run that is further on, so the one that
\* is furthest waits for nobody, however many start at once.
NoCircularWait ==
  \A p, q \in Processes : WaitsFor(p, q) => Position(p) < Position(q)

\* An open transaction has inserted only what its run has passed.
PassedInv ==
  \A p \in Processes :
    /\ pending[p].table => pc[p] \in {"ensured", "applying"}
    /\ pc[p] = "applying" => \A m \in pending[p].versions : m < at[p]
    /\ pc[p] = "seeding" => \A z \in pending[p].zones : z < at[p]

LEMMA PassedStep ==
  ASSUME IInv, PassedInv, [Next]_vars PROVE PassedInv'
<1>0. /\ DOMAIN pc = Processes
      /\ at \in [Processes -> Nat]
      /\ pending \in [Processes -> [table : BOOLEAN, versions : SUBSET Nat, zones : SUBSET Nat]]
      /\ \A p \in Processes : /\ pc[p] # "applying" => pending[p].versions = {}
                              /\ pc[p] # "seeding" => pending[p].zones = {}
  BY MigrateAssumption DEF IInv, TypeOK, RunInv, Migrations, Zones
<1> DEFINE Passed(p) ==
             /\ pending[p].table => pc[p] \in {"ensured", "applying"}
             /\ pc[p] = "applying" => \A m \in pending[p].versions : m < at[p]
             /\ pc[p] = "seeding" => \A z \in pending[p].zones : z < at[p]
<1>1. SUFFICES ASSUME NEW q \in Processes PROVE Passed(q)'
  BY DEF PassedInv
<1>2. Passed(q)
  BY DEF PassedInv
<1>3. ASSUME NEW p \in Processes, Start(p) PROVE Passed(q)'
  BY <1>0, <1>2, <1>3 DEF Start
<1>4. ASSUME NEW p \in Processes, EnsureTable(p) \/ CreateTable(p) PROVE Passed(q)'
  BY <1>0, <1>2, <1>4 DEF EnsureTable, CreateTable
<1>5. ASSUME NEW p \in Processes, ReadDone(p) PROVE Passed(q)'
  BY <1>0, <1>2, <1>5 DEF ReadDone
<1>6. ASSUME NEW p \in Processes, Skip(p) PROVE Passed(q)'
  BY <1>0, <1>2, <1>6 DEF Skip, AtMigration
<1>7. ASSUME NEW p \in Processes, Apply(p) PROVE Passed(q)'
  BY <1>0, <1>2, <1>7 DEF Apply, AtMigration
<1>8. ASSUME NEW p \in Processes, CommitMigrations(p) PROVE Passed(q)'
  BY <1>0, <1>2, <1>8 DEF CommitMigrations, Nothing
<1>9. ASSUME NEW p \in Processes, SeedZone(p) PROVE Passed(q)'
  BY <1>0, <1>2, <1>9 DEF SeedZone
<1>10. ASSUME NEW p \in Processes, CommitSeed(p) \/ Abort(p) PROVE Passed(q)'
  BY <1>0, <1>2, <1>10 DEF CommitSeed, Abort, Nothing
<1>11. CASE UNCHANGED <<pc, at, pending>>
  BY <1>2, <1>11
<1>12. ASSUME NEW z \in Zones, Enter(z) PROVE Passed(q)'
  BY <1>11, <1>12 DEF Enter
<1>13. CASE UNCHANGED vars
  BY <1>11, <1>13 DEF vars
<1> HIDE DEF Passed
<1> QED
  BY <1>3, <1>4, <1>5, <1>6, <1>7, <1>8, <1>9, <1>10, <1>12, <1>13, NextCases

\* Two runs at once never wait for each other, whichever keys they meet at.
THEOREM NoDeadlock == Spec => []NoCircularWait
<1>1. Init => PassedInv
  <2>1. ASSUME Init, NEW p \in Processes
        PROVE  pc[p] = "stopped" /\ pending[p] = Nothing
    BY <2>1 DEF Init
  <2>2. Nothing.table = FALSE /\ Nothing.versions = {} /\ Nothing.zones = {}
    BY DEF Nothing
  <2>3. ASSUME Init, NEW p \in Processes
        PROVE  ~pending[p].table /\ pc[p] = "stopped"
    BY <2>1, <2>2, <2>3
  <2> QED
    BY <2>3 DEF PassedInv
<1>2. IInv /\ PassedInv => NoCircularWait
  <2>1. SUFFICES ASSUME IInv, PassedInv, NEW p \in Processes, NEW q \in Processes, WaitsFor(p, q)
                 PROVE  Position(p) < Position(q)
    BY DEF NoCircularWait
  <2>2. /\ at[p] \in Nat /\ at[q] \in Nat /\ Last \in Nat
        /\ pc[q] = "applying" => at[q] >= 1
    BY <2>1, MigrateAssumption DEF IInv, TypeOK, RunInv
  <2>3. CASE pc[p] = "creating" /\ pending[q].table
    <3>1. pc[q] \in {"ensured", "applying"}
      BY <2>1, <2>3 DEF PassedInv
    <3> QED
      BY <2>2, <2>3, <3>1 DEF Position
  <2>4. CASE AtMigration(p) /\ at[p] \in pending[q].versions
    <3>1. pc[q] = "applying" /\ at[p] < at[q]
      BY <2>1, <2>4 DEF IInv, RunInv, PassedInv
    <3> QED
      BY <2>2, <2>4, <3>1 DEF Position, AtMigration
  <2>5. CASE pc[p] = "seeding" /\ at[p] \in pending[q].zones
    <3>1. pc[q] = "seeding" /\ at[p] < at[q]
      BY <2>1, <2>5 DEF IInv, RunInv, PassedInv
    <3> QED
      BY <2>2, <2>5, <3>1 DEF Position
  <2> QED
    BY <2>1, <2>3, <2>4, <2>5 DEF WaitsFor
<1> QED
  BY <1>1, <1>2, PassedStep, Inductive, PTL DEF Spec
=============================================================================
