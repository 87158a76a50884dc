------------------------------ MODULE Migrate ------------------------------
(***************************************************************************)
(* Setting up the database: src/app/migrate.py run_migrations and           *)
(* seed_zones, run as a process of their own (`python -m app.migrate'),     *)
(* again after a failure, again on a live database, and possibly twice at   *)
(* once.  There is no lock: two runs meet at the primary keys.              *)
(*                                                                          *)
(* The migrations are one transaction, the seed is another.  table,         *)
(* recorded and zones are COMMITTED; pending[p] is what the open            *)
(* transaction of run p has inserted.  Inserting a key that another open    *)
(* transaction has inserted waits: the action is not enabled.               *)
(***************************************************************************)
EXTENDS Integers

CONSTANTS Processes,  \* processes that run the migrations
          Last,       \* the migrations are 1..Last, in the order of their files
          LastZone,   \* the zones are 1..LastZone, in the order of ZONES
          MaxRuns,    \* bound: runs of one process
          MaxEntries, \* bound: entries counted per zone
          None        \* no row

ASSUME MigrateAssumption ==
  /\ Last \in Nat /\ LastZone \in Nat /\ MaxRuns \in Nat /\ MaxEntries \in Nat
  /\ None \notin Nat

VARIABLES
  table,     \* does schema_migrations exist?
  recorded,  \* its versions
  effects,   \* how often the SQL of each migration took effect
  zones,     \* zone_counts.entry_count, None = no row
  pc,        \* where each run is
  done,      \* the versions it read at its start
  at,        \* the migration or zone it is to handle next
  pending,   \* what its open transaction has inserted
  runs       \* how often the process was started

tables == <<table, recorded, effects, zones>>
vars == <<tables, pc, done, at, pending, runs>>

Migrations == 1..Last
Zones == 1..LastZone
Nothing == [table |-> FALSE, versions |-> {}, zones |-> {}]

\* An empty database, or one that an earlier release with fewer migrations and
\* zones has set up.
Init ==
  /\ \E last \in 0..Last : recorded = 1..last
  /\ table = (recorded # {})
  /\ effects = [m \in Migrations |-> IF m \in recorded THEN 1 ELSE 0]
  /\ zones \in [Zones -> {None, 0}]
  /\ ~table => zones = [z \in Zones |-> None]
  /\ pc = [p \in Processes |-> "stopped"]
  /\ done = [p \in Processes |-> {}]
  /\ at = [p \in Processes |-> 0]
  /\ pending = [p \in Processes |-> Nothing]
  /\ runs = [p \in Processes |-> 0]

-----------------------------------------------------------------------------
\* run_migrations.

Start(p) ==
  /\ pc[p] \in {"stopped", "ok", "failed"}
  /\ runs[p] < MaxRuns
  /\ runs' = [runs EXCEPT ![p] = @ + 1]
  /\ pc' = [pc EXCEPT ![p] = "begun"]
  /\ UNCHANGED <<tables, done, at, pending>>

\* CREATE TABLE IF NOT EXISTS: the table is looked for, ...
EnsureTable(p) ==
  /\ pc[p] = "begun"
  /\ pc' = [pc EXCEPT ![p] = IF table THEN "ensured" ELSE "creating"]
  /\ UNCHANGED <<tables, done, at, pending, runs>>

\* ... and created, after the end of a transaction that is creating it.
CreateTable(p) ==
  /\ pc[p] = "creating"
  /\ ~table /\ \A q \in Processes : ~pending[q].table
  /\ pending' = [pending EXCEPT ![p].table = TRUE]
  /\ pc' = [pc EXCEPT ![p] = "ensured"]
  /\ UNCHANGED <<tables, done, at, runs>>

ReadDone(p) ==
  /\ pc[p] = "ensured"
  /\ done' = [done EXCEPT ![p] = recorded]
  /\ at' = [at EXCEPT ![p] = 1]
  /\ pc' = [pc EXCEPT ![p] = "applying"]
  /\ UNCHANGED <<tables, pending, runs>>

\* The connection goes back to the pool with its transaction open.
Abort_KeepsPending(p) ==
  /\ pc' = [pc EXCEPT ![p] = "failed"]
  /\ UNCHANGED <<tables, done, at, pending, runs>>

\* The transaction, if there is one, is rolled back.
Abort(p) ==
  /\ pending' = [pending EXCEPT ![p] = Nothing]
  /\ pc' = [pc EXCEPT ![p] = "failed"]
  /\ UNCHANGED <<tables, done, at, runs>>

AtMigration(p) == pc[p] = "applying" /\ at[p] \in Migrations

Skip(p) ==
  /\ AtMigration(p)
  /\ at[p] \in done[p]
  /\ at' = [at EXCEPT ![p] = @ + 1]
  /\ UNCHANGED <<tables, pc, done, pending, runs>>

\* The version inserted with ON CONFLICT DO NOTHING.
Apply_IgnoresConflict(p) ==
  /\ AtMigration(p)
  /\ at[p] \notin done[p]
  /\ \A q \in Processes : at[p] \notin pending[q].versions
  /\ pending' = [pending EXCEPT ![p].versions = @ \cup {at[p]}]
  /\ at' = [at EXCEPT ![p] = @ + 1]
  /\ UNCHANGED <<tables, pc, done, runs>>

\* The file's SQL and its row of schema_migrations.
Apply(p) ==
  /\ AtMigration(p)
  /\ at[p] \notin done[p] \cup recorded
  /\ \A q \in Processes : at[p] \notin pending[q].versions
  /\ pending' = [pending EXCEPT ![p].versions = @ \cup {at[p]}]
  /\ at' = [at EXCEPT ![p] = @ + 1]
  /\ UNCHANGED <<tables, pc, done, runs>>

\* Another run has recorded the version since ReadDone: UniqueViolation.
Duplicate(p) ==
  /\ AtMigration(p)
  /\ at[p] \in recorded \ done[p]
  /\ Abort(p)

\* Another run has created the table since EnsureTable: UniqueViolation too, in
\* the catalog.
TableExists(p) ==
  /\ pc[p] = "creating"
  /\ table
  /\ Abort(p)

\* Seeding only a database that had migrations to apply.
CommitMigrations_SeedsFresh(p) ==
  LET new == pending[p].versions IN
  /\ pc[p] = "applying" /\ at[p] = Last + 1
  /\ table' = TRUE
  /\ recorded' = recorded \cup new
  /\ effects' = [m \in Migrations |-> IF m \in new THEN effects[m] + 1 ELSE effects[m]]
  /\ pending' = [pending EXCEPT ![p] = Nothing]
  /\ at' = [at EXCEPT ![p] = 1]
  /\ pc' = [pc EXCEPT ![p] = IF new = {} THEN "ok" ELSE "seeding"]
  /\ UNCHANGED <<zones, done, runs>>

CommitMigrations(p) ==
  LET new == pending[p].versions IN
  /\ pc[p] = "applying" /\ at[p] = Last + 1
  /\ table' = TRUE
  /\ recorded' = recorded \cup new
  /\ effects' = [m \in Migrations |-> IF m \in new THEN effects[m] + 1 ELSE effects[m]]
  /\ pending' = [pending EXCEPT ![p] = Nothing]
  /\ at' = [at EXCEPT ![p] = 1]
  /\ pc' = [pc EXCEPT ![p] = "seeding"]
  /\ UNCHANGED <<zones, done, runs>>

-----------------------------------------------------------------------------
\* seed_zones.

\* INSERT ... ON CONFLICT (zone_id) DO NOTHING.
SeedZone(p) ==
  /\ pc[p] = "seeding" /\ at[p] \in Zones
  /\ \A q \in Processes : at[p] \notin pending[q].zones
  /\ pending' = [pending EXCEPT ![p].zones =
                   IF zones[at[p]] = None THEN @ \cup {at[p]} ELSE @]
  /\ at' = [at EXCEPT ![p] = @ + 1]
  /\ UNCHANGED <<tables, pc, done, runs>>

\* ON CONFLICT (zone_id) DO UPDATE SET entry_count = EXCLUDED.entry_count.
CommitSeed_Overwrites(p) ==
  /\ pc[p] = "seeding" /\ at[p] = LastZone + 1
  /\ zones' = [z \in Zones |-> 0]
  /\ pending' = [pending EXCEPT ![p] = Nothing]
  /\ pc' = [pc EXCEPT ![p] = "ok"]
  /\ UNCHANGED <<table, recorded, effects, done, at, runs>>

CommitSeed(p) ==
  /\ pc[p] = "seeding" /\ at[p] = LastZone + 1
  /\ zones' = [z \in Zones |-> IF z \in pending[p].zones THEN 0 ELSE zones[z]]
  /\ pending' = [pending EXCEPT ![p] = Nothing]
  /\ pc' = [pc EXCEPT ![p] = "ok"]
  /\ UNCHANGED <<table, recorded, effects, done, at, runs>>

-----------------------------------------------------------------------------
\* A statement fails, the connection is lost or the process is killed.
Fail(p) ==
  /\ pc[p] \in {"begun", "creating", "ensured", "applying", "seeding"}
  /\ Abort(p)

\* A counter that also goes down.
Enter_Leaves(z) ==
  /\ zones[z] # None
  /\ zones[z] < MaxEntries
  /\ \E n \in {-1, 1} : zones' = [zones EXCEPT ![z] = @ + n]
  /\ UNCHANGED <<table, recorded, effects, pc, done, at, pending, runs>>

\* The ingestion API counts an entry (TelemetryIngest).
Enter(z) ==
  /\ zones[z] # None
  /\ zones[z] < MaxEntries
  /\ zones' = [zones EXCEPT ![z] = @ + 1]
  /\ UNCHANGED <<table, recorded, effects, pc, done, at, pending, runs>>

RunStep(p) ==
  \/ EnsureTable(p) \/ CreateTable(p) \/ TableExists(p) \/ ReadDone(p)
  \/ Skip(p) \/ Apply(p) \/ Duplicate(p) \/ CommitMigrations(p)
  \/ SeedZone(p) \/ CommitSeed(p)

Next ==
  \/ \E p \in Processes : Start(p) \/ RunStep(p) \/ Fail(p)
  \/ \E z \in Zones : Enter(z)

Spec == Init /\ [][Next]_vars

\* A run that was started and is not killed runs on.
FairSpec == Spec /\ \A p \in Processes : WF_vars(RunStep(p))

-----------------------------------------------------------------------------
\* Every variable keeps its shape.
TypeOK ==
  /\ table \in BOOLEAN
  /\ recorded \subseteq Migrations
  /\ effects \in [Migrations -> Nat]
  /\ zones \in [Zones -> Nat \cup {None}]
  /\ pc \in [Processes -> {"stopped", "begun", "creating", "ensured", "applying",
                          "seeding", "ok", "failed"}]
  /\ done \in [Processes -> SUBSET Migrations]
  /\ at \in [Processes -> Nat]
  /\ pending \in [Processes ->
       [table : BOOLEAN, versions : SUBSET Migrations, zones : SUBSET Zones]]
  /\ runs \in [Processes -> Nat]

\* "re-runs are idempotent": whichever runs race, fail halfway and are repeated,
\* the SQL of a recorded migration has taken effect once, that of another never,
\* and no migration without those before it.
AppliedOnceInOrder ==
  /\ \A m \in Migrations : effects[m] = IF m \in recorded THEN 1 ELSE 0
  /\ \A m \in recorded : 1..m \subseteq recorded

\* docker-compose.yml starts the services when a run has ended well: "the schema
\* and all 20 realistic zone rows exist before anything serves" - also if an
\* earlier run stopped between its two transactions.
CompleteBeforeServing ==
  (\E p \in Processes : pc[p] = "ok") =>
    recorded = Migrations /\ \A z \in Zones : zones[z] # None

\* seed_zones: "re-runs never duplicate a row or reset a live count", with the
\* ingestion API counting meanwhile.
CountsNeverReset ==
  [][\A z \in Zones : zones[z] # None => zones'[z] # None /\ zones'[z] >= zones[z]]_vars

\* Two runs at once do not wait for each other for ever: every run ends.
EveryRunEnds == \A p \in Processes : pc[p] = "begun" ~> pc[p] \in {"ok", "failed"}
=============================================================================
