----------------------------- MODULE CommsLoss -----------------------------
(***************************************************************************)
(* Comms loss, the anomaly no event raises: the loop of src/app/watchdog.py *)
(* run_watchdog around the sweep of src/app/persistence.py                  *)
(* detect_comms_loss, next to the ingestion that commits readings.          *)
(*                                                                          *)
(* The sweep is one INSERT ... SELECT: what it finds is fixed by the        *)
(* snapshot its statement takes (found), readings may commit before it      *)
(* does, and `now' was taken earlier still.  Nothing catches an exception,  *)
(* so the process ends with the first one; somebody may start it again.     *)
(*                                                                          *)
(* recorded_at is the vehicle's word: it may lag, run ahead or, unless the  *)
(* vehicle is in InOrder, arrive out of order.                              *)
(***************************************************************************)
EXTENDS Naturals, Sequences, FiniteSets

CONSTANTS Vehicles,     \* vehicle ids
          InOrder,      \* the vehicles whose readings are committed in recorded order
          Timeout,      \* COMMS_LOSS_TIMEOUT_SECONDS
          MaxAhead,     \* bound: how far a vehicle's clock may run ahead
          MaxTime,      \* bound: where the clock stops
          LastReading,  \* bound: the latest recorded_at
          MaxReadings,  \* bound: readings per vehicle
          None          \* no row

ASSUME CommsAssumption ==
  /\ InOrder \subseteq Vehicles
  /\ Timeout \in Nat /\ MaxAhead \in Nat /\ MaxTime \in Nat /\ LastReading \in Nat
  /\ MaxReadings \in Nat
  /\ None \notin Nat

VARIABLES
  clock,     \* wall-clock time
  raw,       \* the recorded_at of each vehicle's rows in raw_events
  recorded,  \* vehicle_current_state.recorded_at, None = no row
  flags,     \* detected_at of each vehicle's comms_loss rows, in id order
  pc,        \* where the watchdog is
  now,       \* the time the sweep was called with
  found      \* the vehicles its open transaction flags

readings == <<raw, recorded>>
watchdog == <<pc, now, found>>
vars == <<clock, readings, flags, watchdog>>

Times == 0..LastReading

Init ==
  /\ clock = 0
  /\ raw = [v \in Vehicles |-> {}]
  /\ recorded = [v \in Vehicles |-> None]
  /\ flags = [v \in Vehicles |-> <<>>]
  /\ pc = "asleep"
  /\ now = 0
  /\ found = {}

-----------------------------------------------------------------------------
Tick ==
  /\ clock < MaxTime
  /\ clock' = clock + 1
  /\ UNCHANGED <<readings, flags, watchdog>>

\* The upsert without recorded_at in its SET list.
Ingest_KeepsRecordedAt(v, at) ==
  /\ Cardinality(raw[v]) < MaxReadings
  /\ at \notin raw[v] /\ at <= clock + MaxAhead
  /\ v \in InOrder => \A e \in raw[v] : e < at
  /\ raw' = [raw EXCEPT ![v] = @ \cup {at}]
  /\ recorded' = [recorded EXCEPT ![v] = IF @ = None THEN at ELSE @]
  /\ UNCHANGED <<clock, flags, watchdog>>

\* recorded_at set to the time of receipt, now().
Ingest_SetsReceived(v, at) ==
  /\ Cardinality(raw[v]) < MaxReadings
  /\ at \notin raw[v] /\ at <= clock + MaxAhead
  /\ v \in InOrder => \A e \in raw[v] : e < at
  /\ raw' = [raw EXCEPT ![v] = @ \cup {at}]
  /\ recorded' = [recorded EXCEPT ![v] = clock]
  /\ UNCHANGED <<clock, flags, watchdog>>

\* A reading is committed: the last one to commit is the current one.  (The
\* same reading sent again is left out.)
Ingest(v, at) ==
  /\ Cardinality(raw[v]) < MaxReadings
  /\ at \notin raw[v] /\ at <= clock + MaxAhead
  /\ v \in InOrder => \A e \in raw[v] : e < at
  /\ raw' = [raw EXCEPT ![v] = @ \cup {at}]
  /\ recorded' = [recorded EXCEPT ![v] = at]
  /\ UNCHANGED <<clock, flags, watchdog>>

-----------------------------------------------------------------------------
\* The WHERE of _INSERT_COMMS_LOSS.

FlaggedSince(v, e) == \E i \in DOMAIN flags[v] : flags[v][i] >= e

\* The NOT EXISTS against the cutoff, and against any comms_loss row at all.
Silent_RecentFlagOnly ==
  {v \in Vehicles : /\ recorded[v] # None
                    /\ recorded[v] + Timeout < now
                    /\ ~FlaggedSince(v, now - Timeout)}
Silent_FlaggedForGood ==
  {v \in Vehicles : /\ recorded[v] # None
                    /\ recorded[v] + Timeout < now
                    /\ flags[v] = <<>>}

Silent ==
  {v \in Vehicles : /\ recorded[v] # None
                    /\ recorded[v] + Timeout < now
                    /\ ~FlaggedSince(v, recorded[v])}

\* detect_comms_loss(now=datetime.now(timezone.utc))
TakeNow ==
  /\ pc = "asleep"
  /\ now' = clock
  /\ pc' = "called"
  /\ UNCHANGED <<clock, readings, flags, found>>

Sweep ==
  /\ pc = "called"
  /\ found' = Silent
  /\ pc' = "swept"
  /\ UNCHANGED <<clock, readings, flags, now>>

InsertFlags ==
  flags' = [v \in Vehicles |-> IF v \in found THEN Append(flags[v], now) ELSE flags[v]]

Commit ==
  /\ pc = "swept"
  /\ InsertFlags
  /\ now' = 0 /\ found' = {}
  /\ pc' = "asleep"
  /\ UNCHANGED <<clock, readings>>

\* No connection, a failed statement, a lost server or a killed process; if it
\* is the answer to COMMIT that is lost, the rows are there.
EndProcess ==
  /\ pc # "ended"
  /\ \/ pc = "swept" /\ InsertFlags
     \/ UNCHANGED flags
  /\ now' = 0 /\ found' = {}
  /\ pc' = "ended"
  /\ UNCHANGED <<clock, readings>>

StartAgain ==
  /\ pc = "ended"
  /\ pc' = "asleep"
  /\ UNCHANGED <<clock, readings, flags, now, found>>

-----------------------------------------------------------------------------
RunWatchdog == TakeNow \/ Sweep \/ Commit

Next ==
  \/ Tick
  \/ \E v \in Vehicles, at \in Times : Ingest(v, at)
  \/ RunWatchdog \/ EndProcess \/ StartAgain

Spec == Init /\ [][Next]_vars

\* Time passes and the loop runs; vehicles, failures and operators owe nothing.
FairSpec == Spec /\ WF_vars(Tick) /\ WF_vars(RunWatchdog)

-----------------------------------------------------------------------------
\* Every variable keeps its shape.
TypeOK ==
  /\ clock \in Nat
  /\ raw \in [Vehicles -> SUBSET Times]
  /\ recorded \in [Vehicles -> Times \cup {None}]
  /\ flags \in [Vehicles -> Seq(Nat)]
  /\ pc \in {"asleep", "called", "swept", "ended"}
  /\ now \in Nat
  /\ found \subseteq Vehicles

\* _INSERT_COMMS_LOSS: a silence is "flagged exactly once per episode".  Between
\* two flags of a vehicle there is a reading, later than the first flag and more
\* than the timeout before the second, whatever arrives late, fails or restarts.
FlaggedOncePerSilence ==
  \A v \in Vehicles : \A j \in DOMAIN flags[v] : \A i \in 1..(j - 1) :
    \E e \in raw[v] : flags[v][i] < e /\ e + Timeout < flags[v][j]

\* A sweep finds a vehicle that reports in order only if it committed no
\* reading within the timeout before `now', however old `now' is by then.
NoFalseAlarm ==
  [][pc = "called" /\ pc' = "swept" =>
       \A v \in found' \cap InOrder : \A e \in raw[v] : e + Timeout < now]_vars

\* A current reading newer than every flag: the next silence is to be flagged.
Armed(v) == recorded[v] # None /\ ~FlaggedSince(v, recorded[v])

\* Once the watchdog stops failing, a vehicle that is armed and stops reporting
\* is flagged: no failed sweep, late `now' or earlier flag loses its silence.
SilenceFlagged == []<>(pc = "ended") \/ \A v \in Vehicles : Armed(v) ~> ~Armed(v)
=============================================================================
