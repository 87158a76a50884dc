-------------------------- MODULE CommsLoss_proofs --------------------------
(***************************************************************************)
(* Proofs about CommsLoss for any vehicles, timeout and bounds.  A flag     *)
(* needs a reading of its own: the sweep finds a vehicle only by a reading  *)
(* newer than all its flags (FoundInv), and only the one watchdog flags.    *)
(***************************************************************************)
EXTENDS CommsLoss, TLAPS

\* The current reading is in raw_events; of a vehicle in order it is the newest.
CurrentInv ==
  /\ \A v \in Vehicles : recorded[v] # None => recorded[v] \in raw[v]
  /\ \A v \in InOrder : \A e \in raw[v] : recorded[v] # None /\ e <= recorded[v]

\* What the open transaction flags was silent, by a reading newer than its flags.
FoundInv ==
  /\ pc # "swept" => found = {}
  /\ \A v \in found :
       \E e \in raw[v] :
         /\ e + Timeout < now
         /\ \A i \in DOMAIN flags[v] : flags[v][i] < e

\* The inductive invariant.
IInv == TypeOK /\ CurrentInv /\ FoundInv /\ FlaggedOncePerSilence

-----------------------------------------------------------------------------
LEMMA NextCases ==
  ASSUME Next
  PROVE  \/ Tick \/ TakeNow \/ Sweep \/ Commit \/ EndProcess \/ StartAgain
         \/ \E v \in Vehicles, at \in Times : Ingest(v, at)
  BY DEF Next, RunWatchdog

LEMMA TypeInit == Init => TypeOK
  BY CommsAssumption DEF Init, TypeOK

LEMMA FlagsType ==
  ASSUME TypeOK, InsertFlags
  PROVE  flags' \in [Vehicles -> Seq(Nat)]
  BY DEF TypeOK, InsertFlags

LEMMA TypeStep == TypeOK /\ [Next]_vars => TypeOK'
<1> SUFFICES ASSUME TypeOK, [Next]_vars PROVE TypeOK'
  OBVIOUS
<1> USE CommsAssumption DEF TypeOK, readings, watchdog
<1>1. CASE Tick
  BY <1>1 DEF Tick
<1>2. ASSUME NEW v \in Vehicles, NEW at \in Times, Ingest(v, at) PROVE TypeOK'
  BY <1>2 DEF Ingest
<1>3. CASE TakeNow
  BY <1>3 DEF TakeNow
<1>4. CASE Sweep
  BY <1>4 DEF Sweep, Silent
<1>5. CASE Commit
  BY <1>5, FlagsType DEF Commit
<1>6. CASE EndProcess
  BY <1>6, FlagsType DEF EndProcess
<1>7. CASE StartAgain
  BY <1>7 DEF StartAgain
<1>8. CASE UNCHANGED vars
  BY <1>8 DEF vars
<1> QED
  BY <1>1, <1>2, <1>3, <1>4, <1>5, <1>6, <1>7, <1>8, NextCases

\* Every reachable state of the watchdog and its tables is well typed.
THEOREM TypeCorrect == Spec => []TypeOK
  BY TypeInit, TypeStep, PTL DEF Spec

LEMMA IInvInit == Init => IInv
  BY TypeInit, CommsAssumption
     DEF Init, IInv, CurrentInv, FoundInv, FlaggedOncePerSilence

\* The flags of the transaction join the table, at its COMMIT or unnoticed.
LEMMA InsertKeepsFlags ==
  ASSUME IInv, InsertFlags, UNCHANGED raw
  PROVE  FlaggedOncePerSilence'
<1> SUFFICES ASSUME NEW v \in Vehicles,
                    NEW j \in DOMAIN flags'[v], NEW i \in 1..(j - 1)
             PROVE  \E e \in raw[v] : flags'[v][i] < e /\ e + Timeout < flags'[v][j]
  BY DEF FlaggedOncePerSilence
<1> USE DEF IInv, TypeOK
<1>1. CASE v \in found /\ j = Len(flags[v]) + 1
  <2>1. flags'[v] = Append(flags[v], now)
    BY <1>1 DEF InsertFlags
  <2>2. flags'[v][j] = now
    BY <1>1, <2>1
  <2>3. i \in DOMAIN flags[v] /\ flags'[v][i] = flags[v][i]
    BY <1>1, <2>1
  <2> QED
    BY <1>1, <2>2, <2>3 DEF FoundInv
<1>2. CASE ~(v \in found /\ j = Len(flags[v]) + 1)
  <2>1. /\ j \in DOMAIN flags[v] /\ flags'[v][j] = flags[v][j]
        /\ i \in DOMAIN flags[v] /\ flags'[v][i] = flags[v][i]
    BY <1>2 DEF InsertFlags
  <2> QED
    BY <2>1 DEF FlaggedOncePerSilence
<1> QED
  BY <1>1, <1>2

LEMMA IInvStep == IInv /\ [Next]_vars => IInv'
<1> SUFFICES ASSUME IInv, [Next]_vars PROVE IInv'
  OBVIOUS
<1> USE CommsAssumption
<1>0. TypeOK /\ TypeOK'
  BY TypeStep DEF IInv
<1>1. CASE Tick \/ StartAgain \/ UNCHANGED vars
  <2>1. /\ UNCHANGED <<readings, flags, now, found>>
        /\ pc' = pc \/ pc # "swept"
    BY <1>1 DEF Tick, StartAgain, vars, watchdog
  <2> QED
    BY <1>0, <2>1 DEF IInv, CurrentInv, FoundInv, FlaggedOncePerSilence, readings
<1>2. ASSUME NEW v \in Vehicles, NEW at \in Times, Ingest(v, at) PROVE IInv'
  <2>1. \A w \in Vehicles : raw[w] \subseteq raw'[w]
    BY <1>0, <1>2 DEF TypeOK, Ingest
  <2>2. CurrentInv'
    <3>1. \A w \in Vehicles : recorded'[w] # None => recorded'[w] \in raw'[w]
      BY <1>0, <1>2 DEF IInv, TypeOK, CurrentInv, Ingest
    <3>2. ASSUME NEW w \in InOrder, NEW e \in raw'[w]
          PROVE  recorded'[w] # None /\ e <= recorded'[w]
      BY <1>0, <1>2, <3>2 DEF IInv, TypeOK, CurrentInv, Ingest, Times
    <3> QED
      BY <3>1, <3>2 DEF CurrentInv
  <2>3. FoundInv'
    BY <1>0, <1>2, <2>1 DEF IInv, TypeOK, FoundInv, Ingest, watchdog
  <2>4. FlaggedOncePerSilence'
    BY <1>2, <2>1 DEF IInv, FlaggedOncePerSilence, Ingest
  <2> QED
    BY <1>0, <2>2, <2>3, <2>4 DEF IInv
<1>3. CASE TakeNow
  <2>1. FoundInv'
    BY <1>3 DEF IInv, FoundInv, TakeNow
  <2> QED
    BY <1>0, <1>3, <2>1 DEF IInv, CurrentInv, FlaggedOncePerSilence, TakeNow, readings
<1>4. CASE Sweep
  <2>1. ASSUME NEW v \in Silent
        PROVE  \E e \in raw[v] : e + Timeout < now /\ \A i \in DOMAIN flags[v] : flags[v][i] < e
    <3>1. recorded[v] \in raw[v] /\ recorded[v] \in Nat /\ recorded[v] + Timeout < now
      BY <1>0 DEF IInv, TypeOK, CurrentInv, Silent, Times
    <3>2. \A i \in DOMAIN flags[v] : flags[v][i] < recorded[v]
      BY <1>0, <3>1 DEF TypeOK, Silent, FlaggedSince
    <3> QED
      BY <3>1, <3>2
  <2> QED
    BY <1>0, <1>4, <2>1 DEF IInv, CurrentInv, FoundInv, FlaggedOncePerSilence, Sweep, readings
<1>5. CASE Commit
  BY <1>0, <1>5, InsertKeepsFlags DEF IInv, CurrentInv, FoundInv, Commit, readings
<1>6. CASE EndProcess
  <2>1. FlaggedOncePerSilence'
    BY <1>6, InsertKeepsFlags DEF IInv, FlaggedOncePerSilence, EndProcess, readings
  <2> QED
    BY <1>0, <1>6, <2>1 DEF IInv, CurrentInv, FoundInv, EndProcess, readings
<1> QED
  BY <1>1, <1>2, <1>3, <1>4, <1>5, <1>6, NextCases

LEMMA Inductive == Spec => []IInv
  BY IInvInit, IInvStep, PTL DEF Spec

\* Every flag of a vehicle has a silence of its own, for any readings in any
\* order, and whichever sweeps fail or are repeated.
THEOREM OncePerSilence == Spec => []FlaggedOncePerSilence
  BY Inductive, PTL DEF IInv

\* A vehicle that reports in order and in time is not flagged.
THEOREM NoAlarm == Spec => NoFalseAlarm
<1>1. IInv /\ [Next]_vars =>
        [pc = "called" /\ pc' = "swept" =>
           \A v \in found' \cap InOrder : \A e \in raw[v] : e + Timeout < now]_vars
  <2> SUFFICES ASSUME IInv, [Next]_vars, pc = "called", pc' = "swept",
                      NEW v \in found' \cap InOrder, NEW e \in raw[v]
               PROVE  e + Timeout < now
    OBVIOUS
  <2> USE CommsAssumption DEF IInv, TypeOK
  <2>1. Sweep
    BY NextCases
       DEF Tick, TakeNow, Sweep, Commit, EndProcess, StartAgain, Ingest, watchdog, vars
  <2>2. recorded[v] + Timeout < now
    BY <2>1 DEF Sweep, Silent
  <2>3. recorded[v] \in Nat /\ e \in Nat /\ e <= recorded[v]
    BY DEF CurrentInv, Times
  <2> QED
    BY <2>2, <2>3
<1> QED
  BY <1>1, Inductive, PTL DEF Spec, NoFalseAlarm
=============================================================================
