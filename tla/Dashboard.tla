----------------------------- MODULE Dashboard -----------------------------
(***************************************************************************)
(* From the database to the screen: the change stream the CDC consumer      *)
(* promises (ChangeStream), the fan-out to one browser (LiveFeed), the REST *)
(* reads of src/app/frontend_api.py from a replica, and the three stores of *)
(* the dashboard in src/web/src that are seeded once from REST and patched  *)
(* from the WebSocket.                                                      *)
(*                                                                          *)
(* Seeds and patches are applied in the order they happen to arrive.  The   *)
(* n-th change committed to the watched tables is version n.  The seed of   *)
(* the anomalies goes by detected_at, which need not grow with the version  *)
(* and which anomalies of one event share.                                  *)
(***************************************************************************)
EXTENDS Naturals, Sequences, FiniteSets

CONSTANTS Vehicles, Anomalies, Zones,  \* rows per table (Anomalies: vehicle ids)
          MaxVersions,  \* bound: changes
          MaxFalls,     \* bound: times the consumer publishes again or falls back
          Times,        \* the values of detected_at
          None          \* nothing shown; no detected_at

Rows == Vehicles \cup Anomalies \cup Zones
RowsOf(t) == CASE t = "vehicles" -> Vehicles [] t = "anomalies" -> Anomalies [] OTHER -> Zones
Tables == {t \in {"vehicles", "anomalies", "zones"} : RowsOf(t) # {}}
TableOf(r) == CHOOSE t \in Tables : r \in RowsOf(t)

ASSUME DashboardAssumption ==
  /\ MaxVersions \in Nat /\ MaxFalls \in Nat
  /\ Times \subseteq Nat /\ Times # {}
  /\ None \notin Nat \cup [row : Rows, version : Nat]
  /\ \A t, u \in Tables : t # u => RowsOf(t) \cap RowsOf(u) = {}

VARIABLES
  log, next, published, shown,  \* the change stream, as ChangeStream has it
  falls,  \* how often it fell back or published unnoticed
  socket, \* the browser's WebSocket: "connecting", "open", "gapped" - open, but
          \* a patch was published while the frontend was cut off - or "closed"
  inbox,  \* the patches sent to it and not yet handled
  store,  \* the version each row shows, None = no such row
  seed,   \* each REST read: "asked", "answered", "applied" or "failed"
  read,   \* the version it saw
  passed  \* history: the versions before those still to come to the store

stream == <<log, next, published, shown>>
seeds == <<seed, read, passed>>
vars == <<stream, falls, socket, inbox, store, seeds>>

Stream == INSTANCE ChangeStream WITH
  Rows <- Rows, None <- None, log <- log, next <- next,
  published <- published, shown <- shown

Versions(r, n) == {k \in 1..n : log[k].change.row = r}

\* The last version written of a row among the first n changes; a zone's row is
\* there from the start (Migrate), as version 0.
Newest(r, n) ==
  IF Versions(r, n) # {} THEN CHOOSE k \in Versions(r, n) : \A j \in Versions(r, n) : j <= k
  ELSE IF r \in Zones THEN 0 ELSE None

\* The anomalies that none has a later detected_at than.
Latest(r, n) ==
  {k \in Versions(r, n) : \A j \in Versions(r, n) : log[j].detected_at <= log[k].detected_at}

\* What a snapshot of the first n changes may return for a row: the row itself,
\* or DISTINCT ON one of the latest anomalies, whichever comes first in the sort.
SeedVersions(r, n) ==
  IF r \in Anomalies /\ Versions(r, n) # {} THEN Latest(r, n) ELSE {Newest(r, n)}

Init ==
  /\ Stream!Init
  /\ falls = 0
  /\ socket = "connecting"
  /\ inbox = <<>>
  /\ store = [r \in Rows |-> None]
  /\ seed = [t \in Tables |-> "asked"]
  /\ read = [t \in Tables |-> 0]
  /\ passed = [t \in Tables |-> 0]

-----------------------------------------------------------------------------
\* The stores and the stream.

\* An anomaly is detected at its event's recorded_at (persist_telemetry) or at
\* the server's now (detect_comms_loss): in no order, and at the same time as
\* others of its event.
Commit(r) ==
  /\ Len(log) < MaxVersions
  /\ \E at \in IF r \in Anomalies THEN Times ELSE {None} :
       log' = Append(log, [change |-> [row |-> r, version |-> Len(log) + 1], detected_at |-> at])
  /\ UNCHANGED <<next, published, shown, falls, socket, inbox, store, seeds>>

\* A change is published - again, if the consumer was not told the first time -
\* and reaches the browser if it is connected and the frontend is subscribed.
Announce ==
  /\ \/ Stream!Advance /\ UNCHANGED falls
     \/ Stream!PublishUnnoticed /\ falls < MaxFalls /\ falls' = falls + 1
  /\ \/ /\ socket \in {"open", "gapped"}
        /\ inbox' = Append(inbox, log[next].change)
        /\ UNCHANGED socket
     \/ /\ socket' = IF socket = "open" THEN "gapped" ELSE socket
        /\ UNCHANGED inbox
  /\ UNCHANGED <<store, seeds>>

FallBack ==
  /\ falls < MaxFalls
  /\ Stream!FallBack
  /\ falls' = falls + 1
  /\ UNCHANGED <<socket, inbox, store, seeds>>

-----------------------------------------------------------------------------
\* The WebSocket (transport.ts subscribe): opened once.

Open ==
  /\ socket = "connecting"
  /\ socket' = "open"
  /\ passed' = [t \in Tables |-> next - 1]
  /\ UNCHANGED <<stream, falls, inbox, store, seed, read>>

Close ==
  /\ socket # "closed"
  /\ socket' = "closed"
  /\ inbox' = <<>>
  /\ UNCHANGED <<stream, falls, store, seeds>>

\* The handler closes over the stores of the first render.
HandlePatch_StaleClosure ==
  LET p == Head(inbox) IN
  /\ inbox # <<>>
  /\ inbox' = Tail(inbox)
  /\ store' = [r \in Rows |->
                 IF TableOf(r) # TableOf(p.row) THEN store[r]
                 ELSE IF r = p.row /\ r \in Anomalies THEN p.version ELSE None]
  /\ UNCHANGED <<stream, falls, socket, seeds>>

\* "first-detected-wins": an alert once shown is not replaced.
HandlePatch_KeepsFirst ==
  LET p == Head(inbox) IN
  /\ inbox # <<>>
  /\ inbox' = Tail(inbox)
  /\ store' = IF (store[p.row] = None) = (p.row \in Anomalies)
              THEN [store EXCEPT ![p.row] = p.version] ELSE store
  /\ UNCHANGED <<stream, falls, socket, seeds>>

\* The case of the vehicles falls through into that of the anomalies.
HandlePatch_FallsThrough ==
  LET p == Head(inbox) IN
  /\ inbox # <<>>
  /\ inbox' = Tail(inbox)
  /\ store' = [r \in Rows |->
                 IF \/ r = p.row /\ (store[r] # None \/ r \in Anomalies)
                    \/ p.row \in Vehicles /\ r \in Anomalies
                 THEN p.version ELSE store[r]]
  /\ UNCHANGED <<stream, falls, socket, seeds>>

\* One patch folds into one store: a vehicle or zone that is not there is
\* ignored, an anomaly is added.
HandlePatch ==
  LET p == Head(inbox) IN
  /\ inbox # <<>>
  /\ inbox' = Tail(inbox)
  /\ store' = IF store[p.row] # None \/ p.row \in Anomalies
              THEN [store EXCEPT ![p.row] = p.version] ELSE store
  /\ UNCHANGED <<stream, falls, socket, seeds>>

-----------------------------------------------------------------------------
\* The three REST reads.

\* GET /vehicles, /vehicles/anomalies/latest or /zones/counts: one MVCC
\* snapshot of a replica that lags by any number of changes.
Answer(t) ==
  /\ seed[t] = "asked"
  /\ \E n \in 0..Len(log) : read' = [read EXCEPT ![t] = n]
  /\ seed' = [seed EXCEPT ![t] = "answered"]
  /\ UNCHANGED <<stream, falls, socket, inbox, store, passed>>

\* seedVehicles, seedAnomalies, seedZones: the whole map is replaced.
ApplySeed(t) ==
  /\ seed[t] = "answered"
  /\ store' \in {s \in [Rows -> 0..Len(log) \cup {None}] :
                 \A r \in Rows : s[r] \in IF r \in RowsOf(t) THEN SeedVersions(r, read[t])
                                                           ELSE {store[r]}}
  /\ passed' = [passed EXCEPT ![t] =
                  IF inbox = <<>> THEN next - 1 ELSE Head(inbox).version - 1]
  /\ seed' = [seed EXCEPT ![t] = "applied"]
  /\ UNCHANGED <<stream, falls, socket, inbox, read>>

\* The error message is shown; nothing asks again.
FailSeed(t) ==
  /\ seed[t] = "asked"
  /\ seed' = [seed EXCEPT ![t] = "failed"]
  /\ UNCHANGED <<stream, falls, socket, inbox, store, read, passed>>

-----------------------------------------------------------------------------
Next ==
  \/ \E r \in Rows : Commit(r)
  \/ Announce \/ FallBack
  \/ Open \/ Close \/ HandlePatch
  \/ \E t \in Tables : Answer(t) \/ ApplySeed(t) \/ FailSeed(t)

Spec == Init /\ [][Next]_vars

\* The consumer moves on while it can (CdcConsumer EveryChangePublished), and
\* the browser handles what has arrived.
FairSpec ==
  /\ Spec
  /\ WF_vars(Announce /\ next' # next) /\ WF_vars(Open) /\ WF_vars(HandlePatch)
  /\ \A t \in Tables : WF_vars(Answer(t) \/ ApplySeed(t))

-----------------------------------------------------------------------------
Shape ==
  /\ Len(log) <= MaxVersions /\ next \in 1..(Len(log) + 1)
  /\ \A n \in DOMAIN log : log[n].change \in [row : Rows, version : {n}]
                          /\ log[n].detected_at \in Times \cup {None}
  /\ falls \in 0..MaxFalls
  /\ socket \in {"connecting", "open", "gapped", "closed"}
  /\ \A i \in DOMAIN inbox : inbox[i] \in published
  /\ store \in [Rows -> 0..Len(log) \cup {None}]
  /\ seed \in [Tables -> {"asked", "answered", "applied", "failed"}]
  /\ read \in [Tables -> 0..Len(log)] /\ passed \in [Tables -> 0..Len(log)]

\* Every variable keeps its shape, and a row shows only what was written to it.
TypeOK ==
  /\ Shape
  /\ \A r \in Rows :
       store[r] \in Versions(r, Len(log)) \cup (IF r \in Zones THEN {0, None} ELSE {None})

\* A row that exists, that its seed holds unless patches can add it, and whose
\* newest change was in the seed or came through the stream only when the seed
\* was applied and the socket open.
Told(r) ==
  LET t == TableOf(r) k == Newest(r, Len(log)) IN
  /\ seed[t] = "applied" /\ k # None
  /\ r \in Anomalies \/ Newest(r, read[t]) # None
  /\ k <= read[t] \/ passed[t] < k

\* A patch can correct a row that its stream brought up to date; an anomaly that
\* only the seed told of may be any of the latest by detected_at.
ShowsNewest(r) ==
  LET t == TableOf(r) k == Newest(r, Len(log)) IN
  \/ store[r] = k
  \/ r \in Anomalies /\ k <= passed[t] /\ store[r] \in Latest(r, Len(log))

\* When the browser has handled everything published, each row it was told of
\* shows its newest change, or an anomaly no less recently detected - whatever
\* was replayed, and in whichever order seeds and patches came.
CaughtUpShowsNewest ==
  socket = "open" /\ next = Len(log) + 1 /\ inbox = <<>> =>
    \A r \in Rows : Told(r) => ShowsNewest(r)

\* A row the browser was told of ends up showing its newest change, or what its
\* seed had for it, if the socket and the subscription hold.
Converges ==
  \A r \in Rows : Told(r) ~> ~Told(r) \/ ShowsNewest(r) \/ socket # "open"
=============================================================================
