----------------------------- MODULE CdcConsumer -----------------------------
(***************************************************************************)
(* The CDC consumer: src/app/cdc_consumer.py, one CdcConsumer per stream    *)
(* attempt under the run_forever supervisor, against the logical slot of    *)
(* the primary (external) and Redis (external).                             *)
(*                                                                          *)
(* An LSN is a natural number; every WAL record takes the next one.  `log'  *)
(* is what the slot has to send, in commit order: the changes of a          *)
(* transaction, each with the LSN of its own record, then the transaction's *)
(* COMMIT.  The server skips a transaction whose COMMIT is at or before the *)
(* slot's confirmed LSN and sends every other one from its first change.    *)
(* The connection is FIFO: `next' is the entry the consumer reads next.     *)
(***************************************************************************)
EXTENDS Naturals, Sequences, FiniteSets

CONSTANTS Txns,        \* transactions of the writers
          Rows,        \* rows of the watched tables
          MaxFailures, \* bound on failures and signals
          MaxUpdates,  \* bound on status updates in flight (they are a second apart)
          None         \* no row / no slot / no change

ASSUME BoundsAssumption == MaxFailures \in Nat /\ MaxUpdates \in Nat
ASSUME NoneAssumption == None \notin Nat \cup Rows \cup Txns

\* A watched row change: one row in one transaction.
Change == [txn : Txns, row : Rows]

ASSUME NoChangeAssumption == None \notin Change

VARIABLES
  wal,         \* the LSN of the last WAL record
  writes,      \* the changes each open transaction has written, with their LSNs
  txn,         \* "open", "committed" or "aborted"
  publication, \* the LSN at which migration 0009 created the publication
  log,         \* what the slot has to send since it was created
  confirmed,   \* the slot's confirmed LSN, None = no slot
  walsender,   \* is a server process still attached to the slot?
  feedback,    \* LSNs of status updates on their way to that process
  pc,          \* where the consumer process is
  stop,        \* the stop event
  next,        \* the entry of log to read next
  last_lsn,    \* CdcConsumer._last_lsn
  published,   \* the changes published to Redis
  shown,       \* the last published change of each row
  failures

primary == <<wal, writes, txn, publication, log>>
slot == <<confirmed, walsender, feedback>>
process == <<pc, stop, next, last_lsn>>
redis == <<published, shown>>
vars == <<primary, slot, process, redis, failures>>

Init ==
  /\ wal = 0
  /\ writes = [t \in Txns |-> <<>>]
  /\ txn = [t \in Txns |-> "open"]
  /\ publication = None
  /\ log = <<>>
  /\ confirmed = None
  /\ walsender = FALSE
  /\ feedback = {}
  /\ pc = "probe"
  /\ stop = FALSE
  /\ next = 1
  /\ last_lsn = 0
  /\ published = {}
  /\ shown = [r \in Rows |-> None]
  /\ failures = 0

-----------------------------------------------------------------------------
\* The writers and the migration, at the primary.

\* A row of an open transaction is locked until it ends.
RowFree(t, r) ==
  \A u \in Txns : txn[u] = "open" => \A i \in DOMAIN writes[u] : writes[u][i].row # r

Write(t, r) ==
  /\ txn[t] = "open"
  /\ RowFree(t, r)
  /\ wal' = wal + 1
  /\ writes' = [writes EXCEPT ![t] = Append(@, [row |-> r, lsn |-> wal + 1])]
  /\ UNCHANGED <<txn, publication, log, slot, process, redis, failures>>

Entries(t, commit) ==
  [i \in 1..Len(writes[t]) |-> [change |-> [txn |-> t, row |-> writes[t][i].row],
                                lsn |-> writes[t][i].lsn, commit |-> commit]]

CommitMessage(commit) == <<[change |-> None, lsn |-> commit, commit |-> commit]>>

\* A slot streams what is committed after its creation, and nothing of a
\* transaction without a watched change.
Commit(t) ==
  /\ txn[t] = "open"
  /\ wal' = wal + 1
  /\ txn' = [txn EXCEPT ![t] = "committed"]
  /\ log' = IF confirmed = None \/ writes[t] = <<>>
            THEN log
            ELSE log \o Entries(t, wal + 1) \o CommitMessage(wal + 1)
  /\ UNCHANGED <<writes, publication, slot, process, redis, failures>>

Abort(t) ==
  /\ txn[t] = "open"
  /\ txn' = [txn EXCEPT ![t] = "aborted"]
  /\ UNCHANGED <<wal, writes, publication, log, slot, process, redis, failures>>

Migrate ==
  /\ publication = None
  /\ wal' = wal + 1
  /\ publication' = wal + 1
  /\ UNCHANGED <<writes, txn, log, slot, process, redis, failures>>

-----------------------------------------------------------------------------
\* run_forever: one round of the supervisor.

\* The probe left out: the slot is created without waiting for the publication.
Probe_NoWait ==
  /\ pc = "probe"
  /\ pc' = IF stop THEN "exited" ELSE "ensure_slot"
  /\ UNCHANGED <<primary, slot, stop, next, last_lsn, redis, failures>>

\* The loop condition, then _publication_exists; with no publication (or an
\* unreachable primary) the supervisor waits and probes again.
Probe ==
  /\ pc = "probe"
  /\ stop \/ publication # None
  /\ pc' = IF stop THEN "exited" ELSE "ensure_slot"
  /\ UNCHANGED <<primary, slot, stop, next, last_lsn, redis, failures>>

\* pg_create_logical_replication_slot returns once every transaction that was
\* running has ended.
EnsureSlot ==
  /\ pc = "ensure_slot"
  /\ \/ confirmed # None /\ UNCHANGED confirmed
     \/ /\ confirmed = None
        /\ \A t \in Txns : txn[t] = "open" => writes[t] = <<>>
        /\ confirmed' = wal
  /\ pc' = "start_replication"
  /\ UNCHANGED <<primary, walsender, feedback, stop, next, last_lsn, redis, failures>>

\* The server starts at n: past every transaction confirmed by then.
StartsAt(n) ==
  \A i \in 1..Len(log) : log[i].commit <= confirmed <=> i < n

\* One CdcConsumer kept for all attempts: _last_lsn survives a restart.
StartReplication_SameConsumer ==
  /\ pc = "start_replication"
  /\ ~walsender
  /\ walsender' = TRUE
  /\ \E n \in 1..Len(log) + 1 : StartsAt(n) /\ next' = n
  /\ pc' = "pump"
  /\ UNCHANGED <<primary, confirmed, feedback, stop, last_lsn, redis, failures>>

\* A new CdcConsumer streams from the slot's confirmed LSN (0/0).
StartReplication ==
  /\ pc = "start_replication"
  /\ ~walsender
  /\ walsender' = TRUE
  /\ \E n \in 1..Len(log) + 1 : StartsAt(n) /\ next' = n
  /\ last_lsn' = 0
  /\ pc' = "pump"
  /\ UNCHANGED <<primary, confirmed, feedback, stop, redis, failures>>

\* "replication slot is active": the old connection is not gone yet.
SlotBusy ==
  /\ pc = "start_replication"
  /\ walsender
  /\ pc' = "backoff"
  /\ UNCHANGED <<primary, slot, stop, next, last_lsn, redis, failures>>

Backoff ==
  /\ pc = "backoff"
  /\ pc' = IF stop THEN "exited" ELSE "probe"
  /\ UNCHANGED <<primary, slot, stop, next, last_lsn, redis, failures>>

-----------------------------------------------------------------------------
\* _pump and _on_copy_message: one message.

Larger(a, b) == IF a >= b THEN a ELSE b

Publish(change) ==
  /\ published' = published \cup {change}
  /\ shown' = [shown EXCEPT ![change.row] = change]

\* Decoding a change needs the publication to exist at the change's LSN.
Decodable(e) == publication # None /\ publication <= e.lsn

Reading == pc = "pump" /\ ~stop /\ next <= Len(log) /\ Decodable(log[next])

\* The LSN after the message taken for the position it reports.
Receive_NextLsn ==
  LET e == log[next] IN
  /\ Reading
  /\ last_lsn' = Larger(last_lsn, e.lsn + 1)
  /\ \/ e.change = None /\ UNCHANGED redis
     \/ e.change # None /\ Publish(e.change)
  /\ next' = next + 1
  /\ UNCHANGED <<primary, slot, pc, stop, failures>>

\* XLogData: _last_lsn, then the change is published; COMMIT needs no action.
Receive ==
  LET e == log[next] IN
  /\ Reading
  /\ last_lsn' = Larger(last_lsn, e.lsn)
  /\ \/ e.change = None /\ UNCHANGED redis
     \/ e.change # None /\ Publish(e.change)
  /\ next' = next + 1
  /\ UNCHANGED <<primary, slot, pc, stop, failures>>

\* _last_lsn set to the transaction's COMMIT before its changes are published.
PublishFails_CommitLsn ==
  LET e == log[next] IN
  /\ Reading
  /\ e.change # None
  /\ failures < MaxFailures
  /\ failures' = failures + 1
  /\ last_lsn' = Larger(last_lsn, e.commit)
  /\ UNCHANGED redis
  /\ pc' = "finally"
  /\ UNCHANGED <<primary, slot, stop, next>>

\* The exception of a failed publish suppressed, like that of a failed metric.
PublishFails_Suppressed ==
  LET e == log[next] IN
  /\ Reading
  /\ e.change # None
  /\ failures < MaxFailures
  /\ failures' = failures + 1
  /\ last_lsn' = Larger(last_lsn, e.lsn)
  /\ next' = next + 1
  /\ UNCHANGED <<primary, slot, pc, stop, redis>>

\* The publish raises, whether or not Redis took the message.
PublishFails ==
  LET e == log[next] IN
  /\ Reading
  /\ e.change # None
  /\ failures < MaxFailures
  /\ failures' = failures + 1
  /\ last_lsn' = Larger(last_lsn, e.lsn)
  /\ UNCHANGED redis \/ Publish(e.change)
  /\ pc' = "finally"
  /\ UNCHANGED <<primary, slot, stop, next>>

\* A keepalive carries an LSN up to which everything committed was sent before
\* it; one that asks for a reply is answered at once.
Keepalive ==
  /\ pc = "pump" /\ ~stop
  /\ \E lsn \in 1..wal :
       /\ \A i \in 1..Len(log) : log[i].commit <= lsn => i < next
       /\ last_lsn' = Larger(last_lsn, lsn)
  /\ \/ UNCHANGED feedback
     \/ Cardinality(feedback) < MaxUpdates /\ feedback' = feedback \cup {last_lsn'}
  /\ UNCHANGED <<primary, confirmed, walsender, pc, stop, next, redis, failures>>

\* _send_feedback, about once a second.
SendFeedback ==
  /\ pc = "pump"
  /\ Cardinality(feedback) < MaxUpdates
  /\ feedback' = feedback \cup {last_lsn}
  /\ UNCHANGED <<primary, confirmed, walsender, process, redis, failures>>

\* The loop ends on stop; the `finally' confirms once more and disconnects.
StopPump ==
  /\ pc = "pump" /\ stop
  /\ pc' = "finally"
  /\ UNCHANGED <<primary, slot, stop, next, last_lsn, redis, failures>>

Finally ==
  /\ pc = "finally"
  /\ feedback' = IF walsender THEN feedback \cup {last_lsn} ELSE feedback
  /\ pc' = IF stop THEN "exited" ELSE "backoff"
  /\ UNCHANGED <<primary, confirmed, walsender, stop, next, last_lsn, redis, failures>>

-----------------------------------------------------------------------------
\* The server's end of the connection (external).

Connected == pc \in {"pump", "finally"}

\* An update older than the slot's LSN is ignored, or in earlier releases of
\* Postgres 16 taken; LSN 0 is ignored.
ReceiveFeedback ==
  /\ walsender
  /\ \E lsn \in feedback :
       /\ \A k \in feedback : lsn <= k
       /\ feedback' = feedback \ {lsn}
       /\ confirmed' \in IF lsn = 0 THEN {confirmed} ELSE {lsn, Larger(lsn, confirmed)}
  /\ UNCHANGED <<primary, walsender, process, redis, failures>>

\* The server notices that the client is gone; unread updates are lost.
WalsenderExits ==
  /\ walsender
  /\ ~Connected
  /\ walsender' = FALSE
  /\ feedback' = {}
  /\ UNCHANGED <<primary, confirmed, process, redis, failures>>

-----------------------------------------------------------------------------
\* Failures.

Fails == failures < MaxFailures /\ failures' = failures + 1

Disconnected(p) == IF p = "pump" THEN "finally" ELSE p

\* The replication connection breaks.
StreamBreaks ==
  /\ Fails
  /\ pc = "pump"
  /\ pc' = "finally"
  /\ walsender' = FALSE
  /\ feedback' = {}
  /\ UNCHANGED <<primary, confirmed, stop, next, last_lsn, redis>>

\* The primary crashes: open transactions are lost, and so may be confirmed
\* LSNs the slot had not yet written to disk.
PrimaryRestarts ==
  /\ Fails
  /\ confirmed' \in IF confirmed = None THEN {None} ELSE 0..confirmed
  /\ txn' = [t \in Txns |-> IF txn[t] = "open" /\ writes[t] # <<>>
                            THEN "aborted" ELSE txn[t]]
  /\ walsender' = FALSE
  /\ feedback' = {}
  /\ pc' = Disconnected(pc)
  /\ UNCHANGED <<wal, writes, publication, log, stop, next, last_lsn, redis>>

\* The primary cannot be reached, or refuses: logged and retried.
AttemptFails ==
  /\ Fails
  /\ pc \in {"ensure_slot", "start_replication"}
  /\ pc' = "backoff"
  /\ UNCHANGED <<primary, slot, stop, next, last_lsn, redis>>

\* The process is killed at any point.
Crash ==
  /\ Fails
  /\ pc # "exited"
  /\ pc' = "exited"
  /\ UNCHANGED <<primary, slot, stop, next, last_lsn, redis>>

\* SIGTERM or SIGINT.
Signal ==
  /\ Fails
  /\ pc # "exited"
  /\ ~stop
  /\ stop' = TRUE
  /\ UNCHANGED <<primary, slot, pc, next, last_lsn, redis>>

\* An operator starts the service again (docker-compose.yml gives it no
\* restart policy).
Restart ==
  /\ pc = "exited"
  /\ pc' = "probe"
  /\ stop' = FALSE
  /\ UNCHANGED <<primary, slot, next, last_lsn, redis, failures>>

-----------------------------------------------------------------------------
ConsumerStep ==
  \/ Probe \/ EnsureSlot \/ StartReplication \/ SlotBusy \/ Backoff
  \/ Receive \/ StopPump \/ Finally

Next ==
  \/ \E t \in Txns, r \in Rows : Write(t, r)
  \/ \E t \in Txns : Commit(t) \/ Abort(t)
  \/ Migrate
  \/ ConsumerStep \/ PublishFails \/ Keepalive \/ SendFeedback
  \/ ReceiveFeedback \/ WalsenderExits
  \/ StreamBreaks \/ PrimaryRestarts \/ AttemptFails \/ Crash \/ Signal \/ Restart

Spec == Init /\ [][Next]_vars

\* The supervisor never gives up, transactions end, the migration runs, and the
\* server drops a dead connection (wal_sender_timeout).
FairSpec ==
  /\ Spec
  /\ WF_vars(ConsumerStep)
  /\ WF_vars(WalsenderExits)
  /\ WF_vars(Migrate)
  /\ \A t \in Txns : WF_vars(Commit(t) \/ Abort(t))

-----------------------------------------------------------------------------
Lsn == 0..wal

Entry == [change : Change \cup {None}, lsn : Nat, commit : Nat]

\* Every variable keeps its shape.
TypeOK ==
  /\ wal \in Nat
  /\ writes \in [Txns -> Seq([row : Rows, lsn : Nat])]
  /\ txn \in [Txns -> {"open", "committed", "aborted"}]
  /\ publication \in Lsn \cup {None}
  /\ log \in Seq(Entry)
  /\ confirmed \in Lsn \cup {None}
  /\ walsender \in BOOLEAN
  /\ feedback \subseteq Lsn
  /\ pc \in {"probe", "ensure_slot", "start_replication", "pump", "finally", "backoff", "exited"}
  /\ stop \in BOOLEAN
  /\ next \in 1..Len(log) + 1
  /\ last_lsn \in Lsn
  /\ published \subseteq Change
  /\ shown \in [Rows -> Change \cup {None}]
  /\ failures \in 0..MaxFailures

\* What the slot has confirmed has been published: after any crash, failed
\* publish or lost update the server never skips an unpublished change.
ConfirmedIsPublished ==
  \A i \in 1..Len(log) :
    /\ log[i].change # None
    /\ confirmed # None /\ log[i].commit <= confirmed
    => log[i].change \in published

\* Nothing overtakes: a change is published only when all that committed
\* before it have been.
PublishedInCommitOrder ==
  \A i, j \in 1..Len(log) :
    /\ i < j /\ log[i].change # None
    /\ log[j].change \in published
    => log[i].change \in published

Changes(r) == {i \in 1..Len(log) : log[i].change # None /\ log[i].change.row = r}

\* Whatever was replayed, a consumer that has caught up has last published the
\* newest change of every row: a last-write-wins dashboard is not left stale.
CaughtUpShowsNewest ==
  pc = "pump" /\ next = Len(log) + 1 =>
    \A r \in Rows : \A i \in Changes(r) :
      (\A j \in Changes(r) : j <= i) => shown[r] = log[i].change

\* The probe comes before the slot, and the slot's creation outlives whatever was
\* written before it: a supervisor started before migration 0009 never meets a
\* change older than the publication, which it could only fail on for ever.
EverythingDecodable ==
  \A i \in 1..Len(log) : Decodable(log[i])

\* The consumer, with its supervisor, is the at-least-once stream.
AtLeastOnce == INSTANCE ChangeStream
ImplementsStream == AtLeastOnce!Spec

\* Every change the slot has to send is published in the end, however often
\* the stream breaks or the supervisor starts before the migration, unless the
\* process is told to stop or killed.
EveryChangePublished ==
  \A c \in Change :
    (\E i \in 1..Len(log) : log[i].change = c) ~> (c \in published \/ pc = "exited")
=============================================================================
