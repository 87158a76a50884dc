------------------------- MODULE CdcConsumer_proofs -------------------------
(***************************************************************************)
(* Proofs about CdcConsumer for any transactions, rows, failures and        *)
(* updates in flight.  The argument is CoverInv: no LSN the consumer has    *)
(* reported, is about to report or has had confirmed reaches a COMMIT that  *)
(* it has not read, so a new attempt starts at or before the entry the old  *)
(* one stopped at.                                                          *)
(***************************************************************************)
EXTENDS CdcConsumer, SequenceTheorems, TLAPS

\* A change's LSN is before its COMMIT's, and only committed changes are sent.
LogInv ==
  \A i \in 1..Len(log) :
    /\ log[i].lsn <= log[i].commit /\ log[i].commit <= wal
    /\ log[i].change # None => /\ log[i].lsn < log[i].commit
                               /\ txn[log[i].change.txn] = "committed"

\* Commit order; a COMMIT is the last entry of its transaction.
SortedInv ==
  \A i, j \in 1..Len(log) :
    i < j => /\ log[i].commit <= log[j].commit
             /\ log[i].change = None => log[i].commit < log[j].commit

\* A change is in the stream once.
UniqueInv ==
  \A i, j \in 1..Len(log) :
    log[i].change # None /\ log[i].change = log[j].change => i = j

\* A transaction writes a row once.
WritesInv ==
  \A t \in Txns : \A i \in 1..Len(writes[t]) :
    /\ writes[t][i].lsn <= wal
    /\ \A j \in 1..Len(writes[t]) : writes[t][i].row = writes[t][j].row => i = j

\* What the consumer has read it has published.
ReadInv ==
  /\ \A i \in 1..Len(log) : i < next /\ log[i].change # None => log[i].change \in published
  /\ \A c \in published : txn[c.txn] = "committed"

\* Every COMMIT up to lsn has been read.
Covered(lsn) == \A i \in 1..Len(log) : log[i].commit <= lsn => i < next

CoverInv ==
  /\ confirmed # None => Covered(confirmed)
  /\ \A lsn \in feedback : Covered(lsn)
  /\ Connected => Covered(last_lsn)

\* Status updates are on their way only to a server process that is there.
ConnectionInv ==
  /\ ~walsender => feedback = {}
  /\ walsender => confirmed # None
  /\ confirmed = None => log = <<>>
  /\ pc = "pump" => walsender
  /\ pc \in {"start_replication", "pump", "finally"} => confirmed # None

\* What is shown of a row is as new as anything the cursor has passed.
ShownInv ==
  \A r \in Rows : \A i \in Changes(r) :
    i < next => \E j \in Changes(r) : j >= i /\ shown[r] = log[j].change

\* The inductive invariant.
IInv ==
  /\ TypeOK
  /\ LogInv /\ SortedInv /\ UniqueInv /\ WritesInv
  /\ ReadInv /\ CoverInv /\ ConnectionInv /\ ShownInv
  /\ PublishedInCommitOrder

-----------------------------------------------------------------------------
LEMMA NextCases ==
  ASSUME Next
  PROVE  \/ \E t \in Txns, r \in Rows : Write(t, r)
         \/ \E t \in Txns : Commit(t)
         \/ \E t \in Txns : Abort(t)
         \/ Migrate \/ Probe \/ EnsureSlot \/ StartReplication \/ SlotBusy \/ Backoff
         \/ Receive \/ StopPump \/ Finally \/ PublishFails \/ Keepalive \/ SendFeedback
         \/ ReceiveFeedback \/ WalsenderExits
         \/ StreamBreaks \/ PrimaryRestarts \/ AttemptFails \/ Crash \/ Signal \/ Restart
  BY DEF Next, ConsumerStep

\* What a commit appends to the stream.
LEMMA CommitLog ==
  ASSUME TypeOK, NEW t \in Txns, Commit(t), log' # log
  PROVE  /\ log' \in Seq(Entry)
         /\ Len(log) <= Len(log')
         /\ \A i \in 1..Len(log) : log'[i] = log[i]
         /\ \A i \in 1..Len(log') : i > Len(log) =>
              /\ log'[i].commit = wal + 1
              /\ \/ log'[i].change = None /\ log'[i].lsn = wal + 1 /\ i = Len(log')
                 \/ \E k \in 1..Len(writes[t]) :
                      /\ i = Len(log) + k
                      /\ log'[i].change = [txn |-> t, row |-> writes[t][k].row]
                      /\ log'[i].lsn = writes[t][k].lsn
<1> DEFINE E == Entries(t, wal + 1)
           M == CommitMessage(wal + 1)
           LE == log \o E
           n == Len(log)
           k == Len(writes[t])
<1>1. log' = LE \o M
  BY DEF Commit
<1>2. wal \in Nat /\ log \in Seq(Entry) /\ writes[t] \in Seq([row : Rows, lsn : Nat])
  BY DEF TypeOK
<1>3. n \in Nat /\ k \in Nat
  BY <1>2, LenProperties
<1>4. E \in Seq(Entry) /\ Len(E) = k
      /\ \A i \in 1..k : E[i] = [change |-> [txn |-> t, row |-> writes[t][i].row],
                                 lsn |-> writes[t][i].lsn, commit |-> wal + 1]
  <2>1. \A i \in 1..k : writes[t][i] \in [row : Rows, lsn : Nat]
    BY <1>2, ElementOfSeq
  <2>2. \A i \in 1..k : [change |-> [txn |-> t, row |-> writes[t][i].row],
                         lsn |-> writes[t][i].lsn, commit |-> wal + 1] \in Entry
    BY <1>2, <2>1 DEF Entry, Change
  <2>3. E = [i \in 1..k |-> [change |-> [txn |-> t, row |-> writes[t][i].row],
                             lsn |-> writes[t][i].lsn, commit |-> wal + 1]]
    BY DEF Entries
  <2> HIDE DEF E, k
  <2>4. E \in [1..k -> Entry]
    BY <2>2, <2>3
  <2> QED
    BY <1>3, <2>3, <2>4, SeqDef, LenProperties
<1>5. M \in Seq(Entry) /\ Len(M) = 1
      /\ M[1] = [change |-> None, lsn |-> wal + 1, commit |-> wal + 1]
  BY <1>2 DEF CommitMessage, Entry
<1> HIDE DEF E, M, n, k
<1>6. /\ LE \in Seq(Entry) /\ Len(LE) = n + k
      /\ \A i \in 1..n + k : LE[i] = IF i <= n THEN log[i] ELSE E[i - n]
  BY <1>2, <1>4, ConcatProperties DEF n
<1> HIDE DEF LE
<1>7. /\ log' \in Seq(Entry) /\ Len(log') = n + k + 1
      /\ \A i \in 1..n + k + 1 : log'[i] = IF i <= n + k THEN LE[i] ELSE M[i - (n + k)]
  <2>1. /\ LE \o M \in Seq(Entry) /\ Len(LE \o M) = Len(LE) + Len(M)
        /\ \A i \in 1..Len(LE) + Len(M) :
             (LE \o M)[i] = IF i <= Len(LE) THEN LE[i] ELSE M[i - Len(LE)]
    BY <1>5, <1>6, ConcatProperties
  <2>2. Len(LE) = n + k /\ Len(M) = 1
    BY <1>5, <1>6
  <2> QED
    BY <1>1, <2>1, <2>2
<1>8. \A i \in 1..n : log'[i] = log[i]
  <2>1. \A i \in 1..n : i \in 1..n + k /\ i \in 1..n + k + 1 /\ i <= n /\ i <= n + k
    BY <1>3
  <2> QED
    BY <1>6, <1>7, <2>1
<1>9. ASSUME NEW i \in 1..Len(log'), i > n
      PROVE  /\ log'[i].commit = wal + 1
             /\ \/ log'[i].change = None /\ log'[i].lsn = wal + 1 /\ i = Len(log')
                \/ \E m \in 1..k : /\ i = n + m
                                   /\ log'[i].change = [txn |-> t, row |-> writes[t][m].row]
                                   /\ log'[i].lsn = writes[t][m].lsn
  <2>1. CASE i <= n + k
    <3>1. /\ i - n \in 1..k /\ i = n + (i - n)
          /\ i \in 1..n + k /\ i \in 1..n + k + 1 /\ ~(i <= n)
      BY <1>3, <1>7, <1>9, <2>1
    <3>2. log'[i] = E[i - n]
      BY <1>6, <1>7, <2>1, <3>1
    <3>3. PICK m \in 1..k : m = i - n /\ i = n + m
      BY <3>1
    <3>4. log'[i] = [change |-> [txn |-> t, row |-> writes[t][m].row],
                     lsn |-> writes[t][m].lsn, commit |-> wal + 1]
      BY <1>4, <3>2, <3>3
    <3>5. /\ log'[i].commit = wal + 1
          /\ log'[i].change = [txn |-> t, row |-> writes[t][m].row]
          /\ log'[i].lsn = writes[t][m].lsn
      BY <3>4
    <3> HIDE DEF k
    <3> QED
      BY <3>3, <3>5
  <2>2. CASE i = n + k + 1
    <3>1. log'[i] = M[1]
      BY <1>3, <1>7, <2>2
    <3> QED
      BY <1>5, <1>7, <2>2, <3>1
  <2> QED
    BY <1>3, <1>7, <1>9, <2>1, <2>2
<1>10. n <= Len(log')
  BY <1>3, <1>7
<1> QED
  BY <1>7, <1>8, <1>9, <1>10 DEF n, k

-----------------------------------------------------------------------------
\* TypeOK in three parts: the sequences, the LSNs, and the rest.
SeqType ==
  /\ writes \in [Txns -> Seq([row : Rows, lsn : Nat])]
  /\ log \in Seq(Entry)

LsnType ==
  /\ wal \in Nat
  /\ publication \in 0..wal \cup {None}
  /\ confirmed \in 0..wal \cup {None}
  /\ feedback \subseteq 0..wal
  /\ next \in 1..Len(log) + 1
  /\ last_lsn \in 0..wal

RestType ==
  /\ txn \in [Txns -> {"open", "committed", "aborted"}]
  /\ walsender \in BOOLEAN
  /\ pc \in {"probe", "ensure_slot", "start_replication", "pump", "finally", "backoff", "exited"}
  /\ stop \in BOOLEAN
  /\ published \subseteq Change
  /\ shown \in [Rows -> Change \cup {None}]
  /\ failures \in 0..MaxFailures

LEMMA TypeParts == TypeOK <=> SeqType /\ LsnType /\ RestType
  BY DEF TypeOK, SeqType, LsnType, RestType, Lsn

LEMMA TypeInit == Init => TypeOK
<1> SUFFICES ASSUME Init PROVE SeqType /\ LsnType /\ RestType
  BY TypeParts
<1>1. SeqType
  BY EmptySeq DEF Init, SeqType
<1>2. LsnType
  <2>1. Len(log) = 0  BY EmptySeq DEF Init
  <2> QED  BY <2>1 DEF Init, LsnType
<1>3. RestType
  <2>1. failures \in 0..MaxFailures
    BY BoundsAssumption DEF Init
  <2>2. shown \in [Rows -> Change \cup {None}] /\ published \subseteq Change
    BY DEF Init
  <2>3. txn \in [Txns -> {"open", "committed", "aborted"}]
    BY DEF Init
  <2> QED
    BY <2>1, <2>2, <2>3 DEF Init, RestType
<1> QED
  BY <1>1, <1>2, <1>3

\* The step of a published change.
LEMMA PublishType ==
  ASSUME RestType, SeqType, Reading, LsnType,
         \/ log[next].change = None /\ UNCHANGED redis
         \/ log[next].change # None /\ Publish(log[next].change)
  PROVE  published' \subseteq Change /\ shown' \in [Rows -> Change \cup {None}]
<1>1. next \in 1..Len(log) /\ log[next] \in Entry
  BY ElementOfSeq, LenProperties DEF SeqType, LsnType, Reading
<1> QED
  BY <1>1 DEF RestType, Publish, redis, Entry, Change

LEMMA SeqStep ==
  ASSUME TypeOK, [Next]_vars PROVE SeqType'
<1>0. SeqType /\ LsnType
  BY TypeParts
<1> USE <1>0 DEF SeqType
<1>1. ASSUME NEW t \in Txns, NEW r \in Rows, Write(t, r) PROVE SeqType'
  <2>1. writes[t] \in Seq([row : Rows, lsn : Nat]) /\ [row |-> r, lsn |-> wal + 1] \in [row : Rows, lsn : Nat]
    <3>1. wal + 1 \in Nat
      BY DEF LsnType
    <3> QED
      BY <3>1
  <2>2. Append(writes[t], [row |-> r, lsn |-> wal + 1]) \in Seq([row : Rows, lsn : Nat])
    BY <2>1, AppendProperties
  <2> QED
    BY <1>1, <2>2 DEF Write
<1>2. ASSUME NEW t \in Txns, Commit(t) PROVE SeqType'
  BY <1>2, CommitLog DEF Commit
<1>3. CASE UNCHANGED <<writes, log>>
  BY <1>3
<1> QED
  BY <1>1, <1>2, <1>3, NextCases DEF Abort, Migrate, Probe, EnsureSlot, StartReplication,
     SlotBusy, Backoff, Receive, StopPump, Finally, PublishFails, Keepalive, SendFeedback,
     ReceiveFeedback, WalsenderExits, StreamBreaks, PrimaryRestarts, AttemptFails, Crash,
     Signal, Restart, vars, primary

LEMMA LsnStep ==
  ASSUME TypeOK, LogInv, [Next]_vars PROVE LsnType'
<1>1. SeqType /\ LsnType /\ RestType /\ Len(log) \in Nat
  BY TypeParts, LenProperties DEF SeqType
<1> USE <1>1 DEF LsnType
<1>2. ASSUME NEW t \in Txns, NEW r \in Rows, Write(t, r) PROVE LsnType'
  BY <1>2 DEF Write, slot, process
<1>3. ASSUME NEW t \in Txns, Commit(t) PROVE LsnType'
  <2>1. Len(log') \in Nat /\ Len(log) <= Len(log')
    BY <1>3, CommitLog, LenProperties
  <2> QED
    BY <1>3, <2>1 DEF Commit, slot, process
<1>4. CASE Migrate
  BY <1>4 DEF Migrate, slot, process
<1>5. CASE EnsureSlot
  BY <1>5 DEF EnsureSlot, primary
<1>6. CASE StartReplication
  BY <1>6 DEF StartReplication, primary
<1>7. CASE Receive \/ PublishFails
  <2>1. next \in 1..Len(log)
    BY <1>7 DEF Receive, PublishFails, Reading
  <2>2. log[next].lsn \in 0..wal
    <3>1. log[next] \in Entry
      BY <2>1, ElementOfSeq DEF SeqType
    <3>2. /\ log[next].lsn \in Nat /\ log[next].commit \in Nat
          /\ log[next].lsn <= log[next].commit /\ log[next].commit <= wal
      BY <2>1, <3>1 DEF Entry, LogInv
    <3> QED
      BY <3>2
  <2>3. last_lsn' \in 0..wal
    BY <1>7, <2>2 DEF Receive, PublishFails, Larger
  <2>4. next' \in 1..Len(log) + 1
    BY <1>7, <2>1 DEF Receive, PublishFails
  <2> QED
    BY <1>7, <2>3, <2>4 DEF Receive, PublishFails, primary, slot
<1>8. CASE Keepalive
  <2>1. last_lsn' \in 0..wal
    BY <1>8 DEF Keepalive, Larger
  <2>2. feedback' \subseteq 0..wal
    BY <1>8, <2>1 DEF Keepalive
  <2> QED
    BY <1>8, <2>1, <2>2 DEF Keepalive, primary
<1>9. CASE SendFeedback \/ Finally
  BY <1>9 DEF SendFeedback, Finally, primary, process
<1>10. CASE ReceiveFeedback
  BY <1>10 DEF ReceiveFeedback, Larger, primary, process
<1>11. CASE WalsenderExits \/ StreamBreaks
  BY <1>11 DEF WalsenderExits, StreamBreaks, primary, process
<1>12. CASE PrimaryRestarts
  BY <1>12 DEF PrimaryRestarts
<1>13. CASE UNCHANGED <<wal, publication, confirmed, feedback, next, last_lsn, log>>
  BY <1>13
<1> QED
  BY <1>2, <1>3, <1>4, <1>5, <1>6, <1>7, <1>8, <1>9, <1>10, <1>11, <1>12, <1>13, NextCases
     DEF Abort, Probe, SlotBusy, Backoff, StopPump, AttemptFails, Crash, Signal, Restart,
         vars, primary, slot, process

LEMMA FailsType == ASSUME RestType, Fails PROVE failures' \in 0..MaxFailures
  BY BoundsAssumption DEF RestType, Fails

LEMMA RestStep ==
  ASSUME TypeOK, [Next]_vars PROVE RestType'
<1>1. SeqType /\ LsnType /\ RestType
  BY TypeParts
<1> USE <1>1 DEF RestType
<1>2. ASSUME NEW t \in Txns, NEW r \in Rows, Write(t, r) PROVE RestType'
  BY <1>2 DEF Write, slot, process, redis
<1>3. ASSUME NEW t \in Txns, Commit(t) \/ Abort(t) PROVE RestType'
  BY <1>3 DEF Commit, Abort, slot, process, redis
<1>4. CASE Migrate
  BY <1>4 DEF Migrate, slot, process, redis
<1>5. CASE Probe \/ SlotBusy \/ Backoff \/ StopPump
  BY <1>5 DEF Probe, SlotBusy, Backoff, StopPump, primary, slot, redis
<1>6. CASE EnsureSlot \/ StartReplication
  BY <1>6 DEF EnsureSlot, StartReplication, primary, redis
<1>7. CASE Receive
  <2>1. published' \subseteq Change /\ shown' \in [Rows -> Change \cup {None}]
    BY <1>7, PublishType DEF Receive
  <2> QED
    BY <1>7, <2>1 DEF Receive, primary, slot
<1>8. CASE PublishFails
  <2>1. published' \subseteq Change /\ shown' \in [Rows -> Change \cup {None}]
    <3>1. CASE UNCHANGED redis
      BY <3>1 DEF redis
    <3>2. CASE Publish(log[next].change)
      BY <1>8, <3>2, PublishType DEF PublishFails
    <3> QED
      BY <1>8, <3>1, <3>2 DEF PublishFails
  <2> QED
    BY <1>8, <2>1, BoundsAssumption DEF PublishFails, primary, slot
<1>9. CASE Keepalive \/ SendFeedback \/ ReceiveFeedback \/ Finally
  BY <1>9 DEF Keepalive, SendFeedback, ReceiveFeedback, Finally, primary, process, redis
<1>10. CASE WalsenderExits
  BY <1>10 DEF WalsenderExits, primary, process, redis
<1>11. CASE StreamBreaks \/ PrimaryRestarts
  <2>1. failures' \in 0..MaxFailures
    BY <1>11, FailsType DEF StreamBreaks, PrimaryRestarts
  <2> QED
    BY <1>11, <2>1 DEF StreamBreaks, PrimaryRestarts, Disconnected, primary, redis
<1>12. CASE AttemptFails \/ Crash \/ Signal
  <2>1. failures' \in 0..MaxFailures
    BY <1>12, FailsType DEF AttemptFails, Crash, Signal
  <2> QED
    BY <1>12, <2>1 DEF AttemptFails, Crash, Signal, primary, slot, redis
<1>13. CASE Restart
  BY <1>13 DEF Restart, primary, slot, redis
<1>14. CASE UNCHANGED vars
  BY <1>14 DEF vars, primary, slot, process, redis
<1> QED
  BY <1>2, <1>3, <1>4, <1>5, <1>6, <1>7, <1>8, <1>9, <1>10, <1>11, <1>12, <1>13, <1>14,
     NextCases

LEMMA TypeStep == ASSUME TypeOK, LogInv, [Next]_vars PROVE TypeOK'
<1>1. SeqType' /\ LsnType' /\ RestType'
  BY SeqStep, LsnStep, RestStep
<1> QED
  BY <1>1 DEF TypeOK, SeqType, LsnType, RestType, Lsn

-----------------------------------------------------------------------------
\* Only Write, Commit, Abort and PrimaryRestarts touch what LogInv, SortedInv,
\* UniqueInv and WritesInv are about.
LEMMA OnlyWritersChangeLog ==
  ASSUME [Next]_vars
  PROVE  \/ \E t \in Txns, r \in Rows : Write(t, r)
         \/ \E t \in Txns : Commit(t)
         \/ \E t \in Txns : Abort(t)
         \/ PrimaryRestarts
         \/ Migrate
         \/ UNCHANGED <<wal, writes, txn, log>>
  BY NextCases DEF Probe, EnsureSlot, StartReplication,
     SlotBusy, Backoff, Receive, StopPump, Finally, PublishFails, Keepalive, SendFeedback,
     ReceiveFeedback, WalsenderExits, StreamBreaks, AttemptFails, Crash,
     Signal, Restart, vars, primary

\* A transaction that has committed stays committed.
LEMMA CommittedStays ==
  ASSUME TypeOK, [Next]_vars, NEW t \in Txns, txn[t] = "committed"
  PROVE  txn'[t] = "committed"
  BY OnlyWritersChangeLog DEF TypeOK, Write, Commit, Abort, Migrate, PrimaryRestarts

\* What SMT needs of the entries of the stream.
LEMMA LogElements ==
  ASSUME TypeOK
  PROVE  /\ Len(log) \in Nat /\ wal \in Nat
         /\ \A i \in 1..Len(log) :
              /\ log[i].lsn \in Nat /\ log[i].commit \in Nat
              /\ log[i].change # None => log[i].change \in Change
                                         /\ log[i].change.txn \in Txns
                                         /\ log[i].change.row \in Rows
<1>1. log \in Seq(Entry) /\ wal \in Nat
  BY DEF TypeOK
<1>2. Len(log) \in Nat
  BY <1>1, LenProperties
<1>3. \A i \in 1..Len(log) : log[i] \in Entry
  BY <1>1, ElementOfSeq
<1>4. \A i \in 1..Len(log) :
        /\ log[i].lsn \in Nat /\ log[i].commit \in Nat
        /\ log[i].change # None => log[i].change \in Change
                                   /\ log[i].change.txn \in Txns
                                   /\ log[i].change.row \in Rows
  <2> TAKE i \in 1..Len(log)
  <2>1. log[i] \in Entry
    BY <1>3
  <2>2. log[i].lsn \in Nat /\ log[i].commit \in Nat /\ log[i].change \in Change \cup {None}
    BY <2>1 DEF Entry
  <2> QED
    BY <2>2 DEF Change
<1> QED
  BY <1>1, <1>2, <1>4

LEMMA WritesElements ==
  ASSUME TypeOK, NEW t \in Txns
  PROVE  /\ writes[t] \in Seq([row : Rows, lsn : Nat])
         /\ Len(writes[t]) \in Nat
         /\ DOMAIN writes[t] = 1..Len(writes[t])
         /\ \A i \in 1..Len(writes[t]) : writes[t][i].row \in Rows /\ writes[t][i].lsn \in Nat
<1>1. writes[t] \in Seq([row : Rows, lsn : Nat])
  BY DEF TypeOK
<1>2. Len(writes[t]) \in Nat /\ DOMAIN writes[t] = 1..Len(writes[t])
  BY <1>1, LenProperties
<1>3. \A i \in 1..Len(writes[t]) : writes[t][i] \in [row : Rows, lsn : Nat]
  BY <1>1, ElementOfSeq
<1> QED
  BY <1>1, <1>2, <1>3
-----------------------------------------------------------------------------
\* What a commit appends, as the invariants need it: the entries of a
\* transaction that was open, past every LSN there is.
LEMMA CommitEntries ==
  ASSUME TypeOK, NEW t \in Txns, Commit(t)
  PROVE  /\ Len(log) \in Nat /\ Len(log') \in Nat /\ Len(log) <= Len(log')
         /\ \A i \in 1..Len(log) : i \in 1..Len(log') /\ log'[i] = log[i]
         /\ \A i \in 1..Len(log') : ~(i \in 1..Len(log)) =>
              /\ i > Len(log)
              /\ log'[i].commit = wal + 1
              /\ log'[i].change = None => i = Len(log')
              /\ log'[i].change # None => log'[i].change.txn = t
<1>1. CASE log' = log
  BY <1>1, LogElements
<1>2. CASE log' # log
  <2>1. Len(log) \in Nat /\ Len(log') \in Nat
    BY <1>2, CommitLog, LogElements, LenProperties
  <2>2. \A i \in 1..Len(log') : ~(i \in 1..Len(log)) => i > Len(log)
    BY <2>1
  <2>3. \A i \in 1..Len(log) : Len(log) <= Len(log') => i \in 1..Len(log')
    BY <2>1
  <2>4. \A i \in 1..Len(log') : i > Len(log) =>
              /\ log'[i].commit = wal + 1
              /\ log'[i].change = None => i = Len(log')
              /\ log'[i].change # None => log'[i].change.txn = t
    <3>1. \A k \in 1..Len(writes[t]) : [txn |-> t, row |-> writes[t][k].row].txn = t
      OBVIOUS
    <3>2. \A k \in 1..Len(writes[t]) : [txn |-> t, row |-> writes[t][k].row] # None
      BY WritesElements, NoChangeAssumption DEF Change
    <3> SUFFICES ASSUME NEW i \in 1..Len(log'), i > Len(log)
                 PROVE  /\ log'[i].commit = wal + 1
                        /\ log'[i].change = None => i = Len(log')
                        /\ log'[i].change # None => log'[i].change.txn = t
      OBVIOUS
    <3>3. /\ log'[i].commit = wal + 1
          /\ \/ log'[i].change = None /\ log'[i].lsn = wal + 1 /\ i = Len(log')
             \/ \E k \in 1..Len(writes[t]) :
                  log'[i].change = [txn |-> t, row |-> writes[t][k].row]
      BY <1>2, CommitLog
    <3> QED
      BY <3>1, <3>2, <3>3
  <2> QED
    BY <1>2, <2>1, <2>2, <2>3, <2>4, CommitLog
<1> QED
  BY <1>1, <1>2

-----------------------------------------------------------------------------
\* The stream's own invariants, one lemma each.

LEMMA WritesStep ==
  ASSUME IInv, [Next]_vars PROVE WritesInv'
<1>1. TypeOK /\ WritesInv /\ wal \in Nat
  BY LogElements DEF IInv
<1>2. ASSUME NEW t \in Txns, NEW r \in Rows, Write(t, r) PROVE WritesInv'
  <2>1. SUFFICES ASSUME NEW u \in Txns, NEW i \in 1..Len(writes'[u])
                 PROVE  /\ writes'[u][i].lsn <= wal'
                        /\ \A j \in 1..Len(writes'[u]) :
                             writes'[u][i].row = writes'[u][j].row => i = j
    BY DEF WritesInv
  <2>2. writes[u] \in Seq([row : Rows, lsn : Nat]) /\ Len(writes[u]) \in Nat
        /\ DOMAIN writes[u] = 1..Len(writes[u])
        /\ \A k \in 1..Len(writes[u]) : writes[u][k].lsn \in Nat
    BY <1>1, WritesElements
  <2>3. CASE u # t
    <3>1. writes'[u] = writes[u]
      BY <1>1, <1>2, <2>3 DEF Write, TypeOK
    <3>2. wal' = wal + 1 /\ i \in 1..Len(writes[u]) /\ writes[u][i].lsn <= wal
      BY <1>1, <1>2, <3>1 DEF Write, WritesInv
    <3>3. writes[u][i].lsn <= wal'
      BY <1>1, <2>2, <3>2
    <3> QED
      BY <1>1, <3>1, <3>2, <3>3 DEF WritesInv
  <2>4. CASE u = t
    <3> DEFINE e == [row |-> r, lsn |-> wal + 1]
    <3>1. writes'[u] = Append(writes[u], e)
      BY <1>1, <1>2, <2>4 DEF Write, TypeOK
    <3>2. e \in [row : Rows, lsn : Nat]
      BY <1>1
    <3>3. /\ Len(writes'[u]) = Len(writes[u]) + 1
          /\ \A k \in 1..Len(writes[u]) : writes'[u][k] = writes[u][k]
          /\ writes'[u][Len(writes[u]) + 1] = e
      BY <2>2, <3>1, <3>2, AppendProperties
    <3>4. \A k \in 1..Len(writes[u]) : writes[u][k].row # r
      BY <1>2, <2>2, <2>4 DEF Write, RowFree
    <3>5. e.row = r /\ e.lsn = wal + 1 /\ wal' = wal + 1
      BY <1>2 DEF Write
    <3> HIDE DEF e
    <3>6. \A k \in 1..Len(writes[u]) :
            /\ writes[u][k].lsn <= wal
            /\ \A j \in 1..Len(writes[u]) : writes[u][k].row = writes[u][j].row => k = j
      BY <1>1 DEF WritesInv
    <3>7. \A k \in 1..Len(writes'[u]) : k \in 1..Len(writes[u]) \/ k = Len(writes[u]) + 1
      BY <2>2, <3>3
    <3>8. writes'[u][i].lsn <= wal'
      <4>1. CASE i \in 1..Len(writes[u])
        <5>1. writes'[u][i] = writes[u][i] /\ writes[u][i].lsn <= wal /\ writes[u][i].lsn \in Nat
          BY <2>2, <3>3, <3>6, <4>1
        <5> QED
          BY <1>1, <3>5, <5>1
      <4>2. CASE i = Len(writes[u]) + 1
        BY <1>1, <3>3, <3>5, <4>2
      <4> QED
        BY <3>7, <4>1, <4>2
    <3>9. ASSUME NEW j \in 1..Len(writes'[u]), writes'[u][i].row = writes'[u][j].row
          PROVE  i = j
      BY <3>3, <3>4, <3>5, <3>6, <3>7, <3>9
    <3> QED
      BY <3>8, <3>9
  <2> QED
    BY <2>3, <2>4
<1>3. CASE UNCHANGED writes /\ (wal' = wal \/ wal' = wal + 1)
  <2>1. \A u \in Txns : \A k \in 1..Len(writes[u]) : writes[u][k].lsn \in Nat
    BY <1>1, WritesElements
  <2> QED
    BY <1>1, <1>3, <2>1 DEF WritesInv
<1> QED
  BY <1>2, <1>3, OnlyWritersChangeLog DEF Commit, Abort, Migrate, PrimaryRestarts

LEMMA LogStep ==
  ASSUME IInv, [Next]_vars PROVE LogInv'
<1>1. TypeOK /\ LogInv /\ WritesInv /\ wal \in Nat
  BY LogElements DEF IInv
<1>2. \A i \in 1..Len(log) :
        /\ log[i].lsn \in Nat /\ log[i].commit \in Nat
        /\ log[i].change # None => txn'[log[i].change.txn] = "committed"
  BY <1>1, LogElements, CommittedStays DEF LogInv
<1>3. ASSUME NEW t \in Txns, Commit(t) PROVE LogInv'
  <2>1. SUFFICES ASSUME NEW i \in 1..Len(log')
                 PROVE  /\ log'[i].lsn <= log'[i].commit /\ log'[i].commit <= wal'
                        /\ log'[i].change # None =>
                             /\ log'[i].lsn < log'[i].commit
                             /\ txn'[log'[i].change.txn] = "committed"
    BY DEF LogInv
  <2>2. wal' = wal + 1 /\ txn'[t] = "committed"
    BY <1>1, <1>3 DEF Commit, TypeOK
  <2>3. CASE i \in 1..Len(log)
    <3>1. log'[i] = log[i]
      BY <1>1, <1>3, <2>3, CommitEntries
    <3> QED
      BY <1>1, <1>2, <2>2, <2>3, <3>1 DEF LogInv
  <2>4. CASE ~(i \in 1..Len(log))
    <3>1. i > Len(log) /\ log'[i].commit = wal + 1
          /\ (log'[i].change # None => log'[i].change.txn = t)
      BY <1>1, <1>3, <2>4, CommitEntries
    <3>2. log' # log
      BY <2>1, <2>4
    <3>3. CASE log'[i].lsn = wal + 1 /\ log'[i].change = None
      BY <1>1, <2>2, <3>1, <3>3
    <3>4. ASSUME NEW k \in 1..Len(writes[t]), log'[i].lsn = writes[t][k].lsn
          PROVE  log'[i].lsn <= wal /\ log'[i].lsn \in Nat
      BY <1>1, <3>4, WritesElements DEF WritesInv
    <3>5. CASE log'[i].lsn <= wal /\ log'[i].lsn \in Nat
      BY <1>1, <2>2, <3>1, <3>5
    <3> QED
      BY <1>1, <1>3, <3>1, <3>2, <3>3, <3>4, <3>5, CommitLog
  <2> QED
    BY <2>3, <2>4
<1>4. CASE UNCHANGED log /\ (wal' = wal \/ wal' = wal + 1)
  BY <1>1, <1>2, <1>4 DEF LogInv
<1> QED
  BY <1>3, <1>4, OnlyWritersChangeLog DEF Write, Abort, Migrate, PrimaryRestarts

LEMMA SortedStep ==
  ASSUME IInv, [Next]_vars PROVE SortedInv'
<1>1. TypeOK /\ LogInv /\ SortedInv /\ wal \in Nat
  BY LogElements DEF IInv
<1>2. ASSUME NEW t \in Txns, Commit(t) PROVE SortedInv'
  <2>1. SUFFICES ASSUME NEW i \in 1..Len(log'), NEW j \in 1..Len(log'), i < j
                 PROVE  /\ log'[i].commit <= log'[j].commit
                        /\ log'[i].change = None => log'[i].commit < log'[j].commit
    BY DEF SortedInv
  <2>2. \A k \in 1..Len(log) : log[k].commit \in Nat /\ log[k].commit <= wal
    BY <1>1, LogElements DEF LogInv
  <2>3. CASE j \in 1..Len(log)
    <3>1. i \in 1..Len(log)
      BY <2>1, <2>3
    <3> QED
      BY <1>1, <1>2, <2>1, <2>3, <3>1, CommitEntries DEF SortedInv
  <2>4. CASE ~(j \in 1..Len(log)) /\ i \in 1..Len(log)
    BY <1>1, <1>2, <2>1, <2>2, <2>4, CommitEntries
  <2>5. CASE ~(j \in 1..Len(log)) /\ ~(i \in 1..Len(log))
    <3>1. /\ log'[i].commit = wal + 1 /\ log'[j].commit = wal + 1
          /\ log'[i].change = None => i = Len(log')
      BY <1>1, <1>2, <2>5, CommitEntries
    <3>2. i # Len(log')
      BY <2>1
    <3> QED
      BY <1>1, <3>1, <3>2
  <2> QED
    BY <2>3, <2>4, <2>5
<1>3. CASE UNCHANGED log
  BY <1>1, <1>3 DEF SortedInv
<1> QED
  BY <1>2, <1>3, OnlyWritersChangeLog DEF Write, Abort, Migrate, PrimaryRestarts

LEMMA UniqueStep ==
  ASSUME IInv, [Next]_vars PROVE UniqueInv'
<1>1. TypeOK /\ LogInv /\ UniqueInv /\ WritesInv
  BY DEF IInv
<1>2. ASSUME NEW t \in Txns, Commit(t) PROVE UniqueInv'
  <2>1. SUFFICES ASSUME NEW i \in 1..Len(log'), NEW j \in 1..Len(log'),
                        log'[i].change # None, log'[i].change = log'[j].change
                 PROVE  i = j
    BY DEF UniqueInv
  <2>2. \A k \in 1..Len(log) : log[k].change # None => log[k].change.txn # t
    BY <1>1, <1>2 DEF LogInv, Commit
  <2>3. CASE i \in 1..Len(log) /\ j \in 1..Len(log)
    BY <1>1, <1>2, <2>1, <2>3, CommitEntries DEF UniqueInv
  <2>4. CASE (i \in 1..Len(log)) # (j \in 1..Len(log))
    BY <1>1, <1>2, <2>1, <2>2, <2>4, CommitEntries
  <2>5. CASE ~(i \in 1..Len(log)) /\ ~(j \in 1..Len(log))
    <3>1. i > Len(log) /\ j > Len(log) /\ log' # log
      BY <1>1, <1>2, <2>5, CommitEntries
    <3>2. PICK k \in 1..Len(writes[t]) :
            i = Len(log) + k /\ log'[i].change = [txn |-> t, row |-> writes[t][k].row]
      BY <1>1, <1>2, <2>1, <3>1, CommitLog
    <3>3. PICK m \in 1..Len(writes[t]) :
            j = Len(log) + m /\ log'[j].change = [txn |-> t, row |-> writes[t][m].row]
      BY <1>1, <1>2, <2>1, <3>1, CommitLog
    <3>4. writes[t][k].row = writes[t][m].row
      BY <2>1, <3>2, <3>3
    <3> QED
      BY <1>1, <3>2, <3>3, <3>4 DEF WritesInv
  <2> QED
    BY <2>3, <2>4, <2>5
<1>3. CASE UNCHANGED log
  BY <1>1, <1>3 DEF UniqueInv
<1> QED
  BY <1>2, <1>3, OnlyWritersChangeLog DEF Write, Abort, Migrate, PrimaryRestarts
-----------------------------------------------------------------------------
\* The consumer's invariants.

\* What a commit leaves of the entries already in the stream.
LEMMA CommitKeeps ==
  ASSUME TypeOK, NEW t \in Txns, Commit(t)
  PROVE  /\ UNCHANGED <<slot, process, redis>>
         /\ next \in 1..Len(log) + 1
         /\ \A i \in 1..Len(log') : i < next => i \in 1..Len(log) /\ log'[i] = log[i]
<1>1. next \in 1..Len(log) + 1 /\ Len(log) \in Nat
  BY LogElements DEF TypeOK
<1>2. \A i \in 1..Len(log') : i < next => i \in 1..Len(log)
  BY <1>1
<1> QED
  BY <1>1, <1>2, CommitEntries DEF Commit

\* The entry a Receive or a failed publish is about.
LEMMA ReadEntry ==
  ASSUME IInv, Reading
  PROVE  /\ next \in 1..Len(log)
         /\ log[next].lsn \in Nat /\ log[next].commit \in Nat
         /\ log[next].lsn <= log[next].commit
         /\ log[next].change # None =>
              /\ log[next].lsn < log[next].commit
              /\ log[next].change \in Change
              /\ txn[log[next].change.txn] = "committed"
<1>1. next \in 1..Len(log)
  BY LogElements DEF IInv, TypeOK, Reading
<1> QED
  BY <1>1, LogElements DEF IInv, LogInv

\* A restart of the stream never moves the cursor forward: CoverInv says that
\* what the slot has confirmed has been read.
LEMMA StartsBehind ==
  ASSUME IInv, StartReplication
  PROVE  next' \in 1..next /\ confirmed \in Nat
         /\ \A i \in 1..Len(log) : log[i].commit <= confirmed => i < next'
<1>1. confirmed # None /\ confirmed \in Nat /\ Covered(confirmed)
  BY DEF IInv, TypeOK, Lsn, ConnectionInv, CoverInv, StartReplication
<1>2. PICK n \in 1..Len(log) + 1 : StartsAt(n) /\ next' = n
  BY DEF StartReplication
<1>3. next \in 1..Len(log) + 1 /\ Len(log) \in Nat
  BY LogElements DEF IInv, TypeOK
<1>4. n <= next
  <2> SUFFICES ASSUME n > next PROVE FALSE
    BY <1>2, <1>3
  <2>1. next \in 1..Len(log) /\ next < n
    BY <1>2, <1>3
  <2> QED
    BY <1>1, <1>2, <1>3, <2>1 DEF StartsAt, Covered
<1> QED
  BY <1>1, <1>2, <1>3, <1>4 DEF StartsAt

\* The consumer's steps that leave the stream alone and neither move the cursor
\* nor publish.
LEMMA QuietSteps ==
  ASSUME [Next]_vars
  PROVE  \/ \E t \in Txns : Commit(t)
         \/ StartReplication \/ Receive \/ PublishFails
         \/ UNCHANGED <<log, next, published, shown>>
  BY NextCases DEF Write, Abort, Migrate, Probe, EnsureSlot,
     SlotBusy, Backoff, StopPump, Finally, Keepalive, SendFeedback,
     ReceiveFeedback, WalsenderExits, StreamBreaks, PrimaryRestarts, AttemptFails, Crash,
     Signal, Restart, vars, primary, process, redis

LEMMA ReadStep ==
  ASSUME IInv, [Next]_vars PROVE ReadInv'
<1>1. TypeOK /\ ReadInv /\ next \in 1..Len(log) + 1 /\ Len(log) \in Nat /\ published \subseteq Change
  BY LogElements DEF IInv, TypeOK
<1>2. \A c \in published : txn'[c.txn] = "committed"
  BY <1>1, CommittedStays DEF ReadInv, Change
<1>3. ASSUME NEW t \in Txns, Commit(t) PROVE ReadInv'
  BY <1>1, <1>2, <1>3, CommitKeeps DEF ReadInv, process, redis
<1>4. CASE StartReplication
  <2>1. next' \in 1..next /\ UNCHANGED <<log, published>>
    BY <1>4, StartsBehind DEF StartReplication, primary, redis
  <2> QED
    BY <1>1, <1>2, <2>1 DEF ReadInv
<1>5. CASE Receive
  <2>1. Reading /\ next' = next + 1 /\ UNCHANGED <<log, txn>>
    BY <1>5 DEF Receive, primary
  <2>2. published \subseteq published'
        /\ (log[next].change # None => published' = published \cup {log[next].change})
        /\ (log[next].change = None => published' = published)
    BY <1>5 DEF Receive, Publish, redis
  <2>3. ASSUME NEW i \in 1..Len(log), i < next + 1, log[i].change # None
        PROVE  log[i].change \in published'
    <3>1. i < next \/ i = next
      BY <1>1, <2>3
    <3> QED
      BY <1>1, <2>2, <2>3, <3>1 DEF ReadInv
  <2>4. \A c \in published' : txn'[c.txn] = "committed"
    BY <1>2, <2>1, <2>2, ReadEntry
  <2> QED
    BY <2>1, <2>3, <2>4 DEF ReadInv
<1>6. CASE PublishFails
  <2>1. Reading /\ UNCHANGED <<log, txn, next>> /\ log[next].change # None
    BY <1>6 DEF PublishFails, primary
  <2>2. published' = published \/ published' = published \cup {log[next].change}
    BY <1>6 DEF PublishFails, Publish, redis
  <2>3. \A c \in published' : txn'[c.txn] = "committed"
    BY <1>2, <2>1, <2>2, ReadEntry
  <2> QED
    BY <1>1, <2>1, <2>2, <2>3 DEF ReadInv
<1>7. CASE UNCHANGED <<log, next, published, shown>>
  BY <1>1, <1>2, <1>7 DEF ReadInv
<1> QED
  BY <1>3, <1>4, <1>5, <1>6, <1>7, QuietSteps

LEMMA ConnectionStep ==
  ASSUME IInv, [Next]_vars PROVE ConnectionInv'
<1>1. TypeOK /\ ConnectionInv /\ (confirmed # None => confirmed \in Nat) /\ wal \in Nat
  <2>1. TypeOK /\ ConnectionInv
    BY DEF IInv
  <2>2. confirmed \in 0..wal \cup {None} /\ wal \in Nat
    BY <2>1 DEF TypeOK, Lsn
  <2> QED
    BY <2>1, <2>2
<1> USE DEF ConnectionInv
<1>2. ASSUME NEW t \in Txns, Commit(t) PROVE ConnectionInv'
  BY <1>1, <1>2 DEF Commit, slot, process
<1>3. ASSUME NEW t \in Txns, NEW r \in Rows, Write(t, r) PROVE ConnectionInv'
  BY <1>1, <1>3 DEF Write, slot, process
<1>4. CASE Migrate \/ \E t \in Txns : Abort(t)
  BY <1>1, <1>4 DEF Migrate, Abort, slot, process
<1>5. CASE Probe \/ SlotBusy \/ Backoff \/ StopPump \/ AttemptFails \/ Crash \/ Signal \/ Restart
  BY <1>1, <1>5 DEF Probe, SlotBusy, Backoff, StopPump, AttemptFails, Crash, Signal, Restart,
     primary, slot
<1>6. CASE EnsureSlot
  <2>1. confirmed' # None
    BY <1>1, <1>6, NoneAssumption DEF EnsureSlot
  <2> QED
    BY <1>1, <1>6, <2>1 DEF EnsureSlot, primary
<1>7. CASE StartReplication \/ Receive \/ PublishFails
  BY <1>1, <1>7 DEF StartReplication, Receive, PublishFails, Reading, primary, slot
<1>8. CASE Keepalive \/ SendFeedback \/ Finally
  BY <1>1, <1>8 DEF Keepalive, SendFeedback, Finally, primary, process
<1>9. CASE ReceiveFeedback
  <2>1. confirmed' # None
    <3>1. PICK lsn \in feedback : confirmed' \in IF lsn = 0 THEN {confirmed} ELSE {lsn, Larger(lsn, confirmed)}
      BY <1>9 DEF ReceiveFeedback
    <3>2. lsn \in Nat
      BY <1>1, <3>1 DEF TypeOK, Lsn
    <3> QED
      BY <1>1, <1>9, <3>1, <3>2, NoneAssumption DEF ReceiveFeedback, Larger
  <2> QED
    BY <1>1, <1>9, <2>1 DEF ReceiveFeedback, primary, process
<1>10. CASE WalsenderExits \/ StreamBreaks
  BY <1>1, <1>10 DEF WalsenderExits, StreamBreaks, Connected, primary, process
<1>11. CASE PrimaryRestarts
  <2>1. confirmed' = None <=> confirmed = None
    BY <1>1, <1>11, NoneAssumption DEF PrimaryRestarts
  <2> QED
    BY <1>1, <1>11, <2>1 DEF PrimaryRestarts, Disconnected
<1>12. CASE UNCHANGED vars
  BY <1>1, <1>12 DEF vars, primary, slot, process
<1> QED
  BY <1>2, <1>3, <1>4, <1>5, <1>6, <1>7, <1>8, <1>9, <1>10, <1>11, <1>12, NextCases
\* Reading an entry, or failing to publish it, the consumer may report its LSN.
LEMMA CoveredRead ==
  ASSUME IInv, Reading, Covered(last_lsn), UNCHANGED log,
         last_lsn' = Larger(last_lsn, log[next].lsn),
         \/ next' = next + 1
         \/ next' = next /\ log[next].change # None
  PROVE  Covered(last_lsn)'
<1>1. /\ next \in 1..Len(log) /\ log[next].lsn \in Nat /\ log[next].commit \in Nat
      /\ log[next].lsn <= log[next].commit
      /\ log[next].change # None => log[next].lsn < log[next].commit
  BY ReadEntry
<1>2. last_lsn \in Nat
  BY DEF IInv, TypeOK, Lsn
<1>3. SUFFICES ASSUME NEW i \in 1..Len(log), log[i].commit <= last_lsn'
               PROVE  i < next'
  BY DEF Covered
<1>4. log[i].commit \in Nat
  BY LogElements DEF IInv
<1>5. CASE log[i].commit <= last_lsn
  BY <1>1, <1>5 DEF Covered
<1>6. CASE log[i].commit <= log[next].lsn
  <2>1. i > next => /\ log[next].commit <= log[i].commit
                    /\ log[next].change = None => log[next].commit < log[i].commit
    BY <1>1 DEF IInv, SortedInv
  <2>2. ~(i > next)
    BY <1>1, <1>4, <1>6, <2>1
  <2>3. i = next => next' = next + 1
    BY <1>1, <1>4, <1>6
  <2> QED
    BY <1>1, <2>2, <2>3
<1> QED
  BY <1>1, <1>2, <1>3, <1>5, <1>6 DEF Larger

LEMMA CoverStep ==
  ASSUME IInv, [Next]_vars PROVE CoverInv'
<1>1. /\ TypeOK /\ CoverInv /\ ConnectionInv
      /\ next \in 1..Len(log) + 1 /\ Len(log) \in Nat
      /\ wal \in Nat /\ feedback \subseteq 0..wal /\ last_lsn \in 0..wal
      /\ confirmed \in 0..wal \cup {None}
  BY LogElements DEF IInv, TypeOK, Lsn
<1>2. ASSUME NEW t \in Txns, Commit(t) PROVE CoverInv'
  <2>1. ASSUME NEW lsn \in 0..wal, Covered(lsn) PROVE Covered(lsn)'
    <3>1. SUFFICES ASSUME NEW i \in 1..Len(log'), log'[i].commit <= lsn PROVE i < next'
      BY DEF Covered
    <3>2. i \in 1..Len(log)
      BY <1>1, <1>2, <3>1, CommitEntries
    <3> QED
      BY <1>1, <1>2, <2>1, <3>1, <3>2, CommitEntries, CommitKeeps DEF Covered, process
  <2>2. UNCHANGED <<confirmed, feedback, last_lsn, pc>>
    BY <1>2 DEF Commit, slot, process
  <2>3. /\ confirmed # None => Covered(confirmed)'
        /\ \A lsn \in feedback : Covered(lsn)'
        /\ Connected => Covered(last_lsn)'
    <3>1. \A lsn \in 0..wal : Covered(lsn) => Covered(lsn)'
      BY <2>1
    <3>2. confirmed # None => Covered(confirmed)'
      BY <1>1, <2>1, <2>2 DEF CoverInv, Covered
    <3>3. \A lsn \in feedback : Covered(lsn)'
      BY <1>1, <3>1 DEF CoverInv
    <3>4. Connected => Covered(last_lsn)'
      BY <1>1, <2>1, <2>2 DEF CoverInv, Covered
    <3> QED
      BY <3>2, <3>3, <3>4
  <2> QED
    BY <2>2, <2>3 DEF CoverInv, Connected
<1>3. CASE StartReplication
  <2>1. /\ UNCHANGED <<confirmed, feedback, log>> /\ feedback = {} /\ last_lsn' = 0
        /\ confirmed \in Nat
        /\ \A i \in 1..Len(log) : log[i].commit <= confirmed => i < next'
    BY <1>1, <1>3, StartsBehind DEF StartReplication, ConnectionInv, primary
  <2>2. Covered(0)'
    <3>1. SUFFICES ASSUME NEW i \in 1..Len(log), log[i].commit <= 0 PROVE i < next'
      BY <2>1 DEF Covered
    <3>2. log[i].commit \in Nat
      BY <1>1, LogElements
    <3> QED
      BY <2>1, <3>1, <3>2
  <2> QED
    BY <2>1, <2>2 DEF CoverInv, Covered
<1>4. CASE Receive \/ PublishFails
  <2>1. /\ Reading /\ UNCHANGED <<log, confirmed, feedback>>
        /\ last_lsn' = Larger(last_lsn, log[next].lsn)
        /\ next' = next + 1 \/ (next' = next /\ log[next].change # None)
    BY <1>4 DEF Receive, PublishFails, primary, slot
  <2>2. Covered(last_lsn)'
    BY <1>1, <2>1, CoveredRead DEF CoverInv, Connected, Reading
  <2>3. \A lsn : Covered(lsn) => \A i \in 1..Len(log) : log[i].commit <= lsn => i < next'
    BY <1>1, <2>1 DEF Covered
  <2> QED
    BY <1>1, <2>1, <2>2, <2>3 DEF CoverInv, Covered
<1>5. CASE Keepalive
  <2>1. UNCHANGED <<log, next, confirmed>> /\ pc = "pump"
    BY <1>5 DEF Keepalive, primary
  <2>2. Covered(last_lsn)'
    BY <1>1, <1>5, <2>1 DEF Keepalive, CoverInv, Connected, Covered, Larger
  <2>3. feedback' \subseteq feedback \cup {last_lsn'}
    BY <1>5 DEF Keepalive
  <2> QED
    BY <1>1, <2>1, <2>2, <2>3 DEF CoverInv, Covered
<1>6. CASE SendFeedback \/ Finally
  <2>1. /\ UNCHANGED <<log, next, confirmed, last_lsn>> /\ Connected
        /\ feedback' \subseteq feedback \cup {last_lsn}
    BY <1>6 DEF SendFeedback, Finally, primary, process, Connected
  <2> QED
    BY <1>1, <2>1 DEF CoverInv, Covered
<1>7. CASE ReceiveFeedback
  <2>1. UNCHANGED <<log, next, pc, last_lsn>> /\ feedback' \subseteq feedback
    BY <1>7 DEF ReceiveFeedback, primary, process
  <2>2. confirmed' \in feedback \cup {confirmed}
    BY <1>7 DEF ReceiveFeedback, Larger
  <2> QED
    BY <1>1, <2>1, <2>2 DEF CoverInv, Covered, Connected
<1>8. CASE PrimaryRestarts
  <2>1. UNCHANGED <<log, next, last_lsn>> /\ feedback' = {} /\ (Connected' => Connected)
    BY <1>8 DEF PrimaryRestarts, Disconnected, Connected
  <2>2. confirmed' # None => confirmed # None /\ confirmed' \in 0..confirmed
    BY <1>8 DEF PrimaryRestarts
  <2>3. confirmed' # None => Covered(confirmed)'
    <3>1. SUFFICES ASSUME confirmed' # None, NEW i \in 1..Len(log), log[i].commit <= confirmed'
                   PROVE  i < next
      BY <2>1 DEF Covered
    <3>2. log[i].commit \in Nat /\ confirmed \in Nat /\ confirmed' \in 0..confirmed
      BY <1>1, <2>2, <3>1, LogElements
    <3>3. log[i].commit <= confirmed
      BY <3>1, <3>2
    <3> QED
      BY <1>1, <2>2, <3>1, <3>3 DEF CoverInv, Covered
  <2> QED
    BY <1>1, <2>1, <2>3 DEF CoverInv, Covered
<1>9. CASE EnsureSlot
  <2>1. UNCHANGED <<log, next, feedback, last_lsn>> /\ ~Connected'
    BY <1>9 DEF EnsureSlot, Connected, primary
  <2>2. CASE UNCHANGED confirmed
    BY <1>1, <2>1, <2>2 DEF CoverInv, Covered
  <2>3. CASE confirmed = None
    <3>1. 1..Len(log) = {}
      BY <1>1, <2>3, EmptySeq DEF ConnectionInv
    <3> QED
      BY <2>1, <3>1 DEF CoverInv, Covered
  <2> QED
    BY <1>9, <2>2, <2>3 DEF EnsureSlot
<1>10. CASE UNCHANGED <<log, next, last_lsn, confirmed>> /\ feedback' \subseteq feedback
            /\ (Connected' => Connected)
  BY <1>1, <1>10 DEF CoverInv, Covered
<1> QED
  BY <1>2, <1>3, <1>4, <1>5, <1>6, <1>7, <1>8, <1>9, <1>10, NextCases
     DEF Write, Abort, Migrate, Probe, SlotBusy, Backoff, StopPump, WalsenderExits,
         StreamBreaks, AttemptFails, Crash, Signal, Restart, Connected,
         vars, primary, slot, process
\* What a published change does to what is shown.
LEMMA PublishShows ==
  ASSUME IInv, Reading, log[next].change # None, Publish(log[next].change),
         UNCHANGED log, NEW n, n \in {next, next + 1}
  PROVE  \A r \in Rows : \A i \in Changes(r) :
           i < n => \E j \in Changes(r) : j >= i /\ shown'[r] = log[j].change
<1>1. /\ next \in 1..Len(log) /\ Len(log) \in Nat /\ log[next].change \in Change
      /\ shown \in [Rows -> Change \cup {None}]
  BY ReadEntry, LogElements DEF IInv, TypeOK
<1>2. SUFFICES ASSUME NEW r \in Rows, NEW i \in Changes(r), i < n
               PROVE  \E j \in Changes(r) : j >= i /\ shown'[r] = log[j].change
  OBVIOUS
<1>3. i \in 1..Len(log) /\ i <= next
  BY <1>1, <1>2 DEF Changes
<1>4. CASE log[next].change.row = r
  <2>1. next \in Changes(r)
    BY <1>1, <1>4 DEF Changes
  <2>2. shown'[r] = log[next].change
    BY <1>1, <1>4 DEF Publish
  <2> QED
    BY <1>3, <2>1, <2>2
<1>5. CASE log[next].change.row # r
  <2>1. shown'[r] = shown[r]
    BY <1>1, <1>5 DEF Publish
  <2>2. i < next
    BY <1>1, <1>3, <1>5 DEF Changes
  <2> QED
    BY <2>1, <2>2 DEF IInv, ShownInv
<1> QED
  BY <1>4, <1>5

LEMMA ShownStep ==
  ASSUME IInv, [Next]_vars PROVE ShownInv'
<1>1. TypeOK /\ ShownInv /\ next \in 1..Len(log) + 1 /\ Len(log) \in Nat
  BY LogElements DEF IInv, TypeOK
<1>2. ASSUME NEW t \in Txns, Commit(t) PROVE ShownInv'
  <2>1. SUFFICES ASSUME NEW r \in Rows, NEW i \in Changes(r)', i < next'
                 PROVE  \E j \in Changes(r)' : j >= i /\ shown'[r] = log'[j].change
    BY DEF ShownInv
  <2>2. UNCHANGED <<next, shown>>
    BY <1>2 DEF Commit, process, redis
  <2>3. i \in Changes(r)
    BY <1>1, <1>2, <2>1, <2>2, CommitKeeps DEF Changes
  <2>4. PICK j \in Changes(r) : j >= i /\ shown[r] = log[j].change
    BY <1>1, <2>1, <2>2, <2>3 DEF ShownInv
  <2>5. j \in Changes(r)' /\ log'[j] = log[j]
    BY <1>1, <1>2, CommitEntries DEF Changes
  <2> QED
    BY <2>2, <2>4, <2>5
<1>3. CASE StartReplication
  <2>1. next' \in 1..next /\ UNCHANGED <<log, shown>>
    BY <1>3, StartsBehind DEF StartReplication, primary, redis
  <2>2. \A i \in 1..Len(log) : i < next' => i < next
    BY <1>1, <2>1
  <2>3. \A r \in Rows : Changes(r)' = Changes(r) /\ Changes(r) \subseteq 1..Len(log)
    BY <2>1 DEF Changes
  <2>4. SUFFICES ASSUME NEW r \in Rows, NEW i \in Changes(r), i < next'
                 PROVE  \E j \in Changes(r) : j >= i /\ shown[r] = log[j].change
    BY <2>1, <2>3 DEF ShownInv
  <2>5. i < next
    BY <2>2, <2>3, <2>4
  <2> QED
    BY <1>1, <2>5 DEF ShownInv
<1>4. CASE Receive
  <2>1. Reading /\ next' = next + 1 /\ UNCHANGED log
    BY <1>4 DEF Receive, primary
  <2>2. CASE log[next].change = None /\ UNCHANGED redis
    <3>1. \A r \in Rows : \A i \in Changes(r) : i < next + 1 => i < next
      BY <1>1, <2>2 DEF Changes
    <3> QED
      BY <1>1, <2>1, <2>2, <3>1 DEF ShownInv, Changes, redis
  <2>3. CASE log[next].change # None /\ Publish(log[next].change)
    BY <2>1, <2>3, PublishShows DEF ShownInv, Changes
  <2> QED
    BY <1>4, <2>2, <2>3 DEF Receive
<1>5. CASE PublishFails
  <2>1. Reading /\ log[next].change # None /\ UNCHANGED <<log, next>>
    BY <1>5 DEF PublishFails, primary
  <2>2. CASE UNCHANGED redis
    BY <1>1, <2>1, <2>2 DEF ShownInv, Changes, redis
  <2>3. CASE Publish(log[next].change)
    BY <2>1, <2>3, PublishShows DEF ShownInv, Changes
  <2> QED
    BY <1>5, <2>2, <2>3 DEF PublishFails
<1>6. CASE UNCHANGED <<log, next, published, shown>>
  BY <1>1, <1>6 DEF ShownInv, Changes
<1> QED
  BY <1>2, <1>3, <1>4, <1>5, <1>6, QuietSteps

LEMMA OrderStep ==
  ASSUME IInv, [Next]_vars PROVE PublishedInCommitOrder'
<1>1. /\ TypeOK /\ PublishedInCommitOrder /\ ReadInv /\ UniqueInv
      /\ next \in 1..Len(log) + 1 /\ Len(log) \in Nat
  BY LogElements DEF IInv, TypeOK
<1>2. ASSUME NEW t \in Txns, Commit(t) PROVE PublishedInCommitOrder'
  <2>1. SUFFICES ASSUME NEW i \in 1..Len(log'), NEW j \in 1..Len(log'), i < j,
                        log'[i].change # None, log'[j].change \in published'
                 PROVE  log'[i].change \in published'
    BY DEF PublishedInCommitOrder
  <2>2. published' = published /\ txn[t] = "open"
    BY <1>2 DEF Commit, redis
  <2>3. \A c \in published : c.txn # t /\ c # None
    <3>1. published \subseteq Change
      BY <1>1 DEF TypeOK
    <3> QED
      BY <1>1, <2>2, <3>1, NoChangeAssumption DEF ReadInv
  <2>4. j \in 1..Len(log)
    BY <1>1, <1>2, <2>1, <2>2, <2>3, CommitEntries
  <2>5. i \in 1..Len(log)
    BY <1>1, <2>1, <2>4
  <2> QED
    BY <1>1, <1>2, <2>1, <2>2, <2>4, <2>5, CommitEntries DEF PublishedInCommitOrder
<1>3. CASE Receive \/ PublishFails
  <2>1. Reading /\ UNCHANGED log
    BY <1>3 DEF Receive, PublishFails, primary
  <2>2. \/ published' = published
        \/ log[next].change # None /\ published' = published \cup {log[next].change}
    BY <1>3 DEF Receive, PublishFails, Publish, redis
  <2>3. SUFFICES ASSUME NEW i \in 1..Len(log), NEW j \in 1..Len(log), i < j,
                        log[i].change # None, log[j].change \in published'
                 PROVE  log[i].change \in published'
    BY <2>1 DEF PublishedInCommitOrder
  <2>4. CASE log[j].change \in published
    BY <1>1, <2>2, <2>3, <2>4 DEF PublishedInCommitOrder
  <2>5. CASE log[j].change = log[next].change /\ log[next].change # None
    <3>1. j = next
      BY <1>1, <2>1, <2>5, ReadEntry DEF UniqueInv
    <3> QED
      BY <1>1, <2>2, <2>3, <3>1 DEF ReadInv
  <2> QED
    BY <2>2, <2>3, <2>4, <2>5
<1>4. CASE UNCHANGED <<log, published>>
  BY <1>1, <1>4 DEF PublishedInCommitOrder
<1> QED
  BY <1>2, <1>3, <1>4, QuietSteps DEF StartReplication, primary, redis

-----------------------------------------------------------------------------
LEMMA InvInit == Init => IInv
<1> SUFFICES ASSUME Init PROVE IInv
  OBVIOUS
<1>1. TypeOK
  BY TypeInit
<1>2. 1..Len(log) = {} /\ \A t \in Txns : 1..Len(writes[t]) = {}
  BY EmptySeq DEF Init
<1>3. LogInv /\ SortedInv /\ UniqueInv /\ WritesInv /\ PublishedInCommitOrder
  BY <1>2 DEF LogInv, SortedInv, UniqueInv, WritesInv, PublishedInCommitOrder
<1>4. ReadInv /\ CoverInv /\ ShownInv
  BY <1>2 DEF Init, ReadInv, CoverInv, Covered, ShownInv, Changes
<1>5. ConnectionInv
  BY DEF Init, ConnectionInv
<1> QED
  BY <1>1, <1>3, <1>4, <1>5 DEF IInv

LEMMA InvStep == ASSUME IInv, [Next]_vars PROVE IInv'
<1>1. TypeOK'
  BY TypeStep DEF IInv
<1> QED
  BY <1>1, LogStep, SortedStep, UniqueStep, WritesStep, ReadStep, CoverStep, ConnectionStep,
     ShownStep, OrderStep DEF IInv

LEMMA Inductive == Spec => []IInv
  BY InvInit, InvStep, PTL DEF Spec

\* Every variable keeps its shape, whatever fails and however often the stream
\* and the process are started again.
THEOREM TypeCorrect == Spec => []TypeOK
<1>1. IInv => TypeOK
  BY DEF IInv
<1> QED
  BY <1>1, Inductive, PTL

\* No crash, failed publish or lost status update makes the slot confirm a
\* change that was never published.
THEOREM NothingSkipped == Spec => []ConfirmedIsPublished
<1>1. IInv => ConfirmedIsPublished
  BY DEF IInv, CoverInv, Covered, ReadInv, ConfirmedIsPublished
<1> QED
  BY <1>1, Inductive, PTL

\* A change is published only after all that committed before it.
THEOREM CommitOrder == Spec => []PublishedInCommitOrder
<1>1. IInv => PublishedInCommitOrder
  BY DEF IInv
<1> QED
  BY <1>1, Inductive, PTL

\* A consumer that has caught up has last published the newest change of every
\* row, whatever it replayed on the way.
THEOREM ReplayConverges == Spec => []CaughtUpShowsNewest
<1>1. IInv => CaughtUpShowsNewest
  <2>1. SUFFICES ASSUME IInv, next = Len(log) + 1, NEW r \in Rows, NEW i \in Changes(r),
                        \A j \in Changes(r) : j <= i
                 PROVE  shown[r] = log[i].change
    BY DEF CaughtUpShowsNewest
  <2>2. Len(log) \in Nat /\ Changes(r) \subseteq 1..Len(log)
    BY <2>1, LogElements DEF IInv, Changes
  <2>3. PICK j \in Changes(r) : j >= i /\ shown[r] = log[j].change
    BY <2>1, <2>2 DEF IInv, ShownInv
  <2>4. j = i
    BY <2>1, <2>2, <2>3
  <2> QED
    BY <2>3, <2>4
<1> QED
  BY <1>1, Inductive, PTL

-----------------------------------------------------------------------------
\* The publication is older than whatever a slot can still be given: the probe
\* has seen it before the slot is created, and no transaction open at the slot's
\* creation has written.
PublicationInv ==
  /\ pc = "ensure_slot" => publication # None
  /\ confirmed # None =>
       /\ publication # None
       /\ \A t \in Txns : txn[t] = "open" =>
            \A i \in 1..Len(writes[t]) : publication <= writes[t][i].lsn
  /\ EverythingDecodable

\* A slot is there from its creation on.
LEMMA SlotStays ==
  ASSUME IInv, [Next]_vars, ~EnsureSlot
  PROVE  confirmed' = None <=> confirmed = None
<1>1. CASE ReceiveFeedback
  <2>1. PICK lsn \in feedback : confirmed' \in IF lsn = 0 THEN {confirmed} ELSE {lsn, Larger(lsn, confirmed)}
    BY <1>1 DEF ReceiveFeedback
  <2>2. lsn # None /\ confirmed # None
    BY <1>1, <2>1, NoneAssumption DEF ReceiveFeedback, IInv, ConnectionInv, TypeOK, Lsn
  <2> QED
    BY <2>1, <2>2 DEF Larger
<1>2. CASE PrimaryRestarts
  BY <1>2, NoneAssumption DEF PrimaryRestarts
<1>3. CASE UNCHANGED confirmed
  BY <1>3
<1> QED
  BY <1>1, <1>2, <1>3, NextCases DEF Write, Commit, Abort, Migrate, Probe, StartReplication,
     SlotBusy, Backoff, Receive, StopPump, Finally, PublishFails, Keepalive, SendFeedback,
     WalsenderExits, StreamBreaks, AttemptFails, Crash, Signal, Restart, vars, primary, slot

\* The publication is created once and never dropped.
LEMMA PublicationStays ==
  ASSUME [Next]_vars, publication # None PROVE publication' = publication
  BY NextCases DEF Write, Commit, Abort, Migrate, Probe, EnsureSlot, StartReplication,
     SlotBusy, Backoff, Receive, StopPump, Finally, PublishFails, Keepalive, SendFeedback,
     ReceiveFeedback, WalsenderExits, StreamBreaks, PrimaryRestarts, AttemptFails, Crash,
     Signal, Restart, vars, primary

\* The supervisor creates a slot only after a probe that saw the publication.
LEMMA ProbedFirst ==
  ASSUME [Next]_vars, pc' = "ensure_slot"
  PROVE  pc = "ensure_slot" \/ publication # None
  BY NextCases DEF Write, Commit, Abort, Migrate, Probe, EnsureSlot, StartReplication,
     SlotBusy, Backoff, Receive, StopPump, Finally, PublishFails, Keepalive, SendFeedback,
     ReceiveFeedback, WalsenderExits, StreamBreaks, PrimaryRestarts, Disconnected,
     AttemptFails, Crash, Signal, Restart, vars, process

\* What an open transaction has written after a step it had written before, or
\* writes past every LSN there was.
LEMMA OpenWrites ==
  ASSUME TypeOK, [Next]_vars, NEW t \in Txns, txn'[t] = "open",
         NEW i \in 1..Len(writes'[t])
  PROVE  /\ txn[t] = "open"
         /\ \/ i \in 1..Len(writes[t]) /\ writes'[t][i] = writes[t][i]
            \/ writes'[t][i].lsn = wal + 1
<1>1. txn[t] = "open"
  BY OnlyWritersChangeLog DEF TypeOK, Write, Commit, Abort, Migrate, PrimaryRestarts
<1>2. ASSUME NEW u \in Txns, NEW r \in Rows, Write(u, r)
      PROVE  \/ i \in 1..Len(writes[t]) /\ writes'[t][i] = writes[t][i]
             \/ writes'[t][i].lsn = wal + 1
  <2>1. CASE u = t
    <3>1. writes'[t] = Append(writes[t], [row |-> r, lsn |-> wal + 1])
      BY <1>2, <2>1 DEF Write, TypeOK
    <3>2. writes[t] \in Seq([row : Rows, lsn : Nat]) /\ Len(writes[t]) \in Nat
      BY WritesElements
    <3>3. wal + 1 \in Nat
      BY DEF TypeOK
    <3>4. [row |-> r, lsn |-> wal + 1] \in [row : Rows, lsn : Nat]
      BY <3>3
    <3>5. /\ Len(writes'[t]) = Len(writes[t]) + 1
          /\ \A k \in 1..Len(writes[t]) : writes'[t][k] = writes[t][k]
          /\ writes'[t][Len(writes[t]) + 1] = [row |-> r, lsn |-> wal + 1]
      BY <3>1, <3>2, <3>4, AppendProperties
    <3>6. i \in 1..Len(writes[t]) \/ i = Len(writes[t]) + 1
      BY <3>2, <3>5
    <3> QED
      BY <3>5, <3>6
  <2>2. CASE u # t
    BY <1>2, <2>2 DEF Write, TypeOK
  <2> QED
    BY <2>1, <2>2
<1>3. CASE UNCHANGED writes
  BY <1>1, <1>3
<1> QED
  BY <1>1, <1>2, <1>3, OnlyWritersChangeLog DEF Commit, Abort, Migrate, PrimaryRestarts

\* What the stream has after a step it had before, or is a committed
\* transaction's: a change it wrote while open, or its COMMIT.
LEMMA NewEntries ==
  ASSUME TypeOK, [Next]_vars, NEW i \in 1..Len(log')
  PROVE  \/ i \in 1..Len(log) /\ log'[i] = log[i]
         \/ /\ confirmed # None
            /\ \/ log'[i].lsn = wal + 1
               \/ \E t \in Txns : /\ txn[t] = "open"
                                  /\ \E k \in 1..Len(writes[t]) : log'[i].lsn = writes[t][k].lsn
<1>1. ASSUME NEW t \in Txns, Commit(t), log' # log, ~(i \in 1..Len(log))
      PROVE  /\ confirmed # None /\ txn[t] = "open"
             /\ \/ log'[i].lsn = wal + 1
                \/ \E k \in 1..Len(writes[t]) : log'[i].lsn = writes[t][k].lsn
  <2>1. confirmed # None /\ txn[t] = "open"
    BY <1>1 DEF Commit
  <2>2. i > Len(log)
    BY <1>1, CommitEntries
  <2> QED
    BY <1>1, <2>1, <2>2, CommitLog
<1>2. ASSUME NEW t \in Txns, Commit(t), log' # log, i \in 1..Len(log)
      PROVE  log'[i] = log[i]
  BY <1>2, CommitLog
<1>3. CASE log' = log
  BY <1>3
<1>4. (\E t \in Txns : Commit(t)) \/ log' = log
  BY OnlyWritersChangeLog DEF Write, Abort, Migrate, PrimaryRestarts
<1> QED
  BY <1>1, <1>2, <1>3, <1>4

LEMMA PublicationStep ==
  ASSUME IInv, PublicationInv, [Next]_vars PROVE PublicationInv'
<1>1. /\ TypeOK /\ wal \in Nat
      /\ publication # None => publication \in Nat /\ publication <= wal
  <2>1. TypeOK
    BY DEF IInv
  <2>2. LsnType
    BY <2>1, TypeParts
  <2> QED
    BY <2>1, <2>2, NoneAssumption DEF LsnType
<1>2. pc' = "ensure_slot" => publication' # None
  BY PublicationStays, ProbedFirst DEF PublicationInv
<1>3. confirmed' # None => publication # None /\ publication' = publication
  BY SlotStays, PublicationStays DEF PublicationInv, EnsureSlot
<1>4. ASSUME confirmed' # None, NEW t \in Txns, txn'[t] = "open",
             NEW i \in 1..Len(writes'[t])
      PROVE  publication <= writes'[t][i].lsn
  <2>1. CASE writes'[t][i].lsn = wal + 1
    BY <1>1, <1>3, <1>4, <2>1
  <2>2. CASE i \in 1..Len(writes[t]) /\ writes'[t][i] = writes[t][i]
    <3>1. CASE confirmed # None
      BY <1>1, <1>4, <2>2, <3>1, OpenWrites DEF PublicationInv
    <3>2. CASE confirmed = None
      <4>1. EnsureSlot
        BY <1>4, <3>2, SlotStays
      <4>2. writes[t] = <<>>
        BY <1>1, <1>4, <3>2, <4>1, OpenWrites DEF EnsureSlot
      <4> QED
        BY <2>2, <4>2, EmptySeq
    <3> QED
      BY <3>1, <3>2
  <2> QED
    BY <1>1, <1>4, <2>1, <2>2, OpenWrites
<1>5. ASSUME NEW i \in 1..Len(log') PROVE Decodable(log[i])'
  <2>1. publication # None /\ publication' = publication
    <3>1. confirmed # None => publication # None
      BY DEF PublicationInv
    <3>2. i \in 1..Len(log) => publication # None
      BY DEF PublicationInv, EverythingDecodable, Decodable
    <3> QED
      BY <1>1, <1>5, <3>1, <3>2, NewEntries, PublicationStays
  <2>2. CASE i \in 1..Len(log) /\ log'[i] = log[i]
    BY <2>1, <2>2 DEF PublicationInv, EverythingDecodable, Decodable
  <2>3. CASE log'[i].lsn = wal + 1
    BY <1>1, <2>1, <2>3 DEF Decodable
  <2>4. ASSUME confirmed # None, NEW t \in Txns, txn[t] = "open",
               NEW k \in 1..Len(writes[t]), log'[i].lsn = writes[t][k].lsn
        PROVE  Decodable(log[i])'
    BY <2>1, <2>4 DEF PublicationInv, Decodable
  <2> QED
    BY <1>1, <1>5, <2>2, <2>3, <2>4, NewEntries
<1>6. confirmed' # None =>
        \A t \in Txns : txn'[t] = "open" =>
          \A i \in 1..Len(writes'[t]) : publication' <= writes'[t][i].lsn
  BY <1>3, <1>4
<1>7. EverythingDecodable'
  BY <1>5 DEF EverythingDecodable
<1> QED
  BY <1>2, <1>3, <1>6, <1>7 DEF PublicationInv

\* A supervisor started before migration 0009 waits for it, and then meets
\* nothing it cannot decode: no change older than the publication is ever sent.
THEOREM NeverStuckOnOldChange == Spec => []EverythingDecodable
<1>1. Init => PublicationInv
  <2>1. SUFFICES ASSUME Init PROVE PublicationInv
    OBVIOUS
  <2>2. 1..Len(log) = {}
    BY <2>1, EmptySeq DEF Init
  <2>3. confirmed = None /\ pc = "probe"
    BY <2>1 DEF Init
  <2> QED
    BY <2>2, <2>3 DEF PublicationInv, EverythingDecodable
<1>2. IInv /\ PublicationInv /\ [Next]_vars => PublicationInv'
  BY PublicationStep
<1>3. Spec => []PublicationInv
  BY <1>1, <1>2, Inductive, PTL DEF Spec
<1>4. PublicationInv => EverythingDecodable
  BY DEF PublicationInv
<1> QED
  BY <1>3, <1>4, PTL

-----------------------------------------------------------------------------
\* The consumer implements the at-least-once stream: every step of either is
\* one of ChangeStream or leaves its variables alone.
THEOREM Refinement == Spec => ImplementsStream
<1>1. Init => AtLeastOnce!Init
  BY DEF Init, AtLeastOnce!Init
<1>2. ASSUME IInv, [Next]_vars PROVE [AtLeastOnce!Next]_(AtLeastOnce!stream)
  <2> USE DEF AtLeastOnce!Next, AtLeastOnce!stream
  <2>1. ASSUME NEW t \in Txns, Commit(t) PROVE AtLeastOnce!Extend
    <3>1. TypeOK
      BY <1>2 DEF IInv
    <3> QED
      BY <2>1, <3>1, CommitEntries DEF Commit, process, redis, AtLeastOnce!Extend
  <2>2. CASE StartReplication
    <3>1. AtLeastOnce!FallBack
      BY <1>2, <2>2, StartsBehind DEF StartReplication, primary, redis, AtLeastOnce!FallBack
    <3> QED
      BY <3>1
  <2>3. CASE Receive
    <3>1. next <= Len(log)
      BY <2>3 DEF Receive, Reading
    <3>2. AtLeastOnce!Advance
      BY <2>3, <3>1 DEF Receive, primary, redis, Publish, AtLeastOnce!Advance, AtLeastOnce!Publish
    <3> QED
      BY <3>2
  <2>4. CASE PublishFails
    <3>1. next <= Len(log) /\ log[next].change # None /\ UNCHANGED <<log, next>>
      BY <2>4 DEF PublishFails, Reading, primary
    <3>2. UNCHANGED redis \/ AtLeastOnce!PublishUnnoticed
      BY <2>4, <3>1 DEF PublishFails, Publish, AtLeastOnce!PublishUnnoticed, AtLeastOnce!Publish
    <3> QED
      BY <3>1, <3>2 DEF redis
  <2>5. CASE UNCHANGED <<log, next, published, shown>>
    BY <2>5
  <2> QED
    BY <1>2, <2>1, <2>2, <2>3, <2>4, <2>5, QuietSteps
<1> QED
  BY <1>1, <1>2, Inductive, PTL DEF Spec, ImplementsStream, AtLeastOnce!Spec
=============================================================================
