-------------------------- MODULE Dashboard_proofs --------------------------
(***************************************************************************)
(* Proofs about Dashboard for any rows, changes and replays.  What the      *)
(* consumer publishes has no holes: whatever message is on its way, all     *)
(* newer changes are still behind it (NoHoleInv).  So a version a store was *)
(* promised either has been reached by what the store shows, or is still to *)
(* come (CoveredInv) - and a replay of an older one brings it again.  An    *)
(* anomaly only its seed told of stays as the seed had it, unless a replay  *)
(* brings all that follow (SeededInv).                                      *)
(***************************************************************************)
EXTENDS Dashboard, TLAPS

Change == [row : Rows, version : Nat]

Entry == [change : Change, detected_at : Times \cup {None}]

\* The stream carries the log, one version per change.
StreamInv ==
  /\ log \in Seq(Entry)
  /\ \A n \in 1..Len(log) : log[n].change.version = n
  /\ inbox \in Seq(Change)
  /\ \A p \in published : p \in Change /\ p.version \in 1..Len(log) /\ p = log[p.version].change

\* Newest finds something to choose.
MaxInv ==
  \A r \in Rows, n \in 0..Len(log) :
    Versions(r, n) = {} \/ \E k \in Versions(r, n) : \A j \in Versions(r, n) : j <= k

\* A store shows versions of the row itself, and all the rows of its seed.
StoreInv ==
  /\ \A r \in Rows :
       \/ store[r] = None
       \/ r \in Zones /\ store[r] = 0
       \/ store[r] \in Versions(r, Len(log))
  /\ \A t \in Tables : seed[t] = "applied" =>
       \A r \in RowsOf(t) : Newest(r, read[t]) # None => store[r] # None

\* Nothing arrives before the socket is open, and nothing after it is closed.
SocketInv ==
  /\ socket \in {"connecting", "closed"} => inbox = <<>>
  /\ socket = "connecting" =>
       \A t \in Tables : seed[t] = "applied" =>
         \A r \in RowsOf(t) : store[r] \in SeedVersions(r, read[t])

ToCome(k) == k >= next \/ \E j \in DOMAIN inbox : inbox[j].version = k

\* Behind every message come all newer versions.
NoHoleInv ==
  socket = "open" =>
    \A i \in DOMAIN inbox : \A k \in 1..Len(log) : inbox[i].version < k =>
      k >= next \/ \E j \in DOMAIN inbox : i < j /\ inbox[j].version = k

\* The versions row r of table t was promised: after its seed, or in it if the
\* seed has the last one written.
Promised(t, r, k) == passed[t] < k \/ (r \notin Anomalies /\ k <= read[t])

Reached(r, k) == store[r] # None /\ store[r] >= k

CoveredInv ==
  socket = "open" =>
    \A t \in Tables : seed[t] = "applied" =>
      \A r \in RowsOf(t) : \A k \in Versions(r, Len(log)) :
        Promised(t, r, k) /\ (r \in Anomalies \/ store[r] # None) => ToCome(k) \/ Reached(r, k)

\* An anomaly is as its seed had it, or all its versions have been reached or
\* are still to come.
SeededInv ==
  socket = "open" =>
    \A t \in Tables : seed[t] = "applied" =>
      \A r \in RowsOf(t) : r \in Anomalies =>
        \/ store[r] \in SeedVersions(r, read[t])
        \/ \A k \in Versions(r, Len(log)) : ToCome(k) \/ Reached(r, k)

\* The inductive invariant.
IInv ==
  /\ Shape /\ StreamInv /\ MaxInv /\ StoreInv /\ SocketInv
  /\ NoHoleInv /\ CoveredInv /\ SeededInv

-----------------------------------------------------------------------------
\* The tables partition the rows.

LEMMA TableFacts ==
  /\ \A t \in Tables : RowsOf(t) \subseteq Rows
  /\ \A r \in Rows : TableOf(r) \in Tables /\ r \in RowsOf(TableOf(r))
  /\ \A t, u \in Tables : \A r \in RowsOf(t) : r \in RowsOf(u) => t = u
<1>1. \A t \in Tables : RowsOf(t) \subseteq Rows
  BY DEF Tables, RowsOf, Rows
<1>2. ASSUME NEW r \in Rows PROVE \E t \in Tables : r \in RowsOf(t)
  <2>1. CASE r \in Vehicles
    <3>1. RowsOf("vehicles") = Vehicles
      BY DEF RowsOf
    <3> QED
      BY <2>1, <3>1 DEF Tables
  <2>2. CASE r \in Anomalies
    <3>1. RowsOf("anomalies") = Anomalies
      BY DEF RowsOf
    <3> QED
      BY <2>2, <3>1 DEF Tables
  <2>3. CASE r \in Zones
    <3>1. RowsOf("zones") = Zones
      BY DEF RowsOf
    <3> QED
      BY <2>3, <3>1 DEF Tables
  <2> QED
    BY <2>1, <2>2, <2>3 DEF Rows
<1>3. \A t, u \in Tables : \A r \in RowsOf(t) : r \in RowsOf(u) => t = u
  BY DashboardAssumption
<1> QED
  BY <1>1, <1>2, <1>3 DEF TableOf

-----------------------------------------------------------------------------
\* Newest.

LEMMA VersionsType ==
  ASSUME NEW r, NEW n \in Nat
  PROVE  Versions(r, n) \subseteq 1..n
  BY DEF Versions

\* What Newest returns when its rows are there to choose from.
LEMMA NewestIs ==
  ASSUME MaxInv, NEW r \in Rows, NEW n \in 0..Len(log)
  PROVE  /\ Versions(r, n) # {} => /\ Newest(r, n) \in Versions(r, n)
                                   /\ \A j \in Versions(r, n) : j <= Newest(r, n)
         /\ Versions(r, n) = {} => Newest(r, n) = IF r \in Zones THEN 0 ELSE None
  BY DEF MaxInv, Newest

LEMMA NewestType ==
  ASSUME MaxInv, log \in Seq(Entry), NEW r \in Rows, NEW n \in 0..Len(log)
  PROVE  Newest(r, n) \in 0..n \cup {None}
<1>1. n \in Nat
  OBVIOUS
<1>2. CASE Versions(r, n) # {}
  BY <1>1, <1>2, NewestIs, VersionsType
<1>3. CASE Versions(r, n) = {}
  BY <1>1, <1>3, NewestIs
<1> QED
  BY <1>2, <1>3

\* What a seed may show: a version of the row that is in it, or what stands for
\* none.
LEMMA SeedVersionsAre ==
  ASSUME MaxInv, NEW r \in Rows, NEW n \in 0..Len(log)
  PROVE  /\ Versions(r, n) # {} => SeedVersions(r, n) \subseteq Versions(r, n)
         /\ Versions(r, n) = {} => SeedVersions(r, n) = {IF r \in Zones THEN 0 ELSE None}
         /\ r \notin Anomalies => SeedVersions(r, n) = {Newest(r, n)}
         /\ r \in Anomalies /\ Versions(r, n) # {} => SeedVersions(r, n) = Latest(r, n)
  BY NewestIs DEF SeedVersions, Latest

\* A longer log has the same versions up to where it was.
LEMMA VersionsGrow ==
  ASSUME log \in Seq(Entry), NEW c \in Rows, Commit(c)
  PROVE  /\ log' \in Seq(Entry) /\ Len(log') = Len(log) + 1 /\ Len(log) \in Nat
         /\ \A n \in 1..Len(log) : log'[n] = log[n]
         /\ log'[Len(log) + 1].change = [row |-> c, version |-> Len(log) + 1]
         /\ \A r, n : n \in 0..Len(log) =>
              /\ Versions(r, n)' = Versions(r, n) /\ Newest(r, n)' = Newest(r, n)
              /\ SeedVersions(r, n)' = SeedVersions(r, n)
         /\ \A r, n : n = Len(log) + 1 =>
              Versions(r, n)' = Versions(r, Len(log)) \cup (IF r = c THEN {n} ELSE {})
<1>0. PICK at \in Times \cup {None} :
        log' = Append(log, [change |-> [row |-> c, version |-> Len(log) + 1], detected_at |-> at])
  BY DEF Commit
<1> DEFINE new == [change |-> [row |-> c, version |-> Len(log) + 1], detected_at |-> at]
<1>1. new \in Entry
  BY DEF Change, Entry
<1>2. /\ log' \in Seq(Entry) /\ Len(log') = Len(log) + 1 /\ Len(log) \in Nat
      /\ \A n \in 1..Len(log) : log'[n] = log[n]
      /\ log'[Len(log) + 1] = new
  BY <1>0, <1>1
<1>3. ASSUME NEW r, NEW n \in 0..Len(log) PROVE Versions(r, n)' = Versions(r, n)
  BY <1>2, <1>3 DEF Versions
<1>4. ASSUME NEW r, NEW n \in 0..Len(log) PROVE Newest(r, n)' = Newest(r, n)
  <2>1. Versions(r, n)' = Versions(r, n)
    BY <1>3
  <2> QED
    BY <2>1 DEF Newest
<1>5. ASSUME NEW r, NEW n \in 0..Len(log) PROVE SeedVersions(r, n)' = SeedVersions(r, n)
  <2>1. Versions(r, n)' = Versions(r, n) /\ Newest(r, n)' = Newest(r, n)
    BY <1>3, <1>4
  <2>2. \A k \in Versions(r, n) : log'[k] = log[k]
    BY <1>2 DEF Versions
  <2>3. Latest(r, n)' = Latest(r, n)
    BY <2>1, <2>2 DEF Latest
  <2> QED
    BY <2>1, <2>3 DEF SeedVersions
<1>6. ASSUME NEW r, NEW n, n = Len(log) + 1
      PROVE  Versions(r, n)' = Versions(r, Len(log)) \cup (IF r = c THEN {n} ELSE {})
  BY <1>2, <1>6 DEF Versions
<1> QED
  BY <1>2, <1>3, <1>4, <1>5, <1>6

-----------------------------------------------------------------------------
\* What the actions of the stream do.

LEMMA ElementType ==
  ASSUME NEW S, NEW s \in Seq(S), NEW n \in 1..Len(s)
  PROVE  s[n] \in S
  OBVIOUS

LEMMA TailFacts ==
  ASSUME StreamInv, inbox # <<>>
  PROVE  /\ Tail(inbox) \in Seq(Change)
         /\ \A i \in DOMAIN Tail(inbox) : i + 1 \in DOMAIN inbox /\ Tail(inbox)[i] = inbox[i + 1]
         /\ \A i \in DOMAIN inbox : i # 1 =>
              i - 1 \in DOMAIN Tail(inbox) /\ Tail(inbox)[i - 1] = inbox[i]
  BY DEF StreamInv

LEMMA AppendFacts ==
  ASSUME StreamInv, NEW p \in Change
  PROVE  /\ Append(inbox, p) \in Seq(Change)
         /\ DOMAIN Append(inbox, p) = DOMAIN inbox \cup {Len(inbox) + 1}
         /\ DOMAIN inbox = 1..Len(inbox) /\ Len(inbox) \in Nat
         /\ \A i \in DOMAIN inbox : Append(inbox, p)[i] = inbox[i]
         /\ Append(inbox, p)[Len(inbox) + 1] = p
  BY DEF StreamInv

LEMMA NextCases ==
  ASSUME Next
  PROVE  \/ \E r \in Rows : Commit(r)
         \/ Announce \/ FallBack \/ Open \/ Close \/ HandlePatch
         \/ \E t \in Tables : Answer(t) \/ ApplySeed(t) \/ FailSeed(t)
  BY DEF Next

LEMMA AnnounceFacts ==
  ASSUME Shape, StreamInv, Announce
  PROVE  /\ next \in 1..Len(log) /\ next' \in {next, next + 1}
         /\ log[next].change \in Change /\ log[next].change.version = next
         /\ published' = published \cup {log[next].change}
         /\ falls' \in 0..MaxFalls
         /\ \/ /\ socket \in {"open", "gapped"} /\ socket' = socket
               /\ inbox' = Append(inbox, log[next].change)
            \/ socket' = (IF socket = "open" THEN "gapped" ELSE socket) /\ inbox' = inbox
         /\ UNCHANGED <<log, store, seeds>>
<1>1. next \in 1..Len(log) /\ log' = log /\ next' \in {next, next + 1}
  BY DEF Announce, Shape, StreamInv, Stream!Advance, Stream!PublishUnnoticed
<1>2. log[next].change \in Change /\ log[next].change.version = next
  <2>1. log \in Seq(Entry)
    BY DEF StreamInv
  <2>2. log[next].change.version = next
    BY <1>1 DEF StreamInv
  <2>3. log[next] \in Entry
    BY <1>1, <2>1, ElementType
  <2> QED
    BY <2>2, <2>3 DEF Entry
<1>3. log[next].change # None
  BY <1>2, DashboardAssumption DEF Change
<1>4. published' = published \cup {log[next].change}
  BY <1>3 DEF Announce, Stream!Advance, Stream!PublishUnnoticed, Stream!Publish
<1>5. falls' \in 0..MaxFalls
  BY DashboardAssumption DEF Announce, Shape
<1> QED
  BY <1>1, <1>2, <1>4, <1>5 DEF Announce

\* A message of a non-empty inbox has its place in the log.
LEMMA InboxFacts ==
  ASSUME Shape, StreamInv
  PROVE  \A i \in DOMAIN inbox :
           /\ inbox[i] \in Change /\ inbox[i].version \in 1..Len(log)
           /\ inbox[i] = log[inbox[i].version].change
  BY DEF Shape, StreamInv

LEMMA HeadFacts ==
  ASSUME Shape, StreamInv, inbox # <<>>
  PROVE  /\ Head(inbox) = inbox[1] /\ 1 \in DOMAIN inbox
         /\ Head(inbox).row \in Rows /\ Head(inbox).version \in 1..Len(log)
         /\ Head(inbox).version \in Versions(Head(inbox).row, Len(log))
<1>1. Head(inbox) = inbox[1] /\ 1 \in DOMAIN inbox
  BY DEF StreamInv
<1>2. inbox[1].row \in Rows
  BY <1>1, InboxFacts DEF Change
<1> QED
  BY <1>1, <1>2, InboxFacts DEF Versions

\* The stores after a patch.
LEMMA HandleFacts ==
  ASSUME Shape, StreamInv, HandlePatch
  PROVE  /\ inbox # <<>> /\ inbox' = Tail(inbox)
         /\ \A r \in Rows :
              IF r = Head(inbox).row /\ (store[r] # None \/ r \in Anomalies)
              THEN store'[r] = Head(inbox).version ELSE store'[r] = store[r]
         /\ store' \in [Rows -> 0..Len(log) \cup {None}]
         /\ UNCHANGED <<stream, falls, socket, seeds>>
<1>1. inbox # <<>>
  BY DEF HandlePatch
<1>2. Head(inbox).row \in Rows /\ Head(inbox).version \in 0..Len(log)
  BY <1>1, HeadFacts
<1> QED
  BY <1>1, <1>2 DEF HandlePatch, Shape

-----------------------------------------------------------------------------
LEMMA InitInv == Init => IInv
<1> SUFFICES ASSUME Init PROVE IInv
  OBVIOUS
<1> USE DashboardAssumption DEF Init, Stream!Init
<1>1. Shape
  BY DEF Shape
<1>2. StreamInv
  BY DEF StreamInv
<1>3. \A r : Versions(r, 0) = {}
  BY DEF Versions
<1>4. MaxInv
  BY <1>3 DEF MaxInv
<1>5. StoreInv /\ SocketInv /\ NoHoleInv /\ CoveredInv /\ SeededInv
  BY DEF StoreInv, SocketInv, NoHoleInv, CoveredInv, SeededInv
<1> QED
  BY <1>1, <1>2, <1>4, <1>5 DEF IInv

-----------------------------------------------------------------------------
LEMMA TypeStep ==
  ASSUME IInv, [Next]_vars
  PROVE  Shape'
<1> USE DashboardAssumption DEF IInv
<1>1. ASSUME NEW r \in Rows, Commit(r) PROVE Shape'
  <2>1. /\ Len(log') = Len(log) + 1 /\ \A n \in 1..Len(log) : log'[n] = log[n]
        /\ log'[Len(log) + 1].change = [row |-> r, version |-> Len(log) + 1]
    BY <1>1, VersionsGrow DEF StreamInv
  <2>2. UNCHANGED <<next, published, falls, socket, inbox, store, seed, read, passed>>
    BY <1>1 DEF Commit, seeds
  <2>3. Len(log) \in Nat /\ Len(log') <= MaxVersions
    BY <1>1, <2>1 DEF Commit, StreamInv
  <2>4. \A n \in DOMAIN log' : /\ log'[n].change \in [row : Rows, version : {n}]
                              /\ log'[n].detected_at \in Times \cup {None}
    <3>1. log \in Seq(Entry) /\ log' \in Seq(Entry)
      BY <1>1, VersionsGrow DEF StreamInv
    <3>2. DOMAIN log' = 1..(Len(log) + 1) /\ DOMAIN log = 1..Len(log)
      BY <2>1, <3>1
    <3>3. \A n \in DOMAIN log' : log'[n] \in Entry
      BY <3>1
    <3>4. \A n \in 1..Len(log) : log'[n].change \in [row : Rows, version : {n}]
      BY <2>1, <3>2 DEF Shape
    <3>5. log'[Len(log) + 1].change \in [row : Rows, version : {Len(log) + 1}]
      BY <2>1
    <3> QED
      BY <2>3, <3>2, <3>3, <3>4, <3>5 DEF Entry
  <2> QED
    BY <2>1, <2>2, <2>3, <2>4 DEF Shape
<1>2. CASE Announce
  <2>1. next' \in 1..(Len(log) + 1)
    BY <1>2, AnnounceFacts
  <2>2. \A i \in DOMAIN inbox' : inbox'[i] \in published'
    <3>1. CASE inbox' = inbox
      BY <1>2, <3>1, AnnounceFacts DEF Shape
    <3>2. CASE inbox' = Append(inbox, log[next].change)
      BY <1>2, <3>2, AnnounceFacts, AppendFacts DEF Shape
    <3> QED
      BY <1>2, <3>1, <3>2, AnnounceFacts
  <2> QED
    BY <1>2, <2>1, <2>2, AnnounceFacts DEF Shape, seeds
<1>3. CASE FallBack
  BY <1>3 DEF FallBack, Stream!FallBack, Shape, seeds
<1>4. CASE Open
  BY <1>4 DEF Open, Shape, stream
<1>5. CASE Close
  BY <1>5 DEF Close, Shape, stream, seeds
<1>6. CASE HandlePatch
  <2>1. \A i \in DOMAIN inbox' : inbox'[i] \in published
    <3>1. inbox # <<>> /\ inbox' = Tail(inbox)
      BY <1>6 DEF HandlePatch
    <3> QED
      BY <3>1, TailFacts DEF Shape
  <2> QED
    BY <1>6, <2>1, HandleFacts DEF Shape, stream, seeds
<1>7. ASSUME NEW t \in Tables, Answer(t) PROVE Shape'
  BY <1>7 DEF Answer, Shape, stream
<1>8. ASSUME NEW t \in Tables, ApplySeed(t) PROVE Shape'
  <2>1. Len(log) \in Nat /\ read[t] \in 0..Len(log)
    BY DEF StreamInv, Shape
  <2>3. store' \in [Rows -> 0..Len(log) \cup {None}]
    BY <1>8 DEF ApplySeed
  <2>4. inbox # <<>> => Head(inbox).version - 1 \in 0..Len(log)
    BY <2>1, HeadFacts
  <2>5. passed' \in [Tables -> 0..Len(log)]
    BY <1>8, <2>1, <2>4 DEF ApplySeed, Shape
  <2> QED
    BY <1>8, <2>3, <2>5 DEF ApplySeed, Shape, stream
<1>9. ASSUME NEW t \in Tables, FailSeed(t) PROVE Shape'
  BY <1>9 DEF FailSeed, Shape, stream
<1>10. CASE UNCHANGED vars
  BY <1>10 DEF vars, stream, seeds, Shape
<1> QED
  BY <1>1, <1>2, <1>3, <1>4, <1>5, <1>6, <1>7, <1>8, <1>9, <1>10, NextCases

LEMMA StreamStep ==
  ASSUME IInv, [Next]_vars
  PROVE  StreamInv'
<1> USE DEF IInv
<1>1. ASSUME NEW r \in Rows, Commit(r) PROVE StreamInv'
  <2>1. /\ log' \in Seq(Entry) /\ Len(log') = Len(log) + 1
        /\ \A n \in 1..Len(log) : log'[n] = log[n]
        /\ log'[Len(log) + 1].change = [row |-> r, version |-> Len(log) + 1]
    BY <1>1, VersionsGrow DEF StreamInv
  <2>2. \A n \in 1..Len(log') : log'[n].change.version = n
    BY <2>1 DEF StreamInv
  <2>3. UNCHANGED <<published, inbox>>
    BY <1>1 DEF Commit
  <2> QED
    BY <2>1, <2>2, <2>3 DEF StreamInv
<1>2. CASE Announce
  <2>1. inbox' \in Seq(Change)
    BY <1>2, AnnounceFacts, AppendFacts DEF StreamInv
  <2>2. \A p \in published' : p \in Change /\ p.version \in 1..Len(log) /\ p = log[p.version].change
    BY <1>2, AnnounceFacts DEF StreamInv
  <2> QED
    BY <1>2, <2>1, <2>2, AnnounceFacts DEF StreamInv
<1>3. CASE FallBack
  BY <1>3 DEF FallBack, Stream!FallBack, StreamInv
<1>4. CASE Open
  BY <1>4 DEF Open, StreamInv, stream
<1>5. CASE Close
  BY <1>5 DEF Close, StreamInv, stream
<1>6. CASE HandlePatch
  BY <1>6, HandleFacts, TailFacts DEF StreamInv, stream
<1>7. ASSUME NEW t \in Tables, Answer(t) \/ ApplySeed(t) \/ FailSeed(t) PROVE StreamInv'
  BY <1>7 DEF Answer, ApplySeed, FailSeed, StreamInv, stream
<1>8. CASE UNCHANGED vars
  BY <1>8 DEF vars, stream, StreamInv
<1> QED
  BY <1>1, <1>2, <1>3, <1>4, <1>5, <1>6, <1>7, <1>8, NextCases

\* Only a commit changes the log.
LEMMA LogStep ==
  ASSUME IInv, [Next]_vars
  PROVE  log' = log \/ \E r \in Rows : Commit(r)
<1>1. Announce => log' = log
  BY AnnounceFacts DEF IInv
<1> QED
  BY <1>1, NextCases DEF FallBack, Stream!FallBack, Open, Close, HandlePatch, Answer,
     ApplySeed, FailSeed, vars, stream

LEMMA SameLog ==
  ASSUME log' = log
  PROVE  \A r, n : /\ Versions(r, n)' = Versions(r, n) /\ Newest(r, n)' = Newest(r, n)
                   /\ SeedVersions(r, n)' = SeedVersions(r, n)
<1>1. ASSUME NEW r, NEW n PROVE Versions(r, n)' = Versions(r, n)
  BY DEF Versions
<1>2. ASSUME NEW r, NEW n PROVE Newest(r, n)' = Newest(r, n)
  <2>1. Versions(r, n)' = Versions(r, n)
    BY <1>1
  <2> QED
    BY <2>1 DEF Newest
<1>3. ASSUME NEW r, NEW n PROVE SeedVersions(r, n)' = SeedVersions(r, n)
  <2>1. Versions(r, n)' = Versions(r, n) /\ Newest(r, n)' = Newest(r, n)
    BY <1>1, <1>2
  <2>2. Latest(r, n)' = Latest(r, n)
    BY <2>1 DEF Latest
  <2> QED
    BY <2>1, <2>2 DEF SeedVersions
<1> QED
  BY <1>1, <1>2, <1>3

LEMMA MaxStep ==
  ASSUME IInv, [Next]_vars
  PROVE  MaxInv'
<1> USE DEF IInv
<1>1. CASE log' = log
  BY <1>1, SameLog DEF MaxInv
<1>2. ASSUME NEW c \in Rows, Commit(c) PROVE MaxInv'
  <2> SUFFICES ASSUME NEW r \in Rows, NEW n \in 0..Len(log')
               PROVE  \/ Versions(r, n)' = {}
                      \/ \E k \in Versions(r, n)' : \A j \in Versions(r, n)' : j <= k
    BY DEF MaxInv
  <2>1. log \in Seq(Entry)
    BY DEF StreamInv
  <2>2. Len(log) \in Nat /\ Len(log') = Len(log) + 1
    BY <1>2, <2>1, VersionsGrow
  <2>3. CASE n \in 0..Len(log)
    <3>1. Versions(r, n)' = Versions(r, n)
      BY <1>2, <2>1, <2>3, VersionsGrow
    <3> QED
      BY <2>3, <3>1 DEF MaxInv
  <2>4. CASE n = Len(log) + 1
    <3>1. Versions(r, n)' = Versions(r, Len(log)) \cup (IF r = c THEN {n} ELSE {})
      BY <1>2, <2>1, <2>4, VersionsGrow
    <3>2. Versions(r, Len(log)) \subseteq 1..Len(log)
      BY <2>2, VersionsType
    <3>3. \/ Versions(r, Len(log)) = {}
          \/ \E k \in Versions(r, Len(log)) : \A j \in Versions(r, Len(log)) : j <= k
      BY <2>2 DEF MaxInv
    <3>4. CASE r = c
      <4>1. n \in Versions(r, n)' /\ \A j \in Versions(r, n)' : j <= n
        BY <2>2, <2>4, <3>1, <3>2, <3>4
      <4> QED
        BY <4>1
    <3> QED
      BY <3>1, <3>3, <3>4
  <2> QED
    BY <2>2, <2>3, <2>4
<1> QED
  BY <1>1, <1>2, LogStep

-----------------------------------------------------------------------------
\* What a step may do to the stores and to the seeds.

LEMMA SeedFacts ==
  ASSUME Shape, StreamInv, MaxInv, NEW t \in Tables, ApplySeed(t)
  PROVE  /\ \A r \in RowsOf(t) : store'[r] \in SeedVersions(r, read[t])
         /\ \A r \in Rows : r \notin RowsOf(t) => store'[r] = store[r]
         /\ \A r \in RowsOf(t) : r \notin Anomalies =>
              \A k \in Versions(r, Len(log)) : k <= read[t] => store'[r] # None /\ store'[r] >= k
         /\ \A r \in RowsOf(t) :
              /\ \/ store'[r] = None
                 \/ r \in Zones /\ store'[r] = 0
                 \/ store'[r] \in Versions(r, Len(log))
              /\ Newest(r, read[t]) # None => store'[r] # None
         /\ seed' = [seed EXCEPT ![t] = "applied"]
         /\ UNCHANGED <<stream, falls, socket, inbox, read>>
<1>1. Len(log) \in Nat /\ read[t] \in 0..Len(log) /\ RowsOf(t) \subseteq Rows
  BY TableFacts DEF StreamInv, Shape
<1>2. /\ \A r \in RowsOf(t) : store'[r] \in SeedVersions(r, read[t])
      /\ \A r \in Rows : r \notin RowsOf(t) => store'[r] = store[r]
  BY <1>1 DEF ApplySeed
<1>3. ASSUME NEW r \in RowsOf(t), r \notin Anomalies,
             NEW k \in Versions(r, Len(log)), k <= read[t]
      PROVE  store'[r] # None /\ store'[r] >= k
  <2>1. k \in Versions(r, read[t])
    BY <1>1, <1>3 DEF Versions
  <2>2. Newest(r, read[t]) \in Versions(r, read[t]) /\ k <= Newest(r, read[t])
    BY <1>1, <2>1, NewestIs
  <2>3. Newest(r, read[t]) \in Nat /\ k \in Nat
    BY <1>1, <2>1, <2>2, VersionsType
  <2>4. store'[r] = Newest(r, read[t])
    BY <1>1, <1>2, <1>3, SeedVersionsAre
  <2> QED
    BY <2>2, <2>3, <2>4, DashboardAssumption
<1>4. ASSUME NEW r \in RowsOf(t)
      PROVE  /\ \/ store'[r] = None
                \/ r \in Zones /\ store'[r] = 0
                \/ store'[r] \in Versions(r, Len(log))
             /\ Newest(r, read[t]) # None => store'[r] # None
  <2>1. store'[r] \in SeedVersions(r, read[t])
    BY <1>2
  <2>2. CASE Versions(r, read[t]) = {}
    <3>1. SeedVersions(r, read[t]) = {IF r \in Zones THEN 0 ELSE None}
      BY <1>1, <2>2, SeedVersionsAre
    <3>2. Newest(r, read[t]) = IF r \in Zones THEN 0 ELSE None
      BY <1>1, <2>2, NewestIs
    <3> QED
      BY <2>1, <3>1, <3>2
  <2>3. CASE Versions(r, read[t]) # {}
    <3>1. store'[r] \in Versions(r, read[t])
      BY <1>1, <2>1, <2>3, SeedVersionsAre
    <3>2. store'[r] \in Versions(r, Len(log)) /\ store'[r] \in Nat
      BY <1>1, <3>1 DEF Versions
    <3> QED
      BY <3>2, DashboardAssumption
  <2> QED
    BY <2>2, <2>3
<1> QED
  BY <1>2, <1>3, <1>4 DEF ApplySeed, Shape

\* Every other step leaves the seeds that are applied as they are.
LEMMA SeedsKept ==
  ASSUME Shape, StreamInv, Next, \A t \in Tables : ~ApplySeed(t)
  PROVE  /\ \A t \in Tables : seed'[t] = "applied" => seed[t] = "applied" /\ read'[t] = read[t]
         /\ Open \/ passed' = passed
<1>1. Announce => UNCHANGED seeds
  BY AnnounceFacts
<1>2. ASSUME NEW t \in Tables, Answer(t)
      PROVE  /\ \A u \in Tables : seed'[u] = "applied" => seed[u] = "applied" /\ read'[u] = read[u]
             /\ passed' = passed
  BY <1>2 DEF Answer, Shape
<1>3. ASSUME NEW t \in Tables, FailSeed(t)
      PROVE  /\ \A u \in Tables : seed'[u] = "applied" => seed[u] = "applied" /\ read'[u] = read[u]
             /\ passed' = passed
  BY <1>3 DEF FailSeed, Shape
<1> QED
  BY <1>1, <1>2, <1>3, NextCases DEF Commit, FallBack, Open, Close, HandlePatch, seeds

\* The stores change when a patch is handled or a seed applied.
LEMMA StoresKept ==
  ASSUME Shape, StreamInv, Next, ~HandlePatch, \A t \in Tables : ~ApplySeed(t)
  PROVE  store' = store
<1>1. Announce => store' = store
  BY AnnounceFacts
<1> QED
  BY <1>1, NextCases DEF Commit, FallBack, Open, Close, Answer, FailSeed

\* The versions of a row that the log has after a step.
LEMMA VersionsStep ==
  ASSUME IInv, [Next]_vars, NEW r
  PROVE  /\ \A m : m = Len(log') => Versions(r, Len(log)) \subseteq Versions(r, m)'
         /\ \A m : m = Len(log') =>
              \A k \in Versions(r, m)' : k \in Versions(r, Len(log)) \/ k >= next'
         /\ \A n \in 0..Len(log) : /\ Newest(r, n)' = Newest(r, n)
                                   /\ SeedVersions(r, n)' = SeedVersions(r, n)
<1> USE DEF IInv
<1>1. CASE log' = log
  <2>1. \A n : /\ Versions(r, n)' = Versions(r, n) /\ Newest(r, n)' = Newest(r, n)
               /\ SeedVersions(r, n)' = SeedVersions(r, n)
    BY <1>1, SameLog
  <2> QED
    BY <1>1, <2>1
<1>2. ASSUME NEW c \in Rows, Commit(c)
      PROVE  /\ \A m : m = Len(log') => Versions(r, Len(log)) \subseteq Versions(r, m)'
             /\ \A m : m = Len(log') =>
                  \A k \in Versions(r, m)' : k \in Versions(r, Len(log)) \/ k >= next'
             /\ \A n \in 0..Len(log) : /\ Newest(r, n)' = Newest(r, n)
                                       /\ SeedVersions(r, n)' = SeedVersions(r, n)
  <2>1. log \in Seq(Entry)
    BY DEF StreamInv
  <2>2. /\ Len(log) \in Nat /\ Len(log') = Len(log) + 1
        /\ \A n \in 0..Len(log) : /\ Newest(r, n)' = Newest(r, n)
                                  /\ SeedVersions(r, n)' = SeedVersions(r, n)
    BY <1>2, <2>1, VersionsGrow
  <2>3. ASSUME NEW m, m = Len(log) + 1
        PROVE  Versions(r, m)' = Versions(r, Len(log)) \cup (IF r = c THEN {m} ELSE {})
    BY <1>2, <2>1, <2>3, VersionsGrow
  <2>4. next' = next /\ next <= Len(log) + 1
    BY <1>2, <2>2 DEF Commit, Shape
  <2> QED
    BY <2>2, <2>3, <2>4
<1> QED
  BY <1>1, <1>2, LogStep

LEMMA StoreStep ==
  ASSUME IInv, [Next]_vars
  PROVE  StoreInv'
<1> USE DEF IInv
<1>0. PICK m : m = Len(log')
  OBVIOUS
<1>1. ASSUME NEW r \in Rows
      PROVE  \/ store'[r] = None
             \/ r \in Zones /\ store'[r] = 0
             \/ store'[r] \in Versions(r, m)'
  <2>1. Versions(r, Len(log)) \subseteq Versions(r, m)'
    BY <1>0, VersionsStep
  <2>2. CASE store' = store
    BY <2>1, <2>2 DEF StoreInv
  <2>3. CASE HandlePatch
    BY <2>1, <2>3, HandleFacts, HeadFacts DEF StoreInv
  <2>4. ASSUME NEW t \in Tables, ApplySeed(t)
        PROVE  \/ store'[r] = None
               \/ r \in Zones /\ store'[r] = 0
               \/ store'[r] \in Versions(r, m)'
    BY <2>1, <2>4, SeedFacts DEF StoreInv
  <2> QED
    BY <2>2, <2>3, <2>4, StoresKept DEF vars
<1>2. ASSUME NEW t \in Tables, seed'[t] = "applied", NEW r \in RowsOf(t),
             NEW n, n = read'[t], Newest(r, n)' # None
      PROVE  store'[r] # None
  <2>1. r \in Rows
    BY TableFacts
  <2>2. ASSUME NEW u \in Tables, ApplySeed(u) PROVE store'[r] # None
    <3>1. log' = log /\ n = read[t]
      BY <1>2, <2>2, SeedFacts DEF stream
    <3>2. Newest(r, n) # None
      BY <1>2, <3>1, SameLog
    <3>3. CASE u = t
      BY <2>1, <2>2, <3>1, <3>2, <3>3, SeedFacts
    <3>4. CASE u # t
      <4>1. seed[t] = "applied" /\ r \notin RowsOf(u)
        BY <1>2, <2>2, <3>4, SeedFacts, TableFacts DEF Shape
      <4>2. store'[r] = store[r]
        BY <2>1, <2>2, <4>1, SeedFacts
      <4> QED
        BY <3>1, <3>2, <4>1, <4>2 DEF StoreInv
    <3> QED
      BY <3>3, <3>4
  <2>3. CASE \A u \in Tables : ~ApplySeed(u)
    <3>1. seed[t] = "applied" /\ n = read[t]
      BY <1>2, <2>3, SeedsKept DEF vars, seeds
    <3>2. n \in 0..Len(log)
      BY <3>1 DEF Shape
    <3>3. Newest(r, n) # None
      BY <1>2, <3>2, VersionsStep
    <3>4. store[r] # None
      BY <3>1, <3>3 DEF StoreInv
    <3>5. CASE HandlePatch
      <4>1. Head(inbox).version \in Nat
        BY <3>5, HandleFacts, HeadFacts
      <4>2. Head(inbox).version # None
        BY <4>1, DashboardAssumption
      <4>3. store'[r] = Head(inbox).version \/ store'[r] = store[r]
        BY <2>1, <3>5, HandleFacts
      <4> QED
        BY <3>4, <4>2, <4>3
    <3>6. CASE ~HandlePatch
      BY <2>3, <3>4, <3>6, StoresKept DEF vars
    <3> QED
      BY <3>5, <3>6
  <2> QED
    BY <2>2, <2>3
<1> QED
  BY <1>0, <1>1, <1>2 DEF StoreInv

-----------------------------------------------------------------------------
LEMMA SocketStep ==
  ASSUME IInv, [Next]_vars
  PROVE  SocketInv'
<1> USE DEF IInv
<1>1. socket' = "connecting" => socket = "connecting"
  BY AnnounceFacts, HandleFacts, NextCases DEF Commit, FallBack, Open, Close, Answer,
     ApplySeed, FailSeed, vars
<1>2. ASSUME socket' \in {"connecting", "closed"} PROVE inbox' = <<>>
  <2>1. Announce => inbox' = <<>>
    BY <1>2, AnnounceFacts DEF SocketInv
  <2>2. ~HandlePatch
    BY <1>2, HandleFacts DEF SocketInv
  <2> QED
    BY <1>2, <2>1, <2>2, NextCases DEF SocketInv, Commit, FallBack, Open, Close, Answer,
       ApplySeed, FailSeed, vars
<1>3. ASSUME socket' = "connecting",
             NEW t \in Tables, seed'[t] = "applied", NEW r \in RowsOf(t),
             NEW n, n = read'[t]
      PROVE  store'[r] \in SeedVersions(r, n)'
  <2>1. r \in Rows /\ ~HandlePatch
    BY <1>1, <1>3, TableFacts, HandleFacts DEF SocketInv
  <2>2. ASSUME NEW u \in Tables, ApplySeed(u) PROVE store'[r] \in SeedVersions(r, n)'
    <3>1. n = read[t] /\ SeedVersions(r, n)' = SeedVersions(r, n)
      BY <1>3, <2>2, SeedFacts, SameLog DEF stream
    <3>2. CASE u = t
      BY <2>1, <2>2, <3>1, <3>2, SeedFacts
    <3>3. CASE u # t
      <4>1. seed[t] = "applied" /\ r \notin RowsOf(u)
        BY <1>3, <2>2, <3>3, SeedFacts, TableFacts DEF Shape
      <4>2. store'[r] = store[r]
        BY <2>1, <2>2, <4>1, SeedFacts
      <4> QED
        BY <1>1, <1>3, <3>1, <4>1, <4>2 DEF SocketInv
    <3> QED
      BY <3>2, <3>3
  <2>3. CASE \A u \in Tables : ~ApplySeed(u)
    <3>1. seed[t] = "applied" /\ n = read[t]
      BY <1>3, <2>3, SeedsKept DEF vars, seeds
    <3>2. n \in 0..Len(log)
      BY <3>1 DEF Shape
    <3>3. store' = store
      BY <2>1, <2>3, StoresKept DEF vars
    <3> QED
      BY <1>1, <1>3, <3>1, <3>2, <3>3, VersionsStep DEF SocketInv
  <2> QED
    BY <2>2, <2>3
<1> QED
  BY <1>2, <1>3 DEF SocketInv

-----------------------------------------------------------------------------
\* While the socket is open and nothing is handled, what is to come stays so.
LEMMA QuietFacts ==
  ASSUME IInv, [Next]_vars, socket = "open", socket' = "open", ~HandlePatch
  PROVE  \/ inbox' = inbox /\ next' <= next
         \/ /\ next \in 1..Len(log) /\ next' <= next + 1
            /\ log[next].change \in Change /\ log[next].change.version = next
            /\ inbox' = Append(inbox, log[next].change)
<1> USE DEF IInv
<1>1. CASE Announce
  BY <1>1, AnnounceFacts
<1>2. CASE FallBack
  BY <1>2 DEF FallBack, Stream!FallBack, Shape, StreamInv
<1>3. CASE ~Announce /\ ~FallBack
  <2>1. inbox' = inbox /\ next' = next
    BY <1>3, NextCases DEF Commit, Open, Close, Answer, ApplySeed, FailSeed, vars, stream
  <2> QED
    BY <2>1 DEF Shape, StreamInv
<1> QED
  BY <1>1, <1>2, <1>3

LEMMA NoHoleStep ==
  ASSUME IInv, [Next]_vars
  PROVE  NoHoleInv'
<1> USE DEF IInv
<1> SUFFICES ASSUME socket' = "open", NEW i \in DOMAIN inbox', NEW k \in 1..Len(log'),
                    inbox'[i].version < k
             PROVE  k >= next' \/ \E j \in DOMAIN inbox' : i < j /\ inbox'[j].version = k
  BY DEF NoHoleInv
<1>1. CASE socket # "open"
  <2>1. Open
    BY <1>1, AnnounceFacts, HandleFacts, NextCases DEF Commit, FallBack, Close, Answer,
       ApplySeed, FailSeed, vars
  <2> QED
    BY <2>1 DEF Open, SocketInv
<1>2. CASE socket = "open" /\ k \notin 1..Len(log)
  <2>1. PICK r \in Rows : Commit(r)
    BY <1>2, LogStep
  <2>2. next' = next /\ k = Len(log) + 1
    BY <1>2, <2>1, VersionsGrow DEF Commit, StreamInv
  <2> QED
    BY <2>2 DEF Shape, StreamInv
<1>3. CASE socket = "open" /\ k \in 1..Len(log) /\ HandlePatch
  <2>0. inbox # <<>> /\ inbox' = Tail(inbox) /\ next' = next
    BY <1>3 DEF HandlePatch, stream
  <2>1. i + 1 \in DOMAIN inbox /\ inbox'[i] = inbox[i + 1] /\ i \in Nat
    BY <2>0, TailFacts DEF StreamInv
  <2>2. CASE k >= next
    BY <2>0, <2>2
  <2>3. CASE ~(k >= next)
    <3>1. PICK j \in DOMAIN inbox : i + 1 < j /\ inbox[j].version = k
      BY <1>3, <2>1, <2>3 DEF NoHoleInv
    <3>2. j - 1 \in DOMAIN inbox' /\ inbox'[j - 1] = inbox[j] /\ i < j - 1
      BY <2>0, <2>1, <3>1, TailFacts DEF StreamInv
    <3> QED
      BY <3>1, <3>2
  <2> QED
    BY <2>2, <2>3
<1>4. CASE socket = "open" /\ k \in 1..Len(log) /\ ~HandlePatch
  <2>1. next \in Nat /\ next' \in Nat
    BY TypeStep DEF Shape
  <2>2. CASE inbox' = inbox /\ next' <= next
    BY <1>4, <2>1, <2>2 DEF NoHoleInv
  <2>3. CASE /\ next \in 1..Len(log) /\ next' <= next + 1
             /\ log[next].change \in Change /\ log[next].change.version = next
             /\ inbox' = Append(inbox, log[next].change)
    <3> DEFINE l == Len(inbox) + 1
    <3>1. /\ l \in DOMAIN inbox' /\ inbox'[l].version = next
          /\ DOMAIN inbox' = DOMAIN inbox \cup {l} /\ \A j \in DOMAIN inbox : j < l
          /\ \A j \in DOMAIN inbox : inbox'[j] = inbox[j]
      BY <2>3, AppendFacts
    <3> HIDE DEF l
    <3>2. CASE i = l
      BY <2>1, <2>3, <3>1, <3>2
    <3>3. CASE i \in DOMAIN inbox
      <4>1. k >= next \/ \E j \in DOMAIN inbox : i < j /\ inbox[j].version = k
        BY <1>4, <3>1, <3>3 DEF NoHoleInv
      <4>2. k >= next => k >= next' \/ k = next
        BY <2>1, <2>3
      <4> QED
        BY <3>1, <3>3, <4>1, <4>2
    <3> QED
      BY <3>1, <3>2, <3>3
  <2> QED
    BY <1>4, <2>2, <2>3, QuietFacts
<1> QED
  BY <1>1, <1>2, <1>3, <1>4

-----------------------------------------------------------------------------
\* The goal of CoveredStep, for a promised version k that is not ahead of the
\* consumer.
CoveredAfter(r, k) ==
  \/ \E j \in DOMAIN inbox' : inbox'[j].version = k
  \/ store'[r] # None /\ store'[r] >= k

LEMMA CoveredOpen ==
  ASSUME IInv, Open, NEW t \in Tables, seed[t] = "applied", NEW r \in RowsOf(t),
         NEW k \in Versions(r, Len(log)), k < next,
         passed'[t] < k \/ (r \notin Anomalies /\ k <= read[t])
  PROVE  CoveredAfter(r, k)
<1> USE DEF IInv
<1>1. /\ next \in Nat /\ k \in 1..Len(log) /\ read[t] \in 0..Len(log) /\ Len(log) \in Nat
      /\ r \in Rows
  BY VersionsType, TableFacts DEF Shape, StreamInv
<1>2. passed'[t] = next - 1
  BY DEF Open
<1>3. r \notin Anomalies /\ k \in Versions(r, read[t])
  BY <1>1, <1>2 DEF Versions
<1>4. Newest(r, read[t]) \in Versions(r, read[t]) /\ k <= Newest(r, read[t])
  BY <1>1, <1>3, NewestIs
<1>5. Newest(r, read[t]) \in Nat
  BY <1>1, <1>4, VersionsType
<1>6. store'[r] = Newest(r, read[t])
  BY <1>1, <1>3, SeedVersionsAre DEF Open, SocketInv
<1> QED
  BY <1>1, <1>4, <1>5, <1>6, DashboardAssumption DEF CoveredAfter

LEMMA CoveredSeed ==
  ASSUME IInv, socket = "open", NEW u \in Tables, ApplySeed(u),
         NEW t \in Tables, seed'[t] = "applied", NEW r \in RowsOf(t),
         NEW k \in Versions(r, Len(log)), k < next,
         passed'[t] < k \/ (r \notin Anomalies /\ k <= read[t]),
         r \in Anomalies \/ store'[r] # None
  PROVE  CoveredAfter(r, k)
<1> USE DEF IInv
<1>1. /\ next \in Nat /\ k \in 1..Len(log) /\ Len(log) \in Nat /\ r \in Rows
  BY VersionsType, TableFacts DEF Shape, StreamInv
<1>2. inbox' = inbox
  BY SeedFacts
<1>3. CASE u = t /\ r \notin Anomalies /\ k <= read[t]
  BY <1>1, <1>3, SeedFacts DEF CoveredAfter
<1>4. CASE u = t /\ passed'[t] < k
  <2>1. passed'[t] = IF inbox = <<>> THEN next - 1 ELSE Head(inbox).version - 1
    BY <1>4 DEF ApplySeed, Shape
  <2>2. inbox # <<>>
    BY <1>1, <1>4, <2>1
  <2>3. 1 \in DOMAIN inbox /\ inbox[1].version \in Nat /\ inbox[1].version <= k
    BY <1>1, <1>4, <2>1, <2>2, HeadFacts
  <2>4. CASE inbox[1].version = k
    BY <1>2, <2>3, <2>4 DEF CoveredAfter
  <2>5. CASE inbox[1].version < k
    BY <1>1, <1>2, <2>3, <2>5 DEF CoveredAfter, NoHoleInv
  <2> QED
    BY <1>1, <2>3, <2>4, <2>5
<1>5. CASE u # t
  <2>1. seed[t] = "applied" /\ r \notin RowsOf(u) /\ passed'[t] = passed[t]
    BY <1>5, SeedFacts, TableFacts DEF Shape, ApplySeed
  <2>2. store'[r] = store[r]
    BY <1>1, <2>1, SeedFacts
  <2>3. ToCome(k) \/ Reached(r, k)
    BY <1>1, <2>1, <2>2 DEF CoveredInv, Promised
  <2> QED
    BY <1>1, <1>2, <2>2, <2>3 DEF CoveredAfter, ToCome, Reached
<1> QED
  BY <1>3, <1>4, <1>5

LEMMA CoveredPatch ==
  ASSUME IInv, socket = "open", HandlePatch,
         NEW t \in Tables, seed[t] = "applied", NEW r \in RowsOf(t),
         NEW k \in Versions(r, Len(log)), k < next, Promised(t, r, k),
         r \in Anomalies \/ store'[r] # None
  PROVE  CoveredAfter(r, k)
<1> USE DEF IInv
<1>1. /\ next \in Nat /\ k \in 1..Len(log) /\ Len(log) \in Nat /\ r \in Rows
      /\ log[k].change.row = r
  BY VersionsType, TableFacts DEF Shape, StreamInv, Versions
<1> DEFINE p == Head(inbox)
<1>2. /\ inbox # <<>> /\ inbox' = Tail(inbox) /\ p = inbox[1] /\ 1 \in DOMAIN inbox
      /\ p.version \in 1..Len(log)
  BY HandleFacts, HeadFacts
<1>3. store'[r] = IF r = p.row /\ (store[r] # None \/ r \in Anomalies)
                  THEN p.version ELSE store[r]
  BY <1>1, HandleFacts
<1>4. ToCome(k) \/ Reached(r, k)
  BY <1>1, <1>3 DEF CoveredInv
<1>5. ASSUME NEW j \in DOMAIN inbox, j # 1, inbox[j].version = k PROVE CoveredAfter(r, k)
  BY <1>2, <1>5, TailFacts DEF CoveredAfter
<1>6. p.version # None
  BY <1>2, DashboardAssumption
<1>7. CASE ToCome(k)
  <2>1. PICK j \in DOMAIN inbox : inbox[j].version = k
    BY <1>1, <1>7 DEF ToCome
  <2>2. CASE j = 1
    <3>1. p.row = r /\ p.version = k
      BY <1>1, <1>2, <2>1, <2>2, InboxFacts
    <3> QED
      BY <1>1, <1>3, <1>6, <3>1 DEF CoveredAfter
  <2> QED
    BY <1>5, <2>1, <2>2
<1>8. CASE Reached(r, k)
  <2>1. CASE r # p.row
    BY <1>3, <1>8, <2>1 DEF CoveredAfter, Reached
  <2>2. CASE r = p.row /\ p.version >= k
    BY <1>3, <1>6, <1>8, <2>2 DEF CoveredAfter, Reached
  <2>3. CASE p.version < k
    <3>1. \E j \in DOMAIN inbox : 1 < j /\ inbox[j].version = k
      BY <1>1, <1>2, <2>3 DEF NoHoleInv
    <3> QED
      BY <1>5, <3>1
  <2> QED
    BY <1>1, <1>2, <2>1, <2>2, <2>3
<1> QED
  BY <1>4, <1>7, <1>8

\* Nothing is handled: what was to come still is, or has just been sent.
LEMMA QuietCovers ==
  ASSUME IInv, [Next]_vars, socket = "open", socket' = "open", ~HandlePatch,
         NEW r \in Rows, store'[r] = store[r],
         NEW k \in Versions(r, Len(log)), k < next', ToCome(k) \/ Reached(r, k)
  PROVE  CoveredAfter(r, k)
<1> USE DEF IInv
<1>1. /\ next \in Nat /\ next' \in Nat /\ k \in 1..Len(log) /\ Len(log) \in Nat
  BY TypeStep, VersionsType DEF Shape, StreamInv
<1>2. CASE Reached(r, k)
  BY <1>2 DEF CoveredAfter, Reached
<1>3. CASE inbox' = inbox /\ next' <= next
  BY <1>1, <1>2, <1>3 DEF CoveredAfter, ToCome
<1>4. CASE /\ next \in 1..Len(log) /\ next' <= next + 1
           /\ log[next].change \in Change /\ log[next].change.version = next
           /\ inbox' = Append(inbox, log[next].change)
  <2> DEFINE l == Len(inbox) + 1
  <2>1. /\ l \in DOMAIN inbox' /\ inbox'[l].version = next
        /\ \A j \in DOMAIN inbox : j \in DOMAIN inbox' /\ inbox'[j] = inbox[j]
    BY <1>4, AppendFacts
  <2> HIDE DEF l
  <2>2. k >= next => k = next
    BY <1>1, <1>4
  <2> QED
    BY <1>2, <2>1, <2>2 DEF CoveredAfter, ToCome
<1> QED
  BY <1>3, <1>4, QuietFacts

LEMMA CoveredQuiet ==
  ASSUME IInv, [Next]_vars, socket = "open", socket' = "open",
         ~HandlePatch, \A u \in Tables : ~ApplySeed(u),
         NEW t \in Tables, seed'[t] = "applied", NEW r \in RowsOf(t),
         NEW k \in Versions(r, Len(log)), k < next',
         passed'[t] < k \/ (r \notin Anomalies /\ k <= read'[t]),
         r \in Anomalies \/ store'[r] # None
  PROVE  CoveredAfter(r, k)
<1> USE DEF IInv
<1>1. /\ next \in Nat /\ next' \in Nat /\ k \in 1..Len(log) /\ Len(log) \in Nat /\ r \in Rows
  BY TypeStep, VersionsType, TableFacts DEF Shape, StreamInv
<1>2. ~Open
  BY DEF Open
<1>3. seed[t] = "applied" /\ read'[t] = read[t] /\ passed' = passed
  BY <1>2, SeedsKept DEF vars, seeds
<1>4. store' = store
  BY StoresKept DEF vars
<1>5. ToCome(k) \/ Reached(r, k)
  BY <1>1, <1>3, <1>4 DEF CoveredInv, Promised
<1> QED
  BY <1>1, <1>4, <1>5, QuietCovers

LEMMA CoveredStep ==
  ASSUME IInv, [Next]_vars
  PROVE  CoveredInv'
<1> USE DEF IInv
<1>1. PICK m : m = Len(log')
  OBVIOUS
<1>2. ASSUME socket' = "open", NEW t \in Tables, seed'[t] = "applied", NEW r \in RowsOf(t),
             NEW k \in Versions(r, m)',
             passed'[t] < k \/ (r \notin Anomalies /\ k <= read'[t]),
             r \in Anomalies \/ store'[r] # None, ~(k >= next')
      PROVE  CoveredAfter(r, k)
  <2>1. k \in Versions(r, Len(log)) /\ k \in Nat /\ next' \in Nat
    <3>1. k \in Versions(r, Len(log))
      BY <1>1, <1>2, VersionsStep
    <3>2. Len(log) \in Nat
      BY DEF StreamInv
    <3>3. k \in Nat
      BY <3>1, <3>2, VersionsType
    <3> QED
      BY <3>1, <3>3, TypeStep DEF Shape
  <2>2. k < next'
    BY <1>2, <2>1
  <2>3. CASE socket # "open"
    <3>1. Open
      BY <1>2, <2>3, AnnounceFacts, HandleFacts, NextCases DEF Commit, FallBack, Close, Answer,
         ApplySeed, FailSeed, vars
    <3>2. UNCHANGED <<next, seed, read>>
      BY <3>1 DEF Open, stream
    <3> QED
      BY <1>2, <2>1, <2>2, <3>1, <3>2, CoveredOpen
  <2>4. ASSUME socket = "open", NEW u \in Tables, ApplySeed(u) PROVE CoveredAfter(r, k)
    <3>1. UNCHANGED <<next, read>>
      BY <2>4, SeedFacts DEF stream
    <3> QED
      BY <1>2, <2>1, <2>2, <2>4, <3>1, CoveredSeed
  <2>5. CASE socket = "open" /\ HandlePatch
    <3>1. UNCHANGED <<next, seed, read, passed>>
      BY <2>5, HandleFacts DEF stream, seeds
    <3>2. Promised(t, r, k)
      BY <1>2, <3>1 DEF Promised
    <3> QED
      BY <1>2, <2>1, <2>2, <2>5, <3>1, <3>2, CoveredPatch
  <2>6. CASE socket = "open" /\ ~HandlePatch /\ \A u \in Tables : ~ApplySeed(u)
    BY <1>2, <2>1, <2>2, <2>6, CoveredQuiet
  <2> QED
    BY <2>3, <2>4, <2>5, <2>6
<1> QED
  BY <1>1, <1>2 DEF CoveredInv, Promised, ToCome, Reached, CoveredAfter

-----------------------------------------------------------------------------
\* A patch is handled: for its row all newer versions are to come, for the
\* others nothing changes.
LEMMA SeededPatch ==
  ASSUME IInv, socket = "open", HandlePatch,
         NEW t \in Tables, seed[t] = "applied", NEW r \in RowsOf(t), r \in Anomalies,
         store'[r] \notin SeedVersions(r, read[t]),
         NEW k \in Versions(r, Len(log)), k < next
  PROVE  CoveredAfter(r, k)
<1> USE DEF IInv
<1>1. /\ next \in Nat /\ k \in 1..Len(log) /\ Len(log) \in Nat /\ r \in Rows
      /\ log[k].change.row = r
  BY VersionsType, TableFacts DEF Shape, StreamInv, Versions
<1> DEFINE p == Head(inbox)
<1>2. /\ inbox # <<>> /\ inbox' = Tail(inbox) /\ p = inbox[1] /\ 1 \in DOMAIN inbox
      /\ p.version \in 1..Len(log)
  BY HandleFacts, HeadFacts
<1>3. store'[r] = IF r = p.row THEN p.version ELSE store[r]
  BY <1>1, HandleFacts
<1>4. ASSUME NEW j \in DOMAIN inbox, j # 1, inbox[j].version = k PROVE CoveredAfter(r, k)
  BY <1>2, <1>4, TailFacts DEF CoveredAfter
<1>5. CASE r = p.row /\ p.version >= k
  BY <1>2, <1>3, <1>5, DashboardAssumption DEF CoveredAfter
<1>6. CASE r = p.row /\ p.version < k
  <2>1. \E j \in DOMAIN inbox : 1 < j /\ inbox[j].version = k
    BY <1>1, <1>2, <1>6 DEF NoHoleInv
  <2> QED
    BY <1>4, <2>1
<1>7. CASE r # p.row
  <2>1. ToCome(k) \/ Reached(r, k)
    BY <1>3, <1>7 DEF SeededInv
  <2>2. CASE Reached(r, k)
    BY <1>3, <1>7, <2>2 DEF CoveredAfter, Reached
  <2>3. CASE ToCome(k)
    <3>1. PICK j \in DOMAIN inbox : inbox[j].version = k
      BY <1>1, <2>3 DEF ToCome
    <3>2. j # 1
      BY <1>1, <1>2, <1>7, <3>1, InboxFacts
    <3> QED
      BY <1>4, <3>1, <3>2
  <2> QED
    BY <2>1, <2>2, <2>3
<1> QED
  BY <1>1, <1>2, <1>5, <1>6, <1>7

LEMMA SeededStep ==
  ASSUME IInv, [Next]_vars
  PROVE  SeededInv'
<1> USE DEF IInv
<1>1. PICK m : m = Len(log')
  OBVIOUS
<1>2. ASSUME socket' = "open", NEW t \in Tables, seed'[t] = "applied",
             NEW r \in RowsOf(t), r \in Anomalies, NEW n, n = read'[t],
             store'[r] \notin SeedVersions(r, n)',
             NEW k \in Versions(r, m)', ~(k >= next')
      PROVE  CoveredAfter(r, k)
  <2>1. /\ k \in Versions(r, Len(log)) /\ k \in Nat /\ next' \in Nat /\ r \in Rows
        /\ read[t] \in 0..Len(log)
    <3>1. k \in Versions(r, Len(log))
      BY <1>1, <1>2, VersionsStep
    <3>2. Len(log) \in Nat
      BY DEF StreamInv
    <3>3. k \in Nat
      BY <3>1, <3>2, VersionsType
    <3> QED
      BY <3>1, <3>3, TypeStep, TableFacts DEF Shape
  <2>2. k < next'
    BY <1>2, <2>1
  <2>3. n = read[t] => store'[r] \notin SeedVersions(r, read[t])
    BY <1>2, <2>1, VersionsStep
  <2>4. CASE socket # "open"
    <3>1. Open
      BY <1>2, <2>4, AnnounceFacts, HandleFacts, NextCases DEF Commit, FallBack, Close, Answer,
         ApplySeed, FailSeed, vars
    <3>2. UNCHANGED <<seed, read, store>> /\ socket = "connecting"
      BY <3>1 DEF Open, stream
    <3> QED
      BY <1>2, <2>3, <3>2 DEF SocketInv
  <2>5. ASSUME socket = "open", NEW u \in Tables, ApplySeed(u) PROVE CoveredAfter(r, k)
    <3>1. n = read[t] /\ u # t
      BY <1>2, <2>3, <2>5, SeedFacts
    <3>2. seed[t] = "applied" /\ r \notin RowsOf(u)
      BY <1>2, <2>5, <3>1, SeedFacts, TableFacts DEF Shape
    <3>3. store'[r] = store[r]
      BY <2>1, <2>5, <3>2, SeedFacts
    <3>4. ToCome(k) \/ Reached(r, k)
      BY <1>2, <2>1, <2>3, <2>5, <3>1, <3>2, <3>3 DEF SeededInv
    <3>5. ~HandlePatch
      <4>1. seed[u] = "answered" /\ seed'[u] = "applied"
        BY <2>5 DEF ApplySeed, Shape
      <4> QED
        BY <4>1, HandleFacts DEF seeds
    <3> QED
      BY <1>2, <2>1, <2>2, <2>5, <3>3, <3>4, <3>5, QuietCovers
  <2>6. CASE socket = "open" /\ HandlePatch
    <3>1. UNCHANGED <<next, seed, read>>
      BY <2>6, HandleFacts DEF stream, seeds
    <3> QED
      BY <1>2, <2>1, <2>2, <2>3, <2>6, <3>1, SeededPatch
  <2>7. CASE socket = "open" /\ ~HandlePatch /\ \A u \in Tables : ~ApplySeed(u)
    <3>1. seed[t] = "applied" /\ n = read[t]
      BY <1>2, <2>7, SeedsKept DEF vars, seeds
    <3>2. store' = store
      BY <2>7, StoresKept DEF vars
    <3>3. ToCome(k) \/ Reached(r, k)
      BY <1>2, <2>1, <2>3, <2>7, <3>1, <3>2 DEF SeededInv
    <3> QED
      BY <1>2, <2>1, <2>2, <2>7, <3>2, <3>3, QuietCovers
  <2> QED
    BY <2>4, <2>5, <2>6, <2>7
<1> QED
  BY <1>1, <1>2 DEF SeededInv, ToCome, Reached, CoveredAfter

LEMMA InvStep == IInv /\ [Next]_vars => IInv'
  BY TypeStep, StreamStep, MaxStep, StoreStep, SocketStep, NoHoleStep, CoveredStep, SeededStep
  DEF IInv

-----------------------------------------------------------------------------
\* When nothing is to come, every row that patches told of has reached its newest
\* version, and a store shows no version newer than that; an anomaly that only the
\* seed told of is one of the latest.
LEMMA Caught == IInv => CaughtUpShowsNewest
<1> SUFFICES ASSUME IInv, socket = "open", next = Len(log) + 1, inbox = <<>>,
                    NEW r \in Rows, Told(r)
             PROVE  ShowsNewest(r)
  BY DEF CaughtUpShowsNewest
<1> USE DEF IInv
<1> DEFINE t == TableOf(r)
           k == Newest(r, Len(log))
<1>1. t \in Tables /\ r \in RowsOf(t) /\ Len(log) \in Nat
  BY TableFacts DEF StreamInv
<1>2. /\ seed[t] = "applied" /\ k # None
      /\ r \in Anomalies \/ Newest(r, read[t]) # None
      /\ k <= read[t] \/ passed[t] < k
  BY DEF Told
<1>3. r \in Anomalies \/ store[r] # None
  BY <1>1, <1>2 DEF StoreInv
<1>4. CASE Versions(r, Len(log)) = {}
  <2>1. r \in Zones /\ k = 0
    BY <1>1, <1>2, <1>4, NewestIs
  <2>2. r \notin Anomalies
    <3>1. Zones # {} => "zones" \in Tables /\ RowsOf("zones") = Zones
      BY DEF Tables, RowsOf
    <3>2. Anomalies # {} => "anomalies" \in Tables /\ RowsOf("anomalies") = Anomalies
      BY DEF Tables, RowsOf
    <3> QED
      BY <2>1, <3>1, <3>2, TableFacts
  <2> QED
    BY <1>3, <1>4, <2>1, <2>2 DEF StoreInv, ShowsNewest
<1>5. CASE Versions(r, Len(log)) # {}
  <2>1. k \in Versions(r, Len(log)) /\ \A j \in Versions(r, Len(log)) : j <= k
    BY <1>1, <1>5, NewestIs
  <2>2. k \in 1..Len(log)
    BY <1>1, <2>1, VersionsType
  <2>3. ~ToCome(k)
    BY <1>1, <2>2 DEF ToCome
  <2>4. Reached(r, k) => ShowsNewest(r)
    <3>1. Reached(r, k) => store[r] \in Versions(r, Len(log))
      BY <1>1, <2>2 DEF Reached, StoreInv
    <3> QED
      BY <1>1, <2>1, <2>2, <3>1, VersionsType DEF Reached, ShowsNewest
  <2>5. CASE Promised(t, r, k)
    BY <1>1, <1>2, <1>3, <2>1, <2>3, <2>4, <2>5 DEF CoveredInv
  <2>6. CASE ~Promised(t, r, k)
    <3>1. r \in Anomalies /\ k <= read[t] /\ k <= passed[t]
      BY <1>1, <1>2, <2>2, <2>6 DEF Promised, Shape
    <3>2. Versions(r, read[t]) = Versions(r, Len(log)) /\ read[t] \in 0..Len(log)
      BY <1>1, <2>1, <2>2, <3>1 DEF Versions, Shape
    <3>3. SeedVersions(r, read[t]) = Latest(r, Len(log))
      <4>1. SeedVersions(r, read[t]) = Latest(r, read[t])
        BY <1>5, <3>1, <3>2 DEF SeedVersions
      <4> QED
        BY <3>2, <4>1 DEF Latest
    <3>4. store[r] \in Latest(r, Len(log)) \/ Reached(r, k)
      BY <1>1, <1>2, <2>1, <2>3, <3>1, <3>3 DEF SeededInv
    <3> QED
      BY <2>4, <3>1, <3>4 DEF ShowsNewest
  <2> QED
    BY <2>5, <2>6
<1> QED
  BY <1>4, <1>5

-----------------------------------------------------------------------------
\* Every variable of Dashboard keeps its shape, and a row shows only what was
\* written to it (handlers of App.tsx).
THEOREM TypeCorrect == Spec => []TypeOK
<1>1. IInv => TypeOK
  BY DEF IInv, StoreInv, TypeOK
<1> QED
  BY InitInv, InvStep, <1>1, PTL DEF Spec

\* When the browser has handled everything published (handlePatch of App.tsx),
\* each row it was told of shows its newest change; only an anomaly no patch told
\* of may be another of the latest by detected_at (seedAnomalies).
THEOREM CaughtUp == Spec => []CaughtUpShowsNewest
<1> QED
  BY InitInv, InvStep, Caught, PTL DEF Spec
=============================================================================
