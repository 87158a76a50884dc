---------------------------- MODULE ChangeStream ----------------------------
(***************************************************************************)
(* What the CDC consumer (src/app/cdc_consumer.py) promises about the       *)
(* events on Redis: the committed changes of the watched tables are         *)
(* published in commit order from a cursor that moves forward only by       *)
(* publishing the change it points at, and that may fall back - so nothing  *)
(* is skipped, and a replay always runs on to the newest change.            *)
(***************************************************************************)
EXTENDS Naturals, Sequences

CONSTANTS Rows,  \* rows of the watched tables
          None   \* no change: a COMMIT message, or nothing shown yet

VARIABLES log,       \* the stream of the slot: changes and COMMITs in commit order
          next,      \* the cursor, an index into log
          published, \* every change ever published
          shown      \* the last change published of each row

stream == <<log, next, published, shown>>

Init ==
  /\ log = <<>>
  /\ next = 1
  /\ published = {}
  /\ shown = [r \in Rows |-> None]

\* A transaction commits: its changes and its COMMIT join the stream.
Extend ==
  /\ Len(log) <= Len(log')
  /\ \A i \in 1..Len(log) : log'[i] = log[i]
  /\ UNCHANGED <<next, published, shown>>

Publish(change) ==
  /\ published' = published \cup {change}
  /\ shown' = [shown EXCEPT ![change.row] = change]

Advance ==
  /\ next <= Len(log)
  /\ next' = next + 1
  /\ \/ log[next].change = None /\ UNCHANGED <<published, shown>>
     \/ log[next].change # None /\ Publish(log[next].change)
  /\ UNCHANGED log

\* Redis took the message and the consumer was told it did not.
PublishUnnoticed ==
  /\ next <= Len(log)
  /\ log[next].change # None
  /\ Publish(log[next].change)
  /\ UNCHANGED <<log, next>>

FallBack ==
  /\ next' \in 1..next
  /\ UNCHANGED <<log, published, shown>>

Next == Extend \/ Advance \/ PublishUnnoticed \/ FallBack

Spec == Init /\ [][Next]_stream
=============================================================================
