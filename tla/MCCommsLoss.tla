---------------------------- MODULE MCCommsLoss ----------------------------
(* CommsLoss with a history of when each vehicle was last heard. *)
EXTENDS CommsLoss

VARIABLE heard  \* when the last event of each vehicle came, after how many flags

HInit == Init /\ heard = [v \in Vehicles |-> [at |-> 0, flags |-> 0]]

HNext ==
  /\ Next
  /\ heard' = [v \in Vehicles |->
                 IF raw'[v] # raw[v] THEN [at |-> clock, flags |-> Len(flags[v])]
                 ELSE heard[v]]

HSpec == HInit /\ [][HNext]_<<vars, heard>>

\* README: "no event from a vehicle for > 5 s" is a comms_loss.  When a sweep
\* is over, a vehicle whose last event came more than the timeout before it has
\* been flagged since that event.
EverySilenceFlagged ==
  [][pc = "swept" /\ pc' = "asleep" =>
       \A v \in Vehicles : raw[v] # {} /\ heard[v].at + Timeout < now =>
         Len(flags'[v]) > heard[v].flags]_<<vars, heard>>
=============================================================================
