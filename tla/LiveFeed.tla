------------------------------ MODULE LiveFeed ------------------------------
(***************************************************************************)
(* What the frontend (src/app/frontend_api.py) promises a WebSocket client  *)
(* about its live half: from the moment the connection is registered the    *)
(* client receives the feed of state patches one by one, in order, none     *)
(* twice and none left out - until it is cut off, which it may be at any    *)
(* time and for good.                                                       *)
(***************************************************************************)
EXTENDS Naturals, Sequences

CONSTANTS Clients,  \* WebSocket connections, one name each
          Patches,  \* the messages of the channel, trace carrier stripped
          None      \* not registered

VARIABLES feed,   \* the patches handed to the fan-out so far
          start,  \* how long the feed was when the client was registered
          got     \* the patches the client has received

Init ==
  /\ feed = <<>>
  /\ start = [c \in Clients |-> None]
  /\ got = [c \in Clients |-> <<>>]

Take ==
  /\ \E p \in Patches : feed' = Append(feed, p)
  /\ UNCHANGED <<start, got>>

Join(c) ==
  /\ start[c] = None
  /\ start' = [start EXCEPT ![c] = Len(feed)]
  /\ UNCHANGED <<feed, got>>

Deliver(c) ==
  LET n == start[c] + Len(got[c]) + 1 IN
  /\ start[c] # None
  /\ n <= Len(feed)
  /\ got' = [got EXCEPT ![c] = Append(@, feed[n])]
  /\ UNCHANGED <<feed, start>>

Next == Take \/ \E c \in Clients : Join(c) \/ Deliver(c)

Spec == Init /\ [][Next]_<<feed, start, got>>
=============================================================================
