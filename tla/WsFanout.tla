------------------------------ MODULE WsFanout ------------------------------
(***************************************************************************)
(* The live half of the dashboard API, src/app/frontend_api.py: the one     *)
(* Redis subscriber of the process, the registry it broadcasts to, and the  *)
(* handler of each WebSocket (register, build the snapshot from two replica *)
(* reads, send it, wait for the end).                                       *)
(*                                                                          *)
(* It is one asyncio loop: an action is what runs between two awaits that   *)
(* can suspend.  (The registry's lock is never held across one, so taking   *)
(* it is no step.)  A send suspends while the client's buffer is full.      *)
(*                                                                          *)
(* State is counted in versions: the k-th commit makes version k, which     *)
(* patch k announces.  A replica read may return any version: the standby   *)
(* may lag behind Redis or be ahead of it.  Replays are the consumer's      *)
(* business (CdcConsumer).                                                  *)
(***************************************************************************)
EXTENDS Naturals, Sequences, FiniteSets

CONSTANTS Clients,      \* WebSocket connections, one name each
          Slow,         \* the clients whose send buffer may fill up
          MaxVersions,  \* bound: commits
          Traced,       \* the versions whose message carries a trace context
          None

ASSUME FanoutAssumption ==
  /\ Slow \subseteq Clients
  /\ MaxVersions \in Nat
  /\ Traced \subseteq 1..MaxVersions
  /\ None \notin Clients \cup Nat

VARIABLES
  published,  \* the last version announced on Redis
  link,      \* the subscription: "off", "on" or, for good, "ended"
  channel,   \* messages sent to the subscriber that it has not taken
  message,   \* the message being broadcast, None while it listens
  todo,      \* the targets still to be sent to
  to,        \* the target it is sending to
  dead,      \* the targets whose send failed
  registry,  \* the registered connections
  pc,        \* where each ws_endpoint is
  net,       \* the client's side: "up", "stalled", "resumed" or "closed"
  fleet,     \* the version the client's snapshot shows of the vehicles
  got,       \* the patches the client has received
  feed, start, fresh  \* history: what was broadcast, how much of it before the
                      \* client was registered, was the replica ahead of Redis

broadcast == <<message, todo, to, dead>>
subscriber == <<link, channel, broadcast, feed>>
handlers == <<pc, fleet, start, fresh>>
vars == <<published, subscriber, registry, handlers, net, got>>

Versions == 1..MaxVersions
Message(k) == [version |-> k, traced |-> k \in Traced]
Patch(k) == [version |-> k, traced |-> FALSE]
Messages == {Message(k) : k \in Versions}
Patches == {Patch(k) : k \in Versions}

ASSUME NoneAssumption == None \notin Patches

Init ==
  /\ published = 0
  /\ link = "off" /\ channel = <<>>
  /\ message = None /\ todo = {} /\ to = None /\ dead = {}
  /\ registry = {}
  /\ pc = [c \in Clients |-> "out"]
  /\ net = [c \in Clients |-> "up"]
  /\ fleet = [c \in Clients |-> None]
  /\ got = [c \in Clients |-> <<>>]
  /\ feed = <<>>
  /\ start = [c \in Clients |-> None]
  /\ fresh = [c \in Clients |-> FALSE]

-----------------------------------------------------------------------------
\* The consumer publishes; Redis drops what nobody is subscribed to.
Publish ==
  /\ published < MaxVersions
  /\ published' = published + 1
  /\ channel' = IF link = "on" THEN Append(channel, Message(published + 1)) ELSE channel
  /\ UNCHANGED <<link, broadcast, feed, registry, handlers, net, got>>

-----------------------------------------------------------------------------
\* _redis_subscriber.

Subscribe ==
  /\ link = "off"
  /\ message = None
  /\ link' = "on"
  /\ UNCHANGED <<published, channel, broadcast, feed, registry, handlers, net, got>>

\* Redis goes away; what it sent and the subscriber did not read is gone.
LoseRedis ==
  /\ link = "on"
  /\ link' = "off"
  /\ channel' = <<>>
  /\ UNCHANGED <<published, broadcast, feed, registry, handlers, net, got>>

\* The client library gives up: listen() raises and the task ends.
EndSubscriber ==
  /\ link = "off"
  /\ message = None
  /\ link' = "ended"
  /\ UNCHANGED <<published, channel, broadcast, feed, registry, handlers, net, got>>

\* The list of the set, in any order.
Aim(rest) == to' \in rest \/ (rest = {} /\ to' = None)

\* The carrier left in the message.
FanOut_KeepsCarrier ==
  /\ message = None
  /\ channel # <<>>
  /\ message' = Head(channel)
  /\ channel' = Tail(channel)
  /\ todo' = registry
  /\ Aim(registry)
  /\ feed' = Append(feed, message')
  /\ UNCHANGED <<published, link, dead, registry, handlers, net, got>>

\* _fan_out: take a message, strip the carrier, list the targets.
FanOut ==
  /\ message = None
  /\ channel # <<>>
  /\ message' = Patch(Head(channel).version)
  /\ channel' = Tail(channel)
  /\ todo' = registry
  /\ Aim(registry)
  /\ feed' = Append(feed, message')
  /\ UNCHANGED <<published, link, dead, registry, handlers, net, got>>

\* A send given up after a while, the client kept: it misses this patch.
Send_SkipsSlow ==
  /\ to # None
  /\ IF net[to] \in {"closed", "stalled"}
     THEN got' = got
     ELSE got' = [got EXCEPT ![to] = Append(@, message)]
  /\ dead' = IF net[to] = "closed" THEN dead \cup {to} ELSE dead
  /\ todo' = todo \ {to}
  /\ Aim(todo \ {to})
  /\ UNCHANGED <<published, link, channel, message, feed, registry, handlers, net>>

\* An exception in a send ends the task.
Send_Raises ==
  /\ to # None
  /\ net[to] \in {"up", "resumed"}
  /\ got' = [got EXCEPT ![to] = Append(@, message)]
  /\ todo' = todo \ {to}
  /\ Aim(todo \ {to})
  /\ UNCHANGED <<published, link, channel, message, dead, feed, registry, handlers, net>>

\* await ws.send_text: suspended while the client is stalled, an exception if
\* it is gone.
Send ==
  /\ to # None
  /\ net[to] # "stalled"
  /\ IF net[to] = "closed"
     THEN dead' = dead \cup {to} /\ UNCHANGED got
     ELSE got' = [got EXCEPT ![to] = Append(@, message)] /\ UNCHANGED dead
  /\ todo' = todo \ {to}
  /\ Aim(todo \ {to})
  /\ UNCHANGED <<published, link, channel, message, feed, registry, handlers, net>>

\* The dead are dropped and the subscriber listens again.
EndBroadcast ==
  /\ message # None
  /\ todo = {}
  /\ registry' = registry \ dead
  /\ dead' = {}
  /\ message' = None
  /\ UNCHANGED <<published, link, channel, todo, to, feed, handlers, net, got>>

-----------------------------------------------------------------------------
\* ws_endpoint.

\* accept() and registry.add, before anything is read.
Connect(c) ==
  /\ pc[c] = "out"
  /\ registry' = registry \cup {c}
  /\ start' = [start EXCEPT ![c] = Len(feed)]
  /\ pc' = [pc EXCEPT ![c] = "registered"]
  /\ UNCHANGED <<published, subscriber, fleet, fresh, net, got>>

\* A snapshot kept from an earlier connect.
ReadFleet_Cached(c) ==
  /\ pc[c] = "registered"
  /\ \E version \in published..MaxVersions :
       fleet' = [fleet EXCEPT ![c] =
                   IF \E d \in Clients : fleet[d] # None
                   THEN fleet[CHOOSE d \in Clients : fleet[d] # None] ELSE version]
  /\ fresh' = [fresh EXCEPT ![c] = TRUE]
  /\ pc' = [pc EXCEPT ![c] = "read"]
  /\ UNCHANGED <<published, subscriber, registry, start, net, got>>

\* aggregate_fleet_state in a worker thread.
ReadFleet(c) ==
  /\ pc[c] = "registered"
  /\ \E version \in 0..MaxVersions :
       /\ fleet' = [fleet EXCEPT ![c] = version]
       /\ fresh' = [fresh EXCEPT ![c] = version >= published]
  /\ pc' = [pc EXCEPT ![c] = "read"]
  /\ UNCHANGED <<published, subscriber, registry, start, net, got>>

\* The zone counts are a second read; then the snapshot goes out.
SendSnapshot(c) ==
  /\ pc[c] = "read"
  /\ net[c] \in {"up", "resumed"}
  /\ pc' = [pc EXCEPT ![c] = "streaming"]
  /\ UNCHANGED <<published, subscriber, registry, fleet, start, fresh, net, got>>

\* The handler of c ends, and its connection with it.
End(c) ==
  /\ pc' = [pc EXCEPT ![c] = "left"]
  /\ net' = [net EXCEPT ![c] = "closed"]
  /\ fleet' = [fleet EXCEPT ![c] = None]
  /\ fresh' = [fresh EXCEPT ![c] = FALSE]
  /\ UNCHANGED <<published, subscriber, start, got>>

\* The finally clause.
Leave(c) ==
  /\ registry' = registry \ {c}
  /\ End(c)

\* The except clause removes, other exceptions do not.
SnapshotFails_KeepsRegistered(c) ==
  /\ pc[c] \in {"registered", "read"}
  /\ End(c)
  /\ UNCHANGED registry

\* A replica read raises.
SnapshotFails(c) ==
  /\ pc[c] \in {"registered", "read"}
  /\ Leave(c)

\* WebSocketDisconnect, from the snapshot's send or from receive_text.
SeeDisconnect(c) ==
  /\ pc[c] \in {"read", "streaming"}
  /\ net[c] = "closed"
  /\ Leave(c)

-----------------------------------------------------------------------------
\* The client's side.

\* Its buffer fills up (bound: once).
Stall(c) ==
  /\ c \in Slow
  /\ pc[c] \notin {"out", "left"}
  /\ net[c] = "up"
  /\ net' = [net EXCEPT ![c] = "stalled"]
  /\ UNCHANGED <<published, subscriber, registry, handlers, got>>

\* It drains, or the server's keepalive ping finds it gone.
Unstall(c) ==
  /\ net[c] = "stalled"
  /\ \E s \in {"resumed", "closed"} : net' = [net EXCEPT ![c] = s]
  /\ UNCHANGED <<published, subscriber, registry, handlers, got>>

Disconnect(c) ==
  /\ pc[c] \notin {"out", "left"}
  /\ net[c] # "closed"
  /\ net' = [net EXCEPT ![c] = "closed"]
  /\ UNCHANGED <<published, subscriber, registry, handlers, got>>

\* The frontend process ends and starts again.
Restart ==
  /\ link' = "off" /\ channel' = <<>>
  /\ message' = None /\ todo' = {} /\ to' = None /\ dead' = {}
  /\ registry' = {}
  /\ pc' = [c \in Clients |-> IF pc[c] = "out" THEN "out" ELSE "left"]
  /\ net' = [c \in Clients |-> IF pc[c] = "out" THEN net[c] ELSE "closed"]
  /\ fleet' = [c \in Clients |-> None]
  /\ fresh' = [c \in Clients |-> FALSE]
  /\ UNCHANGED <<published, feed, start, got>>

-----------------------------------------------------------------------------
SubscriberStep == FanOut \/ Send \/ EndBroadcast

HandlerStep(c) == ReadFleet(c) \/ SendSnapshot(c) \/ SeeDisconnect(c)

Next ==
  \/ Publish \/ Subscribe \/ LoseRedis \/ EndSubscriber
  \/ SubscriberStep
  \/ \E c \in Clients : \/ Connect(c) \/ HandlerStep(c) \/ SnapshotFails(c)
                        \/ Stall(c) \/ Unstall(c) \/ Disconnect(c)
  \/ Restart

Spec == Init /\ [][Next]_vars

\* The loop runs what is ready, a replica read ends, and a full buffer drains or
\* the ping that uvicorn sends by default times out; Redis and the clients owe
\* nothing.
FairSpec ==
  /\ Spec
  /\ WF_vars(SubscriberStep)
  /\ \A c \in Clients : WF_vars(HandlerStep(c)) /\ WF_vars(Unstall(c))

-----------------------------------------------------------------------------
\* Every variable keeps its shape; no trace carrier is handed to a client.
TypeOK ==
  /\ published \in 0..MaxVersions
  /\ link \in {"off", "on", "ended"}
  /\ channel \in Seq(Messages)
  /\ message \in Patches \cup {None}
  /\ to \in todo \cup {None} /\ todo \subseteq Clients /\ dead \subseteq Clients
  /\ registry \subseteq Clients
  /\ pc \in [Clients -> {"out", "registered", "read", "streaming", "left"}]
  /\ net \in [Clients -> {"up", "stalled", "resumed", "closed"}]
  /\ fleet \in [Clients -> 0..MaxVersions \cup {None}]
  /\ got \in [Clients -> Seq(Patches)]
  /\ feed \in Seq(Patches)
  /\ start \in [Clients -> Nat \cup {None}]
  /\ fresh \in [Clients -> BOOLEAN]

\* From registration on, a client receives the broadcast patches in order and
\* without a gap, however slow, stalled or dead it or the others are.
Feed == INSTANCE LiveFeed WITH
  Clients <- Clients, Patches <- Patches, None <- None,
  feed <- feed, start <- start, got <- got
ImplementsLiveFeed == Feed!Spec

\* A client whose snapshot was read from a replica that was not behind Redis
\* misses nothing: every broadcast version is in its snapshot, received, or on
\* its way.  (The order of registry.add and the snapshot's reads.)
NothingMissed ==
  \A c \in Clients : pc[c] = "streaming" /\ net[c] # "closed" /\ fresh[c] =>
    \A i \in DOMAIN feed :
      \/ feed[i].version <= fleet[c]
      \/ \E j \in DOMAIN got[c] : got[c][j] = feed[i]
      \/ message = feed[i] /\ c \in todo

\* Something the subscriber has not finished taking is still to reach c.
Pending(c) ==
  /\ c \in registry /\ net[c] = "up" /\ link = "on"
  /\ channel # <<>> \/ c \in todo

\* While the subscription and the client stay up, what is on its way to the
\* client reaches it, whether the other clients stall, die or come and go.
EveryPatchDelivered == \A c \in Clients : Pending(c) ~> ~Pending(c)

\* A connection that is gone leaves the registry, even if nothing is published
\* any more and whatever its handler was doing.
ClosedIsRemoved ==
  \A c \in Clients : net[c] = "closed" ~> c \notin registry
=============================================================================
