-------------------------- MODULE WsFanout_proofs --------------------------
(***************************************************************************)
(* Proofs about WsFanout for any clients and any number of versions.  A     *)
(* client that is registered and not closed has received exactly what was   *)
(* broadcast since it registered, but for the patch it is still a target of *)
(* (ClientInv): that is both the refinement of LiveFeed and, with a         *)
(* snapshot that covers what was broadcast before, why nothing is missed.   *)
(***************************************************************************)
EXTENDS WsFanout, TLAPS

\* The patch being broadcast is the last of the feed; the dead are closed.
BroadcastInv ==
  /\ message = None => todo = {} /\ dead = {}
  /\ message # None => Len(feed) # 0 /\ message = feed[Len(feed)]
  /\ \A c \in dead : net[c] = "closed"

\* Nothing is received that was not published.
PublishedInv ==
  /\ \A i \in DOMAIN channel : channel[i].version <= published
  /\ \A i \in DOMAIN feed : feed[i].version <= published

\* Before it connects a client has received nothing.
OutInv ==
  \A c \in Clients :
    /\ pc[c] = "out" => start[c] = None /\ got[c] = <<>> /\ c \notin registry \cup todo
    /\ pc[c] # "out" => start[c] \in 0..Len(feed)
    /\ pc[c] \in {"out", "registered"} => ~fresh[c]
    /\ pc[c] \in {"registered", "read", "streaming"} /\ net[c] # "closed" => c \in registry

\* How much of the feed a client has received.
ClientInv ==
  \A c \in Clients :
    /\ net[c] # "closed" =>
         /\ c \in todo => start[c] + Len(got[c]) + 1 = Len(feed)
         /\ c \in registry \ todo => start[c] + Len(got[c]) = Len(feed)
    /\ \A j \in DOMAIN got[c] : start[c] + j \in DOMAIN feed /\ got[c][j] = feed[start[c] + j]

\* A fresh snapshot covers what was broadcast before the client registered.
FreshInv ==
  \A c \in Clients : fresh[c] =>
    /\ fleet[c] \in Nat
    /\ \A i \in 1..start[c] : feed[i].version <= fleet[c]

\* The inductive invariant.
IInv == TypeOK /\ BroadcastInv /\ PublishedInv /\ OutInv /\ ClientInv /\ FreshInv

-----------------------------------------------------------------------------
LEMMA NextCases ==
  ASSUME Next
  PROVE  \/ Publish \/ Subscribe \/ LoseRedis \/ EndSubscriber
         \/ FanOut \/ Send \/ EndBroadcast \/ Restart
         \/ \E c \in Clients :
              \/ Connect(c) \/ ReadFleet(c) \/ SendSnapshot(c)
              \/ pc[c] # "out" /\ Leave(c)
              \/ Stall(c) \/ Unstall(c) \/ Disconnect(c)
  BY DEF Next, SubscriberStep, HandlerStep, SnapshotFails, SeeDisconnect

\* Messages and patches are told apart by their version alone.
LEMMA PatchType ==
  /\ \A k \in Versions : Message(k) \in Messages /\ Patch(k) \in Patches
  /\ \A m \in Messages : m.version \in Versions
  /\ \A p \in Patches : p.version \in Versions
  /\ \A k \in Versions : Message(k).version = k /\ Patch(k).version = k
  /\ Versions \subseteq Nat
<1> USE FanoutAssumption DEF Message, Patch
<1>1. \A k \in Versions : Message(k) \in Messages /\ Patch(k) \in Patches
  BY DEF Messages, Patches
<1>2. \A m \in Messages : m.version \in Versions
  BY DEF Messages
<1>3. \A p \in Patches : p.version \in Versions
  BY DEF Patches
<1>4. \A k \in Versions : Message(k).version = k /\ Patch(k).version = k
  OBVIOUS
<1> QED
  BY <1>1, <1>2, <1>3, <1>4 DEF Versions

\* A sequence of them has numbers for versions.
LEMMA VersionType ==
  /\ \A s \in Seq(Messages) : \A i \in DOMAIN s : s[i].version \in Nat
  /\ \A s \in Seq(Patches) : \A i \in DOMAIN s : s[i].version \in Nat
<1>1. /\ \A m \in Messages : m.version \in Nat
      /\ \A p \in Patches : p.version \in Nat
  BY PatchType
<1> QED
  BY <1>1

LEMMA FanOutType ==
  ASSUME TypeOK, FanOut
  PROVE  message' \in Patches /\ message'.version = Head(channel).version
<1>1. Head(channel) \in Messages
  BY DEF TypeOK, FanOut
<1>2. Head(channel).version \in Versions
  BY <1>1, PatchType
<1>3. message' = Patch(Head(channel).version)
  BY DEF FanOut
<1> QED
  BY <1>2, <1>3, PatchType

LEMMA TypeInit == Init => TypeOK
  BY FanoutAssumption DEF Init, TypeOK

LEMMA TypeStep == TypeOK /\ BroadcastInv /\ [Next]_vars => TypeOK'
<1> SUFFICES ASSUME TypeOK, BroadcastInv, [Next]_vars PROVE TypeOK'
  OBVIOUS
<1> USE FanoutAssumption DEF TypeOK, broadcast, subscriber, handlers
<1>1. CASE Publish
  <2>1. published + 1 \in Versions
    BY <1>1 DEF Publish, Versions
  <2>2. channel' \in Seq(Messages)
    BY <1>1, <2>1, PatchType DEF Publish
  <2> QED
    BY <1>1, <2>1, <2>2 DEF Publish, Versions
<1>2. CASE Subscribe
  BY <1>2 DEF Subscribe
<1>3. CASE LoseRedis
  BY <1>3 DEF LoseRedis
<1>4. CASE EndSubscriber
  BY <1>4 DEF EndSubscriber
<1>5. CASE FanOut
  <2>1. Tail(channel) \in Seq(Messages)
    BY <1>5 DEF FanOut
  <2>2. message' \in Patches
    BY <1>5, FanOutType
  <2>3. feed' \in Seq(Patches)
    BY <1>5, <2>2 DEF FanOut
  <2>4. to' \in todo' \cup {None} /\ todo' \subseteq Clients
    BY <1>5 DEF FanOut, Aim
  <2> QED
    BY <1>5, <2>1, <2>2, <2>3, <2>4 DEF FanOut
<1>6. CASE Send
  <2>1. to \in Clients /\ message \in Patches
    BY <1>6 DEF Send, BroadcastInv
  <2>2. to' \in todo' \cup {None} /\ todo' \subseteq Clients /\ dead' \subseteq Clients
    BY <1>6, <2>1 DEF Send, Aim
  <2>3. got' \in [Clients -> Seq(Patches)]
    <3>1. CASE UNCHANGED got
      BY <3>1
    <3>2. CASE got' = [got EXCEPT ![to] = Append(@, message)]
      BY <2>1, <3>2
    <3> QED
      BY <1>6, <3>1, <3>2 DEF Send
  <2> QED
    BY <1>6, <2>2, <2>3 DEF Send
<1>7. CASE EndBroadcast
  BY <1>7 DEF EndBroadcast
<1>8. ASSUME NEW c \in Clients, Connect(c) PROVE TypeOK'
  BY <1>8 DEF Connect
<1>9. ASSUME NEW c \in Clients, ReadFleet(c) PROVE TypeOK'
  BY <1>9 DEF ReadFleet
<1>10. ASSUME NEW c \in Clients, SendSnapshot(c) PROVE TypeOK'
  BY <1>10 DEF SendSnapshot
<1>11. ASSUME NEW c \in Clients, Leave(c) PROVE TypeOK'
  BY <1>11 DEF Leave, End
<1>12. ASSUME NEW c \in Clients, Stall(c) \/ Unstall(c) \/ Disconnect(c) PROVE TypeOK'
  <2>1. \E s \in {"up", "stalled", "resumed", "closed"} : net' = [net EXCEPT ![c] = s]
    BY <1>12 DEF Stall, Unstall, Disconnect
  <2>2. UNCHANGED <<published, subscriber, registry, handlers, got>>
    BY <1>12 DEF Stall, Unstall, Disconnect
  <2> QED
    BY <2>1, <2>2
<1>13. CASE Restart
  BY <1>13 DEF Restart
<1>14. CASE UNCHANGED vars
  BY <1>14 DEF vars
<1> QED
  BY <1>1, <1>2, <1>3, <1>4, <1>5, <1>6, <1>7, <1>8, <1>9, <1>10, <1>11, <1>12, <1>13,
     <1>14, NextCases

-----------------------------------------------------------------------------
LEMMA IInvInit == Init => IInv
<1> SUFFICES ASSUME Init PROVE IInv
  OBVIOUS
<1>1. BroadcastInv /\ PublishedInv /\ OutInv /\ ClientInv /\ FreshInv
  BY DEF Init, BroadcastInv, PublishedInv, OutInv, ClientInv, FreshInv
<1> QED
  BY <1>1, TypeInit DEF IInv

LEMMA BroadcastStep == IInv /\ [Next]_vars => BroadcastInv'
<1> SUFFICES ASSUME IInv, [Next]_vars PROVE BroadcastInv'
  OBVIOUS
<1> USE FanoutAssumption DEF IInv, TypeOK, BroadcastInv, broadcast, subscriber
<1>1. CASE UNCHANGED <<broadcast, feed, net>>
  BY <1>1
<1>2. CASE FanOut
  <2>1. message' \in Patches /\ message' # None
    BY <1>2, FanOutType, NoneAssumption
  <2>2. Len(feed') # 0 /\ feed'[Len(feed')] = message'
    BY <1>2, <2>1 DEF FanOut
  <2> QED
    BY <1>2, <2>1, <2>2 DEF FanOut
<1>3. CASE Send
  BY <1>3 DEF Send
<1>4. CASE EndBroadcast
  BY <1>4 DEF EndBroadcast
<1>5. ASSUME NEW c \in Clients, Leave(c) PROVE BroadcastInv'
  BY <1>5 DEF Leave, End
<1>6. ASSUME NEW c \in Clients, Stall(c) \/ Unstall(c) \/ Disconnect(c) PROVE BroadcastInv'
  BY <1>6 DEF Stall, Unstall, Disconnect
<1>7. CASE Restart
  BY <1>7 DEF Restart
<1> QED
  BY <1>1, <1>2, <1>3, <1>4, <1>5, <1>6, <1>7, NextCases
     DEF Publish, Subscribe, LoseRedis, EndSubscriber, Connect, ReadFleet, SendSnapshot, vars

LEMMA PublishedStep == IInv /\ [Next]_vars => PublishedInv'
<1> SUFFICES ASSUME IInv, [Next]_vars PROVE PublishedInv'
  OBVIOUS
<1> USE FanoutAssumption DEF IInv, TypeOK, PublishedInv, broadcast, subscriber, handlers
<1>1. CASE UNCHANGED <<published, feed>> /\ (UNCHANGED channel \/ channel' = <<>>)
  BY <1>1
<1>2. CASE Publish
  <2>1. published + 1 \in Versions /\ published' = published + 1
    BY <1>2 DEF Publish, Versions
  <2>2. \A i \in DOMAIN channel : channel[i].version \in Nat
    BY VersionType
  <2>3. \A i \in DOMAIN feed : feed[i].version \in Nat
    BY VersionType
  <2>4. Message(published + 1).version = published'
    BY <2>1, PatchType
  <2> QED
    BY <1>2, <2>1, <2>2, <2>3, <2>4 DEF Publish
<1>3. CASE FanOut
  <2>1. Head(channel) \in Messages /\ Head(channel).version <= published
    BY <1>3 DEF FanOut
  <2>2. message'.version <= published
    BY <1>3, <2>1, FanOutType
  <2> QED
    BY <1>3, <2>2 DEF FanOut
<1> QED
  BY <1>1, <1>2, <1>3, NextCases
     DEF Subscribe, LoseRedis, EndSubscriber, Send, EndBroadcast, Restart, Connect, ReadFleet,
         SendSnapshot, Leave, End, Stall, Unstall, Disconnect, vars

LEMMA OutStep == IInv /\ [Next]_vars => OutInv'
<1> SUFFICES ASSUME IInv, [Next]_vars PROVE OutInv'
  OBVIOUS
<1> USE FanoutAssumption DEF IInv, TypeOK, OutInv, broadcast, subscriber, handlers
<1>1. CASE UNCHANGED <<feed, todo, registry, handlers, net, got>>
  BY <1>1
<1>2. CASE FanOut
  BY <1>2 DEF FanOut
<1>3. CASE Send
  <2>1. to \in todo /\ todo' \subseteq todo
    BY <1>3 DEF Send
  <2>2. \A c \in Clients \ {to} : got'[c] = got[c]
    BY <1>3 DEF Send
  <2> QED
    BY <1>3, <2>1, <2>2 DEF Send
<1>4. CASE EndBroadcast
  BY <1>4 DEF EndBroadcast, BroadcastInv
<1>5. ASSUME NEW c \in Clients, Connect(c) PROVE OutInv'
  BY <1>5 DEF Connect
<1>6. ASSUME NEW c \in Clients, ReadFleet(c) PROVE OutInv'
  BY <1>6 DEF ReadFleet
<1>7. ASSUME NEW c \in Clients, SendSnapshot(c) PROVE OutInv'
  BY <1>7 DEF SendSnapshot
<1>8. ASSUME NEW c \in Clients, pc[c] # "out", Leave(c) PROVE OutInv'
  BY <1>8 DEF Leave, End
<1>9. ASSUME NEW c \in Clients, Stall(c) \/ Unstall(c) \/ Disconnect(c) PROVE OutInv'
  <2>1. UNCHANGED <<feed, todo, registry, handlers, got>>
    BY <1>9 DEF Stall, Unstall, Disconnect
  <2>2. \A d \in Clients : net[d] = "closed" => net'[d] = "closed"
    BY <1>9 DEF Stall, Unstall, Disconnect
  <2> QED
    BY <2>1, <2>2
<1>10. CASE Restart
  BY <1>10 DEF Restart
<1> QED
  BY <1>1, <1>2, <1>3, <1>4, <1>5, <1>6, <1>7, <1>8, <1>9, <1>10, NextCases
     DEF Publish, Subscribe, LoseRedis, EndSubscriber, vars

LEMMA ClientStep == IInv /\ [Next]_vars => ClientInv'
<1> SUFFICES ASSUME IInv, [Next]_vars PROVE ClientInv'
  OBVIOUS
<1> USE FanoutAssumption DEF IInv, TypeOK, ClientInv, broadcast, subscriber, handlers
<1>1. CASE UNCHANGED <<feed, todo, registry, start, net, got>>
  BY <1>1
<1>2. CASE FanOut
  <2>1. feed' = Append(feed, message') /\ UNCHANGED <<registry, start, net, got>>
    BY <1>2 DEF FanOut
  <2>2. todo = {} /\ todo' = registry
    BY <1>2 DEF FanOut, BroadcastInv
  <2>3. ASSUME NEW c \in Clients, net[c] # "closed", c \in registry
        PROVE  start[c] + Len(got[c]) + 1 = Len(feed')
    <3>1. start[c] + Len(got[c]) = Len(feed) /\ start[c] \in Nat
      BY <2>2, <2>3 DEF OutInv
    <3> QED
      BY <2>1, <3>1
  <2>4. ASSUME NEW c \in Clients, NEW j \in DOMAIN got[c]
        PROVE  start[c] + j \in DOMAIN feed' /\ got[c][j] = feed'[start[c] + j]
    <3>1. start[c] \in Nat
      BY <2>4 DEF OutInv
    <3> QED
      BY <2>1, <3>1
  <2> QED
    BY <2>1, <2>2, <2>3, <2>4
<1>3. CASE Send
  <2>1. to \in todo /\ todo' = todo \ {to} /\ UNCHANGED <<feed, registry, start, net>>
    BY <1>3 DEF Send
  <2>2. \A c \in Clients \ {to} : got'[c] = got[c]
    BY <1>3 DEF Send
  <2>3. CASE net[to] = "closed"
    BY <1>3, <2>1, <2>3 DEF Send
  <2>4. CASE net[to] # "closed"
    <3>1. got'[to] = Append(got[to], message) /\ message = feed[Len(feed)]
      BY <1>3, <2>1, <2>4 DEF Send, BroadcastInv
    <3>2. start[to] \in Nat /\ start[to] + Len(got[to]) + 1 = Len(feed)
      BY <2>1, <2>4 DEF OutInv
    <3>3. start[to] + Len(got'[to]) = Len(feed)
      BY <2>1, <3>1, <3>2
    <3>4. \A j \in DOMAIN got'[to] :
            start[to] + j \in DOMAIN feed /\ got'[to][j] = feed[start[to] + j]
      BY <2>1, <3>1, <3>2
    <3> QED
      BY <2>1, <2>2, <3>3, <3>4
  <2> QED
    BY <2>3, <2>4
<1>4. CASE EndBroadcast
  BY <1>4 DEF EndBroadcast
<1>5. ASSUME NEW c \in Clients, Connect(c) PROVE ClientInv'
  BY <1>5 DEF Connect, OutInv
<1>6. ASSUME NEW c \in Clients, Leave(c) PROVE ClientInv'
  BY <1>6 DEF Leave, End
<1>7. ASSUME NEW c \in Clients, Stall(c) \/ Unstall(c) \/ Disconnect(c) PROVE ClientInv'
  <2>1. UNCHANGED <<feed, todo, registry, start, got>>
    BY <1>7 DEF Stall, Unstall, Disconnect
  <2>2. \A d \in Clients : net[d] = "closed" => net'[d] = "closed"
    BY <1>7 DEF Stall, Unstall, Disconnect
  <2> QED
    BY <2>1, <2>2
<1>8. CASE Restart
  BY <1>8 DEF Restart
<1> QED
  BY <1>1, <1>2, <1>3, <1>4, <1>5, <1>6, <1>7, <1>8, NextCases
     DEF Publish, Subscribe, LoseRedis, EndSubscriber, ReadFleet, SendSnapshot, vars

LEMMA FreshStep == IInv /\ [Next]_vars => FreshInv'
<1> SUFFICES ASSUME IInv, [Next]_vars PROVE FreshInv'
  OBVIOUS
<1> USE FanoutAssumption DEF IInv, TypeOK, FreshInv, broadcast, subscriber, handlers
<1>1. CASE UNCHANGED <<feed, start, fleet, fresh>>
  BY <1>1
<1>2. CASE FanOut
  <2>1. \A c \in Clients : fresh[c] => start[c] \in 0..Len(feed)
    BY DEF OutInv
  <2>2. feed' = Append(feed, message') /\ UNCHANGED <<start, fleet, fresh>>
    BY <1>2 DEF FanOut
  <2> QED
    BY <2>1, <2>2
<1>3. ASSUME NEW c \in Clients, Connect(c) PROVE FreshInv'
  BY <1>3 DEF Connect, OutInv
<1>4. ASSUME NEW c \in Clients, ReadFleet(c) PROVE FreshInv'
  <2>1. PICK version \in 0..MaxVersions :
          /\ fleet' = [fleet EXCEPT ![c] = version]
          /\ fresh' = [fresh EXCEPT ![c] = version >= published]
    BY <1>4 DEF ReadFleet
  <2>2. UNCHANGED <<feed, start>>
    BY <1>4 DEF ReadFleet
  <2>3. start[c] \in 0..Len(feed)
    BY <1>4 DEF ReadFleet, OutInv
  <2>4. ASSUME NEW i \in 1..start[c], version >= published
        PROVE  feed[i].version <= version
    <3>1. i \in DOMAIN feed /\ feed[i].version \in Nat
      BY <2>3, VersionType
    <3>2. feed[i].version <= published
      BY <3>1 DEF PublishedInv
    <3> QED
      BY <2>4, <3>1, <3>2
  <2>5. ASSUME NEW d \in Clients, fresh'[d]
        PROVE  fleet'[d] \in Nat /\ \A i \in 1..start'[d] : feed'[i].version <= fleet'[d]
    <3>1. CASE d = c
      <4>1. fleet'[c] = version /\ version \in Nat
        BY <2>1
      <4>2. fresh' = [fresh EXCEPT ![c] = version >= published] /\ fresh'[c]
        BY <2>1, <2>5, <3>1, Zenon
      <4>3. version >= published
        BY <4>2, c \in DOMAIN fresh, Zenon DEF TypeOK
      <4> QED
        BY <2>2, <2>4, <3>1, <4>1, <4>3
    <3>2. CASE d # c
      BY <2>1, <2>2, <2>5, <3>2
    <3> QED
      BY <3>1, <3>2
  <2> QED
    BY <2>5
<1>5. ASSUME NEW c \in Clients, Leave(c) PROVE FreshInv'
  BY <1>5 DEF Leave, End
<1>6. CASE Restart
  BY <1>6 DEF Restart
<1> QED
  BY <1>1, <1>2, <1>3, <1>4, <1>5, <1>6, NextCases
     DEF Publish, Subscribe, LoseRedis, EndSubscriber, Send, EndBroadcast, SendSnapshot, Stall,
         Unstall, Disconnect, vars

LEMMA IInvStep == IInv /\ [Next]_vars => IInv'
  BY TypeStep, BroadcastStep, PublishedStep, OutStep, ClientStep, FreshStep DEF IInv

LEMMA Inductive == Spec => []IInv
  BY IInvInit, IInvStep, PTL DEF Spec

\* Every reachable state of the fan-out is well typed.
THEOREM TypeCorrect == Spec => []TypeOK
  BY Inductive, PTL DEF IInv

\* What each client receives is the feed from its registration on, in order and
\* without a gap, for any clients that come, stall, die and leave.
THEOREM Refinement == Spec => ImplementsLiveFeed
<1>1. Init => Feed!Init
  BY DEF Init, Feed!Init
<1>2. IInv /\ [Next]_vars => [Feed!Next]_<<feed, start, got>>
  <2> SUFFICES ASSUME IInv, [Next]_vars PROVE Feed!Next \/ UNCHANGED <<feed, start, got>>
    OBVIOUS
  <2> USE FanoutAssumption DEF IInv, TypeOK, broadcast, subscriber, handlers
  <2>1. CASE UNCHANGED <<feed, start, got>>
    BY <2>1
  <2>2. CASE FanOut
    <3>1. message' \in Patches
      BY <2>2, FanOutType
    <3> QED
      BY <2>2, <3>1 DEF FanOut, Feed!Take, Feed!Next
  <2>3. CASE Send
    <3>1. to \in todo /\ UNCHANGED <<feed, start>>
      BY <2>3 DEF Send
    <3>2. CASE net[to] = "closed"
      BY <2>3, <3>1, <3>2 DEF Send
    <3>3. CASE net[to] # "closed"
      <4>1. got' = [got EXCEPT ![to] = Append(@, feed[Len(feed)])]
        BY <2>3, <3>1, <3>3 DEF Send, BroadcastInv
      <4>2. start[to] \in Nat /\ start[to] + Len(got[to]) + 1 = Len(feed)
        BY <3>1, <3>3 DEF OutInv, ClientInv
      <4>3. Feed!Deliver(to)
        <5>1. got' = [got EXCEPT ![to] = Append(@, feed[start[to] + Len(got[to]) + 1])]
          BY <4>1, <4>2
        <5>2. start[to] # None
          BY <4>2
        <5> QED
          BY <3>1, <4>2, <5>1, <5>2 DEF Feed!Deliver
      <4> QED
        BY <3>1, <4>3 DEF Feed!Next
    <3> QED
      BY <3>2, <3>3
  <2>4. ASSUME NEW c \in Clients, Connect(c) PROVE Feed!Next
    <3>1. Feed!Join(c)
      BY <2>4 DEF Connect, OutInv, Feed!Join
    <3> QED
      BY <3>1 DEF Feed!Next
  <2> QED
    BY <2>1, <2>2, <2>3, <2>4, NextCases
       DEF Publish, Subscribe, LoseRedis, EndSubscriber, EndBroadcast, Restart, ReadFleet,
           SendSnapshot, Leave, End, Stall, Unstall, Disconnect, vars
<1> QED
  BY <1>1, <1>2, Inductive, PTL DEF Spec, ImplementsLiveFeed, Feed!Spec

\* A client that registered before its fresh snapshot was read has every
\* broadcast change in the snapshot, received, or on its way.
THEOREM Complete == Spec => []NothingMissed
<1>1. IInv => NothingMissed
  <2> SUFFICES ASSUME IInv,
                      NEW c \in Clients, pc[c] = "streaming", net[c] # "closed", fresh[c],
                      NEW i \in DOMAIN feed
               PROVE  \/ feed[i].version <= fleet[c]
                      \/ \E j \in DOMAIN got[c] : got[c][j] = feed[i]
                      \/ message = feed[i] /\ c \in todo
    BY DEF NothingMissed
  <2> USE DEF IInv, TypeOK
  <2>1. start[c] \in 0..Len(feed) /\ c \in registry
    BY DEF OutInv
  <2>2. CASE i <= start[c]
    BY <2>1, <2>2 DEF FreshInv
  <2>3. CASE i > start[c] /\ i - start[c] \in DOMAIN got[c]
    BY <2>1, <2>3 DEF ClientInv
  <2>4. CASE i > start[c] /\ i - start[c] \notin DOMAIN got[c]
    <3>1. c \in todo /\ i = Len(feed)
      BY <2>1, <2>4 DEF ClientInv
    <3> QED
      BY <3>1 DEF BroadcastInv
  <2> QED
    BY <2>1, <2>2, <2>3, <2>4
<1> QED
  BY <1>1, Inductive, PTL
-----------------------------------------------------------------------------
\* A connection is registered only while its handler runs, which takes it out at
\* its end; and while the handler of an open connection runs it is registered,
\* whatever broadcast drops meanwhile: ConnectionRegistry.size counts what it says.
RegistryExact ==
  \A c \in Clients :
    LET runs == pc[c] \in {"registered", "read", "streaming"} IN
    /\ c \in registry => runs
    /\ runs /\ net[c] # "closed" => c \in registry

\* No handler leaves a connection behind and no broadcast drops an open one: the
\* half of ClosedIsRemoved that needs no fairness.
THEOREM NoLeak == Spec => []RegistryExact
<1> DEFINE Handled == \A c \in registry : pc[c] \in {"registered", "read", "streaming"}
<1>1. Init => Handled
  BY DEF Init
<1>2. ASSUME IInv, Handled, [Next]_vars PROVE Handled'
  <2>1. pc \in [Clients -> {"out", "registered", "read", "streaming", "left"}]
        /\ registry \subseteq Clients
    BY <1>2 DEF IInv, TypeOK
  <2>2. ASSUME NEW c \in Clients, Connect(c) \/ ReadFleet(c) \/ SendSnapshot(c)
        PROVE  Handled'
    BY <1>2, <2>1, <2>2 DEF Connect, ReadFleet, SendSnapshot
  <2>3. ASSUME NEW c \in Clients, Leave(c) PROVE Handled'
    BY <1>2, <2>1, <2>3 DEF Leave, End
  <2>4. CASE Restart
    BY <2>4 DEF Restart
  <2>5. CASE registry' \subseteq registry /\ pc' = pc
    BY <1>2, <2>5
  <2> HIDE DEF Handled
  <2> QED
    BY <1>2, <2>2, <2>3, <2>4, <2>5, NextCases
       DEF Publish, Subscribe, LoseRedis, EndSubscriber, FanOut, Send, EndBroadcast,
           Stall, Unstall, Disconnect, handlers, vars
<1>3. IInv /\ Handled => RegistryExact
  BY DEF IInv, OutInv, RegistryExact
<1> HIDE DEF Handled
<1> QED
  BY <1>1, <1>2, <1>3, Inductive, PTL DEF Spec
=============================================================================
