------------------------------- MODULE PubSub -------------------------------
(***************************************************************************)
(* Channels.  A node asks a proxy to SUBSCRIBE to a channel; the proxy     *)
(* then takes what any of its peers publishes on that channel and          *)
(* publishes it again for its nodes.                                       *)
(*                                                                         *)
(* A SUB socket passes the messages of which one of its filters is a       *)
(* prefix, so that topics and filters are sequences here: a channel is a   *)
(* sequence of letters, a guid a sequence of one, Tab ends a topic.        *)
(***************************************************************************)
EXTENDS Integers, SequencesExt

CONSTANTS
  Proxies, Nodes,
  Channels,        \* names of channels, sequences of letters
  MaxPublications, \* bound on the publications of nodes
  HWM,             \* messages that queue for one subscriber
  Tab

Peers == Proxies \cup Nodes
Ids == 1 .. MaxPublications

ASSUME PubSubAssumption ==
  /\ {MaxPublications, HWM} \subseteq Nat
  /\ \A c \in Channels : c \in Seq(STRING) /\ c # <<>>

VARIABLES
  connected,  \* connected[p]: peers with an entry in the subscribers map of p
  filters,    \* filters[p][x]: subscriptions of p's SUB socket for x
  channels,   \* channels[p]: subscribeChannels of p
  inbox,      \* inbox[p][x]: messages of x waiting in p's socket for x
  published,  \* number of publications by nodes
  republished,\* history: how often p published publication i, at most 2
  due         \* history: <<p, i>> when i was sent, p listened to its node
              \* and had subscribed to its channel, and i was not dropped

vars == <<connected, filters, channels, inbox, published, republished, due>>
----------------------------------------------------------------------------
(* The topic of a message for one proxy is its guid. *)
GuidTopic(p) == <<p>>

(* zmq: what a filter is compared with begins with topic and tab. *)
Passes(p, x, msg) ==
  /\ x \in connected[p]
  /\ \E f \in filters[p][x] : IsPrefix(f, Append(msg.topic, Tab))

(* zmq: the PUB socket never waits (ZMQ_DONTWAIT).  It drops what is too   *)
(* much for the queue of a subscriber, and what is lost because a          *)
(* subscription has not arrived yet or a connection is broken.             *)
Dropped(p, x, queues, lost) == p \in lost \/ Len(queues[p][x]) >= HWM

(* Publisher::Publish and what zmq makes of it, once the message at the    *)
(* head of queues has been taken.                                          *)
Publish(x, msg, queues, lost) ==
  inbox' = [p \in Proxies |-> [queues[p] EXCEPT ![x] =
              IF Passes(p, x, msg) /\ ~Dropped(p, x, queues, lost)
              THEN Append(@, msg) ELSE @]]

(* Mutant of Connect: a new subscriber knows nothing of the channels. *)
ConnectWithoutChannels(p, x) ==
  filters' = [filters EXCEPT ![p][x] = {GuidTopic(p)}]

(* Subscriber::Connect: the channels come without a tab. *)
Connect(p, x) ==
  filters' = [filters EXCEPT ![p][x] = {GuidTopic(p)} \cup channels[p]]

(* ConnectToAnotherProxy or NodeHello *)
NewSubscriber(p, x) ==
  /\ x # p /\ x \notin connected[p]
  /\ connected' = [connected EXCEPT ![p] = @ \cup {x}]
  /\ Connect(p, x)
  /\ UNCHANGED <<channels, inbox, published, republished, due>>

(* Mutant of Kill: the socket lives on. *)
KillEntryOnly(p, x) ==
  /\ x \in connected[p]
  /\ connected' = [connected EXCEPT ![p] = @ \ {x}]
  /\ UNCHANGED <<filters, inbox, channels, published, republished, due>>

(* A subscriber is killed; what waited in its socket is gone. *)
Kill(p, x) ==
  /\ x \in connected[p]
  /\ connected' = [connected EXCEPT ![p] = @ \ {x}]
  /\ filters' = [filters EXCEPT ![p][x] = {}]
  /\ inbox' = [inbox EXCEPT ![p][x] = <<>>]
  /\ due' = {d \in due : d[1] = p =>
                \A i \in DOMAIN inbox[p][x] : inbox[p][x][i].id # d[2]}
  /\ UNCHANGED <<channels, published, republished>>

(* Subscriber::Subscribe, for every subscriber *)
Subscribe(p, c) ==
  [filters EXCEPT ![p] = [x \in Peers |->
     IF x \in connected[p] THEN @[x] \cup {Append(c, Tab)} ELSE @[x]]]
----------------------------------------------------------------------------
(* Proxy::SubscriberCallback for the two commands *)

Rest(p, x) == [inbox EXCEPT ![p][x] = Tail(@)]

Receives(p, x, cmd) ==
  inbox[p][x] # <<>> /\ Head(inbox[p][x]).cmd = cmd

(* Mutant of SubscribeReq: only later subscribers get the channel. *)
SubscribeReqLater(p, x) ==
  LET c == Head(inbox[p][x]).identifier
  IN  /\ Receives(p, x, "SUBSCRIBE")
      /\ channels' = [channels EXCEPT ![p] = @ \cup {c}]
      /\ inbox' = Rest(p, x)
      /\ UNCHANGED <<connected, filters, published, republished, due>>

SubscribeReq(p, x) ==
  /\ Receives(p, x, "SUBSCRIBE")
  /\ LET c == Head(inbox[p][x]).identifier
     IN  /\ channels' = [channels EXCEPT ![p] = @ \cup {c}]
         /\ filters' = Subscribe(p, c)
  /\ inbox' = Rest(p, x)
  /\ UNCHANGED <<connected, published, republished, due>>

(* Mutant of Recursed: the guard is forgotten. *)
RecursedNever(msg) == FALSE

Recursed(msg) == msg.recursion > 0

PublishReq(p, x) ==
  /\ Receives(p, x, "PUBLISH")
  /\ LET msg == Head(inbox[p][x])
         pub == [msg EXCEPT !.topic = msg.identifier, !.recursion = 1]
     IN  IF Recursed(msg)
         THEN inbox' = Rest(p, x) /\ UNCHANGED <<republished, due>>
         ELSE /\ \E lost \in SUBSET Proxies : Publish(p, pub, Rest(p, x), lost)
              /\ republished' = [republished EXCEPT ![p][msg.id] =
                                   IF @ < 2 THEN @ + 1 ELSE @]
              /\ due' = due \ {<<p, msg.id>>}
  /\ UNCHANGED <<connected, filters, channels, published>>
----------------------------------------------------------------------------
(* Nodes *)

NodeSubscribe(n, p, c) ==
  /\ \E lost \in SUBSET Proxies :
       Publish(n, [cmd |-> "SUBSCRIBE", topic |-> GuidTopic(p),
                   identifier |-> c, recursion |-> 0, id |-> 0], inbox, lost)
  /\ UNCHANGED <<connected, filters, channels, published, republished, due>>

(* A publication goes to one proxy or to all that listen to the channel. *)
NodePublish(n, topic, c) ==
  /\ published < MaxPublications
  /\ published' = published + 1
  /\ \E lost \in SUBSET Proxies :
       LET addressed == {p \in Proxies : topic = GuidTopic(p)}
           listening == {p \in Proxies : topic = c /\ c \in channels[p]}
           reached == {p \in addressed \cup listening :
                         n \in connected[p] /\ ~Dropped(p, n, inbox, lost)}
       IN  /\ Publish(n, [cmd |-> "PUBLISH", topic |-> topic, identifier |-> c,
                          recursion |-> 0, id |-> published'], inbox, lost)
           /\ due' = due \cup {<<p, published'>> : p \in reached}
  /\ UNCHANGED <<connected, filters, channels, republished>>
----------------------------------------------------------------------------
Init ==
  /\ connected = [p \in Proxies |-> {}]
  /\ filters = [p \in Proxies |-> [x \in Peers |-> {}]]
  /\ channels = [p \in Proxies |-> {}]
  /\ inbox = [p \in Proxies |-> [x \in Peers |-> <<>>]]
  /\ published = 0 /\ due = {}
  /\ republished = [p \in Proxies |-> [i \in Ids |-> 0]]

ProxyStep == \E p \in Proxies, x \in Peers :
               SubscribeReq(p, x) \/ PublishReq(p, x)

Next ==
  \/ ProxyStep
  \/ \E p \in Proxies, x \in Peers : NewSubscriber(p, x) \/ Kill(p, x)
  \/ \E n \in Nodes, c \in Channels :
       \/ NodePublish(n, c, c)
       \/ \E p \in Proxies : \/ NodeSubscribe(n, p, c)
                             \/ NodePublish(n, GuidTopic(p), c)

Spec == Init /\ [][Next]_vars
----------------------------------------------------------------------------
(* Properties *)

Frames == [cmd : {"SUBSCRIBE", "PUBLISH"}, identifier : Channels,
           topic : Channels \cup {GuidTopic(p) : p \in Proxies},
           recursion : {0, 1}, id : 0 .. MaxPublications]

(* Every variable has its type, and a peer without an entry in subscribers *)
(* has no socket: no filters and no messages.                              *)
TypeOK ==
  /\ connected \in [Proxies -> SUBSET Peers]
  /\ channels \in [Proxies -> SUBSET Channels]
  /\ published \in 0 .. MaxPublications
  /\ republished \in [Proxies -> [Ids -> 0 .. 2]]
  /\ due \subseteq Proxies \X Ids
  /\ \A p \in Proxies, x \in Peers :
       /\ \A i \in DOMAIN inbox[p][x] : inbox[p][x][i] \in Frames
       /\ x \notin connected[p] => filters[p][x] = {} /\ inbox[p][x] = <<>>

(* A proxy hears every channel it was asked for from every peer, whichever *)
(* came first, the channel or the connection, and whatever was killed in   *)
(* between: SubscribeReq adds a channel to all subscribers,                *)
(* Subscriber::Connect all channels to a new one.                          *)
ChannelsCovered ==
  \A p \in Proxies, c \in Channels : \A x \in connected[p] :
    c \in channels[p] => Passes(p, x, [topic |-> c])

(* A publication does not go round between proxies that subscribe to each  *)
(* other's channels, and no proxy hands it to its nodes twice (PublishReq).*)
RepublishedOnce ==
  \A p \in Proxies, i \in Ids : republished[p][i] =< 1

(* The proxy itself loses nothing.  A publication sent while the proxy     *)
(* listened, and not dropped by the PUB socket of the node on its way,     *)
(* passes the filters and waits until it is published again or its         *)
(* subscriber is killed; it is never taken for one of another proxy        *)
(* (Subscriber::Connect, SubscribeReq, PublishReq).                        *)
DueIsWaiting ==
  \A d \in due : \E n \in Nodes : \E i \in DOMAIN inbox[d[1]][n] :
    inbox[d[1]][n][i].id = d[2] /\ inbox[d[1]][n][i].recursion = 0

(* A proxy hears only the channels it was asked for: the tab that          *)
(* Subscriber::Subscribe appends keeps "ab" from being heard as "a".       *)
OnlySubscribedHeard ==
  \A p \in Proxies, x \in Peers : \A i \in DOMAIN inbox[p][x] :
    inbox[p][x][i].topic \in channels[p] \cup {GuidTopic(p)}
============================================================================
