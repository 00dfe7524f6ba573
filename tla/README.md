# ESB proxy server: TLA+ models, checks and proofs

The ESB proxy server is a mesh of proxy processes. Nodes (processes that use the
ESB driver) connect to a proxy, register methods there and invoke methods by
identifier, and publish and subscribe to channels; the proxies find each other
through Redis, exchange their method registries, and pass invocations, answers
and publications along. This directory models `src/src/`, checks the models with
TLC on small instances, and proves the safety properties of all components
with TLAPS for every size of the system.

Paths below are relative to the repository's `src/` directory.

## 1. Inventory

Each proxy has one thread of its own, `Proxy::MainLoop`. It polls the REP socket,
then every SUB socket, and now and then does the periodic work. A handler runs
to its end before the next one starts, so that the concurrency of the system is
*between* processes: everything that matters happens in the interleaving of
handlers of several proxies and nodes, in messages under way and in timers. The
one handler that waits for somebody else is `PingRedis`, and `ProxyMesh` cuts it
where it waits.

| Component | State | Operations | Module |
|---|---|---|---|
| Invocation path (`proxy.cc`) | `invokeResponses`, `invokeResponsesCallTime`, `lastResponsesCleanUp` | `Invoke`, `InvokeResponse`, `PingRequest`, `CleanUpResponsesMap`, dispatch in `SubscriberCallback` | `InvokeRouting` |
| Method registries (`proxy.cc`) | `localInvokeMethods`, `remoteInvokeMethods`, `proxiesGuids`, `lastRegistryExchange` | `RegisterInvoke`, `RegistryExchangeResponder`, `RemoteRegistryUpdate`, `RequestRegistryExchange`, the two health checks | `RegistryPromise`, `Registry` |
| Discovery and connections (`proxy.cc`, `requester.cc`, `responder.cc`) | `subscribers`, `proxiesGuids`, `nodesGuids`, the Redis set `ZSET:PROXIES` | `PingRedis`, `ConnectToAnotherProxy`, `SendProxyHello`, `ProxyHello`, `NodeHello`, inactivity kill | `ProxyMesh` |
| Main loop (`proxy.cc`) | `loop`, the iterator, `lastActiveTime` | polling order, 1000 messages per subscriber and round, kill, periodic work every 25 rounds | `MainLoop` |
| Publish/subscribe (`proxy.cc`, `subscriber.cc`) | `subscribeChannels`, the filters of each SUB socket | `PublishReq`, `SubscribeReq`, `Subscriber::Connect`, `Subscriber::Subscribe` | `PubSub` |
| Port binding (`responder.cc`, `publisher.cc`) | ports | the bind loops | `PortBinding` |
| Messages (`command.pb.cc`, `command.pb.h`, generated) | has-bits, fields, registry entries, unknown fields | accessors, `ByteSize`, serialize, parse, merge | `CommandCodec` |
| Transport (`publisher.cc`, `subscriber.cc`) | socket queues | `Publish`, `Poll` | part of each module |
| Launcher, V8 binding, hiredis | none of their own | glue, vendored | not modelled |

What is hard here, and what would make each component correct:

* **Invocation path.** An `INVOKE` may cross several proxies, each of which picks
  a method anew from registries that are stale by design; it may come back to a
  proxy it has passed. The answer follows the `invokeResponses` entries the
  `INVOKE` left behind. Correct: only the caller is answered, by a method
  registered for the identifier it asked for, at most once; the return path is
  complete and has no cycle; entries neither leak nor vanish early.
* **Registries.** Soft state with three timers (3, 5 and 10 seconds), refreshed
  by messages that may be late or lost. Correct: routes die out in bounded time,
  name only proxies that held the method, and do not flap in a steady mesh.
* **Discovery.** Hello handshakes with time-outs between single-threaded
  processes, duplicate and stale Redis entries, restarts under a new guid.
  Correct: a mesh of live proxies becomes and stays fully connected, nobody is
  subscribed to twice, an answer belongs to the hello that waits for it.
* **Main loop.** One thread serves everyone. Correct: no subscriber and no request
  starves, periodic work goes on, only the silent are killed.
* **Publish/subscribe.** Correct: a proxy hears every channel it was asked for, loses
  nothing itself of what its socket has taken, hands it on once, and nothing loops.
* **Port binding.** Several proxies of a host try the same ports. Correct: the
  ports told to others are bound, by the one who tells, and nobody gives up
  while there are ports for it.
* **Messages.** Correct: reading inverts writing, also in the presence of fields of
  other versions, and a broken message is refused or has defaults.

`PROJECT.json` lists the hazards with their lines.

## 2. Modules

| Module | Models |
|---|---|
| `RegistryPromise` | abstract: what the registries of all proxies promise, without timers or messages |
| `InvokeRouting` | the invocation path; extends `RegistryPromise` for the state of the registries |
| `InvokeRoutingProofs`, `InvokePathProofs` | theorems about both: who is answered and by whom; how often, and along which path |
| `Registry` | the timed exchange protocol; refines `RegistryPromise` |
| `RegistryProofs` | theorems about it, with faults and in a steady mesh |
| `ProxyMesh`, `ProxyMeshProofs` | Redis, hellos, subscribers, restarts, and theorems about them |
| `MainLoop`, `MainLoopProofs` | the thread of one proxy, and theorems about it |
| `PubSub`, `PubSubProofs` | channels between proxies and nodes, and theorems about them |
| `PortBinding`, `PortBindingProofs` | the bind loops, and theorems about them |
| `CommandCodec`, `CommandCodecProofs` | the two protobuf messages, and theorems about them |
| `MC...` | instances for TLC |

`InvokeRouting` and `Registry` are composed by the promise: `InvokeRouting` lets
the registries take any step that `RegistryPromise` allows, and `Registry` is
proved to take no other (`ExchangeKeepsPromise`). The other modules meet at assumptions that one of them
checks: `ProxyMesh` starts a process only on free addresses, which is what
`AddressesDiffer` of `PortBinding` says; `Registry` assumes the periodic work and
`InvokeRouting` the polling that `MainLoop` checks to go on; `InvokeRouting`,
`Registry` and `PubSub` take messages for records, and `RoundTrip` of
`CommandCodec` says that this is what comes out of the wire.

### InvokeRouting

* `chan[s][d]` is the FIFO of messages from process `s` to process `d`: the PUB
  queue of `s` for `d`, the wire and the SUB queue of `d` in one. `Publish` drops
  the message when the topic is nobody's guid or `HWM` messages wait already;
  `Lose` drops any other one (no subscription yet, a broken connection). A topic
  reaches the process of that guid and no other. That assumes that no channel with which
  `Subscriber::Connect` makes a filter (without the tab, `src/subscriber.cc:47`) is the beginning of a
  guid; otherwise a second proxy would hear the message too.
* `invokeResponses[p][c]` and `invokeResponsesCallTime[p][c]` are the two hash
  tables, keyed by the `guid_from` of the request. Times are kept as ages, so
  that `now - t > 3` is a comparison with the age, and saturated just above the
  limit they are compared with.
* One action per outcome of a handler: `InvokeLocal`, `InvokeRemote`,
  `InvokeNotFound` are the three ways through `Proxy::Invoke`;
  `ForwardResponse`, `CallbackNotFound` those through `Proxy::InvokeResponse`;
  `PingRequest`, `LogOnly` (`PONG`, `ERROR`) and `UnknownCommand` (the `default`
  branch) complete `SubscriberCallback` on this path. `CleanUpResponsesMap` drops
  expired callbacks in any order and at most `CleanUpBatch` at a time, as the
  loop over the hash table does.
* `rand() % size` is a choice over the methods of the identifier.
* `std::unordered_map::insert` does not overwrite: `RememberCaller` keeps an
  entry that is there already. The return path depends on it.
* `SubscriberKey`: two error paths publish to the key under which the main loop
  found the subscriber. For a proxy that is its guid. For a node it is the
  connection string (`NodeHello`), which is no one's topic, so that these errors
  never reach a node.
* Nodes are external: they issue requests, execute invocations for as long as
  they like, and answer with `RESPONSE` or `ERROR_RESPONSE` to the proxy named in
  the `INVOKE`.
* `served`, `answers`, `purged` and `advertised` are history variables.
* A proxy that crashes simply takes no more steps; the process that replaces it
  has a new guid, and so is another element of `Proxies`.

The `payload` of a response stands for the method that computed it; the
contents of requests and the wording of errors are left out. So are the
statistics counters.

### RegistryPromise and Registry

A method is known by its method guid; `Owner` and `Provides` give its node and
its identifier. `offers`, `routes` and `advertised` are the local methods, the
routes and the methods a proxy ever held. `Offer`, `Expire` and `Learn` stand for
`RegisterInvoke`, the health checks and `RemoteRegistryUpdate`. `Learn` lets a
proxy apply a registry of any age, and keeps the `proxyGuid` of a route that it
has already, as `RemoteRegistryUpdate` does.

`Registry` has the timers: `lastCheckTime` of both kinds of methods and
`lastRegistryExchange`, again as ages. `Housekeeping` is the periodic part of the
main loop in the order of the code. `Tick` lets a second pass; it waits until every
running proxy did its periodic work in this second (an idle loop comes round
every 25 x 10 ms; that a busy one still does so once per second is an assumption
of the timed bounds) and until no message is older than `MaxDelay`
seconds: a message is handled by then or lost. `Connect`, `Disconnect`, `Crash` and
`Lose` are the environment; `proxiesGuids` never shrinks, as in the code.
The `REGISTER_INVOKE_OK` of `RegisterInvoke` is the element it adds to `advertised`.

### ProxyMesh

* A guid is one process; a restarted proxy is another guid, perhaps at the same
  addresses (`RespAddr`, `PubAddr`). An entry `guid#address` of the Redis set is
  its guid.
* `PingRedis` is a sequence of steps, because it waits for Redis twice and for a
  hello per unknown entry: `PingRedis` (ZADD), `ReadProxies` (ZREVRANGE, any order
  of entries), one of `SkipEntry`, `RemoveOldSelf`, `SendProxyHello` and
  `RequesterFails` for each entry, and `HelloOk`, `SubscriberFails` or
  `HelloTimesOut` for each hello. Between them other processes run, but this one
  polls nothing; two proxies that send each other a hello both time out.
* `hellos[a]` are requests on their way to the REP socket at address `a`. A request
  outlives the REQ socket it came from (`"closed"`); its answer is then dropped.
  A request that waits at an address without a process is kept for the next
  one that binds it, as zmq reconnects.
* `redisCtx[p]` is false when the connection was never made or broke. The replies
  of ZADD and ZREVRANGE are dereferenced, so that the process ends
  (`PingRedisFails`); that of ZREM is not.
* A node's key in `subscribers` is its connection string. Nodes may use ports that
  a proxy used before.
* `quiet[p]` are the subscribers with an old `lastActiveTime`. A peer talks if it has
  this proxy among its `proxiesGuids`, or hears it and is asked by it. A
  proxy goes quiet only when it does not talk.
* `MayFail`, `Quiets`, `Prompt` and `Mortal` switch faults: failing connects and Redis,
  30 silent seconds, hellos that time out although the peer is not blocked, and which
  processes crash.
* `met` is a history variable: who listened where the present hello went.

### MainLoop

One proxy, as it goes through its round: `PollResponder` takes and answers one request and reads
`now` (`idle` is the set of subscribers that are too old by that clock, which is not
read again in this round); `Visit` moves the iterator; `Handle`, `NoMessage`,
`KillInactive` and `BatchDone` are the ways through the inner loop; `PeriodicWork` or
`NoPeriodicWork` ends the round. `ResponderCallback` says what a request does to the
subscribers: a `NODE_HELLO` makes one, or none and the answer `ERROR` when
`Subscriber::Connect` fails; a `PROXY_HELLO` is only answered, as every other command would be. A
peer waits for its answer before it sends another request (REQ sockets). A kill erases the entry,
which moves the iterator on, and the loop then increments it: one subscriber is skipped. A message that
can not be parsed counts as no message. `Sends` and `Requests` say who sends what, for ever and in any
order. `silence` is a history variable, the time since something useful came from a peer of
`Watched`. `HellosAnswered` is about the request, not about what it does: it leaves the socket, whatever
it asks for and also if it is refused. What handlers do is in the other modules. A request of no bytes,
which `Responder::Poll` takes and does not answer, is left out: no part of this program sends one.

### PubSub

Filters of a SUB socket match prefixes, so that topics are sequences of letters
that end in a tab. `Subscriber::Connect` adds the guid and the channels without a tab,
`Subscriber::Subscribe` a channel with its tab. `PublishReq` drops what another proxy
has published already (`recursion`), and otherwise publishes it under the
channel. A publication may be directed to one proxy, whose nodes then get it
under the channel, or go out under the channel itself. Delivery is not certain: the PUB socket sends with
`ZMQ_DONTWAIT` and drops a message for each subscriber whose queue is at the high-water mark (`HWM`), and any
message may be lost for any proxies (`lost`), which also covers a subscription that has not arrived
yet. `Kill` is the inactivity kill or the duplicate kill; it loses what waits in the socket.
`republished` and `due` are history variables; `due` are the publications that were not dropped.

### PortBinding

Both loops, for several processes of one host. The loops test `zmq_errno()`
also when `zmq_bind` has succeeded. Whether an old error is still there is up to the
library (in zmq 3.2 processing of commands usually overwrites it), so that
`ErrnoAfterBind` leaves both open: a socket may bind several ports and tells
others the last. `undisturbed` and `greedy` are history variables: no process ended and nothing else
took a port; a socket took more than one because of an old error.

### CommandCodec

A string is its length, a message on the wire a sequence of tokens, each a tag with its
value. What the generated code does with has-bits, defaults, wire types it does not
expect, unknown fields and enum values, groups that end and input that is cut
off is kept; so are sizes, with varints of one to five and of ten bytes. The loops
of the generated code are recursive functions: `FieldsUpTo`, `TotalUpTo`, `EntryRounds` and
`CommandRounds` give the value after each field, size or tag, and the result
is the last one. A `RegistryEntry` is a message whose `reg_entry` stays empty. The state
machine is a program that uses two objects in any order. Its values are those of
`CodecAssumption`: `set_cmd` asserts that its argument is a value of the enum
(`src/command.pb.h:754`), other fields take any number, and any sequence of tokens may arrive.
`TypeOK` says more than types: a field that is not there has its default, and
no unknown field is one that could have been read. Descriptors, reflection and the ownership of
strings are left out.

## 3. Runs

| Run | Question | Properties |
|---|---|---|
| `invoke` | everything that may go wrong with one call between two proxies: stale registries, losses, bouncing, clean-ups, odd commands | `TypeOK`, `AnswersReachCaller`, `AtMostOnce`, `CallbackTablesAgree`, `ReturnPathIntact`, `RoutingInv`, `CallbackKept`, `CallbacksLeave` |
| `calm` | is every call answered when nothing fails, and by the right method? | `RightMethodAnswers`, `EveryCallAnswered` |
| `slow_call` | does the clean-up drop only dead callbacks? It does not | `OnlyDeadCallbacksPurged` (violated) |
| `registry` | stale routes, and does the protocol keep its promise? | `TypeOK`, `RoutesFresh`, `ImplementsPromise` |
| `steady` | do the time-outs of the code fit together? | `SteadyRoutes` |
| `mesh_safety` | restarts, late answers, a node on a proxy's old port, failing connects and Redis | `TypeOK`, `OneSubscriberPerPublisher`, `HelloAnswersMatch`, `NoSelfConnection` |
| `mesh_forms` | does the mesh form again after crashes and a restart? | `MeshForms`, `WaitsEnd`, `DeadEntriesLeave` |
| `loop` | who is killed; are requests answered, the periodic work done and subscribers polled although traffic does not end and others are killed in turn? | `TypeOK`, `OnlySilentKilled`, `PeriodicWorkGoesOn`, `HellosAnswered`, `EverySubscriberPolled` |
| `channels` | every order of connecting, subscribing, publishing, losing and killing | `TypeOK`, `ChannelsCovered`, `RepublishedOnce`, `DueIsWaiting` |
| `channel_prefix` | does a proxy hear only the channels it was asked for? It does not | `OnlySubscribedHeard` (violated) |
| `ports` | proxies and other programs compete for ports | `TypeOK`, `AdvertisedBound`, `AddressesDiffer`, `AloneComesUp`, `NobodyAborts` |
| `codec` | filling, clearing, merging, writing and reading messages in any order | `TypeOK`, `RoundTrip`, `SizeExact`, `MergeIsConcatenation` |

**Bounds.**

* *Invocations.* One call crossing two proxies shows every hand-over and the echo of
  stale routes; `calm` has two calls and two methods of different names, because
  there calls compete and choices can go wrong. `HWM = 1` makes every queue
  overflow. `CallbackTTL = 1` and `CleanUpPeriod = 2` keep the order TTL < period of the
  code (3 and 60): a callback can be young, expired but not yet due, and purged.
  With one call a clean-up never reaches its batch limit, so that what it leaves for the
  next one is modelled and not exercised. `CallbacksLeave` would not hold for more callbacks than the limit if
  each `INVOKE` bounces between two proxies for ever: its callback is made again and may take the
  only place in every clean-up. With the limit of the code, 100000, that takes as many bouncing calls.
* *Registries.* `registry` uses small time-outs with faults; its limit `StaleLimit` is given
  by the constants and is tight (one second less is violated). `steady` uses the
  constants of the code. There `MaxDelay = 1` is the most the time-outs allow: an
  exchange every 3 seconds, with request and answer one second late each,
  refreshes a route when it is exactly 5 seconds old, and with `MaxDelay = 2` routes flap.
  `HWM = 2` is the least queue a steady mesh needs.
* *Mesh.* A proxy, the process that succeeds it on its responder port, and a third one:
  two live proxies and a restart. In `mesh_safety` the successor has another
  publisher port and a node takes the old one, everything may fail, and hellos
  may time out while the peer is about to answer; 30 silent seconds do not
  pass there (`Quiets`), they do in `mesh_forms`, where the successor has both ports
  and the third proxy may crash too.
* *Loop.* Three peers, so that two others may be killed in turn, each kill skipping the third: a node whose
  messages may be unreadable, and two proxies. A batch is one message and one message may wait, so that a message which
  comes during a batch is left behind; one request may wait, a `NODE_HELLO` or a `PROXY_HELLO`. Every second round
  does the periodic work. The inactivity limit is two seconds and a round takes at most one, the least limit for which
  `RoundsAreShort` holds with three peers. Its bound is exact when every round does the periodic work (then a limit of one
  second violates the property without its hypothesis) and more than sufficient when fewer do, since a peer that was
  killed then comes back later (with every second round, without the hypothesis, it takes a limit of zero).
  In a proxy with N peers it asks that N - 1 rounds take no longer than the 30 seconds of
  `MAX_INACTIVE_SUBSCRIBER`; a round takes long only when `PingRedis` waits for Redis or for hellos.
  `silence` is recorded for the node only (`Watched`): peers are alike, and the theorem holds for any `Watched`.
* *Channels.* Two proxies, a node, one channel, two publications and `HWM = 2`: enough for
  a publication to go from the node to both proxies and from one to the other, for a `SUBSCRIBE` to wait in
  a socket with a `PUBLISH` before or behind it, and for queues to overflow. `channel_prefix` has the channels `a` and `ab`.
* *Ports.* Two processes with three tries, which `NobodyAborts` needs: N proxies need
  2N - 1 tries (so that the ten of the code suffice for five on one host). `NobodyAborts` also supposes that no old error
  made a socket take a second port (`greedy`); if one did, the model has behaviours in which the other proxy
  runs out of tries and fails its assertion, and so may the code. `AloneComesUp` has no such hypothesis.
* *Codec.* One string field and one number field are set freely (a length of two bytes and a
  negative number), the required ones come from six inputs: fields out of order or
  repeated, unknown enum values and fields, a wrong wire type, the end of a
  group, and input that is cut off in a message or in an entry.

**Fairness.**

* `CleanUpSpec` of `InvokeRouting`: time passes and the main loop reaches
  `CleanUpResponsesMap` (every 25 rounds, `PeriodicWorkGoesOn`).
* `CalmSpec`: the main loop polls each subscriber (`EverySubscriberPolled`, if rounds are short) and nodes read their
  messages and finish what they execute; its next-state relation leaves out losses,
  withdrawn methods and clean-ups, because with any of these the code does not
  answer every call. No fairness is assumed of registry steps or requests.
* `FairSpec` of `ProxyMesh`: weak fairness of the steps of `PingRedis`, which comes every 2 seconds
  and is never blocked for ever; strong fairness of the poll of the responder and of the kill,
  which the loop does between two pings although each ping disables them;
  weak fairness of 30 silent seconds. Nothing makes processes start or crash. `MeshForms`
  says what these do not give: that hellos stop colliding. Two proxies whose
  pings stay in step time out on each other again and again; the code has no
  random delay that would prevent it, only the drift of their clocks.
* `FairSpec` of `MainLoop`: the thread runs. Nothing makes peers send or time pass.

**Deadlock** is checked in every run but those of `ProxyMesh`, where all processes may
have crashed.

**The findings.**

* `CleanUpResponsesMap` takes every callback older than 3 seconds for
  dead (its log line says "found %i dead callbacks"), but callers may ask for
  far longer calls (`test/testCommander.js` uses a timeout of 60000 ms). In `slow_call` a node
  is executing a call when the 60-second clean-up comes by and removes its callback. The trace ends
  there; the response that the node sends afterwards finds no callback (`CallbackNotFound`) and is
  refused with "Response callback ... not found", which goes to the connection string of the
  node and so to nobody.
* `Subscriber::Connect` subscribes a new socket to the bare names of the channels, while
  `Subscriber::Subscribe` appends the tab that ends a topic. In `channel_prefix` a proxy that
  was asked for `a` makes a subscriber afterwards (a new peer, or one that was killed and
  came back), and then takes from its socket what is published on `ab`. The trace ends there;
  `PublishReq` does not compare the channel with `subscribeChannels` and would publish it again for its own nodes.

## 4. Proofs

`InvokeRoutingProofs` proves, for all sets of proxies, nodes, methods,
identifiers and calls and all bounds satisfying `RegistryAssumption` and
`RoutingAssumption` (guids of different kinds differ, `None` is none of them, the
functions have their types, queues and batches hold at least one):

| Theorem | Statement |
|---|---|
| `RoutingInvariant` | `Spec => []RoutingInv` |
| `TypeCorrect` | `Spec => []TypeOK` |
| `OnlyCallerIsAnswered` | `Spec => []AnswersReachCaller` |
| `OnlyRightMethodAnswers` | `Spec => []RightMethodAnswers` |
| `TablesStayInStep` | `Spec => []CallbackTablesAgree` |
| `CallbacksAreKept` | `Spec => CallbackKept` |

The argument. "Only the caller is answered" is not inductive: whether an answer
reaches the right node depends on the table entries it will meet, those depend on
the messages that made them, and those on the tables of earlier proxies.
`RoutingInv` ties the three together. `Truthful(s, d, msg)` says what a message on
its way from `s` to `d` must get right: it names its sender; an `INVOKE` names a call
that was made, with the identifier that was asked for, comes from the caller if it
comes from a node, and names a fitting method if it goes to a node; a response
names a call, carries a fitting result, and is addressed to the caller if it is addressed
to a node. `CallbacksLeadToCaller`, `WorkTruthful` and `AnswersTruthful` say the same of
tables, executing nodes and received answers; `Silent` says that no process has
messages for itself, which `CallbackKept` needs. `RoutesWereAdvertised` (in `RegistryPromise`) says that a route leads to another proxy that has held the
method, so that no proxy sends an `INVOKE` to itself. Truth only grows (`TruthGrows`): a
call keeps the command it was issued with, and what was advertised stays so in the
history. `PublishKeeps` and `PollKeeps` reduce every handler to one question,
whether the message it sends is truthful; there is one lemma per handler
and node action. The type invariant is part of `RoutingInv` because a node's
record of an invocation is well-typed only if the `INVOKE` was truthful.

`InvokePathProofs` goes on, under the same assumptions:

| Theorem | Statement |
|---|---|
| `ServedAndAnsweredOnce` | `Spec => []AtMostOnce` |
| `ReturnPathStaysIntact` | `Spec => []ReturnPathIntact` |

The argument. `PathInvariant` adds to `RoutingInv` that a call is a token
(`PathInv`): it is at one place, as a message under way (`OneToken`), as the work of one node
(`WorkOK`) or as the answer its caller has, and a handler moves it. That proxies may meet
a call again does not multiply it. Beside the token goes the return path: until a
clean-up purges one of the callbacks of the call, a proxy that forwarded the
call, the proxy for which a node works and the one to which an answer is addressed are in
`BackToCaller` (`PathOK`), and while the call is still on its way out so is every proxy with
a callback for it (`CallbacksComplete`). `BackToCaller` is the least set that is closed under
"its callback names the caller, or a proxy of the set" (`ClosedBackwards`). This
needs no rank: an answer takes the callback of the proxy it passes, and `RememberCaller`
does not replace one, so that the set of a proxy further on changes only where the call
has been.

`RegistryProofs` proves, for all time-outs and delays (`TimingAssumption`: they are natural numbers,
a queue holds at least one message, methods have the proxies they register at, `None` is no
age, guid or route):

| Theorem | Statement |
|---|---|
| `RegistryTypeCorrect` | `Spec => []TypeOK` |
| `RoutesAreFresh` | `Spec => []RoutesFresh` |
| `ExchangeKeepsPromise` | `Spec => ImplementsPromise` |

The argument. `RegistryInv` says of every message under way that it names its sender, carries
only methods that the sender has held, and none whose last registration is older than `LocalTTL`,
one second and the age of the message (`TrueMessages`); of every local and remote entry the
same, with its own age in the place of the message's (`LocalFresh`, `RemoteFresh`). The
saturated ages are exact because a health check comes before every `Tick`. The bound of `RoutesFresh` is
the sum along the longest chain: local entry, message, remote entry. For the refinement every step
maps to `Offer`, `Expire`, `Learn` or a stutter; `Learn` asks that what a registry names was
advertised by its sender, which is what `TrueMessages` says.

`RegistryProofs` also proves `RoutesAreSteady`: if `SteadyTiming` then `SteadySpec => []SteadyRoutes`.
`SteadyTiming` is a hypothesis and no assumption, since time-outs may be chosen otherwise and routes
then flap: twice the delay is less than the exchange period, the exchange period and twice the
delay do not exceed `RemoteTTL`, and a queue holds two messages. The 3 and 5 seconds of the code
satisfy it for a delay of one second (the `steady` run) and of none. The invariant
`SteadyInv` follows one exchange: between two proxies there is at most one request and
one answer, which are as old as the exchange that began them allows, and a route
was refreshed by the last exchange, or by the last but one while the answer is on its way.

`ProxyMeshProofs` proves, for all processes and addresses (`MeshAssumption`: `None` is no process, guids are no
connection strings, the switches are Boolean):

| Theorem | Statement |
|---|---|
| `MeshTypeCorrect` | `Spec => []TypeOK` |
| `NoDoubleSubscription` | `Spec => []OneSubscriberPerPublisher` |
| `AnswersBelongToHellos` | `Spec => []HelloAnswersMatch` |
| `NeverConnectedToItself` | `Spec => []NoSelfConnection` |

The argument. `MeshInv` adds: nothing is left of a process that ended (`EndedIsReset`); running
processes have different ports (`PortsDistinct`); the only open request of a proxy is the one it
waits for, at the address of its target (`OpenHellos`); who listens there is in its history `met`
(`MetListens`); and an answer is never the proxy's own publisher (`AnswersAreOthers`). A late answer to an
earlier hello goes to a closed socket, so it cannot be taken for the present one.

`MainLoopProofs` proves, for all numbers of peers and all bounds (`MainLoopAssumption`: batch, period and queue are at
least one, peers are finitely many, each sends good or bad messages and hellos, `None` is no peer):

| Theorem | Statement |
|---|---|
| `LoopTypeCorrect` | `Spec => []TypeOK` |
| `OnlySilentAreKilled` | `Spec => OnlySilentKilled` |

The argument. The decision to kill uses a clock read at the start of the round and
`lastActiveTime`, while the property speaks of what the peer did. `LoopInv` relates them:
who may be killed in this round is still inactive, since a message takes it off `idle` (`IdleAreOld`), and a
watched peer with nothing readable waiting has been silent as long as the loop believes
(`UnheardAreSilent`).

`PubSubProofs` proves, for all proxies, nodes, channels and numbers of publications (`PubSubAssumption`: a
channel is a sequence of letters that is not empty, the bounds are numbers):

| Theorem | Statement |
|---|---|
| `PubSubInvariant` | `Spec => []PubSubInv` |
| `PubSubTypeCorrect` | `Spec => []TypeOK` |
| `EveryChannelHeard` | `Spec => []ChannelsCovered` |
| `PublishedAgainOnce` | `Spec => []RepublishedOnce` |
| `DueWaitsForTheProxy` | `Spec => []DueIsWaiting` |

`DueIsWaiting` is about the proxy, not about the transport: what the PUB socket dropped is not `due`, and
what is due disappears only when it is handed on or with the socket of a subscriber that is killed. So no
order of `SUBSCRIBE`, connections and kills makes a handler lose a publication or take one for a copy that
another proxy has published.

The argument. `FiltersOK` says that every socket has a filter for the guid and one for each
channel, with the tab or without; both are prefixes of the topic with its tab (`TopicPasses`). `OnceInv`
speaks of the messages of one publication that are fresh, that is, not yet published by a proxy: in
the sockets of a proxy there is at most one, and as long as it is there the proxy has not published
it; what is due is one of them. Everything that happens to a socket is a message
taken, a message appended or the whole socket closed (`PopCarries`, `PushCarries`, `ClearCarries`), and
`OnceKept` disposes of all cases in which that has nothing to do with the publication.

`PortBindingProofs` proves, for all finite sets of processes and all numbers of tries
(`PortAssumption`: ports are numbers, there is at least one try, the processes of a host are
finitely many, owners differ from `None` and `Other`):

| Theorem | Statement |
|---|---|
| `BindTypeCorrect` | `Spec => []TypeOK` |
| `BindingCorrect` | `Spec => [](TypeOK /\ AdvertisedBound)` |
| `AddressesAlwaysDiffer` | `Spec => []AddressesDiffer` |
| `ALoneProxyComesUp` | `Spec => []AloneComesUp` |
| `TogetherTheyComeUp` | `Spec => []NobodyAborts` |

The argument. A socket binds only a free port (`BindKeeps`), and a port leaves its owner only
with the process (`UnboundKeeps`); so the port a loop ends with stays bound, whatever
others do. `TypeOK` is needed beside it because a loop must not leave the range of ports:
it says that the port tried is the first one plus the retries counted. Different addresses
follow because a port has one owner. `AloneInv`: what a lone responder has taken is below the port
it tries, and a lone publisher meets only ports of its own loop and those of the responder, which end one
before its own range does. This holds however many ports an old error makes a socket take. `NobodyAborts` is a pigeonhole
argument: while nothing disturbs them and no socket takes a second port (`CalmInv`), every port below the one a process tries is taken, also below the
first port of its second loop, and each by another socket (`TakenPorts`). On its last try there would have to be
more sockets than N processes have, less those of this process that are not yet bound
(`LastTryIsFree`).

`CommandCodecProofs` proves, for messages with any number of registry entries and unknown fields, strings of
any length and any input (`CodecAssumption`, see section 2):

| Theorem | Statement |
|---|---|
| `CodecTypeCorrect` | `Spec => []TypeOK` |
| `CodecRoundTrip` | `Spec => []RoundTrip` |
| `CodecSizeExact` | `Spec => []SizeExact` |
| `CodecMergeIsConcatenation` | `Spec => []MergeIsConcatenation` |

The argument. `TypeOK` is inductive and the other properties follow from it; the work
is in the operators, which hold for every message that is well-formed. Their loops need induction. The
library's induction theorems take an operator, which the provers cannot instantiate, so `Induction` and
`SequenceInduction` state it for a *set* of numbers or sequences, from the fact that `<` on the naturals is
well-founded; `Recursion` shows by it that the recursive functions exist, so that each satisfies its
equation (the `...Def` lemmas). With these, reading is a matter of one token after
another (`EntryMergeAppend`, `CommandMergeAppend`). `MergedUpTo` is the message after the first `f` fields of
another were read on top of it: a written field takes it to the next (`MergedStep`), a token of an unknown
field is kept as unknown (`ForeignStep`, which is why `TypeOK` has to say that unknown fields are
foreign), and the token of an entry adds that entry (`EntryStep`). Together this is
`CommandMergeIsConcatenation`: reading what was written is `MergeFrom`. The round trip is the case of a new
message, into which merging is copying. Sizes are sums over the tokens (`SumOf`), field by
field and entry by entry. What both messages have in common is said once, for every `Schema(kinds, valid)`.

Every inductive invariant was checked with TLC on the instance of its component before it was proved.

Only model-checked: the liveness properties (`CallbacksLeave`, `EveryCallAnswered`, `MeshForms`, `WaitsEnd`,
`DeadEntriesLeave`, `PeriodicWorkGoesOn`, `HellosAnswered`, `EverySubscriberPolled`), since fairness and
`ENABLED` are beyond the prover.

## 5. Plan, and what is not modelled

Worth proving next: action properties of the components that the invariants now give, for instance that only
a kill takes a channel from a connection, and that a return path once complete is not redirected.

Not modelled: `GenerateGuid` (random; guids are taken to differ), `GenerateLongGuid` and `timestamp`
(unused), `mix` (a seed), `split` of a Redis entry (an entry is its guid); the launcher and
the V8 binding (no state); hiredis (vendored); descriptors and reflection of the generated code;
memory errors below the level of the model.
