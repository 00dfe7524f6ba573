------------------------------ MODULE Registry ------------------------------
(***************************************************************************)
(* The method registries of the proxies and the protocol that spreads      *)
(* them: nodes register methods at their proxy, every proxy asks the       *)
(* proxies it knows for their registry every ExchangePeriod seconds, and   *)
(* entries that nobody refreshes expire.                                   *)
(*                                                                         *)
(* Times are ages in seconds, saturated just above the largest value they  *)
(* are compared with.  The main loop of a proxy runs its periodic work at  *)
(* least once per second, and a message is handled at most MaxDelay        *)
(* seconds after it was published or not at all: Tick waits for both.      *)
(***************************************************************************)
EXTENDS Integers, Sequences

CONSTANTS
  Proxies, Nodes, Methods, Identifiers, Owner, Provides, None,
                  \* as in RegistryPromise
  RegistersAt,    \* RegistersAt[m]: the proxies m's node registers m at
  LocalTTL,       \* 10 in the code: age above which a local method is dropped
  RemoteTTL,      \* 5 in the code: age above which a route is dropped
  ExchangePeriod, \* 3 in the code: seconds between two registry exchanges
  MaxDelay,       \* bound on the delay of a message, in seconds
  HWM             \* messages a PUB socket keeps per subscriber

(* An entry of remoteInvokeMethods. *)
Route == [proxyGuid: Proxies, lastCheckTime: 0..(RemoteTTL + 1)]

ASSUME TimingAssumption ==
  /\ RegistersAt \in [Methods -> SUBSET Proxies]
  /\ None \notin Proxies \cup Nat /\ None \notin Route
  /\ LocalTTL \in Nat
  /\ RemoteTTL \in Nat
  /\ ExchangePeriod \in Nat
  /\ MaxDelay \in Nat
  /\ HWM \in Nat \ {0}

VARIABLES
  up,                   \* up[p]: p's process is running
  heard,                \* heard[p]: proxies whose publisher p is subscribed to
  proxiesGuids,         \* proxiesGuids[p]: proxies p asks; never shrinks
  localInvokeMethods,   \* [p][m]: age of lastCheckTime, or None
  remoteInvokeMethods,  \* [p][m]: proxyGuid and age of lastCheckTime, or None
  lastRegistryExchange, \* [p]: seconds since p's last exchange request
  chan,                 \* chan[s][d]: messages from s for d, with their age
  looped,               \* looped[p]: p did its periodic work in this second
  advertised,           \* [p]: methods for which p published REGISTER_INVOKE_OK
  heldFor,              \* [p][m]: how long p has held m without a break (history)
  sinceRegistered       \* [m]: seconds since m was last registered (history)

netVars == <<up, heard, proxiesGuids>>
historyVars == <<advertised, heldFor, sinceRegistered>>
vars == <<netVars, localInvokeMethods, remoteInvokeMethods,
          lastRegistryExchange, chan, looped, historyVars>>
----------------------------------------------------------------------------
Older(age, limit) == IF age < limit THEN age + 1 ELSE age

(* Longest time for which a method can be routed to after its node stopped *)
(* registering it, and for which a new method can be unknown.              *)
StaleLimit == (LocalTTL + 1) + MaxDelay + (RemoteTTL + 1)
LearnLimit == ExchangePeriod + 2 * MaxDelay

RegistryMessage(cmd, source, entries) ==
  [cmd |-> cmd, source_proxy_guid |-> source, reg_entry |-> entries, age |-> 0]

(* s publishes msg on the topic of each proxy in targets. *)
Publish(ch, s, targets, msg) ==
  [ch EXCEPT ![s] = [d \in Proxies |->
     IF /\ d \in targets /\ up[d]
        /\ s \in heard[d]
        /\ Len(@[d]) < HWM
     THEN Append(@[d], msg)
     ELSE @[d]]]

Poll(s, d) == [chan EXCEPT ![s][d] = Tail(@)]

(* Mutant of Held: learned methods are passed on as well. *)
HeldOrRouted(p) ==
  {m \in Methods : localInvokeMethods[p][m] # None \/ remoteInvokeMethods[p][m] # None}

(* The methods in the vectors of localInvokeMethods. *)
Held(p) == {m \in Methods : localInvokeMethods[p][m] # None}
----------------------------------------------------------------------------
(* Proxy::RegisterInvoke, for a node that registers m for the first time,  *)
(* registers it again to keep it, or after p dropped it.                   *)
RegisterInvoke(p, m) ==
  /\ up[p] /\ p \in RegistersAt[m]
  /\ localInvokeMethods' = [localInvokeMethods EXCEPT ![p][m] = 0]
  /\ advertised' = [advertised EXCEPT ![p] = @ \cup {m}]
  /\ heldFor' = [heldFor EXCEPT ![p][m] =
                   IF localInvokeMethods[p][m] = None THEN 0 ELSE @]
  /\ sinceRegistered' = [sinceRegistered EXCEPT ![m] = 0]
  /\ UNCHANGED <<netVars, remoteInvokeMethods, lastRegistryExchange, chan,
                 looped>>

(* Mutant of RegistryExchangeResponder: answers with both maps. *)
WholeExchangeResponder(p, s) ==
  /\ up[p] /\ chan[s][p] # <<>>
  /\ LET req == Head(chan[s][p]) IN
       /\ req.cmd = "REGISTRY_EXCHANGE_REQUEST"
       /\ chan' = Publish(Poll(s, p), p, {req.source_proxy_guid},
                    RegistryMessage("REGISTRY_EXCHANGE_RESPONSE", p,
                                    HeldOrRouted(p)))
  /\ UNCHANGED <<netVars, localInvokeMethods, remoteInvokeMethods,
                 lastRegistryExchange, looped, historyVars>>

(* Proxy::RegistryExchangeResponder *)
RegistryExchangeResponder(p, s) ==
  /\ up[p] /\ chan[s][p] # <<>>
  /\ LET req == Head(chan[s][p]) IN
       /\ req.cmd = "REGISTRY_EXCHANGE_REQUEST"
       /\ chan' = Publish(Poll(s, p), p, {req.source_proxy_guid},
                    RegistryMessage("REGISTRY_EXCHANGE_RESPONSE", p, Held(p)))
  /\ UNCHANGED <<netVars, localInvokeMethods, remoteInvokeMethods,
                 lastRegistryExchange, looped, historyVars>>

(* Mutant of RemoteRegistryUpdate: the proxyGuid is not stored. *)
RemoteRegistryUpdateNoGuid(p, s) ==
  /\ up[p] /\ chan[s][p] # <<>>
  /\ LET req == Head(chan[s][p]) IN
       /\ req.cmd = "REGISTRY_EXCHANGE_RESPONSE"
       /\ remoteInvokeMethods' = [remoteInvokeMethods EXCEPT ![p] =
            [m \in Methods |->
               IF m \notin req.reg_entry THEN @[m]
               ELSE [proxyGuid |-> None, lastCheckTime |-> 0]]]
  /\ chan' = Poll(s, p)
  /\ UNCHANGED <<netVars, localInvokeMethods, lastRegistryExchange, looped,
                 historyVars>>

(* Proxy::RemoteRegistryUpdate: an entry found by its method guid is       *)
(* refreshed and keeps its proxyGuid.                                      *)
RemoteRegistryUpdate(p, s) ==
  /\ up[p] /\ chan[s][p] # <<>>
  /\ LET req == Head(chan[s][p]) IN
       /\ req.cmd = "REGISTRY_EXCHANGE_RESPONSE"
       /\ remoteInvokeMethods' = [remoteInvokeMethods EXCEPT ![p] =
            [m \in Methods |->
               IF m \notin req.reg_entry THEN @[m]
               ELSE [proxyGuid |-> IF @[m] = None THEN req.source_proxy_guid
                                   ELSE @[m].proxyGuid,
                     lastCheckTime |-> 0]]]
  /\ chan' = Poll(s, p)
  /\ UNCHANGED <<netVars, localInvokeMethods, lastRegistryExchange, looped,
                 historyVars>>
----------------------------------------------------------------------------
(* The periodic part of Proxy::MainLoop, in the order of the code. *)

RemoteRegistryHealthCheck(p) ==
  remoteInvokeMethods' = [remoteInvokeMethods EXCEPT ![p] =
    [m \in Methods |->
       IF @[m] # None /\ @[m].lastCheckTime > RemoteTTL THEN None ELSE @[m]]]

LocalRegistryHealthCheck(p) ==
  localInvokeMethods' = [localInvokeMethods EXCEPT ![p] =
    [m \in Methods |->
       IF @[m] # None /\ @[m] > LocalTTL THEN None ELSE @[m]]]

(* Mutant of RequestRegistryExchange: <= in place of <. *)
RequestRegistryExchangeLate(p) ==
  IF lastRegistryExchange[p] <= ExchangePeriod
  THEN UNCHANGED <<chan, lastRegistryExchange>>
  ELSE /\ chan' = Publish(chan, p, proxiesGuids[p],
                    RegistryMessage("REGISTRY_EXCHANGE_REQUEST", p, {}))
       /\ lastRegistryExchange' = [lastRegistryExchange EXCEPT ![p] = 0]

RequestRegistryExchange(p) ==
  IF lastRegistryExchange[p] < ExchangePeriod
  THEN UNCHANGED <<chan, lastRegistryExchange>>
  ELSE /\ chan' = Publish(chan, p, proxiesGuids[p],
                    RegistryMessage("REGISTRY_EXCHANGE_REQUEST", p, {}))
       /\ lastRegistryExchange' = [lastRegistryExchange EXCEPT ![p] = 0]

Housekeeping(p) ==
  /\ up[p]
  /\ RemoteRegistryHealthCheck(p)
  /\ LocalRegistryHealthCheck(p)
  /\ RequestRegistryExchange(p)
  /\ looped' = [looped EXCEPT ![p] = TRUE]
  /\ UNCHANGED <<netVars, historyVars>>
----------------------------------------------------------------------------
(* The environment: connections, losses, crashes, time *)

(* Proxy::ConnectToAnotherProxy after q answered the hello: p subscribes   *)
(* to q, to which it had no subscriber.                                    *)
Connect(p, q) ==
  /\ p # q /\ up[p] /\ up[q] /\ q \notin heard[p]
  /\ heard' = [heard EXCEPT ![p] = @ \cup {q}]
  /\ proxiesGuids' = [proxiesGuids EXCEPT ![p] = @ \cup {q}]
  /\ UNCHANGED <<up, localInvokeMethods, remoteInvokeMethods,
                 lastRegistryExchange, chan, looped, historyVars>>

(* p's main loop deletes its subscriber for q, and what was queued is      *)
(* gone.  When q counts as inactive is left open here.                     *)
Disconnect(p, q) ==
  /\ up[p] /\ q \in heard[p]
  /\ heard' = [heard EXCEPT ![p] = @ \ {q}]
  /\ chan' = [chan EXCEPT ![q][p] = <<>>]
  /\ UNCHANGED <<up, proxiesGuids, localInvokeMethods, remoteInvokeMethods,
                 lastRegistryExchange, looped, historyVars>>

Lose(s, d) ==
  /\ chan[s][d] # <<>>
  /\ chan' = Poll(s, d)
  /\ UNCHANGED <<netVars, localInvokeMethods, remoteInvokeMethods,
                 lastRegistryExchange, looped, historyVars>>

Crash(p) ==
  /\ up[p]
  /\ up' = [up EXCEPT ![p] = FALSE]
  /\ chan' = [s \in Proxies |-> [chan[s] EXCEPT ![p] = <<>>]]
  /\ UNCHANGED <<heard, proxiesGuids, localInvokeMethods, remoteInvokeMethods,
                 lastRegistryExchange, looped, historyVars>>

Tick ==
  /\ \A p \in Proxies : up[p] => looped[p]
  /\ \A s, d \in Proxies : \A i \in 1..Len(chan[s][d]) :
       chan[s][d][i].age < MaxDelay
  /\ looped' = [p \in Proxies |-> FALSE]
  /\ localInvokeMethods' = [p \in Proxies |-> [m \in Methods |->
       IF localInvokeMethods[p][m] = None THEN None
       ELSE Older(localInvokeMethods[p][m], LocalTTL + 1)]]
  /\ remoteInvokeMethods' = [p \in Proxies |-> [m \in Methods |->
       IF remoteInvokeMethods[p][m] = None THEN None
       ELSE [remoteInvokeMethods[p][m] EXCEPT
               !.lastCheckTime = Older(@, RemoteTTL + 1)]]]
  /\ lastRegistryExchange' =
       [p \in Proxies |-> Older(lastRegistryExchange[p], ExchangePeriod)]
  /\ chan' = [s \in Proxies |-> [d \in Proxies |->
       [i \in 1..Len(chan[s][d]) |-> [chan[s][d][i] EXCEPT !.age = @ + 1]]]]
  /\ heldFor' = [p \in Proxies |-> [m \in Methods |->
       Older(heldFor[p][m], LearnLimit + 1)]]
  /\ sinceRegistered' = [m \in Methods |->
       Older(sinceRegistered[m], StaleLimit + 1)]
  /\ UNCHANGED <<netVars, advertised>>
----------------------------------------------------------------------------
(* lastRegistryExchange starts at the epoch, long ago.  Before the first   *)
(* registration sinceRegistered counts as long ago too.                    *)
EmptyRegistries ==
  /\ up = [p \in Proxies |-> TRUE]
  /\ localInvokeMethods = [p \in Proxies |-> [m \in Methods |-> None]]
  /\ remoteInvokeMethods = [p \in Proxies |-> [m \in Methods |-> None]]
  /\ lastRegistryExchange = [p \in Proxies |-> ExchangePeriod]
  /\ chan = [s \in Proxies |-> [d \in Proxies |-> <<>>]]
  /\ looped = [p \in Proxies |-> FALSE]
  /\ advertised = [p \in Proxies |-> {}]
  /\ heldFor = [p \in Proxies |-> [m \in Methods |-> 0]]
  /\ sinceRegistered = [m \in Methods |-> StaleLimit + 1]

Init ==
  /\ EmptyRegistries
  /\ heard = [p \in Proxies |-> {}]
  /\ proxiesGuids = [p \in Proxies |-> {}]

ProxyStep ==
  \/ \E p \in Proxies, m \in Methods : RegisterInvoke(p, m)
  \/ \E p, s \in Proxies : RegistryExchangeResponder(p, s)
  \/ \E p, s \in Proxies : RemoteRegistryUpdate(p, s)
  \/ \E p \in Proxies : Housekeeping(p)

Faults ==
  \/ \E p, q \in Proxies : Disconnect(p, q)
  \/ \E s, d \in Proxies : Lose(s, d)
  \/ \E p \in Proxies : Crash(p)

Next ==
  \/ ProxyStep
  \/ Faults
  \/ \E p, q \in Proxies : Connect(p, q)
  \/ Tick

Spec == Init /\ [][Next]_vars

(* A steady mesh: every proxy is connected to every other one, and nothing *)
(* fails.                                                                  *)
SteadyInit ==
  /\ EmptyRegistries
  /\ heard = [p \in Proxies |-> Proxies \ {p}]
  /\ proxiesGuids = [p \in Proxies |-> Proxies \ {p}]

SteadySpec == SteadyInit /\ [][ProxyStep \/ Tick]_vars
----------------------------------------------------------------------------
(* Properties *)

RegistryCommand ==
  [cmd: {"REGISTRY_EXCHANGE_REQUEST", "REGISTRY_EXCHANGE_RESPONSE"},
   source_proxy_guid: Proxies, reg_entry: SUBSET Methods, age: 0..MaxDelay]

(* Every variable has its type; ages never exceed their saturation value. *)
TypeOK ==
  /\ up \in [Proxies -> BOOLEAN]
  /\ heard \in [Proxies -> SUBSET Proxies]
  /\ proxiesGuids \in [Proxies -> SUBSET Proxies]
  /\ localInvokeMethods \in [Proxies -> [Methods -> (0..(LocalTTL + 1)) \cup {None}]]
  /\ remoteInvokeMethods \in [Proxies -> [Methods -> Route \cup {None}]]
  /\ lastRegistryExchange \in [Proxies -> 0..ExchangePeriod]
  /\ chan \in [Proxies -> [Proxies -> Seq(RegistryCommand)]]
  /\ looped \in [Proxies -> BOOLEAN]
  /\ advertised \in [Proxies -> SUBSET Methods]
  /\ heldFor \in [Proxies -> [Methods -> 0..(LearnLimit + 1)]]
  /\ sinceRegistered \in [Methods -> 0..(StaleLimit + 1)]

(* Soft state dies out: once the nodes stopped registering a method        *)
(* anywhere, no running proxy keeps a route to it for longer than          *)
(* StaleLimit, whatever was lost, delayed, disconnected or crashed         *)
(* meanwhile (RemoteRegistryHealthCheck, LocalRegistryHealthCheck, and     *)
(* RegistryExchangeResponder, which must not revive an expired method).    *)
RoutesFresh ==
  \A p \in Proxies, m \in Methods :
    up[p] /\ remoteInvokeMethods[p][m] # None => sinceRegistered[m] <= StaleLimit

(* In a steady mesh a method that a proxy has held for LearnLimit seconds  *)
(* is routable from every other proxy, and does not flap: the exchange     *)
(* period and the time-outs of the code leave just enough room for a       *)
(* delay of MaxDelay seconds.                                              *)
SteadyRoutes ==
  \A p, q \in Proxies, m \in Methods :
    p # q /\ localInvokeMethods[q][m] # None /\ heldFor[q][m] > LearnLimit
      => remoteInvokeMethods[p][m] # None

(* The exchange protocol keeps the promise on which InvokeRouting builds. *)
Promise == INSTANCE RegistryPromise WITH
  offers <- [p \in Proxies |-> Held(p)],
  routes <- [p \in Proxies |-> [m \in Methods |->
               IF remoteInvokeMethods[p][m] = None THEN None
               ELSE remoteInvokeMethods[p][m].proxyGuid]]

(* Every step of the exchange protocol, however delayed the messages it    *)
(* handles, is a step that RegistryPromise allows: a proxy learns only     *)
(* what another one advertised, and an entry keeps its proxyGuid.          *)
ImplementsPromise == Promise!RegistrySpec
=============================================================================
