----------------------------- MODULE ProxyMesh -----------------------------
(***************************************************************************)
(* How the proxies find each other and keep their connections: the Redis   *)
(* set ZSET:PROXIES, the hello between Requester and Responder with its    *)
(* 250 ms time-out, the subscribers map and the kill of inactive           *)
(* subscribers.                                                            *)
(*                                                                         *)
(* A guid is one process of a proxy: a restarted proxy is another guid,    *)
(* perhaps at the same addresses.  PingRedis is cut into steps where it    *)
(* waits for Redis or for another proxy; all else runs to its end.  While  *)
(* a proxy waits for a hello it polls nothing.                             *)
(***************************************************************************)
EXTENDS FiniteSets

CONSTANTS
  Guids,      \* proxy processes, by guid
  Nodes,      \* node processes, by guid
  RespAddr,   \* RespAddr[g]: host and port of g's REP socket
  PubAddr,    \* PubAddr[g]: host and port of g's PUB socket
  NodeConn,   \* NodeConn[n]: address of n's PUB socket
  MayFail,    \* zmq_connect may fail, connections to Redis may break
  Mortal,     \* guids of processes that may crash by themselves
  Quiets,     \* 30 seconds without a message may pass
  Prompt,     \* a proxy that is not blocked answers a hello within 250 ms
  None

RespAddrs == {RespAddr[g] : g \in Guids}
Conns == {PubAddr[g] : g \in Guids} \cup {NodeConn[n] : n \in Nodes}
Keys == Guids \cup {NodeConn[n] : n \in Nodes}

ASSUME MeshAssumption ==
  /\ {MayFail, Prompt, Quiets} \subseteq BOOLEAN
  /\ Mortal \subseteq Guids
  /\ None \notin Guids \cup Conns
  /\ Guids \cap Conns = {}

VARIABLES
  started,      \* guids that were ever used
  up,           \* guids of running processes
  zset,         \* members of ZSET:PROXIES; an entry guid#address is its guid
  redisCtx,     \* redisCtx[g]: g's connection to Redis is usable
  subscribers,  \* subscribers[g][key]: connectString, or None
  proxiesGuids, \* peers to which g publishes exchange requests
  nodesGuids,   \* nodes that said hello to g
  quiet,        \* quiet[g]: keys with lastActiveTime more than 30 s ago
  pc,           \* where in MainLoop g is: "loop", "read", "scan", "wait"
  todo,         \* elements of the ZREVRANGE reply g has not looked at
  target,       \* the guid g sends a hello to, or None
  hellos,       \* hellos[a]: requests for the REP socket at a, by requester
                \* and whether the REQ socket they came from is still open
  answer,       \* the connection string a hello was answered with, or None
  met           \* history: processes that listened where p's hello went to
                \* at some time since it was sent

procVars == <<started, up, redisCtx>>
helloVars == <<hellos, answer, met>>
subVars == <<subscribers, proxiesGuids, nodesGuids, quiet>>
pingVars == <<pc, todo, target>>
vars == <<procVars, zset, subVars, pingVars, helloVars>>
----------------------------------------------------------------------------
(* The process of proxy that listens at a, as a set of at most one element. *)
At(a) == {q \in up : RespAddr[q] = a}

(* Mutant of WithoutDuplicate: the previous subscriber is left alone. *)
KeepDuplicate(subs, conn) == {subs}

(* The loop "Duplicate connection to ..., kill the previous one": the      *)
(* first subscriber with the same connectString goes.                      *)
WithoutDuplicate(subs, conn) ==
  LET same == {k \in Keys : subs[k] = conn}
  IN  IF same = {} THEN {subs} ELSE {[subs EXCEPT ![k] = None] : k \in same}

(* insert of std::unordered_map, which does not overwrite. *)
Insert(subs, key, conn) == IF subs[key] = None THEN [subs EXCEPT ![key] = conn]
                           ELSE subs

(* A new Subscriber replaces those with its connectString. *)
AddSubscriber(p, key, conn) ==
  \E subs \in WithoutDuplicate(subscribers[p], conn) :
    /\ subscribers' = [subscribers EXCEPT ![p] = Insert(subs, key, conn)]
    /\ quiet' = [quiet EXCEPT ![p] = {k \in @ \ {key} : subs[k] # None}]

(* Mutant of CloseRequester: the socket outlives its hello. *)
KeepRequester(p) == hellos

(* delete requester: whatever answers come for this socket are dropped. *)
CloseRequester(p) ==
  [a \in RespAddrs |-> IF <<p, "open">> \in hellos[a]
                       THEN (hellos[a] \ {<<p, "open">>}) \cup {<<p, "closed">>}
                       ELSE hellos[a]]

(* What is left of a process that ends. *)
Dies(p) ==
  /\ up' = up \ {p}
  /\ subscribers' = [subscribers EXCEPT ![p] = [k \in Keys |-> None]]
  /\ proxiesGuids' = [proxiesGuids EXCEPT ![p] = {}]
  /\ nodesGuids' = [nodesGuids EXCEPT ![p] = {}]
  /\ quiet' = [quiet EXCEPT ![p] = {}]
  /\ pc' = [pc EXCEPT ![p] = "loop"]
  /\ todo' = [todo EXCEPT ![p] = {}]
  /\ target' = [target EXCEPT ![p] = None]
  /\ hellos' = [CloseRequester(p) EXCEPT ![RespAddr[p]] = {}]
  /\ answer' = [answer EXCEPT ![p] = None]
  /\ met' = [met EXCEPT ![p] = {}]
----------------------------------------------------------------------------
(* Proxy::PingRedis and Proxy::ConnectToAnotherProxy *)

(* Mutant of PingRedis: only a proxy without subscribers says where it is. *)
PingRedisAlone(p) ==
  /\ p \in up /\ pc[p] = "loop"
  /\ redisCtx[p]
  /\ zset' = IF \A k \in Keys : subscribers[p][k] = None THEN zset \cup {p}
             ELSE zset
  /\ pc' = [pc EXCEPT ![p] = "read"]
  /\ UNCHANGED <<procVars, subVars, todo, target, helloVars>>

(* ZADD; the reply is freed without a look at it, so that a proxy that     *)
(* lost Redis ends here.                                                   *)
PingRedis(p) ==
  /\ p \in up /\ pc[p] = "loop"
  /\ redisCtx[p]
  /\ zset' = zset \cup {p}
  /\ pc' = [pc EXCEPT ![p] = "read"]
  /\ UNCHANGED <<procVars, subVars, todo, target, helloVars>>

PingRedisFails(p) ==
  /\ p \in up /\ pc[p] \in {"loop", "read"} /\ ~redisCtx[p]
  /\ Dies(p)
  /\ UNCHANGED <<started, redisCtx, zset>>

(* ZREVRANGE.  The scores are the clocks of different hosts in whole       *)
(* seconds, so that entries may come in any order; an answer that is not   *)
(* an array counts for none.                                               *)
ReadProxies(p) ==
  /\ p \in up /\ pc[p] = "read" /\ redisCtx[p]
  /\ \E reply \in IF MayFail THEN {zset, {}} ELSE {zset} :
       todo' = [todo EXCEPT ![p] = reply]
  /\ pc' = [pc EXCEPT ![p] = "scan"]
  /\ UNCHANGED <<procVars, zset, subVars, target, helloVars>>

(* The reply of ZREM is not used: a lost connection only leaves the entry. *)
ZRem(p, g) == zset' = IF redisCtx[p] THEN zset \ {g} ELSE zset

(* An entry that is this proxy, or one that has its subscriber. *)
SkipEntry(p, g) ==
  /\ p \in up /\ pc[p] = "scan" /\ g \in todo[p]
  /\ g = p \/ subscribers[p][g] # None
  /\ todo' = [todo EXCEPT ![p] = @ \ {g}]
  /\ UNCHANGED <<procVars, zset, subVars, pc, target, helloVars>>

(* Mutant of OwnAddress: an entry with another guid is another proxy. *)
OwnAddressNever(p, g) == FALSE

(* "found me in registry, but with wrong guid" *)
OwnAddress(p, g) == RespAddr[g] = RespAddr[p]

RemoveOldSelf(p, g) ==
  /\ p \in up /\ pc[p] = "scan" /\ g \in todo[p] \ {p}
  /\ subscribers[p][g] = None
  /\ OwnAddress(p, g)
  /\ ZRem(p, g)
  /\ todo' = [todo EXCEPT ![p] = @ \ {g}]
  /\ UNCHANGED <<procVars, subVars, pc, target, helloVars>>

(* Requester::Connect and the sending half of Requester::SendProxyHello *)
SendProxyHello(p, g) ==
  /\ p \in up /\ pc[p] = "scan" /\ g \in todo[p] \ {p}
  /\ subscribers[p][g] = None
  /\ ~OwnAddress(p, g)
  /\ todo' = [todo EXCEPT ![p] = @ \ {g}]
  /\ hellos' = [hellos EXCEPT ![RespAddr[g]] = @ \cup {<<p, "open">>}]
  /\ pc' = [pc EXCEPT ![p] = "wait"]
  /\ target' = [target EXCEPT ![p] = g]
  /\ met' = [met EXCEPT ![p] = At(RespAddr[g])]
  /\ UNCHANGED <<procVars, zset, subVars, answer>>

(* Requester::Connect fails *)
RequesterFails(p, g) ==
  /\ MayFail
  /\ p \in up /\ pc[p] = "scan" /\ g \in todo[p] \ {p}
  /\ subscribers[p][g] = None
  /\ ~OwnAddress(p, g)
  /\ ZRem(p, g)
  /\ todo' = [todo EXCEPT ![p] = @ \ {g}]
  /\ UNCHANGED <<procVars, subVars, pc, target, helloVars>>

HelloDone(p) ==
  /\ pc' = [pc EXCEPT ![p] = "scan"]
  /\ target' = [target EXCEPT ![p] = None]
  /\ answer' = [answer EXCEPT ![p] = None]
  /\ met' = [met EXCEPT ![p] = {}]
  /\ hellos' = CloseRequester(p)

(* The answer is in time: subscribe to the publisher it names. *)
HelloOk(p) ==
  /\ p \in up /\ pc[p] = "wait" /\ answer[p] # None
  /\ AddSubscriber(p, target[p], answer[p])
  /\ proxiesGuids' = [proxiesGuids EXCEPT ![p] = @ \cup {target[p]}]
  /\ HelloDone(p)
  /\ UNCHANGED <<procVars, zset, nodesGuids, todo>>

(* Subscriber::Connect fails *)
SubscriberFails(p) ==
  /\ MayFail
  /\ p \in up /\ pc[p] = "wait" /\ answer[p] # None
  /\ proxiesGuids' = [proxiesGuids EXCEPT ![p] = @ \ {target[p]}]
  /\ HelloDone(p)
  /\ UNCHANGED <<procVars, zset, subscribers, nodesGuids, quiet, todo>>

(* 250 ms without an answer.  A proxy that does not wait itself polls its  *)
(* responder every 10 ms; if Prompt, its answer is therefore in time.      *)
Answerable(p) ==
  \/ answer[p] # None
  \/ \E q \in At(RespAddr[target[p]]) :
       pc[q] # "wait" /\ <<p, "open">> \in hellos[RespAddr[q]]

(* Mutant of HelloTimesOut: the REQ socket has no time-out for receiving. *)
HelloNeverTimesOut(p) ==
  /\ p \in up /\ pc[p] = "wait" /\ answer[p] # None
  /\ ZRem(p, target[p])
  /\ HelloDone(p)
  /\ UNCHANGED <<procVars, subVars, todo>>

(* Mutant of HelloTimesOut: the entry that did not answer is kept. *)
HelloTimesOutKeeps(p) ==
  /\ p \in up /\ pc[p] = "wait"
  /\ Prompt => ~Answerable(p)
  /\ HelloDone(p)
  /\ UNCHANGED <<procVars, zset, subVars, todo>>

HelloTimesOut(p) ==
  /\ p \in up /\ pc[p] = "wait"
  /\ Prompt => ~Answerable(p)
  /\ ZRem(p, target[p])
  /\ HelloDone(p)
  /\ UNCHANGED <<procVars, subVars, todo>>

PingDone(p) ==
  /\ p \in up /\ pc[p] = "scan" /\ todo[p] = {}
  /\ pc' = [pc EXCEPT ![p] = "loop"]
  /\ UNCHANGED <<procVars, zset, subVars, todo, target, helloVars>>
----------------------------------------------------------------------------
(* Responder::Poll, Proxy::ResponderCallback *)

(* Mutant of ProxyHello: it names the responder, not the publisher. *)
ProxyHelloResponder(p, req) ==
  /\ p \in up /\ pc[p] = "loop" /\ req \in hellos[RespAddr[p]]
  /\ hellos' = [hellos EXCEPT ![RespAddr[p]] = @ \ {req}]
  /\ answer' = IF req[2] = "open" THEN [answer EXCEPT ![req[1]] = RespAddr[p]]
               ELSE answer
  /\ UNCHANGED <<procVars, zset, subVars, pingVars, met>>

(* Proxy::ProxyHello; guid_to of the request is not looked at.  The REP    *)
(* socket takes the requests of its peers in turn.                         *)
ProxyHello(p, req) ==
  /\ p \in up /\ pc[p] = "loop" /\ req \in hellos[RespAddr[p]]
  /\ hellos' = [hellos EXCEPT ![RespAddr[p]] = @ \ {req}]
  /\ answer' = IF req[2] = "open" THEN [answer EXCEPT ![req[1]] = PubAddr[p]]
               ELSE answer
  /\ UNCHANGED <<procVars, zset, subVars, pingVars, met>>

(* Proxy::NodeHello: the key of a node is its connection string, which may *)
(* be an address that a proxy had.  If Subscriber::Connect fails, nothing  *)
(* changes.                                                                *)
NodeHello(p, n) ==
  /\ p \in up /\ pc[p] = "loop"
  /\ \A q \in up : PubAddr[q] # NodeConn[n]
  /\ AddSubscriber(p, NodeConn[n], NodeConn[n])
  /\ nodesGuids' = [nodesGuids EXCEPT ![p] = @ \cup {n}]
  /\ UNCHANGED <<procVars, zset, proxiesGuids, pingVars, helloVars>>
----------------------------------------------------------------------------
(* Proxy::MainLoop kills a subscriber that was inactive for too long *)
KillInactive(p, k) ==
  /\ p \in up /\ pc[p] = "loop" /\ k \in quiet[p]
  /\ subscribers' = [subscribers EXCEPT ![p][k] = None]
  /\ quiet' = [quiet EXCEPT ![p] = @ \ {k}]
  /\ UNCHANGED <<procVars, zset, proxiesGuids, nodesGuids, pingVars,
                 helloVars>>

(* q has something to say to p every 3 seconds: an exchange request of its *)
(* own, or the answer to one of p's.                                       *)
Talks(q, p) ==
  \/ p \in proxiesGuids[q]
  \/ q \in proxiesGuids[p] /\ \E k \in Keys : subscribers[q][k] = PubAddr[p]

Talking(p, k) ==
  \E q \in up \ {p} : PubAddr[q] = subscribers[p][k] /\ Talks(q, p)

(* 30 seconds pass in which p heard nothing over its subscriber for k. *)
GoesQuiet(p, k) ==
  /\ Quiets
  /\ p \in up /\ subscribers[p][k] # None /\ k \notin quiet[p]
  /\ ~Talking(p, k)
  /\ quiet' = [quiet EXCEPT ![p] = @ \cup {k}]
  /\ UNCHANGED <<procVars, zset, subscribers, proxiesGuids, nodesGuids,
                 pingVars, helloVars>>

(* Subscriber::Poll returns a message and sets lastActiveTime. *)
Heard(p, k) ==
  /\ p \in up /\ pc[p] = "loop" /\ k \in quiet[p]
  /\ k \in Guids => Talking(p, k)
  /\ quiet' = [quiet EXCEPT ![p] = @ \ {k}]
  /\ UNCHANGED <<procVars, zset, subscribers, proxiesGuids, nodesGuids,
                 pingVars, helloVars>>
----------------------------------------------------------------------------
(* The environment *)

(* The constructor: both ports are bound, and Redis answers or not. *)
Start(g) ==
  /\ g \notin started
  /\ \A q \in up : RespAddr[q] # RespAddr[g] /\ PubAddr[q] # PubAddr[g]
  /\ started' = started \cup {g}
  /\ up' = up \cup {g}
  /\ redisCtx' \in {[redisCtx EXCEPT ![g] = b] : b \in {TRUE, ~MayFail}}
  /\ met' = [p \in Guids |-> IF target[p] # None /\ RespAddr[target[p]] = RespAddr[g]
                             THEN met[p] \cup {g} ELSE met[p]]
  /\ UNCHANGED <<zset, subVars, pingVars, hellos, answer>>

Crash(p) ==
  /\ p \in up \cap Mortal
  /\ Dies(p)
  /\ UNCHANGED <<started, redisCtx, zset>>

BreakRedis(p) ==
  /\ MayFail /\ p \in up /\ redisCtx[p]
  /\ redisCtx' = [redisCtx EXCEPT ![p] = FALSE]
  /\ UNCHANGED <<started, up, zset, subVars, pingVars, helloVars>>
----------------------------------------------------------------------------
Init ==
  /\ started = {} /\ up = {} /\ zset = {}
  /\ redisCtx = [g \in Guids |-> FALSE]
  /\ subscribers = [g \in Guids |-> [k \in Keys |-> None]]
  /\ proxiesGuids = [g \in Guids |-> {}]
  /\ nodesGuids = [g \in Guids |-> {}]
  /\ quiet = [g \in Guids |-> {}]
  /\ pc = [g \in Guids |-> "loop"]
  /\ todo = [g \in Guids |-> {}]
  /\ target = [g \in Guids |-> None]
  /\ hellos = [a \in RespAddrs |-> {}]
  /\ answer = [g \in Guids |-> None]
  /\ met = [g \in Guids |-> {}]

PingStep(p) ==
  \/ PingRedis(p) \/ PingRedisFails(p) \/ ReadProxies(p) \/ PingDone(p)
  \/ HelloOk(p) \/ HelloTimesOut(p) \/ SubscriberFails(p)
  \/ \E g \in Guids : \/ SkipEntry(p, g) \/ RemoveOldSelf(p, g)
                      \/ SendProxyHello(p, g) \/ RequesterFails(p, g)

Poll(p) == \E req \in hellos[RespAddr[p]] : ProxyHello(p, req)

Next ==
  \E p \in Guids :
    \/ PingStep(p) \/ Poll(p)
    \/ \E n \in Nodes : NodeHello(p, n)
    \/ \E k \in Keys : KillInactive(p, k) \/ GoesQuiet(p, k) \/ Heard(p, k)
    \/ Start(p) \/ Crash(p) \/ BreakRedis(p)

Spec == Init /\ [][Next]_vars

(* The main loop comes round for ever: the ping of Redis every 2 seconds,  *)
(* the responder in every round (also when the ping, which disables the    *)
(* poll while it lasts, comes between), the kill whenever 30 seconds are   *)
(* over.  A time-out and the passing of 30 silent seconds need no-one.     *)
FairSpec ==
  /\ Spec
  /\ \A p \in Guids :
       /\ WF_vars(PingStep(p))
       /\ SF_vars(Poll(p))
       /\ SF_vars(\E k \in Keys : KillInactive(p, k))
       /\ WF_vars(\E k \in Keys : GoesQuiet(p, k))
----------------------------------------------------------------------------
(* Properties *)

(* Every variable has its type, and a proxy that waits for a hello has a   *)
(* target.                                                                 *)
TypeOK ==
  /\ started \subseteq Guids /\ up \subseteq started /\ zset \subseteq Guids
  /\ redisCtx \in [Guids -> BOOLEAN]
  /\ subscribers \in [Guids -> [Keys -> Conns \cup {None}]]
  /\ proxiesGuids \in [Guids -> SUBSET Guids]
  /\ nodesGuids \in [Guids -> SUBSET Nodes]
  /\ quiet \in [Guids -> SUBSET Keys]
  /\ pc \in [Guids -> {"loop", "read", "scan", "wait"}]
  /\ todo \in [Guids -> SUBSET Guids]
  /\ target \in [Guids -> Guids \cup {None}]
  /\ hellos \in [RespAddrs -> SUBSET (Guids \X {"open", "closed"})]
  /\ answer \in [Guids -> {PubAddr[g] : g \in Guids} \cup {None}]
  /\ met \in [Guids -> SUBSET Guids]
  /\ \A p \in Guids : pc[p] = "wait" <=> target[p] # None

(* No publisher is subscribed to twice: every message would be handled     *)
(* twice.  The guid of a restarted proxy is new and its address is not, so *)
(* that only the comparison of the connect strings in                      *)
(* ConnectToAnotherProxy and NodeHello prevents it.                        *)
OneSubscriberPerPublisher ==
  \A p \in Guids, k, l \in Keys :
    subscribers[p][k] # None /\ subscribers[p][k] = subscribers[p][l] => k = l

(* An answer belongs to the hello that waits for it: it names the          *)
(* publisher of a process that listened at the address since that hello    *)
(* was sent, however late the answers to earlier hellos come and whoever   *)
(* had the address then (SendProxyHello, which makes a socket for every    *)
(* hello and closes it).                                                   *)
HelloAnswersMatch ==
  \A p \in Guids :
    answer[p] # None => \E h \in met[p] : answer[p] = PubAddr[h]

(* No proxy subscribes to its own publisher or waits for its own answer,   *)
(* also if the entry of an earlier process with its address is in Redis    *)
(* (ConnectToAnotherProxy).                                                *)
NoSelfConnection ==
  \A p \in up :
    /\ \A k \in Keys : subscribers[p][k] # PubAddr[p]
    /\ pc[p] = "wait" => RespAddr[target[p]] # RespAddr[p]

(* A running proxy with a new address becomes known: no matter how its     *)
(* peers restart and which entries are stale, in the end every running     *)
(* proxy has its subscriber for every other one, and keeps it.  The only   *)
(* thing that can prevent it is that hellos meet proxies that wait for a   *)
(* hello themselves, again and again.                                      *)
Meshed ==
  \A p, q \in up : p # q => subscribers[p][q] = PubAddr[q]

Collision ==
  \E p \in up : pc[p] = "wait" /\
    \E q \in At(RespAddr[target[p]]) : pc[q] = "wait"

MeshForms == <>[]~Collision => <>[]Meshed

(* Nobody waits for ever, also if hellos cross each other.  Both time out. *)
WaitsEnd == \A p \in Guids : pc[p] = "wait" ~> pc[p] # "wait"

(* The entry of a dead process leaves Redis unless no proxy is left, even  *)
(* if its address has a new owner that answers the hellos meant for it     *)
(* (PingRedis, ConnectToAnotherProxy).                                     *)
DeadEntriesLeave ==
  \A d \in Guids : d \in zset \ up ~> d \notin zset \/ up = {}
============================================================================
