------------------------------ MODULE MainLoop ------------------------------
(***************************************************************************)
(* The only thread of a proxy: one request from the responder, a bounded   *)
(* batch of messages from every subscriber, and in every 25th round the    *)
(* periodic work, for ever.  What the handlers do is in the other modules; *)
(* here is who gets a turn, and what is lost when a subscriber is killed.  *)
(*                                                                         *)
(* The subscribers of the unordered_map come in any order.  sleeping and   *)
(* the statistics are left out.                                            *)
(***************************************************************************)
EXTENDS Integers, Sequences, FiniteSets

CONSTANTS
  Peers,        \* nodes and proxies this one may subscribe to
  Watched,      \* peers whose silence is recorded
  Sends,        \* Sends[s]: messages s publishes
  Requests,     \* requests that peers send
  MaxPerRound,  \* messages taken from one subscriber in a round: 1000
  PeriodicEvery,\* rounds from one periodic work to the next: 25
  MaxInactive,  \* MAX_INACTIVE_SUBSCRIBER: 30 seconds
  TicksInRound, \* seconds that one round may take
  QueueBound,   \* bound on the messages waiting in a SUB socket
  RequestBound, \* bound on the requests waiting in the REP socket
  None

Request == [from : Peers, cmd : {"NODE_HELLO", "PROXY_HELLO"}]

(* A "bad" message is one that can not be parsed. *)
Messages == {"good", "bad"}

ASSUME MainLoopAssumption ==
  /\ {MaxPerRound, PeriodicEvery, QueueBound} \subseteq Nat \ {0}
  /\ {MaxInactive, TicksInRound, RequestBound} \subseteq Nat
  /\ IsFiniteSet(Peers) /\ Watched \subseteq Peers
  /\ Requests \subseteq Request
  /\ \A s \in Peers : Sends[s] \subseteq Messages
  /\ None \notin Peers

VARIABLES
  subscribers, \* peers with an entry in the subscribers map
  queue,       \* queue[s]: messages waiting in the socket of s, "good" or "bad"
  age,         \* age[s]: seconds since lastActiveTime of s
  requests,    \* requests waiting in the REP socket
  pc,          \* "poll", "scan", "batch"
  idle,        \* subscribers with now - lastActiveTime > MaxInactive
  todo,        \* subscribers the iterator has not reached
  cur,         \* the subscriber at local_it
  r,           \* messages taken from cur
  loop,        \* rounds, modulo PeriodicEvery
  ticks,       \* seconds this round has taken
  silence      \* history, s in Watched: seconds since a good message or a
               \* hello of s came

connVars == <<subscribers, queue, age, silence>>
scanVars == <<idle, todo, cur, r>>
vars == <<connVars, requests, pc, scanVars, loop, ticks>>

Saturated == MaxInactive + 1
----------------------------------------------------------------------------
(* The watched ones of S were heard or are gone. *)
Restarted(S) ==
  silence' = [s \in Watched |-> IF s \in S THEN 0 ELSE silence[s]]

(* A new Subscriber for each of S; one that was there is killed, and what  *)
(* waited in its socket is gone.                                           *)
Subscribed(S) ==
  /\ subscribers' = subscribers \cup S
  /\ queue' = [s \in Peers |-> IF s \in S THEN <<>> ELSE queue[s]]
  /\ age' = [s \in Peers |-> IF s \in S THEN 0 ELSE age[s]]
  /\ Restarted(S)

(* The peers a request may make the proxy subscribe to.  A NODE_HELLO gets *)
(* a Subscriber, or the answer ERROR if that one can not connect; any      *)
(* other command is only answered, a PROXY_HELLO with the own publisher.   *)
ResponderCallback(req) ==
  IF req.cmd = "NODE_HELLO" THEN {{req.from}, {}} ELSE {{}}

(* Mutant of PollResponder: requests are for when the sockets are empty. *)
PollResponderWhenIdle ==
  LET busy == requests = <<>> \/ \E s \in Peers : queue[s] # <<>>
  IN /\ pc = "poll"
     /\ \E S \in IF busy THEN {{}} ELSE ResponderCallback(Head(requests)) :
          Subscribed(S)
     /\ requests' = IF busy THEN requests ELSE Tail(requests)
     /\ idle' = {s \in subscribers' : age'[s] > MaxInactive}
     /\ todo' = subscribers'
     /\ pc' = "scan"
     /\ ticks' = 0
     /\ UNCHANGED <<cur, r, loop>>

(* Responder::Poll takes and answers at most one request; then now is read. *)
PollResponder ==
  /\ pc = "poll"
  /\ \E S \in IF requests = <<>> THEN {{}} ELSE ResponderCallback(Head(requests)) :
       Subscribed(S)
  /\ requests' = IF requests = <<>> THEN <<>> ELSE Tail(requests)
  /\ idle' = {s \in subscribers' : age'[s] > MaxInactive}
  /\ todo' = subscribers'
  /\ pc' = "scan"
  /\ ticks' = 0
  /\ UNCHANGED <<cur, r, loop>>

(* Mutant of Visit: an idle subscriber is killed before it is polled. *)
VisitActive(s) ==
  /\ pc = "scan" /\ s \in todo
  /\ todo' = todo \ {s}
  /\ IF s \in idle
     THEN /\ subscribers' = subscribers \ {s}
          /\ queue' = [queue EXCEPT ![s] = <<>>]
          /\ idle' = idle \ {s}
          /\ UNCHANGED <<pc, cur, r>>
     ELSE /\ pc' = "batch" /\ cur' = s /\ r' = 0
          /\ UNCHANGED <<subscribers, queue, idle>>
  /\ UNCHANGED <<age, silence, requests, loop, ticks>>

(* local_it reaches s *)
Visit(s) ==
  /\ pc = "scan" /\ s \in todo
  /\ todo' = todo \ {s}
  /\ pc' = "batch" /\ cur' = s /\ r' = 0
  /\ UNCHANGED <<connVars, requests, idle, loop, ticks>>

BatchOver == r >= MaxPerRound

HasMessage == queue[cur] # <<>> /\ Head(queue[cur]) = "good"

(* Mutant of Handle: the messages of a batch are not counted. *)
HandleUncounted ==
  /\ pc = "batch" /\ ~BatchOver
  /\ HasMessage
  /\ queue' = [queue EXCEPT ![cur] = Tail(@)]
  /\ age' = [age EXCEPT ![cur] = 0]
  /\ idle' = idle \ {cur}
  /\ UNCHANGED <<subscribers, silence, requests, pc, todo, cur, r, loop, ticks>>

(* Subscriber::Poll returns a message for SubscriberCallback *)
Handle ==
  /\ pc = "batch" /\ ~BatchOver
  /\ HasMessage
  /\ queue' = [queue EXCEPT ![cur] = Tail(@)]
  /\ age' = [age EXCEPT ![cur] = 0]
  /\ idle' = idle \ {cur}
  /\ r' = r + 1
  /\ UNCHANGED <<subscribers, silence, requests, pc, todo, cur, loop, ticks>>

(* Subscriber::Poll returns NULL: nothing waits, or what it has taken can  *)
(* not be parsed.                                                          *)
PollsNull ==
  /\ pc = "batch" /\ ~BatchOver
  /\ ~HasMessage

LeaveBatch == pc' = "scan" /\ cur' = None /\ r' = 0

NoMessage ==
  /\ PollsNull /\ cur \notin idle
  /\ queue' = [queue EXCEPT ![cur] = IF @ = <<>> THEN @ ELSE Tail(@)]
  /\ LeaveBatch
  /\ UNCHANGED <<subscribers, age, silence, requests, idle, todo, loop, ticks>>

(* The Subscriber of s and its socket are gone. *)
Killed(s) ==
  /\ subscribers' = subscribers \ {s}
  /\ queue' = [queue EXCEPT ![s] = <<>>]
  /\ age' = [age EXCEPT ![s] = 0]
  /\ Restarted({s})

(* Mutant of KillInactive: without the break, the batch of the subscriber  *)
(* that was deleted goes on.                                               *)
KillNoBreak ==
  /\ PollsNull /\ cur \in idle
  /\ Killed(cur)
  /\ idle' = idle \ {cur}
  /\ r' = r + 1
  /\ UNCHANGED <<requests, pc, todo, cur, loop, ticks>>

(* Kill: erase has moved local_it on already, so that local_it++ skips one *)
(* subscriber.                                                             *)
KillInactive ==
  /\ PollsNull /\ cur \in idle
  /\ Killed(cur)
  /\ idle' = idle \ {cur}
  /\ IF todo = {} THEN todo' = todo ELSE \E s \in todo : todo' = todo \ {s}
  /\ LeaveBatch
  /\ UNCHANGED <<requests, loop, ticks>>

(* Mutant of BatchDone: a full batch ends the round. *)
BatchEndsRound ==
  /\ pc = "batch" /\ BatchOver
  /\ todo' = {}
  /\ LeaveBatch
  /\ UNCHANGED <<connVars, requests, idle, loop, ticks>>

BatchDone ==
  /\ pc = "batch" /\ BatchOver
  /\ LeaveBatch
  /\ UNCHANGED <<connVars, requests, idle, todo, loop, ticks>>

ScanDone == pc = "scan" /\ todo = {}

NextRound ==
  /\ loop' = (loop + 1) % PeriodicEvery
  /\ pc' = "poll" /\ idle' = {}
  /\ UNCHANGED <<requests, todo, cur, r, ticks>>

(* PingRedis, the health checks, RequestRegistryExchange and               *)
(* CleanUpResponsesMap; PingRedis subscribes to any peers it finds.        *)
PeriodicWork ==
  /\ ScanDone /\ loop = 0
  /\ \E S \in SUBSET (Peers \ subscribers) : Subscribed(S)
  /\ NextRound

NoPeriodicWork ==
  /\ ScanDone /\ loop # 0
  /\ NextRound
  /\ UNCHANGED connVars
----------------------------------------------------------------------------
(* The environment *)

Arrive(s, m) ==
  /\ s \in subscribers /\ Len(queue[s]) < QueueBound
  /\ queue' = [queue EXCEPT ![s] = Append(@, m)]
  /\ IF m = "good" THEN Restarted({s}) ELSE UNCHANGED silence
  /\ UNCHANGED <<subscribers, age, requests, pc, scanVars, loop, ticks>>

(* A peer sends its next request when it has the answer to the last one. *)
Hello(req) ==
  /\ Len(requests) < RequestBound
  /\ \A i \in DOMAIN requests : requests[i].from # req.from
  /\ requests' = Append(requests, req)
  /\ UNCHANGED <<connVars, pc, scanVars, loop, ticks>>

Older(f) ==
  [s \in DOMAIN f |-> IF s \in subscribers /\ f[s] < Saturated
                      THEN f[s] + 1 ELSE f[s]]

Tick ==
  /\ ticks < TicksInRound
  /\ ticks' = ticks + 1
  /\ age' = Older(age)
  /\ silence' = Older(silence)
  /\ UNCHANGED <<subscribers, queue, requests, pc, scanVars, loop>>
----------------------------------------------------------------------------
Init ==
  /\ subscribers = {} /\ requests = <<>>
  /\ queue = [s \in Peers |-> <<>>]
  /\ age = [s \in Peers |-> 0] /\ silence = [s \in Watched |-> 0]
  /\ pc = "poll" /\ idle = {} /\ todo = {} /\ cur = None /\ r = 0
  /\ loop = 0 /\ ticks = 0

LoopStep ==
  \/ PollResponder \/ Handle \/ NoMessage \/ KillInactive \/ BatchDone
  \/ PeriodicWork \/ NoPeriodicWork
  \/ \E s \in Peers : Visit(s)

Next ==
  \/ LoopStep \/ Tick
  \/ \E req \in Requests : Hello(req)
  \/ \E s \in Peers : \E m \in Sends[s] : Arrive(s, m)

Spec == Init /\ [][Next]_vars

(* The thread runs.  Nothing makes peers send or time pass. *)
FairSpec == Spec /\ WF_vars(LoopStep)
----------------------------------------------------------------------------
(* Properties *)

(* Every variable has its type; a batch belongs to a connected subscriber  *)
(* which the iterator has left behind.                                     *)
TypeOK ==
  /\ subscribers \subseteq Peers
  /\ \A s \in Peers : /\ queue[s] \in Seq(Messages)
                      /\ Len(queue[s]) =< QueueBound
  /\ age \in [Peers -> 0 .. Saturated]
  /\ silence \in [Watched -> 0 .. Saturated]
  /\ requests \in Seq(Request)
  /\ pc \in {"poll", "scan", "batch"}
  /\ idle \subseteq subscribers /\ todo \subseteq subscribers
  /\ cur \in Peers \cup {None} /\ r \in 0 .. MaxPerRound
  /\ loop \in 0 .. PeriodicEvery - 1 /\ ticks \in 0 .. TicksInRound
  /\ pc = "batch" <=> cur # None
  /\ pc = "batch" => cur \in subscribers \ todo

(* Only a silent subscriber is killed.  Even if the loop was blocked so    *)
(* long that lastActiveTime is old, a subscriber from which a message came *)
(* meanwhile stays, because it is polled before it is judged; only a       *)
(* message that can not be parsed in front of the others loses them        *)
(* (MainLoop, Subscriber::Poll).                                           *)
OnlySilentKilled ==
  [][\A s \in Watched \cap (subscribers \ subscribers') :
       \/ silence[s] > MaxInactive
       \/ queue[s] # <<>> /\ Head(queue[s]) = "bad"]_vars

(* The periodic work goes on, however many messages come: registries stay  *)
(* fresh and the entry in Redis young only if it does (MainLoop).          *)
PeriodicWorkGoesOn == []<><<PeriodicWork>>_vars

RequestAnswered == requests # <<>> /\ requests' = Tail(requests)

(* Requests do not wait for ever, however many messages come: either none  *)
(* is left, again and again, or again and again one leaves with its        *)
(* answer, and they leave in the order in which they came (MainLoop,       *)
(* Responder::Poll).                                                       *)
HellosAnswered ==
  []<>(requests = <<>>) \/ []<><<RequestAnswered>>_vars

(* A peer that was killed and comes back needs more than MaxInactive       *)
(* seconds of silence to be killed again, which take more rounds than      *)
(* there are other peers.                                                  *)
RoundsAreShort == (Cardinality(Peers) - 1) * TicksInRound =< MaxInactive

(* No subscriber waits for its turn for ever with messages in its socket,  *)
(* although each kill of another one may skip it, provided that rounds are *)
(* short: otherwise peers that come and go can be killed in turn, one in   *)
(* every round, and a subscriber behind them is never polled (MainLoop,    *)
(* erase followed by local_it++).                                          *)
EverySubscriberPolled ==
  RoundsAreShort =>
    \A s \in Peers : []<>(s \notin subscribers \/ queue[s] = <<>> \/ cur = s)
============================================================================
