--------------------------- MODULE InvokeRouting ---------------------------
(***************************************************************************)
(* The invocation path of the ESB: a node's INVOKE travels to its proxy,   *)
(* possibly over further proxies, to a node that offers the method; the    *)
(* answer travels back along the invokeResponses tables of the proxies it  *)
(* passed.                                                                 *)
(*                                                                         *)
(* Every proxy handles one message at a time in its MainLoop thread, so a  *)
(* handler is one action.  Times are kept as ages (now minus the stored    *)
(* time(NULL)), saturated above the value they are compared with; Tick     *)
(* makes everything one second older.  A proxy that crashes stops taking   *)
(* steps, and its successor has a new guid and so is another proxy.        *)
(***************************************************************************)
EXTENDS RegistryPromise, Integers, Sequences, FiniteSets

CONSTANTS
  Calls,         \* guid_from of the nodes' requests, one guid per request
  Caller,        \* Caller[c]: the node that makes request c
  Wants,         \* Wants[c]: the identifier that c invokes
  NodeCmds,      \* commands the nodes send on their own account
  HWM,           \* messages a PUB socket keeps per subscriber; more are dropped
  CallbackTTL,   \* 3 in the code: age above which a callback may be dropped
  CleanUpPeriod, \* 60 in the code: seconds between two clean-ups
  CleanUpBatch   \* 100000 in the code: callbacks dropped per clean-up

VARIABLES
  chan,                    \* chan[s][d]: messages published by s, for d to poll
  invokeResponses,         \* [p][c]: whom p sends the answer to c to, or None
  invokeResponsesCallTime, \* [p][c]: age of that entry, or None
  lastResponsesCleanUp,    \* [p]: seconds since p's last clean-up
  issued,                  \* [c]: the command c was sent as, or None
  working,                 \* [n]: invocations node n is executing
  served,                  \* [c]: how often c was handed to a node (history)
  answers,                 \* [c]: what nodes received in answer to c (history)
  purged                   \* calls that lost a callback to a clean-up (history)

tableVars == <<invokeResponses, invokeResponsesCallTime>>
nodeVars == <<issued, working, served, answers>>
vars == <<regVars, chan, tableVars, lastResponsesCleanUp, nodeVars, purged>>
----------------------------------------------------------------------------
(* Commands and their transport *)

Procs == Proxies \cup Nodes

(* Commands that a proxy's SubscriberCallback answers with an ERROR. *)
UnknownCmds == {"NODE_HELLO", "PROXY_HELLO", "REGISTER_INVOKE_OK"}
(* Commands that a proxy only logs. *)
LoggedCmds == {"PONG", "ERROR"}
ResponseCmds == {"RESPONSE", "ERROR_RESPONSE"}
RequestCmds == {"INVOKE", "PING"} \cup LoggedCmds \cup UnknownCmds
Cmds == RequestCmds \cup ResponseCmds

ASSUME RoutingAssumption ==
  /\ Caller \in [Calls -> Nodes]
  /\ Wants \in [Calls -> Identifiers]
  /\ Calls \cap (Proxies \cup Nodes \cup Methods \cup {None}) = {}
  /\ NodeCmds \subseteq RequestCmds
  /\ None \notin Nat \cup Cmds
  /\ HWM \in Nat \ {0}
  /\ CallbackTTL \in Nat
  /\ CleanUpPeriod \in Nat
  /\ CleanUpBatch \in Nat \ {0}

(* The payload of a response stands for the method that computed it. *)
Message ==
  [cmd: Cmds, source_proxy_guid: Procs, identifier: Identifiers \cup {None},
   guid_from: Calls \cup Procs \cup {None},
   guid_to: Calls \cup Methods \cup Procs \cup {None},
   payload: Methods \cup {None}]

Command(cmd, source, identifier, from, to, payload) ==
  [cmd |-> cmd, source_proxy_guid |-> source, identifier |-> identifier,
   guid_from |-> from, guid_to |-> to, payload |-> payload]

(* The PUB socket of s: a topic nobody subscribes to and a full queue both *)
(* drop the message; the sender is not told.  A topic reaches the process  *)
(* of that guid only: no channel that a proxy has subscribed to without    *)
(* the tab (Subscriber::Poll) is the beginning of a guid.                  *)
Publish(ch, s, target, msg) ==
  IF target \in Procs /\ Len(ch[s][target]) < HWM
  THEN [ch EXCEPT ![s][target] = Append(@, msg)]
  ELSE ch

(* The SUB socket of d takes the next message of s. *)
Poll(s, d) == [chan EXCEPT ![s][d] = Tail(@)]

(* The key of a peer in the subscribers map: the guid of a proxy, but the  *)
(* connection string of a node, which is the topic of nobody.              *)
SubscriberKey(s) == IF s \in Proxies THEN s ELSE None

Older(age, limit) == IF age < limit THEN age + 1 ELSE age
----------------------------------------------------------------------------
(* The nodes, which the driver implements *)

NodeRequest(c, p, cmd) ==
  /\ issued[c] = None
  /\ issued' = [issued EXCEPT ![c] = cmd]
  /\ chan' = Publish(chan, Caller[c], p,
               Command(cmd, Caller[c], Wants[c], c, None, None))
  /\ UNCHANGED <<regVars, tableVars, lastResponsesCleanUp, working, served,
                 answers, purged>>

NodeStartsWork(n, p) ==
  /\ chan[p][n] # <<>>
  /\ LET msg == Head(chan[p][n]) IN
       /\ msg.cmd = "INVOKE"
       /\ working' = [working EXCEPT ![n] = @ \cup
                        {[call |-> msg.guid_from, method |-> msg.guid_to,
                          proxy |-> msg.source_proxy_guid]}]
       /\ served' = [served EXCEPT ![msg.guid_from] = @ + 1]
  /\ chan' = Poll(p, n)
  /\ UNCHANGED <<regVars, tableVars, lastResponsesCleanUp, issued, answers,
                 purged>>

NodeResponds(n, w, cmd) ==
  /\ w \in working[n]
  /\ working' = [working EXCEPT ![n] = @ \ {w}]
  /\ chan' = Publish(chan, n, w.proxy,
               Command(cmd, n, None, None, w.call, w.method))
  /\ UNCHANGED <<regVars, tableVars, lastResponsesCleanUp, issued, served,
                 answers, purged>>

NodeGetsAnswer(n, p) ==
  /\ chan[p][n] # <<>>
  /\ LET msg == Head(chan[p][n]) IN
       /\ msg.cmd \in ResponseCmds \cup {"ERROR"}
       /\ answers' =
            IF msg.guid_to \in Calls
            THEN [answers EXCEPT ![msg.guid_to] =
                    Append(@, [node |-> n, cmd |-> msg.cmd,
                               payload |-> msg.payload])]
            ELSE answers
  /\ chan' = Poll(p, n)
  /\ UNCHANGED <<regVars, tableVars, lastResponsesCleanUp, issued, working,
                 served, purged>>
----------------------------------------------------------------------------
(* Proxy::Invoke *)

LocalInvokeMethods(p, id) == {m \in offers[p] : Provides[m] = id}

(* Mutant of RemoteInvokeMethods: one vector for all identifiers. *)
AnyRemoteInvokeMethods(p, id) == {m \in Methods : routes[p][m] # None}

RemoteInvokeMethods(p, id) ==
  {m \in Methods : routes[p][m] # None /\ Provides[m] = id}

(* Mutant of RememberCaller: invokeResponses[guid] = source overwrites. *)
RememberLastCaller(p, req) ==
  LET c == req.guid_from IN
    /\ invokeResponses' = [invokeResponses EXCEPT ![p][c] = req.source_proxy_guid]
    /\ invokeResponsesCallTime' = [invokeResponsesCallTime EXCEPT ![p][c] = 0]

(* Mutant of RememberCaller: the insert of the call time is missing. *)
RememberCallerUntimed(p, req) ==
  LET c == req.guid_from IN
    /\ invokeResponses' = [invokeResponses EXCEPT ![p][c] =
         IF @ = None THEN req.source_proxy_guid ELSE @]
    /\ UNCHANGED invokeResponsesCallTime

(* std::unordered_map::insert: an entry that is there already stays. *)
RememberCaller(p, req) ==
  LET c == req.guid_from IN
    /\ invokeResponses' = [invokeResponses EXCEPT ![p][c] =
         IF @ = None THEN req.source_proxy_guid ELSE @]
    /\ invokeResponsesCallTime' = [invokeResponsesCallTime EXCEPT ![p][c] =
         IF @ = None THEN 0 ELSE @]

(* Mutant of InvokeCommand: guid_to is the identifier, not the method guid. *)
InvokeCommandByName(p, req, m) ==
  Command("INVOKE", p, Provides[m], req.guid_from, Provides[m], None)

(* Mutant of InvokeCommand: the caller's guid is not replaced by p's. *)
InvokeCommandFromCaller(p, req, m) ==
  Command("INVOKE", req.source_proxy_guid, Provides[m], req.guid_from, m, None)

InvokeCommand(p, req, m) ==
  Command("INVOKE", p, Provides[m], req.guid_from, m, None)

(* The next message that p polls from s is a cmd. *)
Receives(p, s, cmd) ==
  /\ chan[s][p] # <<>>
  /\ Head(chan[s][p]).cmd = cmd

(* Mutant of InvokeLocal: without its return, the error is sent as well. *)
InvokeLocalNoReturn(p, s) ==
  /\ Receives(p, s, "INVOKE")
  /\ LET req == Head(chan[s][p]) IN
       \E m \in LocalInvokeMethods(p, req.identifier) :
         /\ RememberCaller(p, req)
         /\ chan' = Publish(Publish(Poll(s, p), p, Owner[m],
                                    InvokeCommand(p, req, m)),
                            p, req.source_proxy_guid,
                            Command("ERROR", p, None, p, req.guid_from, None))
  /\ UNCHANGED <<regVars, lastResponsesCleanUp, nodeVars, purged>>

InvokeLocal(p, s) ==
  /\ Receives(p, s, "INVOKE")
  /\ LET req == Head(chan[s][p]) IN
       \E m \in LocalInvokeMethods(p, req.identifier) :
         /\ RememberCaller(p, req)
         /\ chan' = Publish(Poll(s, p), p, Owner[m], InvokeCommand(p, req, m))
  /\ UNCHANGED <<regVars, lastResponsesCleanUp, nodeVars, purged>>

InvokeRemote(p, s) ==
  /\ Receives(p, s, "INVOKE")
  /\ LET req == Head(chan[s][p]) IN
       /\ LocalInvokeMethods(p, req.identifier) = {}
       /\ \E m \in RemoteInvokeMethods(p, req.identifier) :
            /\ RememberCaller(p, req)
            /\ chan' = Publish(Poll(s, p), p, routes[p][m],
                               InvokeCommand(p, req, m))
  /\ UNCHANGED <<regVars, lastResponsesCleanUp, nodeVars, purged>>

(* Mutant of InvokeNotFound: the error goes to the key of the subscribers  *)
(* map, as the error of CallbackNotFound does.                             *)
InvokeNotFoundToKey(p, s) ==
  /\ Receives(p, s, "INVOKE")
  /\ LET req == Head(chan[s][p]) IN
       /\ LocalInvokeMethods(p, req.identifier) = {}
       /\ RemoteInvokeMethods(p, req.identifier) = {}
       /\ chan' = Publish(Poll(s, p), p, SubscriberKey(s),
                    Command("ERROR", p, None, p, req.guid_from, None))
  /\ UNCHANGED <<regVars, tableVars, lastResponsesCleanUp, nodeVars, purged>>

InvokeNotFound(p, s) ==
  /\ Receives(p, s, "INVOKE")
  /\ LET req == Head(chan[s][p]) IN
       /\ LocalInvokeMethods(p, req.identifier) = {}
       /\ RemoteInvokeMethods(p, req.identifier) = {}
       /\ chan' = Publish(Poll(s, p), p, req.source_proxy_guid,
                    Command("ERROR", p, None, p, req.guid_from, None))
  /\ UNCHANGED <<regVars, tableVars, lastResponsesCleanUp, nodeVars, purged>>

Invoke(p, s) == InvokeLocal(p, s) \/ InvokeRemote(p, s) \/ InvokeNotFound(p, s)
----------------------------------------------------------------------------
(* Proxy::InvokeResponse *)

(* Mutant of ForgetCallbacks: the call times stay behind. *)
ForgetCallersOnly(p, gone) ==
  /\ invokeResponses' = [invokeResponses EXCEPT ![p] =
       [c \in Calls |-> IF c \in gone THEN None ELSE @[c]]]
  /\ UNCHANGED invokeResponsesCallTime

ForgetCallbacks(p, gone) ==
  /\ invokeResponses' = [invokeResponses EXCEPT ![p] =
       [c \in Calls |-> IF c \in gone THEN None ELSE @[c]]]
  /\ invokeResponsesCallTime' = [invokeResponsesCallTime EXCEPT ![p] =
       [c \in Calls |-> IF c \in gone THEN None ELSE @[c]]]

(* Mutant of ForwardResponse: answers the sender of the response. *)
ForwardResponseToSource(p, s) ==
  /\ \E cmd \in ResponseCmds : Receives(p, s, cmd)
  /\ LET req == Head(chan[s][p])
         c == req.guid_to IN
       /\ invokeResponses[p][c] # None
       /\ chan' = Publish(Poll(s, p), p, req.source_proxy_guid,
                    Command(req.cmd, p, None, req.guid_from, c, req.payload))
       /\ ForgetCallbacks(p, {c})
  /\ UNCHANGED <<regVars, lastResponsesCleanUp, nodeVars, purged>>

ForwardResponse(p, s) ==
  /\ \E cmd \in ResponseCmds : Receives(p, s, cmd)
  /\ LET req == Head(chan[s][p])
         c == req.guid_to IN
       /\ invokeResponses[p][c] # None
       /\ chan' = Publish(Poll(s, p), p, invokeResponses[p][c],
                    Command(req.cmd, p, None, req.guid_from, c, req.payload))
       /\ ForgetCallbacks(p, {c})
  /\ UNCHANGED <<regVars, lastResponsesCleanUp, nodeVars, purged>>

CallbackNotFound(p, s) ==
  /\ \E cmd \in ResponseCmds : Receives(p, s, cmd)
  /\ LET req == Head(chan[s][p]) IN
       /\ invokeResponses[p][req.guid_to] = None
       /\ chan' = Publish(Poll(s, p), p, SubscriberKey(s),
                    Command("ERROR", p, None, p, req.guid_from, None))
  /\ UNCHANGED <<regVars, tableVars, lastResponsesCleanUp, nodeVars, purged>>

InvokeResponse(p, s) == ForwardResponse(p, s) \/ CallbackNotFound(p, s)
----------------------------------------------------------------------------
(* The other commands of Proxy::SubscriberCallback on this path *)

PingRequest(p, s) ==
  /\ Receives(p, s, "PING")
  /\ LET req == Head(chan[s][p]) IN
       chan' = Publish(Poll(s, p), p, req.source_proxy_guid,
                 Command("RESPONSE", p, None, None, req.guid_from, None))
  /\ UNCHANGED <<regVars, tableVars, lastResponsesCleanUp, nodeVars, purged>>

LogOnly(p, s) ==
  /\ \E cmd \in LoggedCmds : Receives(p, s, cmd)
  /\ chan' = Poll(s, p)
  /\ UNCHANGED <<regVars, tableVars, lastResponsesCleanUp, nodeVars, purged>>

UnknownCommand(p, s) ==
  /\ \E cmd \in UnknownCmds : Receives(p, s, cmd)
  /\ LET req == Head(chan[s][p]) IN
       chan' = Publish(Poll(s, p), p, SubscriberKey(s),
                 Command("ERROR", p, None, p, req.guid_from, None))
  /\ UNCHANGED <<regVars, tableVars, lastResponsesCleanUp, nodeVars, purged>>

SubscriberCallback(p, s) ==
  \/ Invoke(p, s)
  \/ InvokeResponse(p, s)
  \/ PingRequest(p, s)
  \/ LogOnly(p, s)
  \/ UnknownCommand(p, s)
----------------------------------------------------------------------------
(* Proxy::CleanUpResponsesMap: drops callbacks in the order of the hash    *)
(* table, at most CleanUpBatch of them.                                    *)

(* Mutant of ExpiredCallbacks: the age is not looked at. *)
AllCallbacks(p) == {c \in Calls : invokeResponsesCallTime[p][c] # None}

ExpiredCallbacks(p) ==
  {c \in Calls : /\ invokeResponsesCallTime[p][c] # None
                 /\ invokeResponsesCallTime[p][c] > CallbackTTL}

CleanUpResponsesMap(p) ==
  /\ lastResponsesCleanUp[p] >= CleanUpPeriod
  /\ lastResponsesCleanUp' = [lastResponsesCleanUp EXCEPT ![p] = 0]
  /\ \E gone \in SUBSET ExpiredCallbacks(p) :
       /\ gone = ExpiredCallbacks(p) \/ Cardinality(gone) = CleanUpBatch
       /\ Cardinality(gone) <= CleanUpBatch
       /\ ForgetCallbacks(p, gone)
       /\ purged' = purged \cup gone
  /\ UNCHANGED <<regVars, chan, nodeVars>>
----------------------------------------------------------------------------
(* The environment *)

(* A message is lost: no subscription yet, a broken connection. *)
Lose(s, d) ==
  /\ chan[s][d] # <<>>
  /\ chan' = Poll(s, d)
  /\ UNCHANGED <<regVars, tableVars, lastResponsesCleanUp, nodeVars, purged>>

(* One second passes. *)
Tick ==
  /\ invokeResponsesCallTime' =
       [p \in Proxies |-> [c \in Calls |->
          IF invokeResponsesCallTime[p][c] = None THEN None
          ELSE Older(invokeResponsesCallTime[p][c], CallbackTTL + 1)]]
  /\ lastResponsesCleanUp' =
       [p \in Proxies |-> Older(lastResponsesCleanUp[p], CleanUpPeriod)]
  /\ UNCHANGED <<regVars, chan, invokeResponses, nodeVars, purged>>

RegistryStep ==
  /\ RegistryNext
  /\ UNCHANGED <<chan, tableVars, lastResponsesCleanUp, nodeVars, purged>>
----------------------------------------------------------------------------
Init ==
  /\ RegistryInit
  /\ chan = [s \in Procs |-> [d \in Procs |-> <<>>]]
  /\ invokeResponses = [p \in Proxies |-> [c \in Calls |-> None]]
  /\ invokeResponsesCallTime = [p \in Proxies |-> [c \in Calls |-> None]]
  /\ lastResponsesCleanUp = [p \in Proxies |-> 0]
  /\ issued = [c \in Calls |-> None]
  /\ working = [n \in Nodes |-> {}]
  /\ served = [c \in Calls |-> 0]
  /\ answers = [c \in Calls |-> <<>>]
  /\ purged = {}

NodeStep ==
  \/ \E c \in Calls, p \in Proxies, cmd \in NodeCmds : NodeRequest(c, p, cmd)
  \/ \E n \in Nodes, p \in Proxies : NodeStartsWork(n, p) \/ NodeGetsAnswer(n, p)
  \/ \E n \in Nodes, cmd \in ResponseCmds :
       \E w \in working[n] : NodeResponds(n, w, cmd)

ProxyStep ==
  \/ \E p \in Proxies, s \in Procs : SubscriberCallback(p, s)
  \/ \E p \in Proxies : CleanUpResponsesMap(p)

Next ==
  \/ NodeStep
  \/ ProxyStep
  \/ RegistryStep
  \/ Tick
  \/ \E s, d \in Procs : Lose(s, d)

Spec == Init /\ [][Next]_vars
----------------------------------------------------------------------------
(* Properties *)

Work == [call: Calls, method: Methods, proxy: Proxies]
Answer == [node: Nodes, cmd: ResponseCmds \cup {"ERROR"},
           payload: Methods \cup {None}]

(* Every variable has its type; ages never exceed their saturation value. *)
TypeOK ==
  /\ RegistryTypeOK
  /\ chan \in [Procs -> [Procs -> Seq(Message)]]
  /\ invokeResponses \in [Proxies -> [Calls -> Procs \cup {None}]]
  /\ invokeResponsesCallTime \in
       [Proxies -> [Calls -> (0..(CallbackTTL + 1)) \cup {None}]]
  /\ lastResponsesCleanUp \in [Proxies -> 0..CleanUpPeriod]
  /\ issued \in [Calls -> RequestCmds \cup {None}]
  /\ working \in [Nodes -> SUBSET Work]
  /\ served \in [Calls -> Nat]
  /\ answers \in [Calls -> Seq(Answer)]
  /\ purged \in SUBSET Calls

(* However many proxies an invocation crosses, and in whatever order the   *)
(* proxies lose, learn and purge state, an answer is only ever received by *)
(* the node that made the call (Proxy::Invoke, Proxy::InvokeResponse).     *)
AnswersReachCaller ==
  \A c \in Calls : \A i \in 1..Len(answers[c]) : answers[c][i].node = Caller[c]

(* A request is executed at most once and answered at most once: stale     *)
(* routes may bounce an INVOKE between proxies but never multiply it.      *)
AtMostOnce == \A c \in Calls : served[c] <= 1 /\ Len(answers[c]) <= 1

(* invokeResponses and invokeResponsesCallTime hold the same callbacks, so *)
(* that CleanUpResponsesMap, which scans the second, can purge the first.  *)
CallbackTablesAgree ==
  \A p \in Proxies, c \in Calls :
    invokeResponses[p][c] = None <=> invokeResponsesCallTime[p][c] = None

(* A result of method m is one that call c asked for; m = None is a pong. *)
ResultOK(c, m) ==
  \/ issued[c] = "PING" /\ m = None
  \/ /\ issued[c] = "INVOKE"
     /\ m \in Methods
     /\ Provides[m] = Wants[c]
     /\ \E p \in Proxies : m \in advertised[p]

(* A result comes from a method that was registered for the identifier the *)
(* call asked for, although every proxy on the way picks a method anew; a  *)
(* PING is answered by the proxy itself.                                   *)
RightMethodAnswers ==
  \A c \in Calls : \A i \in 1..Len(answers[c]) :
    answers[c][i].cmd \in ResponseCmds => ResultOK(c, answers[c][i].payload)

(* What every message on its way from s to d says truthfully. *)
Truthful(s, d, msg) ==
  /\ msg.source_proxy_guid = s
  /\ msg.cmd = "INVOKE" =>
       /\ msg.guid_from \in Calls
       /\ issued[msg.guid_from] = "INVOKE"
       /\ msg.identifier = Wants[msg.guid_from]
       /\ s \in Nodes => s = Caller[msg.guid_from]
       /\ d \in Nodes => msg.guid_to \in Methods /\ ResultOK(msg.guid_from, msg.guid_to)
  /\ msg.cmd = "PING" =>
       /\ msg.guid_from \in Calls
       /\ issued[msg.guid_from] = "PING"
       /\ s = Caller[msg.guid_from]
  /\ msg.cmd \in ResponseCmds =>
       /\ msg.guid_to \in Calls
       /\ d \in Nodes => d = Caller[msg.guid_to]
       /\ ResultOK(msg.guid_to, msg.payload)
  /\ msg.cmd = "ERROR" /\ d \in Nodes /\ msg.guid_to \in Calls =>
       d = Caller[msg.guid_to]

TruthfulMessages ==
  [s \in Procs |-> [d \in Procs |-> {msg \in Message : Truthful(s, d, msg)}]]

(* Nodes talk to proxies only, and nobody to itself. *)
Silent(s, d) == s = d \/ (s \in Nodes /\ d \in Nodes)

ChannelsTruthful ==
  \A s, d \in Procs :
    /\ chan[s][d] \in Seq(TruthfulMessages[s][d])
    /\ Silent(s, d) => chan[s][d] = <<>>

WorkTruthful ==
  \A n \in Nodes : \A w \in working[n] : ResultOK(w.call, w.method)

AnswersTruthful ==
  \A c \in Calls : \A i \in 1..Len(answers[c]) :
    /\ answers[c][i].node = Caller[c]
    /\ answers[c][i].cmd \in ResponseCmds => ResultOK(c, answers[c][i].payload)

CallbacksLeadToCaller ==
  \A p \in Proxies, c \in Calls :
    /\ invokeResponses[p][c] # p
    /\ invokeResponses[p][c] \in Nodes => invokeResponses[p][c] = Caller[c]

OffersAdvertised == \A p \in Proxies : offers[p] \subseteq advertised[p]

(* The inductive invariant: along every hop of a call and of its answer,   *)
(* the message, the table entry it left behind and the node executing it   *)
(* agree on who called, what was asked for and which method was chosen     *)
(* (Proxy::Invoke, Proxy::InvokeResponse).                                 *)
RoutingInv ==
  /\ TypeOK
  /\ OffersAdvertised
  /\ RoutesWereAdvertised
  /\ ChannelsTruthful
  /\ WorkTruthful
  /\ AnswersTruthful
  /\ CallbackTablesAgree
  /\ CallbacksLeadToCaller

(* S holds every proxy whose callback for c is the caller or leads into S. *)
ClosedBackwards(S, c) ==
  \A p \in Proxies :
    invokeResponses[p][c] = Caller[c] \/ invokeResponses[p][c] \in S => p \in S

(* The proxies from which invokeResponses leads to the caller of c: the    *)
(* least set that is closed backwards.                                     *)
BackToCaller(c) ==
  {p \in Proxies : \A S \in SUBSET Proxies : ClosedBackwards(S, c) => p \in S}

(* The proxies that an invocation under way or its answer reaches next on  *)
(* the way back to the caller.                                             *)
OnTheWay(c) ==
  {w.proxy : w \in {x \in UNION {working[n] : n \in Nodes} : x.call = c}}
  \cup {p \in Proxies : \E d \in Procs : \E i \in 1..Len(chan[p][d]) :
          chan[p][d][i].cmd = "INVOKE" /\ chan[p][d][i].guid_from = c}
  \cup {p \in Proxies : \E s \in Procs : \E i \in 1..Len(chan[s][p]) :
          chan[s][p][i].cmd \in ResponseCmds /\ chan[s][p][i].guid_to = c}

(* Unless a clean-up took one of its callbacks, the return path of a call  *)
(* under way is complete: even when stale routes send the INVOKE through   *)
(* the same proxy twice, the tables lead back to the caller without a      *)
(* cycle.                                                                  *)
ReturnPathIntact ==
  \A c \in Calls \ purged : OnTheWay(c) \subseteq BackToCaller(c)

(* A step that keeps p's callback for c, or drops it with a response to c  *)
(* or after more than CallbackTTL seconds.                                 *)
KeepsCallback(p, c) ==
  \/ invokeResponses[p][c] = None
  \/ invokeResponses'[p][c] = invokeResponses[p][c]
  \/ /\ invokeResponses'[p][c] = None
     /\ \/ invokeResponsesCallTime[p][c] > CallbackTTL
        \/ \E s \in Procs :
             /\ chan[s][p] # <<>>
             /\ Head(chan[s][p]).cmd \in ResponseCmds
             /\ Head(chan[s][p]).guid_to = c
             /\ chan'[s][p] = Tail(chan[s][p])

(* A callback is never redirected, whatever bounces through the proxy, and *)
(* it leaves the table only together with the answer it was kept for or    *)
(* when it has expired (Proxy::Invoke, Proxy::InvokeResponse,              *)
(* Proxy::CleanUpResponsesMap).                                            *)
CallbackKept == [][\A p \in Proxies, c \in Calls : KeepsCallback(p, c)]_vars

(* What the log line of the clean-up says: it removes dead callbacks.  The *)
(* callback of a call is not dead while a node is executing the call.      *)
OnlyDeadCallbacksPurged ==
  [][\A c \in purged' \ purged, n \in Nodes : \A w \in working[n] :
       w.call # c]_vars
----------------------------------------------------------------------------
(* Liveness *)

(* The main loop reaches the clean-up again and again, and time passes. *)
CleanUpFairness ==
  /\ WF_vars(Tick)
  /\ \A p \in Proxies : WF_vars(CleanUpResponsesMap(p))

CleanUpSpec == Spec /\ CleanUpFairness

(* Every callback eventually leaves the table, answered or not: lost       *)
(* answers do not fill invokeResponses.                                    *)
CallbacksLeave ==
  \A p \in Proxies, c \in Calls :
    invokeResponses[p][c] # None ~> invokeResponses[p][c] = None

(* A calm period: nothing is lost, no local method is withdrawn, and no    *)
(* call lasts long enough for a clean-up.                                  *)
CalmNext ==
  \/ NodeStep
  \/ \E p \in Proxies, s \in Procs : SubscriberCallback(p, s)
  \/ RegistryStep /\ \A p \in Proxies : offers[p] \subseteq offers'[p]

CalmSpec ==
  /\ Init /\ [][CalmNext]_vars
  /\ \A p \in Proxies, s \in Procs : WF_vars(SubscriberCallback(p, s))
  /\ \A n \in Nodes, p \in Proxies :
       WF_vars(NodeStartsWork(n, p)) /\ WF_vars(NodeGetsAnswer(n, p))
  /\ \A n \in Nodes : WF_vars(\E w \in working[n], cmd \in ResponseCmds :
                                NodeResponds(n, w, cmd))

(* In a calm period every INVOKE and every PING is answered. *)
EveryCallAnswered ==
  \A c \in Calls : issued[c] \in {"INVOKE", "PING"} ~> answers[c] # <<>>
=============================================================================
