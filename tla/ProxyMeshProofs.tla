--------------------------- MODULE ProxyMeshProofs ---------------------------
(***************************************************************************)
(* Discovery and connections for every number of proxies and nodes and     *)
(* every assignment of addresses to them: the hello that is answered is    *)
(* the one that waits, no publisher is subscribed to twice, and no proxy   *)
(* is connected to itself.                                                 *)
(***************************************************************************)
EXTENDS ProxyMesh, TLAPS

(* Nothing is left of a process that ended or has not started. *)
EndedIsReset ==
  \A p \in Guids : p \notin up =>
    /\ target[p] = None /\ answer[p] = None
    /\ \A k \in Keys : subscribers[p][k] = None

(* A port is bound by one process at a time. *)
PortsDistinct ==
  \A p, q \in up : p # q => RespAddr[p] # RespAddr[q] /\ PubAddr[p] # PubAddr[q]

(* The one open REQ socket of a proxy is that of the hello it waits for. *)
OpenHellos ==
  \A a \in RespAddrs, p \in Guids :
    <<p, "open">> \in hellos[a] => target[p] # None /\ RespAddr[target[p]] = a

(* Whoever listens where p's hello went to is in met[p]. *)
MetListens ==
  \A p \in Guids, q \in up :
    target[p] # None /\ RespAddr[q] = RespAddr[target[p]] => q \in met[p]

AnswersAreOthers ==
  \A p \in Guids : answer[p] # None => target[p] # None /\ answer[p] # PubAddr[p]

MeshInv ==
  /\ TypeOK /\ OneSubscriberPerPublisher /\ HelloAnswersMatch /\ NoSelfConnection
  /\ EndedIsReset /\ PortsDistinct /\ OpenHellos /\ MetListens /\ AnswersAreOthers

LEMMA ConstantFacts ==
  /\ \A g \in Guids : g \in Keys /\ PubAddr[g] \in Conns /\ RespAddr[g] \in RespAddrs
                      /\ PubAddr[g] # None /\ g # None
  /\ \A n \in Nodes : NodeConn[n] \in Keys /\ NodeConn[n] \in Conns /\ NodeConn[n] # None
BY MeshAssumption DEF Keys, Conns, RespAddrs

(* AddSubscriber leaves at most one subscriber per connect string, and no  *)
(* connect string but those that were there and the new one.               *)
LEMMA AddSubscriberResult ==
  ASSUME TypeOK, OneSubscriberPerPublisher, NEW p \in Guids, NEW key \in Keys,
         NEW conn \in Conns, AddSubscriber(p, key, conn)
  PROVE  /\ subscribers' \in [Guids -> [Keys -> Conns \cup {None}]]
         /\ quiet' \in [Guids -> SUBSET Keys]
         /\ OneSubscriberPerPublisher'
         /\ \A q \in Guids, k \in Keys :
              \/ subscribers'[q][k] = subscribers[q][k]
              \/ q = p /\ subscribers'[q][k] = None
              \/ q = p /\ subscribers'[q][k] = conn
<1>1. PICK subs \in WithoutDuplicate(subscribers[p], conn) :
        /\ subscribers' = [subscribers EXCEPT ![p] = Insert(subs, key, conn)]
        /\ quiet' = [quiet EXCEPT ![p] = {k \in @ \ {key} : subs[k] # None}]
  BY DEF AddSubscriber
<1>0. conn # None BY MeshAssumption
<1> DEFINE old == subscribers[p]
           same == {k \in Keys : old[k] = conn}
<1>2. old \in [Keys -> Conns \cup {None}] BY DEF TypeOK
<1>3. /\ subs \in [Keys -> Conns \cup {None}]
      /\ \A k \in Keys : subs[k] # conn
      /\ \A k \in Keys : subs[k] = old[k] \/ subs[k] = None
  <2>1. CASE same = {}
    <3>1. subs = old BY <1>1, <2>1 DEF WithoutDuplicate
    <3> QED BY <1>2, <2>1, <3>1
  <2>2. CASE same # {}
    <3>1. PICK k \in same : subs = [old EXCEPT ![k] = None]
      BY <1>1, <2>2 DEF WithoutDuplicate
    <3>2. ASSUME NEW l \in Keys, l # k PROVE old[l] # conn
      BY <1>0, <3>1, <3>2 DEF OneSubscriberPerPublisher
    <3> QED BY <1>0, <1>2, <3>1, <3>2
  <2> QED BY <2>1, <2>2
<1> DEFINE new == Insert(subs, key, conn)
<1>4. /\ new \in [Keys -> Conns \cup {None}]
      /\ \A k \in Keys : new[k] = subs[k] \/ (k = key /\ new[k] = conn)
  BY <1>3 DEF Insert
<1>5. subscribers'[p] = new /\ \A q \in Guids : q # p => subscribers'[q] = subscribers[q]
  BY <1>1 DEF TypeOK
<1> HIDE DEF new, same
<1>6. subscribers' \in [Guids -> [Keys -> Conns \cup {None}]]
  BY <1>1, <1>4 DEF TypeOK, new
<1>7. quiet' \in [Guids -> SUBSET Keys]
  BY <1>1 DEF TypeOK
<1>8. OneSubscriberPerPublisher'
  <2> SUFFICES ASSUME NEW q \in Guids, NEW k \in Keys, NEW l \in Keys,
                      subscribers'[q][k] # None, subscribers'[q][k] = subscribers'[q][l]
               PROVE  k = l
    BY DEF OneSubscriberPerPublisher
  <2>1. CASE q # p BY <1>5, <2>1 DEF OneSubscriberPerPublisher
  <2>2. CASE q = p
    <3>1. new[k] # None /\ new[k] = new[l] BY <1>5, <2>2
    <3>2. CASE new[k] = conn
      <4>1. k = key /\ l = key BY <1>3, <1>4, <3>1, <3>2
      <4> QED BY <4>1
    <3>3. CASE new[k] # conn
      <4>1. new[k] = subs[k] /\ new[l] = subs[l] BY <1>4, <3>1, <3>3
      <4>2. subs[k] = old[k] /\ subs[l] = old[l] BY <1>3, <3>1, <4>1
      <4> QED BY <3>1, <4>1, <4>2 DEF OneSubscriberPerPublisher
    <3> QED BY <3>2, <3>3
  <2> QED BY <2>1, <2>2
<1>9. ASSUME NEW q \in Guids, NEW k \in Keys
      PROVE  \/ subscribers'[q][k] = subscribers[q][k]
             \/ q = p /\ subscribers'[q][k] = None
             \/ q = p /\ subscribers'[q][k] = conn
  BY <1>3, <1>4, <1>5
<1> QED BY <1>6, <1>7, <1>8, <1>9

(* Closing p's requester leaves no open hello of p and adds none. *)
LEMMA CloseRequesterResult ==
  ASSUME TypeOK, NEW p \in Guids
  PROVE  /\ CloseRequester(p) \in [RespAddrs -> SUBSET (Guids \X {"open", "closed"})]
         /\ \A a \in RespAddrs : <<p, "open">> \notin CloseRequester(p)[a]
         /\ \A a \in RespAddrs, q \in Guids :
              <<q, "open">> \in CloseRequester(p)[a] => <<q, "open">> \in hellos[a]
<1>1. ASSUME NEW a \in RespAddrs
      PROVE  /\ CloseRequester(p)[a] \subseteq Guids \X {"open", "closed"}
             /\ <<p, "open">> \notin CloseRequester(p)[a]
             /\ \A q \in Guids :
                  <<q, "open">> \in CloseRequester(p)[a] => <<q, "open">> \in hellos[a]
  <2>1. CloseRequester(p)[a] =
          IF <<p, "open">> \in hellos[a]
          THEN (hellos[a] \ {<<p, "open">>}) \cup {<<p, "closed">>}
          ELSE hellos[a]
    BY DEF CloseRequester
  <2>2. hellos[a] \subseteq Guids \X {"open", "closed"} BY DEF TypeOK
  <2>3. \A q \in Guids : <<q, "open">> # <<p, "closed">> OBVIOUS
  <2> QED BY <2>1, <2>2, <2>3
<1> QED BY <1>1 DEF CloseRequester
----------------------------------------------------------------------------
(* The steps keep the invariant *)

(* Steps that change no connection and no hello. *)
LEMMA QuietStepKeeps ==
  ASSUME MeshInv, UNCHANGED <<up, subscribers, target, hellos, answer, met>>, TypeOK'
  PROVE  MeshInv'
<1>1. OneSubscriberPerPublisher' /\ HelloAnswersMatch'
  BY DEF MeshInv, OneSubscriberPerPublisher, HelloAnswersMatch
<1>2. NoSelfConnection'
  BY DEF MeshInv, NoSelfConnection, TypeOK
<1>3. EndedIsReset' /\ PortsDistinct' /\ OpenHellos'
  BY DEF MeshInv, EndedIsReset, PortsDistinct, OpenHellos
<1>4. MetListens' /\ AnswersAreOthers'
  BY DEF MeshInv, MetListens, AnswersAreOthers
<1> QED BY <1>1, <1>2, <1>3, <1>4 DEF MeshInv

LEMMA PingKeeps ==
  ASSUME MeshInv, NEW p \in Guids,
         PingRedis(p) \/ ReadProxies(p) \/ PingDone(p)
  PROVE  MeshInv'
<1> USE DEF procVars, subVars, helloVars
<1>0. TypeOK BY DEF MeshInv
<1>1. CASE PingRedis(p)
  <2>1. TypeOK' BY <1>0, <1>1 DEF PingRedis, TypeOK
  <2> QED BY <1>1, <2>1, QuietStepKeeps DEF PingRedis
<1>2. CASE ReadProxies(p)
  <2>1. TypeOK' BY <1>0, <1>2 DEF ReadProxies, TypeOK
  <2> QED BY <1>2, <2>1, QuietStepKeeps DEF ReadProxies
<1>3. CASE PingDone(p)
  <2>1. TypeOK' BY <1>0, <1>3 DEF PingDone, TypeOK
  <2> QED BY <1>3, <2>1, QuietStepKeeps DEF PingDone
<1> QED BY <1>1, <1>2, <1>3

LEMMA ScanKeeps ==
  ASSUME MeshInv, NEW p \in Guids, NEW g \in Guids,
         SkipEntry(p, g) \/ RemoveOldSelf(p, g) \/ RequesterFails(p, g)
  PROVE  MeshInv'
<1> USE DEF procVars, subVars, helloVars
<1>0. TypeOK BY DEF MeshInv
<1>1. /\ todo' = [todo EXCEPT ![p] = @ \ {g}] /\ zset' \subseteq zset
      /\ UNCHANGED <<started, up, redisCtx, subscribers, proxiesGuids, nodesGuids, quiet,
                     pc, target, hellos, answer, met>>
  BY DEF SkipEntry, RemoveOldSelf, RequesterFails, ZRem
<1>2. TypeOK' BY <1>0, <1>1 DEF TypeOK
<1> QED BY <1>1, <1>2, QuietStepKeeps

LEMMA HearingKeeps ==
  ASSUME MeshInv, NEW p \in Guids, NEW k \in Keys, GoesQuiet(p, k) \/ Heard(p, k)
  PROVE  MeshInv'
<1> USE DEF procVars, pingVars, helloVars
<1>0. TypeOK BY DEF MeshInv
<1>1. /\ quiet' \in [Guids -> SUBSET Keys]
      /\ UNCHANGED <<started, up, redisCtx, zset, subscribers, proxiesGuids, nodesGuids,
                     pc, todo, target, hellos, answer, met>>
  <2>1. CASE GoesQuiet(p, k) BY <1>0, <2>1 DEF GoesQuiet, TypeOK
  <2>2. CASE Heard(p, k) BY <1>0, <2>2 DEF Heard, TypeOK
  <2> QED BY <2>1, <2>2
<1>2. TypeOK' BY <1>0, <1>1 DEF TypeOK
<1> QED BY <1>1, <1>2, QuietStepKeeps

LEMMA BreakRedisKeeps ==
  ASSUME MeshInv, NEW p \in Guids, BreakRedis(p)
  PROVE  MeshInv'
<1> USE DEF procVars, subVars, pingVars, helloVars
<1>1. TypeOK' BY DEF MeshInv, TypeOK, BreakRedis
<1> QED BY <1>1, QuietStepKeeps DEF BreakRedis

(* Steps that change only the subscribers of a running proxy p. *)
LEMMA SubscribersKeep ==
  ASSUME MeshInv, NEW p \in up,
         UNCHANGED <<up, target, hellos, answer, met>>, TypeOK',
         OneSubscriberPerPublisher',
         \A q \in Guids, k \in Keys :
           \/ subscribers'[q][k] = subscribers[q][k]
           \/ q = p /\ subscribers'[q][k] # PubAddr[p]
  PROVE  MeshInv'
<1>1. HelloAnswersMatch' BY DEF MeshInv, HelloAnswersMatch
<1>2. NoSelfConnection' BY DEF MeshInv, NoSelfConnection, TypeOK
<1>3. EndedIsReset' /\ PortsDistinct' /\ OpenHellos'
  BY DEF MeshInv, EndedIsReset, PortsDistinct, OpenHellos
<1>4. MetListens' /\ AnswersAreOthers'
  BY DEF MeshInv, MetListens, AnswersAreOthers
<1> QED BY <1>1, <1>2, <1>3, <1>4 DEF MeshInv

LEMMA KillInactiveKeeps ==
  ASSUME MeshInv, NEW p \in Guids, NEW k \in Keys, KillInactive(p, k)
  PROVE  MeshInv'
<1> USE DEF procVars, pingVars, helloVars
<1>0. TypeOK BY DEF MeshInv
<1>1. TypeOK' BY <1>0 DEF TypeOK, KillInactive
<1>2. \A q \in Guids, l \in Keys : subscribers'[q][l] =
        IF q = p /\ l = k THEN None ELSE subscribers[q][l]
  BY <1>0 DEF TypeOK, KillInactive
<1>3. OneSubscriberPerPublisher'
  BY <1>2 DEF MeshInv, OneSubscriberPerPublisher
<1>4. p \in up /\ None # PubAddr[p] BY ConstantFacts DEF KillInactive
<1> QED BY <1>1, <1>2, <1>3, <1>4, SubscribersKeep DEF KillInactive

LEMMA NodeHelloKeeps ==
  ASSUME MeshInv, NEW p \in Guids, NEW n \in Nodes, NodeHello(p, n)
  PROVE  MeshInv'
<1> USE DEF procVars, pingVars, helloVars
<1>0. TypeOK BY DEF MeshInv
<1>1. /\ p \in up /\ None # PubAddr[p] /\ NodeConn[n] # PubAddr[p]
      /\ NodeConn[n] \in Keys /\ NodeConn[n] \in Conns
  BY ConstantFacts DEF NodeHello
<1>2. /\ subscribers' \in [Guids -> [Keys -> Conns \cup {None}]]
      /\ quiet' \in [Guids -> SUBSET Keys]
      /\ OneSubscriberPerPublisher'
      /\ \A q \in Guids, k \in Keys :
           \/ subscribers'[q][k] = subscribers[q][k]
           \/ q = p /\ subscribers'[q][k] = None
           \/ q = p /\ subscribers'[q][k] = NodeConn[n]
  BY <1>0, <1>1, AddSubscriberResult DEF MeshInv, NodeHello
<1>3. TypeOK' BY <1>0, <1>2 DEF TypeOK, NodeHello
<1> QED BY <1>1, <1>2, <1>3, SubscribersKeep DEF NodeHello

LEMMA SendProxyHelloKeeps ==
  ASSUME MeshInv, NEW p \in Guids, NEW g \in Guids, SendProxyHello(p, g)
  PROVE  MeshInv'
<1> USE DEF procVars, subVars
<1>0. TypeOK BY DEF MeshInv
<1>1. target[p] = None /\ g # None /\ RespAddr[g] \in RespAddrs /\ p \in up
      /\ RespAddr[g] # RespAddr[p]
  BY <1>0, ConstantFacts DEF SendProxyHello, TypeOK, OwnAddress
<1>2. /\ \A q \in Guids : target'[q] = IF q = p THEN g ELSE target[q]
      /\ \A q \in Guids : pc'[q] = IF q = p THEN "wait" ELSE pc[q]
      /\ \A q \in Guids : met'[q] = IF q = p THEN At(RespAddr[g]) ELSE met[q]
      /\ \A a \in RespAddrs : hellos'[a] =
           IF a = RespAddr[g] THEN hellos[a] \cup {<<p, "open">>} ELSE hellos[a]
      /\ UNCHANGED <<up, subscribers, answer>>
  BY <1>0 DEF SendProxyHello, TypeOK
<1>3. TypeOK'
  <2>1. hellos' \in [RespAddrs -> SUBSET (Guids \X {"open", "closed"})]
    <3>1. <<p, "open">> \in Guids \X {"open", "closed"} OBVIOUS
    <3>2. hellos' = [hellos EXCEPT ![RespAddr[g]] = @ \cup {<<p, "open">>}]
      BY DEF SendProxyHello
    <3>3. hellos \in [RespAddrs -> SUBSET (Guids \X {"open", "closed"})]
      BY <1>0 DEF TypeOK
    <3>4. ASSUME NEW T, NEW R, NEW f \in [R -> SUBSET T], NEW t \in T, NEW a
          PROVE  [f EXCEPT ![a] = @ \cup {t}] \in [R -> SUBSET T]
      OBVIOUS
    <3> HIDE DEF procVars, subVars
    <3> QED BY <3>1, <3>2, <3>3, <3>4
  <2>2. met' \in [Guids -> SUBSET Guids]
    BY <1>0 DEF TypeOK, SendProxyHello, At
  <2>3. \A q \in Guids : pc'[q] = "wait" <=> target'[q] # None
    BY <1>0, <1>1, <1>2 DEF TypeOK
  <2> QED BY <1>0, <2>1, <2>2, <2>3 DEF TypeOK, SendProxyHello
<1>4. answer[p] = None BY <1>1 DEF MeshInv, AnswersAreOthers
<1>5. \A a \in RespAddrs : <<p, "open">> \notin hellos[a]
  BY <1>1 DEF MeshInv, OpenHellos
<1>6. OneSubscriberPerPublisher' BY <1>2 DEF MeshInv, OneSubscriberPerPublisher
<1>7. HelloAnswersMatch' BY <1>2, <1>4 DEF MeshInv, HelloAnswersMatch
<1>8. NoSelfConnection'
  BY <1>0, <1>1, <1>2 DEF MeshInv, NoSelfConnection, TypeOK
<1>9. EndedIsReset' BY <1>1, <1>2 DEF MeshInv, EndedIsReset
<1>10. PortsDistinct' BY <1>2 DEF MeshInv, PortsDistinct
<1>11. OpenHellos'
  <2> SUFFICES ASSUME NEW a \in RespAddrs, NEW q \in Guids, <<q, "open">> \in hellos'[a]
               PROVE  target'[q] # None /\ RespAddr[target'[q]] = a
    BY DEF OpenHellos
  <2>1. CASE q = p
    <3>1. a = RespAddr[g] BY <1>2, <1>5, <2>1
    <3> QED BY <1>1, <1>2, <2>1, <3>1
  <2>2. CASE q # p
    <3>0. <<q, "open">> # <<p, "open">> BY <2>2
    <3>1. <<q, "open">> \in hellos[a] BY <1>2, <3>0
    <3> QED BY <1>2, <2>2, <3>1 DEF MeshInv, OpenHellos
  <2> QED BY <2>1, <2>2
<1>12. MetListens'
  BY <1>0, <1>1, <1>2 DEF MeshInv, MetListens, At, TypeOK
<1>13. AnswersAreOthers'
  BY <1>1, <1>2, <1>4 DEF MeshInv, AnswersAreOthers
<1> QED BY <1>3, <1>6, <1>7, <1>8, <1>9, <1>10, <1>11, <1>12, <1>13 DEF MeshInv

(* The end of a hello, whatever becomes of p's subscribers. *)
LEMMA HelloDoneKeeps ==
  ASSUME MeshInv, NEW p \in up, HelloDone(p),
         UNCHANGED <<started, up, redisCtx, nodesGuids, todo>>,
         zset' \subseteq zset,
         proxiesGuids' \in [Guids -> SUBSET Guids],
         quiet' \in [Guids -> SUBSET Keys],
         subscribers' \in [Guids -> [Keys -> Conns \cup {None}]],
         OneSubscriberPerPublisher',
         \A q \in Guids, k \in Keys :
           \/ subscribers'[q][k] = subscribers[q][k]
           \/ q = p /\ subscribers'[q][k] # PubAddr[p]
  PROVE  MeshInv'
<1>0. TypeOK /\ p \in Guids BY DEF MeshInv, TypeOK
<1>1. /\ \A q \in Guids : target'[q] = IF q = p THEN None ELSE target[q]
      /\ \A q \in Guids : answer'[q] = IF q = p THEN None ELSE answer[q]
      /\ \A q \in Guids : met'[q] = IF q = p THEN {} ELSE met[q]
      /\ \A q \in Guids : pc'[q] = IF q = p THEN "scan" ELSE pc[q]
  BY <1>0 DEF HelloDone, TypeOK
<1>2. /\ hellos' \in [RespAddrs -> SUBSET (Guids \X {"open", "closed"})]
      /\ \A a \in RespAddrs : <<p, "open">> \notin hellos'[a]
      /\ \A a \in RespAddrs, q \in Guids :
           <<q, "open">> \in hellos'[a] => <<q, "open">> \in hellos[a]
  BY <1>0, CloseRequesterResult DEF HelloDone
<1>3. TypeOK'
  <2>1. \A q \in Guids : pc'[q] = "wait" <=> target'[q] # None
    BY <1>0, <1>1 DEF TypeOK
  <2>2. /\ pc' \in [Guids -> {"loop", "read", "scan", "wait"}]
        /\ target' \in [Guids -> Guids \cup {None}]
        /\ answer' \in [Guids -> {PubAddr[g] : g \in Guids} \cup {None}]
        /\ met' \in [Guids -> SUBSET Guids]
    BY <1>0 DEF TypeOK, HelloDone
  <2> QED BY <1>0, <1>2, <2>1, <2>2 DEF TypeOK
<1>4. HelloAnswersMatch' /\ AnswersAreOthers'
  BY <1>1 DEF MeshInv, HelloAnswersMatch, AnswersAreOthers
<1>5. NoSelfConnection'
  <2> SUFFICES ASSUME NEW q \in up
               PROVE  /\ \A k \in Keys : subscribers'[q][k] # PubAddr[q]
                      /\ pc'[q] = "wait" => RespAddr[target'[q]] # RespAddr[q]
    BY DEF NoSelfConnection
  <2>1. /\ q \in Guids /\ \A k \in Keys : subscribers[q][k] # PubAddr[q]
        /\ pc[q] = "wait" => RespAddr[target[q]] # RespAddr[q]
    BY <1>0 DEF MeshInv, NoSelfConnection, TypeOK
  <2>2. \A k \in Keys : subscribers'[q][k] # PubAddr[q] BY <2>1
  <2>3. pc'[q] = "wait" => RespAddr[target'[q]] # RespAddr[q]
    BY <1>1, <2>1
  <2> QED BY <2>2, <2>3
<1>6. EndedIsReset'
  <2> SUFFICES ASSUME NEW q \in Guids, q \notin up
               PROVE  /\ target'[q] = None /\ answer'[q] = None
                      /\ \A k \in Keys : subscribers'[q][k] = None
    BY DEF EndedIsReset
  <2>1. /\ q # p /\ target[q] = None /\ answer[q] = None
        /\ \A k \in Keys : subscribers[q][k] = None
    BY DEF MeshInv, EndedIsReset
  <2>2. target'[q] = None /\ answer'[q] = None BY <1>1, <2>1
  <2> QED BY <2>1, <2>2
<1>7. PortsDistinct' BY DEF MeshInv, PortsDistinct
<1>8. OpenHellos'
  <2> SUFFICES ASSUME NEW a \in RespAddrs, NEW q \in Guids, <<q, "open">> \in hellos'[a]
               PROVE  target'[q] # None /\ RespAddr[target'[q]] = a
    BY DEF OpenHellos
  <2>1. q # p /\ <<q, "open">> \in hellos[a] BY <1>2
  <2> QED BY <1>1, <2>1 DEF MeshInv, OpenHellos
<1>9. MetListens' BY <1>1 DEF MeshInv, MetListens
<1> QED BY <1>3, <1>4, <1>5, <1>6, <1>7, <1>8, <1>9 DEF MeshInv

LEMMA HelloOkKeeps ==
  ASSUME MeshInv, NEW p \in Guids, HelloOk(p)
  PROVE  MeshInv'
<1> USE DEF procVars
<1>0. TypeOK BY DEF MeshInv
<1>1. p \in up /\ answer[p] # None /\ target[p] \in Guids
  BY <1>0 DEF HelloOk, TypeOK
<1>2. target[p] \in Keys /\ answer[p] \in Conns /\ answer[p] # PubAddr[p]
      /\ None # PubAddr[p]
  BY <1>0, <1>1, ConstantFacts DEF MeshInv, AnswersAreOthers, TypeOK, Conns
<1>3. /\ subscribers' \in [Guids -> [Keys -> Conns \cup {None}]]
      /\ quiet' \in [Guids -> SUBSET Keys]
      /\ OneSubscriberPerPublisher'
      /\ \A q \in Guids, k \in Keys :
           \/ subscribers'[q][k] = subscribers[q][k]
           \/ q = p /\ subscribers'[q][k] = None
           \/ q = p /\ subscribers'[q][k] = answer[p]
  BY <1>0, <1>2, AddSubscriberResult DEF MeshInv, HelloOk
<1>4. proxiesGuids' \in [Guids -> SUBSET Guids]
  BY <1>0, <1>1 DEF TypeOK, HelloOk
<1>5. HelloDone(p) /\ UNCHANGED <<started, up, redisCtx, nodesGuids, todo, zset>>
  BY DEF HelloOk
<1>6. \A q \in Guids, k \in Keys :
        \/ subscribers'[q][k] = subscribers[q][k]
        \/ q = p /\ subscribers'[q][k] # PubAddr[p]
  BY <1>2, <1>3
<1> QED BY <1>1, <1>3, <1>4, <1>5, <1>6, HelloDoneKeeps

LEMMA HelloFailsKeeps ==
  ASSUME MeshInv, NEW p \in Guids, SubscriberFails(p) \/ HelloTimesOut(p)
  PROVE  MeshInv'
<1> USE DEF procVars, subVars
<1>0. TypeOK BY DEF MeshInv
<1>1. /\ p \in up /\ HelloDone(p) /\ zset' \subseteq zset
      /\ proxiesGuids' \in [Guids -> SUBSET Guids]
      /\ UNCHANGED <<started, up, redisCtx, nodesGuids, todo, subscribers, quiet>>
  BY <1>0 DEF SubscriberFails, HelloTimesOut, ZRem, TypeOK
<1>2. OneSubscriberPerPublisher' BY <1>1 DEF MeshInv, OneSubscriberPerPublisher
<1>3. /\ subscribers' \in [Guids -> [Keys -> Conns \cup {None}]]
      /\ quiet' \in [Guids -> SUBSET Keys]
      /\ \A q \in Guids, k \in Keys : subscribers'[q][k] = subscribers[q][k]
  BY <1>0, <1>1 DEF TypeOK
<1> QED BY <1>1, <1>2, <1>3, HelloDoneKeeps

LEMMA ProxyHelloKeeps ==
  ASSUME MeshInv, NEW p \in Guids, NEW req \in hellos[RespAddr[p]], ProxyHello(p, req)
  PROVE  MeshInv'
<1> USE DEF procVars, subVars, pingVars
<1>0. TypeOK /\ RespAddr[p] \in RespAddrs BY ConstantFacts DEF MeshInv
<1>1. PICK q \in Guids, state \in {"open", "closed"} : req = <<q, state>>
  BY <1>0 DEF TypeOK
<1>2. /\ p \in up
      /\ UNCHANGED <<started, up, redisCtx, zset, subscribers, proxiesGuids, nodesGuids,
                     quiet, pc, todo, target, met>>
      /\ \A a \in RespAddrs : hellos'[a] \subseteq hellos[a]
  BY <1>0 DEF ProxyHello, TypeOK
<1>3. hellos' \in [RespAddrs -> SUBSET (Guids \X {"open", "closed"})]
  BY <1>0 DEF ProxyHello, TypeOK
<1>4. PubAddr[p] \in {PubAddr[g] : g \in Guids} OBVIOUS
<1>5. \/ answer' = answer
      \/ state = "open" /\ answer' = [answer EXCEPT ![q] = PubAddr[p]]
  BY <1>1 DEF ProxyHello
<1>6. TypeOK' BY <1>0, <1>2, <1>3, <1>4, <1>5 DEF TypeOK
<1>7. ASSUME NEW r \in Guids, answer'[r] # None, answer'[r] # answer[r]
      PROVE  /\ target[r] # None /\ answer'[r] = PubAddr[p] /\ p \in met[r]
             /\ PubAddr[p] # PubAddr[r]
  <2>1. r = q /\ state = "open" /\ answer'[r] = PubAddr[p]
    BY <1>0, <1>5, <1>7 DEF TypeOK
  <2>2. target[q] # None /\ RespAddr[target[q]] = RespAddr[p]
    BY <1>0, <1>1, <2>1 DEF MeshInv, OpenHellos
  <2>3. p \in met[q] BY <1>2, <2>2 DEF MeshInv, MetListens
  <2>4. q \in up BY <2>2 DEF MeshInv, EndedIsReset
  <2>5. pc[q] = "wait" BY <1>0, <2>2 DEF TypeOK
  <2>6. RespAddr[q] # RespAddr[p] BY <2>2, <2>4, <2>5 DEF MeshInv, NoSelfConnection
  <2>7. PubAddr[p] # PubAddr[q] BY <1>2, <2>4, <2>6 DEF MeshInv, PortsDistinct
  <2> QED BY <2>1, <2>2, <2>3, <2>7
<1>8. HelloAnswersMatch'
  BY <1>2, <1>7 DEF MeshInv, HelloAnswersMatch
<1>9. AnswersAreOthers'
  BY <1>2, <1>7 DEF MeshInv, AnswersAreOthers
<1>10. OneSubscriberPerPublisher' /\ NoSelfConnection' /\ PortsDistinct' /\ MetListens'
  BY <1>2 DEF MeshInv, OneSubscriberPerPublisher, NoSelfConnection, PortsDistinct, MetListens
<1>11. EndedIsReset'
  BY <1>2, <1>7 DEF MeshInv, EndedIsReset
<1>12. OpenHellos' BY <1>2 DEF MeshInv, OpenHellos
<1> QED BY <1>6, <1>8, <1>9, <1>10, <1>11, <1>12 DEF MeshInv

LEMMA DiesKeeps ==
  ASSUME MeshInv, NEW p \in up, Dies(p), UNCHANGED <<started, redisCtx, zset>>
  PROVE  MeshInv'
<1>0. TypeOK /\ p \in Guids /\ RespAddr[p] \in RespAddrs
  BY ConstantFacts DEF MeshInv, TypeOK
<1>1. /\ up' = up \ {p}
      /\ \A q \in Guids : target'[q] = IF q = p THEN None ELSE target[q]
      /\ \A q \in Guids : answer'[q] = IF q = p THEN None ELSE answer[q]
      /\ \A q \in Guids : met'[q] = IF q = p THEN {} ELSE met[q]
      /\ \A q \in Guids : pc'[q] = IF q = p THEN "loop" ELSE pc[q]
      /\ \A q \in Guids, k \in Keys : subscribers'[q][k] =
           IF q = p THEN None ELSE subscribers[q][k]
  BY <1>0 DEF Dies, TypeOK
<1>2. /\ hellos' \in [RespAddrs -> SUBSET (Guids \X {"open", "closed"})]
      /\ \A a \in RespAddrs : <<p, "open">> \notin hellos'[a]
      /\ \A a \in RespAddrs, q \in Guids :
           <<q, "open">> \in hellos'[a] => <<q, "open">> \in hellos[a]
  <2> DEFINE closed == CloseRequester(p)
  <2>1. /\ closed \in [RespAddrs -> SUBSET (Guids \X {"open", "closed"})]
        /\ \A a \in RespAddrs : <<p, "open">> \notin closed[a]
        /\ \A a \in RespAddrs, q \in Guids :
             <<q, "open">> \in closed[a] => <<q, "open">> \in hellos[a]
    BY <1>0, CloseRequesterResult
  <2>2. hellos' = [closed EXCEPT ![RespAddr[p]] = {}] BY DEF Dies
  <2> HIDE DEF closed
  <2> QED BY <1>0, <2>1, <2>2
<1>3. TypeOK'
  <2>1. \A q \in Guids : pc'[q] = "wait" <=> target'[q] # None
    BY <1>0, <1>1 DEF TypeOK
  <2>2. /\ pc' \in [Guids -> {"loop", "read", "scan", "wait"}]
        /\ target' \in [Guids -> Guids \cup {None}]
        /\ answer' \in [Guids -> {PubAddr[g] : g \in Guids} \cup {None}]
        /\ met' \in [Guids -> SUBSET Guids]
        /\ todo' \in [Guids -> SUBSET Guids]
    BY <1>0 DEF TypeOK, Dies
  <2>3. /\ subscribers' \in [Guids -> [Keys -> Conns \cup {None}]]
        /\ proxiesGuids' \in [Guids -> SUBSET Guids]
        /\ nodesGuids' \in [Guids -> SUBSET Nodes]
        /\ quiet' \in [Guids -> SUBSET Keys]
    BY <1>0 DEF TypeOK, Dies
  <2> QED BY <1>0, <1>1, <1>2, <2>1, <2>2, <2>3 DEF TypeOK
<1>4. HelloAnswersMatch' /\ AnswersAreOthers'
  BY <1>1 DEF MeshInv, HelloAnswersMatch, AnswersAreOthers
<1>5. OneSubscriberPerPublisher'
  BY <1>1 DEF MeshInv, OneSubscriberPerPublisher
<1>6. NoSelfConnection'
  BY <1>0, <1>1 DEF MeshInv, NoSelfConnection, TypeOK
<1>7. EndedIsReset' BY <1>1 DEF MeshInv, EndedIsReset
<1>8. PortsDistinct' BY <1>1 DEF MeshInv, PortsDistinct
<1>9. OpenHellos' BY <1>1, <1>2 DEF MeshInv, OpenHellos
<1>10. MetListens' BY <1>1 DEF MeshInv, MetListens
<1> QED BY <1>3, <1>4, <1>5, <1>6, <1>7, <1>8, <1>9, <1>10 DEF MeshInv

LEMMA StartKeeps ==
  ASSUME MeshInv, NEW g \in Guids, Start(g)
  PROVE  MeshInv'
<1> USE DEF subVars, pingVars
<1>0. TypeOK BY DEF MeshInv
<1>1. /\ up' = up \cup {g} /\ g \notin up
      /\ \A q \in up : RespAddr[q] # RespAddr[g] /\ PubAddr[q] # PubAddr[g]
      /\ UNCHANGED <<zset, subscribers, proxiesGuids, nodesGuids, quiet, pc, todo, target,
                     hellos, answer>>
      /\ started' = started \cup {g}
  BY <1>0 DEF Start, TypeOK
<1>2. \A p \in Guids : /\ met[p] \subseteq met'[p]
                       /\ target[p] # None /\ RespAddr[target[p]] = RespAddr[g] =>
                            g \in met'[p]
  BY DEF Start
<1>3. TypeOK'
  <2>1. met' \in [Guids -> SUBSET Guids] BY <1>0 DEF Start, TypeOK
  <2>2. redisCtx' \in [Guids -> BOOLEAN]
    <3>1. PICK b \in {TRUE, ~MayFail} : redisCtx' = [redisCtx EXCEPT ![g] = b]
      BY DEF Start
    <3>2. b \in BOOLEAN BY MeshAssumption
    <3> QED BY <1>0, <3>1, <3>2 DEF TypeOK
  <2> QED BY <1>0, <1>1, <2>1, <2>2 DEF TypeOK
<1>4. /\ target[g] = None /\ answer[g] = None
      /\ \A k \in Keys : subscribers[g][k] = None
  BY <1>1 DEF MeshInv, EndedIsReset
<1>5. HelloAnswersMatch' /\ AnswersAreOthers'
  BY <1>1, <1>2 DEF MeshInv, HelloAnswersMatch, AnswersAreOthers
<1>6. OneSubscriberPerPublisher' /\ OpenHellos'
  BY <1>1 DEF MeshInv, OneSubscriberPerPublisher, OpenHellos
<1>7. NoSelfConnection'
  BY <1>0, <1>1, <1>4, ConstantFacts DEF MeshInv, NoSelfConnection, TypeOK
<1>8. EndedIsReset' BY <1>1 DEF MeshInv, EndedIsReset
<1>9. PortsDistinct' BY <1>1 DEF MeshInv, PortsDistinct
<1>10. MetListens' BY <1>1, <1>2 DEF MeshInv, MetListens
<1> QED BY <1>3, <1>5, <1>6, <1>7, <1>8, <1>9, <1>10 DEF MeshInv
----------------------------------------------------------------------------
LEMMA InitKeeps ==
  ASSUME Init
  PROVE  MeshInv
<1>1. TypeOK BY DEF Init, TypeOK
<1>2. OneSubscriberPerPublisher /\ HelloAnswersMatch /\ NoSelfConnection
  BY DEF Init, OneSubscriberPerPublisher, HelloAnswersMatch, NoSelfConnection
<1>3. EndedIsReset /\ PortsDistinct /\ OpenHellos /\ MetListens /\ AnswersAreOthers
  BY DEF Init, EndedIsReset, PortsDistinct, OpenHellos, MetListens, AnswersAreOthers
<1> QED BY <1>1, <1>2, <1>3 DEF MeshInv

LEMMA StepKeeps ==
  ASSUME MeshInv, [Next]_vars
  PROVE  MeshInv'
<1>1. CASE UNCHANGED vars
  <2> USE DEF vars, procVars, subVars, pingVars, helloVars
  <2>1. TypeOK' BY <1>1 DEF MeshInv, TypeOK
  <2> QED BY <1>1, <2>1, QuietStepKeeps
<1>2. ASSUME NEW p \in Guids, PingStep(p)
      PROVE  MeshInv'
  <2>1. CASE PingRedisFails(p)
    BY <2>1, DiesKeeps DEF PingRedisFails
  <2> QED BY <1>2, <2>1, PingKeeps, ScanKeeps, HelloOkKeeps, HelloFailsKeeps,
             SendProxyHelloKeeps DEF PingStep
<1>3. ASSUME NEW p \in Guids, Poll(p)
      PROVE  MeshInv'
  BY <1>3, ProxyHelloKeeps DEF Poll
<1>4. ASSUME NEW p \in Guids, Crash(p)
      PROVE  MeshInv'
  BY <1>4, DiesKeeps DEF Crash
<1>5. CASE Next
  <2>1. PICK p \in Guids :
          \/ PingStep(p) \/ Poll(p)
          \/ \E n \in Nodes : NodeHello(p, n)
          \/ \E k \in Keys : KillInactive(p, k) \/ GoesQuiet(p, k) \/ Heard(p, k)
          \/ Start(p) \/ Crash(p) \/ BreakRedis(p)
    BY <1>5 DEF Next
  <2> QED BY <1>2, <1>3, <1>4, <2>1, NodeHelloKeeps, KillInactiveKeeps, HearingKeeps,
             StartKeeps, BreakRedisKeeps
<1> QED BY <1>1, <1>5

(* The variables of the mesh keep their types, and a proxy has a target    *)
(* exactly while it waits for a hello.                                     *)
THEOREM MeshTypeCorrect == Spec => []TypeOK
<1>1. MeshInv => TypeOK BY DEF MeshInv
<1> QED BY <1>1, InitKeeps, StepKeeps, PTL DEF Spec

(* However proxies crash and come back at the addresses of others, the     *)
(* comparison of connect strings in ConnectToAnotherProxy and NodeHello    *)
(* leaves one subscriber per publisher.                                    *)
THEOREM NoDoubleSubscription == Spec => []OneSubscriberPerPublisher
<1>1. MeshInv => OneSubscriberPerPublisher BY DEF MeshInv
<1> QED BY <1>1, InitKeeps, StepKeeps, PTL DEF Spec

(* A late answer to an earlier hello is never taken for the answer to the  *)
(* present one, because SendProxyHello has a socket for every hello.       *)
THEOREM AnswersBelongToHellos == Spec => []HelloAnswersMatch
<1>1. MeshInv => HelloAnswersMatch BY DEF MeshInv
<1> QED BY <1>1, InitKeeps, StepKeeps, PTL DEF Spec

(* No proxy subscribes to itself or waits for itself, whatever entries of  *)
(* its address are left in Redis (ConnectToAnotherProxy).                  *)
THEOREM NeverConnectedToItself == Spec => []NoSelfConnection
<1>1. MeshInv => NoSelfConnection BY DEF MeshInv
<1> QED BY <1>1, InitKeeps, StepKeeps, PTL DEF Spec
============================================================================
