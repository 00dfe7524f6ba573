--------------------------- MODULE RegistryProofs ---------------------------
(***************************************************************************)
(* The registry exchange for every number of proxies and methods and every *)
(* value of the time-outs: its types, the refinement of RegistryPromise,   *)
(* how long a stale route can live, and why routes do not flap in a steady *)
(* mesh.                                                                   *)
(***************************************************************************)
EXTENDS Registry, SequenceTheorems, TLAPS

(* What a message of s says truthfully, however late it is handled: who    *)
(* sent it, only methods that s has held, and none that has not been       *)
(* registered for longer than LocalTTL and its own delay allow.            *)
TrueMessages ==
  [s \in Proxies |->
     {msg \in RegistryCommand :
        /\ msg.source_proxy_guid = s
        /\ msg.reg_entry \subseteq advertised[s]
        /\ \A m \in msg.reg_entry :
             sinceRegistered[m] <= LocalTTL + 1 + msg.age}]

(* Queues of true messages, none of a proxy for itself. *)
QueuesTrue(ch) ==
  /\ ch \in [Proxies -> [Proxies -> Seq(RegistryCommand)]]
  /\ \A s, d \in Proxies : ch[s][d] \in Seq(TrueMessages[s])
  /\ \A s \in Proxies : ch[s][s] = <<>>

DeafToSelf == \A p \in Proxies : p \notin heard[p]

HeldAdvertised == \A p \in Proxies : Held(p) \subseteq advertised[p]

(* Ages are exact in a running proxy: the health checks, of which one      *)
(* comes before every Tick, remove an entry before its age saturates.      *)
LocalFresh ==
  \A p \in Proxies, m \in Methods :
    up[p] /\ localInvokeMethods[p][m] # None =>
      /\ sinceRegistered[m] <= localInvokeMethods[p][m]
      /\ looped[p] => localInvokeMethods[p][m] <= LocalTTL

RemoteFresh ==
  \A p \in Proxies, m \in Methods :
    up[p] /\ remoteInvokeMethods[p][m] # None =>
      /\ sinceRegistered[m] <=
           LocalTTL + 1 + MaxDelay + remoteInvokeMethods[p][m].lastCheckTime
      /\ looped[p] => remoteInvokeMethods[p][m].lastCheckTime <= RemoteTTL

RegistryInv ==
  /\ TypeOK /\ QueuesTrue(chan) /\ DeafToSelf
  /\ HeldAdvertised /\ LocalFresh /\ RemoteFresh
----------------------------------------------------------------------------
(* Messages *)

LEMMA TypeOfMessages ==
  ASSUME NEW cmd \in {"REGISTRY_EXCHANGE_REQUEST", "REGISTRY_EXCHANGE_RESPONSE"},
         NEW s \in Proxies, NEW entries \in SUBSET Methods
  PROVE  RegistryMessage(cmd, s, entries) \in RegistryCommand
BY TimingAssumption DEF RegistryMessage, RegistryCommand

(* The proxies that get what s publishes. *)
Receivers(ch, s, targets) ==
  {d \in Proxies : d \in targets /\ up[d] /\ s \in heard[d] /\ Len(ch[s][d]) < HWM}

Published(new, ch, s, targets, msg) ==
  /\ new \in [Proxies -> [Proxies -> Seq(RegistryCommand)]]
  /\ \A b \in Receivers(ch, s, targets) : new[s][b] = Append(ch[s][b], msg)
  /\ \A a, b \in Proxies :
       a # s \/ b \notin Receivers(ch, s, targets) => new[a][b] = ch[a][b]

(* Publisher::Publish, as the queues see it. *)
LEMMA PublishResult ==
  ASSUME NEW ch, ch \in [Proxies -> [Proxies -> Seq(RegistryCommand)]],
         NEW s \in Proxies, NEW targets, NEW msg \in RegistryCommand
  PROVE  Published(Publish(ch, s, targets, msg), ch, s, targets, msg)
<1> DEFINE new == Publish(ch, s, targets, msg)
           R == Receivers(ch, s, targets)
<1>1. new = [ch EXCEPT ![s] = [d \in Proxies |->
               IF d \in R THEN Append(ch[s][d], msg) ELSE ch[s][d]]]
  BY DEF Publish, Receivers
<1>0. R \subseteq Proxies BY DEF Receivers
<1> HIDE DEF R
<1>2. /\ \A b \in R : new[s][b] = Append(ch[s][b], msg)
      /\ \A a, b \in Proxies : a # s \/ b \notin R => new[a][b] = ch[a][b]
  BY <1>0, <1>1
<1>3. ASSUME NEW a \in Proxies, NEW b \in Proxies
      PROVE  new[a][b] \in Seq(RegistryCommand)
  <2>1. Append(ch[s][b], msg) \in Seq(RegistryCommand)
    BY AppendProperties
  <2> HIDE DEF new
  <2> QED BY <1>2, <2>1
<1>4. new \in [Proxies -> [Proxies -> Seq(RegistryCommand)]]
  BY <1>1, <1>3
<1> QED BY <1>2, <1>4 DEF R, Published

(* Subscriber::Poll and the loss of a message. *)
LEMMA PollResult ==
  ASSUME TypeOK, NEW s \in Proxies, NEW d \in Proxies, chan[s][d] # <<>>
  PROVE  /\ Poll(s, d) \in [Proxies -> [Proxies -> Seq(RegistryCommand)]]
         /\ Head(chan[s][d]) \in RegistryCommand
         /\ \A a, b \in Proxies : Poll(s, d)[a][b] =
              IF a = s /\ b = d THEN Tail(chan[s][d]) ELSE chan[a][b]
<1>1. /\ Tail(chan[s][d]) \in Seq(RegistryCommand)
      /\ Head(chan[s][d]) \in RegistryCommand
  BY HeadTailProperties DEF TypeOK
<1>2. Poll(s, d) = [chan EXCEPT ![s][d] = Tail(chan[s][d])]
  BY DEF Poll
<1>3. chan \in [Proxies -> [Proxies -> Seq(RegistryCommand)]]
  BY DEF TypeOK
<1>4. Poll(s, d) \in [Proxies -> [Proxies -> Seq(RegistryCommand)]]
  BY <1>1, <1>2, <1>3
<1>5. ASSUME NEW a \in Proxies, NEW b \in Proxies
      PROVE  Poll(s, d)[a][b] = IF a = s /\ b = d THEN Tail(chan[s][d]) ELSE chan[a][b]
  BY <1>2, <1>3
<1> QED BY <1>1, <1>4, <1>5

LEMMA PolledTrue ==
  ASSUME TypeOK, QueuesTrue(chan), NEW s \in Proxies, NEW d \in Proxies, chan[s][d] # <<>>
  PROVE  Head(chan[s][d]) \in TrueMessages[s] /\ s # d /\ QueuesTrue(Poll(s, d))
<1>1. /\ Head(chan[s][d]) \in TrueMessages[s]
      /\ Tail(chan[s][d]) \in Seq(TrueMessages[s])
  BY HeadTailProperties DEF QueuesTrue
<1>2. s # d BY DEF QueuesTrue
<1> DEFINE new == Poll(s, d)
<1>3. /\ new \in [Proxies -> [Proxies -> Seq(RegistryCommand)]]
      /\ \A a, b \in Proxies : new[a][b] =
           IF a = s /\ b = d THEN Tail(chan[s][d]) ELSE chan[a][b]
  BY PollResult
<1> HIDE DEF new
<1>4. ASSUME NEW a \in Proxies, NEW b \in Proxies
      PROVE  new[a][b] \in Seq(TrueMessages[a])
  BY <1>1, <1>3 DEF QueuesTrue
<1>5. ASSUME NEW a \in Proxies PROVE new[a][a] = <<>>
  BY <1>2, <1>3 DEF QueuesTrue
<1>6. QueuesTrue(new) BY <1>3, <1>4, <1>5 DEF QueuesTrue
<1> QED BY <1>1, <1>2, <1>6 DEF new

(* Registering makes messages no less true. *)
LEMMA TruthGrows ==
  ASSUME TypeOK,
         \A p \in Proxies : advertised[p] \subseteq advertised'[p],
         \A m \in Methods : sinceRegistered'[m] <= sinceRegistered[m]
                            /\ sinceRegistered'[m] \in Nat,
         NEW s \in Proxies
  PROVE  TrueMessages[s] \subseteq TrueMessages'[s]
<1> SUFFICES ASSUME NEW msg \in TrueMessages[s], NEW m \in msg.reg_entry
             PROVE  sinceRegistered'[m] <= LocalTTL + 1 + msg.age
  BY DEF TrueMessages
<1>1. /\ m \in Methods /\ msg.age \in Nat
      /\ sinceRegistered[m] \in Nat
      /\ sinceRegistered[m] <= LocalTTL + 1 + msg.age
  BY TimingAssumption DEF TrueMessages, RegistryCommand, TypeOK
<1> QED BY <1>1, TimingAssumption

LEMMA PublishTrue ==
  ASSUME NEW ch, QueuesTrue(ch), DeafToSelf,
         NEW s \in Proxies, NEW targets, NEW msg \in TrueMessages[s]
  PROVE  QueuesTrue(Publish(ch, s, targets, msg))
<1> DEFINE new == Publish(ch, s, targets, msg)
<1>1. msg \in RegistryCommand BY DEF TrueMessages
<1>2. /\ new \in [Proxies -> [Proxies -> Seq(RegistryCommand)]]
      /\ \A b \in Receivers(ch, s, targets) : new[s][b] = Append(ch[s][b], msg)
      /\ \A a, b \in Proxies : a # s \/ b \notin Receivers(ch, s, targets) =>
           new[a][b] = ch[a][b]
  <2>1. Published(new, ch, s, targets, msg)
    BY <1>1, PublishResult DEF QueuesTrue
  <2> HIDE DEF new
  <2> QED BY <2>1 DEF Published
<1> HIDE DEF new
<1>3. ASSUME NEW a \in Proxies, NEW b \in Proxies
      PROVE  new[a][b] \in Seq(TrueMessages[a])
  <2>1. Append(ch[s][b], msg) \in Seq(TrueMessages[s])
    BY AppendProperties DEF QueuesTrue
  <2> QED BY <1>2, <2>1 DEF QueuesTrue
<1>4. ASSUME NEW a \in Proxies PROVE new[a][a] = <<>>
  BY <1>2 DEF Receivers, QueuesTrue, DeafToSelf
<1>5. QueuesTrue(new) BY <1>2, <1>3, <1>4 DEF QueuesTrue
<1> QED BY <1>5 DEF new

(* The entries of a proxy are young enough to be advertised. *)
LEMMA HeldTrue ==
  ASSUME RegistryInv, NEW p \in Proxies, up[p]
  PROVE  RegistryMessage("REGISTRY_EXCHANGE_RESPONSE", p, Held(p)) \in TrueMessages[p]
<1> DEFINE msg == RegistryMessage("REGISTRY_EXCHANGE_RESPONSE", p, Held(p))
<1>1. msg \in RegistryCommand BY TypeOfMessages DEF Held
<1>2. msg.source_proxy_guid = p /\ msg.reg_entry = Held(p) /\ msg.age = 0
  BY DEF RegistryMessage
<1>3. ASSUME NEW m \in Held(p)
      PROVE  sinceRegistered[m] <= LocalTTL + 1
  <2>1. m \in Methods /\ localInvokeMethods[p][m] # None BY DEF Held
  <2>2. localInvokeMethods[p][m] \in 0 .. LocalTTL + 1
    BY <2>1 DEF RegistryInv, TypeOK
  <2>3. sinceRegistered[m] <= localInvokeMethods[p][m]
    BY <2>1 DEF RegistryInv, LocalFresh
  <2>4. sinceRegistered[m] \in Nat
    BY <2>1, TimingAssumption DEF RegistryInv, TypeOK, StaleLimit
  <2> QED BY <2>2, <2>3, <2>4, TimingAssumption
<1>4. Held(p) \subseteq advertised[p] BY DEF RegistryInv, HeldAdvertised
<1> HIDE DEF msg
<1>5. \A m \in msg.reg_entry : sinceRegistered[m] <= LocalTTL + 1 + msg.age
  BY <1>2, <1>3, TimingAssumption
<1>6. msg \in TrueMessages[p]
  BY <1>1, <1>2, <1>4, <1>5 DEF TrueMessages
<1> QED BY <1>6 DEF msg

LEMMA RequestTrue ==
  ASSUME NEW p \in Proxies
  PROVE  RegistryMessage("REGISTRY_EXCHANGE_REQUEST", p, {}) \in TrueMessages[p]
BY TypeOfMessages DEF TrueMessages, RegistryMessage

(* A step that touches only queues, connections and crashes keeps the      *)
(* invariant if it leaves true messages in the queues.                     *)
LEMMA QueuesOnly ==
  ASSUME RegistryInv,
         UNCHANGED <<localInvokeMethods, remoteInvokeMethods,
                     lastRegistryExchange, looped, historyVars>>,
         up' \in [Proxies -> BOOLEAN], \A p \in Proxies : up'[p] => up[p],
         heard' \in [Proxies -> SUBSET Proxies],
         proxiesGuids' \in [Proxies -> SUBSET Proxies],
         QueuesTrue(chan'), DeafToSelf'
  PROVE  RegistryInv'
<1> USE DEF historyVars
<1>1. TypeOK' BY DEF RegistryInv, TypeOK, QueuesTrue
<1>2. TrueMessages' = TrueMessages BY DEF TrueMessages
<1>3. QueuesTrue(chan)' BY <1>2 DEF QueuesTrue
<1>4. HeldAdvertised' BY DEF RegistryInv, HeldAdvertised, Held
<1>5. LocalFresh' /\ RemoteFresh' BY DEF RegistryInv, LocalFresh, RemoteFresh
<1> QED BY <1>1, <1>3, <1>4, <1>5 DEF RegistryInv
----------------------------------------------------------------------------
(* The handlers and the periodic work *)

LEMMA RegisterInvokeKeeps ==
  ASSUME RegistryInv, NEW p \in Proxies, NEW m \in Methods, RegisterInvoke(p, m)
  PROVE  RegistryInv'
<1> USE DEF netVars
<1>0. /\ None \notin Nat /\ 0 \in 0 .. LocalTTL + 1 /\ 0 \in 0 .. LearnLimit + 1
      /\ 0 \in 0 .. StaleLimit + 1
  BY TimingAssumption DEF LearnLimit, StaleLimit
<1>1. /\ \A q \in Proxies, k \in Methods : localInvokeMethods'[q][k] =
           IF q = p /\ k = m THEN 0 ELSE localInvokeMethods[q][k]
      /\ \A k \in Methods : sinceRegistered'[k] =
           IF k = m THEN 0 ELSE sinceRegistered[k]
      /\ \A q \in Proxies : advertised'[q] =
           IF q = p THEN advertised[q] \cup {m} ELSE advertised[q]
  BY DEF RegisterInvoke, RegistryInv, TypeOK
<1>2. TypeOK'
  BY <1>0 DEF RegisterInvoke, RegistryInv, TypeOK
<1>3. \A k \in Methods : sinceRegistered[k] \in Nat
  BY TimingAssumption DEF RegistryInv, TypeOK, StaleLimit
<1>4. QueuesTrue(chan)'
  <2>1. ASSUME NEW s \in Proxies PROVE TrueMessages[s] \subseteq TrueMessages'[s]
    <3>1. \A q \in Proxies : advertised[q] \subseteq advertised'[q] BY <1>1
    <3>2. \A k \in Methods : sinceRegistered'[k] <= sinceRegistered[k]
                             /\ sinceRegistered'[k] \in Nat
      BY <1>1, <1>3
    <3> QED BY <3>1, <3>2, TruthGrows DEF RegistryInv
  <2>2. ASSUME NEW s \in Proxies, NEW d \in Proxies
        PROVE  chan'[s][d] \in Seq(TrueMessages'[s])
    BY <2>1, SeqMonotonic DEF RegistryInv, QueuesTrue, RegisterInvoke
  <2> QED BY <2>2 DEF RegistryInv, QueuesTrue, RegisterInvoke
<1>5. HeldAdvertised'
  BY <1>0, <1>1 DEF RegistryInv, HeldAdvertised, Held
<1>6. LocalFresh'
  <2> SUFFICES ASSUME NEW q \in Proxies, NEW k \in Methods, up[q],
                      localInvokeMethods'[q][k] # None
               PROVE  /\ sinceRegistered'[k] <= localInvokeMethods'[q][k]
                      /\ looped[q] => localInvokeMethods'[q][k] <= LocalTTL
    BY DEF LocalFresh, RegisterInvoke
  <2>1. k # m \/ q = p \/ localInvokeMethods[q][k] \in Nat
    BY <1>1, TimingAssumption DEF RegistryInv, TypeOK
  <2> QED BY <1>1, <1>3, <2>1, TimingAssumption DEF RegistryInv, LocalFresh
<1>7. RemoteFresh'
  <2> SUFFICES ASSUME NEW q \in Proxies, NEW k \in Methods, up[q],
                      remoteInvokeMethods[q][k] # None
               PROVE  /\ sinceRegistered'[k] <= LocalTTL + 1 + MaxDelay
                           + remoteInvokeMethods[q][k].lastCheckTime
                      /\ looped[q] => remoteInvokeMethods[q][k].lastCheckTime <= RemoteTTL
    BY DEF RemoteFresh, RegisterInvoke
  <2>1. remoteInvokeMethods[q][k].lastCheckTime \in Nat
    BY TimingAssumption DEF RegistryInv, TypeOK, Route
  <2> QED BY <1>1, <1>3, <2>1, TimingAssumption DEF RegistryInv, RemoteFresh
<1>8. DeafToSelf' BY DEF RegistryInv, DeafToSelf, RegisterInvoke
<1> QED BY <1>2, <1>4, <1>5, <1>6, <1>7, <1>8 DEF RegistryInv

LEMMA ResponderKeeps ==
  ASSUME RegistryInv, NEW p \in Proxies, NEW s \in Proxies,
         RegistryExchangeResponder(p, s)
  PROVE  RegistryInv'
<1> USE DEF netVars
<1>1. /\ up[p] /\ chan[s][p] # <<>>
      /\ chan' = Publish(Poll(s, p), p, {Head(chan[s][p]).source_proxy_guid},
                   RegistryMessage("REGISTRY_EXCHANGE_RESPONSE", p, Held(p)))
      /\ UNCHANGED <<netVars, localInvokeMethods, remoteInvokeMethods,
                     lastRegistryExchange, looped, historyVars>>
  BY DEF RegistryExchangeResponder
<1>2. QueuesTrue(Poll(s, p)) BY <1>1, PolledTrue DEF RegistryInv
<1>3. QueuesTrue(chan')
  BY <1>1, <1>2, HeldTrue, PublishTrue DEF RegistryInv
<1>4. DeafToSelf' BY <1>1 DEF RegistryInv, DeafToSelf
<1> QED BY <1>1, <1>3, <1>4, QueuesOnly DEF RegistryInv, TypeOK

LEMMA RemoteUpdateKeeps ==
  ASSUME RegistryInv, NEW p \in Proxies, NEW s \in Proxies,
         RemoteRegistryUpdate(p, s)
  PROVE  RegistryInv'
<1> USE DEF netVars, historyVars
<1> DEFINE req == Head(chan[s][p])
<1>1. up[p] /\ chan[s][p] # <<>> /\ chan' = Poll(s, p)
  BY DEF RemoteRegistryUpdate
<1>2. req \in TrueMessages[s] /\ QueuesTrue(chan')
  BY <1>1, PolledTrue DEF RegistryInv
<1>3. /\ req.source_proxy_guid = s /\ req.reg_entry \subseteq Methods
      /\ req.age \in 0 .. MaxDelay
      /\ \A m \in req.reg_entry : sinceRegistered[m] <= LocalTTL + 1 + req.age
  BY <1>2 DEF TrueMessages, RegistryCommand
<1>4. UNCHANGED <<netVars, localInvokeMethods, lastRegistryExchange, looped,
                  historyVars>>
  BY DEF RemoteRegistryUpdate
<1>5. \A q \in Proxies, m \in Methods : remoteInvokeMethods'[q][m] =
        IF q = p /\ m \in req.reg_entry
        THEN [proxyGuid |-> IF remoteInvokeMethods[p][m] = None THEN s
                            ELSE remoteInvokeMethods[p][m].proxyGuid,
              lastCheckTime |-> 0]
        ELSE remoteInvokeMethods[q][m]
  BY <1>3 DEF RemoteRegistryUpdate, RegistryInv, TypeOK
<1> HIDE DEF req
<1>6. TypeOK'
  <2>1. ASSUME NEW q \in Proxies, NEW m \in Methods
        PROVE  remoteInvokeMethods'[q][m] \in Route \cup {None}
    <3>1. remoteInvokeMethods[q][m] \in Route \cup {None}
      BY DEF RegistryInv, TypeOK
    <3>2. CASE q = p /\ m \in req.reg_entry /\ remoteInvokeMethods[p][m] = None
      <4>1. remoteInvokeMethods'[q][m] = [proxyGuid |-> s, lastCheckTime |-> 0]
        BY <1>5, <3>2
      <4> QED BY <4>1, TimingAssumption DEF Route
    <3>3. CASE q = p /\ m \in req.reg_entry /\ remoteInvokeMethods[p][m] # None
      <4>1. remoteInvokeMethods'[q][m] =
              [proxyGuid |-> remoteInvokeMethods[p][m].proxyGuid, lastCheckTime |-> 0]
        BY <1>5, <3>3
      <4>2. remoteInvokeMethods[p][m].proxyGuid \in Proxies
        BY <3>1, <3>3 DEF Route
      <4> QED BY <4>1, <4>2, TimingAssumption DEF Route
    <3>4. CASE ~(q = p /\ m \in req.reg_entry)
      BY <1>5, <3>1, <3>4
    <3> QED BY <3>2, <3>3, <3>4
  <2>2. remoteInvokeMethods' \in [Proxies -> [Methods -> Route \cup {None}]]
    <3>1. remoteInvokeMethods' = [remoteInvokeMethods EXCEPT ![p] =
            [m \in Methods |-> remoteInvokeMethods'[p][m]]]
      BY DEF RemoteRegistryUpdate, RegistryInv, TypeOK
    <3> QED BY <2>1, <3>1 DEF RegistryInv, TypeOK
  <2> QED BY <1>2, <1>4, <2>2 DEF RegistryInv, TypeOK, QueuesTrue
<1>7. QueuesTrue(chan)'
  <2>1. TrueMessages' = TrueMessages BY <1>4 DEF TrueMessages
  <2> QED BY <1>2, <2>1 DEF QueuesTrue
<1>8. DeafToSelf' /\ HeldAdvertised' /\ LocalFresh'
  BY <1>4 DEF RegistryInv, DeafToSelf, HeldAdvertised, Held, LocalFresh
<1>9. RemoteFresh'
  <2> SUFFICES ASSUME NEW q \in Proxies, NEW m \in Methods, up[q],
                      remoteInvokeMethods'[q][m] # None
               PROVE  /\ sinceRegistered[m] <= LocalTTL + 1 + MaxDelay
                           + remoteInvokeMethods'[q][m].lastCheckTime
                      /\ looped[q] => remoteInvokeMethods'[q][m].lastCheckTime <= RemoteTTL
    BY <1>4 DEF RemoteFresh
  <2>1. CASE q = p /\ m \in req.reg_entry
    <3>1. remoteInvokeMethods'[q][m].lastCheckTime = 0
      <4>1. PICK g : remoteInvokeMethods'[q][m] = [proxyGuid |-> g, lastCheckTime |-> 0]
        BY <1>5, <2>1
      <4> QED BY <4>1
    <3>2. sinceRegistered[m] \in Nat
      BY TimingAssumption DEF RegistryInv, TypeOK, StaleLimit
    <3> QED BY <1>3, <2>1, <3>1, <3>2, TimingAssumption
  <2>2. CASE ~(q = p /\ m \in req.reg_entry)
    BY <1>5, <2>2 DEF RegistryInv, RemoteFresh
  <2> QED BY <2>1, <2>2
<1> QED BY <1>6, <1>7, <1>8, <1>9 DEF RegistryInv

LEMMA HousekeepingKeeps ==
  ASSUME RegistryInv, NEW p \in Proxies, Housekeeping(p)
  PROVE  RegistryInv'
<1> USE DEF netVars, historyVars
<1>1. /\ \A q \in Proxies, m \in Methods : remoteInvokeMethods'[q][m] =
           IF /\ q = p /\ remoteInvokeMethods[p][m] # None
              /\ remoteInvokeMethods[p][m].lastCheckTime > RemoteTTL
           THEN None ELSE remoteInvokeMethods[q][m]
      /\ remoteInvokeMethods' \in [Proxies -> [Methods -> Route \cup {None}]]
  BY DEF Housekeeping, RemoteRegistryHealthCheck, RegistryInv, TypeOK
<1>2. /\ \A q \in Proxies, m \in Methods : localInvokeMethods'[q][m] =
           IF /\ q = p /\ localInvokeMethods[p][m] # None
              /\ localInvokeMethods[p][m] > LocalTTL
           THEN None ELSE localInvokeMethods[q][m]
      /\ localInvokeMethods' \in [Proxies -> [Methods -> (0..(LocalTTL + 1)) \cup {None}]]
  BY DEF Housekeeping, LocalRegistryHealthCheck, RegistryInv, TypeOK
<1>3. /\ UNCHANGED <<netVars, historyVars>>
      /\ looped' = [looped EXCEPT ![p] = TRUE]
  BY DEF Housekeeping
<1>4. QueuesTrue(chan') /\ lastRegistryExchange' \in [Proxies -> 0..ExchangePeriod]
  <2>1. CASE UNCHANGED <<chan, lastRegistryExchange>>
    BY <2>1 DEF RegistryInv, TypeOK
  <2>2. CASE /\ chan' = Publish(chan, p, proxiesGuids[p],
                          RegistryMessage("REGISTRY_EXCHANGE_REQUEST", p, {}))
             /\ lastRegistryExchange' = [lastRegistryExchange EXCEPT ![p] = 0]
    <3>1. QueuesTrue(chan')
      BY <2>2, RequestTrue, PublishTrue DEF RegistryInv
    <3> QED BY <2>2, <3>1, TimingAssumption DEF RegistryInv, TypeOK
  <2> QED BY <2>1, <2>2 DEF Housekeeping, RequestRegistryExchange
<1>5. TypeOK'
  BY <1>1, <1>2, <1>3, <1>4 DEF RegistryInv, TypeOK, QueuesTrue
<1>6. QueuesTrue(chan)'
  <2>1. TrueMessages' = TrueMessages BY <1>3 DEF TrueMessages
  <2> QED BY <1>4, <2>1 DEF QueuesTrue
<1>7. DeafToSelf' BY <1>3 DEF RegistryInv, DeafToSelf
<1>8. HeldAdvertised' BY <1>2, <1>3 DEF RegistryInv, HeldAdvertised, Held
<1>9. ASSUME NEW q \in Proxies
      PROVE  q # p => looped'[q] = looped[q]
  BY <1>3 DEF RegistryInv, TypeOK
<1>10. LocalFresh'
  <2> SUFFICES ASSUME NEW q \in Proxies, NEW m \in Methods, up[q],
                      localInvokeMethods'[q][m] # None
               PROVE  /\ sinceRegistered[m] <= localInvokeMethods'[q][m]
                      /\ looped'[q] => localInvokeMethods'[q][m] <= LocalTTL
    BY <1>3 DEF LocalFresh
  <2>1. /\ localInvokeMethods'[q][m] = localInvokeMethods[q][m]
        /\ q = p => ~(localInvokeMethods[q][m] > LocalTTL)
    BY <1>2
  <2>2. localInvokeMethods[q][m] \in Nat
    BY <2>1, TimingAssumption DEF RegistryInv, TypeOK
  <2>3. /\ sinceRegistered[m] <= localInvokeMethods[q][m]
        /\ looped[q] => localInvokeMethods[q][m] <= LocalTTL
    BY <2>1 DEF RegistryInv, LocalFresh
  <2>4. q = p => localInvokeMethods[q][m] <= LocalTTL
    BY <2>1, <2>2, TimingAssumption
  <2> QED BY <1>9, <2>1, <2>3, <2>4
<1>11. RemoteFresh'
  <2> SUFFICES ASSUME NEW q \in Proxies, NEW m \in Methods, up[q],
                      remoteInvokeMethods'[q][m] # None
               PROVE  /\ sinceRegistered[m] <= LocalTTL + 1 + MaxDelay
                           + remoteInvokeMethods'[q][m].lastCheckTime
                      /\ looped'[q] => remoteInvokeMethods'[q][m].lastCheckTime <= RemoteTTL
    BY <1>3 DEF RemoteFresh
  <2>1. /\ remoteInvokeMethods'[q][m] = remoteInvokeMethods[q][m]
        /\ q = p => ~(remoteInvokeMethods[q][m].lastCheckTime > RemoteTTL)
    BY <1>1
  <2>2. remoteInvokeMethods[q][m].lastCheckTime \in Nat
    BY <2>1, TimingAssumption DEF RegistryInv, TypeOK, Route
  <2>3. /\ sinceRegistered[m] <= LocalTTL + 1 + MaxDelay
             + remoteInvokeMethods[q][m].lastCheckTime
        /\ looped[q] => remoteInvokeMethods[q][m].lastCheckTime <= RemoteTTL
    BY <2>1 DEF RegistryInv, RemoteFresh
  <2>4. q = p => remoteInvokeMethods[q][m].lastCheckTime <= RemoteTTL
    BY <2>1, <2>2, TimingAssumption
  <2> QED BY <1>9, <2>1, <2>3, <2>4
<1> QED BY <1>5, <1>6, <1>7, <1>8, <1>10, <1>11 DEF RegistryInv
----------------------------------------------------------------------------
(* The environment *)

LEMMA ConnectKeeps ==
  ASSUME RegistryInv, NEW p \in Proxies, NEW q \in Proxies, Connect(p, q)
  PROVE  RegistryInv'
<1>1. /\ heard' \in [Proxies -> SUBSET Proxies]
      /\ proxiesGuids' \in [Proxies -> SUBSET Proxies]
      /\ DeafToSelf'
  BY DEF Connect, RegistryInv, TypeOK, DeafToSelf
<1>2. UNCHANGED <<up, localInvokeMethods, remoteInvokeMethods,
                  lastRegistryExchange, chan, looped, historyVars>>
  BY DEF Connect
<1>3. QueuesTrue(chan') BY <1>2 DEF RegistryInv
<1> QED BY <1>1, <1>2, <1>3, QueuesOnly DEF RegistryInv, TypeOK

LEMMA DisconnectKeeps ==
  ASSUME RegistryInv, NEW p \in Proxies, NEW q \in Proxies, Disconnect(p, q)
  PROVE  RegistryInv'
<1>1. heard' \in [Proxies -> SUBSET Proxies] /\ DeafToSelf'
  BY DEF Disconnect, RegistryInv, TypeOK, DeafToSelf
<1>2. UNCHANGED <<up, proxiesGuids, localInvokeMethods, remoteInvokeMethods,
                  lastRegistryExchange, looped, historyVars>>
  BY DEF Disconnect
<1>3. QueuesTrue(chan')
  <2>1. \A S : <<>> \in Seq(S) BY EmptySeq
  <2>2. \A a, b \in Proxies : chan'[a][b] = IF a = q /\ b = p THEN <<>> ELSE chan[a][b]
    BY DEF Disconnect, RegistryInv, TypeOK
  <2>3. chan' \in [Proxies -> [Proxies -> Seq(RegistryCommand)]]
    BY <2>1 DEF Disconnect, RegistryInv, TypeOK
  <2> QED BY <2>1, <2>2, <2>3 DEF RegistryInv, QueuesTrue
<1> QED BY <1>1, <1>2, <1>3, QueuesOnly DEF RegistryInv, TypeOK

LEMMA LoseKeeps ==
  ASSUME RegistryInv, NEW s \in Proxies, NEW d \in Proxies, Lose(s, d)
  PROVE  RegistryInv'
<1> USE DEF netVars
<1>1. /\ QueuesTrue(chan')
      /\ UNCHANGED <<netVars, localInvokeMethods, remoteInvokeMethods,
                     lastRegistryExchange, looped, historyVars>>
  BY PolledTrue DEF Lose, RegistryInv
<1>2. DeafToSelf' BY <1>1 DEF RegistryInv, DeafToSelf
<1> QED BY <1>1, <1>2, QueuesOnly DEF RegistryInv, TypeOK

LEMMA CrashKeeps ==
  ASSUME RegistryInv, NEW p \in Proxies, Crash(p)
  PROVE  RegistryInv'
<1>1. up' \in [Proxies -> BOOLEAN] /\ \A q \in Proxies : up'[q] => up[q]
  BY DEF Crash, RegistryInv, TypeOK
<1>2. UNCHANGED <<heard, proxiesGuids, localInvokeMethods, remoteInvokeMethods,
                  lastRegistryExchange, looped, historyVars>>
  BY DEF Crash
<1>3. QueuesTrue(chan')
  <2>1. \A S : <<>> \in Seq(S) BY EmptySeq
  <2>2. \A a, b \in Proxies : chan'[a][b] = IF b = p THEN <<>> ELSE chan[a][b]
    BY DEF Crash, RegistryInv, TypeOK
  <2>3. chan' \in [Proxies -> [Proxies -> Seq(RegistryCommand)]]
    BY <2>1 DEF Crash, RegistryInv, TypeOK
  <2> QED BY <2>1, <2>2, <2>3 DEF RegistryInv, QueuesTrue
<1>4. DeafToSelf' BY <1>2 DEF RegistryInv, DeafToSelf
<1> QED BY <1>1, <1>2, <1>3, <1>4, QueuesOnly DEF RegistryInv, TypeOK

LEMMA OlderResult ==
  ASSUME NEW limit \in Nat, NEW age \in 0 .. limit
  PROVE  /\ Older(age, limit) \in 0 .. limit
         /\ Older(age, limit) <= age + 1
         /\ age < limit => Older(age, limit) = age + 1
BY DEF Older

(* A second later every queue has the same messages, one second older. *)
OneOlder(msg) == [msg EXCEPT !.age = @ + 1]

LEMMA OneOlderResult ==
  ASSUME NEW msg \in RegistryCommand, msg.age < MaxDelay
  PROVE  /\ OneOlder(msg) \in RegistryCommand
         /\ OneOlder(msg).cmd = msg.cmd
         /\ OneOlder(msg).source_proxy_guid = msg.source_proxy_guid
         /\ OneOlder(msg).reg_entry = msg.reg_entry
         /\ OneOlder(msg).age = msg.age + 1
<1>1. /\ msg = [cmd |-> msg.cmd, source_proxy_guid |-> msg.source_proxy_guid,
                reg_entry |-> msg.reg_entry, age |-> msg.age]
      /\ msg.cmd \in {"REGISTRY_EXCHANGE_REQUEST", "REGISTRY_EXCHANGE_RESPONSE"}
      /\ msg.source_proxy_guid \in Proxies /\ msg.reg_entry \in SUBSET Methods
      /\ msg.age \in 0 .. MaxDelay
  BY DEF RegistryCommand
<1>2. msg.age + 1 \in 0 .. MaxDelay BY <1>1, TimingAssumption
<1>3. OneOlder(msg) = [cmd |-> msg.cmd, source_proxy_guid |-> msg.source_proxy_guid,
                       reg_entry |-> msg.reg_entry, age |-> msg.age + 1]
  BY <1>1 DEF OneOlder
<1> QED BY <1>1, <1>2, <1>3 DEF RegistryCommand

LEMMA TickQueues ==
  ASSUME TypeOK, Tick, NEW s \in Proxies, NEW d \in Proxies
  PROVE  /\ chan'[s][d] \in Seq(RegistryCommand)
         /\ Len(chan'[s][d]) = Len(chan[s][d])
         /\ \A i \in 1 .. Len(chan[s][d]) :
              /\ chan'[s][d][i] = OneOlder(chan[s][d][i])
              /\ chan[s][d][i] \in RegistryCommand
              /\ chan[s][d][i].age < MaxDelay
<1>1. /\ chan[s][d] \in Seq(RegistryCommand)
      /\ Len(chan[s][d]) \in Nat
  BY LenProperties DEF TypeOK
<1>2. chan'[s][d] = [i \in 1 .. Len(chan[s][d]) |-> OneOlder(chan[s][d][i])]
  BY DEF Tick, OneOlder
<1>3. ASSUME NEW i \in 1 .. Len(chan[s][d])
      PROVE  /\ chan[s][d][i] \in RegistryCommand
             /\ chan[s][d][i].age < MaxDelay
             /\ OneOlder(chan[s][d][i]) \in RegistryCommand
  <2>1. chan[s][d][i] \in RegistryCommand BY <1>1, ElementOfSeq
  <2>2. chan[s][d][i].age < MaxDelay BY DEF Tick
  <2> QED BY <2>1, <2>2, OneOlderResult
<1>4. chan'[s][d] \in [1 .. Len(chan[s][d]) -> RegistryCommand]
  BY <1>2, <1>3
<1>5. chan'[s][d] \in Seq(RegistryCommand)
  BY <1>1, <1>4, SeqDef
<1>6. DOMAIN chan'[s][d] = 1 .. Len(chan[s][d]) BY <1>2
<1>7. Len(chan'[s][d]) = Len(chan[s][d])
  BY <1>1, <1>5, <1>6, LenProperties
<1> QED BY <1>2, <1>3, <1>5, <1>7

LEMMA TickKeeps ==
  ASSUME RegistryInv, Tick
  PROVE  RegistryInv'
<1> USE DEF netVars
<1>0. TypeOK BY DEF RegistryInv
<1>1. /\ LocalTTL + 1 \in Nat /\ RemoteTTL + 1 \in Nat /\ ExchangePeriod \in Nat
      /\ LearnLimit + 1 \in Nat /\ StaleLimit + 1 \in Nat
      /\ None \notin Nat /\ None \notin Route
  BY TimingAssumption DEF LearnLimit, StaleLimit
<1>2. ASSUME NEW p \in Proxies, NEW m \in Methods
      PROVE  /\ localInvokeMethods[p][m] = None => localInvokeMethods'[p][m] = None
             /\ localInvokeMethods[p][m] # None =>
                  /\ localInvokeMethods[p][m] \in 0 .. LocalTTL + 1
                  /\ localInvokeMethods'[p][m] = Older(localInvokeMethods[p][m], LocalTTL + 1)
                  /\ localInvokeMethods'[p][m] \in 0 .. LocalTTL + 1
  <2>1. localInvokeMethods[p][m] \in (0 .. LocalTTL + 1) \cup {None}
    BY <1>0 DEF TypeOK
  <2>2. localInvokeMethods'[p][m] =
          IF localInvokeMethods[p][m] = None THEN None
          ELSE Older(localInvokeMethods[p][m], LocalTTL + 1)
    BY DEF Tick
  <2> QED BY <1>1, <2>1, <2>2, OlderResult
<1>3. ASSUME NEW p \in Proxies, NEW m \in Methods
      PROVE  /\ remoteInvokeMethods[p][m] = None => remoteInvokeMethods'[p][m] = None
             /\ remoteInvokeMethods[p][m] # None =>
                  /\ remoteInvokeMethods[p][m] \in Route
                  /\ remoteInvokeMethods'[p][m] \in Route
                  /\ remoteInvokeMethods'[p][m].proxyGuid = remoteInvokeMethods[p][m].proxyGuid
                  /\ remoteInvokeMethods'[p][m].lastCheckTime =
                       Older(remoteInvokeMethods[p][m].lastCheckTime, RemoteTTL + 1)
  <2> DEFINE r == remoteInvokeMethods[p][m]
  <2>1. r \in Route \cup {None} BY <1>0 DEF TypeOK
  <2>2. remoteInvokeMethods'[p][m] =
          IF r = None THEN None
          ELSE [r EXCEPT !.lastCheckTime = Older(@, RemoteTTL + 1)]
    BY DEF Tick
  <2>3. CASE r = None BY <2>2, <2>3
  <2>4. CASE r # None
    <3>1. /\ r = [proxyGuid |-> r.proxyGuid, lastCheckTime |-> r.lastCheckTime]
          /\ r.proxyGuid \in Proxies /\ r.lastCheckTime \in 0 .. RemoteTTL + 1
      BY <2>1, <2>4 DEF Route
    <3>2. Older(r.lastCheckTime, RemoteTTL + 1) \in 0 .. RemoteTTL + 1
      BY <1>1, <3>1, OlderResult
    <3>3. remoteInvokeMethods'[p][m] =
            [proxyGuid |-> r.proxyGuid,
             lastCheckTime |-> Older(r.lastCheckTime, RemoteTTL + 1)]
      BY <2>2, <2>4, <3>1
    <3> QED BY <2>1, <2>4, <3>1, <3>2, <3>3 DEF Route
  <2> QED BY <2>3, <2>4
<1>4. ASSUME NEW m \in Methods
      PROVE  /\ sinceRegistered[m] \in Nat
             /\ sinceRegistered'[m] \in 0 .. StaleLimit + 1
             /\ sinceRegistered'[m] \in Nat
             /\ sinceRegistered'[m] <= sinceRegistered[m] + 1
  <2>1. sinceRegistered[m] \in 0 .. StaleLimit + 1 BY <1>0 DEF TypeOK
  <2>2. sinceRegistered'[m] = Older(sinceRegistered[m], StaleLimit + 1) BY DEF Tick
  <2> QED BY <1>1, <2>1, <2>2 DEF Older
<1>5. TypeOK'
  <2>1. localInvokeMethods' \in [Proxies -> [Methods -> (0..(LocalTTL + 1)) \cup {None}]]
    BY <1>2 DEF Tick
  <2>2. remoteInvokeMethods' \in [Proxies -> [Methods -> Route \cup {None}]]
    BY <1>3 DEF Tick
  <2>3. lastRegistryExchange' \in [Proxies -> 0..ExchangePeriod]
    BY <1>0, <1>1, OlderResult DEF Tick, TypeOK
  <2>4. chan' \in [Proxies -> [Proxies -> Seq(RegistryCommand)]]
    BY <1>0, TickQueues DEF Tick
  <2>5. heldFor' \in [Proxies -> [Methods -> 0..(LearnLimit + 1)]]
    BY <1>0, <1>1, OlderResult DEF Tick, TypeOK
  <2>6. sinceRegistered' \in [Methods -> 0..(StaleLimit + 1)]
    BY <1>4 DEF Tick
  <2>7. looped' \in [Proxies -> BOOLEAN] BY DEF Tick
  <2> QED BY <1>0, <2>1, <2>2, <2>3, <2>4, <2>5, <2>6, <2>7 DEF TypeOK, Tick
<1>6. QueuesTrue(chan)'
  <2>1. ASSUME NEW s \in Proxies, NEW msg \in TrueMessages[s], msg.age < MaxDelay
        PROVE  OneOlder(msg) \in TrueMessages'[s]
    <3>1. /\ msg \in RegistryCommand /\ msg.source_proxy_guid = s
          /\ msg.reg_entry \subseteq advertised[s]
          /\ \A m \in msg.reg_entry :
               m \in Methods /\ sinceRegistered[m] <= LocalTTL + 1 + msg.age
          /\ msg.age \in Nat
      BY TimingAssumption DEF TrueMessages, RegistryCommand
    <3>2. /\ OneOlder(msg) \in RegistryCommand
          /\ OneOlder(msg).source_proxy_guid = s
          /\ OneOlder(msg).reg_entry = msg.reg_entry
          /\ OneOlder(msg).age = msg.age + 1
      BY <2>1, <3>1, OneOlderResult
    <3>3. \A m \in msg.reg_entry : sinceRegistered'[m] <= LocalTTL + 1 + OneOlder(msg).age
      BY <1>4, <3>1, <3>2, TimingAssumption
    <3>4. advertised' = advertised BY DEF Tick
    <3> QED BY <3>1, <3>2, <3>3, <3>4 DEF TrueMessages
  <2>2. ASSUME NEW s \in Proxies, NEW d \in Proxies
        PROVE  chan'[s][d] \in Seq(TrueMessages'[s])
    <3>1. /\ chan'[s][d] \in Seq(RegistryCommand)
          /\ Len(chan'[s][d]) = Len(chan[s][d])
          /\ \A i \in 1 .. Len(chan[s][d]) :
               /\ chan'[s][d][i] = OneOlder(chan[s][d][i])
               /\ chan[s][d][i].age < MaxDelay
      BY <1>0, TickQueues
    <3>2. chan[s][d] \in Seq(TrueMessages[s]) BY DEF RegistryInv, QueuesTrue
    <3>3. \A i \in 1 .. Len(chan[s][d]) : chan'[s][d][i] \in TrueMessages'[s]
      BY <2>1, <3>1, <3>2, ElementOfSeq
    <3>4. /\ Len(chan'[s][d]) \in Nat
          /\ chan'[s][d] \in [1 .. Len(chan'[s][d]) -> RegistryCommand]
      BY <3>1, LenProperties
    <3>5. chan'[s][d] \in [1 .. Len(chan'[s][d]) -> TrueMessages'[s]]
      BY <3>1, <3>3, <3>4
    <3> QED BY <3>4, <3>5, SeqDef
  <2>3. ASSUME NEW s \in Proxies PROVE chan'[s][s] = <<>>
    <3>1. chan[s][s] = <<>> BY DEF RegistryInv, QueuesTrue
    <3>2. Len(chan[s][s]) = 0 BY <3>1
    <3>3. Len(chan'[s][s]) = 0 /\ chan'[s][s] \in Seq(RegistryCommand)
      BY <1>0, <3>2, TickQueues
    <3> QED BY <3>3, EmptySeq
  <2> QED BY <1>5, <2>2, <2>3 DEF QueuesTrue, TypeOK
<1>7. HeldAdvertised'
  BY <1>1, <1>2 DEF Tick, RegistryInv, HeldAdvertised, Held
<1>8. LocalFresh'
  <2> SUFFICES ASSUME NEW p \in Proxies, NEW m \in Methods, up[p],
                      localInvokeMethods'[p][m] # None
               PROVE  sinceRegistered'[m] <= localInvokeMethods'[p][m] /\ ~looped'[p]
    BY DEF LocalFresh, Tick
  <2>1. localInvokeMethods[p][m] # None /\ looped[p] BY <1>2 DEF Tick
  <2>2. /\ sinceRegistered[m] <= localInvokeMethods[p][m]
        /\ localInvokeMethods[p][m] <= LocalTTL
    BY <2>1 DEF RegistryInv, LocalFresh
  <2>3. /\ localInvokeMethods[p][m] \in 0 .. LocalTTL + 1
        /\ localInvokeMethods'[p][m] = Older(localInvokeMethods[p][m], LocalTTL + 1)
    BY <1>2, <2>1
  <2>4. localInvokeMethods'[p][m] = localInvokeMethods[p][m] + 1
    BY <1>1, <2>2, <2>3, TimingAssumption DEF Older
  <2> QED BY <1>4, <2>2, <2>3, <2>4, TimingAssumption DEF Tick
<1>9. RemoteFresh'
  <2> SUFFICES ASSUME NEW p \in Proxies, NEW m \in Methods, up[p],
                      remoteInvokeMethods'[p][m] # None
               PROVE  /\ sinceRegistered'[m] <= LocalTTL + 1 + MaxDelay
                           + remoteInvokeMethods'[p][m].lastCheckTime
                      /\ ~looped'[p]
    BY DEF RemoteFresh, Tick
  <2> DEFINE age == remoteInvokeMethods[p][m].lastCheckTime
  <2>1. remoteInvokeMethods[p][m] # None /\ looped[p] BY <1>3 DEF Tick
  <2>2. /\ sinceRegistered[m] <= LocalTTL + 1 + MaxDelay + age
        /\ age <= RemoteTTL
    BY <2>1 DEF RegistryInv, RemoteFresh
  <2>3. /\ age \in 0 .. RemoteTTL + 1
        /\ remoteInvokeMethods'[p][m].lastCheckTime = Older(age, RemoteTTL + 1)
    BY <1>3, <2>1 DEF Route
  <2>4. remoteInvokeMethods'[p][m].lastCheckTime = age + 1
    BY <1>1, <2>2, <2>3, TimingAssumption DEF Older
  <2> HIDE DEF age
  <2> QED BY <1>4, <2>2, <2>3, <2>4, TimingAssumption DEF Tick
<1>10. DeafToSelf' BY DEF RegistryInv, DeafToSelf, Tick
<1> QED BY <1>5, <1>6, <1>7, <1>8, <1>9, <1>10 DEF RegistryInv
----------------------------------------------------------------------------
(* The theorems *)

LEMMA InitKeeps ==
  ASSUME Init
  PROVE  RegistryInv
<1> USE DEF EmptyRegistries, Init
<1>1. TypeOK
  <2>1. \A S : <<>> \in Seq(S) BY EmptySeq
  <2> QED BY <2>1, TimingAssumption DEF TypeOK, LearnLimit, StaleLimit
<1>2. QueuesTrue(chan)
  <2>1. \A S : <<>> \in Seq(S) BY EmptySeq
  <2> QED BY <1>1, <2>1 DEF QueuesTrue, TypeOK
<1>3. DeafToSelf /\ HeldAdvertised /\ LocalFresh /\ RemoteFresh
  BY DEF DeafToSelf, HeldAdvertised, Held, LocalFresh, RemoteFresh
<1> QED BY <1>1, <1>2, <1>3 DEF RegistryInv

LEMMA StepKeeps ==
  ASSUME RegistryInv, [Next]_vars
  PROVE  RegistryInv'
<1>1. CASE UNCHANGED vars
  <2>1. TypeOK' BY <1>1 DEF RegistryInv, TypeOK, vars, netVars, historyVars
  <2>2. TrueMessages' = TrueMessages
    BY <1>1 DEF TrueMessages, vars, historyVars
  <2>3. QueuesTrue(chan)' BY <1>1, <2>2 DEF RegistryInv, QueuesTrue, vars
  <2>4. DeafToSelf' /\ HeldAdvertised'
    BY <1>1 DEF RegistryInv, DeafToSelf, HeldAdvertised, Held, vars, netVars, historyVars
  <2>5. LocalFresh' /\ RemoteFresh'
    BY <1>1 DEF RegistryInv, LocalFresh, RemoteFresh, vars, netVars, historyVars
  <2> QED BY <2>1, <2>3, <2>4, <2>5 DEF RegistryInv
<1>2. CASE ProxyStep
  BY <1>2, RegisterInvokeKeeps, ResponderKeeps, RemoteUpdateKeeps, HousekeepingKeeps
     DEF ProxyStep
<1>3. CASE Faults
  BY <1>3, DisconnectKeeps, LoseKeeps, CrashKeeps DEF Faults
<1>4. CASE \E p, q \in Proxies : Connect(p, q)
  BY <1>4, ConnectKeeps
<1>5. CASE Tick
  BY <1>5, TickKeeps
<1> QED BY <1>1, <1>2, <1>3, <1>4, <1>5 DEF Next

(* Whatever is lost, delayed, disconnected or crashed, the variables keep  *)
(* their types and no age passes its saturation value.                     *)
THEOREM RegistryTypeCorrect == Spec => []TypeOK
<1>1. RegistryInv => TypeOK BY DEF RegistryInv
<1> QED BY <1>1, InitKeeps, StepKeeps, PTL DEF Spec

(* A route outlives the last registration of its method by at most         *)
(* LocalTTL + 1 seconds at the proxy that held it, the delay of the last   *)
(* answer, and RemoteTTL + 1 seconds at the proxy that learned it.         *)
THEOREM RoutesAreFresh == Spec => []RoutesFresh
<1>1. RegistryInv => RoutesFresh
  <2> SUFFICES ASSUME RegistryInv, NEW p \in Proxies, NEW m \in Methods, up[p],
                      remoteInvokeMethods[p][m] # None
               PROVE  sinceRegistered[m] <= StaleLimit
    BY DEF RoutesFresh
  <2>1. sinceRegistered[m] <= LocalTTL + 1 + MaxDelay + remoteInvokeMethods[p][m].lastCheckTime
    BY DEF RegistryInv, RemoteFresh
  <2>2. /\ remoteInvokeMethods[p][m].lastCheckTime \in 0 .. RemoteTTL + 1
        /\ sinceRegistered[m] \in 0 .. StaleLimit + 1
    BY DEF RegistryInv, TypeOK, Route
  <2> QED BY <2>1, <2>2, TimingAssumption DEF StaleLimit
<1> QED BY <1>1, InitKeeps, StepKeeps, PTL DEF Spec
----------------------------------------------------------------------------
(* The refinement of RegistryPromise *)

(* The two functions that Promise puts for offers and routes. *)
Offers == [p \in Proxies |-> Held(p)]
Routes == [p \in Proxies |-> [m \in Methods |->
             IF remoteInvokeMethods[p][m] = None THEN None
             ELSE remoteInvokeMethods[p][m].proxyGuid]]

(* A step that changes the routes of one proxy only, entry by entry. *)
LEMMA RoutesByEntry ==
  ASSUME NEW p \in Proxies, NEW f, f = [m \in Methods |-> f[m]],
         \A m \in Methods : Routes'[p][m] = f[m],
         \A q \in Proxies, m \in Methods : q # p => Routes'[q][m] = Routes[q][m]
  PROVE  Routes' = [Routes EXCEPT ![p] = f]
<1>1. \A q \in Proxies : /\ Routes'[q] = [m \in Methods |-> Routes'[q][m]]
                         /\ Routes[q] = [m \in Methods |-> Routes[q][m]]
  BY DEF Routes
<1>2. Routes' = [q \in Proxies |-> Routes'[q]] /\ Routes = [q \in Proxies |-> Routes[q]]
  BY DEF Routes
<1>3. Routes'[p] = f BY <1>1
<1>4. \A q \in Proxies : q # p => Routes'[q] = Routes[q] BY <1>1
<1> QED BY <1>2, <1>3, <1>4

LEMMA RegisterIsOffer ==
  ASSUME RegistryInv, NEW p \in Proxies, NEW m \in Methods, RegisterInvoke(p, m)
  PROVE  Promise!Offer(p, m)
<1>1. Offers' = [Offers EXCEPT ![p] = @ \cup {m}]
  <2>1. None # 0 BY TimingAssumption
  <2>2. \A q \in Proxies, k \in Methods : localInvokeMethods'[q][k] =
          IF q = p /\ k = m THEN 0 ELSE localInvokeMethods[q][k]
    BY DEF RegisterInvoke, RegistryInv, TypeOK
  <2>3. \A q \in Proxies : Held(q)' = IF q = p THEN Held(q) \cup {m} ELSE Held(q)
    BY <2>1, <2>2 DEF Held
  <2> QED BY <2>3 DEF Offers
<1>2. Routes' = Routes BY DEF Routes, RegisterInvoke
<1> QED BY <1>1, <1>2 DEF Promise!Offer, Offers, Routes, RegisterInvoke

LEMMA UpdateIsLearn ==
  ASSUME RegistryInv, NEW p \in Proxies, NEW s \in Proxies,
         RemoteRegistryUpdate(p, s)
  PROVE  Promise!Learn(p, s)
<1> DEFINE entries == Head(chan[s][p]).reg_entry
<1>1. chan[s][p] # <<>> BY DEF RemoteRegistryUpdate
<1>2. Head(chan[s][p]) \in TrueMessages[s] /\ s # p
  BY <1>1, PolledTrue DEF RegistryInv
<1>3. entries \subseteq advertised[s] /\ Head(chan[s][p]).source_proxy_guid = s
  BY <1>2 DEF TrueMessages
<1>4. \A q \in Proxies, m \in Methods : remoteInvokeMethods'[q][m] =
        IF q = p /\ m \in entries
        THEN [proxyGuid |-> IF remoteInvokeMethods[p][m] = None THEN s
                            ELSE remoteInvokeMethods[p][m].proxyGuid,
              lastCheckTime |-> 0]
        ELSE remoteInvokeMethods[q][m]
  BY <1>3 DEF RemoteRegistryUpdate, RegistryInv, TypeOK
<1> HIDE DEF entries
<1>5. Routes' = [Routes EXCEPT ![p] =
                   [m \in Methods |-> IF m \in entries /\ @[m] = None
                                      THEN s ELSE @[m]]]
  <2>1. ASSUME NEW q \in Proxies, NEW m \in Methods
        PROVE  Routes'[q][m] =
                 IF q = p /\ m \in entries /\ Routes[q][m] = None
                 THEN s ELSE Routes[q][m]
    <3>0. /\ Routes[q][m] = IF remoteInvokeMethods[q][m] = None THEN None
                            ELSE remoteInvokeMethods[q][m].proxyGuid
          /\ Routes'[q][m] = IF remoteInvokeMethods'[q][m] = None THEN None
                             ELSE remoteInvokeMethods'[q][m].proxyGuid
      BY DEF Routes
    <3>1. remoteInvokeMethods[q][m] \in Route \cup {None}
      BY DEF RegistryInv, TypeOK
    <3>2. remoteInvokeMethods[q][m] # None =>
            remoteInvokeMethods[q][m].proxyGuid \in Proxies
      BY <3>1 DEF Route
    <3>3. None \notin Proxies /\ None \notin Route /\ 0 \in 0 .. RemoteTTL + 1
      BY TimingAssumption
    <3>4. CASE q = p /\ m \in entries /\ remoteInvokeMethods[q][m] = None
      <4>1. remoteInvokeMethods'[q][m] = [proxyGuid |-> s, lastCheckTime |-> 0]
        BY <1>4, <3>4
      <4>2. remoteInvokeMethods'[q][m] # None
        BY <3>3, <4>1 DEF Route
      <4> QED BY <3>0, <3>4, <4>1, <4>2
    <3>5. CASE q = p /\ m \in entries /\ remoteInvokeMethods[q][m] # None
      <4>1. remoteInvokeMethods'[q][m] =
              [proxyGuid |-> remoteInvokeMethods[q][m].proxyGuid, lastCheckTime |-> 0]
        BY <1>4, <3>5
      <4>2. remoteInvokeMethods'[q][m] # None
        BY <3>2, <3>3, <3>5, <4>1 DEF Route
      <4> QED BY <3>0, <3>2, <3>3, <3>5, <4>1, <4>2
    <3>6. CASE ~(q = p /\ m \in entries)
      BY <1>4, <3>0, <3>6
    <3> QED BY <3>4, <3>5, <3>6
  <2> DEFINE f == [m \in Methods |-> IF m \in entries /\ Routes[p][m] = None
                                     THEN s ELSE Routes[p][m]]
  <2>2. \A m \in Methods : Routes'[p][m] = f[m] BY <2>1
  <2>3. \A q \in Proxies, m \in Methods : q # p => Routes'[q][m] = Routes[q][m]
    BY <2>1
  <2>4. f = [m \in Methods |-> f[m]] OBVIOUS
  <2> HIDE DEF f
  <2>5. Routes' = [Routes EXCEPT ![p] = f] BY <2>2, <2>3, <2>4, RoutesByEntry
  <2> QED BY <2>5 DEF f
<1>6. Offers' = Offers BY DEF Offers, Held, RemoteRegistryUpdate
<1>7. advertised' = advertised BY DEF RemoteRegistryUpdate, historyVars
<1> QED BY <1>2, <1>3, <1>5, <1>6, <1>7 DEF Promise!Learn, Offers, Routes

LEMMA HousekeepingIsExpire ==
  ASSUME RegistryInv, NEW p \in Proxies, Housekeeping(p)
  PROVE  Promise!Expire(p)
<1> DEFINE stale == {m \in Held(p) : localInvokeMethods[p][m] > LocalTTL}
           lost == {m \in Methods : /\ remoteInvokeMethods[p][m] # None
                                    /\ remoteInvokeMethods[p][m].lastCheckTime > RemoteTTL}
<1>1. \A q \in Proxies, m \in Methods : localInvokeMethods'[q][m] =
        IF q = p /\ m \in stale THEN None ELSE localInvokeMethods[q][m]
  BY DEF Housekeeping, LocalRegistryHealthCheck, RegistryInv, TypeOK, Held
<1>2. \A q \in Proxies, m \in Methods : remoteInvokeMethods'[q][m] =
        IF q = p /\ m \in lost THEN None ELSE remoteInvokeMethods[q][m]
  BY DEF Housekeeping, RemoteRegistryHealthCheck, RegistryInv, TypeOK
<1>3. stale \in SUBSET Held(p) /\ lost \in SUBSET Methods OBVIOUS
<1> HIDE DEF stale, lost
<1>4. Offers' = [Offers EXCEPT ![p] = @ \ stale]
  <2>1. \A q \in Proxies : Held(q)' = IF q = p THEN Held(q) \ stale ELSE Held(q)
    BY <1>1 DEF Held
  <2> QED BY <2>1 DEF Offers
<1>5. Routes' = [Routes EXCEPT ![p] =
                   [m \in Methods |-> IF m \in lost THEN None ELSE @[m]]]
  <2> DEFINE f == [m \in Methods |-> IF m \in lost THEN None ELSE Routes[p][m]]
  <2>1. \A q \in Proxies, m \in Methods :
          /\ Routes[q][m] = IF remoteInvokeMethods[q][m] = None THEN None
                            ELSE remoteInvokeMethods[q][m].proxyGuid
          /\ Routes'[q][m] = IF remoteInvokeMethods'[q][m] = None THEN None
                             ELSE remoteInvokeMethods'[q][m].proxyGuid
    BY DEF Routes
  <2>2. \A m \in Methods : Routes'[p][m] = f[m] BY <1>2, <2>1
  <2>3. \A q \in Proxies, m \in Methods : q # p => Routes'[q][m] = Routes[q][m]
    BY <1>2, <2>1
  <2>4. f = [m \in Methods |-> f[m]] OBVIOUS
  <2> HIDE DEF f
  <2>5. Routes' = [Routes EXCEPT ![p] = f] BY <2>2, <2>3, <2>4, RoutesByEntry
  <2> QED BY <2>5 DEF f
<1>6. advertised' = advertised BY DEF Housekeeping, historyVars
<1>7. Offers[p] = Held(p) BY DEF Offers
<1> QED BY <1>3, <1>4, <1>5, <1>6, <1>7 DEF Promise!Expire, Offers, Routes

LEMMA TickIsStutter ==
  ASSUME RegistryInv, Tick
  PROVE  UNCHANGED Promise!regVars
<1>1. \A p \in Proxies, m \in Methods :
        (localInvokeMethods'[p][m] = None) <=> (localInvokeMethods[p][m] = None)
  <2> SUFFICES ASSUME NEW p \in Proxies, NEW m \in Methods,
                      localInvokeMethods[p][m] # None
               PROVE  localInvokeMethods'[p][m] # None
    BY DEF Tick
  <2>1. /\ localInvokeMethods[p][m] \in 0 .. LocalTTL + 1
        /\ localInvokeMethods'[p][m] = Older(localInvokeMethods[p][m], LocalTTL + 1)
    BY DEF Tick, RegistryInv, TypeOK
  <2> QED BY <2>1, TimingAssumption DEF Older
<1>2. ASSUME NEW p \in Proxies, NEW m \in Methods
      PROVE  Routes'[p][m] = Routes[p][m]
  <2> DEFINE r == remoteInvokeMethods[p][m]
  <2>1. r \in Route \cup {None} BY DEF RegistryInv, TypeOK
  <2>2. remoteInvokeMethods'[p][m] =
          IF r = None THEN None
          ELSE [r EXCEPT !.lastCheckTime = Older(@, RemoteTTL + 1)]
    BY DEF Tick
  <2>3. /\ Routes[p][m] = IF r = None THEN None ELSE r.proxyGuid
        /\ Routes'[p][m] = IF remoteInvokeMethods'[p][m] = None THEN None
                           ELSE remoteInvokeMethods'[p][m].proxyGuid
    BY DEF Routes
  <2>4. CASE r = None BY <2>2, <2>3, <2>4
  <2>5. CASE r # None
    <3>1. /\ r = [proxyGuid |-> r.proxyGuid, lastCheckTime |-> r.lastCheckTime]
          /\ r.proxyGuid \in Proxies /\ r.lastCheckTime \in 0 .. RemoteTTL + 1
      BY <2>1, <2>5 DEF Route
    <3>2. Older(r.lastCheckTime, RemoteTTL + 1) \in 0 .. RemoteTTL + 1
      BY <3>1, TimingAssumption DEF Older
    <3>3. remoteInvokeMethods'[p][m] =
            [proxyGuid |-> r.proxyGuid,
             lastCheckTime |-> Older(r.lastCheckTime, RemoteTTL + 1)]
      BY <2>2, <2>5, <3>1
    <3>4. remoteInvokeMethods'[p][m] # None
      BY <3>1, <3>2, <3>3, TimingAssumption DEF Route
    <3> QED BY <2>3, <2>5, <3>3, <3>4
  <2> QED BY <2>4, <2>5
<1>3. Offers' = Offers BY <1>1 DEF Offers, Held
<1>4. Routes' = Routes
  <2>1. /\ Routes' = [p \in Proxies |-> [m \in Methods |-> Routes'[p][m]]]
        /\ Routes = [p \in Proxies |-> [m \in Methods |-> Routes[p][m]]]
    BY DEF Routes
  <2> QED BY <1>2, <2>1
<1>5. advertised' = advertised BY DEF Tick
<1> QED BY <1>3, <1>4, <1>5 DEF Promise!regVars, Offers, Routes

(* The timed exchange implements the promise on which the theorems about   *)
(* the invocation path rest: RegisterInvoke offers, RemoteRegistryUpdate   *)
(* learns what the sender of the answer advertised at some earlier time    *)
(* and keeps the proxyGuid of an entry it has, the health checks expire,   *)
(* and everything else changes nothing that the promise speaks of.         *)
THEOREM ExchangeKeepsPromise == Spec => ImplementsPromise
<1>1. Init => Promise!RegistryInit
  BY DEF Init, EmptyRegistries, Promise!RegistryInit, Held
<1>2. RegistryInv /\ [Next]_vars => [Promise!RegistryNext]_(Promise!regVars)
  <2> SUFFICES ASSUME RegistryInv, [Next]_vars
               PROVE  Promise!RegistryNext \/ UNCHANGED Promise!regVars
    OBVIOUS
  <2>1. CASE \E p \in Proxies, m \in Methods : RegisterInvoke(p, m)
    BY <2>1, RegisterIsOffer DEF Promise!RegistryNext
  <2>2. CASE \E p, s \in Proxies : RemoteRegistryUpdate(p, s)
    BY <2>2, UpdateIsLearn DEF Promise!RegistryNext
  <2>3. CASE \E p \in Proxies : Housekeeping(p)
    BY <2>3, HousekeepingIsExpire DEF Promise!RegistryNext
  <2>4. CASE Tick
    BY <2>4, TickIsStutter
  <2>5. ASSUME UNCHANGED <<localInvokeMethods, remoteInvokeMethods, advertised>>
        PROVE  UNCHANGED Promise!regVars
    BY <2>5 DEF Promise!regVars, Held
  <2>6. CASE \/ \E p, s \in Proxies : RegistryExchangeResponder(p, s)
             \/ Faults
             \/ \E p, q \in Proxies : Connect(p, q)
             \/ UNCHANGED vars
    <3>1. UNCHANGED <<localInvokeMethods, remoteInvokeMethods, advertised>>
      BY <2>6 DEF RegistryExchangeResponder, Faults, Disconnect, Lose, Crash,
                  Connect, vars, historyVars
    <3> QED BY <2>5, <3>1
  <2> QED BY <2>1, <2>2, <2>3, <2>4, <2>6 DEF Next, ProxyStep
<1> QED BY <1>1, <1>2, InitKeeps, StepKeeps, PTL
        DEF Spec, ImplementsPromise, Promise!RegistrySpec
----------------------------------------------------------------------------
(* A steady mesh, for every choice of the time-outs that leaves room for   *)
(* the delay of the messages                                               *)

REQUEST == "REGISTRY_EXCHANGE_REQUEST"
RESPONSE == "REGISTRY_EXCHANGE_RESPONSE"

(* An exchange is over before the next one starts, an entry that one       *)
(* exchange refreshed lives until the next one refreshes it, and a queue   *)
(* has room for a request beside an answer.  The code has a period of 3    *)
(* and a time-out of 5 seconds: a delay of one second is the most it       *)
(* bears.                                                                  *)
SteadyTiming ==
  /\ 2 * MaxDelay < ExchangePeriod
  /\ ExchangePeriod + 2 * MaxDelay <= RemoteTTL
  /\ 2 <= HWM
----------------------------------------------------------------------------
(* Queues that hold at most one message of each kind *)

Contents(queue, cmd) ==
  {msg \in RegistryCommand : /\ msg.cmd = cmd
                             /\ \E i \in 1 .. Len(queue) : queue[i] = msg}

OneOfEach(queue) ==
  \A i, j \in 1 .. Len(queue) : queue[i].cmd = queue[j].cmd => i = j

Joined(queue, msg, other) ==
  /\ Append(queue, msg) \in Seq(RegistryCommand)
  /\ OneOfEach(Append(queue, msg))
  /\ Contents(Append(queue, msg), msg.cmd) = {msg}
  /\ Contents(Append(queue, msg), other) = Contents(queue, other)
  /\ Len(queue) <= 1

LEMMA AppendContents ==
  ASSUME NEW queue \in Seq(RegistryCommand), OneOfEach(queue),
         NEW msg \in RegistryCommand, Contents(queue, msg.cmd) = {},
         NEW other, other # msg.cmd
  PROVE  Joined(queue, msg, other)
<1> DEFINE n == Len(queue)
           longer == Append(queue, msg)
<1>1. /\ n \in Nat /\ \A i \in 1 .. n : queue[i] \in RegistryCommand
      /\ longer \in Seq(RegistryCommand) /\ Len(longer) = n + 1
      /\ \A i \in 1 .. n : longer[i] = queue[i]
      /\ longer[n + 1] = msg
  BY AppendProperties, LenProperties, ElementOfSeq
<1>2. \A i \in 1 .. n : queue[i].cmd # msg.cmd
  BY <1>1 DEF Contents
<1> HIDE DEF longer, n
<1>3. \A i \in 1 .. n + 1 : i = n + 1 \/ i \in 1 .. n BY <1>1
<1>4. OneOfEach(longer)
  <2> SUFFICES ASSUME NEW i \in 1 .. n + 1, NEW j \in 1 .. n + 1,
                      longer[i].cmd = longer[j].cmd
               PROVE  i = j
    BY <1>1 DEF OneOfEach
  <2>1. CASE i \in 1 .. n /\ j \in 1 .. n
    BY <1>1, <2>1 DEF OneOfEach, n
  <2>2. CASE i = n + 1 \/ j = n + 1
    BY <1>1, <1>2, <1>3, <2>2
  <2> QED BY <1>3, <2>1, <2>2
<1>5. \A x : (\E i \in 1 .. n + 1 : longer[i] = x) <=>
               (x = msg \/ \E i \in 1 .. n : queue[i] = x)
  <2>1. n + 1 \in 1 .. n + 1 /\ \A i \in 1 .. n : i \in 1 .. n + 1 BY <1>1
  <2> QED BY <1>1, <1>3, <2>1
<1>6. Contents(longer, msg.cmd) = {msg}
  BY <1>1, <1>2, <1>5 DEF Contents
<1>7. Contents(longer, other) = Contents(queue, other)
  BY <1>1, <1>5 DEF Contents, n
<1>8. n <= 1
  <2> SUFFICES ASSUME 2 <= n PROVE FALSE BY <1>1
  <2>1. 1 \in 1 .. n /\ 2 \in 1 .. n BY <1>1
  <2>2. queue[1].cmd # queue[2].cmd BY <2>1 DEF OneOfEach, n
  <2>3. /\ queue[1].cmd \in {REQUEST, RESPONSE} /\ queue[2].cmd \in {REQUEST, RESPONSE}
        /\ msg.cmd \in {REQUEST, RESPONSE}
    BY <1>1, <2>1 DEF RegistryCommand, REQUEST, RESPONSE
  <2> QED BY <1>2, <2>1, <2>2, <2>3
<1> QED BY <1>1, <1>4, <1>6, <1>7, <1>8 DEF longer, n, Joined

LEMMA TailContents ==
  ASSUME NEW queue \in Seq(RegistryCommand), OneOfEach(queue), queue # <<>>,
         NEW other, other # Head(queue).cmd
  PROVE  /\ Head(queue) \in RegistryCommand
         /\ Tail(queue) \in Seq(RegistryCommand)
         /\ OneOfEach(Tail(queue))
         /\ Contents(queue, Head(queue).cmd) = {Head(queue)}
         /\ Contents(Tail(queue), Head(queue).cmd) = {}
         /\ Contents(Tail(queue), other) = Contents(queue, other)
<1> DEFINE n == Len(queue)
           rest == Tail(queue)
           first == Head(queue)
<1>1. /\ n \in Nat /\ \A i \in 1 .. n : queue[i] \in RegistryCommand
      /\ rest \in Seq(RegistryCommand) /\ Len(rest) = n - 1 /\ 1 <= n
      /\ first = queue[1]
  BY HeadTailProperties, LenProperties, ElementOfSeq, EmptySeq
<1>2. ASSUME NEW i \in 1 .. n - 1 PROVE rest[i] = queue[i + 1] /\ i + 1 \in 1 .. n
  BY <1>1, HeadTailProperties
<1> HIDE DEF rest, n, first
<1>3. \A i \in 1 .. n : i = 1 \/ (i - 1 \in 1 .. n - 1 /\ queue[i] = rest[i - 1])
  <2> TAKE i \in 1 .. n
  <2>1. i = 1 \/ i - 1 \in 1 .. n - 1 BY <1>1
  <2>2. i - 1 \in 1 .. n - 1 => rest[i - 1] = queue[(i - 1) + 1] BY <1>2
  <2>3. (i - 1) + 1 = i BY <1>1
  <2> QED BY <2>1, <2>2, <2>3
<1>4. OneOfEach(rest)
  <2> SUFFICES ASSUME NEW i \in 1 .. n - 1, NEW j \in 1 .. n - 1,
                      rest[i].cmd = rest[j].cmd
               PROVE  i = j
    BY <1>1 DEF OneOfEach
  <2>1. i + 1 = j + 1 BY <1>2 DEF OneOfEach, n
  <2> QED BY <1>1, <2>1
<1>5. 1 \in 1 .. n BY <1>1
<1>6. \A i \in 1 .. n : queue[i].cmd = first.cmd => i = 1
  BY <1>1, <1>5 DEF OneOfEach, n
<1>7. Contents(queue, first.cmd) = {first}
  BY <1>1, <1>5, <1>6 DEF Contents, n
<1>8. Contents(rest, first.cmd) = {}
  <2> SUFFICES ASSUME NEW i \in 1 .. n - 1, rest[i].cmd = first.cmd PROVE FALSE
    BY <1>1 DEF Contents
  <2>1. i + 1 = 1 BY <1>2, <1>6
  <2> QED BY <1>1, <2>1
<1>9. Contents(rest, other) = Contents(queue, other)
  <2>0. other # first.cmd BY DEF first
  <2>1. \A x : x.cmd = other => ((\E i \in 1 .. n - 1 : rest[i] = x) <=>
                               (\E i \in 1 .. n : queue[i] = x))
    BY <1>1, <1>2, <1>3, <2>0
  <2> QED BY <1>1, <2>1 DEF Contents, n
<1> QED BY <1>1, <1>4, <1>5, <1>7, <1>8, <1>9 DEF rest, first

(* The messages in new are those in old, one second later. *)
SecondLater(old, new) ==
  /\ \A x \in new : \E y \in old : x.age = y.age + 1 /\ x.reg_entry = y.reg_entry
  /\ old # {} => new # {}

LEMMA TickContents ==
  ASSUME TypeOK, Tick, NEW s \in Proxies, NEW d \in Proxies, NEW cmd
  PROVE  /\ OneOfEach(chan[s][d]) => OneOfEach(chan'[s][d])
         /\ SecondLater(Contents(chan[s][d], cmd), Contents(chan'[s][d], cmd))
<1> DEFINE n == Len(chan[s][d])
<1>1. /\ chan'[s][d] \in Seq(RegistryCommand)
      /\ Len(chan'[s][d]) = n
      /\ \A i \in 1 .. n :
           /\ chan'[s][d][i] = OneOlder(chan[s][d][i])
           /\ chan[s][d][i] \in RegistryCommand
           /\ chan[s][d][i].age < MaxDelay
  BY TickQueues
<1>2. \A i \in 1 .. n :
        /\ chan'[s][d][i] \in RegistryCommand
        /\ chan'[s][d][i].cmd = chan[s][d][i].cmd
        /\ chan'[s][d][i].reg_entry = chan[s][d][i].reg_entry
        /\ chan'[s][d][i].age = chan[s][d][i].age + 1
  BY <1>1, OneOlderResult
<1>3. OneOfEach(chan[s][d]) => OneOfEach(chan'[s][d])
  BY <1>1, <1>2 DEF OneOfEach
<1>4. ASSUME NEW x \in Contents(chan'[s][d], cmd)
      PROVE  \E y \in Contents(chan[s][d], cmd) :
                x.age = y.age + 1 /\ x.reg_entry = y.reg_entry
  <2>1. PICK i \in 1 .. n : chan'[s][d][i] = x /\ x.cmd = cmd
    BY <1>1 DEF Contents
  <2>2. chan[s][d][i] \in Contents(chan[s][d], cmd) BY <1>1, <1>2, <2>1 DEF Contents
  <2> QED BY <1>2, <2>1, <2>2
<1>5. ASSUME NEW y \in Contents(chan[s][d], cmd)
      PROVE  Contents(chan'[s][d], cmd) # {}
  <2>1. PICK i \in 1 .. n : chan[s][d][i] = y /\ y.cmd = cmd
    BY DEF Contents
  <2>2. chan'[s][d][i] \in Contents(chan'[s][d], cmd) BY <1>1, <1>2, <2>1 DEF Contents
  <2> QED BY <2>2
<1> QED BY <1>3, <1>4, <1>5 DEF SecondLater
----------------------------------------------------------------------------
(* The state of a steady mesh *)

(* Requests[p][q]: requests of p on their way to q; Answers[p][q]: answers *)
(* of q on their way to p.                                                 *)
Requests == [p \in Proxies |-> [q \in Proxies |-> Contents(chan[p][q], REQUEST)]]
Answers == [p \in Proxies |-> [q \in Proxies |-> Contents(chan[q][p], RESPONSE)]]

Meshed ==
  /\ \A p \in Proxies : up[p]
  /\ \A p, q \in Proxies : p # q => q \in heard[p] /\ q \in proxiesGuids[p]

Single == \A s, d \in Proxies : OneOfEach(chan[s][d])

Prompt == \A p \in Proxies : looped[p] => lastRegistryExchange[p] < ExchangePeriod

(* The exchange of p with q is as old as lastRegistryExchange[p] says.     *)
RequestsRecent ==
  \A p, q \in Proxies : \A x \in Requests[p][q] : x.age = lastRegistryExchange[p]

AnswersRecent ==
  \A p, q \in Proxies : \A x \in Answers[p][q] :
    /\ x.age <= lastRegistryExchange[p]
    /\ lastRegistryExchange[p] <= x.age + MaxDelay

(* An answer has every method that was held when p asked. *)
AnswersComplete ==
  \A p, q \in Proxies, m \in Methods : \A x \in Answers[p][q] :
    /\ localInvokeMethods[q][m] # None
    /\ heldFor[q][m] > lastRegistryExchange[p]
    => m \in x.reg_entry

OneStage == \A p, q \in Proxies : Requests[p][q] = {} \/ Answers[p][q] = {}

(* The route of m at p was refreshed at most `since' seconds ago. *)
RefreshedWithin(p, m, since) ==
  /\ remoteInvokeMethods[p][m] # None
  /\ remoteInvokeMethods[p][m].lastCheckTime <= since

(* Once the answer is in, p has what q held when p asked; until then it    *)
(* has what q held when p asked before.                                    *)
AfterExchange ==
  \A p, q \in Proxies, m \in Methods :
    /\ p # q /\ localInvokeMethods[q][m] # None
    /\ Requests[p][q] = {} /\ Answers[p][q] = {}
    /\ heldFor[q][m] > lastRegistryExchange[p]
    => RefreshedWithin(p, m, lastRegistryExchange[p])

DuringExchange ==
  \A p, q \in Proxies, m \in Methods :
    /\ p # q /\ localInvokeMethods[q][m] # None
    /\ heldFor[q][m] > lastRegistryExchange[p] + ExchangePeriod
    => RefreshedWithin(p, m, lastRegistryExchange[p] + ExchangePeriod)

SteadyInv ==
  /\ RegistryInv /\ Meshed /\ Single /\ Prompt /\ OneStage
  /\ RequestsRecent /\ AnswersRecent /\ AnswersComplete
  /\ AfterExchange /\ DuringExchange

LEMMA SteadyTypes ==
  ASSUME SteadyInv
  PROVE  /\ TypeOK /\ \A s, d \in Proxies : chan[s][d] \in Seq(RegistryCommand)
         /\ \A p \in Proxies : lastRegistryExchange[p] \in 0 .. ExchangePeriod
         /\ \A p \in Proxies, m \in Methods : heldFor[p][m] \in 0 .. LearnLimit + 1
         /\ \A p \in Proxies, m \in Methods : remoteInvokeMethods[p][m] # None =>
              /\ remoteInvokeMethods[p][m] \in Route
              /\ remoteInvokeMethods[p][m].lastCheckTime \in 0 .. RemoteTTL + 1
         /\ \A p, q \in Proxies :
              /\ \A x \in Requests[p][q] : x.age \in 0 .. MaxDelay
              /\ \A x \in Answers[p][q] : x.age \in 0 .. MaxDelay
         /\ None \notin Nat
<1>1. TypeOK BY DEF SteadyInv, RegistryInv
<1>2. \A p, q \in Proxies :
        /\ \A x \in Requests[p][q] : x.age \in 0 .. MaxDelay
        /\ \A x \in Answers[p][q] : x.age \in 0 .. MaxDelay
  BY DEF Requests, Answers, Contents, RegistryCommand
<1>3. \A p \in Proxies, m \in Methods : remoteInvokeMethods[p][m] # None =>
        /\ remoteInvokeMethods[p][m] \in Route
        /\ remoteInvokeMethods[p][m].lastCheckTime \in 0 .. RemoteTTL + 1
  BY <1>1 DEF TypeOK, Route
<1> QED BY <1>1, <1>2, <1>3, TimingAssumption DEF TypeOK

(* With an exchange under way, its age is at most two delays. *)
LEMMA UnderWayIsShort ==
  ASSUME SteadyInv, NEW p \in Proxies, NEW q \in Proxies,
         Requests[p][q] # {} \/ Answers[p][q] # {}
  PROVE  lastRegistryExchange[p] <= 2 * MaxDelay
<1>1. CASE Requests[p][q] # {}
  <2>1. PICK x \in Requests[p][q] : TRUE BY <1>1
  <2>2. x.age = lastRegistryExchange[p] BY DEF SteadyInv, RequestsRecent
  <2>3. x.age \in 0 .. MaxDelay BY SteadyTypes
  <2> QED BY <2>2, <2>3, TimingAssumption
<1>2. CASE Answers[p][q] # {}
  <2>1. PICK x \in Answers[p][q] : TRUE BY <1>2
  <2>2. lastRegistryExchange[p] <= x.age + MaxDelay BY DEF SteadyInv, AnswersRecent
  <2>3. x.age \in 0 .. MaxDelay /\ lastRegistryExchange[p] \in 0 .. ExchangePeriod
    BY SteadyTypes
  <2> QED BY <2>2, <2>3, TimingAssumption
<1> QED BY <1>1, <1>2

LEMMA SteadyInvRoutes ==
  ASSUME SteadyTiming, SteadyInv
  PROVE  SteadyRoutes
<1> SUFFICES ASSUME NEW p \in Proxies, NEW q \in Proxies, NEW m \in Methods, p # q,
                    localInvokeMethods[q][m] # None, heldFor[q][m] > LearnLimit
             PROVE  remoteInvokeMethods[p][m] # None
  BY DEF SteadyRoutes
<1>1. /\ heldFor[q][m] \in 0 .. LearnLimit + 1
      /\ lastRegistryExchange[p] \in 0 .. ExchangePeriod
  BY SteadyTypes
<1>2. CASE Requests[p][q] # {} \/ Answers[p][q] # {}
  <2>1. lastRegistryExchange[p] <= 2 * MaxDelay BY <1>2, UnderWayIsShort
  <2>2. heldFor[q][m] > lastRegistryExchange[p] + ExchangePeriod
    BY <1>1, <2>1, TimingAssumption DEF LearnLimit
  <2> QED BY <2>2 DEF SteadyInv, DuringExchange, RefreshedWithin
<1>3. CASE Requests[p][q] = {} /\ Answers[p][q] = {}
  <2>1. heldFor[q][m] > lastRegistryExchange[p]
    BY <1>1, TimingAssumption DEF LearnLimit
  <2> QED BY <1>3, <2>1 DEF SteadyInv, AfterExchange, RefreshedWithin
<1> QED BY <1>2, <1>3

(* A route refreshed by the last exchange but one survives the health      *)
(* check.                                                                  *)
LEMMA RefreshedSurvives ==
  ASSUME SteadyTiming, SteadyInv, NEW p \in Proxies, NEW q \in Proxies,
         Requests[p][q] # {} \/ Answers[p][q] # {}
  PROVE  lastRegistryExchange[p] + ExchangePeriod <= RemoteTTL
BY UnderWayIsShort, SteadyTypes, TimingAssumption DEF SteadyTiming
----------------------------------------------------------------------------
(* What the steps do to the messages under way *)

(* The request of s at p has become an answer. *)
Answered(p, s) ==
  /\ Single' /\ s # p
  /\ Requests[s][p] # {}
  /\ \A a, b \in Proxies : Requests'[a][b] =
       IF a = s /\ b = p THEN {} ELSE Requests[a][b]
  /\ \A a, b \in Proxies : Answers'[a][b] =
       IF a = s /\ b = p THEN {RegistryMessage(RESPONSE, p, Held(p))}
       ELSE Answers[a][b]

LEMMA ResponderMessages ==
  ASSUME SteadyTiming, SteadyInv, NEW p \in Proxies, NEW s \in Proxies,
         RegistryExchangeResponder(p, s)
  PROVE  Answered(p, s)
<1> DEFINE req == Head(chan[s][p])
           msg == RegistryMessage(RESPONSE, p, Held(p))
           ch == Poll(s, p)
<1>0. TypeOK /\ \A a, b \in Proxies : chan[a][b] \in Seq(RegistryCommand)
  BY SteadyTypes
<1>1. /\ chan[s][p] # <<>> /\ req.cmd = REQUEST
      /\ chan' = Publish(ch, p, {req.source_proxy_guid}, msg)
  BY DEF RegistryExchangeResponder, REQUEST, RESPONSE
<1>2. s # p /\ req \in TrueMessages[s]
  BY <1>0, <1>1, PolledTrue DEF SteadyInv, RegistryInv
<1>3. req.source_proxy_guid = s BY <1>2 DEF TrueMessages
<1>4. /\ OneOfEach(Tail(chan[s][p])) /\ Tail(chan[s][p]) \in Seq(RegistryCommand)
      /\ Contents(chan[s][p], REQUEST) # {}
      /\ Contents(Tail(chan[s][p]), REQUEST) = {}
      /\ Contents(Tail(chan[s][p]), RESPONSE) = Contents(chan[s][p], RESPONSE)
  <2>1. REQUEST # RESPONSE BY DEF REQUEST, RESPONSE
  <2>2. OneOfEach(chan[s][p]) BY DEF SteadyInv, Single
  <2> QED BY <1>0, <1>1, <2>1, <2>2, TailContents
<1>5. Requests[s][p] # {} BY <1>4 DEF Requests
<1>6. Contents(chan[p][s], RESPONSE) = {}
  BY <1>5 DEF SteadyInv, OneStage, Answers
<1>7. msg \in RegistryCommand /\ msg.cmd = RESPONSE
  BY TypeOfMessages DEF Held, RESPONSE, RegistryMessage
<1>8. /\ Append(chan[p][s], msg) \in Seq(RegistryCommand)
      /\ OneOfEach(Append(chan[p][s], msg))
      /\ Contents(Append(chan[p][s], msg), RESPONSE) = {msg}
      /\ Contents(Append(chan[p][s], msg), REQUEST) = Contents(chan[p][s], REQUEST)
      /\ Len(chan[p][s]) <= 1
  <2>1. RESPONSE # REQUEST BY DEF REQUEST, RESPONSE
  <2>2. OneOfEach(chan[p][s]) BY DEF SteadyInv, Single
  <2> HIDE DEF msg
  <2>3. /\ Contents(chan[p][s], msg.cmd) = {} /\ REQUEST # msg.cmd
        /\ chan[p][s] \in Seq(RegistryCommand)
    BY <1>0, <1>6, <1>7, <2>1
  <2>4. /\ Append(chan[p][s], msg) \in Seq(RegistryCommand)
        /\ OneOfEach(Append(chan[p][s], msg))
        /\ Contents(Append(chan[p][s], msg), msg.cmd) = {msg}
        /\ Contents(Append(chan[p][s], msg), REQUEST) = Contents(chan[p][s], REQUEST)
        /\ Len(chan[p][s]) <= 1
    <3>1. Joined(chan[p][s], msg, REQUEST) BY <1>7, <2>2, <2>3, AppendContents
    <3> QED BY <3>1 DEF Joined
  <2> QED BY <1>7, <2>4
<1>9. /\ ch \in [Proxies -> [Proxies -> Seq(RegistryCommand)]]
      /\ \A a, b \in Proxies : ch[a][b] =
           IF a = s /\ b = p THEN Tail(chan[s][p]) ELSE chan[a][b]
  BY <1>0, <1>1, PollResult
<1>10. Published(chan', ch, p, {s}, msg)
  <2> HIDE DEF msg, ch
  <2> QED BY <1>1, <1>3, <1>7, <1>9, PublishResult
<1>11. /\ chan'[s][p] = Tail(chan[s][p])
       /\ chan'[p][s] = Append(chan[p][s], msg)
       /\ \A a, b \in Proxies : ~(a = s /\ b = p) /\ ~(a = p /\ b = s) =>
            chan'[a][b] = chan[a][b]
  <2> HIDE DEF msg, ch
  <2>1. ch[p][s] = chan[p][s] BY <1>2, <1>9
  <2>2. Len(chan[p][s]) \in Nat BY <1>0, LenProperties
  <2>3. Len(ch[p][s]) < HWM
    BY <1>8, <2>1, <2>2, TimingAssumption DEF SteadyTiming
  <2>4. up[s] /\ p \in heard[s] BY <1>2 DEF SteadyInv, Meshed
  <2>5. Receivers(ch, p, {s}) = {s} BY <2>3, <2>4 DEF Receivers
  <2>6. /\ chan'[p][s] = Append(ch[p][s], msg)
        /\ \A a, b \in Proxies : a # p \/ b # s => chan'[a][b] = ch[a][b]
    BY <1>10, <2>5 DEF Published
  <2> QED BY <1>2, <1>9, <2>1, <2>6
<1> HIDE DEF msg, ch
<1>12. Single'
  BY <1>4, <1>8, <1>11 DEF SteadyInv, Single
<1>13. \A a, b \in Proxies : Requests'[a][b] =
         IF a = s /\ b = p THEN {} ELSE Requests[a][b]
  <2> TAKE a \in Proxies, b \in Proxies
  <2>1. /\ Requests'[a][b] = Contents(chan'[a][b], REQUEST)
        /\ Requests[a][b] = Contents(chan[a][b], REQUEST)
    BY DEF Requests
  <2>2. CASE a = s /\ b = p BY <1>4, <1>11, <2>1, <2>2
  <2>3. CASE a = p /\ b = s BY <1>2, <1>8, <1>11, <2>1, <2>3
  <2>4. CASE ~(a = s /\ b = p) /\ ~(a = p /\ b = s) BY <1>11, <2>1, <2>4
  <2> QED BY <2>2, <2>3, <2>4
<1>14. \A a, b \in Proxies : Answers'[a][b] =
         IF a = s /\ b = p THEN {msg} ELSE Answers[a][b]
  <2> TAKE a \in Proxies, b \in Proxies
  <2>1. /\ Answers'[a][b] = Contents(chan'[b][a], RESPONSE)
        /\ Answers[a][b] = Contents(chan[b][a], RESPONSE)
    BY DEF Answers
  <2>2. CASE a = s /\ b = p BY <1>8, <1>11, <2>1, <2>2
  <2>3. CASE a = p /\ b = s BY <1>2, <1>4, <1>11, <2>1, <2>3
  <2>4. CASE ~(a = s /\ b = p) /\ ~(a = p /\ b = s) BY <1>11, <2>1, <2>4
  <2> QED BY <2>2, <2>3, <2>4
<1> QED BY <1>2, <1>5, <1>12, <1>13, <1>14 DEF msg, Answered

LEMMA RemoteUpdateMessages ==
  ASSUME SteadyInv, NEW p \in Proxies, NEW s \in Proxies,
         RemoteRegistryUpdate(p, s)
  PROVE  /\ Single' /\ s # p
         /\ Head(chan[s][p]) \in Answers[p][s]
         /\ Head(chan[s][p]).source_proxy_guid = s
         /\ \A a, b \in Proxies : Requests'[a][b] = Requests[a][b]
         /\ \A a, b \in Proxies : Answers'[a][b] =
              IF a = p /\ b = s THEN {} ELSE Answers[a][b]
<1> DEFINE req == Head(chan[s][p])
<1>0. TypeOK /\ \A a, b \in Proxies : chan[a][b] \in Seq(RegistryCommand)
  BY SteadyTypes
<1>1. /\ chan[s][p] # <<>> /\ req.cmd = RESPONSE /\ chan' = Poll(s, p)
  BY DEF RemoteRegistryUpdate, RESPONSE
<1>2. s # p /\ req \in TrueMessages[s]
  BY <1>0, <1>1, PolledTrue DEF SteadyInv, RegistryInv
<1>3. req.source_proxy_guid = s BY <1>2 DEF TrueMessages
<1>4. /\ OneOfEach(Tail(chan[s][p]))
      /\ Contents(chan[s][p], RESPONSE) = {req}
      /\ Contents(Tail(chan[s][p]), RESPONSE) = {}
      /\ Contents(Tail(chan[s][p]), REQUEST) = Contents(chan[s][p], REQUEST)
  <2>1. REQUEST # RESPONSE BY DEF REQUEST, RESPONSE
  <2>2. OneOfEach(chan[s][p]) BY DEF SteadyInv, Single
  <2> QED BY <1>0, <1>1, <2>1, <2>2, TailContents
<1>5. \A a, b \in Proxies : chan'[a][b] =
        IF a = s /\ b = p THEN Tail(chan[s][p]) ELSE chan[a][b]
  BY <1>0, <1>1, PollResult
<1>6. Single' BY <1>4, <1>5 DEF SteadyInv, Single
<1>7. \A a, b \in Proxies : Requests'[a][b] = Requests[a][b]
  BY <1>4, <1>5 DEF Requests
<1>8. \A a, b \in Proxies : Answers'[a][b] =
        IF a = p /\ b = s THEN {} ELSE Answers[a][b]
  BY <1>4, <1>5 DEF Answers
<1>9. req \in Answers[p][s] BY <1>4 DEF Answers
<1> QED BY <1>2, <1>3, <1>6, <1>7, <1>8, <1>9

(* What a proxy asks for when its exchange is due. *)
LEMMA DueMessages ==
  ASSUME SteadyTiming, SteadyInv, NEW p \in Proxies, Housekeeping(p),
         ~(lastRegistryExchange[p] < ExchangePeriod)
  PROVE  /\ Single'
         /\ \A q \in Proxies : Requests[p][q] = {} /\ Answers[p][q] = {}
         /\ \A a, b \in Proxies : Requests'[a][b] =
              IF a = p /\ b # p THEN {RegistryMessage(REQUEST, p, {})} ELSE Requests[a][b]
         /\ \A a, b \in Proxies : Answers'[a][b] = Answers[a][b]
<1> DEFINE msg == RegistryMessage(REQUEST, p, {})
<1>0. TypeOK /\ \A a, b \in Proxies : chan[a][b] \in Seq(RegistryCommand)
  BY SteadyTypes
<1>1. chan' = Publish(chan, p, proxiesGuids[p], msg)
  BY DEF Housekeeping, RequestRegistryExchange, REQUEST
<1>2. \A q \in Proxies : Requests[p][q] = {} /\ Answers[p][q] = {}
  BY UnderWayIsShort, SteadyTypes, TimingAssumption DEF SteadyTiming
<1>3. msg \in RegistryCommand /\ msg.cmd = REQUEST
  BY TypeOfMessages DEF REQUEST, RegistryMessage
<1> HIDE DEF msg
<1>4. ASSUME NEW q \in Proxies
      PROVE  /\ OneOfEach(Append(chan[p][q], msg))
             /\ Contents(Append(chan[p][q], msg), REQUEST) = {msg}
             /\ Contents(Append(chan[p][q], msg), RESPONSE) = Contents(chan[p][q], RESPONSE)
             /\ Len(chan[p][q]) <= 1
  <2>1. RESPONSE # REQUEST BY DEF REQUEST, RESPONSE
  <2>2. OneOfEach(chan[p][q]) BY DEF SteadyInv, Single
  <2>3. /\ Contents(chan[p][q], msg.cmd) = {} /\ RESPONSE # msg.cmd
        /\ chan[p][q] \in Seq(RegistryCommand)
    BY <1>0, <1>2, <1>3, <2>1 DEF Requests
  <2>4. /\ OneOfEach(Append(chan[p][q], msg))
        /\ Contents(Append(chan[p][q], msg), msg.cmd) = {msg}
        /\ Contents(Append(chan[p][q], msg), RESPONSE) = Contents(chan[p][q], RESPONSE)
        /\ Len(chan[p][q]) <= 1
    <3>1. Joined(chan[p][q], msg, RESPONSE) BY <1>3, <2>2, <2>3, AppendContents
    <3> QED BY <3>1 DEF Joined
  <2> QED BY <1>3, <2>4
<1>5. Published(chan', chan, p, proxiesGuids[p], msg)
  BY <1>0, <1>1, <1>3, PublishResult DEF TypeOK
<1>6. ASSUME NEW a \in Proxies, NEW b \in Proxies
      PROVE  chan'[a][b] = IF a = p /\ b # p THEN Append(chan[p][b], msg) ELSE chan[a][b]
  <2>1. b \in Receivers(chan, p, proxiesGuids[p]) <=> b # p
    <3>1. b # p => b \in proxiesGuids[p] /\ up[b] /\ p \in heard[b]
      BY DEF SteadyInv, Meshed
    <3>2. Len(chan[p][b]) <= 1 BY <1>4
    <3>3. Len(chan[p][b]) \in Nat BY <1>0, LenProperties
    <3>4. Len(chan[p][b]) < HWM BY <3>2, <3>3, TimingAssumption DEF SteadyTiming
    <3>5. p \notin heard[p] BY DEF SteadyInv, RegistryInv, DeafToSelf
    <3> QED BY <3>1, <3>4, <3>5 DEF Receivers
  <2> QED BY <1>5, <2>1 DEF Published
<1>7. Single' BY <1>4, <1>6 DEF SteadyInv, Single
<1>8. \A a, b \in Proxies : Requests'[a][b] =
        IF a = p /\ b # p THEN {msg} ELSE Requests[a][b]
  BY <1>4, <1>6 DEF Requests
<1>9. \A a, b \in Proxies : Answers'[a][b] = Answers[a][b]
  BY <1>4, <1>6 DEF Answers
<1> QED BY <1>2, <1>7, <1>8, <1>9 DEF msg
----------------------------------------------------------------------------
(* The steps keep the invariant *)

LEMMA SteadyRegisterKeeps ==
  ASSUME SteadyInv, NEW p \in Proxies, NEW m \in Methods, RegisterInvoke(p, m)
  PROVE  SteadyInv'
<1> USE DEF netVars
<1>1. RegistryInv' BY RegisterInvokeKeeps DEF SteadyInv
<1>2. UNCHANGED <<up, heard, proxiesGuids, remoteInvokeMethods,
                  lastRegistryExchange, chan, looped>>
  BY DEF RegisterInvoke
<1>3. Requests' = Requests /\ Answers' = Answers
  BY <1>2 DEF Requests, Answers
<1>4. /\ Meshed' /\ Single' /\ Prompt' /\ OneStage' /\ RequestsRecent' /\ AnswersRecent'
  BY <1>2, <1>3 DEF SteadyInv, Meshed, Single, Prompt, OneStage, RequestsRecent,
                    AnswersRecent
<1>5. ASSUME NEW q \in Proxies, NEW k \in Methods, NEW n \in Nat,
             localInvokeMethods'[q][k] # None, heldFor'[q][k] > n
      PROVE  localInvokeMethods[q][k] # None /\ heldFor[q][k] > n
  <2>1. CASE q = p /\ k = m /\ localInvokeMethods[p][m] = None
    <3>1. heldFor'[q][k] = 0
      BY <2>1, SteadyTypes DEF RegisterInvoke, TypeOK
    <3> QED BY <1>5, <3>1
  <2>2. CASE ~(q = p /\ k = m /\ localInvokeMethods[p][m] = None)
    <3>1. heldFor'[q][k] = heldFor[q][k]
      BY <2>2, SteadyTypes DEF RegisterInvoke, TypeOK
    <3>2. localInvokeMethods[q][k] # None
      BY <1>5, <2>2, SteadyTypes DEF RegisterInvoke, TypeOK
    <3> QED BY <1>5, <3>1, <3>2
  <2> QED BY <2>1, <2>2
<1>6. \A q \in Proxies : /\ lastRegistryExchange[q] \in Nat
                         /\ lastRegistryExchange[q] + ExchangePeriod \in Nat
  BY SteadyTypes, TimingAssumption
<1>7. AnswersComplete'
  BY <1>2, <1>3, <1>5, <1>6 DEF SteadyInv, AnswersComplete
<1>8. AfterExchange'
  BY <1>2, <1>3, <1>5, <1>6 DEF SteadyInv, AfterExchange, RefreshedWithin
<1>9. DuringExchange'
  BY <1>2, <1>5, <1>6 DEF SteadyInv, DuringExchange, RefreshedWithin
<1> QED BY <1>1, <1>4, <1>7, <1>8, <1>9 DEF SteadyInv

LEMMA SteadyResponderKeeps ==
  ASSUME SteadyTiming, SteadyInv, NEW p \in Proxies, NEW s \in Proxies,
         RegistryExchangeResponder(p, s)
  PROVE  SteadyInv'
<1> USE DEF netVars, historyVars
<1> DEFINE msg == RegistryMessage(RESPONSE, p, Held(p))
<1>1. RegistryInv' BY ResponderKeeps DEF SteadyInv
<1>2. UNCHANGED <<up, heard, proxiesGuids, localInvokeMethods, remoteInvokeMethods,
                  lastRegistryExchange, looped, heldFor>>
  BY DEF RegistryExchangeResponder
<1>3. /\ Single' /\ s # p /\ Requests[s][p] # {}
      /\ \A a, b \in Proxies : Requests'[a][b] =
           IF a = s /\ b = p THEN {} ELSE Requests[a][b]
      /\ \A a, b \in Proxies : Answers'[a][b] =
           IF a = s /\ b = p THEN {msg} ELSE Answers[a][b]
  <2>1. Answered(p, s) BY ResponderMessages
  <2> QED BY <2>1 DEF Answered
<1>4. msg.age = 0 /\ msg.reg_entry = Held(p) BY DEF RegistryMessage
<1> HIDE DEF msg
<1>5. lastRegistryExchange[s] \in Nat /\ lastRegistryExchange[s] <= MaxDelay
  <2>1. PICK x \in Requests[s][p] : TRUE BY <1>3
  <2>2. x.age = lastRegistryExchange[s] BY DEF SteadyInv, RequestsRecent
  <2>3. x.age \in 0 .. MaxDelay BY SteadyTypes
  <2> QED BY <2>2, <2>3, TimingAssumption
<1>6. Meshed' /\ Prompt' BY <1>2 DEF SteadyInv, Meshed, Prompt
<1>7. OneStage' /\ RequestsRecent'
  <2>1. OneStage' BY <1>3 DEF SteadyInv, OneStage
  <2>2. \A a, b \in Proxies : Requests'[a][b] \subseteq Requests[a][b] BY <1>3
  <2>3. RequestsRecent' BY <1>2, <2>2 DEF SteadyInv, RequestsRecent
  <2> QED BY <2>1, <2>3
<1>8. AnswersRecent'
  <2> SUFFICES ASSUME NEW a \in Proxies, NEW b \in Proxies, NEW x \in Answers'[a][b]
               PROVE  /\ x.age <= lastRegistryExchange[a]
                      /\ lastRegistryExchange[a] <= x.age + MaxDelay
    BY <1>2 DEF AnswersRecent
  <2>1. CASE a = s /\ b = p
    <3>1. x.age = 0 BY <1>3, <1>4, <2>1
    <3> QED BY <1>5, <2>1, <3>1, TimingAssumption
  <2>2. CASE ~(a = s /\ b = p)
    <3>1. x \in Answers[a][b] BY <1>3, <2>2
    <3> QED BY <3>1 DEF SteadyInv, AnswersRecent
  <2> QED BY <2>1, <2>2
<1>9. AnswersComplete'
  BY <1>2, <1>3, <1>4 DEF SteadyInv, AnswersComplete, Held
<1>10. AfterExchange'
  <2> SUFFICES ASSUME NEW a \in Proxies, NEW b \in Proxies, NEW m \in Methods, a # b,
                      localInvokeMethods[b][m] # None,
                      Requests'[a][b] = {}, Answers'[a][b] = {},
                      heldFor[b][m] > lastRegistryExchange[a]
               PROVE  RefreshedWithin(a, m, lastRegistryExchange[a])
    BY <1>2 DEF AfterExchange, RefreshedWithin
  <2>1. ~(a = s /\ b = p) BY <1>3
  <2>2. Requests[a][b] = {} /\ Answers[a][b] = {} BY <1>3, <2>1
  <2> QED BY <2>2 DEF SteadyInv, AfterExchange
<1>11. DuringExchange'
  BY <1>2 DEF SteadyInv, DuringExchange, RefreshedWithin
<1> QED BY <1>1, <1>3, <1>6, <1>7, <1>8, <1>9, <1>10, <1>11 DEF SteadyInv

LEMMA SteadyUpdateKeeps ==
  ASSUME SteadyInv, NEW p \in Proxies, NEW s \in Proxies,
         RemoteRegistryUpdate(p, s)
  PROVE  SteadyInv'
<1> USE DEF netVars, historyVars
<1> DEFINE req == Head(chan[s][p])
<1>1. RegistryInv' BY RemoteUpdateKeeps DEF SteadyInv
<1>2. UNCHANGED <<up, heard, proxiesGuids, localInvokeMethods,
                  lastRegistryExchange, looped, heldFor>>
  BY DEF RemoteRegistryUpdate
<1>3. /\ Single' /\ s # p /\ req \in Answers[p][s]
      /\ \A a, b \in Proxies : Requests'[a][b] = Requests[a][b]
      /\ \A a, b \in Proxies : Answers'[a][b] =
           IF a = p /\ b = s THEN {} ELSE Answers[a][b]
  BY RemoteUpdateMessages
<1>4. ASSUME NEW q \in Proxies, NEW m \in Methods
      PROVE  /\ q = p /\ m \in req.reg_entry =>
                  /\ remoteInvokeMethods'[q][m] # None
                  /\ remoteInvokeMethods'[q][m].lastCheckTime = 0
             /\ ~(q = p /\ m \in req.reg_entry) =>
                  remoteInvokeMethods'[q][m] = remoteInvokeMethods[q][m]
  <2> DEFINE guid == IF remoteInvokeMethods[p][m] = None THEN req.source_proxy_guid
                     ELSE remoteInvokeMethods[p][m].proxyGuid
  <2>0. TypeOK BY SteadyTypes
  <2>1. remoteInvokeMethods' = [remoteInvokeMethods EXCEPT ![p] =
            [k \in Methods |->
               IF k \notin req.reg_entry THEN @[k]
               ELSE [proxyGuid |-> IF @[k] = None THEN req.source_proxy_guid
                                   ELSE @[k].proxyGuid,
                     lastCheckTime |-> 0]]]
    BY DEF RemoteRegistryUpdate
  <2>2. q = p /\ m \in req.reg_entry =>
          remoteInvokeMethods'[q][m] = [proxyGuid |-> guid, lastCheckTime |-> 0]
    BY <2>0, <2>1 DEF TypeOK
  <2>3. guid \in Proxies
    <3>1. req.source_proxy_guid = s BY RemoteUpdateMessages
    <3>2. remoteInvokeMethods[p][m] \in Route \cup {None} BY <2>0 DEF TypeOK
    <3> QED BY <3>1, <3>2 DEF Route
  <2>4. [proxyGuid |-> guid, lastCheckTime |-> 0] # None
    <3> HIDE DEF guid
    <3> QED BY <2>3, TimingAssumption DEF Route
  <2>5. ~(q = p /\ m \in req.reg_entry) =>
          remoteInvokeMethods'[q][m] = remoteInvokeMethods[q][m]
    BY <2>0, <2>1 DEF TypeOK
  <2> HIDE DEF guid
  <2> QED BY <2>2, <2>4, <2>5
<1> HIDE DEF req
<1>5. Meshed' /\ Prompt' BY <1>2 DEF SteadyInv, Meshed, Prompt
<1>6. OneStage' /\ RequestsRecent' /\ AnswersRecent' /\ AnswersComplete'
  <2>1. \A a, b \in Proxies : Answers'[a][b] \subseteq Answers[a][b]
    BY <1>3
  <2>2. OneStage' BY <1>3, <2>1 DEF SteadyInv, OneStage
  <2>3. RequestsRecent' BY <1>2, <1>3 DEF SteadyInv, RequestsRecent
  <2>4. AnswersRecent' BY <1>2, <2>1 DEF SteadyInv, AnswersRecent
  <2>5. AnswersComplete' BY <1>2, <2>1 DEF SteadyInv, AnswersComplete
  <2> QED BY <2>2, <2>3, <2>4, <2>5
<1>7. ASSUME NEW q \in Proxies, NEW m \in Methods, NEW n \in Nat,
             RefreshedWithin(q, m, n)
      PROVE  RefreshedWithin(q, m, n)'
  BY <1>4, <1>7 DEF RefreshedWithin
<1>8. \A q \in Proxies : /\ lastRegistryExchange[q] \in Nat
                         /\ lastRegistryExchange[q] + ExchangePeriod \in Nat
  BY SteadyTypes, TimingAssumption
<1>9. AfterExchange'
  <2> SUFFICES ASSUME NEW a \in Proxies, NEW b \in Proxies, NEW m \in Methods, a # b,
                      localInvokeMethods[b][m] # None,
                      Requests'[a][b] = {}, Answers'[a][b] = {},
                      heldFor[b][m] > lastRegistryExchange[a]
               PROVE  /\ remoteInvokeMethods'[a][m] # None
                      /\ remoteInvokeMethods'[a][m].lastCheckTime <= lastRegistryExchange[a]
    BY <1>2 DEF AfterExchange, RefreshedWithin
  <2>1. CASE a = p /\ b = s
    <3>1. m \in req.reg_entry
      BY <1>3, <2>1 DEF SteadyInv, AnswersComplete
    <3> QED BY <1>4, <1>8, <2>1, <3>1
  <2>2. CASE ~(a = p /\ b = s)
    <3>1. Requests[a][b] = {} /\ Answers[a][b] = {} BY <1>3, <2>2
    <3>2. RefreshedWithin(a, m, lastRegistryExchange[a])
      BY <3>1 DEF SteadyInv, AfterExchange
    <3> QED BY <1>7, <1>8, <3>2 DEF RefreshedWithin
  <2> QED BY <2>1, <2>2
<1>10. DuringExchange'
  <2> SUFFICES ASSUME NEW a \in Proxies, NEW b \in Proxies, NEW m \in Methods, a # b,
                      localInvokeMethods[b][m] # None,
                      heldFor[b][m] > lastRegistryExchange[a] + ExchangePeriod
               PROVE  /\ remoteInvokeMethods'[a][m] # None
                      /\ remoteInvokeMethods'[a][m].lastCheckTime <=
                           lastRegistryExchange[a] + ExchangePeriod
    BY <1>2 DEF DuringExchange, RefreshedWithin
  <2>1. RefreshedWithin(a, m, lastRegistryExchange[a] + ExchangePeriod)
    BY DEF SteadyInv, DuringExchange
  <2> QED BY <1>7, <1>8, <2>1 DEF RefreshedWithin
<1> QED BY <1>1, <1>3, <1>5, <1>6, <1>9, <1>10 DEF SteadyInv

(* The health checks: what survives them, and that local entries only go. *)
LEMMA HealthChecks ==
  ASSUME SteadyInv, NEW p \in Proxies, Housekeeping(p)
  PROVE  /\ \A q \in Proxies, m \in Methods :
              localInvokeMethods'[q][m] # None => localInvokeMethods[q][m] # None
         /\ \A q \in Proxies, m \in Methods : q # p =>
              remoteInvokeMethods'[q][m] = remoteInvokeMethods[q][m]
         /\ \A m \in Methods :
              /\ remoteInvokeMethods[p][m] # None
              /\ remoteInvokeMethods[p][m].lastCheckTime <= RemoteTTL
              => remoteInvokeMethods'[p][m] = remoteInvokeMethods[p][m]
<1>0. TypeOK BY SteadyTypes
<1>1. \A q \in Proxies, m \in Methods :
        localInvokeMethods'[q][m] # None => localInvokeMethods[q][m] # None
  BY <1>0 DEF Housekeeping, LocalRegistryHealthCheck, TypeOK
<1>2. \A q \in Proxies, m \in Methods : q # p =>
        remoteInvokeMethods'[q][m] = remoteInvokeMethods[q][m]
  BY <1>0 DEF Housekeeping, RemoteRegistryHealthCheck, TypeOK
<1>3. ASSUME NEW m \in Methods, remoteInvokeMethods[p][m] # None,
             remoteInvokeMethods[p][m].lastCheckTime <= RemoteTTL
      PROVE  remoteInvokeMethods'[p][m] = remoteInvokeMethods[p][m]
  <2>1. remoteInvokeMethods[p][m].lastCheckTime \in 0 .. RemoteTTL + 1
    BY <1>3, SteadyTypes
  <2>2. ~(remoteInvokeMethods[p][m].lastCheckTime > RemoteTTL)
    BY <1>3, <2>1, TimingAssumption
  <2> QED BY <1>0, <2>2 DEF Housekeeping, RemoteRegistryHealthCheck, TypeOK
<1> QED BY <1>1, <1>2, <1>3

LEMMA SteadyHousekeepingKeeps ==
  ASSUME SteadyTiming, SteadyInv, NEW p \in Proxies, Housekeeping(p)
  PROVE  SteadyInv'
<1> USE DEF netVars, historyVars
<1>0. \A q \in Proxies : lastRegistryExchange[q] \in 0 .. ExchangePeriod
  BY SteadyTypes
<1>1. RegistryInv' BY HousekeepingKeeps DEF SteadyInv
<1>2. UNCHANGED <<up, heard, proxiesGuids, heldFor>> BY DEF Housekeeping
<1>3. /\ \A q \in Proxies, m \in Methods :
           localInvokeMethods'[q][m] # None => localInvokeMethods[q][m] # None
      /\ \A q \in Proxies, m \in Methods : q # p =>
           remoteInvokeMethods'[q][m] = remoteInvokeMethods[q][m]
      /\ \A m \in Methods :
           /\ remoteInvokeMethods[p][m] # None
           /\ remoteInvokeMethods[p][m].lastCheckTime <= RemoteTTL
           => remoteInvokeMethods'[p][m] = remoteInvokeMethods[p][m]
  BY HealthChecks
<1>4. Meshed' BY <1>2 DEF SteadyInv, Meshed
<1>5. \A q \in Proxies : q # p => looped'[q] = looped[q]
  BY SteadyTypes DEF Housekeeping, TypeOK
<1>6. ASSUME NEW q \in Proxies, NEW m \in Methods, NEW n \in Nat,
             n <= RemoteTTL \/ q # p, RefreshedWithin(q, m, n)
      PROVE  RefreshedWithin(q, m, n)'
  <2>1. remoteInvokeMethods[q][m].lastCheckTime \in 0 .. RemoteTTL + 1
    BY <1>6, SteadyTypes DEF RefreshedWithin
  <2>2. remoteInvokeMethods'[q][m] = remoteInvokeMethods[q][m]
    BY <1>3, <1>6, <2>1, TimingAssumption DEF RefreshedWithin
  <2> QED BY <1>6, <2>2 DEF RefreshedWithin
<1>7. CASE lastRegistryExchange[p] < ExchangePeriod
  <2>1. UNCHANGED <<chan, lastRegistryExchange>>
    BY <1>7 DEF Housekeeping, RequestRegistryExchange
  <2>2. Requests' = Requests /\ Answers' = Answers
    BY <2>1 DEF Requests, Answers
  <2>3. Single' /\ OneStage' /\ RequestsRecent' /\ AnswersRecent'
    BY <2>1, <2>2 DEF SteadyInv, Single, OneStage, RequestsRecent, AnswersRecent
  <2>4. Prompt' BY <1>5, <1>7, <2>1 DEF SteadyInv, Prompt
  <2>5. AnswersComplete'
    BY <1>2, <1>3, <2>1, <2>2 DEF SteadyInv, AnswersComplete
  <2>6. ASSUME NEW a \in Proxies, NEW b \in Proxies, NEW m \in Methods, a # b,
               localInvokeMethods[b][m] # None,
               Requests[a][b] = {}, Answers[a][b] = {},
               heldFor[b][m] > lastRegistryExchange[a]
        PROVE  /\ remoteInvokeMethods'[a][m] # None
               /\ remoteInvokeMethods'[a][m].lastCheckTime <= lastRegistryExchange[a]
    <3>1. RefreshedWithin(a, m, lastRegistryExchange[a])
      BY <2>6 DEF SteadyInv, AfterExchange
    <3>2. lastRegistryExchange[a] \in Nat /\ lastRegistryExchange[a] <= RemoteTTL
      BY <1>0, TimingAssumption DEF SteadyTiming
    <3> QED BY <1>6, <3>1, <3>2 DEF RefreshedWithin
  <2>7. AfterExchange'
    BY <1>2, <1>3, <2>1, <2>2, <2>6 DEF AfterExchange, RefreshedWithin
  <2>8. DuringExchange'
    <3> SUFFICES ASSUME NEW a \in Proxies, NEW b \in Proxies, NEW m \in Methods, a # b,
                        localInvokeMethods[b][m] # None,
                        heldFor[b][m] > lastRegistryExchange[a] + ExchangePeriod
                 PROVE  /\ remoteInvokeMethods'[a][m] # None
                        /\ remoteInvokeMethods'[a][m].lastCheckTime <=
                             lastRegistryExchange[a] + ExchangePeriod
      BY <1>2, <1>3, <2>1 DEF DuringExchange, RefreshedWithin
    <3>0. heldFor[b][m] \in 0 .. LearnLimit + 1 BY SteadyTypes
    <3>1. CASE Requests[a][b] # {} \/ Answers[a][b] # {}
      <4>1. RefreshedWithin(a, m, lastRegistryExchange[a] + ExchangePeriod)
        BY DEF SteadyInv, DuringExchange
      <4>2. /\ lastRegistryExchange[a] + ExchangePeriod \in Nat
            /\ lastRegistryExchange[a] + ExchangePeriod <= RemoteTTL
        BY <1>0, <3>1, RefreshedSurvives, TimingAssumption
      <4> QED BY <1>6, <4>1, <4>2 DEF RefreshedWithin
    <3>2. CASE Requests[a][b] = {} /\ Answers[a][b] = {}
      <4>1. heldFor[b][m] > lastRegistryExchange[a]
        BY <1>0, <3>0, TimingAssumption DEF LearnLimit
      <4>2. /\ remoteInvokeMethods'[a][m] # None
            /\ remoteInvokeMethods'[a][m].lastCheckTime <= lastRegistryExchange[a]
        BY <2>6, <3>2, <4>1
      <4>3. remoteInvokeMethods'[a][m].lastCheckTime \in 0 .. RemoteTTL + 1
        <5>1. TypeOK' BY <1>1 DEF RegistryInv
        <5> QED BY <4>2, <5>1 DEF TypeOK, Route
      <4> QED BY <1>0, <4>2, <4>3, TimingAssumption
    <3> QED BY <3>1, <3>2
  <2> QED BY <1>1, <1>4, <2>3, <2>4, <2>5, <2>7, <2>8 DEF SteadyInv
<1>8. CASE ~(lastRegistryExchange[p] < ExchangePeriod)
  <2> DEFINE msg == RegistryMessage(REQUEST, p, {})
  <2>0. lastRegistryExchange[p] = ExchangePeriod BY <1>0, <1>8, TimingAssumption
  <2>1. lastRegistryExchange' = [lastRegistryExchange EXCEPT ![p] = 0]
    BY <1>8 DEF Housekeeping, RequestRegistryExchange
  <2>2. /\ lastRegistryExchange'[p] = 0
        /\ \A q \in Proxies : q # p => lastRegistryExchange'[q] = lastRegistryExchange[q]
    BY <2>1, SteadyTypes DEF TypeOK
  <2>3. /\ Single'
        /\ \A q \in Proxies : Requests[p][q] = {} /\ Answers[p][q] = {}
        /\ \A a, b \in Proxies : Requests'[a][b] =
             IF a = p /\ b # p THEN {msg} ELSE Requests[a][b]
        /\ \A a, b \in Proxies : Answers'[a][b] = Answers[a][b]
    BY <1>8, DueMessages
  <2>4. msg.age = 0 BY DEF RegistryMessage
  <2> HIDE DEF msg
  <2>5. OneStage' BY <2>3 DEF SteadyInv, OneStage
  <2>6. RequestsRecent'
    <3> SUFFICES ASSUME NEW a \in Proxies, NEW b \in Proxies, NEW x \in Requests'[a][b]
                 PROVE  x.age = lastRegistryExchange'[a]
      BY DEF RequestsRecent
    <3>1. CASE a = p BY <2>2, <2>3, <2>4, <3>1
    <3>2. CASE a # p BY <2>2, <2>3, <3>2 DEF SteadyInv, RequestsRecent
    <3> QED BY <3>1, <3>2
  <2>7. AnswersRecent' /\ AnswersComplete'
    <3>1. \A a, b \in Proxies : Answers'[a][b] # {} =>
            /\ lastRegistryExchange'[a] = lastRegistryExchange[a]
            /\ Answers'[a][b] = Answers[a][b]
      BY <2>2, <2>3
    <3>2. AnswersRecent' BY <3>1 DEF SteadyInv, AnswersRecent
    <3>3. AnswersComplete' BY <1>2, <1>3, <3>1 DEF SteadyInv, AnswersComplete
    <3> QED BY <3>2, <3>3
  <2>8. Prompt'
    <3>1. 0 < ExchangePeriod BY TimingAssumption DEF SteadyTiming
    <3> QED BY <1>5, <2>2, <3>1 DEF SteadyInv, Prompt
  <2>9. AfterExchange'
    <3> SUFFICES ASSUME NEW a \in Proxies, NEW b \in Proxies, NEW m \in Methods, a # b,
                        localInvokeMethods[b][m] # None,
                        Requests'[a][b] = {}, Answers'[a][b] = {},
                        heldFor[b][m] > lastRegistryExchange'[a]
                 PROVE  /\ remoteInvokeMethods'[a][m] # None
                        /\ remoteInvokeMethods'[a][m].lastCheckTime <=
                             lastRegistryExchange'[a]
      BY <1>2, <1>3 DEF AfterExchange, RefreshedWithin
    <3>1. a # p BY <2>3
    <3>2. /\ Requests[a][b] = {} /\ Answers[a][b] = {}
          /\ lastRegistryExchange'[a] = lastRegistryExchange[a]
      BY <2>2, <2>3, <3>1
    <3>3. RefreshedWithin(a, m, lastRegistryExchange[a])
      BY <3>2 DEF SteadyInv, AfterExchange
    <3> QED BY <1>3, <3>1, <3>2, <3>3 DEF RefreshedWithin
  <2>10. DuringExchange'
    <3> SUFFICES ASSUME NEW a \in Proxies, NEW b \in Proxies, NEW m \in Methods, a # b,
                        localInvokeMethods[b][m] # None,
                        heldFor[b][m] > lastRegistryExchange'[a] + ExchangePeriod
                 PROVE  /\ remoteInvokeMethods'[a][m] # None
                        /\ remoteInvokeMethods'[a][m].lastCheckTime <=
                             lastRegistryExchange'[a] + ExchangePeriod
      BY <1>2, <1>3 DEF DuringExchange, RefreshedWithin
    <3>1. CASE a # p
      <4>1. RefreshedWithin(a, m, lastRegistryExchange[a] + ExchangePeriod)
        BY <2>2, <3>1 DEF SteadyInv, DuringExchange
      <4> QED BY <1>3, <2>2, <3>1, <4>1 DEF RefreshedWithin
    <3>2. CASE a = p
      <4>1. lastRegistryExchange'[a] + ExchangePeriod = ExchangePeriod
        BY <2>2, <3>2, TimingAssumption
      <4>2. heldFor[b][m] > lastRegistryExchange[a] BY <2>0, <3>2, <4>1
      <4>3. RefreshedWithin(a, m, ExchangePeriod)
        BY <2>0, <2>3, <3>2, <4>2 DEF SteadyInv, AfterExchange
      <4>4. ExchangePeriod \in Nat /\ ExchangePeriod <= RemoteTTL
        BY TimingAssumption DEF SteadyTiming
      <4>5. RefreshedWithin(a, m, ExchangePeriod)' BY <1>6, <4>3, <4>4
      <4> QED BY <4>1, <4>5 DEF RefreshedWithin
    <3> QED BY <3>1, <3>2
  <2> QED BY <1>1, <1>4, <2>3, <2>5, <2>6, <2>7, <2>8, <2>9, <2>10 DEF SteadyInv
<1> QED BY <1>7, <1>8

LEMMA SteadyTickKeeps ==
  ASSUME SteadyInv, Tick
  PROVE  SteadyInv'
<1> USE DEF netVars
<1>0. TypeOK BY SteadyTypes
<1>1. RegistryInv' BY TickKeeps DEF SteadyInv
<1>2. UNCHANGED <<up, heard, proxiesGuids>> /\ \A p \in Proxies : ~looped'[p]
  BY DEF Tick
<1>3. ASSUME NEW p \in Proxies
      PROVE  /\ lastRegistryExchange[p] \in Nat
             /\ lastRegistryExchange'[p] = lastRegistryExchange[p] + 1
  <2>1. lastRegistryExchange[p] \in 0 .. ExchangePeriod BY SteadyTypes
  <2>2. lastRegistryExchange[p] < ExchangePeriod
    BY DEF Tick, SteadyInv, Meshed, Prompt
  <2> QED BY <2>1, <2>2, TimingAssumption DEF Tick, Older
<1>4. ASSUME NEW q \in Proxies, NEW m \in Methods, NEW n \in Nat,
             localInvokeMethods'[q][m] # None, heldFor'[q][m] > n + 1
      PROVE  localInvokeMethods[q][m] # None /\ heldFor[q][m] > n
  <2>1. heldFor[q][m] \in 0 .. LearnLimit + 1 BY SteadyTypes
  <2>2. heldFor'[q][m] = Older(heldFor[q][m], LearnLimit + 1) BY DEF Tick
  <2>3. LearnLimit \in Nat BY TimingAssumption DEF LearnLimit
  <2>4. heldFor[q][m] > n BY <1>4, <2>1, <2>2, <2>3 DEF Older
  <2> QED BY <1>4, <2>4 DEF Tick
<1>5. ASSUME NEW q \in Proxies, NEW m \in Methods, NEW n \in Nat,
             RefreshedWithin(q, m, n)
      PROVE  RefreshedWithin(q, m, n + 1)'
  <2> DEFINE r == remoteInvokeMethods[q][m]
  <2>1. r # None /\ r.lastCheckTime <= n BY <1>5 DEF RefreshedWithin
  <2>2. /\ r = [proxyGuid |-> r.proxyGuid, lastCheckTime |-> r.lastCheckTime]
        /\ r.proxyGuid \in Proxies /\ r.lastCheckTime \in 0 .. RemoteTTL + 1
    BY <2>1, SteadyTypes DEF Route
  <2>3. remoteInvokeMethods'[q][m] =
          [proxyGuid |-> r.proxyGuid, lastCheckTime |-> Older(r.lastCheckTime, RemoteTTL + 1)]
    <3>1. remoteInvokeMethods'[q][m] =
            IF r = None THEN None
            ELSE [r EXCEPT !.lastCheckTime = Older(@, RemoteTTL + 1)]
      BY DEF Tick
    <3> QED BY <2>1, <2>2, <3>1
  <2>4. /\ Older(r.lastCheckTime, RemoteTTL + 1) \in 0 .. RemoteTTL + 1
        /\ Older(r.lastCheckTime, RemoteTTL + 1) <= n + 1
    BY <2>1, <2>2, TimingAssumption DEF Older
  <2>5. remoteInvokeMethods'[q][m] \in Route BY <2>2, <2>3, <2>4 DEF Route
  <2>6. remoteInvokeMethods'[q][m] # None BY <2>5, TimingAssumption
  <2>7. remoteInvokeMethods'[q][m].lastCheckTime <= n + 1 BY <2>3, <2>4
  <2> QED BY <2>6, <2>7 DEF RefreshedWithin
<1>6. Meshed' /\ Prompt' BY <1>2 DEF SteadyInv, Meshed, Prompt
<1>7. Single' BY <1>0, TickContents DEF SteadyInv, Single
<1>8. ASSUME NEW p \in Proxies, NEW q \in Proxies
      PROVE  /\ \A x \in Requests'[p][q] : \E y \in Requests[p][q] : x.age = y.age + 1
             /\ \A x \in Answers'[p][q] : \E y \in Answers[p][q] :
                  x.age = y.age + 1 /\ x.reg_entry = y.reg_entry
             /\ Requests[p][q] # {} => Requests'[p][q] # {}
             /\ Answers[p][q] # {} => Answers'[p][q] # {}
  <2>1. /\ SecondLater(Contents(chan[p][q], REQUEST), Contents(chan'[p][q], REQUEST))
        /\ SecondLater(Contents(chan[q][p], RESPONSE), Contents(chan'[q][p], RESPONSE))
    BY <1>0, TickContents
  <2>2. SecondLater(Requests[p][q], Requests'[p][q]) /\ SecondLater(Answers[p][q], Answers'[p][q])
    BY <2>1 DEF Requests, Answers
  <2> QED BY <2>2 DEF SecondLater
<1>9. OneStage' BY <1>8 DEF SteadyInv, OneStage
<1>10. RequestsRecent'
  <2> SUFFICES ASSUME NEW p \in Proxies, NEW q \in Proxies, NEW x \in Requests'[p][q]
               PROVE  x.age = lastRegistryExchange'[p]
    BY DEF RequestsRecent
  <2>1. PICK y \in Requests[p][q] : x.age = y.age + 1 BY <1>8
  <2>2. y.age = lastRegistryExchange[p] BY DEF SteadyInv, RequestsRecent
  <2> QED BY <1>3, <2>1, <2>2
<1>11. AnswersRecent'
  <2> SUFFICES ASSUME NEW p \in Proxies, NEW q \in Proxies, NEW x \in Answers'[p][q]
               PROVE  /\ x.age <= lastRegistryExchange'[p]
                      /\ lastRegistryExchange'[p] <= x.age + MaxDelay
    BY DEF AnswersRecent
  <2>1. PICK y \in Answers[p][q] : x.age = y.age + 1 BY <1>8
  <2>2. /\ y.age <= lastRegistryExchange[p]
        /\ lastRegistryExchange[p] <= y.age + MaxDelay
    BY DEF SteadyInv, AnswersRecent
  <2>3. y.age \in 0 .. MaxDelay BY SteadyTypes
  <2> QED BY <1>3, <2>1, <2>2, <2>3, TimingAssumption
<1>12. AnswersComplete'
  <2> SUFFICES ASSUME NEW p \in Proxies, NEW q \in Proxies, NEW m \in Methods,
                      NEW x \in Answers'[p][q],
                      localInvokeMethods'[q][m] # None,
                      heldFor'[q][m] > lastRegistryExchange'[p]
               PROVE  m \in x.reg_entry
    BY DEF AnswersComplete
  <2>1. PICK y \in Answers[p][q] : x.reg_entry = y.reg_entry BY <1>8
  <2>2. localInvokeMethods[q][m] # None /\ heldFor[q][m] > lastRegistryExchange[p]
    BY <1>3, <1>4
  <2> QED BY <2>1, <2>2 DEF SteadyInv, AnswersComplete
<1>13. AfterExchange'
  <2> SUFFICES ASSUME NEW p \in Proxies, NEW q \in Proxies, NEW m \in Methods, p # q,
                      localInvokeMethods'[q][m] # None,
                      Requests'[p][q] = {}, Answers'[p][q] = {},
                      heldFor'[q][m] > lastRegistryExchange'[p]
               PROVE  /\ remoteInvokeMethods'[p][m] # None
                      /\ remoteInvokeMethods'[p][m].lastCheckTime <= lastRegistryExchange'[p]
    BY DEF AfterExchange, RefreshedWithin
  <2>1. localInvokeMethods[q][m] # None /\ heldFor[q][m] > lastRegistryExchange[p]
    BY <1>3, <1>4
  <2>2. RefreshedWithin(p, m, lastRegistryExchange[p])
    BY <1>8, <2>1 DEF SteadyInv, AfterExchange
  <2> QED BY <1>3, <1>5, <2>2 DEF RefreshedWithin
<1>14. DuringExchange'
  <2> SUFFICES ASSUME NEW p \in Proxies, NEW q \in Proxies, NEW m \in Methods, p # q,
                      localInvokeMethods'[q][m] # None,
                      heldFor'[q][m] > lastRegistryExchange'[p] + ExchangePeriod
               PROVE  /\ remoteInvokeMethods'[p][m] # None
                      /\ remoteInvokeMethods'[p][m].lastCheckTime <=
                           lastRegistryExchange'[p] + ExchangePeriod
    BY DEF DuringExchange, RefreshedWithin
  <2>1. PICK n \in Nat : n = lastRegistryExchange[p] + ExchangePeriod
    BY <1>3, TimingAssumption
  <2>2. lastRegistryExchange'[p] + ExchangePeriod = n + 1
    BY <1>3, <2>1, TimingAssumption
  <2>3. localInvokeMethods[q][m] # None /\ heldFor[q][m] > n BY <1>4, <2>2
  <2>4. RefreshedWithin(p, m, n) BY <2>1, <2>3 DEF SteadyInv, DuringExchange
  <2>5. RefreshedWithin(p, m, n + 1)' BY <1>5, <2>4
  <2> QED BY <2>2, <2>5 DEF RefreshedWithin
<1> QED BY <1>1, <1>6, <1>7, <1>9, <1>10, <1>11, <1>12, <1>13, <1>14 DEF SteadyInv
----------------------------------------------------------------------------
LEMMA SteadyInitKeeps ==
  ASSUME SteadyInit
  PROVE  SteadyInv
<1> USE DEF SteadyInit, EmptyRegistries
<1>0. \A S : <<>> \in Seq(S) BY EmptySeq
<1>1. TypeOK BY <1>0, TimingAssumption DEF TypeOK, LearnLimit, StaleLimit
<1>2. QueuesTrue(chan) BY <1>0, <1>1 DEF QueuesTrue, TypeOK
<1>3. DeafToSelf /\ HeldAdvertised /\ LocalFresh /\ RemoteFresh
  BY DEF DeafToSelf, HeldAdvertised, Held, LocalFresh, RemoteFresh
<1>4. RegistryInv BY <1>1, <1>2, <1>3 DEF RegistryInv
<1>5. \A s, d \in Proxies : Len(chan[s][d]) = 0 BY EmptySeq
<1>6. \A p, q \in Proxies : Requests[p][q] = {} /\ Answers[p][q] = {}
  BY <1>5 DEF Requests, Answers, Contents
<1>7. Single BY <1>5 DEF Single, OneOfEach
<1>8. Meshed /\ Prompt BY DEF Meshed, Prompt
<1>9. OneStage /\ RequestsRecent /\ AnswersRecent /\ AnswersComplete
  BY <1>6 DEF OneStage, RequestsRecent, AnswersRecent, AnswersComplete
<1>10. AfterExchange /\ DuringExchange BY DEF AfterExchange, DuringExchange
<1> QED BY <1>4, <1>7, <1>8, <1>9, <1>10 DEF SteadyInv

LEMMA SteadyStepKeeps ==
  ASSUME SteadyTiming, SteadyInv, [ProxyStep \/ Tick]_vars
  PROVE  SteadyInv'
<1>1. CASE UNCHANGED vars
  <2>1. RegistryInv' BY <1>1, StepKeeps DEF SteadyInv
  <2>2. Requests' = Requests /\ Answers' = Answers
    BY <1>1 DEF Requests, Answers, vars
  <2>3. UNCHANGED <<up, heard, proxiesGuids, localInvokeMethods, remoteInvokeMethods,
                    lastRegistryExchange, chan, looped, heldFor>>
    BY <1>1 DEF vars, netVars, historyVars
  <2>4. Meshed' /\ Single' /\ Prompt'
    BY <2>3 DEF SteadyInv, Meshed, Single, Prompt
  <2>5. OneStage' /\ RequestsRecent' /\ AnswersRecent' /\ AnswersComplete'
    BY <2>2, <2>3 DEF SteadyInv, OneStage, RequestsRecent, AnswersRecent, AnswersComplete
  <2>6. AfterExchange' /\ DuringExchange'
    BY <2>2, <2>3 DEF SteadyInv, AfterExchange, DuringExchange, RefreshedWithin
  <2> QED BY <2>1, <2>4, <2>5, <2>6 DEF SteadyInv
<1>2. CASE ProxyStep
  BY <1>2, SteadyRegisterKeeps, SteadyResponderKeeps, SteadyUpdateKeeps,
     SteadyHousekeepingKeeps DEF ProxyStep
<1>3. CASE Tick
  BY <1>3, SteadyTickKeeps
<1> QED BY <1>1, <1>2, <1>3

(* In a steady mesh a method that a proxy has held for one exchange period *)
(* and two delays has a route at every other proxy, and keeps it as long   *)
(* as it is held, however the housekeeping of the proxies and the messages *)
(* interleave.  RequestRegistryExchange and RemoteRegistryHealthCheck      *)
(* compare with 3 and 5 seconds: SteadyTiming then allows one second for a *)
(* message.                                                                *)
THEOREM RoutesAreSteady ==
  ASSUME SteadyTiming
  PROVE  SteadySpec => []SteadyRoutes
<1>1. SteadyInv => SteadyRoutes BY SteadyInvRoutes
<1>2. SteadyInv /\ [ProxyStep \/ Tick]_vars => SteadyInv' BY SteadyStepKeeps
<1> QED BY <1>1, <1>2, SteadyInitKeeps, PTL DEF SteadySpec
============================================================================
