------------------------ MODULE InvokeRoutingProofs ------------------------
(***************************************************************************)
(* Safety of the invocation path for every number of proxies, nodes,       *)
(* methods and calls, and for every value of the bounds: RoutingInv is     *)
(* inductive, and the properties of InvokeRouting follow from it.          *)
(***************************************************************************)
EXTENDS InvokeRouting, SequenceTheorems, TLAPS

(* A registry step never routes a method to a proxy that did not hold it.  *)
LEMMA RegistryStepSafe ==
  ASSUME RegistryTypeOK, OffersAdvertised, RoutesWereAdvertised, RegistryNext
  PROVE  RegistryTypeOK' /\ OffersAdvertised' /\ RoutesWereAdvertised'
<1>1. ASSUME NEW p \in Proxies, NEW m \in Methods, Offer(p, m)
      PROVE  RegistryTypeOK' /\ OffersAdvertised' /\ RoutesWereAdvertised'
  BY <1>1 DEF RegistryTypeOK, OffersAdvertised, RoutesWereAdvertised, Offer
<1>2. ASSUME NEW p \in Proxies, Expire(p)
      PROVE  RegistryTypeOK' /\ OffersAdvertised' /\ RoutesWereAdvertised'
  BY <1>2, RegistryAssumption
     DEF RegistryTypeOK, OffersAdvertised, RoutesWereAdvertised, Expire
<1>3. ASSUME NEW p \in Proxies, NEW q \in Proxies, Learn(p, q)
      PROVE  RegistryTypeOK' /\ OffersAdvertised' /\ RoutesWereAdvertised'
  BY <1>3, RegistryAssumption
     DEF RegistryTypeOK, OffersAdvertised, RoutesWereAdvertised, Learn
<1> QED  BY <1>1, <1>2, <1>3 DEF RegistryNext

----------------------------------------------------------------------------
(* Channels *)

(* Ok[s][d] are the messages that s may send to d. *)
ChannelsIn(ch, Ok) ==
  /\ ch \in [Procs -> [Procs -> Seq(Message)]]
  /\ \A s, d \in Procs : ch[s][d] \in Seq(Ok[s][d])
  /\ \A s, d \in Procs : Silent(s, d) => ch[s][d] = <<>>

(* Publisher::Publish adds a message that the sender may send, or nothing. *)
LEMMA PublishKeeps ==
  ASSUME NEW Ok, NEW ch, ChannelsIn(ch, Ok),
         NEW s \in Procs, NEW target, NEW msg \in Message,
         target \in Procs => msg \in Ok[s][target],
         ~Silent(s, target)
  PROVE  ChannelsIn(Publish(ch, s, target, msg), Ok)
<1> DEFINE new == Publish(ch, s, target, msg)
<1>1. CASE target \in Procs /\ Len(ch[s][target]) < HWM
  <2>1. new = [ch EXCEPT ![s][target] = Append(@, msg)]
    BY <1>1 DEF Publish
  <2>2. Append(ch[s][target], msg) \in Seq(Message)
    BY <1>1, AppendProperties DEF ChannelsIn
  <2>3. Append(ch[s][target], msg) \in Seq(Ok[s][target])
    BY <1>1, AppendProperties DEF ChannelsIn
  <2>4. new \in [Procs -> [Procs -> Seq(Message)]]
    BY <1>1, <2>1, <2>2 DEF ChannelsIn
  <2>5. ASSUME NEW a \in Procs, NEW b \in Procs
        PROVE  new[a][b] = IF a = s /\ b = target
                           THEN Append(ch[s][target], msg) ELSE ch[a][b]
    BY <1>1, <2>1 DEF ChannelsIn
  <2> QED  BY <1>1, <2>3, <2>4, <2>5 DEF ChannelsIn
<1>2. CASE ~(target \in Procs /\ Len(ch[s][target]) < HWM)
  BY <1>2 DEF Publish
<1> QED  BY <1>1, <1>2

(* Subscriber::Poll returns a message that was sent and leaves the others. *)
LEMMA PollKeeps ==
  ASSUME NEW Ok, ChannelsIn(chan, Ok),
         NEW s \in Procs, NEW d \in Procs, chan[s][d] # <<>>
  PROVE  /\ ChannelsIn(Poll(s, d), Ok)
         /\ Head(chan[s][d]) \in Message
         /\ Head(chan[s][d]) \in Ok[s][d]
<1> DEFINE new == Poll(s, d)
<1>1. /\ Tail(chan[s][d]) \in Seq(Message) /\ Head(chan[s][d]) \in Message
      /\ Tail(chan[s][d]) \in Seq(Ok[s][d]) /\ Head(chan[s][d]) \in Ok[s][d]
  BY HeadTailProperties DEF ChannelsIn
<1>2. new = [chan EXCEPT ![s][d] = Tail(@)]
  BY DEF Poll
<1>3. new \in [Procs -> [Procs -> Seq(Message)]]
  BY <1>1, <1>2 DEF ChannelsIn
<1>4. ASSUME NEW a \in Procs, NEW b \in Procs
      PROVE  new[a][b] = IF a = s /\ b = d THEN Tail(chan[s][d]) ELSE chan[a][b]
  BY <1>2 DEF ChannelsIn
<1>5. ~Silent(s, d)
  BY DEF ChannelsIn
<1> QED  BY <1>1, <1>3, <1>4, <1>5 DEF ChannelsIn
----------------------------------------------------------------------------
(* The callback tables *)

TablesOK ==
  /\ invokeResponses \in [Proxies -> [Calls -> Procs \cup {None}]]
  /\ invokeResponsesCallTime \in
       [Proxies -> [Calls -> (0..(CallbackTTL + 1)) \cup {None}]]
  /\ CallbackTablesAgree
  /\ CallbacksLeadToCaller

(* The two inserts of Proxy::Invoke. *)
LEMMA RememberKeeps ==
  ASSUME TablesOK, NEW p \in Proxies, NEW req,
         req.guid_from \in Calls, req.source_proxy_guid \in Procs \ {p},
         req.source_proxy_guid \in Nodes => req.source_proxy_guid = Caller[req.guid_from],
         RememberCaller(p, req)
  PROVE  TablesOK'
<1> DEFINE c == req.guid_from
<1>1. /\ None \notin Procs
      /\ None \notin Nat
      /\ 0 \in 0..(CallbackTTL + 1)
  BY RegistryAssumption, RoutingAssumption DEF Procs
<1>2. invokeResponses' \in [Proxies -> [Calls -> Procs \cup {None}]]
  BY DEF TablesOK, RememberCaller
<1>3. invokeResponsesCallTime' \in
        [Proxies -> [Calls -> (0..(CallbackTTL + 1)) \cup {None}]]
  BY <1>1 DEF TablesOK, RememberCaller
<1>4. ASSUME NEW q \in Proxies, NEW k \in Calls
      PROVE  /\ invokeResponses'[q][k] =
                  IF q = p /\ k = c /\ invokeResponses[q][k] = None
                  THEN req.source_proxy_guid ELSE invokeResponses[q][k]
             /\ invokeResponsesCallTime'[q][k] =
                  IF q = p /\ k = c /\ invokeResponsesCallTime[q][k] = None
                  THEN 0 ELSE invokeResponsesCallTime[q][k]
  BY DEF TablesOK, RememberCaller
<1>5. CallbackTablesAgree'
  BY <1>1, <1>4 DEF TablesOK, CallbackTablesAgree
<1>6. CallbacksLeadToCaller'
  BY <1>4 DEF TablesOK, CallbacksLeadToCaller
<1> QED  BY <1>2, <1>3, <1>5, <1>6 DEF TablesOK

(* The erasures of Proxy::InvokeResponse and Proxy::CleanUpResponsesMap. *)
LEMMA ForgetKeeps ==
  ASSUME TablesOK, NEW p \in Proxies, NEW gone, ForgetCallbacks(p, gone)
  PROVE  TablesOK'
<1>1. None \notin Nodes /\ None \notin Proxies
  BY RegistryAssumption
<1>2. /\ invokeResponses' \in [Proxies -> [Calls -> Procs \cup {None}]]
      /\ invokeResponsesCallTime' \in
           [Proxies -> [Calls -> (0..(CallbackTTL + 1)) \cup {None}]]
  BY DEF TablesOK, ForgetCallbacks
<1>3. ASSUME NEW q \in Proxies, NEW k \in Calls
      PROVE  /\ invokeResponses'[q][k] =
                  IF q = p /\ k \in gone THEN None ELSE invokeResponses[q][k]
             /\ invokeResponsesCallTime'[q][k] =
                  IF q = p /\ k \in gone THEN None
                  ELSE invokeResponsesCallTime[q][k]
  BY DEF TablesOK, ForgetCallbacks
<1>4. CallbackTablesAgree'
  BY <1>3 DEF TablesOK, CallbackTablesAgree
<1>5. CallbacksLeadToCaller'
  BY <1>1, <1>3 DEF TablesOK, CallbacksLeadToCaller
<1> QED  BY <1>2, <1>4, <1>5 DEF TablesOK
----------------------------------------------------------------------------
(* Truthful messages *)

LEMMA InvariantChannels ==
  ASSUME RoutingInv
  PROVE  ChannelsIn(chan, TruthfulMessages) /\ TablesOK
  BY DEF RoutingInv, TypeOK, ChannelsTruthful, ChannelsIn, TablesOK

(* Issuing a request and advertising a method make no message untruthful. *)
LEMMA TruthGrows ==
  ASSUME \A c \in Calls : issued[c] # None => issued'[c] = issued[c],
         \A p \in Proxies : advertised[p] \subseteq advertised'[p]
  PROVE  /\ \A c \in Calls : \A m : ResultOK(c, m) => ResultOK(c, m)'
         /\ \A s, d \in Procs : TruthfulMessages[s][d] \subseteq TruthfulMessages'[s][d]
<1>1. "INVOKE" # None /\ "PING" # None
  BY RoutingAssumption DEF Cmds, RequestCmds
<1>2. ASSUME NEW c \in Calls, NEW m, ResultOK(c, m)
      PROVE  ResultOK(c, m)'
  BY <1>1, <1>2 DEF ResultOK
<1>3. ASSUME NEW s \in Procs, NEW d \in Procs, NEW msg, Truthful(s, d, msg)
      PROVE  Truthful(s, d, msg)'
  BY <1>1, <1>2, <1>3 DEF Truthful
<1>4. ASSUME NEW s \in Procs, NEW d \in Procs
      PROVE  TruthfulMessages[s][d] \subseteq TruthfulMessages'[s][d]
  BY <1>3 DEF TruthfulMessages
<1> QED  BY <1>2, <1>4

(* A handler of a proxy keeps the invariant when it sends truthful messages *)
(* and keeps its callback tables.                                          *)
LEMMA HandlerKeeps ==
  ASSUME RoutingInv,
         UNCHANGED <<regVars, lastResponsesCleanUp, nodeVars, purged>>,
         ChannelsIn(chan', TruthfulMessages), TablesOK'
  PROVE  RoutingInv'
<1> USE DEF regVars, nodeVars
<1>1. TruthfulMessages' = TruthfulMessages
  BY DEF TruthfulMessages, Truthful, ResultOK
<1>2. TypeOK'
  BY DEF RoutingInv, TypeOK, RegistryTypeOK, TablesOK, ChannelsIn
<1>3. ChannelsTruthful'
  BY <1>1 DEF ChannelsTruthful, ChannelsIn
<1>4. OffersAdvertised' /\ RoutesWereAdvertised'
  BY DEF RoutingInv, OffersAdvertised, RoutesWereAdvertised
<1>5. WorkTruthful' /\ AnswersTruthful'
  BY DEF RoutingInv, WorkTruthful, AnswersTruthful, ResultOK
<1> QED  BY <1>2, <1>3, <1>4, <1>5 DEF RoutingInv, TablesOK
----------------------------------------------------------------------------
(* The handlers of Proxy::SubscriberCallback *)

(* What a proxy knows of the message it has polled. *)
LEMMA Polled ==
  ASSUME RoutingInv, NEW p \in Proxies, NEW s \in Procs, chan[s][p] # <<>>
  PROVE  /\ ChannelsIn(Poll(s, p), TruthfulMessages)
         /\ Head(chan[s][p]) \in Message
         /\ Truthful(s, p, Head(chan[s][p]))
         /\ s # p
<1>1. p \in Procs /\ s # p
  BY DEF Procs, RoutingInv, ChannelsTruthful, Silent
<1>2. Head(chan[s][p]) \in TruthfulMessages[s][p]
  BY <1>1, InvariantChannels, PollKeeps
<1>3. Truthful(s, p, Head(chan[s][p]))
  BY <1>1, <1>2 DEF TruthfulMessages
<1> QED  BY <1>1, <1>3, InvariantChannels, PollKeeps

(* One truthful message from p on top of truthful channels. *)
LEMMA PublishTruthful ==
  ASSUME NEW ch, ChannelsIn(ch, TruthfulMessages),
         NEW s \in Procs, NEW target, NEW msg \in Message,
         target \in Procs => Truthful(s, target, msg),
         ~Silent(s, target)
  PROVE  ChannelsIn(Publish(ch, s, target, msg), TruthfulMessages)
<1>1. target \in Procs => msg \in TruthfulMessages[s][target]
  BY DEF TruthfulMessages
<1> QED  BY <1>1, PublishKeeps

(* The INVOKE that Proxy::Invoke forwards, for either kind of method. *)
LEMMA InvokeCommandTruthful ==
  ASSUME RoutingInv, NEW p \in Proxies, NEW s \in Procs, NEW target,
         NEW req \in Message, Truthful(s, p, req), req.cmd = "INVOKE",
         NEW m \in Methods, Provides[m] = req.identifier,
         \E q \in Proxies : m \in advertised[q]
  PROVE  /\ InvokeCommand(p, req, m) \in Message
         /\ Truthful(p, target, InvokeCommand(p, req, m))
<1>1. p \in Procs /\ p \notin Nodes
  BY RegistryAssumption DEF Procs
<1>2. InvokeCommand(p, req, m) \in Message
  BY <1>1, RegistryAssumption
     DEF InvokeCommand, Command, Message, Truthful, Cmds, RequestCmds
<1>3. ResultOK(req.guid_from, m)
  BY DEF ResultOK, Truthful
<1>4. Truthful(p, target, InvokeCommand(p, req, m))
  BY <1>1, <1>3 DEF InvokeCommand, Command, Truthful, ResponseCmds
<1> QED  BY <1>2, <1>4

LEMMA InvokeLocalKeeps ==
  ASSUME RoutingInv, NEW p \in Proxies, NEW s \in Procs, InvokeLocal(p, s)
  PROVE  RoutingInv'
<1> DEFINE req == Head(chan[s][p])
<1>1. chan[s][p] # <<>> /\ req.cmd = "INVOKE"
  BY DEF InvokeLocal, Receives
<1>2. ChannelsIn(Poll(s, p), TruthfulMessages) /\ req \in Message /\ Truthful(s, p, req)
  BY <1>1, Polled
<1>3. PICK m \in LocalInvokeMethods(p, req.identifier) :
        /\ RememberCaller(p, req)
        /\ chan' = Publish(Poll(s, p), p, Owner[m], InvokeCommand(p, req, m))
  BY DEF InvokeLocal
<1>4. m \in Methods /\ Provides[m] = req.identifier /\ m \in advertised[p]
  BY <1>3 DEF LocalInvokeMethods, RoutingInv, TypeOK, RegistryTypeOK, OffersAdvertised
<1>5. /\ InvokeCommand(p, req, m) \in Message
      /\ Truthful(p, Owner[m], InvokeCommand(p, req, m))
  BY <1>1, <1>2, <1>4, InvokeCommandTruthful
<1>6. p \in Procs /\ ~Silent(p, Owner[m])
  BY <1>4, RegistryAssumption DEF Procs, Silent
<1>7. ChannelsIn(chan', TruthfulMessages)
  BY <1>2, <1>3, <1>5, <1>6, PublishTruthful
<1>8. TablesOK'
  <2>1. /\ req.guid_from \in Calls /\ req.source_proxy_guid \in Procs \ {p}
        /\ req.source_proxy_guid \in Nodes => req.source_proxy_guid = Caller[req.guid_from]
    BY <1>1, <1>2, Polled DEF Truthful
  <2> QED  BY <1>3, <2>1, InvariantChannels, RememberKeeps
<1>9. UNCHANGED <<regVars, lastResponsesCleanUp, nodeVars, purged>>
  BY DEF InvokeLocal
<1> QED  BY <1>7, <1>8, <1>9, HandlerKeeps

LEMMA InvokeRemoteKeeps ==
  ASSUME RoutingInv, NEW p \in Proxies, NEW s \in Procs, InvokeRemote(p, s)
  PROVE  RoutingInv'
<1> DEFINE req == Head(chan[s][p])
<1>1. chan[s][p] # <<>> /\ req.cmd = "INVOKE"
  BY DEF InvokeRemote, Receives
<1>2. ChannelsIn(Poll(s, p), TruthfulMessages) /\ req \in Message /\ Truthful(s, p, req)
  BY <1>1, Polled
<1>3. PICK m \in RemoteInvokeMethods(p, req.identifier) :
        /\ RememberCaller(p, req)
        /\ chan' = Publish(Poll(s, p), p, routes[p][m], InvokeCommand(p, req, m))
  BY DEF InvokeRemote
<1>4. /\ m \in Methods /\ Provides[m] = req.identifier
      /\ \E q \in Proxies : m \in advertised[q]
  BY <1>3 DEF RemoteInvokeMethods, RoutingInv, TypeOK, RegistryTypeOK,
     RoutesWereAdvertised
<1>5. /\ InvokeCommand(p, req, m) \in Message
      /\ Truthful(p, routes[p][m], InvokeCommand(p, req, m))
  BY <1>1, <1>2, <1>4, InvokeCommandTruthful
<1>6. p \in Procs /\ ~Silent(p, routes[p][m])
  BY <1>3, RegistryAssumption DEF Procs, Silent, RemoteInvokeMethods, RoutingInv,
     RoutesWereAdvertised
<1>7. ChannelsIn(chan', TruthfulMessages)
  BY <1>2, <1>3, <1>5, <1>6, PublishTruthful
<1>8. TablesOK'
  <2>1. /\ req.guid_from \in Calls /\ req.source_proxy_guid \in Procs \ {p}
        /\ req.source_proxy_guid \in Nodes => req.source_proxy_guid = Caller[req.guid_from]
    BY <1>1, <1>2, Polled DEF Truthful
  <2> QED  BY <1>3, <2>1, InvariantChannels, RememberKeeps
<1>9. UNCHANGED <<regVars, lastResponsesCleanUp, nodeVars, purged>>
  BY DEF InvokeRemote
<1> QED  BY <1>7, <1>8, <1>9, HandlerKeeps

(* The ERROR replies of the proxies. *)
LEMMA ErrorTruthful ==
  ASSUME NEW p \in Proxies, NEW target,
         NEW g \in Calls \cup Procs \cup {None},
         target \in Nodes /\ g \in Calls => target = Caller[g]
  PROVE  /\ Command("ERROR", p, None, p, g, None) \in Message
         /\ Truthful(p, target, Command("ERROR", p, None, p, g, None))
<1>1. p \in Procs
  BY DEF Procs
<1>2. Command("ERROR", p, None, p, g, None) \in Message
  BY <1>1 DEF Command, Message, Cmds, RequestCmds, LoggedCmds
<1>3. Truthful(p, target, Command("ERROR", p, None, p, g, None))
  BY DEF Command, Truthful, ResponseCmds
<1> QED  BY <1>2, <1>3

LEMMA InvokeNotFoundKeeps ==
  ASSUME RoutingInv, NEW p \in Proxies, NEW s \in Procs, InvokeNotFound(p, s)
  PROVE  RoutingInv'
<1> DEFINE req == Head(chan[s][p])
           msg == Command("ERROR", p, None, p, req.guid_from, None)
<1>1. chan[s][p] # <<>> /\ req.cmd = "INVOKE"
  BY DEF InvokeNotFound, Receives
<1>2. ChannelsIn(Poll(s, p), TruthfulMessages) /\ req \in Message /\ Truthful(s, p, req)
  BY <1>1, Polled
<1>3. /\ req.guid_from \in Calls
      /\ req.source_proxy_guid \in Nodes => req.source_proxy_guid = Caller[req.guid_from]
  BY <1>1, <1>2 DEF Truthful
<1>4. msg \in Message /\ Truthful(p, req.source_proxy_guid, msg)
  BY <1>3, ErrorTruthful
<1>5. p \in Procs /\ ~Silent(p, req.source_proxy_guid)
  BY <1>1, <1>2, Polled, RegistryAssumption DEF Procs, Silent, Truthful
<1>6. chan' = Publish(Poll(s, p), p, req.source_proxy_guid, msg)
  BY DEF InvokeNotFound
<1>7. ChannelsIn(chan', TruthfulMessages)
  BY <1>2, <1>4, <1>5, <1>6, PublishTruthful
<1>8. UNCHANGED <<regVars, tableVars, lastResponsesCleanUp, nodeVars, purged>>
  BY DEF InvokeNotFound
<1>9. TablesOK'
  BY <1>8, InvariantChannels
     DEF tableVars, TablesOK, CallbackTablesAgree, CallbacksLeadToCaller
<1> QED  BY <1>7, <1>8, <1>9, HandlerKeeps

LEMMA ForwardResponseKeeps ==
  ASSUME RoutingInv, NEW p \in Proxies, NEW s \in Procs, ForwardResponse(p, s)
  PROVE  RoutingInv'
<1> DEFINE req == Head(chan[s][p])
           c == req.guid_to
           target == invokeResponses[p][c]
           msg == Command(req.cmd, p, None, req.guid_from, c, req.payload)
<1>1. chan[s][p] # <<>> /\ req.cmd \in ResponseCmds
  BY DEF ForwardResponse, Receives
<1>2. ChannelsIn(Poll(s, p), TruthfulMessages) /\ req \in Message /\ Truthful(s, p, req)
  BY <1>1, Polled
<1>3. c \in Calls /\ ResultOK(c, req.payload)
  BY <1>1, <1>2 DEF Truthful
<1>4. target \in Nodes => target = Caller[c]
  BY <1>3 DEF RoutingInv, CallbacksLeadToCaller
<1>5. p \in Procs /\ ~Silent(p, target)
  BY <1>3, RegistryAssumption DEF Procs, Silent, RoutingInv, CallbacksLeadToCaller
<1>6. msg \in Message
  BY <1>2, <1>5 DEF Command, Message
<1>7. Truthful(p, target, msg)
  BY <1>1, <1>3, <1>4 DEF Command, Truthful, ResponseCmds
<1>8. /\ chan' = Publish(Poll(s, p), p, target, msg)
      /\ ForgetCallbacks(p, {c})
      /\ UNCHANGED <<regVars, lastResponsesCleanUp, nodeVars, purged>>
  BY DEF ForwardResponse
<1>9. ChannelsIn(chan', TruthfulMessages)
  BY <1>2, <1>5, <1>6, <1>7, <1>8, PublishTruthful
<1>10. TablesOK'
  BY <1>8, InvariantChannels, ForgetKeeps
<1> QED  BY <1>8, <1>9, <1>10, HandlerKeeps

(* The two handlers that complain to the key of the subscribers map, which *)
(* is never the guid of a node.                                            *)
LEMMA ComplaintKeeps ==
  ASSUME RoutingInv, NEW p \in Proxies, NEW s \in Procs, chan[s][p] # <<>>,
         chan' = Publish(Poll(s, p), p, SubscriberKey(s),
                   Command("ERROR", p, None, p, Head(chan[s][p]).guid_from, None)),
         UNCHANGED <<regVars, tableVars, lastResponsesCleanUp, nodeVars, purged>>
  PROVE  RoutingInv'
<1> DEFINE req == Head(chan[s][p])
           msg == Command("ERROR", p, None, p, req.guid_from, None)
<1>1. ChannelsIn(Poll(s, p), TruthfulMessages) /\ req \in Message
  BY Polled
<1>2. req.guid_from \in Calls \cup Procs \cup {None}
  BY <1>1 DEF Message
<1>3. SubscriberKey(s) \notin Nodes
  BY RegistryAssumption DEF SubscriberKey
<1>4. msg \in Message /\ Truthful(p, SubscriberKey(s), msg)
  BY <1>2, <1>3, ErrorTruthful
<1>5. p \in Procs /\ ~Silent(p, SubscriberKey(s))
  BY Polled, RegistryAssumption DEF Procs, Silent, SubscriberKey
<1>6. ChannelsIn(chan', TruthfulMessages)
  BY <1>1, <1>4, <1>5, PublishTruthful
<1>7. TablesOK'
  BY InvariantChannels
     DEF tableVars, TablesOK, CallbackTablesAgree, CallbacksLeadToCaller
<1> QED  BY <1>6, <1>7, HandlerKeeps

LEMMA PingRequestKeeps ==
  ASSUME RoutingInv, NEW p \in Proxies, NEW s \in Procs, PingRequest(p, s)
  PROVE  RoutingInv'
<1> DEFINE req == Head(chan[s][p])
           msg == Command("RESPONSE", p, None, None, req.guid_from, None)
<1>1. chan[s][p] # <<>> /\ req.cmd = "PING"
  BY DEF PingRequest, Receives
<1>2. ChannelsIn(Poll(s, p), TruthfulMessages) /\ req \in Message /\ Truthful(s, p, req)
  BY <1>1, Polled
<1>3. /\ req.guid_from \in Calls
      /\ req.source_proxy_guid = Caller[req.guid_from]
      /\ ResultOK(req.guid_from, None)
  BY <1>1, <1>2 DEF Truthful, ResultOK
<1>4. p \in Procs /\ ~Silent(p, req.source_proxy_guid)
  BY <1>1, <1>2, Polled, RegistryAssumption DEF Procs, Silent, Truthful
<1>5. msg \in Message
  BY <1>3, <1>4 DEF Command, Message, Cmds, ResponseCmds
<1>6. Truthful(p, req.source_proxy_guid, msg)
  BY <1>3 DEF Command, Truthful, ResponseCmds
<1>7. /\ chan' = Publish(Poll(s, p), p, req.source_proxy_guid, msg)
      /\ UNCHANGED <<regVars, tableVars, lastResponsesCleanUp, nodeVars, purged>>
  BY DEF PingRequest
<1>8. ChannelsIn(chan', TruthfulMessages)
  BY <1>2, <1>4, <1>5, <1>6, <1>7, PublishTruthful
<1>9. TablesOK'
  BY <1>7, InvariantChannels
     DEF tableVars, TablesOK, CallbackTablesAgree, CallbacksLeadToCaller
<1> QED  BY <1>7, <1>8, <1>9, HandlerKeeps

(* A message is taken from a channel and nothing else happens. *)
LEMMA DropKeeps ==
  ASSUME RoutingInv, NEW s \in Procs, NEW d \in Procs, chan[s][d] # <<>>,
         chan' = Poll(s, d),
         UNCHANGED <<regVars, tableVars, lastResponsesCleanUp, nodeVars, purged>>
  PROVE  RoutingInv'
<1>1. ChannelsIn(chan', TruthfulMessages)
  BY InvariantChannels, PollKeeps
<1>2. TablesOK'
  BY InvariantChannels
     DEF tableVars, TablesOK, CallbackTablesAgree, CallbacksLeadToCaller
<1> QED  BY <1>1, <1>2, HandlerKeeps

LEMMA SubscriberCallbackKeeps ==
  ASSUME RoutingInv, NEW p \in Proxies, NEW s \in Procs, SubscriberCallback(p, s)
  PROVE  RoutingInv'
<1>1. CASE Invoke(p, s)
  BY <1>1, InvokeLocalKeeps, InvokeRemoteKeeps, InvokeNotFoundKeeps DEF Invoke
<1>2. CASE ForwardResponse(p, s)
  BY <1>2, ForwardResponseKeeps
<1>3. CASE CallbackNotFound(p, s)
  BY <1>3, ComplaintKeeps DEF CallbackNotFound, Receives
<1>4. CASE PingRequest(p, s)
  BY <1>4, PingRequestKeeps
<1>5. CASE LogOnly(p, s)
  BY <1>5, DropKeeps DEF LogOnly, Receives, Procs
<1>6. CASE UnknownCommand(p, s)
  BY <1>6, ComplaintKeeps DEF UnknownCommand, Receives
<1> QED  BY <1>1, <1>2, <1>3, <1>4, <1>5, <1>6 DEF SubscriberCallback, InvokeResponse
----------------------------------------------------------------------------
(* Clean-up, time and the registries *)

(* A step that touches neither registries, channels nor nodes. *)
LEMMA QuietKeeps ==
  ASSUME RoutingInv, UNCHANGED <<regVars, chan, nodeVars>>
  PROVE  /\ ChannelsTruthful' /\ WorkTruthful' /\ AnswersTruthful'
         /\ OffersAdvertised' /\ RoutesWereAdvertised'
<1> USE DEF regVars, nodeVars
<1>1. TruthfulMessages' = TruthfulMessages
  BY DEF TruthfulMessages, Truthful, ResultOK
<1>2. ChannelsTruthful'
  BY <1>1 DEF RoutingInv, ChannelsTruthful
<1>3. WorkTruthful' /\ AnswersTruthful'
  BY DEF RoutingInv, WorkTruthful, AnswersTruthful, ResultOK
<1>4. OffersAdvertised' /\ RoutesWereAdvertised'
  BY DEF RoutingInv, OffersAdvertised, RoutesWereAdvertised
<1> QED  BY <1>2, <1>3, <1>4

LEMMA CleanUpKeeps ==
  ASSUME RoutingInv, NEW p \in Proxies, CleanUpResponsesMap(p)
  PROVE  RoutingInv'
<1>1. PICK gone \in SUBSET ExpiredCallbacks(p) :
        ForgetCallbacks(p, gone) /\ purged' = purged \cup gone
  BY DEF CleanUpResponsesMap
<1>2. /\ lastResponsesCleanUp' = [lastResponsesCleanUp EXCEPT ![p] = 0]
      /\ UNCHANGED <<regVars, chan, nodeVars>>
  BY DEF CleanUpResponsesMap
<1> USE DEF regVars, nodeVars
<1>3. TablesOK'
  BY <1>1, InvariantChannels, ForgetKeeps
<1>4. purged' \in SUBSET Calls
  BY <1>1 DEF ExpiredCallbacks, RoutingInv, TypeOK
<1>5. lastResponsesCleanUp' \in [Proxies -> 0..CleanUpPeriod]
  BY <1>2, RoutingAssumption DEF RoutingInv, TypeOK
<1>6. TypeOK'
  BY <1>2, <1>3, <1>4, <1>5 DEF RoutingInv, TypeOK, RegistryTypeOK, TablesOK
<1> QED  BY <1>2, <1>3, <1>6, QuietKeeps DEF RoutingInv, TablesOK

LEMMA OlderType ==
  ASSUME NEW limit \in Nat, NEW age \in 0..limit
  PROVE  Older(age, limit) \in 0..limit
  BY DEF Older

LEMMA TickKeeps ==
  ASSUME RoutingInv, Tick
  PROVE  RoutingInv'
<1>1. UNCHANGED <<regVars, chan, invokeResponses, nodeVars, purged>>
  BY DEF Tick
<1> USE DEF regVars, nodeVars
<1>2. lastResponsesCleanUp' \in [Proxies -> 0..CleanUpPeriod]
  BY OlderType, RoutingAssumption DEF Tick, RoutingInv, TypeOK
<1>3. ASSUME NEW p \in Proxies, NEW c \in Calls
      PROVE  /\ invokeResponsesCallTime'[p][c] \in (0..(CallbackTTL + 1)) \cup {None}
             /\ invokeResponsesCallTime'[p][c] = None <=>
                  invokeResponsesCallTime[p][c] = None
  <2>1. invokeResponsesCallTime[p][c] \in (0..(CallbackTTL + 1)) \cup {None}
    BY DEF RoutingInv, TypeOK
  <2>2. invokeResponsesCallTime'[p][c] =
          IF invokeResponsesCallTime[p][c] = None THEN None
          ELSE Older(invokeResponsesCallTime[p][c], CallbackTTL + 1)
    BY DEF Tick
  <2>3. CallbackTTL + 1 \in Nat /\ None \notin 0..(CallbackTTL + 1)
    BY RoutingAssumption
  <2> QED  BY <2>1, <2>2, <2>3, OlderType
<1>4. invokeResponsesCallTime' \in
        [Proxies -> [Calls -> (0..(CallbackTTL + 1)) \cup {None}]]
  BY <1>3 DEF Tick
<1>5. TypeOK'
  BY <1>1, <1>2, <1>4 DEF RoutingInv, TypeOK, RegistryTypeOK
<1>6. CallbackTablesAgree' /\ CallbacksLeadToCaller'
  BY <1>1, <1>3 DEF RoutingInv, CallbackTablesAgree, CallbacksLeadToCaller
<1> QED  BY <1>1, <1>5, <1>6, QuietKeeps DEF RoutingInv

(* What was truthful stays in the channels when the truth grows. *)
LEMMA ChannelsGrow ==
  ASSUME RoutingInv,
         \A s, d \in Procs : TruthfulMessages[s][d] \subseteq TruthfulMessages'[s][d]
  PROVE  ChannelsIn(chan, TruthfulMessages')
<1>1. ChannelsIn(chan, TruthfulMessages)
  BY InvariantChannels
<1>2. ASSUME NEW s \in Procs, NEW d \in Procs
      PROVE  chan[s][d] \in Seq(TruthfulMessages'[s][d])
  BY <1>1, SeqMonotonic DEF ChannelsIn
<1> QED  BY <1>1, <1>2 DEF ChannelsIn

LEMMA RegistryStepKeeps ==
  ASSUME RoutingInv, RegistryStep
  PROVE  RoutingInv'
<1>1. UNCHANGED <<chan, tableVars, lastResponsesCleanUp, nodeVars, purged>>
  BY DEF RegistryStep
<1> USE DEF tableVars, nodeVars
<1>2. RegistryTypeOK' /\ OffersAdvertised' /\ RoutesWereAdvertised'
  BY RegistryStepSafe DEF RegistryStep, RoutingInv, TypeOK
<1>3. \A p \in Proxies : advertised[p] \subseteq advertised'[p]
  BY DEF RegistryStep, RegistryNext, Offer, Expire, Learn, RoutingInv, TypeOK,
     RegistryTypeOK
<1>4. /\ \A c \in Calls : \A m : ResultOK(c, m) => ResultOK(c, m)'
      /\ \A s, d \in Procs : TruthfulMessages[s][d] \subseteq TruthfulMessages'[s][d]
  BY <1>1, <1>3, TruthGrows
<1>5. ChannelsTruthful'
  BY <1>1, <1>4, ChannelsGrow DEF ChannelsTruthful, ChannelsIn
<1>6. TypeOK'
  BY <1>1, <1>2 DEF RoutingInv, TypeOK
<1>7. WorkTruthful'
  BY <1>1, <1>4 DEF RoutingInv, WorkTruthful, TypeOK, Work
<1>8. AnswersTruthful'
  BY <1>1, <1>4 DEF RoutingInv, AnswersTruthful
<1>9. CallbackTablesAgree' /\ CallbacksLeadToCaller'
  BY <1>1 DEF RoutingInv, CallbackTablesAgree, CallbacksLeadToCaller
<1> QED  BY <1>2, <1>5, <1>6, <1>7, <1>8, <1>9 DEF RoutingInv
----------------------------------------------------------------------------
(* The nodes *)

LEMMA NodeRequestKeeps ==
  ASSUME RoutingInv, NEW c \in Calls, NEW p \in Proxies, NEW cmd \in NodeCmds,
         NodeRequest(c, p, cmd)
  PROVE  RoutingInv'
<1> DEFINE n == Caller[c]
           msg == Command(cmd, n, Wants[c], c, None, None)
<1>1. /\ issued[c] = None
      /\ issued' = [issued EXCEPT ![c] = cmd]
      /\ chan' = Publish(chan, n, p, msg)
      /\ UNCHANGED <<regVars, tableVars, lastResponsesCleanUp, working, served,
                     answers, purged>>
  BY DEF NodeRequest
<1> USE DEF regVars, tableVars
<1>2. /\ n \in Nodes /\ n \in Procs /\ p \notin Nodes
      /\ ~Silent(n, p) /\ cmd \in RequestCmds
  BY RegistryAssumption, RoutingAssumption DEF Procs, Silent
<1>3. issued' \in [Calls -> RequestCmds \cup {None}] /\ issued'[c] = cmd
  BY <1>1, <1>2 DEF RoutingInv, TypeOK
<1>4. \A k \in Calls : issued[k] # None => issued'[k] = issued[k]
  BY <1>1 DEF RoutingInv, TypeOK
<1>5. /\ \A k \in Calls : \A m : ResultOK(k, m) => ResultOK(k, m)'
      /\ \A s, d \in Procs : TruthfulMessages[s][d] \subseteq TruthfulMessages'[s][d]
  BY <1>1, <1>4, TruthGrows
<1>6. msg \in Message
  BY <1>2, RoutingAssumption DEF Command, Message, Cmds
<1>7. p \in Procs => msg \in TruthfulMessages'[n][p]
  <2>1. cmd \notin ResponseCmds
    BY <1>2 DEF RequestCmds, ResponseCmds, LoggedCmds, UnknownCmds
  <2>2. Truthful(n, p, msg)'
    BY <1>2, <1>3, <2>1 DEF Truthful, Command
  <2> QED  BY <1>2, <1>6, <2>2 DEF TruthfulMessages
<1>8. ChannelsIn(chan', TruthfulMessages')
  BY <1>1, <1>2, <1>5, <1>6, <1>7, ChannelsGrow, PublishKeeps
<1>9. TypeOK'
  BY <1>1, <1>3, <1>8 DEF RoutingInv, TypeOK, RegistryTypeOK, ChannelsIn
<1>10. ChannelsTruthful'
  BY <1>8 DEF ChannelsTruthful, ChannelsIn
<1>11. WorkTruthful' /\ AnswersTruthful'
  BY <1>1, <1>5 DEF RoutingInv, WorkTruthful, AnswersTruthful, TypeOK, Work
<1>12. /\ OffersAdvertised' /\ RoutesWereAdvertised'
       /\ CallbackTablesAgree' /\ CallbacksLeadToCaller'
  BY <1>1 DEF RoutingInv, OffersAdvertised, RoutesWereAdvertised,
     CallbackTablesAgree, CallbacksLeadToCaller
<1> QED  BY <1>9, <1>10, <1>11, <1>12 DEF RoutingInv

(* A step of a node that sends truthful messages and keeps its records. *)
LEMMA NodeKeeps ==
  ASSUME RoutingInv,
         UNCHANGED <<regVars, tableVars, lastResponsesCleanUp, issued, purged>>,
         ChannelsIn(chan', TruthfulMessages),
         working' \in [Nodes -> SUBSET Work], served' \in [Calls -> Nat],
         answers' \in [Calls -> Seq(Answer)],
         WorkTruthful', AnswersTruthful'
  PROVE  RoutingInv'
<1> USE DEF regVars, tableVars
<1>1. TruthfulMessages' = TruthfulMessages
  BY DEF TruthfulMessages, Truthful, ResultOK
<1>2. TypeOK'
  BY DEF RoutingInv, TypeOK, RegistryTypeOK, ChannelsIn
<1>3. ChannelsTruthful'
  BY <1>1 DEF ChannelsTruthful, ChannelsIn
<1>4. /\ OffersAdvertised' /\ RoutesWereAdvertised'
      /\ CallbackTablesAgree' /\ CallbacksLeadToCaller'
  BY DEF RoutingInv, OffersAdvertised, RoutesWereAdvertised,
     CallbackTablesAgree, CallbacksLeadToCaller
<1> QED  BY <1>2, <1>3, <1>4 DEF RoutingInv

(* What a node knows of the message it has polled. *)
LEMMA NodePolled ==
  ASSUME RoutingInv, NEW n \in Nodes, NEW p \in Proxies, chan[p][n] # <<>>
  PROVE  /\ ChannelsIn(Poll(p, n), TruthfulMessages)
         /\ Head(chan[p][n]) \in Message
         /\ Truthful(p, n, Head(chan[p][n]))
<1>1. n \in Procs /\ p \in Procs
  BY DEF Procs
<1>2. Head(chan[p][n]) \in TruthfulMessages[p][n]
  BY <1>1, InvariantChannels, PollKeeps
<1>3. Truthful(p, n, Head(chan[p][n]))
  BY <1>1, <1>2 DEF TruthfulMessages
<1> QED  BY <1>1, <1>3, InvariantChannels, PollKeeps

LEMMA NodeStartsWorkKeeps ==
  ASSUME RoutingInv, NEW n \in Nodes, NEW p \in Proxies, NodeStartsWork(n, p)
  PROVE  RoutingInv'
<1> DEFINE msg == Head(chan[p][n])
           w == [call |-> msg.guid_from, method |-> msg.guid_to,
                 proxy |-> msg.source_proxy_guid]
<1>1. /\ chan[p][n] # <<>> /\ msg.cmd = "INVOKE"
      /\ working' = [working EXCEPT ![n] = @ \cup {w}]
      /\ served' = [served EXCEPT ![msg.guid_from] = @ + 1]
      /\ chan' = Poll(p, n)
      /\ UNCHANGED <<regVars, tableVars, lastResponsesCleanUp, issued, answers,
                     purged>>
  BY DEF NodeStartsWork
<1>2. ChannelsIn(chan', TruthfulMessages) /\ msg \in Message /\ Truthful(p, n, msg)
  BY <1>1, NodePolled
<1>3. w \in Work /\ ResultOK(w.call, w.method)
  BY <1>1, <1>2 DEF Truthful, Work
<1>4. working' \in [Nodes -> SUBSET Work]
  BY <1>1, <1>3 DEF RoutingInv, TypeOK
<1>5. served' \in [Calls -> Nat]
  <2>1. served \in [Calls -> Nat] /\ msg.guid_from \in Calls
    BY <1>1, <1>2 DEF RoutingInv, TypeOK, Truthful
  <2> QED  BY <1>1, <2>1
<1>6. WorkTruthful'
  <2>1. ASSUME NEW k \in Nodes, NEW x \in working'[k]
        PROVE  ResultOK(x.call, x.method)
    BY <1>1, <1>3 DEF RoutingInv, TypeOK, WorkTruthful
  <2> QED  BY <1>1, <2>1 DEF WorkTruthful, ResultOK, regVars
<1>7. AnswersTruthful' /\ answers' \in [Calls -> Seq(Answer)]
  BY <1>1 DEF RoutingInv, TypeOK, AnswersTruthful, ResultOK, regVars
<1> QED  BY <1>1, <1>2, <1>4, <1>5, <1>6, <1>7, NodeKeeps

LEMMA NodeRespondsKeeps ==
  ASSUME RoutingInv, NEW n \in Nodes, NEW w \in working[n],
         NEW cmd \in ResponseCmds, NodeResponds(n, w, cmd)
  PROVE  RoutingInv'
<1> DEFINE msg == Command(cmd, n, None, None, w.call, w.method)
<1>1. /\ working' = [working EXCEPT ![n] = @ \ {w}]
      /\ chan' = Publish(chan, n, w.proxy, msg)
      /\ UNCHANGED <<regVars, tableVars, lastResponsesCleanUp, issued, served,
                     answers, purged>>
  BY DEF NodeResponds
<1>2. w \in Work /\ ResultOK(w.call, w.method)
  BY DEF RoutingInv, TypeOK, WorkTruthful
<1>3. /\ n \in Procs /\ w.proxy \in Proxies /\ w.proxy \notin Nodes
      /\ ~Silent(n, w.proxy)
  BY <1>2, RegistryAssumption DEF Procs, Work, Silent
<1>4. msg \in Message
  BY <1>2, <1>3 DEF Work, Command, Message, Cmds
<1>5. Truthful(n, w.proxy, msg)
  BY <1>2, <1>3 DEF Work, Command, Truthful, ResponseCmds
<1>6. ChannelsIn(chan', TruthfulMessages)
  BY <1>1, <1>3, <1>4, <1>5, InvariantChannels, PublishTruthful
<1>7. working' \in [Nodes -> SUBSET Work]
  BY <1>1 DEF RoutingInv, TypeOK
<1>8. WorkTruthful'
  <2>1. ASSUME NEW k \in Nodes, NEW x \in working'[k]
        PROVE  ResultOK(x.call, x.method)
    BY <1>1 DEF RoutingInv, TypeOK, WorkTruthful
  <2> QED  BY <1>1, <2>1 DEF WorkTruthful, ResultOK, regVars
<1>9. AnswersTruthful' /\ answers' \in [Calls -> Seq(Answer)] /\ served' \in [Calls -> Nat]
  BY <1>1 DEF RoutingInv, TypeOK, AnswersTruthful, ResultOK, regVars
<1> QED  BY <1>1, <1>6, <1>7, <1>8, <1>9, NodeKeeps

LEMMA NodeGetsAnswerKeeps ==
  ASSUME RoutingInv, NEW n \in Nodes, NEW p \in Proxies, NodeGetsAnswer(n, p)
  PROVE  RoutingInv'
<1> DEFINE msg == Head(chan[p][n])
           c == msg.guid_to
           a == [node |-> n, cmd |-> msg.cmd, payload |-> msg.payload]
<1>1. /\ chan[p][n] # <<>> /\ msg.cmd \in ResponseCmds \cup {"ERROR"}
      /\ answers' = IF c \in Calls THEN [answers EXCEPT ![c] = Append(@, a)]
                    ELSE answers
      /\ chan' = Poll(p, n)
      /\ UNCHANGED <<regVars, tableVars, lastResponsesCleanUp, issued, working,
                     served, purged>>
  BY DEF NodeGetsAnswer
<1>2. ChannelsIn(chan', TruthfulMessages) /\ msg \in Message /\ Truthful(p, n, msg)
  BY <1>1, NodePolled
<1>3. a \in Answer
  BY <1>1, <1>2 DEF Answer, Message
<1>4. c \in Calls => /\ n = Caller[c]
                     /\ msg.cmd \in ResponseCmds => ResultOK(c, msg.payload)
  BY <1>1, <1>2 DEF Truthful
<1>5. ASSUME NEW k \in Calls
      PROVE  /\ answers'[k] \in Seq(Answer)
             /\ answers'[k] = IF k = c THEN Append(answers[k], a) ELSE answers[k]
  BY <1>1, <1>3, AppendProperties DEF RoutingInv, TypeOK
<1>6. answers' \in [Calls -> Seq(Answer)]
  BY <1>1, <1>5 DEF RoutingInv, TypeOK
<1>7. AnswersTruthful'
  <2>1. ASSUME NEW k \in Calls, NEW i \in 1..Len(answers'[k])
        PROVE  /\ (answers[k][i].node = Caller[k])'
               /\ (answers[k][i].cmd \in ResponseCmds =>
                    ResultOK(k, answers[k][i].payload))'
    <3>1. answers[k] \in Seq(Answer)
      BY DEF RoutingInv, TypeOK
    <3>2. \/ k = c /\ answers'[k][i] = a
          \/ i \in 1..Len(answers[k]) /\ answers'[k][i] = answers[k][i]
      <4>1. CASE k = c
        <5>1. answers'[k] = Append(answers[k], a)
          BY <1>5, <4>1
        <5>2. /\ Len(answers[k]) \in Nat
              /\ Len(answers'[k]) = Len(answers[k]) + 1
              /\ \A j \in 1..Len(answers[k]) : answers'[k][j] = answers[k][j]
              /\ answers'[k][Len(answers[k]) + 1] = a
          BY <1>3, <3>1, <5>1, AppendProperties, LenProperties
        <5>3. i \in 1..Len(answers[k]) \/ i = Len(answers[k]) + 1
          BY <5>2
        <5> QED  BY <4>1, <5>2, <5>3
      <4>2. CASE k # c
        BY <1>5, <4>2
      <4> QED  BY <4>1, <4>2
    <3>3. /\ answers'[k][i].node = Caller[k]
          /\ answers'[k][i].cmd \in ResponseCmds =>
               ResultOK(k, answers'[k][i].payload)
      BY <1>4, <3>2 DEF RoutingInv, AnswersTruthful
    <3> QED  BY <1>1, <3>3 DEF ResultOK, regVars
  <2> QED  BY <2>1 DEF AnswersTruthful
<1>8. /\ WorkTruthful' /\ working' \in [Nodes -> SUBSET Work]
      /\ served' \in [Calls -> Nat]
  BY <1>1 DEF RoutingInv, TypeOK, WorkTruthful, ResultOK, regVars
<1> QED  BY <1>1, <1>2, <1>6, <1>7, <1>8, NodeKeeps
----------------------------------------------------------------------------
(* The theorems *)

LEMMA RoutingInvInit == Init => RoutingInv
<1> SUFFICES ASSUME Init PROVE RoutingInv
  OBVIOUS
<1>1. TypeOK
  <2>1. 0 \in 0..CleanUpPeriod
    BY RoutingAssumption
  <2>2. <<>> \in Seq(Message) /\ <<>> \in Seq(Answer)
    BY EmptySeq
  <2> QED  BY <2>1, <2>2 DEF Init, RegistryInit, TypeOK, RegistryTypeOK
<1>2. OffersAdvertised /\ RoutesWereAdvertised
  BY DEF Init, RegistryInit, OffersAdvertised, RoutesWereAdvertised
<1>3. ChannelsTruthful
  BY EmptySeq DEF Init, ChannelsTruthful
<1>4. WorkTruthful /\ CallbackTablesAgree
  BY DEF Init, WorkTruthful, CallbackTablesAgree
<1>5. AnswersTruthful
  BY DEF Init, AnswersTruthful
<1>6. CallbacksLeadToCaller
  BY RegistryAssumption DEF Init, CallbacksLeadToCaller
<1> QED  BY <1>1, <1>2, <1>3, <1>4, <1>5, <1>6 DEF RoutingInv

LEMMA RoutingInvStep == RoutingInv /\ [Next]_vars => RoutingInv'
<1> SUFFICES ASSUME RoutingInv, [Next]_vars PROVE RoutingInv'
  OBVIOUS
<1>1. CASE NodeStep
  BY <1>1, NodeRequestKeeps, NodeStartsWorkKeeps, NodeGetsAnswerKeeps,
     NodeRespondsKeeps DEF NodeStep
<1>2. CASE ProxyStep
  BY <1>2, SubscriberCallbackKeeps, CleanUpKeeps DEF ProxyStep
<1>3. CASE RegistryStep
  BY <1>3, RegistryStepKeeps
<1>4. CASE Tick
  BY <1>4, TickKeeps
<1>5. ASSUME NEW s \in Procs, NEW d \in Procs, Lose(s, d)
      PROVE  RoutingInv'
  BY <1>5, DropKeeps DEF Lose
<1>6. CASE UNCHANGED vars
  <2>1. UNCHANGED <<regVars, chan, nodeVars>> /\ UNCHANGED tableVars
    BY <1>6 DEF vars
  <2>2. ChannelsIn(chan', TruthfulMessages) /\ TablesOK'
    BY <1>6, InvariantChannels
       DEF vars, tableVars, TablesOK, CallbackTablesAgree, CallbacksLeadToCaller
  <2> QED  BY <1>6, <2>1, <2>2, HandlerKeeps DEF vars
<1> QED  BY <1>1, <1>2, <1>3, <1>4, <1>5, <1>6 DEF Next

(* RoutingInv holds in every reachable state: messages, callback tables and *)
(* nodes agree on caller, request and method at every hop of a call        *)
(* (Proxy::Invoke, Proxy::InvokeResponse, Proxy::CleanUpResponsesMap).     *)
THEOREM RoutingInvariant == Spec => []RoutingInv
  BY RoutingInvInit, RoutingInvStep, PTL DEF Spec

(* Type correctness of the invocation path. *)
THEOREM TypeCorrect == Spec => []TypeOK
<1>1. RoutingInv => TypeOK
  BY DEF RoutingInv
<1> QED  BY <1>1, RoutingInvariant, PTL

(* However many proxies a call crosses, only its caller gets an answer     *)
(* (Proxy::Invoke, Proxy::InvokeResponse).                                 *)
THEOREM OnlyCallerIsAnswered == Spec => []AnswersReachCaller
<1>1. RoutingInv => AnswersReachCaller
  BY DEF RoutingInv, AnswersTruthful, AnswersReachCaller
<1> QED  BY <1>1, RoutingInvariant, PTL

(* However many proxies pick a method anew, the result comes from one that *)
(* was registered for the identifier the call asked for (Proxy::Invoke).   *)
THEOREM OnlyRightMethodAnswers == Spec => []RightMethodAnswers
<1>1. RoutingInv => RightMethodAnswers
  BY DEF RoutingInv, AnswersTruthful, RightMethodAnswers
<1> QED  BY <1>1, RoutingInvariant, PTL

(* The table of callbacks and the table of their times have the same keys, *)
(* so that the clean-up finds every callback (Proxy::Invoke,               *)
(* Proxy::InvokeResponse, Proxy::CleanUpResponsesMap).                     *)
THEOREM TablesStayInStep == Spec => []CallbackTablesAgree
<1>1. RoutingInv => CallbackTablesAgree
  BY DEF RoutingInv
<1> QED  BY <1>1, RoutingInvariant, PTL

(* Steps that leave the callback tables alone keep every callback. *)
LEMMA TablesUntouched ==
  ASSUME UNCHANGED invokeResponses, NEW q \in Proxies, NEW k \in Calls
  PROVE  KeepsCallback(q, k)
  BY DEF KeepsCallback

(* insert never replaces a callback. *)
LEMMA RememberKeepsCallback ==
  ASSUME RoutingInv, NEW p \in Proxies, NEW req, RememberCaller(p, req),
         NEW q \in Proxies, NEW k \in Calls
  PROVE  KeepsCallback(q, k)
  BY DEF RoutingInv, TypeOK, RememberCaller, KeepsCallback

(* A response takes its own callback and no other. *)
LEMMA ForwardKeepsCallback ==
  ASSUME RoutingInv, NEW p \in Proxies, NEW s \in Procs, ForwardResponse(p, s),
         NEW q \in Proxies, NEW k \in Calls
  PROVE  KeepsCallback(q, k)
<1> DEFINE req == Head(chan[s][p])
           msg == Command(req.cmd, p, None, req.guid_from, req.guid_to, req.payload)
<1>1. /\ chan[s][p] # <<>> /\ req.cmd \in ResponseCmds
      /\ chan' = Publish(Poll(s, p), p, invokeResponses[p][req.guid_to], msg)
      /\ ForgetCallbacks(p, {req.guid_to})
  BY DEF ForwardResponse, Receives
<1>2. s # p /\ p \in Procs
  BY <1>1, Polled DEF Procs
<1>3. chan \in [Procs -> [Procs -> Seq(Message)]]
  BY DEF RoutingInv, TypeOK
<1>4. chan'[s][p] = Tail(chan[s][p])
  <2>1. Poll(s, p)[s][p] = Tail(chan[s][p])
    BY <1>2, <1>3 DEF Poll
  <2>2. chan'[s] = Poll(s, p)[s]
    BY <1>1, <1>2, <1>3 DEF Publish, Poll
  <2> QED  BY <2>1, <2>2
<1>5. invokeResponses'[q][k] = IF q = p /\ k = req.guid_to THEN None
                               ELSE invokeResponses[q][k]
  BY <1>1 DEF ForgetCallbacks, RoutingInv, TypeOK
<1> QED  BY <1>1, <1>4, <1>5 DEF KeepsCallback

(* The clean-up takes expired callbacks only. *)
LEMMA CleanUpKeepsCallback ==
  ASSUME RoutingInv, NEW p \in Proxies, CleanUpResponsesMap(p),
         NEW q \in Proxies, NEW k \in Calls
  PROVE  KeepsCallback(q, k)
<1>1. PICK gone \in SUBSET ExpiredCallbacks(p) : ForgetCallbacks(p, gone)
  BY DEF CleanUpResponsesMap
<1>2. invokeResponses'[q][k] = IF q = p /\ k \in gone THEN None
                               ELSE invokeResponses[q][k]
  BY <1>1 DEF ForgetCallbacks, RoutingInv, TypeOK
<1>3. k \in gone => invokeResponsesCallTime[p][k] > CallbackTTL
  BY <1>1 DEF ExpiredCallbacks
<1> QED  BY <1>2, <1>3 DEF KeepsCallback

LEMMA KeepsCallbackStep ==
  RoutingInv /\ [Next]_vars => [\A p \in Proxies, c \in Calls : KeepsCallback(p, c)]_vars
<1> SUFFICES ASSUME RoutingInv, Next, NEW q \in Proxies, NEW k \in Calls
             PROVE  KeepsCallback(q, k)
  OBVIOUS
<1>1. CASE NodeStep \/ RegistryStep \/ Tick \/ \E s, d \in Procs : Lose(s, d)
  BY <1>1, TablesUntouched DEF NodeStep, NodeRequest, NodeStartsWork,
     NodeGetsAnswer, NodeResponds, RegistryStep, Tick, Lose, tableVars
<1>2. ASSUME NEW p \in Proxies, NEW s \in Procs, SubscriberCallback(p, s)
      PROVE  KeepsCallback(q, k)
  <2>1. CASE InvokeLocal(p, s) \/ InvokeRemote(p, s)
    BY <2>1, RememberKeepsCallback DEF InvokeLocal, InvokeRemote
  <2>2. CASE ForwardResponse(p, s)
    BY <2>2, ForwardKeepsCallback
  <2>3. CASE InvokeNotFound(p, s) \/ CallbackNotFound(p, s) \/ PingRequest(p, s)
             \/ LogOnly(p, s) \/ UnknownCommand(p, s)
    BY <2>3, TablesUntouched DEF InvokeNotFound, CallbackNotFound, PingRequest,
       LogOnly, UnknownCommand, tableVars
  <2> QED  BY <1>2, <2>1, <2>2, <2>3 DEF SubscriberCallback, Invoke, InvokeResponse
<1>3. ASSUME NEW p \in Proxies, CleanUpResponsesMap(p)
      PROVE  KeepsCallback(q, k)
  BY <1>3, CleanUpKeepsCallback
<1> QED  BY <1>1, <1>2, <1>3 DEF Next, ProxyStep

(* No callback is redirected, and none leaves its table except with the    *)
(* answer it was kept for or after more than CallbackTTL seconds           *)
(* (Proxy::Invoke, Proxy::InvokeResponse, Proxy::CleanUpResponsesMap).     *)
THEOREM CallbacksAreKept == Spec => CallbackKept
  BY RoutingInvariant, KeepsCallbackStep, PTL DEF Spec, CallbackKept
=============================================================================
