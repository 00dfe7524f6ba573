------------------------- MODULE InvokePathProofs --------------------------
(***************************************************************************)
(* The way of one call and of its answer through any number of proxies:    *)
(* it is handed out and answered at most once, and while no clean-up took  *)
(* one of its callbacks the tables lead from wherever it is back to its    *)
(* caller.                                                                 *)
(***************************************************************************)
EXTENDS InvokeRoutingProofs

(* Message msg carries call c, as its sender or as its addressee. *)
Mentions(msg, c) == msg.guid_from = c \/ msg.guid_to = c

(* The i-th message from s to d carries call c. *)
At(ch, c, s, d, i) == i \in 1..Len(ch[s][d]) /\ Mentions(ch[s][d][i], c)

(* At most one message under way carries c. *)
OneToken(ch, c) ==
  \A s, d, a, b \in Procs : \A i, j \in Nat :
    At(ch, c, s, d, i) /\ At(ch, c, a, b, j) => s = a /\ d = b /\ i = j

NoWork(c) == \A n \in Nodes : \A w \in working[n] : w.call # c

NoCallback(c) == \A p \in Proxies : invokeResponses[p][c] = None

(* Every callback for c leads to its caller. *)
CallbacksComplete(c) ==
  \A p \in Proxies : invokeResponses[p][c] # None => p \in BackToCaller(c)

(* The return path of c, as far as message msg from s to d needs it. *)
PathOK(c, s, d, msg) ==
  /\ msg.cmd = "INVOKE" /\ msg.guid_from = c /\ s \in Nodes => NoCallback(c)
  /\ msg.cmd = "INVOKE" /\ msg.guid_from = c /\ s \in Proxies =>
       s \in BackToCaller(c) /\ CallbacksComplete(c)
  /\ msg.cmd \in ResponseCmds /\ msg.guid_to = c /\ d \in Proxies =>
       d \in BackToCaller(c)

(* What a message from s to d that carries c says of c. *)
TokenOK(c, s, d, msg) ==
  /\ issued[c] # None
  /\ answers[c] = <<>>
  /\ NoWork(c)
  /\ msg.cmd = "INVOKE" => served[c] = 0
  /\ c \notin purged => PathOK(c, s, d, msg)

TokensOK(c) ==
  \A s, d \in Procs : \A i \in Nat :
    At(chan, c, s, d, i) => TokenOK(c, s, d, chan[s][d][i])

WorkOK(c) ==
  \A n \in Nodes : \A w \in working[n] : w.call = c =>
    /\ issued[c] # None
    /\ answers[c] = <<>>
    /\ c \notin purged => w.proxy \in BackToCaller(c)
    /\ \A k \in Nodes : \A x \in working[k] : x.call = c => k = n /\ x = w

(* The inductive invariant: a call is at one place at a time, as a message *)
(* under way, as the work of one node or as the answer its caller has got. *)
PathInv(c) ==
  /\ OneToken(chan, c)
  /\ TokensOK(c)
  /\ WorkOK(c)
  /\ issued[c] = None => served[c] = 0 /\ answers[c] = <<>> /\ NoCallback(c)
  /\ served[c] <= 1
  /\ Len(answers[c]) <= 1

PathInvariant == RoutingInv /\ \A c \in Calls : PathInv(c)
----------------------------------------------------------------------------
(* Channels *)

Channels == [Procs -> [Procs -> Seq(Message)]]

(* Only the message msg from s to d may carry c. *)
OnlyToken(ch, c, s, d, msg) ==
  \A a, b \in Procs : \A i \in Nat :
    At(ch, c, a, b, i) => a = s /\ b = d /\ ch[a][b][i] = msg

(* Nothing carries c. *)
NoToken(ch, c) == \A a, b \in Procs : \A i \in Nat : ~At(ch, c, a, b, i)

(* What carries c in new did so in old. *)
FewerTokens(new, old, c) ==
  \A a, b \in Procs : \A i \in Nat :
    At(new, c, a, b, i) =>
      \E j \in Nat : At(old, c, a, b, j) /\ old[a][b][j] = new[a][b][i]

(* Subscriber::Poll takes one message and keeps the others in order. *)
LEMMA PollPositions ==
  ASSUME chan \in Channels, NEW s \in Procs, NEW d \in Procs, chan[s][d] # <<>>,
         NEW c, NEW a \in Procs, NEW b \in Procs, NEW i \in Nat,
         At(Poll(s, d), c, a, b, i)
  PROVE  \E j \in Nat : /\ At(chan, c, a, b, j)
                        /\ chan[a][b][j] = Poll(s, d)[a][b][i]
                        /\ j = IF a = s /\ b = d THEN i + 1 ELSE i
<1>1. CASE a = s /\ b = d
  <2>1. Poll(s, d)[a][b] = Tail(chan[s][d])
    BY <1>1 DEF Poll, Channels
  <2>2. chan[s][d] \in Seq(Message)
    BY DEF Channels
  <2>3. /\ Len(chan[s][d]) \in Nat /\ Len(Tail(chan[s][d])) = Len(chan[s][d]) - 1
        /\ \A k \in 1..Len(Tail(chan[s][d])) : Tail(chan[s][d])[k] = chan[s][d][k + 1]
    BY <2>2, HeadTailProperties, LenProperties
  <2>4. i \in 1..Len(Tail(chan[s][d])) /\ Mentions(Tail(chan[s][d])[i], c)
    BY <2>1 DEF At
  <2>5. i + 1 \in 1..Len(chan[s][d]) /\ Tail(chan[s][d])[i] = chan[s][d][i + 1]
    BY <2>3, <2>4
  <2>6. At(chan, c, a, b, i + 1) /\ chan[a][b][i + 1] = Poll(s, d)[a][b][i]
    BY <1>1, <2>1, <2>4, <2>5 DEF At
  <2> QED  BY <1>1, <2>6
<1>2. CASE ~(a = s /\ b = d)
  <2>1. Poll(s, d)[a][b] = chan[a][b]
    BY <1>2 DEF Poll, Channels
  <2>2. At(chan, c, a, b, i)
    BY <2>1 DEF At
  <2> QED  BY <1>2, <2>1, <2>2
<1> QED  BY <1>1, <1>2

(* A message that carries c is the only one, so polling it leaves none. *)
LEMMA PollTokens ==
  ASSUME chan \in Channels, NEW s \in Procs, NEW d \in Procs, chan[s][d] # <<>>,
         NEW c, OneToken(chan, c)
  PROVE  /\ OneToken(Poll(s, d), c)
         /\ FewerTokens(Poll(s, d), chan, c)
         /\ Mentions(Head(chan[s][d]), c) =>
              At(chan, c, s, d, 1) /\ NoToken(Poll(s, d), c)
<1>1. OneToken(Poll(s, d), c)
  <2> SUFFICES ASSUME NEW a \in Procs, NEW b \in Procs, NEW e \in Procs,
                      NEW f \in Procs, NEW i \in Nat, NEW j \in Nat,
                      At(Poll(s, d), c, a, b, i), At(Poll(s, d), c, e, f, j)
               PROVE  a = e /\ b = f /\ i = j
    BY DEF OneToken
  <2>1. PICK k \in Nat : /\ At(chan, c, a, b, k)
                         /\ k = IF a = s /\ b = d THEN i + 1 ELSE i
    BY PollPositions
  <2>2. PICK l \in Nat : /\ At(chan, c, e, f, l)
                         /\ l = IF e = s /\ f = d THEN j + 1 ELSE j
    BY PollPositions
  <2>3. a = e /\ b = f /\ k = l
    BY <2>1, <2>2 DEF OneToken
  <2> QED  BY <2>1, <2>2, <2>3
<1>2. FewerTokens(Poll(s, d), chan, c)
  BY PollPositions DEF FewerTokens
<1>3. ASSUME Mentions(Head(chan[s][d]), c)
      PROVE  At(chan, c, s, d, 1) /\ NoToken(Poll(s, d), c)
  <2>1. At(chan, c, s, d, 1)
    <3>1. chan[s][d] \in Seq(Message)
      BY DEF Channels
    <3>2. Len(chan[s][d]) \in Nat /\ Len(chan[s][d]) # 0
      BY <3>1, EmptySeq, LenProperties
    <3>3. Head(chan[s][d]) = chan[s][d][1]
      BY <3>1
    <3> QED  BY <1>3, <3>2, <3>3 DEF At
  <2>2. ASSUME NEW a \in Procs, NEW b \in Procs, NEW i \in Nat,
               At(Poll(s, d), c, a, b, i)
        PROVE  FALSE
    <3>1. PICK k \in Nat : /\ At(chan, c, a, b, k)
                           /\ k = IF a = s /\ b = d THEN i + 1 ELSE i
      BY <2>2, PollPositions
    <3>2. a = s /\ b = d /\ k = 1
      BY <2>1, <3>1 DEF OneToken
    <3>3. i = 0
      BY <3>1, <3>2
    <3>4. i \in 1..Len(Poll(s, d)[a][b])
      BY <2>2 DEF At
    <3> QED  BY <3>3, <3>4
  <2> QED  BY <2>1, <2>2 DEF NoToken
<1> QED  BY <1>1, <1>2, <1>3

(* Publisher::Publish appends the message or drops it. *)
LEMMA PublishPositions ==
  ASSUME NEW ch \in Channels, NEW s \in Procs, NEW target, NEW msg \in Message,
         NEW c, NEW a \in Procs, NEW b \in Procs, NEW i \in Nat,
         At(Publish(ch, s, target, msg), c, a, b, i)
  PROVE  \/ /\ At(ch, c, a, b, i)
            /\ ch[a][b][i] = Publish(ch, s, target, msg)[a][b][i]
         \/ /\ a = s /\ b = target /\ i = Len(ch[s][target]) + 1
            /\ Publish(ch, s, target, msg)[a][b][i] = msg
            /\ Mentions(msg, c)
<1> DEFINE new == Publish(ch, s, target, msg)
<1>1. CASE target \in Procs /\ Len(ch[s][target]) < HWM /\ a = s /\ b = target
  <2>1. new[a][b] = Append(ch[s][target], msg)
    BY <1>1 DEF Publish, Channels
  <2>2. ch[s][target] \in Seq(Message)
    BY <1>1 DEF Channels
  <2>3. /\ Len(ch[s][target]) \in Nat
        /\ Len(Append(ch[s][target], msg)) = Len(ch[s][target]) + 1
        /\ \A k \in 1..Len(ch[s][target]) :
             Append(ch[s][target], msg)[k] = ch[s][target][k]
        /\ Append(ch[s][target], msg)[Len(ch[s][target]) + 1] = msg
    BY <2>2, AppendProperties, LenProperties
  <2>4. i \in 1..(Len(ch[s][target]) + 1) /\ Mentions(new[a][b][i], c)
    BY <2>1, <2>3 DEF At
  <2>5. CASE i \in 1..Len(ch[s][target])
    BY <1>1, <2>1, <2>3, <2>4, <2>5 DEF At
  <2>6. CASE i = Len(ch[s][target]) + 1
    BY <1>1, <2>1, <2>3, <2>4, <2>6
  <2> QED  BY <2>3, <2>4, <2>5, <2>6
<1>2. CASE ~(target \in Procs /\ Len(ch[s][target]) < HWM /\ a = s /\ b = target)
  <2>1. new[a][b] = ch[a][b]
    BY <1>2 DEF Publish, Channels
  <2> QED  BY <2>1 DEF At
<1> QED  BY <1>1, <1>2

(* A message that does not carry c adds no token of c. *)
LEMMA PublishOther ==
  ASSUME NEW ch \in Channels, NEW s \in Procs, NEW target, NEW msg \in Message,
         NEW c, OneToken(ch, c), ~Mentions(msg, c)
  PROVE  /\ OneToken(Publish(ch, s, target, msg), c)
         /\ FewerTokens(Publish(ch, s, target, msg), ch, c)
<1>1. ASSUME NEW a \in Procs, NEW b \in Procs, NEW i \in Nat,
             At(Publish(ch, s, target, msg), c, a, b, i)
      PROVE  /\ At(ch, c, a, b, i)
             /\ ch[a][b][i] = Publish(ch, s, target, msg)[a][b][i]
  BY <1>1, PublishPositions
<1> HIDE DEF At, Mentions
<1> QED  BY <1>1 DEF OneToken, FewerTokens

(* Where nothing carries c, a message is its only token. *)
LEMMA PublishToken ==
  ASSUME NEW ch \in Channels, NEW s \in Procs, NEW target, NEW msg \in Message,
         NEW c, NoToken(ch, c)
  PROVE  /\ OneToken(Publish(ch, s, target, msg), c)
         /\ OnlyToken(Publish(ch, s, target, msg), c, s, target, msg)
<1>1. ASSUME NEW a \in Procs, NEW b \in Procs, NEW i \in Nat,
             At(Publish(ch, s, target, msg), c, a, b, i)
      PROVE  /\ a = s /\ b = target /\ i = Len(ch[s][target]) + 1
             /\ Publish(ch, s, target, msg)[a][b][i] = msg
  <2>1. ~At(ch, c, a, b, i)
    BY DEF NoToken
  <2>2. \/ /\ At(ch, c, a, b, i)
           /\ ch[a][b][i] = Publish(ch, s, target, msg)[a][b][i]
        \/ /\ a = s /\ b = target /\ i = Len(ch[s][target]) + 1
           /\ Publish(ch, s, target, msg)[a][b][i] = msg
           /\ Mentions(msg, c)
    BY <1>1, PublishPositions
  <2> QED  BY <2>1, <2>2
<1> DEFINE new == Publish(ch, s, target, msg)
<1>2. ASSUME NEW a \in Procs, NEW b \in Procs, NEW e \in Procs, NEW f \in Procs,
             NEW i \in Nat, NEW j \in Nat,
             At(new, c, a, b, i), At(new, c, e, f, j)
      PROVE  a = e /\ b = f /\ i = j
  <2>1. a = s /\ b = target /\ i = Len(ch[s][target]) + 1
    BY <1>1, <1>2
  <2>2. e = s /\ f = target /\ j = Len(ch[s][target]) + 1
    BY <1>1, <1>2
  <2> QED  BY <2>1, <2>2
<1> HIDE DEF new
<1>3. OneToken(new, c)
  BY <1>2 DEF OneToken
<1> QED  BY <1>1, <1>3 DEF OnlyToken, new

(* A handler polls one message and sends at most one, which carries no     *)
(* call that the first did not: either c is not concerned, or the message  *)
(* sent is all that is left of it.                                         *)
LEMMA Relay ==
  ASSUME RoutingInv, NEW p \in Proxies, NEW s \in Procs, chan[s][p] # <<>>,
         NEW target, NEW msg \in Message, NEW c, OneToken(chan, c),
         Mentions(msg, c) => Mentions(Head(chan[s][p]), c),
         chan' = Publish(Poll(s, p), p, target, msg)
  PROVE  /\ OneToken(chan', c)
         /\ \/ /\ ~Mentions(Head(chan[s][p]), c)
               /\ FewerTokens(chan', chan, c)
            \/ /\ Mentions(Head(chan[s][p]), c)
               /\ At(chan, c, s, p, 1)
               /\ OnlyToken(chan', c, p, target, msg)
<1>1. p \in Procs /\ chan \in Channels /\ Poll(s, p) \in Channels
  BY Polled DEF Procs, Channels, ChannelsIn, RoutingInv, TypeOK
<1>2. /\ OneToken(Poll(s, p), c)
      /\ FewerTokens(Poll(s, p), chan, c)
      /\ Mentions(Head(chan[s][p]), c) =>
           At(chan, c, s, p, 1) /\ NoToken(Poll(s, p), c)
  BY <1>1, PollTokens
<1>3. CASE Mentions(Head(chan[s][p]), c)
  BY <1>1, <1>2, <1>3, PublishToken
<1>4. CASE ~Mentions(Head(chan[s][p]), c)
  <2>1. OneToken(chan', c) /\ FewerTokens(chan', Poll(s, p), c)
    BY <1>1, <1>2, <1>4, PublishOther
  <2>2. FewerTokens(chan', chan, c)
    BY <1>2, <2>1 DEF FewerTokens
  <2> QED  BY <1>4, <2>1, <2>2
<1> QED  BY <1>3, <1>4
----------------------------------------------------------------------------
(* The callback tables *)

(* The way back depends on the callbacks for c alone. *)
LEMMA BackUnchanged ==
  ASSUME NEW c, \A p \in Proxies : invokeResponses'[p][c] = invokeResponses[p][c]
  PROVE  /\ BackToCaller(c)' = BackToCaller(c)
         /\ NoCallback(c)' <=> NoCallback(c)
         /\ CallbacksComplete(c)' <=> CallbacksComplete(c)
<1>1. ASSUME NEW S \in SUBSET Proxies
      PROVE  ClosedBackwards(S, c)' <=> ClosedBackwards(S, c)
  BY DEF ClosedBackwards
<1>2. BackToCaller(c)' = BackToCaller(c)
  BY <1>1 DEF BackToCaller
<1>3. NoCallback(c)' <=> NoCallback(c)
  BY DEF NoCallback
<1> QED  BY <1>2, <1>3 DEF CallbacksComplete

(* Proxy::Invoke joins the proxy to the way back. *)
LEMMA RememberJoins ==
  ASSUME RoutingInv, NEW p \in Proxies, NEW req, NEW s \in Procs, NEW c \in Calls,
         RememberCaller(p, req), req.guid_from = c, req.source_proxy_guid = s,
         s \in Nodes => s = Caller[c] /\ NoCallback(c),
         s \in Proxies => s \in BackToCaller(c) /\ CallbacksComplete(c)
  PROVE  p \in BackToCaller(c)' /\ CallbacksComplete(c)'
<1>1. ASSUME NEW q \in Proxies
      PROVE  invokeResponses'[q][c] =
               IF q = p /\ invokeResponses[p][c] = None THEN s
               ELSE invokeResponses[q][c]
  BY DEF RememberCaller, RoutingInv, TypeOK
<1>2. None \notin Proxies /\ Caller[c] # None
  BY RegistryAssumption, RoutingAssumption
<1>3. BackToCaller(c) \subseteq BackToCaller(c)'
  <2> SUFFICES ASSUME NEW q \in BackToCaller(c), NEW S \in SUBSET Proxies,
                      ClosedBackwards(S, c)'
               PROVE  q \in S
    BY DEF BackToCaller
  <2>1. ASSUME NEW r \in Proxies,
               invokeResponses[r][c] = Caller[c] \/ invokeResponses[r][c] \in S
        PROVE  r \in S
    <3>1. invokeResponses[r][c] # None
      BY <1>2, <2>1
    <3>2. invokeResponses'[r][c] = invokeResponses[r][c]
      BY <1>1, <3>1
    <3> QED  BY <2>1, <3>2 DEF ClosedBackwards
  <2>2. ClosedBackwards(S, c)
    BY <2>1 DEF ClosedBackwards
  <2> QED  BY <2>2 DEF BackToCaller
<1>4. p \in BackToCaller(c)'
  <2>1. CASE invokeResponses[p][c] # None
    <3>1. s \in Proxies
      BY <2>1 DEF NoCallback, Procs
    <3> QED  BY <1>3, <2>1, <3>1 DEF CallbacksComplete
  <2>2. CASE invokeResponses[p][c] = None
    <3> SUFFICES ASSUME NEW S \in SUBSET Proxies, ClosedBackwards(S, c)'
                 PROVE  p \in S
      BY DEF BackToCaller
    <3>1. invokeResponses'[p][c] = s
      BY <1>1, <2>2
    <3>2. CASE s \in Nodes
      BY <3>1, <3>2 DEF ClosedBackwards
    <3>3. CASE s \in Proxies
      <4>1. s \in S
        BY <1>3, <3>3 DEF BackToCaller
      <4> QED  BY <3>1, <4>1 DEF ClosedBackwards
    <3> QED  BY <3>2, <3>3 DEF Procs
  <2> QED  BY <2>1, <2>2
<1>5. ASSUME NEW q \in Proxies, invokeResponses'[q][c] # None
      PROVE  q \in BackToCaller(c)'
  <2>1. CASE q = p
    BY <1>4, <2>1
  <2>2. CASE q # p
    <3>1. invokeResponses[q][c] # None
      BY <1>1, <1>5, <2>2
    <3>2. s \in Proxies
      BY <3>1 DEF NoCallback, Procs
    <3> QED  BY <1>3, <3>1, <3>2 DEF CallbacksComplete
  <2> QED  BY <2>1, <2>2
<1> QED  BY <1>4, <1>5 DEF CallbacksComplete

(* Proxy::InvokeResponse takes the proxy off the way back, and the rest of *)
(* the way does not lead through it.                                       *)
LEMMA ForgetAdvances ==
  ASSUME RoutingInv, NEW p \in Proxies, NEW c \in Calls, NEW q \in Proxies,
         invokeResponses[p][c] = q, p \in BackToCaller(c),
         ForgetCallbacks(p, {c})
  PROVE  q \in BackToCaller(c)'
<1>1. ASSUME NEW r \in Proxies
      PROVE  invokeResponses'[r][c] = IF r = p THEN None ELSE invokeResponses[r][c]
  BY DEF ForgetCallbacks, RoutingInv, TypeOK
<1> SUFFICES ASSUME NEW S \in SUBSET Proxies, ClosedBackwards(S, c)', q \notin S
             PROVE  FALSE
  BY DEF BackToCaller
<1>2. ClosedBackwards(S \ {p}, c)
  <2> SUFFICES ASSUME NEW r \in Proxies,
                      \/ invokeResponses[r][c] = Caller[c]
                      \/ invokeResponses[r][c] \in S \ {p}
               PROVE  r \in S \ {p}
    BY DEF ClosedBackwards
  <2>1. r # p
    BY RegistryAssumption, RoutingAssumption
  <2>2. invokeResponses'[r][c] = invokeResponses[r][c]
    BY <1>1, <2>1
  <2> QED  BY <2>1, <2>2 DEF ClosedBackwards
<1>3. p \in S \ {p}
  BY <1>2 DEF BackToCaller
<1> QED  BY <1>3
----------------------------------------------------------------------------
(* Steps *)

(* A step that c has no part in, except that messages may be lost. *)
Elsewhere(c) ==
  /\ issued'[c] = issued[c] /\ served'[c] = served[c] /\ answers'[c] = answers[c]
  /\ \A n \in Nodes : \A w \in working'[n] : w.call = c => w \in working[n]
  /\ NoCallback(c) => NoCallback(c)'
  /\ c \notin purged' =>
       /\ c \notin purged
       /\ \A p \in Proxies : invokeResponses'[p][c] = invokeResponses[p][c]

LEMMA ElsewhereKeeps ==
  ASSUME NEW c, PathInv(c), Elsewhere(c), OneToken(chan', c),
         FewerTokens(chan', chan, c)
  PROVE  PathInv(c)'
<1>1. OneToken(chan, c)'
  BY DEF OneToken
<1>2. NoWork(c) => NoWork(c)'
  BY DEF NoWork, Elsewhere
<1>3. c \notin purged' =>
        /\ c \notin purged
        /\ BackToCaller(c)' = BackToCaller(c)
        /\ NoCallback(c)' <=> NoCallback(c)
        /\ CallbacksComplete(c)' <=> CallbacksComplete(c)
  BY BackUnchanged DEF Elsewhere
<1>4. ASSUME NEW s, NEW d, NEW msg, TokenOK(c, s, d, msg)
      PROVE  TokenOK(c, s, d, msg)'
  <2>1. c \notin purged' => PathOK(c, s, d, msg)'
    BY <1>3, <1>4 DEF TokenOK, PathOK
  <2> QED  BY <1>2, <1>4, <2>1 DEF TokenOK, Elsewhere
<1>5. TokensOK(c)'
  <2> SUFFICES ASSUME NEW s \in Procs, NEW d \in Procs, NEW i \in Nat,
                      At(chan', c, s, d, i)
               PROVE  TokenOK(c, s, d, chan[s][d][i])'
    BY DEF TokensOK
  <2>1. PICK j \in Nat : At(chan, c, s, d, j) /\ chan[s][d][j] = chan'[s][d][i]
    BY DEF FewerTokens
  <2>2. TokenOK(c, s, d, chan[s][d][j])
    BY <2>1 DEF PathInv, TokensOK
  <2> QED  BY <1>4, <2>1, <2>2
<1>6. WorkOK(c)'
  <2> SUFFICES ASSUME NEW n \in Nodes, NEW w \in working'[n], w.call = c
               PROVE  /\ issued'[c] # None
                      /\ answers'[c] = <<>>
                      /\ c \notin purged' => w.proxy \in BackToCaller(c)'
                      /\ \A k \in Nodes : \A x \in working'[k] :
                           x.call = c => k = n /\ x = w
    BY DEF WorkOK
  <2>1. w \in working[n]
    BY DEF Elsewhere
  <2> QED  BY <1>3, <2>1 DEF PathInv, WorkOK, Elsewhere
<1> QED  BY <1>1, <1>5, <1>6 DEF PathInv, Elsewhere

(* The handler of a proxy turns the one message that carries c into the    *)
(* only one, msg, which keeps the return path.                             *)
LEMMA TokenMoves ==
  ASSUME NEW c, PathInv(c), UNCHANGED <<nodeVars, purged>>,
         NEW s \in Procs, NEW p \in Procs, At(chan, c, s, p, 1),
         NEW target, NEW msg,
         OneToken(chan', c), OnlyToken(chan', c, p, target, msg),
         msg.cmd = "INVOKE" => chan[s][p][1].cmd = "INVOKE",
         /\ Mentions(msg, c) /\ c \notin purged
         /\ target \in Procs /\ PathOK(c, s, p, chan[s][p][1])
         => PathOK(c, p, target, msg)'
  PROVE  PathInv(c)'
<1> USE DEF nodeVars
<1>1. TokenOK(c, s, p, chan[s][p][1])
  BY DEF PathInv, TokensOK
<1>2. OneToken(chan, c)'
  BY DEF OneToken
<1>3. NoWork(c)'
  BY <1>1 DEF TokenOK, NoWork
<1>4. TokensOK(c)'
  <2> SUFFICES ASSUME NEW a \in Procs, NEW b \in Procs, NEW i \in Nat,
                      At(chan', c, a, b, i)
               PROVE  TokenOK(c, a, b, chan[a][b][i])'
    BY DEF TokensOK
  <2>1. a = p /\ b = target /\ chan'[a][b][i] = msg
    BY DEF OnlyToken
  <2>2. Mentions(msg, c)
    BY <2>1 DEF At
  <2>3. TokenOK(c, p, target, msg)'
    BY <1>1, <1>3, <2>1, <2>2 DEF TokenOK
  <2> QED  BY <2>1, <2>3
<1>5. WorkOK(c)'
  BY <1>3 DEF WorkOK, NoWork
<1> QED  BY <1>1, <1>2, <1>4, <1>5 DEF PathInv, TokenOK

(* Columns of the tables that a handler leaves alone. *)
LEMMA HandlerElsewhere ==
  ASSUME NEW c, UNCHANGED <<nodeVars, purged>>,
         \A q \in Proxies : invokeResponses'[q][c] = invokeResponses[q][c]
  PROVE  Elsewhere(c)
  BY DEF Elsewhere, nodeVars, NoCallback

(* Proxy::Invoke hands the call on and joins the way back. *)
LEMMA InvokeKeepsPath ==
  ASSUME RoutingInv, NEW c \in Calls, PathInv(c),
         NEW p \in Proxies, NEW s \in Procs, Receives(p, s, "INVOKE"),
         NEW m \in Methods, NEW target, NEW req, NEW msg \in Message,
         req = Head(chan[s][p]), msg = InvokeCommand(p, req, m),
         RememberCaller(p, req),
         chan' = Publish(Poll(s, p), p, target, msg),
         UNCHANGED <<nodeVars, purged>>
  PROVE  PathInv(c)'
<1>1. chan[s][p] # <<>> /\ req.cmd = "INVOKE"
  BY DEF Receives
<1>2. req \in Message /\ Truthful(s, p, req)
  BY <1>1, Polled
<1>3. /\ msg.cmd = "INVOKE" /\ msg.guid_from = req.guid_from /\ msg.guid_to = m
      /\ m # c /\ p \notin Nodes /\ p \in Procs
  BY RegistryAssumption, RoutingAssumption DEF InvokeCommand, Command, Procs
<1>4. Mentions(msg, c) => req.guid_from = c
  BY <1>3 DEF Mentions
<1>5. /\ OneToken(chan', c)
      /\ \/ ~Mentions(req, c) /\ FewerTokens(chan', chan, c)
         \/ Mentions(req, c) /\ At(chan, c, s, p, 1)
            /\ OnlyToken(chan', c, p, target, msg)
  <2>1. Mentions(msg, c) => Mentions(req, c)
    BY <1>4 DEF Mentions
  <2> QED  BY <1>1, <2>1, Relay DEF PathInv
<1>6. CASE ~Mentions(req, c)
  <2>1. req.guid_from # c
    BY <1>6 DEF Mentions
  <2>2. \A q \in Proxies : invokeResponses'[q][c] = invokeResponses[q][c]
    BY <2>1 DEF RememberCaller, RoutingInv, TypeOK
  <2>3. Elsewhere(c)
    BY <2>2, HandlerElsewhere
  <2> QED  BY <1>5, <1>6, <2>3, ElsewhereKeeps
<1>7. CASE Mentions(req, c)
  <2>1. chan[s][p][1] = req
    BY <1>1, <1>3 DEF RoutingInv, TypeOK
  <2>2. ASSUME Mentions(msg, c), PathOK(c, s, p, req)
        PROVE  PathOK(c, p, target, msg)'
    <3>1. req.guid_from = c /\ req.source_proxy_guid = s
      BY <1>2, <1>4, <2>2 DEF Truthful
    <3>2. s \in Nodes => s = Caller[c] /\ NoCallback(c)
      BY <1>1, <1>2, <2>2, <3>1 DEF Truthful, PathOK
    <3>3. s \in Proxies => s \in BackToCaller(c) /\ CallbacksComplete(c)
      BY <1>1, <2>2, <3>1 DEF PathOK
    <3>4. p \in BackToCaller(c)' /\ CallbacksComplete(c)'
      BY <3>1, <3>2, <3>3, RememberJoins
    <3> QED  BY <1>3, <3>4 DEF PathOK, ResponseCmds
  <2> QED  BY <1>1, <1>3, <1>5, <1>7, <2>1, <2>2, TokenMoves
<1> QED  BY <1>6, <1>7

(* The handlers that leave the tables alone and send no INVOKE and no      *)
(* response to a proxy.                                                    *)
LEMMA ReplyKeepsPath ==
  ASSUME RoutingInv, NEW c \in Calls, PathInv(c),
         NEW p \in Proxies, NEW s \in Procs, chan[s][p] # <<>>,
         NEW target, NEW msg \in Message,
         Mentions(msg, c) => Mentions(Head(chan[s][p]), c),
         msg.cmd # "INVOKE", msg.cmd \in ResponseCmds => target \notin Proxies,
         chan' = Publish(Poll(s, p), p, target, msg),
         UNCHANGED <<tableVars, nodeVars, purged>>
  PROVE  PathInv(c)'
<1>1. /\ OneToken(chan', c)
      /\ \/ ~Mentions(Head(chan[s][p]), c) /\ FewerTokens(chan', chan, c)
         \/ Mentions(Head(chan[s][p]), c) /\ At(chan, c, s, p, 1)
            /\ OnlyToken(chan', c, p, target, msg)
  BY Relay DEF PathInv
<1>2. CASE FewerTokens(chan', chan, c)
  <2>1. Elsewhere(c)
    BY HandlerElsewhere DEF tableVars
  <2> QED  BY <1>1, <1>2, <2>1, ElsewhereKeeps
<1>3. CASE At(chan, c, s, p, 1) /\ OnlyToken(chan', c, p, target, msg)
  <2>1. PathOK(c, p, target, msg)'
    BY DEF PathOK
  <2>2. p \in Procs
    BY DEF Procs
  <2> QED  BY <1>1, <1>3, <2>1, <2>2, TokenMoves
<1> QED  BY <1>1, <1>2, <1>3

(* Proxy::InvokeResponse hands the answer to the next proxy of the way.    *)
LEMMA ForwardKeepsPath ==
  ASSUME RoutingInv, NEW c \in Calls, PathInv(c),
         NEW p \in Proxies, NEW s \in Procs, ForwardResponse(p, s)
  PROVE  PathInv(c)'
<1>1. PICK req : req = Head(chan[s][p])
  OBVIOUS
<1>2. PICK target : target = invokeResponses[p][req.guid_to]
  OBVIOUS
<1>3. PICK msg : msg = Command(req.cmd, p, None, req.guid_from, req.guid_to, req.payload)
  OBVIOUS
<1>4. /\ chan[s][p] # <<>> /\ req.cmd \in ResponseCmds
      /\ chan' = Publish(Poll(s, p), p, target, msg)
      /\ ForgetCallbacks(p, {req.guid_to})
      /\ UNCHANGED <<nodeVars, purged>>
  BY <1>1, <1>2, <1>3 DEF ForwardResponse, Receives
<1>5. req \in Message /\ Truthful(s, p, req) /\ p \in Procs
  BY <1>1, <1>4, Polled DEF Procs
<1>6. msg \in Message
  BY <1>3, <1>5 DEF Command, Message
<1>7. /\ msg.cmd = req.cmd /\ msg.guid_from = req.guid_from
      /\ msg.guid_to = req.guid_to /\ msg.cmd # "INVOKE"
  BY <1>3, <1>4 DEF Command, ResponseCmds
<1>8. /\ OneToken(chan', c)
      /\ \/ ~Mentions(req, c) /\ FewerTokens(chan', chan, c)
         \/ Mentions(req, c) /\ At(chan, c, s, p, 1)
            /\ OnlyToken(chan', c, p, target, msg)
  <2>1. Mentions(msg, c) => Mentions(req, c)
    BY <1>7 DEF Mentions
  <2> QED  BY <1>1, <1>4, <1>6, <2>1, Relay DEF PathInv
<1>9. CASE ~Mentions(req, c)
  <2>1. req.guid_to # c
    BY <1>9 DEF Mentions
  <2>2. \A q \in Proxies : invokeResponses'[q][c] = invokeResponses[q][c]
    BY <1>4, <2>1 DEF ForgetCallbacks, RoutingInv, TypeOK
  <2>3. Elsewhere(c)
    BY <1>4, <2>2, HandlerElsewhere
  <2> QED  BY <1>8, <1>9, <2>3, ElsewhereKeeps
<1>10. CASE Mentions(req, c)
  <2>1. chan[s][p][1] = req
    BY <1>1, <1>4, <1>5 DEF RoutingInv, TypeOK
  <2>2. ASSUME PathOK(c, s, p, req)
        PROVE  PathOK(c, p, target, msg)'
    <3>1. CASE msg.guid_to = c /\ target \in Proxies
      <4>1. p \in BackToCaller(c)
        BY <1>4, <1>7, <2>2, <3>1 DEF PathOK
      <4>2. target \in BackToCaller(c)'
        BY <1>2, <1>4, <1>7, <3>1, <4>1, ForgetAdvances
      <4> QED  BY <1>7, <4>2 DEF PathOK
    <3>2. CASE ~(msg.guid_to = c /\ target \in Proxies)
      BY <1>7, <3>2 DEF PathOK
    <3> QED  BY <3>1, <3>2
  <2> QED  BY <1>4, <1>5, <1>7, <1>8, <1>10, <2>1, <2>2, TokenMoves
<1> QED  BY <1>9, <1>10

(* A message is taken from its channel and nothing else happens to c. *)
LEMMA DropKeepsPath ==
  ASSUME RoutingInv, NEW c \in Calls, PathInv(c),
         NEW s \in Procs, NEW d \in Procs, chan[s][d] # <<>>,
         chan' = Poll(s, d), UNCHANGED <<tableVars, nodeVars, purged>>
  PROVE  PathInv(c)'
<1>1. OneToken(chan', c) /\ FewerTokens(chan', chan, c)
  BY PollTokens DEF RoutingInv, TypeOK, Channels, PathInv
<1>2. Elsewhere(c)
  BY HandlerElsewhere DEF tableVars
<1> QED  BY <1>1, <1>2, ElsewhereKeeps

(* The ERROR replies. *)
LEMMA ErrorKeepsPath ==
  ASSUME RoutingInv, NEW c \in Calls, PathInv(c),
         NEW p \in Proxies, NEW s \in Procs, chan[s][p] # <<>>, NEW target,
         chan' = Publish(Poll(s, p), p, target,
                   Command("ERROR", p, None, p, Head(chan[s][p]).guid_from, None)),
         UNCHANGED <<tableVars, nodeVars, purged>>
  PROVE  PathInv(c)'
<1>1. PICK msg : msg = Command("ERROR", p, None, p, Head(chan[s][p]).guid_from, None)
  OBVIOUS
<1>2. Head(chan[s][p]) \in Message /\ p \notin Nodes
  BY Polled, RegistryAssumption
<1>3. Head(chan[s][p]).guid_from \in Calls \cup Procs \cup {None}
  BY <1>2 DEF Message
<1>4. msg \in Message
  BY <1>1, <1>2, <1>3, ErrorTruthful
<1>5. msg.cmd = "ERROR" /\ msg.guid_from = p /\ msg.guid_to = Head(chan[s][p]).guid_from
  BY <1>1 DEF Command
<1>6. Mentions(msg, c) => Mentions(Head(chan[s][p]), c)
  BY <1>5, RoutingAssumption DEF Mentions
<1>7. msg.cmd # "INVOKE" /\ msg.cmd \notin ResponseCmds
  BY <1>5 DEF ResponseCmds
<1> QED  BY <1>1, <1>4, <1>6, <1>7, ReplyKeepsPath

LEMMA PingKeepsPath ==
  ASSUME RoutingInv, NEW c \in Calls, PathInv(c),
         NEW p \in Proxies, NEW s \in Procs, PingRequest(p, s)
  PROVE  PathInv(c)'
<1>1. PICK req : req = Head(chan[s][p])
  OBVIOUS
<1>2. PICK msg : msg = Command("RESPONSE", p, None, None, req.guid_from, None)
  OBVIOUS
<1>3. /\ chan[s][p] # <<>> /\ req.cmd = "PING"
      /\ chan' = Publish(Poll(s, p), p, req.source_proxy_guid, msg)
      /\ UNCHANGED <<tableVars, nodeVars, purged>>
  BY <1>1, <1>2 DEF PingRequest, Receives
<1>4. Truthful(s, p, req)
  BY <1>1, <1>3, Polled
<1>5. req.guid_from \in Calls /\ req.source_proxy_guid \notin Proxies
  BY <1>3, <1>4, RegistryAssumption, RoutingAssumption DEF Truthful
<1>6. msg \in Message
  BY <1>2, <1>5 DEF Command, Message, Cmds, ResponseCmds, Procs
<1>7. msg.cmd = "RESPONSE" /\ msg.guid_from = None /\ msg.guid_to = req.guid_from
  BY <1>2 DEF Command
<1>8. Mentions(msg, c) => Mentions(req, c)
  BY <1>7, RoutingAssumption DEF Mentions
<1> QED  BY <1>1, <1>3, <1>5, <1>6, <1>7, <1>8, ReplyKeepsPath

LEMMA InvokeLocalKeepsPath ==
  ASSUME RoutingInv, NEW c \in Calls, PathInv(c),
         NEW p \in Proxies, NEW s \in Procs, InvokeLocal(p, s)
  PROVE  PathInv(c)'
<1>1. PICK req : req = Head(chan[s][p])
  OBVIOUS
<1>2. Receives(p, s, "INVOKE") /\ UNCHANGED <<nodeVars, purged>>
  BY DEF InvokeLocal
<1>3. PICK m \in LocalInvokeMethods(p, req.identifier) :
        /\ RememberCaller(p, req)
        /\ chan' = Publish(Poll(s, p), p, Owner[m], InvokeCommand(p, req, m))
  BY <1>1 DEF InvokeLocal
<1>4. m \in Methods /\ Provides[m] = req.identifier /\ m \in advertised[p]
  BY <1>3 DEF LocalInvokeMethods, RoutingInv, TypeOK, RegistryTypeOK, OffersAdvertised
<1>5. req \in Message /\ Truthful(s, p, req) /\ req.cmd = "INVOKE"
  BY <1>1, <1>2, Polled DEF Receives
<1>6. InvokeCommand(p, req, m) \in Message
  BY <1>4, <1>5, InvokeCommandTruthful
<1> QED  BY <1>1, <1>2, <1>3, <1>4, <1>6, InvokeKeepsPath

LEMMA InvokeRemoteKeepsPath ==
  ASSUME RoutingInv, NEW c \in Calls, PathInv(c),
         NEW p \in Proxies, NEW s \in Procs, InvokeRemote(p, s)
  PROVE  PathInv(c)'
<1>1. PICK req : req = Head(chan[s][p])
  OBVIOUS
<1>2. Receives(p, s, "INVOKE") /\ UNCHANGED <<nodeVars, purged>>
  BY DEF InvokeRemote
<1>3. PICK m \in RemoteInvokeMethods(p, req.identifier) :
        /\ RememberCaller(p, req)
        /\ chan' = Publish(Poll(s, p), p, routes[p][m], InvokeCommand(p, req, m))
  BY <1>1 DEF InvokeRemote
<1>4. /\ m \in Methods /\ Provides[m] = req.identifier
      /\ \E q \in Proxies : m \in advertised[q]
  BY <1>3 DEF RemoteInvokeMethods, RoutingInv, TypeOK, RegistryTypeOK,
     RoutesWereAdvertised
<1>5. req \in Message /\ Truthful(s, p, req) /\ req.cmd = "INVOKE"
  BY <1>1, <1>2, Polled DEF Receives
<1>6. InvokeCommand(p, req, m) \in Message
  BY <1>4, <1>5, InvokeCommandTruthful
<1> QED  BY <1>1, <1>2, <1>3, <1>4, <1>6, InvokeKeepsPath

LEMMA CallbackKeepsPath ==
  ASSUME RoutingInv, NEW c \in Calls, PathInv(c),
         NEW p \in Proxies, NEW s \in Procs, SubscriberCallback(p, s)
  PROVE  PathInv(c)'
<1>1. CASE InvokeLocal(p, s)
  BY <1>1, InvokeLocalKeepsPath
<1>2. CASE InvokeRemote(p, s)
  BY <1>2, InvokeRemoteKeepsPath
<1>3. CASE InvokeNotFound(p, s)
  BY <1>3, ErrorKeepsPath DEF InvokeNotFound, Receives
<1>4. CASE ForwardResponse(p, s)
  BY <1>4, ForwardKeepsPath
<1>5. CASE CallbackNotFound(p, s)
  BY <1>5, ErrorKeepsPath DEF CallbackNotFound, Receives
<1>6. CASE PingRequest(p, s)
  BY <1>6, PingKeepsPath
<1>7. CASE LogOnly(p, s)
  BY <1>7, DropKeepsPath DEF LogOnly, Receives, Procs
<1>8. CASE UnknownCommand(p, s)
  BY <1>8, ErrorKeepsPath DEF UnknownCommand, Receives
<1> QED  BY <1>1, <1>2, <1>3, <1>4, <1>5, <1>6, <1>7, <1>8
         DEF SubscriberCallback, Invoke, InvokeResponse
----------------------------------------------------------------------------
(* The nodes, the clean-up and the rest *)

LEMMA RequestKeepsPath ==
  ASSUME RoutingInv, NEW c \in Calls, PathInv(c), NEW k \in Calls,
         NEW p \in Proxies, NEW cmd \in NodeCmds, NodeRequest(k, p, cmd)
  PROVE  PathInv(c)'
<1>1. PICK n : n = Caller[k]
  OBVIOUS
<1>2. PICK msg : msg = Command(cmd, n, Wants[k], k, None, None)
  OBVIOUS
<1>3. /\ issued[k] = None
      /\ issued' = [issued EXCEPT ![k] = cmd]
      /\ chan' = Publish(chan, n, p, msg)
      /\ UNCHANGED <<tableVars, working, served, answers, purged>>
  BY <1>1, <1>2 DEF NodeRequest
<1>4. /\ n \in Nodes /\ n \in Procs /\ p \in Procs /\ n \notin Proxies
      /\ cmd \in RequestCmds /\ cmd # None
  BY <1>1, RegistryAssumption, RoutingAssumption DEF Procs, Cmds
<1>5. chan \in Channels /\ issued'[c] = IF c = k THEN cmd ELSE issued[c]
  BY <1>3 DEF RoutingInv, TypeOK, Channels
<1>6. msg \in Message
  BY <1>2, <1>4, RoutingAssumption DEF Command, Message, Cmds
<1>7. msg.guid_from = k /\ msg.guid_to = None /\ msg.cmd = cmd
  BY <1>2 DEF Command
<1>8. CASE c # k
  <2>1. ~Mentions(msg, c)
    BY <1>7, <1>8, RoutingAssumption DEF Mentions
  <2>2. OneToken(chan', c) /\ FewerTokens(chan', chan, c)
    BY <1>3, <1>4, <1>5, <1>6, <2>1, PublishOther DEF PathInv
  <2>3. Elsewhere(c)
    BY <1>3, <1>5, <1>8 DEF Elsewhere, tableVars, NoCallback
  <2> QED  BY <2>2, <2>3, ElsewhereKeeps
<1>9. CASE c = k
  <2>1. /\ served[c] = 0 /\ answers[c] = <<>> /\ NoCallback(c)
        /\ NoToken(chan, c) /\ NoWork(c)
    BY <1>3, <1>9 DEF PathInv, TokensOK, TokenOK, WorkOK, NoToken, NoWork
  <2>2. OneToken(chan', c) /\ OnlyToken(chan', c, n, p, msg)
    BY <1>3, <1>4, <1>5, <1>6, <2>1, PublishToken
  <2>3. OneToken(chan, c)'
    BY <2>2 DEF OneToken
  <2>4. NoWork(c)' /\ NoCallback(c)'
    BY <1>3, <2>1 DEF NoWork, NoCallback, tableVars
  <2>5. issued'[c] = cmd /\ served'[c] = 0 /\ answers'[c] = <<>>
    BY <1>3, <1>5, <1>9, <2>1
  <2>6. PathOK(c, n, p, msg)'
    <3>1. cmd \notin ResponseCmds
      BY <1>4 DEF RequestCmds, ResponseCmds, LoggedCmds, UnknownCmds
    <3> QED  BY <1>4, <1>7, <2>4, <3>1 DEF PathOK
  <2>7. TokenOK(c, n, p, msg)'
    BY <1>4, <2>4, <2>5, <2>6 DEF TokenOK
  <2>8. TokensOK(c)'
    <3> SUFFICES ASSUME NEW a \in Procs, NEW b \in Procs, NEW i \in Nat,
                        At(chan', c, a, b, i)
                 PROVE  TokenOK(c, a, b, chan[a][b][i])'
      BY DEF TokensOK
    <3>1. a = n /\ b = p /\ chan'[a][b][i] = msg
      BY <2>2 DEF OnlyToken
    <3> QED  BY <2>7, <3>1
  <2>9. WorkOK(c)'
    BY <2>4 DEF WorkOK, NoWork
  <2>10. Len(answers'[c]) = 0
    BY <2>5
  <2> QED  BY <1>4, <2>3, <2>5, <2>8, <2>9, <2>10 DEF PathInv
<1> QED  BY <1>8, <1>9

LEMMA StartsWorkKeepsPath ==
  ASSUME RoutingInv, NEW c \in Calls, PathInv(c),
         NEW n \in Nodes, NEW p \in Proxies, NodeStartsWork(n, p)
  PROVE  PathInv(c)'
<1>1. PICK msg : msg = Head(chan[p][n])
  OBVIOUS
<1>2. PICK w : w = [call |-> msg.guid_from, method |-> msg.guid_to,
                    proxy |-> msg.source_proxy_guid]
  OBVIOUS
<1>3. /\ chan[p][n] # <<>> /\ msg.cmd = "INVOKE"
      /\ working' = [working EXCEPT ![n] = @ \cup {w}]
      /\ served' = [served EXCEPT ![msg.guid_from] = @ + 1]
      /\ chan' = Poll(p, n)
      /\ UNCHANGED <<tableVars, issued, answers, purged>>
  BY <1>1, <1>2 DEF NodeStartsWork
<1>4. /\ Truthful(p, n, msg) /\ chan \in Channels /\ n \in Procs /\ p \in Procs
      /\ p \notin Nodes
  BY <1>1, <1>3, NodePolled, RegistryAssumption
     DEF RoutingInv, TypeOK, Channels, Procs
<1>5. /\ OneToken(chan', c) /\ FewerTokens(chan', chan, c)
      /\ Mentions(msg, c) => At(chan, c, p, n, 1) /\ NoToken(chan', c)
  BY <1>1, <1>3, <1>4, PollTokens DEF PathInv
<1>6. w.call = msg.guid_from /\ w.proxy = p /\ msg.guid_from \in Calls
  BY <1>2, <1>3, <1>4 DEF Truthful
<1>7. ASSUME NEW k \in Nodes
      PROVE  working'[k] = IF k = n THEN working[n] \cup {w} ELSE working[k]
  BY <1>3 DEF RoutingInv, TypeOK
<1>8. CASE msg.guid_from # c
  <2>1. served'[c] = served[c]
    BY <1>3, <1>8 DEF RoutingInv, TypeOK
  <2>2. \A k \in Nodes : \A x \in working'[k] : x.call = c => x \in working[k]
    BY <1>6, <1>7, <1>8
  <2>3. Elsewhere(c)
    BY <1>3, <2>1, <2>2 DEF Elsewhere, tableVars, NoCallback
  <2> QED  BY <1>5, <2>3, ElsewhereKeeps
<1>9. CASE msg.guid_from = c
  <2>1. At(chan, c, p, n, 1) /\ NoToken(chan', c)
    BY <1>5, <1>9 DEF Mentions
  <2>2. chan[p][n][1] = msg
    BY <1>1, <1>3, <1>4 DEF Channels
  <2>3. TokenOK(c, p, n, msg)
    BY <1>4, <2>1, <2>2 DEF PathInv, TokensOK
  <2>4. OneToken(chan, c)' /\ TokensOK(c)'
    BY <2>1, <1>5 DEF OneToken, TokensOK, NoToken
  <2>5. BackToCaller(c)' = BackToCaller(c)
    BY <1>3, BackUnchanged DEF tableVars
  <2>6. c \notin purged => p \in BackToCaller(c)
    BY <1>3, <1>9, <2>3 DEF TokenOK, PathOK
  <2>7. ASSUME NEW k \in Nodes, NEW x \in working'[k], x.call = c
        PROVE  k = n /\ x = w
    BY <1>7, <2>3, <2>7 DEF TokenOK, NoWork
  <2>8. WorkOK(c)'
    BY <1>3, <1>6, <2>3, <2>5, <2>6, <2>7 DEF WorkOK, TokenOK
  <2>9. served'[c] = 1
    <3>1. served[c] = 0
      BY <1>3, <2>3 DEF TokenOK
    <3> QED  BY <1>3, <1>9, <3>1 DEF RoutingInv, TypeOK
  <2>10. issued'[c] # None /\ answers'[c] = answers[c] /\ Len(answers[c]) <= 1
    BY <1>3, <2>3 DEF TokenOK, PathInv
  <2> QED  BY <2>4, <2>8, <2>9, <2>10 DEF PathInv
<1> QED  BY <1>8, <1>9

LEMMA RespondsKeepsPath ==
  ASSUME RoutingInv, NEW c \in Calls, PathInv(c), NEW n \in Nodes,
         NEW w \in working[n], NEW cmd \in ResponseCmds, NodeResponds(n, w, cmd)
  PROVE  PathInv(c)'
<1>1. PICK msg : msg = Command(cmd, n, None, None, w.call, w.method)
  OBVIOUS
<1>2. /\ working' = [working EXCEPT ![n] = @ \ {w}]
      /\ chan' = Publish(chan, n, w.proxy, msg)
      /\ UNCHANGED <<tableVars, issued, served, answers, purged>>
  BY <1>1 DEF NodeResponds
<1>3. /\ w \in Work /\ n \in Procs /\ chan \in Channels /\ n \notin Proxies
      /\ w.proxy \in Proxies /\ w.proxy \in Procs /\ w.call \in Calls
  <2>1. w \in Work /\ chan \in Channels
    BY DEF RoutingInv, TypeOK, Channels
  <2>2. w.proxy \in Proxies /\ w.call \in Calls
    BY <2>1 DEF Work
  <2> QED  BY <2>1, <2>2, RegistryAssumption DEF Procs
<1>4. msg \in Message
  BY <1>1, <1>3 DEF Work, Command, Message, Cmds
<1>5. msg.guid_from = None /\ msg.guid_to = w.call /\ msg.cmd = cmd /\ cmd # "INVOKE"
  BY <1>1 DEF Command, ResponseCmds
<1>6. Mentions(msg, c) <=> w.call = c
  BY <1>5, RoutingAssumption DEF Mentions
<1>7. ASSUME NEW k \in Nodes
      PROVE  working'[k] = IF k = n THEN working[n] \ {w} ELSE working[k]
  BY <1>2 DEF RoutingInv, TypeOK
<1>8. CASE w.call # c
  <2>1. OneToken(chan', c) /\ FewerTokens(chan', chan, c)
    BY <1>2, <1>3, <1>4, <1>6, <1>8, PublishOther DEF PathInv
  <2>2. \A k \in Nodes : \A x \in working'[k] : x.call = c => x \in working[k]
    BY <1>7
  <2>3. Elsewhere(c)
    BY <1>2, <2>2 DEF Elsewhere, tableVars, NoCallback
  <2> QED  BY <2>1, <2>3, ElsewhereKeeps
<1>9. CASE w.call = c
  <2>1. NoToken(chan, c)
    BY <1>9 DEF PathInv, TokensOK, TokenOK, NoWork, NoToken
  <2>2. OneToken(chan', c) /\ OnlyToken(chan', c, n, w.proxy, msg)
    BY <1>2, <1>3, <1>4, <2>1, PublishToken
  <2>3. OneToken(chan, c)'
    BY <2>2 DEF OneToken
  <2>4. /\ issued[c] # None /\ answers[c] = <<>>
        /\ c \notin purged => w.proxy \in BackToCaller(c)
        /\ \A k \in Nodes : \A x \in working[k] : x.call = c => k = n /\ x = w
    BY <1>9 DEF PathInv, WorkOK
  <2>5. NoWork(c)'
    BY <1>7, <2>4 DEF NoWork
  <2>6. BackToCaller(c)' = BackToCaller(c)
    BY <1>2, BackUnchanged DEF tableVars
  <2>7. c \notin purged => PathOK(c, n, w.proxy, msg)'
    BY <1>5, <2>4, <2>6 DEF PathOK
  <2>8. TokenOK(c, n, w.proxy, msg)'
    BY <1>2, <1>5, <2>4, <2>5, <2>7 DEF TokenOK
  <2>9. TokensOK(c)'
    <3> SUFFICES ASSUME NEW a \in Procs, NEW b \in Procs, NEW i \in Nat,
                        At(chan', c, a, b, i)
                 PROVE  TokenOK(c, a, b, chan[a][b][i])'
      BY DEF TokensOK
    <3>1. a = n /\ b = w.proxy /\ chan'[a][b][i] = msg
      BY <2>2 DEF OnlyToken
    <3> QED  BY <2>8, <3>1
  <2>10. WorkOK(c)'
    BY <2>5 DEF WorkOK, NoWork
  <2> QED  BY <1>2, <2>3, <2>4, <2>9, <2>10 DEF PathInv
<1> QED  BY <1>8, <1>9

LEMMA GetsAnswerKeepsPath ==
  ASSUME RoutingInv, NEW c \in Calls, PathInv(c),
         NEW n \in Nodes, NEW p \in Proxies, NodeGetsAnswer(n, p)
  PROVE  PathInv(c)'
<1>1. PICK msg : msg = Head(chan[p][n])
  OBVIOUS
<1>2. PICK ans : ans = [node |-> n, cmd |-> msg.cmd, payload |-> msg.payload]
  OBVIOUS
<1>3. /\ chan[p][n] # <<>> /\ msg.cmd \in ResponseCmds \cup {"ERROR"}
      /\ answers' = IF msg.guid_to \in Calls
                    THEN [answers EXCEPT ![msg.guid_to] = Append(@, ans)]
                    ELSE answers
      /\ chan' = Poll(p, n)
      /\ UNCHANGED <<tableVars, issued, working, served, purged>>
  BY <1>1, <1>2 DEF NodeGetsAnswer
<1>4. chan \in Channels /\ n \in Procs /\ p \in Procs
  BY DEF RoutingInv, TypeOK, Channels, Procs
<1>5. /\ OneToken(chan', c) /\ FewerTokens(chan', chan, c)
      /\ Mentions(msg, c) => At(chan, c, p, n, 1) /\ NoToken(chan', c)
  BY <1>1, <1>3, <1>4, PollTokens DEF PathInv
<1>6. CASE msg.guid_to # c
  <2>1. answers'[c] = answers[c]
    BY <1>3, <1>6 DEF RoutingInv, TypeOK
  <2>2. Elsewhere(c)
    BY <1>3, <2>1 DEF Elsewhere, tableVars, NoCallback
  <2> QED  BY <1>5, <2>2, ElsewhereKeeps
<1>7. CASE msg.guid_to = c
  <2>1. At(chan, c, p, n, 1) /\ NoToken(chan', c)
    BY <1>5, <1>7 DEF Mentions
  <2>2. TokenOK(c, p, n, chan[p][n][1])
    BY <1>4, <2>1 DEF PathInv, TokensOK
  <2>3. OneToken(chan, c)' /\ TokensOK(c)'
    BY <2>1, <1>5 DEF OneToken, TokensOK, NoToken
  <2>4. NoWork(c)'
    BY <1>3, <2>2 DEF TokenOK, NoWork
  <2>5. WorkOK(c)'
    BY <2>4 DEF WorkOK, NoWork
  <2>6. Len(answers'[c]) = 1
    <3>1. answers[c] = <<>> /\ answers'[c] = Append(answers[c], ans)
      BY <1>3, <1>7, <2>2 DEF TokenOK, RoutingInv, TypeOK
    <3> QED  BY <3>1
  <2>7. issued'[c] # None /\ served'[c] <= 1
    BY <1>3, <2>2 DEF TokenOK, PathInv
  <2> QED  BY <2>3, <2>5, <2>6, <2>7 DEF PathInv
<1> QED  BY <1>6, <1>7

(* A step without messages that nodes have no part in. *)
LEMMA QuietKeepsPath ==
  ASSUME NEW c \in Calls, PathInv(c), UNCHANGED <<chan, nodeVars>>, Elsewhere(c)
  PROVE  PathInv(c)'
<1>1. OneToken(chan', c) /\ FewerTokens(chan', chan, c)
  BY DEF PathInv, OneToken, FewerTokens
<1> QED  BY <1>1, ElsewhereKeeps

LEMMA CleanUpKeepsPath ==
  ASSUME RoutingInv, NEW c \in Calls, PathInv(c), NEW p \in Proxies,
         CleanUpResponsesMap(p)
  PROVE  PathInv(c)'
<1>1. PICK gone \in SUBSET ExpiredCallbacks(p) :
        ForgetCallbacks(p, gone) /\ purged' = purged \cup gone
  BY DEF CleanUpResponsesMap
<1>2. UNCHANGED <<chan, nodeVars>>
  BY DEF CleanUpResponsesMap
<1>3. ASSUME NEW q \in Proxies
      PROVE  invokeResponses'[q][c] = IF q = p /\ c \in gone THEN None
                                      ELSE invokeResponses[q][c]
  BY <1>1 DEF ForgetCallbacks, RoutingInv, TypeOK
<1>4. NoCallback(c) => NoCallback(c)'
  BY <1>3 DEF NoCallback
<1>5. Elsewhere(c)
  BY <1>1, <1>2, <1>3, <1>4 DEF Elsewhere, nodeVars
<1> QED  BY <1>2, <1>5, QuietKeepsPath
----------------------------------------------------------------------------
(* The theorems *)

LEMMA PathInvInit == Init => PathInvariant
<1> SUFFICES ASSUME Init PROVE PathInvariant
  OBVIOUS
<1>1. ASSUME NEW c \in Calls PROVE PathInv(c)
  <2>1. NoToken(chan, c)
    <3> SUFFICES ASSUME NEW a \in Procs, NEW b \in Procs, NEW i \in Nat,
                        At(chan, c, a, b, i)
                 PROVE  FALSE
      BY DEF NoToken
    <3>1. chan[a][b] = <<>>
      BY DEF Init
    <3> QED  BY <3>1 DEF At
  <2>2. OneToken(chan, c) /\ TokensOK(c)
    BY <2>1 DEF NoToken, OneToken, TokensOK
  <2>3. WorkOK(c)
    BY DEF Init, WorkOK
  <2>4. NoCallback(c) /\ served[c] = 0 /\ answers[c] = <<>>
    BY DEF Init, NoCallback
  <2> QED  BY <2>2, <2>3, <2>4 DEF PathInv
<1> QED  BY <1>1, RoutingInvInit DEF PathInvariant

LEMMA PathInvStep == PathInvariant /\ [Next]_vars => PathInvariant'
<1> SUFFICES ASSUME PathInvariant, [Next]_vars PROVE PathInvariant'
  OBVIOUS
<1>1. RoutingInv /\ RoutingInv'
  BY RoutingInvStep DEF PathInvariant
<1>2. ASSUME NEW c \in Calls PROVE PathInv(c)'
  <2>1. PathInv(c)
    BY DEF PathInvariant
  <2>2. CASE NodeStep
    BY <1>1, <2>1, <2>2, RequestKeepsPath, StartsWorkKeepsPath,
       GetsAnswerKeepsPath, RespondsKeepsPath DEF NodeStep
  <2>3. CASE ProxyStep
    BY <1>1, <2>1, <2>3, CallbackKeepsPath, CleanUpKeepsPath DEF ProxyStep
  <2>4. CASE RegistryStep \/ Tick \/ UNCHANGED vars
    <3>1. UNCHANGED <<chan, nodeVars, purged, invokeResponses>>
      BY <2>4 DEF RegistryStep, Tick, vars, tableVars
    <3>2. Elsewhere(c)
      BY <3>1, HandlerElsewhere
    <3> QED  BY <2>1, <3>1, <3>2, QuietKeepsPath
  <2>5. ASSUME NEW s \in Procs, NEW d \in Procs, Lose(s, d)
        PROVE  PathInv(c)'
    BY <1>1, <2>1, <2>5, DropKeepsPath DEF Lose
  <2> QED  BY <2>2, <2>3, <2>4, <2>5 DEF Next
<1> QED  BY <1>1, <1>2 DEF PathInvariant

LEMMA PathInvariantHolds == Spec => []PathInvariant
  BY PathInvInit, PathInvStep, PTL DEF Spec

(* However stale the routes and whatever is lost, a call is handed to at   *)
(* most one node and answered at most once (Proxy::Invoke,                 *)
(* Proxy::InvokeResponse).                                                 *)
THEOREM ServedAndAnsweredOnce == Spec => []AtMostOnce
<1>1. PathInvariant => AtMostOnce
  BY DEF PathInvariant, PathInv, AtMostOnce
<1> QED  BY <1>1, PathInvariantHolds, PTL

(* As long as no clean-up took a callback of a call, the tables of the     *)
(* proxies lead from wherever the call or its answer is back to its        *)
(* caller, without a cycle (Proxy::Invoke, Proxy::InvokeResponse,          *)
(* Proxy::CleanUpResponsesMap).                                            *)
THEOREM ReturnPathStaysIntact == Spec => []ReturnPathIntact
<1>1. PathInvariant => ReturnPathIntact
  <2> SUFFICES ASSUME PathInvariant, NEW c \in Calls \ purged, NEW p \in OnTheWay(c)
               PROVE  p \in BackToCaller(c)
    BY DEF ReturnPathIntact
  <2>1. PathInv(c)
    BY DEF PathInvariant
  <2>2. ASSUME NEW n \in Nodes, NEW w \in working[n], w.call = c, p = w.proxy
        PROVE  p \in BackToCaller(c)
    BY <2>1, <2>2 DEF PathInv, WorkOK
  <2>3. ASSUME NEW s \in Procs, NEW d \in Procs, NEW i \in 1..Len(chan[s][d]),
               Mentions(chan[s][d][i], c)
        PROVE  PathOK(c, s, d, chan[s][d][i])
    <3>1. i \in Nat /\ At(chan, c, s, d, i)
      BY <2>3 DEF At
    <3> QED  BY <2>1, <3>1 DEF PathInv, TokensOK, TokenOK
  <2>4. ASSUME p \in Proxies, NEW d \in Procs, NEW i \in 1..Len(chan[p][d]),
               chan[p][d][i].cmd = "INVOKE", chan[p][d][i].guid_from = c
        PROVE  p \in BackToCaller(c)
    <3>1. p \in Procs /\ Mentions(chan[p][d][i], c)
      BY <2>4 DEF Procs, Mentions
    <3>2. PathOK(c, p, d, chan[p][d][i])
      BY <2>3, <3>1
    <3> QED  BY <2>4, <3>2 DEF PathOK
  <2>5. ASSUME p \in Proxies, NEW s \in Procs, NEW i \in 1..Len(chan[s][p]),
               chan[s][p][i].cmd \in ResponseCmds, chan[s][p][i].guid_to = c
        PROVE  p \in BackToCaller(c)
    <3>1. p \in Procs /\ Mentions(chan[s][p][i], c)
      BY <2>5 DEF Procs, Mentions
    <3>2. PathOK(c, s, p, chan[s][p][i])
      BY <2>3, <3>1
    <3> QED  BY <2>5, <3>2 DEF PathOK
  <2> QED  BY <2>2, <2>4, <2>5 DEF OnTheWay
<1> QED  BY <1>1, PathInvariantHolds, PTL
=============================================================================
