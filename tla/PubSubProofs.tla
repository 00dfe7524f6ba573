---------------------------- MODULE PubSubProofs ----------------------------
(***************************************************************************)
(* Channels for any number of proxies, nodes, channels and publications:   *)
(* a proxy hears every channel it was asked for, hands on what arrives     *)
(* from a node, and does so once.                                          *)
(***************************************************************************)
EXTENDS PubSub, SequenceTheorems, TLAPS

(* A SUBSCRIBE is no publication, a PUBLISH is one. *)
Sent == {f \in Frames : /\ f.cmd = "SUBSCRIBE" => f.id = 0
                        /\ f.cmd = "PUBLISH" => f.id \in Ids}

InboxOK == inbox \in [Proxies -> [Peers -> Seq(Sent)]]

Letters == STRING \cup Proxies \cup {Tab}

(* The filters of every socket cover the guid and the channels, with the   *)
(* tab of Subscriber::Subscribe or without it as in Subscriber::Connect.   *)
FiltersOK ==
  /\ filters \in [Proxies -> [Peers -> SUBSET Seq(Letters)]]
  /\ \A p \in Proxies : \A x \in connected[p] :
       /\ GuidTopic(p) \in filters[p][x]
       /\ \A c \in channels[p] :
            c \in filters[p][x] \/ Append(c, Tab) \in filters[p][x]

(* The k-th message of x is publication i, fresh from a node. *)
At(b, x, k, i) == k \in 1..Len(b[x]) /\ b[x][k].id = i /\ b[x][k].recursion = 0

Unique(b, i) ==
  \A x, y \in Peers : \A k, l \in Nat :
    At(b, x, k, i) /\ At(b, y, l, i) => x = y /\ k = l

Waits(b, i) == \E x \in Peers : \E k \in Nat : At(b, x, k, i)

WaitsAtNode(b, i) == \E n \in Nodes : \E k \in Nat : At(b, n, k, i)

(* At proxy p, publication i comes fresh from a node at most once, and     *)
(* p publishes it only then.                                               *)
OnceInv(p, i) ==
  /\ Unique(inbox[p], i)
  /\ Waits(inbox[p], i) => republished[p][i] = 0 /\ i =< published
  /\ i > published => republished[p][i] = 0
  /\ republished[p][i] =< 1
  /\ <<p, i>> \in due => WaitsAtNode(inbox[p], i)

(* The inductive invariant. *)
PubSubInv ==
  /\ TypeOK
  /\ InboxOK
  /\ FiltersOK
  /\ \A p \in Proxies, i \in Ids : OnceInv(p, i)
----------------------------------------------------------------------------
(* Prefixes *)

LEMMA PrefixOfAppend ==
  ASSUME NEW T, NEW s \in Seq(T), NEW e
  PROVE  IsPrefix(s, Append(s, e))
<1> DEFINE U == T \cup {e}
<1>1. s \in Seq(U) /\ e \in U
  BY SeqMonotonic
<1>2. /\ Append(s, e) \in Seq(U) /\ Len(s) \in Nat
      /\ Len(Append(s, e)) = Len(s) + 1
      /\ \A i \in 1..Len(s) : Append(s, e)[i] = s[i]
  BY <1>1, AppendProperties, LenProperties
<1>3. SubSeq(s, 1, Len(s)) = SubSeq(Append(s, e), 1, Len(s))
  BY <1>1, <1>2
<1> QED  BY <1>2, <1>3 DEF IsPrefix

LEMMA PrefixOfItself ==
  ASSUME NEW T, NEW s \in Seq(T)
  PROVE  IsPrefix(s, s)
  BY LenProperties DEF IsPrefix

(* A topic that a peer sends passes the filters made for it. *)
LEMMA TopicPasses ==
  ASSUME FiltersOK, TypeOK, NEW p \in Proxies,
         NEW x \in connected[p], NEW msg,
         msg.topic = GuidTopic(p) \/ msg.topic \in channels[p]
  PROVE  Passes(p, x, msg)
<1>1. CASE msg.topic = GuidTopic(p)
  <2>1. GuidTopic(p) \in Seq({p}) /\ GuidTopic(p) \in filters[p][x]
    BY DEF GuidTopic, FiltersOK
  <2>2. IsPrefix(GuidTopic(p), Append(GuidTopic(p), Tab))
    BY <2>1, PrefixOfAppend
  <2> QED  BY <1>1, <2>1, <2>2 DEF Passes
<1>2. CASE msg.topic \in channels[p]
  <2> DEFINE c == msg.topic
  <2>1. c \in Seq(STRING) /\ Append(c, Tab) \in Seq(STRING \cup {Tab})
    <3>1. c \in Seq(STRING)
      BY <1>2, PubSubAssumption DEF TypeOK
    <3>2. c \in Seq(STRING \cup {Tab})
      BY <3>1, SeqMonotonic
    <3> QED  BY <3>1, <3>2, AppendProperties
  <2>2. IsPrefix(c, Append(c, Tab)) /\ IsPrefix(Append(c, Tab), Append(c, Tab))
    BY <2>1, PrefixOfAppend, PrefixOfItself
  <2>3. c \in filters[p][x] \/ Append(c, Tab) \in filters[p][x]
    BY <1>2 DEF FiltersOK
  <2> QED  BY <2>2, <2>3 DEF Passes
<1> QED  BY <1>1, <1>2
----------------------------------------------------------------------------
(* The sockets of one proxy *)

Boxes == [Peers -> Seq(Sent)]
Pop(b, x) == [b EXCEPT ![x] = Tail(@)]
Push(b, x, m) == [b EXCEPT ![x] = Append(@, m)]
Clear(b, x) == [b EXCEPT ![x] = <<>>]
Fresh(m, i) == m.id = i /\ m.recursion = 0

(* Going from b to d, nothing fresh of publication i comes, and none goes. *)
Carries(b, d, i) ==
  /\ Unique(b, i) => Unique(d, i)
  /\ Waits(d, i) => Waits(b, i)
  /\ WaitsAtNode(b, i) => WaitsAtNode(d, i)

LEMMA PopAt ==
  ASSUME NEW b \in Boxes, NEW x \in Peers, b[x] # <<>>, NEW i, NEW y \in Peers,
         NEW k \in Nat \ {0}
  PROVE  At(Pop(b, x), y, k, i) <=> At(b, y, IF y = x THEN k + 1 ELSE k, i)
<1>1. CASE y = x
  <2>1. Pop(b, x)[y] = Tail(b[x]) /\ b[x] \in Seq(Sent)
    BY <1>1 DEF Pop, Boxes
  <2>2. /\ Len(b[x]) \in Nat /\ Len(Tail(b[x])) = Len(b[x]) - 1
        /\ \A j \in 1..Len(Tail(b[x])) : Tail(b[x])[j] = b[x][j + 1]
    BY <2>1, HeadTailProperties, LenProperties
  <2>3. k \in 1..Len(Tail(b[x])) <=> k + 1 \in 1..Len(b[x])
    BY <2>2
  <2> QED  BY <1>1, <2>1, <2>2, <2>3 DEF At
<1>2. CASE y # x
  <2>1. Pop(b, x)[y] = b[y]
    BY <1>2 DEF Pop, Boxes
  <2> QED  BY <1>2, <2>1 DEF At
<1> QED  BY <1>1, <1>2

LEMMA AtPositive ==
  ASSUME NEW b, NEW x, NEW k \in Nat, NEW i, At(b, x, k, i)
  PROVE  k \in Nat \ {0}
  BY DEF At

LEMMA HeadAt ==
  ASSUME NEW b \in Boxes, NEW x \in Peers, b[x] # <<>>, NEW i
  PROVE  At(b, x, 1, i) <=> Fresh(Head(b[x]), i)
<1>1. b[x] \in Seq(Sent)
  BY DEF Boxes
<1>2. Len(b[x]) \in Nat /\ Len(b[x]) # 0 /\ Head(b[x]) = b[x][1]
  BY <1>1, EmptySeq, LenProperties
<1> QED  BY <1>2 DEF At, Fresh

(* The message that is taken is the one there is, or another stays. *)
LEMMA PopCarries ==
  ASSUME NEW b \in Boxes, NEW x \in Peers, b[x] # <<>>, NEW i
  PROVE  /\ ~Fresh(Head(b[x]), i) => Carries(b, Pop(b, x), i)
         /\ Fresh(Head(b[x]), i) /\ Unique(b, i) =>
              Unique(Pop(b, x), i) /\ ~Waits(Pop(b, x), i) /\ Waits(b, i)
<1> DEFINE d == Pop(b, x)
           up(y, k) == IF y = x THEN k + 1 ELSE k
<1>1. ASSUME NEW y \in Peers, NEW k \in Nat, At(d, y, k, i)
      PROVE  k \in Nat \ {0} /\ up(y, k) \in Nat /\ At(b, y, up(y, k), i)
  BY <1>1, AtPositive, PopAt
<1>2. ASSUME Unique(b, i) PROVE Unique(d, i)
  <2> SUFFICES ASSUME NEW y \in Peers, NEW z \in Peers, NEW k \in Nat, NEW l \in Nat,
                      At(d, y, k, i), At(d, z, l, i)
               PROVE  y = z /\ k = l
    BY DEF Unique
  <2>1. /\ up(y, k) \in Nat /\ At(b, y, up(y, k), i)
        /\ up(z, l) \in Nat /\ At(b, z, up(z, l), i)
    BY <1>1
  <2>2. y = z /\ up(y, k) = up(z, l)
    BY <1>2, <2>1 DEF Unique
  <2> QED  BY <2>2
<1>3. ASSUME Waits(d, i) PROVE Waits(b, i)
  BY <1>1, <1>3 DEF Waits
<1>4. ASSUME WaitsAtNode(b, i), ~Fresh(Head(b[x]), i) PROVE WaitsAtNode(d, i)
  <2>1. PICK n \in Nodes, k \in Nat : At(b, n, k, i)
    BY <1>4 DEF WaitsAtNode
  <2>2. n \in Peers /\ k \in Nat \ {0}
    BY <2>1, AtPositive DEF Peers
  <2>3. CASE n # x
    BY <2>1, <2>2, <2>3, PopAt DEF WaitsAtNode
  <2>4. CASE n = x
    <3>1. k # 1
      BY <1>4, <2>1, <2>4, HeadAt
    <3>2. k - 1 \in Nat \ {0} /\ (k - 1) + 1 = k
      BY <2>2, <3>1
    <3>3. At(d, n, k - 1, i)
      BY <2>1, <2>2, <2>4, <3>2, PopAt
    <3> QED  BY <3>2, <3>3 DEF WaitsAtNode
  <2> QED  BY <2>3, <2>4
<1>5. ASSUME Fresh(Head(b[x]), i), Unique(b, i) PROVE ~Waits(d, i) /\ Waits(b, i)
  <2>1. At(b, x, 1, i)
    BY <1>5, HeadAt
  <2>2. ASSUME NEW y \in Peers, NEW k \in Nat, At(d, y, k, i) PROVE FALSE
    <3>1. k \in Nat \ {0} /\ up(y, k) \in Nat /\ At(b, y, up(y, k), i)
      BY <1>1, <2>2
    <3>2. y = x /\ up(y, k) = 1
      BY <1>5, <2>1, <3>1 DEF Unique
    <3> QED  BY <3>1, <3>2
  <2> QED  BY <2>1, <2>2 DEF Waits
<1> QED  BY <1>2, <1>3, <1>4, <1>5 DEF Carries

LEMMA PushAt ==
  ASSUME NEW b \in Boxes, NEW x \in Peers, NEW m \in Sent, NEW i, NEW y \in Peers,
         NEW k \in Nat
  PROVE  At(Push(b, x, m), y, k, i) <=>
           At(b, y, k, i) \/ (y = x /\ k = Len(b[x]) + 1 /\ Fresh(m, i))
<1>1. CASE y = x
  <2>1. Push(b, x, m)[y] = Append(b[x], m) /\ b[x] \in Seq(Sent)
    BY <1>1 DEF Push, Boxes
  <2>2. /\ Len(b[x]) \in Nat /\ Len(Append(b[x], m)) = Len(b[x]) + 1
        /\ \A j \in 1..Len(b[x]) : Append(b[x], m)[j] = b[x][j]
        /\ Append(b[x], m)[Len(b[x]) + 1] = m
    BY <2>1, AppendProperties, LenProperties
  <2>3. CASE k \in 1..Len(b[x])
    <3>1. k \in 1..(Len(b[x]) + 1) /\ k # Len(b[x]) + 1
      BY <2>2, <2>3
    <3> QED  BY <1>1, <2>1, <2>2, <2>3, <3>1 DEF At
  <2>4. CASE k = Len(b[x]) + 1
    <3>1. k \in 1..(Len(b[x]) + 1) /\ k \notin 1..Len(b[x])
      BY <2>2, <2>4
    <3> QED  BY <1>1, <2>1, <2>2, <2>4, <3>1 DEF At, Fresh
  <2>5. CASE k \notin 1..(Len(b[x]) + 1)
    <3>1. k \notin 1..Len(b[x]) /\ k # Len(b[x]) + 1
      BY <2>2, <2>5
    <3> QED  BY <1>1, <2>1, <2>2, <2>5, <3>1 DEF At
  <2> QED  BY <2>2, <2>3, <2>4, <2>5
<1>2. CASE y # x
  <2>1. Push(b, x, m)[y] = b[y]
    BY <1>2 DEF Push, Boxes
  <2> QED  BY <1>2, <2>1 DEF At
<1> QED  BY <1>1, <1>2

(* The message that comes is fresh and the only one, or of no account. *)
LEMMA PushCarries ==
  ASSUME NEW b \in Boxes, NEW x \in Peers, NEW m \in Sent, NEW i
  PROVE  /\ ~Fresh(m, i) => Carries(b, Push(b, x, m), i)
         /\ Fresh(m, i) /\ ~Waits(b, i) =>
              /\ Unique(Push(b, x, m), i)
              /\ x \in Nodes => WaitsAtNode(Push(b, x, m), i)
<1> DEFINE d == Push(b, x, m)
<1>1. ASSUME ~Fresh(m, i) PROVE Carries(b, d, i)
  <2>1. ASSUME NEW y \in Peers, NEW k \in Nat PROVE At(d, y, k, i) <=> At(b, y, k, i)
    BY <1>1, PushAt
  <2> HIDE DEF d
  <2>2. Nodes \subseteq Peers
    BY DEF Peers
  <2>3. Unique(b, i) => Unique(d, i)
    BY <2>1 DEF Unique
  <2>4. Waits(d, i) => Waits(b, i)
    BY <2>1 DEF Waits
  <2>5. WaitsAtNode(b, i) => WaitsAtNode(d, i)
    BY <2>1, <2>2 DEF WaitsAtNode
  <2> QED  BY <2>3, <2>4, <2>5 DEF Carries
<1>2. ASSUME Fresh(m, i), ~Waits(b, i)
      PROVE  Unique(d, i) /\ (x \in Nodes => WaitsAtNode(d, i))
  <2>0. Len(b[x]) + 1 \in Nat
    BY LenProperties DEF Boxes
  <2>1. ASSUME NEW y \in Peers, NEW k \in Nat
        PROVE  At(d, y, k, i) <=> y = x /\ k = Len(b[x]) + 1
    <3>1. ~At(b, y, k, i)
      BY <1>2 DEF Waits
    <3> QED  BY <1>2, <3>1, PushAt
  <2> HIDE DEF d
  <2>2. Unique(d, i)
    BY <2>1 DEF Unique
  <2> QED  BY <2>0, <2>1, <2>2 DEF WaitsAtNode
<1> QED  BY <1>1, <1>2

(* Killing a subscriber takes what waited in its socket. *)
LEMMA ClearCarries ==
  ASSUME NEW b \in Boxes, NEW x \in Peers, NEW i
  PROVE  /\ Unique(b, i) => Unique(Clear(b, x), i)
         /\ Waits(Clear(b, x), i) => Waits(b, i)
         /\ WaitsAtNode(b, i) /\ (\A k \in 1..Len(b[x]) : b[x][k].id # i) =>
              WaitsAtNode(Clear(b, x), i)
<1> DEFINE d == Clear(b, x)
<1>1. ASSUME NEW y \in Peers, NEW k \in Nat
      PROVE  At(d, y, k, i) <=> At(b, y, k, i) /\ y # x
  <2>1. CASE y = x
    <3>1. d[y] = <<>> /\ Len(<<>>) = 0
      BY <2>1 DEF Clear, Boxes
    <3> QED  BY <2>1, <3>1 DEF At
  <2>2. CASE y # x
    BY <2>2 DEF At, Clear, Boxes
  <2> QED  BY <2>1, <2>2
<1> HIDE DEF d
<1>2. Unique(b, i) => Unique(d, i)
  BY <1>1 DEF Unique
<1>3. Waits(d, i) => Waits(b, i)
  BY <1>1 DEF Waits
<1>4. ASSUME WaitsAtNode(b, i), \A k \in 1..Len(b[x]) : b[x][k].id # i
      PROVE  WaitsAtNode(d, i)
  <2>1. PICK n \in Nodes, k \in Nat : At(b, n, k, i)
    BY <1>4 DEF WaitsAtNode
  <2>2. n # x
    BY <1>4, <2>1 DEF At
  <2> QED  BY <1>1, <2>1, <2>2 DEF WaitsAtNode, Peers
<1> QED  BY <1>2, <1>3, <1>4 DEF d
----------------------------------------------------------------------------
(* The parts of the invariant *)

(* A peer without an entry has no socket. *)
SocketsOK ==
  \A p \in Proxies, x \in Peers :
    x \notin connected[p] => filters[p][x] = {} /\ inbox[p][x] = <<>>

CountsOK ==
  /\ connected \in [Proxies -> SUBSET Peers]
  /\ channels \in [Proxies -> SUBSET Channels]
  /\ published \in 0 .. MaxPublications
  /\ republished \in [Proxies -> [Ids -> 0 .. 2]]
  /\ due \subseteq Proxies \X Ids

OnceEach == \A p \in Proxies, i \in Ids : OnceInv(p, i)

LEMMA InvariantParts ==
  PubSubInv <=> CountsOK /\ SocketsOK /\ InboxOK /\ FiltersOK /\ OnceEach
<1>1. InboxOK => \A p \in Proxies, x \in Peers :
                   \A i \in DOMAIN inbox[p][x] : inbox[p][x][i] \in Frames
  <2> SUFFICES ASSUME InboxOK, NEW p \in Proxies, NEW x \in Peers,
                      NEW i \in DOMAIN inbox[p][x]
               PROVE  inbox[p][x][i] \in Frames
    OBVIOUS
  <2>1. inbox[p][x] \in Seq(Sent)
    BY DEF InboxOK
  <2>2. inbox[p][x][i] \in Sent
    BY <2>1
  <2> QED  BY <2>2 DEF Sent
<1> QED  BY <1>1 DEF PubSubInv, CountsOK, SocketsOK, TypeOK, OnceEach

LEMMA InboxBoxes == InboxOK <=> inbox \in [Proxies -> Boxes]
  BY DEF InboxOK, Boxes

LEMMA BoxesKept ==
  ASSUME NEW b \in Boxes, NEW x \in Peers
  PROVE  /\ b[x] # <<>> => Pop(b, x) \in Boxes /\ Head(b[x]) \in Sent
         /\ Clear(b, x) \in Boxes
         /\ \A m \in Sent : Push(b, x, m) \in Boxes
<1>1. b[x] \in Seq(Sent)
  BY DEF Boxes
<1>2. ASSUME b[x] # <<>> PROVE Pop(b, x) \in Boxes /\ Head(b[x]) \in Sent
  <2>1. Tail(b[x]) \in Seq(Sent) /\ Head(b[x]) \in Sent
    BY <1>1, <1>2, HeadTailProperties
  <2> QED  BY <2>1 DEF Pop, Boxes
<1>3. Clear(b, x) \in Boxes
  <2>1. <<>> \in Seq(Sent)
    BY EmptySeq
  <2> QED  BY <2>1 DEF Clear, Boxes
<1>4. ASSUME NEW m \in Sent PROVE Push(b, x, m) \in Boxes
  <2>1. Append(b[x], m) \in Seq(Sent)
    BY <1>1, AppendProperties
  <2> QED  BY <2>1 DEF Push, Boxes
<1> QED  BY <1>2, <1>3, <1>4

LEMMA RestBoxes ==
  ASSUME inbox \in [Proxies -> Boxes], NEW p \in Proxies, NEW x \in Peers,
         inbox[p][x] # <<>>
  PROVE  /\ Rest(p, x) \in [Proxies -> Boxes]
         /\ Head(inbox[p][x]) \in Sent
         /\ Rest(p, x)[p] = Pop(inbox[p], x)
         /\ \A q \in Proxies : q # p => Rest(p, x)[q] = inbox[q]
<1>1. inbox[p] \in Boxes
  OBVIOUS
<1>2. Pop(inbox[p], x) \in Boxes /\ Head(inbox[p][x]) \in Sent
  BY <1>1, BoxesKept
<1>3. Rest(p, x) = [inbox EXCEPT ![p] = Pop(inbox[p], x)]
  BY <1>1 DEF Rest, Pop
<1> QED  BY <1>2, <1>3

(* What passes the filters and is not dropped comes into the socket. *)
Arrives(q, x, msg, queues, lost) ==
  Passes(q, x, msg) /\ ~Dropped(q, x, queues, lost)

(* Publisher::Publish: every proxy at which the message arrives finds it   *)
(* in its socket, and nothing else changes.                                *)
LEMMA PublishBoxes ==
  ASSUME NEW queues \in [Proxies -> Boxes], NEW x \in Peers, NEW msg \in Sent,
         NEW lost, Publish(x, msg, queues, lost)
  PROVE  /\ inbox' \in [Proxies -> Boxes]
         /\ \A q \in Proxies :
              inbox'[q] = IF Arrives(q, x, msg, queues, lost)
                          THEN Push(queues[q], x, msg) ELSE queues[q]
<1>1. ASSUME NEW q \in Proxies
      PROVE  inbox'[q] = IF Arrives(q, x, msg, queues, lost)
                         THEN Push(queues[q], x, msg) ELSE queues[q]
  <2>1. queues[q] \in [Peers -> Seq(Sent)]
    BY DEF Boxes
  <2>2. inbox'[q] = [queues[q] EXCEPT ![x] =
                       IF Arrives(q, x, msg, queues, lost) THEN Append(@, msg)
                       ELSE @]
    BY DEF Publish, Arrives
  <2>3. CASE Arrives(q, x, msg, queues, lost)
    BY <2>2, <2>3 DEF Push
  <2>4. CASE ~Arrives(q, x, msg, queues, lost)
    BY <2>1, <2>2, <2>4
  <2> QED  BY <2>3, <2>4
<1>2. ASSUME NEW q \in Proxies PROVE inbox'[q] \in Boxes
  <2>1. queues[q] \in Boxes
    OBVIOUS
  <2> QED  BY <1>1, <2>1, BoxesKept
<1>3. inbox' = [q \in Proxies |-> inbox'[q]]
  BY DEF Publish
<1> QED  BY <1>1, <1>2, <1>3

(* A message is only pushed into a socket that is there. *)
LEMMA PushesToConnected ==
  ASSUME NEW q, NEW x, NEW msg, NEW queues, NEW lost,
         Arrives(q, x, msg, queues, lost)
  PROVE  x \in connected[q]
  BY DEF Arrives, Passes

LEMMA CarriesItself ==
  ASSUME NEW b, NEW i
  PROVE  Carries(b, b, i)
  BY DEF Carries

(* A step in which proxy q has nothing to do with publication i. *)
LEMMA OnceKept ==
  ASSUME NEW q \in Proxies, NEW i \in Ids, OnceInv(q, i),
         Carries(inbox[q], inbox'[q], i),
         republished'[q][i] = republished[q][i],
         published \in Nat, published' \in Nat, published =< published',
         <<q, i>> \in due' => <<q, i>> \in due
  PROVE  OnceInv(q, i)'
<1>1. i \in Nat
  BY PubSubAssumption DEF Ids
<1>2. Unique(inbox[q], i)'
  BY DEF OnceInv, Carries, Unique
<1>3. Waits(inbox'[q], i) => republished'[q][i] = 0 /\ i =< published'
  <2>1. Waits(inbox'[q], i) => republished[q][i] = 0 /\ i =< published
    BY DEF OnceInv, Carries
  <2> QED  BY <1>1, <2>1
<1>4. i > published' => republished'[q][i] = 0
  <2>1. i > published' => i > published
    BY <1>1
  <2> QED  BY <2>1 DEF OnceInv
<1>5. <<q, i>> \in due' => WaitsAtNode(inbox'[q], i)
  BY DEF OnceInv, Carries
<1>6. republished'[q][i] =< 1
  BY DEF OnceInv
<1> QED  BY <1>2, <1>3, <1>4, <1>5, <1>6 DEF OnceInv, Waits, WaitsAtNode, At, Unique
----------------------------------------------------------------------------
(* The actions *)

LEMMA NewSubscriberKeeps ==
  ASSUME PubSubInv, NEW p \in Proxies, NEW x \in Peers, NewSubscriber(p, x)
  PROVE  PubSubInv'
<1>1. CountsOK /\ SocketsOK /\ InboxOK /\ FiltersOK /\ OnceEach
  BY InvariantParts
<1>2. /\ connected' = [connected EXCEPT ![p] = @ \cup {x}]
      /\ filters' = [filters EXCEPT ![p][x] = {GuidTopic(p)} \cup channels[p]]
      /\ UNCHANGED <<channels, inbox, published, republished, due>>
  BY DEF NewSubscriber, Connect
<1>3. CountsOK' /\ InboxOK'
  BY <1>1, <1>2 DEF CountsOK, InboxOK
<1>4. SocketsOK'
  <2> SUFFICES ASSUME NEW q \in Proxies, NEW y \in Peers, y \notin connected'[q]
               PROVE  filters'[q][y] = {} /\ inbox'[q][y] = <<>>
    BY DEF SocketsOK
  <2>1. y \notin connected[q] /\ ~(q = p /\ y = x)
    BY <1>1, <1>2 DEF CountsOK
  <2>2. filters'[q][y] = filters[q][y] /\ inbox'[q][y] = inbox[q][y]
    BY <1>1, <1>2, <2>1 DEF FiltersOK
  <2> QED  BY <1>1, <2>1, <2>2 DEF SocketsOK
<1>5. FiltersOK'
  <2>1. {GuidTopic(p)} \cup channels[p] \in SUBSET Seq(Letters)
    <3>1. p \in Letters /\ STRING \subseteq Letters
      BY DEF Letters
    <3>2. GuidTopic(p) \in Seq(Letters)
      BY <3>1 DEF GuidTopic
    <3>3. ASSUME NEW c \in channels[p] PROVE c \in Seq(Letters)
      BY <1>1, <3>1, PubSubAssumption, SeqMonotonic DEF CountsOK
    <3> QED  BY <3>2, <3>3
  <2>2. filters' \in [Proxies -> [Peers -> SUBSET Seq(Letters)]]
    BY <1>1, <1>2, <2>1 DEF FiltersOK
  <2>3. ASSUME NEW q \in Proxies, NEW y \in connected'[q]
        PROVE  /\ GuidTopic(q) \in filters'[q][y]
               /\ \A c \in channels'[q] :
                    c \in filters'[q][y] \/ Append(c, Tab) \in filters'[q][y]
    <3>1. CASE q = p /\ y = x
      <4>1. filters'[q][y] = {GuidTopic(p)} \cup channels[p]
        BY <1>1, <1>2, <3>1 DEF FiltersOK
      <4> QED  BY <1>2, <3>1, <4>1
    <3>2. CASE ~(q = p /\ y = x)
      <4>1. y \in connected[q] /\ y \in Peers
        BY <1>1, <1>2, <2>3, <3>2 DEF CountsOK
      <4>2. filters'[q][y] = filters[q][y]
        BY <1>1, <1>2, <3>2, <4>1 DEF FiltersOK
      <4> QED  BY <1>1, <1>2, <4>1, <4>2 DEF FiltersOK
    <3> QED  BY <3>1, <3>2
  <2> QED  BY <2>2, <2>3 DEF FiltersOK
<1>6. OnceEach'
  <2> SUFFICES ASSUME NEW q \in Proxies, NEW i \in Ids PROVE OnceInv(q, i)'
    BY DEF OnceEach
  <2>1. OnceInv(q, i) /\ Carries(inbox[q], inbox'[q], i)
    BY <1>1, <1>2, CarriesItself DEF OnceEach
  <2>2. /\ published \in Nat /\ published' \in Nat /\ published =< published'
        /\ republished'[q][i] = republished[q][i]
        /\ <<q, i>> \in due' => <<q, i>> \in due
    BY <1>1, <1>2, PubSubAssumption DEF CountsOK
  <2> QED  BY <2>1, <2>2, OnceKept
<1> QED  BY <1>3, <1>4, <1>5, <1>6, InvariantParts, PTL

LEMMA KillKeeps ==
  ASSUME PubSubInv, NEW p \in Proxies, NEW x \in Peers, Kill(p, x)
  PROVE  PubSubInv'
<1>1. CountsOK /\ SocketsOK /\ InboxOK /\ FiltersOK /\ OnceEach
  BY InvariantParts
<1>2. /\ connected' = [connected EXCEPT ![p] = @ \ {x}]
      /\ filters' = [filters EXCEPT ![p][x] = {}]
      /\ inbox' = [inbox EXCEPT ![p][x] = <<>>]
      /\ due' \subseteq due
      /\ \A d \in due' : d[1] = p =>
           \A i \in DOMAIN inbox[p][x] : inbox[p][x][i].id # d[2]
      /\ UNCHANGED <<channels, published, republished>>
  BY DEF Kill
<1>3. inbox \in [Proxies -> Boxes] /\ inbox[p] \in Boxes
  BY <1>1, InboxBoxes
<1>4. inbox' = [inbox EXCEPT ![p] = Clear(inbox[p], x)] /\ Clear(inbox[p], x) \in Boxes
  BY <1>2, <1>3, BoxesKept DEF Clear
<1>5. InboxOK'
  BY <1>3, <1>4 DEF InboxOK, Boxes
<1>6. CountsOK'
  BY <1>1, <1>2 DEF CountsOK
<1>7. SocketsOK'
  <2> SUFFICES ASSUME NEW q \in Proxies, NEW y \in Peers, y \notin connected'[q]
               PROVE  filters'[q][y] = {} /\ inbox'[q][y] = <<>>
    BY DEF SocketsOK
  <2>1. CASE q = p /\ y = x
    BY <1>1, <1>2, <1>3, <2>1 DEF FiltersOK, InboxOK
  <2>2. CASE ~(q = p /\ y = x)
    <3>1. y \notin connected[q]
      BY <1>1, <1>2, <2>2 DEF CountsOK
    <3>2. filters'[q][y] = filters[q][y] /\ inbox'[q][y] = inbox[q][y]
      BY <1>1, <1>2, <2>2 DEF FiltersOK, InboxOK
    <3> QED  BY <1>1, <3>1, <3>2 DEF SocketsOK
  <2> QED  BY <2>1, <2>2
<1>8. FiltersOK'
  <2>1. filters' \in [Proxies -> [Peers -> SUBSET Seq(Letters)]]
    BY <1>1, <1>2 DEF FiltersOK
  <2>2. ASSUME NEW q \in Proxies, NEW y \in connected'[q]
        PROVE  /\ GuidTopic(q) \in filters'[q][y]
               /\ \A c \in channels'[q] :
                    c \in filters'[q][y] \/ Append(c, Tab) \in filters'[q][y]
    <3>1. y \in connected[q] /\ y \in Peers /\ ~(q = p /\ y = x)
      BY <1>1, <1>2, <2>2 DEF CountsOK
    <3>2. filters'[q][y] = filters[q][y]
      BY <1>1, <1>2, <3>1 DEF FiltersOK
    <3> QED  BY <1>1, <1>2, <3>1, <3>2 DEF FiltersOK
  <2> QED  BY <2>1, <2>2 DEF FiltersOK
<1>9. OnceEach'
  <2> SUFFICES ASSUME NEW q \in Proxies, NEW i \in Ids PROVE OnceInv(q, i)'
    BY DEF OnceEach
  <2>1. OnceInv(q, i)
    BY <1>1 DEF OnceEach
  <2>2. CASE q # p
    <3>1. inbox'[q] = inbox[q]
      BY <1>3, <1>4, <2>2
    <3> QED  BY <1>2, <2>1, <3>1 DEF OnceInv, Unique, Waits, WaitsAtNode, At
  <2>3. CASE q = p
    <3>1. inbox'[q] = Clear(inbox[p], x)
      BY <1>3, <1>4, <2>3
    <3>2. /\ Unique(inbox[p], i) => Unique(Clear(inbox[p], x), i)
          /\ Waits(Clear(inbox[p], x), i) => Waits(inbox[p], i)
          /\ WaitsAtNode(inbox[p], i)
             /\ (\A k \in 1..Len(inbox[p][x]) : inbox[p][x][k].id # i) =>
               WaitsAtNode(Clear(inbox[p], x), i)
      BY <1>3, ClearCarries
    <3>3. <<p, i>> \in due' => \A k \in 1..Len(inbox[p][x]) : inbox[p][x][k].id # i
      <4>1. DOMAIN inbox[p][x] = 1..Len(inbox[p][x])
        BY <1>3 DEF Boxes
      <4> QED  BY <1>2, <4>1
    <3>4. /\ Unique(inbox'[q], i)
          /\ Waits(inbox'[q], i) => republished'[q][i] = 0 /\ i =< published'
          /\ <<q, i>> \in due' => WaitsAtNode(inbox'[q], i)
      BY <1>2, <2>1, <2>3, <3>1, <3>2, <3>3 DEF OnceInv
    <3> QED  BY <1>2, <2>1, <3>4 DEF OnceInv, Unique, Waits, WaitsAtNode, At
  <2> QED  BY <2>2, <2>3
<1> QED  BY <1>5, <1>6, <1>7, <1>8, <1>9, InvariantParts, PTL

(* A message that is no fresh publication is taken. *)
LEMMA TakeKeepsOnce ==
  ASSUME PubSubInv, NEW p \in Proxies, NEW x \in Peers, inbox[p][x] # <<>>,
         inbox' = Rest(p, x), \A i \in Ids : ~Fresh(Head(inbox[p][x]), i),
         UNCHANGED <<published, republished, due>>
  PROVE  OnceEach' /\ InboxOK'
<1>1. CountsOK /\ SocketsOK /\ InboxOK /\ FiltersOK /\ OnceEach
  BY InvariantParts
<1>2. inbox \in [Proxies -> Boxes] /\ inbox[p] \in Boxes
  BY <1>1, InboxBoxes
<1>3. /\ inbox' \in [Proxies -> Boxes] /\ inbox'[p] = Pop(inbox[p], x)
      /\ \A q \in Proxies : q # p => inbox'[q] = inbox[q]
  BY <1>2, RestBoxes
<1>4. OnceEach'
  <2> SUFFICES ASSUME NEW q \in Proxies, NEW i \in Ids PROVE OnceInv(q, i)'
    BY DEF OnceEach
  <2>1. OnceInv(q, i)
    BY <1>1 DEF OnceEach
  <2>2. Carries(inbox[q], inbox'[q], i)
    <3>1. CASE q = p
      BY <1>2, <1>3, <3>1, PopCarries
    <3>2. CASE q # p
      BY <1>3, <3>2, CarriesItself
    <3> QED  BY <3>1, <3>2
  <2>3. /\ published \in Nat /\ published' \in Nat /\ published =< published'
        /\ republished'[q][i] = republished[q][i]
        /\ <<q, i>> \in due' => <<q, i>> \in due
    BY <1>1, PubSubAssumption DEF CountsOK
  <2> QED  BY <2>1, <2>2, <2>3, OnceKept
<1> QED  BY <1>3, <1>4 DEF InboxOK, Boxes

LEMMA SubscribeReqKeeps ==
  ASSUME PubSubInv, NEW p \in Proxies, NEW x \in Peers, SubscribeReq(p, x)
  PROVE  PubSubInv'
<1>1. CountsOK /\ SocketsOK /\ InboxOK /\ FiltersOK /\ OnceEach
  BY InvariantParts
<1>2. PICK c : c = Head(inbox[p][x]).identifier
  OBVIOUS
<1>3. /\ inbox[p][x] # <<>> /\ Head(inbox[p][x]).cmd = "SUBSCRIBE"
      /\ channels' = [channels EXCEPT ![p] = @ \cup {c}]
      /\ filters' = Subscribe(p, c)
      /\ inbox' = Rest(p, x)
      /\ UNCHANGED <<connected, published, republished, due>>
  BY <1>2 DEF SubscribeReq, Receives
<1>4. inbox \in [Proxies -> Boxes]
  BY <1>1, InboxBoxes
<1>5. Head(inbox[p][x]) \in Sent
  BY <1>3, <1>4, RestBoxes
<1>6. c \in Channels /\ Head(inbox[p][x]).id = 0
  BY <1>2, <1>3, <1>5 DEF Sent, Frames
<1>7. \A i \in Ids : ~Fresh(Head(inbox[p][x]), i)
  BY <1>6, PubSubAssumption DEF Fresh, Ids
<1>8. OnceEach' /\ InboxOK'
  BY <1>3, <1>7, TakeKeepsOnce
<1>9. CountsOK'
  BY <1>1, <1>3, <1>6 DEF CountsOK
<1>10. ASSUME NEW q \in Proxies, NEW y \in Peers
       PROVE  filters'[q][y] = IF q = p /\ y \in connected[p]
                               THEN filters[q][y] \cup {Append(c, Tab)}
                               ELSE filters[q][y]
  BY <1>1, <1>3 DEF Subscribe, FiltersOK
<1>11. SocketsOK'
  <2> SUFFICES ASSUME NEW q \in Proxies, NEW y \in Peers, y \notin connected'[q]
               PROVE  filters'[q][y] = {} /\ inbox'[q][y] = <<>>
    BY DEF SocketsOK
  <2>1. filters[q][y] = {} /\ inbox[q][y] = <<>> /\ y \notin connected[q]
    BY <1>1, <1>3 DEF SocketsOK
  <2>2. ~(q = p /\ y = x)
    BY <1>3, <2>1
  <2>3. inbox'[q][y] = inbox[q][y]
    BY <1>3, <1>4, <2>2 DEF Rest, Boxes
  <2> QED  BY <1>10, <2>1, <2>3
<1>12. FiltersOK'
  <2>1. Append(c, Tab) \in Seq(Letters)
    <3>1. Tab \in Letters /\ STRING \subseteq Letters
      BY DEF Letters
    <3>2. c \in Seq(Letters)
      BY <1>6, <3>1, PubSubAssumption, SeqMonotonic
    <3> QED  BY <3>1, <3>2, AppendProperties
  <2>2. filters' \in [Proxies -> [Peers -> SUBSET Seq(Letters)]]
    BY <1>1, <1>3, <2>1 DEF FiltersOK, Subscribe
  <2>3. ASSUME NEW q \in Proxies, NEW y \in connected'[q]
        PROVE  /\ GuidTopic(q) \in filters'[q][y]
               /\ \A k \in channels'[q] :
                    k \in filters'[q][y] \/ Append(k, Tab) \in filters'[q][y]
    <3>1. y \in connected[q] /\ y \in Peers
      BY <1>1, <1>3 DEF CountsOK
    <3>2. channels'[q] = IF q = p THEN channels[q] \cup {c} ELSE channels[q]
      BY <1>1, <1>3 DEF CountsOK
    <3>3. /\ filters[q][y] \subseteq filters'[q][y]
          /\ q = p => Append(c, Tab) \in filters'[q][y]
      BY <1>10, <3>1
    <3>4. /\ GuidTopic(q) \in filters[q][y]
          /\ \A k \in channels[q] :
               k \in filters[q][y] \/ Append(k, Tab) \in filters[q][y]
      BY <1>1, <3>1 DEF FiltersOK
    <3> QED  BY <3>2, <3>3, <3>4
  <2> QED  BY <2>2, <2>3 DEF FiltersOK
<1> QED  BY <1>8, <1>9, <1>11, <1>12, InvariantParts, PTL

(* What is published is no fresh publication i, or not for the sockets of q. *)
LEMMA PublishCarries ==
  ASSUME NEW queues \in [Proxies -> Boxes], NEW x \in Peers, NEW msg \in Sent,
         NEW lost, Publish(x, msg, queues, lost),
         NEW i, ~Fresh(msg, i), NEW q \in Proxies
  PROVE  Carries(queues[q], inbox'[q], i)
<1>1. queues[q] \in Boxes
  OBVIOUS
<1>2. inbox'[q] = IF Arrives(q, x, msg, queues, lost) THEN Push(queues[q], x, msg)
                  ELSE queues[q]
  BY PublishBoxes
<1>3. Carries(queues[q], Push(queues[q], x, msg), i)
  BY <1>1, PushCarries
<1> QED  BY <1>2, <1>3, CarriesItself

LEMMA CarriesOn ==
  ASSUME NEW a, NEW b, NEW d, NEW i, Carries(a, b, i), Carries(b, d, i)
  PROVE  Carries(a, d, i)
  BY DEF Carries

(* Publishing leaves a socket that is not there empty. *)
LEMMA PublishSockets ==
  ASSUME NEW queues \in [Proxies -> Boxes], NEW x \in Peers, NEW msg \in Sent,
         NEW lost, Publish(x, msg, queues, lost),
         SocketsOK, UNCHANGED <<connected, filters>>,
         \A q \in Proxies, y \in Peers : y \notin connected[q] => queues[q][y] = <<>>
  PROVE  SocketsOK'
<1> SUFFICES ASSUME NEW q \in Proxies, NEW y \in Peers, y \notin connected'[q]
             PROVE  filters'[q][y] = {} /\ inbox'[q][y] = <<>>
  BY DEF SocketsOK
<1>1. filters'[q][y] = {} /\ queues[q][y] = <<>> /\ y \notin connected[q]
  BY DEF SocketsOK
<1>2. inbox'[q] = IF Arrives(q, x, msg, queues, lost) THEN Push(queues[q], x, msg)
                  ELSE queues[q]
  BY PublishBoxes
<1>3. CASE Arrives(q, x, msg, queues, lost)
  <2>1. y # x
    BY <1>1, <1>3, PushesToConnected
  <2>2. Push(queues[q], x, msg)[y] = queues[q][y]
    BY <2>1 DEF Push, Boxes
  <2> QED  BY <1>1, <1>2, <1>3, <2>2
<1>4. CASE ~Arrives(q, x, msg, queues, lost)
  BY <1>1, <1>2, <1>4
<1> QED  BY <1>3, <1>4

LEMMA FiltersUnchanged ==
  ASSUME FiltersOK, UNCHANGED <<connected, filters, channels>>
  PROVE  FiltersOK'
  BY DEF FiltersOK

(* Proxy::SubscriberCallback for PUBLISH: what came from a proxy goes, what *)
(* came from a node is handed on and cannot come again.                     *)
LEMMA PublishReqKeeps ==
  ASSUME PubSubInv, NEW p \in Proxies, NEW x \in Peers, PublishReq(p, x)
  PROVE  PubSubInv'
<1>1. CountsOK /\ SocketsOK /\ InboxOK /\ FiltersOK /\ OnceEach
  BY InvariantParts
<1>2. PICK msg : msg = Head(inbox[p][x])
  OBVIOUS
<1>3. /\ inbox[p][x] # <<>> /\ msg.cmd = "PUBLISH"
      /\ UNCHANGED <<connected, filters, channels, published>>
  BY <1>2 DEF PublishReq, Receives
<1>4. inbox \in [Proxies -> Boxes] /\ inbox[p] \in Boxes
  BY <1>1, InboxBoxes
<1>5. /\ Rest(p, x) \in [Proxies -> Boxes] /\ msg \in Sent
      /\ Rest(p, x)[p] = Pop(inbox[p], x)
      /\ \A q \in Proxies : q # p => Rest(p, x)[q] = inbox[q]
  BY <1>2, <1>3, <1>4, RestBoxes
<1>6. FiltersOK'
  BY <1>1, <1>3, FiltersUnchanged
<1>7. \A q \in Proxies, y \in Peers : y \notin connected[q] => Rest(p, x)[q][y] = <<>>
  <2> SUFFICES ASSUME NEW q \in Proxies, NEW y \in Peers, y \notin connected[q]
               PROVE  Rest(p, x)[q][y] = <<>>
    OBVIOUS
  <2>1. inbox[q][y] = <<>>
    BY <1>1 DEF SocketsOK
  <2>2. ~(q = p /\ y = x)
    BY <1>3, <2>1
  <2> QED  BY <1>4, <2>1, <2>2 DEF Rest, Boxes
<1>8. CASE Recursed(msg)
  <2>1. inbox' = Rest(p, x) /\ UNCHANGED <<republished, due>>
    BY <1>2, <1>8 DEF PublishReq
  <2>2. \A i \in Ids : ~Fresh(Head(inbox[p][x]), i)
    BY <1>2, <1>8 DEF Fresh, Recursed
  <2>3. OnceEach' /\ InboxOK'
    BY <1>3, <2>1, <2>2, TakeKeepsOnce
  <2>4. CountsOK'
    BY <1>1, <1>3, <2>1 DEF CountsOK
  <2>5. SocketsOK'
    BY <1>1, <1>3, <1>7, <2>1 DEF SocketsOK
  <2> QED  BY <1>6, <2>3, <2>4, <2>5, InvariantParts, PTL
<1>9. CASE ~Recursed(msg)
  <2>1. PICK pub : pub = [msg EXCEPT !.topic = msg.identifier, !.recursion = 1]
    OBVIOUS
  <2>2. /\ \E lost \in SUBSET Proxies : Publish(p, pub, Rest(p, x), lost)
        /\ republished' = [republished EXCEPT ![p][msg.id] =
                             IF @ < 2 THEN @ + 1 ELSE @]
        /\ due' = due \ {<<p, msg.id>>}
    BY <1>2, <1>9, <2>1 DEF PublishReq
  <2>0. PICK lost \in SUBSET Proxies : Publish(p, pub, Rest(p, x), lost)
    BY <2>2
  <2>3. pub \in Sent /\ pub.recursion = 1 /\ msg.id \in Ids /\ p \in Peers
    BY <1>3, <1>5, <2>1 DEF Sent, Frames, Peers
  <2>4. msg.recursion = 0
    BY <1>5, <1>9 DEF Sent, Frames, Recursed
  <2>5. InboxOK'
    <3>1. inbox' \in [Proxies -> Boxes]
      BY <1>5, <2>0, <2>3, PublishBoxes
    <3> QED  BY <3>1 DEF InboxOK, Boxes
  <2>6. SocketsOK'
    BY <1>1, <1>3, <1>5, <1>7, <2>0, <2>3, PublishSockets
  <2>7. ASSUME NEW q \in Proxies, NEW i
        PROVE  Carries(Rest(p, x)[q], inbox'[q], i)
    <3>1. ~Fresh(pub, i)
      BY <2>3 DEF Fresh
    <3> QED  BY <1>5, <2>0, <2>3, <3>1, PublishCarries
  <2>8. OnceInv(p, msg.id)
    BY <1>1, <2>3 DEF OnceEach
  <2>9. Fresh(Head(inbox[p][x]), msg.id)
    BY <1>2, <2>4 DEF Fresh
  <2>10. /\ Unique(Rest(p, x)[p], msg.id) /\ ~Waits(Rest(p, x)[p], msg.id)
         /\ Waits(inbox[p], msg.id)
    BY <1>3, <1>4, <1>5, <2>8, <2>9, PopCarries DEF OnceInv
  <2>11. /\ republished[p][msg.id] = 0 /\ msg.id =< published
         /\ Unique(inbox'[p], msg.id) /\ ~Waits(inbox'[p], msg.id)
    BY <2>7, <2>8, <2>10 DEF OnceInv, Carries
  <2>12. /\ republished'[p][msg.id] = 1
         /\ \A q \in Proxies, i \in Ids : ~(q = p /\ i = msg.id) =>
              republished'[q][i] = republished[q][i]
    BY <1>1, <2>2, <2>3, <2>11 DEF CountsOK
  <2>13. CountsOK'
    <3>1. republished' \in [Proxies -> [Ids -> 0..2]]
      BY <1>1, <2>2, <2>3, <2>11 DEF CountsOK
    <3> QED  BY <1>1, <1>3, <2>2, <3>1 DEF CountsOK
  <2>14. published \in Nat /\ published' \in Nat /\ published =< published'
    BY <1>1, <1>3, PubSubAssumption DEF CountsOK
  <2>15. OnceInv(p, msg.id)'
    <3>1. msg.id \in Nat /\ ~(msg.id > published')
      BY <1>3, <2>3, <2>11, <2>14, PubSubAssumption DEF Ids
    <3>2. <<p, msg.id>> \notin due' /\ republished'[p][msg.id] =< 1
      BY <2>2, <2>12
    <3> QED  BY <2>11, <3>1, <3>2 DEF OnceInv, Unique, Waits, WaitsAtNode, At
  <2>16. ASSUME NEW q \in Proxies, NEW i \in Ids, ~(q = p /\ i = msg.id)
         PROVE  OnceInv(q, i)'
    <3>1. OnceInv(q, i) /\ republished'[q][i] = republished[q][i]
      BY <1>1, <2>12, <2>16 DEF OnceEach
    <3>2. Carries(inbox[q], Rest(p, x)[q], i)
      <4>1. CASE q = p
        <5>1. ~Fresh(Head(inbox[p][x]), i)
          BY <1>2, <2>16, <4>1 DEF Fresh
        <5> QED  BY <1>3, <1>4, <1>5, <4>1, <5>1, PopCarries
      <4>2. CASE q # p
        BY <1>5, <4>2, CarriesItself
      <4> QED  BY <4>1, <4>2
    <3>3. Carries(inbox[q], inbox'[q], i)
      BY <2>7, <3>2, CarriesOn
    <3>4. <<q, i>> \in due' => <<q, i>> \in due
      BY <2>2
    <3> QED  BY <2>14, <3>1, <3>3, <3>4, OnceKept
  <2>17. OnceEach'
    <3> SUFFICES ASSUME NEW q \in Proxies, NEW i \in Ids PROVE OnceInv(q, i)'
      BY DEF OnceEach
    <3>1. CASE q = p /\ i = msg.id
      BY <2>15, <3>1
    <3> QED  BY <2>16, <3>1
  <2> QED  BY <1>6, <2>5, <2>6, <2>13, <2>17, InvariantParts, PTL
<1> QED  BY <1>8, <1>9

LEMMA NodeSubscribeKeeps ==
  ASSUME PubSubInv, NEW n \in Nodes, NEW p \in Proxies, NEW c \in Channels,
         NodeSubscribe(n, p, c)
  PROVE  PubSubInv'
<1>1. CountsOK /\ SocketsOK /\ InboxOK /\ FiltersOK /\ OnceEach
  BY InvariantParts
<1>2. PICK msg : msg = [cmd |-> "SUBSCRIBE", topic |-> GuidTopic(p),
                        identifier |-> c, recursion |-> 0, id |-> 0]
  OBVIOUS
<1>3. PICK lost \in SUBSET Proxies :
        /\ Publish(n, msg, inbox, lost)
        /\ UNCHANGED <<connected, filters, channels, published, republished, due>>
  BY <1>2 DEF NodeSubscribe
<1>4. inbox \in [Proxies -> Boxes] /\ n \in Peers
  BY <1>1, InboxBoxes DEF Peers
<1>5. msg \in Sent /\ msg.id = 0
  <2>1. 0 \in 0..MaxPublications
    BY PubSubAssumption
  <2> QED  BY <1>2, <2>1 DEF Sent, Frames
<1>6. FiltersOK' /\ CountsOK'
  BY <1>1, <1>3, FiltersUnchanged DEF CountsOK
<1>7. InboxOK'
  <2>1. inbox' \in [Proxies -> Boxes]
    BY <1>3, <1>4, <1>5, PublishBoxes
  <2> QED  BY <2>1 DEF InboxOK, Boxes
<1>8. SocketsOK'
  <2>1. \A q \in Proxies, y \in Peers : y \notin connected[q] => inbox[q][y] = <<>>
    BY <1>1 DEF SocketsOK
  <2> QED  BY <1>1, <1>3, <1>4, <1>5, <2>1, PublishSockets
<1>9. OnceEach'
  <2> SUFFICES ASSUME NEW q \in Proxies, NEW i \in Ids PROVE OnceInv(q, i)'
    BY DEF OnceEach
  <2>1. ~Fresh(msg, i)
    BY <1>5, PubSubAssumption DEF Fresh, Ids
  <2>2. OnceInv(q, i) /\ Carries(inbox[q], inbox'[q], i)
    BY <1>1, <1>3, <1>4, <1>5, <2>1, PublishCarries DEF OnceEach
  <2>3. /\ published \in Nat /\ published' \in Nat /\ published =< published'
        /\ republished'[q][i] = republished[q][i]
        /\ <<q, i>> \in due' => <<q, i>> \in due
    BY <1>1, <1>3, PubSubAssumption DEF CountsOK
  <2> QED  BY <2>2, <2>3, OnceKept
<1> QED  BY <1>6, <1>7, <1>8, <1>9, InvariantParts, PTL

(* A node publishes: the number is new, and every proxy that listens to    *)
(* the topic has a filter that lets the message in.                        *)
LEMMA NodePublishKeeps ==
  ASSUME PubSubInv, NEW n \in Nodes, NEW c \in Channels, NEW topic,
         topic = c \/ topic \in {GuidTopic(p) : p \in Proxies},
         NodePublish(n, topic, c)
  PROVE  PubSubInv'
<1>1. CountsOK /\ SocketsOK /\ InboxOK /\ FiltersOK /\ OnceEach
  BY InvariantParts
<1>2. PICK new : new = published + 1
  OBVIOUS
<1>3. PICK msg : msg = [cmd |-> "PUBLISH", topic |-> topic, identifier |-> c,
                        recursion |-> 0, id |-> new]
  OBVIOUS
<1> DEFINE reached(lost) ==
      {q \in {q \in Proxies : topic = GuidTopic(q)}
               \cup {q \in Proxies : topic = c /\ c \in channels[q]} :
         n \in connected[q] /\ ~Dropped(q, n, inbox, lost)}
<1>4. PICK lost \in SUBSET Proxies :
        /\ published < MaxPublications /\ published' = new
        /\ Publish(n, msg, inbox, lost)
        /\ due' = due \cup {<<q, new>> : q \in reached(lost)}
        /\ UNCHANGED <<connected, filters, channels, republished>>
  BY <1>2, <1>3 DEF NodePublish
<1>5. \A q, i : <<q, i>> \in due' =>
        \/ <<q, i>> \in due
        \/ /\ i = new /\ q \in Proxies /\ n \in connected[q]
           /\ topic = GuidTopic(q) \/ topic \in channels[q]
           /\ ~Dropped(q, n, inbox, lost)
  BY <1>4
<1>6. /\ published \in Nat /\ new \in Nat /\ published =< new
      /\ new \in Ids /\ new \in 0..MaxPublications
  BY <1>1, <1>2, <1>4, PubSubAssumption DEF CountsOK, Ids
<1>7. inbox \in [Proxies -> Boxes] /\ n \in Peers
  BY <1>1, InboxBoxes DEF Peers
<1>8. msg \in Sent /\ msg.id = new /\ msg.topic = topic /\ Fresh(msg, new)
  BY <1>3, <1>6 DEF Sent, Frames, Fresh
<1>9. CountsOK'
  <2>1. due' \subseteq Proxies \X Ids
    <3>1. \A d \in due' : d \in due \/ \E q \in Proxies : d = <<q, new>>
      BY <1>4
    <3> QED  BY <1>1, <1>6, <3>1 DEF CountsOK
  <2> QED  BY <1>1, <1>4, <1>6, <2>1 DEF CountsOK
<1>10. FiltersOK'
  BY <1>1, <1>4, FiltersUnchanged
<1>11. InboxOK'
  <2>1. inbox' \in [Proxies -> Boxes]
    BY <1>4, <1>7, <1>8, PublishBoxes
  <2> QED  BY <2>1 DEF InboxOK, Boxes
<1>12. SocketsOK'
  <2>1. \A q \in Proxies, y \in Peers : y \notin connected[q] => inbox[q][y] = <<>>
    BY <1>1 DEF SocketsOK
  <2> QED  BY <1>1, <1>4, <1>7, <1>8, <2>1, PublishSockets
<1>13. ASSUME NEW q \in Proxies PROVE OnceInv(q, new)'
  <2>1. OnceInv(q, new) /\ inbox[q] \in Boxes
    BY <1>1, <1>6, <1>7 DEF OnceEach
  <2>2. new > published /\ ~(new =< published) /\ new =< published' /\ ~(new > published')
    BY <1>2, <1>4, <1>6
  <2>3. /\ ~Waits(inbox[q], new) /\ republished'[q][new] = 0
        /\ ~WaitsAtNode(inbox[q], new) /\ <<q, new>> \notin due
    <3>1. ~Waits(inbox[q], new) /\ republished'[q][new] = 0
      BY <1>4, <2>1, <2>2 DEF OnceInv
    <3>2. WaitsAtNode(inbox[q], new) => Waits(inbox[q], new)
      BY DEF WaitsAtNode, Waits, Peers
    <3> QED  BY <2>1, <3>1, <3>2 DEF OnceInv
  <2>4. inbox'[q] = IF Arrives(q, n, msg, inbox, lost) THEN Push(inbox[q], n, msg)
                    ELSE inbox[q]
    BY <1>4, <1>7, <1>8, PublishBoxes
  <2>5. Unique(inbox'[q], new) /\ (<<q, new>> \in due' => WaitsAtNode(inbox'[q], new))
    <3>1. CASE Arrives(q, n, msg, inbox, lost)
      <4>1. Unique(Push(inbox[q], n, msg), new) /\ WaitsAtNode(Push(inbox[q], n, msg), new)
        BY <1>7, <1>8, <2>1, <2>3, PushCarries
      <4> QED  BY <2>4, <3>1, <4>1
    <3>2. CASE ~Arrives(q, n, msg, inbox, lost)
      <4>1. <<q, new>> \notin due'
        <5> SUFFICES ASSUME <<q, new>> \in due' PROVE FALSE
          OBVIOUS
        <5>1. /\ n \in connected[q] /\ ~Dropped(q, n, inbox, lost)
              /\ msg.topic = GuidTopic(q) \/ msg.topic \in channels[q]
          BY <1>5, <1>8, <2>3
        <5>2. TypeOK
          BY DEF PubSubInv
        <5>3. Passes(q, n, msg)
          BY <1>1, <5>1, <5>2, TopicPasses
        <5> QED  BY <3>2, <5>1, <5>3 DEF Arrives
      <4> QED  BY <2>1, <2>4, <3>2, <4>1 DEF OnceInv
    <3> QED  BY <3>1, <3>2
  <2>6. republished'[q][new] =< 1
    BY <2>3
  <2> QED  BY <2>2, <2>3, <2>5, <2>6 DEF OnceInv, Unique, Waits, WaitsAtNode, At
<1>14. ASSUME NEW q \in Proxies, NEW i \in Ids, i # new PROVE OnceInv(q, i)'
  <2>1. ~Fresh(msg, i)
    BY <1>8, <1>14 DEF Fresh
  <2>2. OnceInv(q, i) /\ Carries(inbox[q], inbox'[q], i)
    BY <1>1, <1>4, <1>7, <1>8, <2>1, PublishCarries DEF OnceEach
  <2>3. /\ published \in Nat /\ published' \in Nat /\ published =< published'
        /\ republished'[q][i] = republished[q][i]
        /\ <<q, i>> \in due' => <<q, i>> \in due
    BY <1>4, <1>5, <1>6, <1>14
  <2> QED  BY <2>2, <2>3, OnceKept
<1>15. OnceEach'
  <2> SUFFICES ASSUME NEW q \in Proxies, NEW i \in Ids PROVE OnceInv(q, i)'
    BY DEF OnceEach
  <2>1. CASE i = new
    BY <1>13, <2>1
  <2> QED  BY <1>14, <2>1
<1> QED  BY <1>9, <1>10, <1>11, <1>12, <1>15, InvariantParts, PTL
----------------------------------------------------------------------------
(* The invariant and what follows from it *)

LEMMA PubSubInvInit == Init => PubSubInv
<1> SUFFICES ASSUME Init PROVE PubSubInv
  OBVIOUS
<1>1. CountsOK
  <2>1. 0 \in 0..MaxPublications /\ 0 \in 0..2
    BY PubSubAssumption
  <2> QED  BY <2>1 DEF Init, CountsOK
<1>2. SocketsOK /\ FiltersOK
  BY DEF Init, SocketsOK, FiltersOK
<1>3. InboxOK
  <2>1. <<>> \in Seq(Sent)
    BY EmptySeq
  <2> QED  BY <2>1 DEF Init, InboxOK
<1>4. OnceEach
  <2> SUFFICES ASSUME NEW p \in Proxies, NEW i \in Ids PROVE OnceInv(p, i)
    BY DEF OnceEach
  <2>1. \A x \in Peers : inbox[p][x] = <<>>
    BY DEF Init
  <2>2. \A x \in Peers, k \in Nat : ~At(inbox[p], x, k, i)
    BY <2>1 DEF At
  <2>3. Unique(inbox[p], i) /\ ~Waits(inbox[p], i)
    BY <2>2 DEF Unique, Waits
  <2>4. republished[p][i] = 0 /\ <<p, i>> \notin due
    BY DEF Init
  <2> QED  BY <2>3, <2>4 DEF OnceInv
<1> QED  BY <1>1, <1>2, <1>3, <1>4, InvariantParts

LEMMA PubSubInvStep == PubSubInv /\ [Next]_vars => PubSubInv'
<1> SUFFICES ASSUME PubSubInv, [Next]_vars PROVE PubSubInv'
  OBVIOUS
<1>1. CASE ProxyStep
  BY <1>1, SubscribeReqKeeps, PublishReqKeeps DEF ProxyStep
<1>2. CASE \E p \in Proxies, x \in Peers : NewSubscriber(p, x) \/ Kill(p, x)
  BY <1>2, NewSubscriberKeeps, KillKeeps
<1>3. CASE \E n \in Nodes, c \in Channels : NodePublish(n, c, c)
  BY <1>3, NodePublishKeeps
<1>4. CASE \E n \in Nodes, c \in Channels, p \in Proxies :
             NodeSubscribe(n, p, c) \/ NodePublish(n, GuidTopic(p), c)
  BY <1>4, NodeSubscribeKeeps, NodePublishKeeps
<1>5. CASE UNCHANGED vars
  BY <1>5 DEF vars, PubSubInv, TypeOK, InboxOK, FiltersOK, OnceInv, Unique, Waits,
              WaitsAtNode, At
<1> QED  BY <1>1, <1>2, <1>3, <1>4, <1>5 DEF Next

(* The inductive invariant holds of the channels: sockets, filters and     *)
(* queues fit together, and a publication comes fresh at most once.        *)
THEOREM PubSubInvariant == Spec => []PubSubInv
  BY PubSubInvInit, PubSubInvStep, PTL DEF Spec

(* Every variable of the channels has its type in every reachable state,   *)
(* and a peer that is not in subscribers has neither filters nor messages. *)
THEOREM PubSubTypeCorrect == Spec => []TypeOK
<1>1. PubSubInv => TypeOK
  BY DEF PubSubInv
<1> QED  BY <1>1, PubSubInvariant, PTL

(* However subscriptions, connections and kills follow one another, a      *)
(* proxy hears every channel it was asked for from every peer it is        *)
(* connected to (SubscribeReq and Subscriber::Connect together).           *)
THEOREM EveryChannelHeard == Spec => []ChannelsCovered
<1>1. PubSubInv => ChannelsCovered
  <2> SUFFICES ASSUME PubSubInv, NEW p \in Proxies, NEW c \in Channels,
                      NEW x \in connected[p], c \in channels[p]
               PROVE  Passes(p, x, [topic |-> c])
    BY DEF ChannelsCovered
  <2>1. PICK msg : msg = [topic |-> c]
    OBVIOUS
  <2>2. FiltersOK /\ TypeOK /\ msg.topic = c
    BY <2>1 DEF PubSubInv
  <2> QED  BY <2>1, <2>2, TopicPasses
<1> QED  BY <1>1, PubSubInvariant, PTL

(* No proxy hands a publication to its nodes twice, however many proxies   *)
(* subscribe to each other's channels (the recursion field of PublishReq). *)
THEOREM PublishedAgainOnce == Spec => []RepublishedOnce
<1>1. PubSubInv => RepublishedOnce
  BY DEF PubSubInv, OnceInv, RepublishedOnce
<1> QED  BY <1>1, PubSubInvariant, PTL

(* A publication sent while a proxy listened, and not dropped by the PUB   *)
(* socket (full queue, late subscription, broken connection), waits fresh  *)
(* in the socket for the node until the proxy hands it on or the           *)
(* subscriber is killed: the proxy's own filters and its recursion guard   *)
(* lose nothing.                                                           *)
THEOREM DueWaitsForTheProxy == Spec => []DueIsWaiting
<1>1. PubSubInv => DueIsWaiting
  <2> SUFFICES ASSUME PubSubInv, NEW d \in due
               PROVE  \E n \in Nodes : \E k \in DOMAIN inbox[d[1]][n] :
                        /\ inbox[d[1]][n][k].id = d[2]
                        /\ inbox[d[1]][n][k].recursion = 0
    BY DEF DueIsWaiting
  <2>1. d[1] \in Proxies /\ d[2] \in Ids /\ d = <<d[1], d[2]>>
    BY DEF PubSubInv, TypeOK
  <2>2. WaitsAtNode(inbox[d[1]], d[2])
    BY <2>1 DEF PubSubInv, OnceInv
  <2>3. PICK n \in Nodes, k \in Nat : At(inbox[d[1]], n, k, d[2])
    BY <2>2 DEF WaitsAtNode
  <2>4. inbox[d[1]][n] \in Seq(Sent)
    BY <2>1 DEF PubSubInv, InboxOK, Peers
  <2>5. DOMAIN inbox[d[1]][n] = 1..Len(inbox[d[1]][n])
    BY <2>4
  <2> QED  BY <2>3, <2>5 DEF At
<1> QED  BY <1>1, PubSubInvariant, PTL
============================================================================
