--------------------------- MODULE MainLoopProofs ---------------------------
(***************************************************************************)
(* The loop of a proxy for any number of peers and all values of its       *)
(* bounds: its variables keep their types, and the loop kills only         *)
(* subscribers that were silent or sent something unreadable.              *)
(***************************************************************************)
EXTENDS MainLoop, SequenceTheorems, TLAPS

QueuesOK == queue \in [Peers -> Seq(Messages)]

(* The subscribers the loop may kill in this round are still inactive: a   *)
(* message that makes one active takes it off idle.                        *)
IdleAreOld == \A s \in idle : age[s] > MaxInactive

(* Nothing readable waits in the socket of s. *)
Unheard(s) == \A i \in 1..Len(queue[s]) : queue[s][i] # "good"

(* A watched peer with nothing readable waiting has been silent for as     *)
(* long as the loop believes it to be inactive.                            *)
UnheardAreSilent ==
  \A s \in Watched \cap subscribers : Unheard(s) => silence[s] >= age[s]

(* The inductive invariant. *)
LoopInv == TypeOK /\ QueuesOK /\ IdleAreOld /\ UnheardAreSilent
----------------------------------------------------------------------------
(* What the invariant says of the connections. *)
ConnOK ==
  /\ subscribers \subseteq Peers
  /\ QueuesOK
  /\ \A s \in Peers : Len(queue[s]) =< QueueBound
  /\ age \in [Peers -> 0 .. Saturated]
  /\ silence \in [Watched -> 0 .. Saturated]
  /\ UnheardAreSilent

(* What it says of the round. *)
RoundOK ==
  /\ requests \in Seq(Request)
  /\ pc \in {"poll", "scan", "batch"}
  /\ idle \subseteq subscribers /\ todo \subseteq subscribers
  /\ cur \in Peers \cup {None} /\ r \in 0 .. MaxPerRound
  /\ loop \in 0 .. PeriodicEvery - 1 /\ ticks \in 0 .. TicksInRound
  /\ pc = "batch" <=> cur # None
  /\ pc = "batch" => cur \in subscribers \ todo
  /\ IdleAreOld

LEMMA InvariantParts == LoopInv <=> ConnOK /\ RoundOK
<1>1. LoopInv => ConnOK /\ RoundOK
  BY DEF LoopInv, TypeOK, ConnOK, RoundOK, QueuesOK
<1>2. ConnOK /\ RoundOK => LoopInv
  <2>1. QueuesOK => \A s \in Peers : queue[s] \in Seq(Messages)
    BY DEF QueuesOK
  <2> QED  BY <2>1 DEF LoopInv, TypeOK, ConnOK, RoundOK
<1> QED  BY <1>1, <1>2

LEMMA Constants ==
  /\ MaxPerRound \in Nat \ {0} /\ PeriodicEvery \in Nat \ {0}
  /\ QueueBound \in Nat \ {0} /\ MaxInactive \in Nat /\ TicksInRound \in Nat
  /\ Messages = {"good", "bad"} /\ None \notin Peers
  /\ Watched \subseteq Peers /\ Requests \subseteq Request
  /\ \A s \in Peers : Sends[s] \subseteq Messages
  BY MainLoopAssumption DEF Messages

(* The clock of a watched peer that is new, heard or gone is at zero.      *)
LEMMA RestartedKeeps ==
  ASSUME silence \in [Watched -> 0 .. Saturated], NEW S, Restarted(S)
  PROVE  /\ silence' \in [Watched -> 0 .. Saturated]
         /\ \A s \in Watched : silence'[s] = IF s \in S THEN 0 ELSE silence[s]
<1>1. 0 \in 0 .. Saturated
  BY Constants DEF Saturated
<1> QED  BY <1>1 DEF Restarted

(* An empty socket belongs to a peer that was silent as long as it seems. *)
LEMMA EmptyIsUnheard ==
  ASSUME NEW s, queue[s] = <<>>
  PROVE  Unheard(s)
<1>1. Len(queue[s]) = 0
  OBVIOUS
<1> QED  BY <1>1 DEF Unheard

(* New subscribers start with an empty socket and both clocks at zero. *)
LEMMA SubscribedKeeps ==
  ASSUME ConnOK, NEW S \in SUBSET Peers, Subscribed(S)
  PROVE  ConnOK'
<1>0. Restarted(S) /\ silence \in [Watched -> 0 .. Saturated]
  BY DEF Subscribed, ConnOK
<1>1. ASSUME NEW s \in Peers
      PROVE  /\ queue'[s] = IF s \in S THEN <<>> ELSE queue[s]
             /\ age'[s] = IF s \in S THEN 0 ELSE age[s]
  BY DEF Subscribed
<1>2. subscribers' = subscribers \cup S
  BY DEF Subscribed
<1>3. subscribers' \subseteq Peers
  BY <1>2 DEF ConnOK
<1>4. QueuesOK'
  <2>1. <<>> \in Seq(Messages)
    BY EmptySeq
  <2> QED  BY <2>1 DEF Subscribed, ConnOK, QueuesOK
<1>5. ASSUME NEW s \in Peers PROVE Len(queue'[s]) =< QueueBound
  BY <1>1, Constants DEF ConnOK
<1>6. /\ age' \in [Peers -> 0 .. Saturated]
      /\ silence' \in [Watched -> 0 .. Saturated]
      /\ \A s \in Watched : silence'[s] = IF s \in S THEN 0 ELSE silence[s]
  <2>1. age' \in [Peers -> 0 .. Saturated]
    BY Constants DEF Subscribed, ConnOK, Saturated
  <2> QED  BY <1>0, <2>1, RestartedKeeps
<1>7. UnheardAreSilent'
  <2> SUFFICES ASSUME NEW s \in Watched, s \in subscribers', Unheard(s)'
               PROVE  silence'[s] >= age'[s]
    BY DEF UnheardAreSilent
  <2>0. s \in Peers
    BY <1>3
  <2>1. CASE s \in S
    BY <1>1, <1>6, <2>0, <2>1
  <2>2. CASE s \notin S
    <3>1. s \in subscribers /\ Unheard(s)
      BY <1>1, <1>2, <2>0, <2>2 DEF Unheard
    <3> QED  BY <1>1, <1>6, <2>0, <2>2, <3>1 DEF ConnOK, UnheardAreSilent
  <2> QED  BY <2>1, <2>2
<1> QED  BY <1>3, <1>4, <1>5, <1>6, <1>7 DEF ConnOK

(* What is left in a socket after its first message. *)
LEMMA TailOf ==
  ASSUME NEW q \in Seq(Messages), q # <<>>
  PROVE  /\ Tail(q) \in Seq(Messages)
         /\ Len(Tail(q)) =< Len(q)
         /\ Head(q) \in Messages
         /\ /\ Head(q) # "good"
            /\ \A i \in 1..Len(Tail(q)) : Tail(q)[i] # "good"
            => \A i \in 1..Len(q) : q[i] # "good"
<1>1. /\ Tail(q) \in Seq(Messages) /\ Head(q) \in Messages
      /\ Len(q) \in Nat /\ Len(Tail(q)) = Len(q) - 1
      /\ \A i \in 1..Len(Tail(q)) : Tail(q)[i] = q[i + 1]
  BY HeadTailProperties, LenProperties
<1>2. Head(q) = q[1]
  OBVIOUS
<1>3. ASSUME Head(q) # "good", \A i \in 1..Len(Tail(q)) : Tail(q)[i] # "good",
             NEW i \in 1..Len(q)
      PROVE  q[i] # "good"
  <2>1. CASE i = 1
    BY <1>2, <1>3, <2>1
  <2>2. CASE i # 1
    <3>1. i - 1 \in 1..Len(Tail(q)) /\ (i - 1) + 1 = i
      BY <1>1, <2>2
    <3> QED  BY <1>1, <1>3, <3>1
  <2> QED  BY <2>1, <2>2
<1>4. Len(Tail(q)) =< Len(q)
  BY <1>1
<1> QED  BY <1>1, <1>3, <1>4

(* The socket of one subscriber changes: what its queue becomes must tell  *)
(* no less of its silence.                                                 *)
LEMMA QueueChanges ==
  ASSUME ConnOK, NEW c \in Peers, NEW q \in Seq(Messages), Len(q) =< QueueBound,
         queue' = [queue EXCEPT ![c] = q], UNCHANGED <<age, silence>>,
         subscribers' \subseteq subscribers,
         \/ c \notin subscribers'
         \/ (\A i \in 1..Len(q) : q[i] # "good") => Unheard(c)
  PROVE  ConnOK'
<1>1. QueuesOK'
  BY DEF ConnOK, QueuesOK
<1>2. ASSUME NEW s \in Peers PROVE queue'[s] = IF s = c THEN q ELSE queue[s]
  BY DEF ConnOK, QueuesOK
<1>3. \A s \in Peers : Len(queue'[s]) =< QueueBound
  BY <1>2 DEF ConnOK
<1>4. UnheardAreSilent'
  <2> SUFFICES ASSUME NEW s \in Watched, s \in subscribers', Unheard(s)'
               PROVE  silence'[s] >= age'[s]
    BY DEF UnheardAreSilent
  <2>1. s \in subscribers /\ s \in Peers
    BY DEF ConnOK
  <2>2. Unheard(s)
    BY <1>2, <2>1 DEF Unheard
  <2> QED  BY <2>1, <2>2 DEF ConnOK, UnheardAreSilent
<1> QED  BY <1>1, <1>3, <1>4 DEF ConnOK
----------------------------------------------------------------------------
(* The loop *)

LEMMA PollKeeps ==
  ASSUME ConnOK, RoundOK, PollResponder
  PROVE  ConnOK' /\ RoundOK'
<1> DEFINE Choices == IF requests = <<>> THEN {{}}
                      ELSE ResponderCallback(Head(requests))
<1>0. PICK S \in Choices : Subscribed(S)
  BY DEF PollResponder
<1>1. S \in SUBSET Peers /\ requests' \in Seq(Request)
  <2>1. CASE requests = <<>>
    BY <2>1, EmptySeq DEF PollResponder
  <2>2. CASE requests # <<>>
    <3>1. Head(requests) \in Request /\ Tail(requests) \in Seq(Request)
      BY <2>2, HeadTailProperties DEF RoundOK
    <3>2. Head(requests).from \in Peers
      BY <3>1 DEF Request
    <3>3. S \in ResponderCallback(Head(requests))
      BY <2>2
    <3> QED  BY <2>2, <3>1, <3>2, <3>3 DEF ResponderCallback, PollResponder
  <2> QED  BY <2>1, <2>2
<1>2. ConnOK'
  BY <1>0, <1>1, SubscribedKeeps
<1>3. IdleAreOld'
  BY DEF PollResponder, IdleAreOld
<1>4. 0 \in 0 .. TicksInRound
  BY Constants
<1> QED  BY <1>1, <1>2, <1>3, <1>4 DEF PollResponder, RoundOK

LEMMA VisitKeeps ==
  ASSUME ConnOK, RoundOK, NEW s \in Peers, Visit(s)
  PROVE  ConnOK' /\ RoundOK'
<1>1. ConnOK'
  BY DEF Visit, connVars, ConnOK, QueuesOK, UnheardAreSilent, Unheard
<1>2. 0 \in 0 .. MaxPerRound /\ s # None
  BY Constants
<1>3. IdleAreOld'
  BY DEF Visit, connVars, RoundOK, IdleAreOld
<1> QED  BY <1>1, <1>2, <1>3 DEF Visit, connVars, RoundOK

(* The head of the socket that is polled. *)
LEMMA BatchCur ==
  ASSUME RoundOK, ConnOK, pc = "batch"
  PROVE  /\ cur \in Peers /\ cur \in subscribers /\ cur \notin todo
         /\ queue[cur] \in Seq(Messages) /\ Len(queue[cur]) =< QueueBound
  BY DEF RoundOK, ConnOK, QueuesOK

LEMMA HandleKeeps ==
  ASSUME ConnOK, RoundOK, Handle
  PROVE  ConnOK' /\ RoundOK'
<1>1. /\ cur \in Peers /\ cur \in subscribers /\ queue[cur] \in Seq(Messages)
      /\ queue[cur] # <<>> /\ Len(queue[cur]) =< QueueBound
  BY BatchCur DEF Handle, HasMessage
<1>2. Tail(queue[cur]) \in Seq(Messages) /\ Len(Tail(queue[cur])) =< QueueBound
  <2>1. /\ Tail(queue[cur]) \in Seq(Messages)
        /\ Len(Tail(queue[cur])) =< Len(queue[cur])
    BY <1>1, TailOf
  <2> QED  BY <1>1, <2>1, LenProperties, Constants
<1>3. ASSUME NEW s \in Peers
      PROVE  /\ queue'[s] = IF s = cur THEN Tail(queue[cur]) ELSE queue[s]
             /\ age'[s] = IF s = cur THEN 0 ELSE age[s]
  BY DEF Handle, ConnOK, QueuesOK
<1>4. QueuesOK' /\ \A s \in Peers : Len(queue'[s]) =< QueueBound
  <2>1. QueuesOK'
    BY <1>1, <1>2 DEF Handle, ConnOK, QueuesOK
  <2> QED  BY <1>2, <1>3, <2>1 DEF ConnOK
<1>5. age' \in [Peers -> 0 .. Saturated]
  <2>1. 0 \in 0 .. Saturated
    BY Constants DEF Saturated
  <2>2. age' = [age EXCEPT ![cur] = 0] /\ age \in [Peers -> 0 .. Saturated]
    BY DEF Handle, ConnOK
  <2> QED  BY <2>1, <2>2
<1>6. UnheardAreSilent'
  <2> SUFFICES ASSUME NEW s \in Watched, s \in subscribers', Unheard(s)'
               PROVE  silence'[s] >= age'[s]
    BY DEF UnheardAreSilent
  <2>0. s \in Peers /\ s \in subscribers /\ silence'[s] = silence[s]
        /\ silence[s] \in 0 .. Saturated
    BY DEF Handle, ConnOK
  <2>1. CASE s = cur
    BY <1>3, <2>0, <2>1, Constants DEF Saturated
  <2>2. CASE s # cur
    <3>1. Unheard(s)
      BY <1>3, <2>0, <2>2 DEF Unheard
    <3> QED  BY <1>3, <2>0, <2>2, <3>1 DEF ConnOK, UnheardAreSilent
  <2> QED  BY <2>1, <2>2
<1>7. ConnOK'
  BY <1>4, <1>5, <1>6 DEF Handle, ConnOK
<1>8. r' \in 0 .. MaxPerRound
  BY Constants DEF Handle, BatchOver, RoundOK
<1>9. IdleAreOld'
  <2> SUFFICES ASSUME NEW s \in idle' PROVE age'[s] > MaxInactive
    BY DEF IdleAreOld
  <2>1. s \in idle /\ s # cur /\ s \in Peers
    BY DEF Handle, RoundOK, ConnOK
  <2> QED  BY <1>3, <2>1 DEF RoundOK, IdleAreOld
<1> QED  BY <1>7, <1>8, <1>9 DEF Handle, RoundOK

LEMMA NoMessageKeeps ==
  ASSUME ConnOK, RoundOK, NoMessage
  PROVE  ConnOK' /\ RoundOK'
<1> DEFINE q == IF queue[cur] = <<>> THEN queue[cur] ELSE Tail(queue[cur])
<1>1. /\ cur \in Peers /\ cur \in subscribers /\ queue[cur] \in Seq(Messages)
      /\ Len(queue[cur]) =< QueueBound
      /\ ~(queue[cur] # <<>> /\ Head(queue[cur]) = "good")
  BY BatchCur DEF NoMessage, PollsNull, HasMessage
<1>2. /\ q \in Seq(Messages) /\ Len(q) =< QueueBound
      /\ (\A i \in 1..Len(q) : q[i] # "good") => Unheard(cur)
  <2>1. CASE queue[cur] = <<>>
    BY <1>1, <2>1 DEF Unheard
  <2>2. CASE queue[cur] # <<>>
    <3>1. /\ Tail(queue[cur]) \in Seq(Messages)
          /\ Len(Tail(queue[cur])) =< Len(queue[cur])
          /\ (\A i \in 1..Len(Tail(queue[cur])) : Tail(queue[cur])[i] # "good")
             => \A i \in 1..Len(queue[cur]) : queue[cur][i] # "good"
      BY <1>1, <2>2, TailOf
    <3>2. Len(Tail(queue[cur])) =< QueueBound
      BY <1>1, <3>1, LenProperties, Constants
    <3> QED  BY <2>2, <3>1, <3>2 DEF Unheard
  <2> QED  BY <2>1, <2>2
<1>3. queue' = [queue EXCEPT ![cur] = q]
  BY DEF NoMessage
<1>4. UNCHANGED <<age, silence>> /\ subscribers' \subseteq subscribers
  BY DEF NoMessage
<1> HIDE DEF q
<1>5. ConnOK'
  BY <1>1, <1>2, <1>3, <1>4, QueueChanges
<1>6. 0 \in 0 .. MaxPerRound
  BY Constants
<1>7. IdleAreOld'
  BY DEF NoMessage, RoundOK, IdleAreOld
<1> QED  BY <1>5, <1>6, <1>7 DEF NoMessage, LeaveBatch, RoundOK

LEMMA KillKeeps ==
  ASSUME ConnOK, RoundOK, KillInactive
  PROVE  ConnOK' /\ RoundOK'
<1>1. cur \in Peers /\ cur \in subscribers /\ cur \notin todo
  BY BatchCur DEF KillInactive, PollsNull
<1>2. /\ queue' = [queue EXCEPT ![cur] = <<>>]
      /\ subscribers' = subscribers \ {cur}
      /\ age' = [age EXCEPT ![cur] = 0] /\ Restarted({cur})
  BY DEF KillInactive, Killed
<1>3. ASSUME NEW s \in Peers
      PROVE  /\ queue'[s] = IF s = cur THEN <<>> ELSE queue[s]
             /\ age'[s] = IF s = cur THEN 0 ELSE age[s]
  BY <1>2 DEF ConnOK, QueuesOK
<1>4. ConnOK'
  <2>1. QueuesOK' /\ \A s \in Peers : Len(queue'[s]) =< QueueBound
    <3>1. <<>> \in Seq(Messages) /\ Len(<<>>) =< QueueBound
      BY EmptySeq, Constants
    <3>2. QueuesOK'
      BY <1>2, <3>1 DEF ConnOK, QueuesOK
    <3> QED  BY <1>3, <3>1, <3>2 DEF ConnOK
  <2>2. /\ age' \in [Peers -> 0 .. Saturated]
        /\ silence' \in [Watched -> 0 .. Saturated]
        /\ \A s \in Watched : s # cur => silence'[s] = silence[s]
    <3>1. 0 \in 0 .. Saturated
      BY Constants DEF Saturated
    <3>2. age' \in [Peers -> 0 .. Saturated]
      BY <1>2, <3>1 DEF ConnOK
    <3>3. silence \in [Watched -> 0 .. Saturated]
      BY DEF ConnOK
    <3>4. /\ silence' \in [Watched -> 0 .. Saturated]
          /\ \A s \in Watched : silence'[s] = IF s \in {cur} THEN 0 ELSE silence[s]
      BY <1>2, <3>3, RestartedKeeps
    <3> QED  BY <3>2, <3>4
  <2>3. UnheardAreSilent'
    <3> SUFFICES ASSUME NEW s \in Watched, s \in subscribers', Unheard(s)'
                 PROVE  silence'[s] >= age'[s]
      BY DEF UnheardAreSilent
    <3>1. s \in subscribers /\ s # cur /\ s \in Peers
      BY <1>2 DEF ConnOK
    <3>2. Unheard(s)
      BY <1>3, <3>1 DEF Unheard
    <3> QED  BY <1>3, <2>2, <3>1, <3>2 DEF ConnOK, UnheardAreSilent
  <2> QED  BY <1>2, <2>1, <2>2, <2>3 DEF ConnOK
<1>5. 0 \in 0 .. MaxPerRound
  BY Constants
<1>6. IdleAreOld'
  <2> SUFFICES ASSUME NEW s \in idle' PROVE age'[s] > MaxInactive
    BY DEF IdleAreOld
  <2>1. s \in idle /\ s # cur /\ s \in Peers
    BY DEF KillInactive, RoundOK, ConnOK
  <2> QED  BY <1>3, <2>1 DEF RoundOK, IdleAreOld
<1>7. todo' \subseteq subscribers' /\ idle' \subseteq subscribers'
  BY <1>1, <1>2 DEF KillInactive, RoundOK
<1> QED  BY <1>4, <1>5, <1>6, <1>7 DEF KillInactive, LeaveBatch, RoundOK

LEMMA ConnUnchanged ==
  ASSUME ConnOK, UNCHANGED connVars
  PROVE  ConnOK'
  BY DEF connVars, ConnOK, QueuesOK, UnheardAreSilent, Unheard

LEMMA BatchDoneKeeps ==
  ASSUME ConnOK, RoundOK, BatchDone
  PROVE  ConnOK' /\ RoundOK'
<1>1. ConnOK'
  BY ConnUnchanged DEF BatchDone
<1>2. 0 \in 0 .. MaxPerRound
  BY Constants
<1>3. IdleAreOld'
  BY DEF BatchDone, connVars, RoundOK, IdleAreOld
<1> QED  BY <1>1, <1>2, <1>3 DEF BatchDone, LeaveBatch, connVars, RoundOK

LEMMA NextRoundKeeps ==
  ASSUME RoundOK, ScanDone, NextRound, subscribers \subseteq subscribers'
  PROVE  RoundOK'
<1>1. loop' \in 0 .. PeriodicEvery - 1
  BY Constants DEF NextRound, RoundOK
<1>2. IdleAreOld'
  BY DEF NextRound, IdleAreOld
<1> QED  BY <1>1, <1>2 DEF ScanDone, NextRound, RoundOK

LEMMA PeriodicKeeps ==
  ASSUME ConnOK, RoundOK, PeriodicWork \/ NoPeriodicWork
  PROVE  ConnOK' /\ RoundOK'
<1>1. CASE PeriodicWork
  <2>1. PICK S \in SUBSET (Peers \ subscribers) : Subscribed(S)
    BY <1>1 DEF PeriodicWork
  <2>2. S \in SUBSET Peers
    OBVIOUS
  <2>3. ConnOK' /\ subscribers \subseteq subscribers'
    BY <2>1, <2>2, SubscribedKeeps DEF Subscribed
  <2> QED  BY <1>1, <2>3, NextRoundKeeps DEF PeriodicWork
<1>2. CASE NoPeriodicWork
  BY <1>2, ConnUnchanged, NextRoundKeeps DEF NoPeriodicWork, connVars
<1> QED  BY <1>1, <1>2
----------------------------------------------------------------------------
(* The environment *)

LEMMA ArriveKeeps ==
  ASSUME ConnOK, RoundOK, NEW s \in Peers, NEW m \in Messages, Arrive(s, m)
  PROVE  ConnOK' /\ RoundOK'
<1> DEFINE q == Append(queue[s], m)
<1>1. /\ s \in subscribers /\ Len(queue[s]) < QueueBound
      /\ queue' = [queue EXCEPT ![s] = q]
      /\ IF m = "good" THEN Restarted({s}) ELSE UNCHANGED silence
      /\ UNCHANGED <<subscribers, age, requests, pc, scanVars, loop, ticks>>
  BY DEF Arrive
<1>2. queue[s] \in Seq(Messages)
  BY DEF ConnOK, QueuesOK
<1>3. /\ q \in Seq(Messages) /\ Len(queue[s]) \in Nat /\ Len(q) = Len(queue[s]) + 1
      /\ \A i \in 1..Len(queue[s]) : q[i] = queue[s][i]
      /\ q[Len(queue[s]) + 1] = m
  BY <1>2, AppendProperties, LenProperties
<1>4. Len(q) =< QueueBound
  BY <1>1, <1>3, Constants
<1> HIDE DEF q
<1>5. ASSUME NEW t \in Peers
      PROVE  queue'[t] = IF t = s THEN q ELSE queue[t]
  BY <1>1 DEF ConnOK, QueuesOK
<1>6. QueuesOK' /\ \A t \in Peers : Len(queue'[t]) =< QueueBound
  <2>1. QueuesOK'
    BY <1>1, <1>3 DEF ConnOK, QueuesOK
  <2> QED  BY <1>4, <1>5, <2>1 DEF ConnOK
<1>7. /\ silence' \in [Watched -> 0 .. Saturated]
      /\ \A t \in Watched :
           silence'[t] = IF t = s /\ m = "good" THEN 0 ELSE silence[t]
  <2>0. silence \in [Watched -> 0 .. Saturated]
    BY DEF ConnOK
  <2>1. CASE m = "good"
    <3>1. /\ silence' \in [Watched -> 0 .. Saturated]
          /\ \A t \in Watched : silence'[t] = IF t \in {s} THEN 0 ELSE silence[t]
      BY <1>1, <2>0, <2>1, RestartedKeeps
    <3> QED  BY <2>1, <3>1
  <2>2. CASE m # "good"
    BY <1>1, <2>0, <2>2
  <2> QED  BY <2>1, <2>2
<1>8. UnheardAreSilent'
  <2> SUFFICES ASSUME NEW t \in Watched, t \in subscribers', Unheard(t)'
               PROVE  silence'[t] >= age'[t]
    BY DEF UnheardAreSilent
  <2>0. t \in Peers /\ t \in subscribers
    BY <1>1 DEF ConnOK
  <2>1. CASE t # s
    <3>1. Unheard(t)
      BY <1>5, <2>0, <2>1 DEF Unheard
    <3> QED  BY <1>1, <1>7, <2>0, <2>1, <3>1 DEF ConnOK, UnheardAreSilent
  <2>2. CASE t = s
    <3>1. \A i \in 1..Len(q) : q[i] # "good"
      BY <1>5, <2>0, <2>2 DEF Unheard
    <3>2. m # "good"
      <4>1. Len(queue[s]) + 1 \in 1..Len(q)
        BY <1>3
      <4> QED  BY <1>3, <3>1, <4>1
    <3>3. ASSUME NEW i \in 1..Len(queue[s]) PROVE queue[s][i] # "good"
      <4>1. i \in 1..Len(q)
        BY <1>3
      <4> QED  BY <1>3, <3>1, <4>1
    <3>4. Unheard(t)
      BY <2>2, <3>3 DEF Unheard
    <3> QED  BY <1>1, <1>7, <2>0, <2>2, <3>2, <3>4 DEF ConnOK, UnheardAreSilent
  <2> QED  BY <2>1, <2>2
<1>9. ConnOK'
  BY <1>1, <1>6, <1>7, <1>8 DEF ConnOK
<1>10. IdleAreOld'
  BY <1>1 DEF scanVars, RoundOK, IdleAreOld
<1> QED  BY <1>1, <1>9, <1>10 DEF scanVars, RoundOK

LEMMA HelloKeeps ==
  ASSUME ConnOK, RoundOK, NEW req \in Request, Hello(req)
  PROVE  ConnOK' /\ RoundOK'
<1>1. ConnOK'
  BY ConnUnchanged DEF Hello
<1>2. requests' \in Seq(Request)
  BY AppendProperties DEF Hello, RoundOK
<1>3. IdleAreOld'
  BY DEF Hello, connVars, scanVars, RoundOK, IdleAreOld
<1> QED  BY <1>1, <1>2, <1>3 DEF Hello, connVars, scanVars, RoundOK

(* Both clocks run alike. *)
LEMMA OlderKeeps ==
  ASSUME NEW S, NEW f \in [S -> 0 .. Saturated]
  PROVE  /\ Older(f) \in [S -> 0 .. Saturated]
         /\ \A s \in S : Older(f)[s] = IF s \in subscribers /\ f[s] < Saturated
                                      THEN f[s] + 1 ELSE f[s]
<1>1. Saturated \in Nat
  BY Constants DEF Saturated
<1>2. DOMAIN f = S
  OBVIOUS
<1> HIDE DEF Saturated
<1>3. \A s \in S : f[s] < Saturated => f[s] + 1 \in 0 .. Saturated
  BY <1>1
<1> QED  BY <1>2, <1>3 DEF Older

LEMMA TickKeeps ==
  ASSUME ConnOK, RoundOK, Tick
  PROVE  ConnOK' /\ RoundOK'
<1>1. /\ ticks < TicksInRound /\ ticks' = ticks + 1
      /\ age' = Older(age) /\ silence' = Older(silence)
      /\ UNCHANGED <<subscribers, queue, requests, pc, scanVars, loop>>
  BY DEF Tick
<1>2. /\ age \in [Peers -> 0 .. Saturated] /\ silence \in [Watched -> 0 .. Saturated]
      /\ subscribers \subseteq Peers /\ Watched \subseteq Peers
  BY Constants DEF ConnOK
<1>3. /\ age' \in [Peers -> 0 .. Saturated] /\ silence' \in [Watched -> 0 .. Saturated]
      /\ \A s \in Watched : silence[s] >= age[s] => silence'[s] >= age'[s]
      /\ \A s \in Peers : age[s] > MaxInactive => age'[s] > MaxInactive
  <2>1. /\ age' \in [Peers -> 0 .. Saturated]
        /\ \A s \in Peers : age'[s] = IF s \in subscribers /\ age[s] < Saturated
                                     THEN age[s] + 1 ELSE age[s]
    BY <1>1, <1>2, OlderKeeps
  <2>2. /\ silence' \in [Watched -> 0 .. Saturated]
        /\ \A s \in Watched :
             silence'[s] = IF s \in subscribers /\ silence[s] < Saturated
                           THEN silence[s] + 1 ELSE silence[s]
    BY <1>1, <1>2, OlderKeeps
  <2>3. Saturated \in Nat /\ MaxInactive \in Nat
    BY Constants DEF Saturated
  <2> HIDE DEF Saturated
  <2>4. \A s \in Watched : silence[s] >= age[s] => silence'[s] >= age'[s]
    BY <1>2, <2>1, <2>2, <2>3
  <2>5. \A s \in Peers : age[s] > MaxInactive => age'[s] > MaxInactive
    BY <1>2, <2>1, <2>3
  <2> QED  BY <2>1, <2>2, <2>4, <2>5
<1>4. UnheardAreSilent'
  BY <1>1, <1>2, <1>3 DEF ConnOK, UnheardAreSilent, Unheard
<1>5. ConnOK'
  BY <1>1, <1>3, <1>4 DEF ConnOK, QueuesOK
<1>6. IdleAreOld'
  BY <1>1, <1>2, <1>3 DEF scanVars, RoundOK, IdleAreOld
<1>7. ticks' \in 0 .. TicksInRound
  BY <1>1, Constants DEF RoundOK
<1> QED  BY <1>1, <1>5, <1>6, <1>7 DEF scanVars, RoundOK
----------------------------------------------------------------------------
(* The theorems *)

LEMMA LoopInvInit == Init => LoopInv
<1> SUFFICES ASSUME Init PROVE ConnOK /\ RoundOK
  BY InvariantParts
<1>1. /\ <<>> \in Seq(Messages) /\ <<>> \in Seq(Request) /\ Len(<<>>) = 0
  BY EmptySeq
<1>2. ConnOK
  BY <1>1, Constants DEF Init, ConnOK, QueuesOK, UnheardAreSilent, Saturated
<1>3. RoundOK
  BY <1>1, Constants DEF Init, RoundOK, IdleAreOld
<1> QED  BY <1>2, <1>3

LEMMA LoopInvStep == LoopInv /\ [Next]_vars => LoopInv'
<1> SUFFICES ASSUME ConnOK, RoundOK, [Next]_vars PROVE ConnOK' /\ RoundOK'
  BY InvariantParts, PTL
<1>1. CASE LoopStep
  BY <1>1, PollKeeps, HandleKeeps, NoMessageKeeps, KillKeeps, BatchDoneKeeps,
     PeriodicKeeps, VisitKeeps DEF LoopStep
<1>2. CASE Tick
  BY <1>2, TickKeeps
<1>3. CASE \E req \in Requests : Hello(req)
  BY <1>3, HelloKeeps, Constants
<1>4. CASE \E s \in Peers : \E m \in Sends[s] : Arrive(s, m)
  BY <1>4, ArriveKeeps, Constants
<1>5. CASE UNCHANGED vars
  <2>1. ConnOK'
    BY <1>5, ConnUnchanged DEF vars
  <2> QED  BY <1>5, <2>1 DEF vars, connVars, scanVars, RoundOK, IdleAreOld
<1> QED  BY <1>1, <1>2, <1>3, <1>4, <1>5 DEF Next

LEMMA LoopInvariant == Spec => []LoopInv
  BY LoopInvInit, LoopInvStep, PTL DEF Spec

(* Type correctness of the loop; the batch belongs to a subscriber that is *)
(* connected and that the iterator has left (Proxy::MainLoop).             *)
THEOREM LoopTypeCorrect == Spec => []TypeOK
<1>1. LoopInv => TypeOK
  BY DEF LoopInv
<1> QED  BY <1>1, LoopInvariant, PTL

(* However long a round is blocked, however the batches and the messages   *)
(* interleave: the loop kills a subscriber only if nothing readable came   *)
(* from it for more than MaxInactive seconds, or if what came is behind a  *)
(* message that can not be parsed (Proxy::MainLoop, Subscriber::Poll).     *)
THEOREM OnlySilentAreKilled == Spec => OnlySilentKilled
<1> DEFINE Justified == \A s \in Watched \cap (subscribers \ subscribers') :
                          \/ silence[s] > MaxInactive
                          \/ queue[s] # <<>> /\ Head(queue[s]) = "bad"
<1>1. LoopInv /\ [Next]_vars => [Justified]_vars
  <2> SUFFICES ASSUME ConnOK, RoundOK, Next,
                      NEW s \in Watched, s \in subscribers, s \notin subscribers'
               PROVE  \/ silence[s] > MaxInactive
                      \/ queue[s] # <<>> /\ Head(queue[s]) = "bad"
    BY InvariantParts
  <2>1. KillInactive /\ s = cur
    BY DEF Next, LoopStep, PollResponder, Subscribed, Handle, NoMessage,
       KillInactive, Killed, BatchDone, PeriodicWork, NoPeriodicWork, Visit,
       Tick, Hello, Arrive, connVars
  <2>2. cur \in idle /\ ~HasMessage /\ queue[cur] \in Seq(Messages) /\ cur \in Peers
    BY <2>1, BatchCur DEF KillInactive, PollsNull
  <2>3. CASE queue[cur] # <<>>
    <3>1. Head(queue[cur]) \in Messages
      BY <2>2, <2>3, TailOf
    <3> QED  BY <2>1, <2>2, <2>3, <3>1, Constants DEF HasMessage
  <2>4. CASE queue[cur] = <<>>
    <3>1. silence[cur] >= age[cur]
      BY <2>1, <2>4, EmptyIsUnheard DEF ConnOK, UnheardAreSilent
    <3>2. age[cur] > MaxInactive
      BY <2>2 DEF RoundOK, IdleAreOld
    <3>3. silence[cur] \in Nat /\ age[cur] \in Nat /\ MaxInactive \in Nat
      BY <2>1, <2>2, Constants DEF ConnOK, Saturated
    <3> QED  BY <2>1, <3>1, <3>2, <3>3
  <2> QED  BY <2>3, <2>4
<1> QED  BY <1>1, LoopInvariant, PTL DEF Spec, OnlySilentKilled
============================================================================
