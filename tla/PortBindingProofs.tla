------------------------- MODULE PortBindingProofs -------------------------
(***************************************************************************)
(* PortBinding for any number of processes, retries and ports: what a      *)
(* running proxy tells others is where it listens, and nobody else does.   *)
(***************************************************************************)
EXTENDS PortBinding, FiniteSetTheorems, FunctionTheorems, TLAPS

(* The inductive invariant.  A port that a process holds leaves it only    *)
(* with the process, so that AdvertisedBound needs only the types.         *)
BindInv == TypeOK /\ AdvertisedBound

LEMMA PortsFit ==
  ASSUME TypeOK, NEW p \in Procs, stage[p] \in Loops
  PROVE  /\ port[p] \in Ports
         /\ retries[p] + 1 < MaxRetries => port[p] + 1 \in Ports
         /\ \A loop \in Loops : FirstPortOf(loop) \in Ports
BY PortAssumption DEF TypeOK, Ports, Loops, FirstPortOf

(* A socket takes only a free port. *)
LEMMA BindKeeps ==
  ASSUME TypeOK, NEW p \in Procs, stage[p] \in Loops
  PROVE  /\ Bind(p) \in [Ports -> Owners]
         /\ \A x \in Ports : owner[x] # None => Bind(p)[x] = owner[x]
         /\ Free(port[p]) => Bind(p)[port[p]] = <<p, stage[p]>>
<1>1. port[p] \in Ports /\ <<p, stage[p]>> \in Owners
  BY DEF TypeOK, Owners
<1> QED BY <1>1 DEF TypeOK, Bind, Free

(* The end of a process touches no other's ports. *)
LEMMA UnboundKeeps ==
  ASSUME TypeOK, NEW p \in Procs
  PROVE  /\ Unbound(p) \in [Ports -> Owners]
         /\ \A x \in Ports, q \in Procs, loop \in Loops :
              q # p /\ owner[x] = <<q, loop>> => Unbound(p)[x] = owner[x]
BY PortAssumption DEF TypeOK, Unbound, Owners

LEMMA InitBindInv == Init => BindInv
<1> SUFFICES ASSUME Init PROVE BindInv OBVIOUS
<1>0. FirstPort \in Ports /\ FirstPort + 1 \in Ports /\ 0 \in 0 .. MaxRetries
  BY PortAssumption DEF Ports
<1>1. TypeOK
  <2>1. undisturbed \in BOOLEAN /\ greedy \in BOOLEAN /\ errno \in [Procs -> BOOLEAN]
    BY DEF Init
  <2>2. /\ stage \in [Procs -> {"off", "up", "aborted"} \cup Loops]
        /\ port \in [Procs -> Ports] /\ retries \in [Procs -> 0 .. MaxRetries]
        /\ owner \in [Ports -> Owners]
        /\ responderPort \in [Procs -> Ports] /\ publisherPort \in [Procs -> Ports]
    BY <1>0 DEF Init, Owners
  <2>3. \A p \in Procs : stage[p] \notin Loops
    BY DEF Init, Loops
  <2> QED BY <2>1, <2>2, <2>3 DEF TypeOK
<1>2. AdvertisedBound
  BY DEF Init, AdvertisedBound
<1> QED BY <1>1, <1>2 DEF BindInv

LEMMA StepTypeOK == TypeOK /\ [Next]_vars => TypeOK'
<1> SUFFICES ASSUME TypeOK, [Next]_vars PROVE TypeOK' OBVIOUS
<1>1. ASSUME NEW p \in Procs, NEW e \in BOOLEAN, BindNext(p, e) PROVE TypeOK'
  <2>1. stage[p] \in Loops /\ retries[p] + 1 < MaxRetries
    BY <1>1 DEF BindNext, TriesNext
  <2>2. port[p] + 1 \in Ports BY <2>1, PortsFit
  <2>3. owner' \in [Ports -> Owners] BY <1>1, <2>1, BindKeeps DEF BindNext
  <2>4. /\ port' \in [Procs -> Ports] /\ retries' \in [Procs -> 0 .. MaxRetries]
        /\ errno' \in [Procs -> BOOLEAN] /\ UNCHANGED <<stage, toldVars>>
    BY <1>1, <2>1, <2>2, PortAssumption DEF BindNext, TypeOK
  <2>5. undisturbed' \in BOOLEAN /\ greedy' \in BOOLEAN
    BY <1>1 DEF BindNext, TypeOK
  <2>6. \A q \in Procs : stage'[q] \in Loops =>
          retries'[q] < MaxRetries /\ port'[q] = FirstPortOf(stage'[q]) + retries'[q]
    BY <1>1, <2>1, PortAssumption DEF BindNext, TypeOK, FirstPortOf
  <2> QED BY <2>3, <2>4, <2>5, <2>6 DEF TypeOK, toldVars
<1>2. ASSUME NEW p \in Procs, NEW e \in BOOLEAN, BindAborts(p, e) PROVE TypeOK'
  <2>1. owner' \in [Ports -> Owners] BY <1>2, UnboundKeeps DEF BindAborts
  <2> QED BY <1>2, <2>1 DEF BindAborts, TypeOK, loopVars, toldVars, histVars, Loops
<1>3. ASSUME NEW p \in Procs, NEW e \in BOOLEAN, ResponderBound(p, e) PROVE TypeOK'
  <2>1. stage[p] \in Loops BY <1>3 DEF ResponderBound, Loops
  <2>2. owner' \in [Ports -> Owners] BY <1>3, <2>1, BindKeeps DEF ResponderBound
  <2>3. port[p] \in Ports /\ FirstPortOf("publisher") \in Ports
    BY <2>1, PortsFit DEF Loops
  <2> QED BY <1>3, <2>2, <2>3, PortAssumption
          DEF ResponderBound, EnterLoop, TypeOK, Loops, FirstPortOf, histVars
<1>4. ASSUME NEW p \in Procs, NEW e \in BOOLEAN, PublisherBound(p, e) PROVE TypeOK'
  <2>1. stage[p] \in Loops BY <1>4 DEF PublisherBound, Loops
  <2>2. owner' \in [Ports -> Owners] BY <1>4, <2>1, BindKeeps DEF PublisherBound
  <2> QED BY <1>4, <2>1, <2>2, PortsFit DEF PublisherBound, TypeOK, Loops, histVars
<1>5. ASSUME NEW p \in Procs, Start(p) PROVE TypeOK'
  <2>1. FirstPortOf("responder") \in Ports BY PortAssumption DEF FirstPortOf, Ports
  <2>2. errno' \in [Procs -> BOOLEAN]
    <3>1. PICK e \in BOOLEAN : errno' = [errno EXCEPT ![p] = e]
      BY <1>5 DEF Start
    <3> QED BY <3>1, PortAssumption DEF TypeOK
  <2>3. /\ stage' = [stage EXCEPT ![p] = "responder"]
        /\ port' = [port EXCEPT ![p] = FirstPortOf("responder")]
        /\ retries' = [retries EXCEPT ![p] = 0]
        /\ UNCHANGED <<owner, toldVars, histVars>>
    BY <1>5 DEF Start, EnterLoop
  <2> QED BY <2>1, <2>2, <2>3, PortAssumption
          DEF TypeOK, toldVars, histVars, Loops, FirstPortOf
<1>6. ASSUME NEW p \in Procs, Exit(p) PROVE TypeOK'
  <2>1. owner' \in [Ports -> Owners] BY <1>6, UnboundKeeps DEF Exit
  <2> QED BY <1>6, <2>1 DEF Exit, TypeOK, loopVars, toldVars, Loops
<1>7. ASSUME NEW x \in Ports, OtherProcess(x) PROVE TypeOK'
  BY <1>7 DEF OtherProcess, TypeOK, loopVars, toldVars, Owners
<1>8. CASE UNCHANGED vars
  BY <1>8 DEF vars, loopVars, toldVars, histVars, TypeOK
<1> QED BY <1>1, <1>2, <1>3, <1>4, <1>5, <1>6, <1>7, <1>8 DEF Next, BindStep

LEMMA StepAdvertised == BindInv /\ [Next]_vars => AdvertisedBound'
<1> SUFFICES ASSUME TypeOK, AdvertisedBound, [Next]_vars,
                    NEW q \in Procs
             PROVE  /\ stage'[q] \in {"publisher", "up"} =>
                         owner'[responderPort'[q]] = <<q, "responder">>
                    /\ stage'[q] = "up" =>
                         owner'[publisherPort'[q]] = <<q, "publisher">>
  BY DEF BindInv, AdvertisedBound
<1>0. /\ responderPort[q] \in Ports /\ publisherPort[q] \in Ports
      /\ <<q, "responder">> \notin {None, Other}
      /\ <<q, "publisher">> \notin {None, Other}
      /\ {"responder", "publisher"} = Loops
  BY PortAssumption DEF TypeOK, Loops
<1>a. /\ stage[q] \in {"publisher", "up"} =>
           owner[responderPort[q]] = <<q, "responder">>
      /\ stage[q] = "up" => owner[publisherPort[q]] = <<q, "publisher">>
  BY DEF AdvertisedBound
<1> DEFINE Goal == /\ stage'[q] \in {"publisher", "up"} =>
                         owner'[responderPort'[q]] = <<q, "responder">>
                   /\ stage'[q] = "up" =>
                         owner'[publisherPort'[q]] = <<q, "publisher">>
<1>1. ASSUME NEW p \in Procs, NEW e \in BOOLEAN, BindNext(p, e) PROVE Goal
  <2>1. \A x \in Ports : owner[x] # None => owner'[x] = owner[x]
    BY <1>1, BindKeeps DEF BindNext
  <2> QED BY <1>0, <1>1, <1>a, <2>1 DEF BindNext, toldVars
<1>2. ASSUME NEW p \in Procs, NEW e \in BOOLEAN, BindAborts(p, e) PROVE Goal
  <2>1. CASE q = p BY <1>2, <2>1 DEF BindAborts, TypeOK
  <2>2. CASE q # p
    <3>1. stage'[q] = stage[q] BY <1>2, <2>2 DEF BindAborts, TypeOK
    <3> QED BY <1>0, <1>2, <1>a, <2>2, <3>1, UnboundKeeps DEF BindAborts, toldVars
  <2> QED BY <2>1, <2>2
<1>3. ASSUME NEW p \in Procs, NEW e \in BOOLEAN, ResponderBound(p, e) PROVE Goal
  <2>0. stage[p] \in Loops BY <1>3, <1>0 DEF ResponderBound
  <2>1. \A x \in Ports : owner[x] # None => owner'[x] = owner[x]
    BY <1>3, <2>0, BindKeeps DEF ResponderBound
  <2>2. owner'[port[p]] = <<p, "responder">>
    BY <1>3, <2>0, BindKeeps DEF ResponderBound
  <2>3. CASE q = p
    BY <1>3, <2>2, <2>3 DEF ResponderBound, EnterLoop, TypeOK
  <2>4. CASE q # p
    <3>1. stage'[q] = stage[q] /\ responderPort'[q] = responderPort[q]
      BY <1>3, <2>4 DEF ResponderBound, EnterLoop, TypeOK
    <3> QED BY <1>0, <1>3, <1>a, <2>1, <3>1 DEF ResponderBound
  <2> QED BY <2>3, <2>4
<1>4. ASSUME NEW p \in Procs, NEW e \in BOOLEAN, PublisherBound(p, e) PROVE Goal
  <2>0. stage[p] \in Loops BY <1>4, <1>0 DEF PublisherBound
  <2>1. \A x \in Ports : owner[x] # None => owner'[x] = owner[x]
    BY <1>4, <2>0, BindKeeps DEF PublisherBound
  <2>2. owner'[port[p]] = <<p, "publisher">>
    BY <1>4, <2>0, BindKeeps DEF PublisherBound
  <2>3. CASE q = p
    BY <1>0, <1>4, <1>a, <2>1, <2>2, <2>3 DEF PublisherBound, TypeOK
  <2>4. CASE q # p
    <3>1. stage'[q] = stage[q] /\ publisherPort'[q] = publisherPort[q]
      BY <1>4, <2>4 DEF PublisherBound, TypeOK
    <3> QED BY <1>0, <1>4, <1>a, <2>1, <3>1 DEF PublisherBound
  <2> QED BY <2>3, <2>4
<1>5. ASSUME NEW p \in Procs, Start(p) PROVE Goal
  <2>1. q # p => stage'[q] = stage[q] BY <1>5 DEF Start, EnterLoop, TypeOK
  <2>2. q = p => stage'[q] = "responder" BY <1>5 DEF Start, EnterLoop, TypeOK
  <2> QED BY <1>5, <1>a, <2>1, <2>2 DEF Start, toldVars
<1>6. ASSUME NEW p \in Procs, Exit(p) PROVE Goal
  <2>1. CASE q = p BY <1>6, <2>1 DEF Exit, TypeOK
  <2>2. CASE q # p
    <3>1. stage'[q] = stage[q] BY <1>6, <2>2 DEF Exit, TypeOK
    <3> QED BY <1>0, <1>6, <1>a, <2>2, <3>1, UnboundKeeps DEF Exit, toldVars
  <2> QED BY <2>1, <2>2
<1>7. ASSUME NEW x \in Ports, OtherProcess(x) PROVE Goal
  <2>1. \A y \in Ports : owner[y] \notin {None, Other} => owner'[y] = owner[y]
    BY <1>7 DEF OtherProcess, Free, TypeOK
  <2> QED BY <1>0, <1>7, <1>a, <2>1 DEF OtherProcess, toldVars
<1>8. CASE UNCHANGED vars
  BY <1>8, <1>a DEF vars, toldVars
<1> QED BY <1>1, <1>2, <1>3, <1>4, <1>5, <1>6, <1>7, <1>8 DEF Next, BindStep

(* Whatever the number of processes and retries, also if errno is stale:   *)
(* the loops of Responder and Publisher keep their types, and the ports a  *)
(* proxy tells others are bound by its own sockets.                        *)
THEOREM BindingCorrect == Spec => [](TypeOK /\ AdvertisedBound)
<1>1. BindInv /\ [Next]_vars => BindInv'
  BY StepTypeOK, StepAdvertised DEF BindInv
<1> QED BY <1>1, InitBindInv, PTL DEF Spec, BindInv

LEMMA BoundDiffer == BindInv => AddressesDiffer
<1> SUFFICES ASSUME TypeOK, AdvertisedBound,
                    NEW p \in Procs, NEW q \in Procs,
                    stage[p] = "up", stage[q] = "up"
             PROVE  /\ responderPort[p] # publisherPort[q]
                    /\ p # q => /\ responderPort[p] # responderPort[q]
                                /\ publisherPort[p] # publisherPort[q]
  BY DEF BindInv, AddressesDiffer
<1>1. /\ owner[responderPort[p]] = <<p, "responder">>
      /\ owner[responderPort[q]] = <<q, "responder">>
      /\ owner[publisherPort[p]] = <<p, "publisher">>
      /\ owner[publisherPort[q]] = <<q, "publisher">>
  BY DEF AdvertisedBound
<1> QED BY <1>1

(* No two running proxies of a host have an address in common: the         *)
(* addresses by which ProxyMesh tells processes apart are different.       *)
THEOREM AddressesAlwaysDiffer == Spec => []AddressesDiffer
BY BindingCorrect, BoundDiffer, PTL DEF BindInv

(* The loops of Responder and Publisher never leave the range of ports     *)
(* that ten tries reach, and count what they try.                          *)
THEOREM BindTypeCorrect == Spec => []TypeOK
BY BindingCorrect, PTL
----------------------------------------------------------------------------
(* A proxy that is alone *)

Alone(p) == \A q \in Procs \ {p} : stage[q] = "off"

(* Only processes that run have ports.  What the responder of a proxy that *)
(* is alone has taken is below the port it tries, and what its publisher   *)
(* meets is its own or below the last port that it may try.                *)
AlonePart ==
  /\ \A x \in Ports : owner[x] # Other
  /\ \A x \in Ports, q \in Procs, loop \in Loops :
       owner[x] = <<q, loop>> => stage[q] # "off"
  /\ \A p \in Procs : Alone(p) =>
       /\ stage[p] # "aborted"
       /\ stage[p] = "responder" =>
            \A x \in Ports : owner[x] # None => x < port[p]
       /\ stage[p] = "publisher" =>
            \A x \in Ports : owner[x] # None =>
              x < port[p] \/ x < FirstPort + MaxRetries

AloneInv == undisturbed => AlonePart

LEMMA AloneInit == Init => AloneInv
BY PortAssumption DEF Init, AloneInv, AlonePart, Loops

(* A step of p ends the solitude of every other process. *)
LEMMA OthersNotAlone ==
  ASSUME NEW p \in Procs, stage'[p] # "off", NEW q \in Procs, Alone(q)'
  PROVE  q = p
BY DEF Alone

(* What p does leaves the others off. *)
LEMMA StaysAlone ==
  ASSUME TypeOK, NEW p \in Procs, NEW s, stage' = [stage EXCEPT ![p] = s],
         Alone(p)'
  PROVE  Alone(p)
BY DEF Alone, TypeOK

(* The port that is bound, and who has which port then. *)
LEMMA BindAlone ==
  ASSUME TypeOK, AlonePart, NEW p \in Procs, stage[p] \in Loops,
         owner' = Bind(p), stage'[p] # "off",
         \A q \in Procs : q # p => stage'[q] = stage[q]
  PROVE  /\ \A x \in Ports : owner'[x] # Other
         /\ \A x \in Ports, q \in Procs, loop \in Loops :
              owner'[x] = <<q, loop>> => stage'[q] # "off"
         /\ \A x \in Ports : owner'[x] # None => x = port[p] \/ owner[x] # None
<1>1. \A x \in Ports : owner'[x] = owner[x]
                        \/ (x = port[p] /\ owner'[x] = <<p, stage[p]>>)
  BY DEF Bind, TypeOK
<1>2. <<p, stage[p]>> # Other
  BY PortAssumption
<1> QED BY <1>1, <1>2 DEF AlonePart

LEMMA AloneStep == TypeOK /\ AloneInv /\ [Next]_vars => AloneInv'
<1> SUFFICES ASSUME TypeOK, AloneInv, [Next]_vars, undisturbed' PROVE AlonePart'
  BY DEF AloneInv
<1>0. AlonePart
  BY DEF AloneInv, Next, BindStep, BindNext, BindAborts, ResponderBound,
         PublisherBound, Start, Exit, OtherProcess, vars, histVars
<1>a. FirstPort \in Nat /\ MaxRetries \in Nat /\ MaxRetries # 0 /\ Ports \subseteq Int
  BY PortAssumption DEF Ports
<1> DEFINE Lone(p) ==
      /\ stage'[p] # "aborted"
      /\ stage'[p] = "responder" =>
           \A x \in Ports : owner'[x] # None => x < port'[p]
      /\ stage'[p] = "publisher" =>
           \A x \in Ports : owner'[x] # None =>
             x < port'[p] \/ x < FirstPort + MaxRetries
<1>1. ASSUME NEW p \in Procs, NEW e \in BOOLEAN, BindNext(p, e) PROVE AlonePart'
  <2>1. /\ stage[p] \in Loops /\ stage' = stage /\ owner' = Bind(p)
        /\ port' = [port EXCEPT ![p] = @ + 1] /\ stage[p] # "off"
    BY <1>1 DEF BindNext, Loops
  <2>2. /\ \A x \in Ports : owner'[x] # Other
        /\ \A x \in Ports, q \in Procs, loop \in Loops :
             owner'[x] = <<q, loop>> => stage'[q] # "off"
        /\ \A x \in Ports : owner'[x] # None => x = port[p] \/ owner[x] # None
    BY <1>0, <2>1, BindAlone
  <2>3. ASSUME Alone(p)' PROVE Lone(p)
    <3>1. Alone(p)
      BY <2>1, <2>3 DEF Alone
    <3>2. port'[p] = port[p] + 1 /\ port[p] \in Int
      BY <2>1, <1>a DEF TypeOK
    <3> QED  BY <1>0, <1>a, <2>1, <2>2, <3>1, <3>2 DEF AlonePart, Loops
  <2>4. \A q \in Procs : Alone(q)' => q = p
    BY <2>1, OthersNotAlone
  <2> QED  BY <2>2, <2>3, <2>4 DEF AlonePart
<1>2. ASSUME NEW p \in Procs, NEW e \in BOOLEAN, BindAborts(p, e) PROVE AlonePart'
  <2>1. /\ stage[p] \in Loops /\ ~Free(port[p]) /\ ~(retries[p] + 1 < MaxRetries)
        /\ stage' = [stage EXCEPT ![p] = "aborted"] /\ owner' = Unbound(p)
    BY <1>2 DEF BindAborts, ErrnoAfterBind, TriesNext
  <2>2. \A x \in Ports : owner'[x] = owner[x] \/ owner'[x] = None
    BY <2>1 DEF Unbound
  <2>3. /\ \A x \in Ports : owner'[x] # Other
        /\ \A x \in Ports, q \in Procs, loop \in Loops :
             owner'[x] = <<q, loop>> => stage'[q] # "off"
    <3>1. \A q \in Procs : stage[q] # "off" => stage'[q] # "off"
      BY <2>1 DEF TypeOK
    <3>2. \A x \in Ports : owner'[x] # Other
      BY <1>0, <2>2, PortAssumption DEF AlonePart
    <3>3. ASSUME NEW x \in Ports, NEW q \in Procs, NEW loop \in Loops,
                 owner'[x] = <<q, loop>>
          PROVE  stage'[q] # "off"
      <4>1. owner[x] = <<q, loop>>
        <5>1. <<q, loop>> \in Procs \X Loops
          OBVIOUS
        <5>2. owner'[x] # None
          BY <3>3, <5>1, PortAssumption
        <5> QED  BY <2>2, <3>3, <5>2
      <4> QED  BY <1>0, <3>1, <4>1 DEF AlonePart
    <3> QED  BY <3>2, <3>3
  <2>4. ASSUME Alone(p)' PROVE FALSE
    <3>1. Alone(p)
      BY <2>1, <2>4, StaysAlone
    <3>2. /\ port[p] \in Ports /\ owner[port[p]] # None
          /\ retries[p] + 1 = MaxRetries /\ retries[p] \in Int
          /\ port[p] = FirstPortOf(stage[p]) + retries[p]
      BY <1>a, <2>1 DEF TypeOK, Free
    <3>3. CASE stage[p] = "responder"
      <4>1. port[p] < port[p]
        BY <1>0, <3>1, <3>2, <3>3 DEF AlonePart
      <4>2. port[p] \in Int
        BY <1>a, <3>2
      <4> QED  BY <4>1, <4>2
    <3>4. CASE stage[p] = "publisher"
      <4>1. port[p] < port[p] \/ port[p] < FirstPort + MaxRetries
        BY <1>0, <3>1, <3>2, <3>4 DEF AlonePart
      <4>2. port[p] = FirstPort + MaxRetries
        BY <1>a, <3>2, <3>4 DEF FirstPortOf
      <4> QED  BY <1>a, <4>1, <4>2
    <3> QED  BY <2>1, <3>3, <3>4 DEF Loops
  <2>5. stage'[p] # "off"
    BY <2>1 DEF TypeOK
  <2>6. \A q \in Procs : ~Alone(q)'
    BY <2>4, <2>5, OthersNotAlone
  <2> QED  BY <2>3, <2>6 DEF AlonePart
<1>3. ASSUME NEW p \in Procs, NEW e \in BOOLEAN, ResponderBound(p, e) PROVE AlonePart'
  <2>1. /\ stage[p] = "responder" /\ stage[p] \in Loops /\ owner' = Bind(p)
        /\ stage' = [stage EXCEPT ![p] = "publisher"]
    BY <1>3 DEF ResponderBound, EnterLoop, Loops
  <2>2. stage'[p] = "publisher" /\ \A q \in Procs : q # p => stage'[q] = stage[q]
    BY <2>1 DEF TypeOK
  <2>3. /\ \A x \in Ports : owner'[x] # Other
        /\ \A x \in Ports, q \in Procs, loop \in Loops :
             owner'[x] = <<q, loop>> => stage'[q] # "off"
        /\ \A x \in Ports : owner'[x] # None => x = port[p] \/ owner[x] # None
    BY <1>0, <2>1, <2>2, BindAlone
  <2>4. ASSUME Alone(p)' PROVE Lone(p)
    <3>1. Alone(p)
      BY <2>1, <2>4, StaysAlone
    <3>2. port[p] \in Int /\ port[p] < FirstPort + MaxRetries
      BY <1>a, <2>1 DEF TypeOK, FirstPortOf
    <3>3. ASSUME NEW x \in Ports, owner'[x] # None
          PROVE  x < FirstPort + MaxRetries
      <4>1. x = port[p] \/ x < port[p]
        BY <1>0, <2>1, <2>3, <3>1, <3>3 DEF AlonePart
      <4> QED  BY <1>a, <3>2, <4>1
    <3> QED  BY <2>2, <3>3
  <2>5. \A q \in Procs : Alone(q)' => q = p
    BY <2>2, OthersNotAlone
  <2> QED  BY <2>3, <2>4, <2>5 DEF AlonePart
<1>4. ASSUME NEW p \in Procs, NEW e \in BOOLEAN, PublisherBound(p, e) PROVE AlonePart'
  <2>1. /\ stage[p] \in Loops /\ owner' = Bind(p)
        /\ stage' = [stage EXCEPT ![p] = "up"]
    BY <1>4 DEF PublisherBound, Loops
  <2>2. stage'[p] = "up" /\ \A q \in Procs : q # p => stage'[q] = stage[q]
    BY <2>1 DEF TypeOK
  <2>3. /\ \A x \in Ports : owner'[x] # Other
        /\ \A x \in Ports, q \in Procs, loop \in Loops :
             owner'[x] = <<q, loop>> => stage'[q] # "off"
    BY <1>0, <2>1, <2>2, BindAlone
  <2>4. \A q \in Procs : Alone(q)' => q = p
    BY <2>2, OthersNotAlone
  <2> QED  BY <2>2, <2>3, <2>4 DEF AlonePart
<1>5. ASSUME NEW p \in Procs, Start(p) PROVE AlonePart'
  <2>1. /\ stage[p] = "off" /\ owner' = owner
        /\ stage' = [stage EXCEPT ![p] = "responder"]
    BY <1>5 DEF Start, EnterLoop
  <2>2. stage'[p] = "responder" /\ \A q \in Procs : q # p => stage'[q] = stage[q]
    BY <2>1 DEF TypeOK
  <2>3. ASSUME Alone(p)', NEW x \in Ports PROVE owner[x] = None
    <3>1. \A q \in Procs : stage[q] = "off"
      BY <2>1, <2>3, StaysAlone DEF Alone
    <3>2. owner[x] # Other /\ \A q \in Procs, loop \in Loops : owner[x] # <<q, loop>>
      BY <1>0, <3>1 DEF AlonePart
    <3> QED  BY <3>2 DEF TypeOK, Owners
  <2>4. \A q \in Procs : Alone(q)' => q = p
    BY <2>2, OthersNotAlone
  <2>5. \A x \in Ports, q \in Procs, loop \in Loops :
          owner'[x] = <<q, loop>> => stage'[q] # "off"
    BY <1>0, <2>1, <2>2 DEF AlonePart
  <2> QED  BY <1>0, <2>1, <2>2, <2>3, <2>4, <2>5 DEF AlonePart
<1>6. ASSUME NEW p \in Procs, Exit(p) PROVE AlonePart'
  BY <1>6 DEF Exit
<1>7. ASSUME NEW x \in Ports, OtherProcess(x) PROVE AlonePart'
  BY <1>7 DEF OtherProcess
<1>8. CASE UNCHANGED vars
  BY <1>0, <1>8 DEF vars, loopVars, AlonePart, Alone
<1> QED BY <1>1, <1>2, <1>3, <1>4, <1>5, <1>6, <1>7, <1>8 DEF Next, BindStep

(* A proxy that is the only one on its host comes up whatever errno was    *)
(* when it started and however many ports its responder takes because of   *)
(* it: the range of the publisher ends one port further, for any number of *)
(* tries (Responder::Responder, Publisher::Publisher).                     *)
THEOREM ALoneProxyComesUp == Spec => []AloneComesUp
<1>1. AloneInv => AloneComesUp
  BY DEF AloneInv, AlonePart, Alone, AloneComesUp
<1>2. Init => TypeOK /\ AloneInv
  BY InitBindInv, AloneInit DEF BindInv
<1>3. TypeOK /\ AloneInv /\ [Next]_vars => (TypeOK /\ AloneInv)'
  BY StepTypeOK, AloneStep
<1> QED BY <1>1, <1>2, <1>3, PTL DEF Spec
----------------------------------------------------------------------------
(* Proxies that start together *)

(* Nothing but proxies takes ports, no socket takes two of them, and there *)
(* are tries enough.                                                       *)
Calm == undisturbed /\ ~greedy /\ 2 * Cardinality(Procs) =< MaxRetries + 1

OwnsNone(p, loop) == \A x \in Ports : owner[x] # <<p, loop>>

(* Then a socket has at most one port, and a process has found every port  *)
(* below the one it tries taken, also when it is in its second loop.       *)
CalmPart ==
  /\ \A x \in Ports : owner[x] # Other
  /\ \A x, y \in Ports : owner[x] = owner[y] /\ owner[x] # None => x = y
  /\ \A p \in Procs :
       /\ stage[p] # "aborted"
       /\ stage[p] \in {"off", "responder"} =>
            OwnsNone(p, "responder") /\ OwnsNone(p, "publisher")
       /\ stage[p] = "publisher" => OwnsNone(p, "publisher")
       /\ stage[p] \in Loops => \A x \in Ports : x < port[p] => owner[x] # None

CalmInv == Calm => CalmPart

(* The taken ports are no more than the sockets that may have taken them. *)
LEMMA TakenPorts ==
  ASSUME TypeOK, CalmPart, NEW p \in Procs, stage[p] \in Loops, ~Free(port[p]),
         NEW T, IsFiniteSet(T),
         \A x \in FirstPort..port[p] : owner[x] \in T
  PROVE  port[p] - FirstPort + 1 =< Cardinality(T)
<1> DEFINE S == FirstPort..port[p]
           f == [x \in S |-> owner[x]]
<1>1. port[p] \in Ports /\ FirstPort \in Int /\ port[p] \in Int /\ FirstPort =< port[p]
  BY PortAssumption DEF TypeOK, Ports
<1>2. S \subseteq Ports
  BY <1>1, PortAssumption DEF Ports
<1>3. IsFiniteSet(S) /\ Cardinality(S) = port[p] - FirstPort + 1
  BY <1>1, FS_Interval
<1>4. ASSUME NEW x \in S, NEW y \in S, f[x] = f[y] PROVE x = y
  <2>1. owner[x] = owner[y] /\ x \in Ports /\ y \in Ports
    BY <1>2, <1>4
  <2>2. owner[x] # None
    <3>1. x = port[p] \/ x < port[p]
      BY <1>1
    <3> QED  BY <2>1, <3>1 DEF CalmPart, Free
  <2> QED  BY <2>1, <2>2 DEF CalmPart
<1>5. f \in [S -> T]
  OBVIOUS
<1> HIDE DEF S, f
<1>6. f \in Injection(S, T)
  BY <1>4, <1>5, Fun_IsInj
<1>7. Cardinality(S) =< Cardinality(T)
  BY <1>6, FS_Injection
<1> QED  BY <1>3, <1>7

LEMMA Sockets ==
  /\ IsFiniteSet(Procs \X Loops) /\ Cardinality(Procs) \in Nat
  /\ Cardinality(Procs \X Loops) = 2 * Cardinality(Procs)
<1>1. IsFiniteSet(Procs) /\ Cardinality(Procs) \in Nat
  BY PortAssumption, FS_CardinalityType
<1>2. IsFiniteSet(Loops) /\ Cardinality(Loops) = 2
  <2>1. IsFiniteSet({"responder"}) /\ Cardinality({"responder"}) = 1
    BY FS_Singleton
  <2>2. Loops = {"responder"} \cup {"publisher"} /\ "publisher" \notin {"responder"}
    BY DEF Loops
  <2> QED  BY <2>1, <2>2, FS_AddElement
<1>3. /\ IsFiniteSet(Procs \X Loops)
      /\ Cardinality(Procs \X Loops) = Cardinality(Procs) * Cardinality(Loops)
  BY <1>1, <1>2, FS_Product
<1> QED  BY <1>1, <1>2, <1>3

(* There are not enough sockets to fill all the ports that a loop tries. *)
LEMMA LastTryIsFree ==
  ASSUME TypeOK, CalmPart, 2 * Cardinality(Procs) =< MaxRetries + 1,
         NEW p \in Procs, stage[p] \in Loops, ~(retries[p] + 1 < MaxRetries)
  PROVE  Free(port[p])
<1> SUFFICES ASSUME ~Free(port[p]) PROVE FALSE
  OBVIOUS
<1> DEFINE All == Procs \X Loops
<1>1. /\ IsFiniteSet(All) /\ Cardinality(Procs) \in Nat
      /\ Cardinality(All) = 2 * Cardinality(Procs)
  BY Sockets
<1>2. /\ retries[p] + 1 = MaxRetries /\ MaxRetries \in Nat /\ FirstPort \in Nat
      /\ port[p] = FirstPortOf(stage[p]) + retries[p] /\ port[p] \in Ports
      /\ retries[p] \in Nat
  BY PortAssumption DEF TypeOK
<1>3. ASSUME NEW x \in FirstPort..port[p] PROVE x \in Ports /\ owner[x] \in All
  <2>1. x \in Ports /\ (x = port[p] \/ x < port[p])
    BY <1>2 DEF Ports
  <2>2. owner[x] # None /\ owner[x] # Other
    BY <2>1 DEF CalmPart, Free
  <2> QED  BY <2>1, <2>2 DEF TypeOK, Owners
<1>4. <<p, "responder">> \in All /\ <<p, "publisher">> \in All
  BY DEF Loops
<1> HIDE DEF All
<1>5. CASE stage[p] = "publisher"
  <2> DEFINE T == All \ {<<p, "publisher">>}
  <2>1. IsFiniteSet(T) /\ Cardinality(T) = Cardinality(All) - 1
    BY <1>1, <1>4, FS_RemoveElement
  <2>2. \A x \in FirstPort..port[p] : owner[x] \in T
    BY <1>3, <1>5 DEF CalmPart, OwnsNone
  <2> HIDE DEF T
  <2>3. port[p] - FirstPort + 1 =< Cardinality(T)
    BY <2>1, <2>2, TakenPorts
  <2>4. port[p] - FirstPort + 1 = MaxRetries + 1
    BY <1>2, <1>5 DEF FirstPortOf
  <2> QED  BY <1>1, <1>2, <2>1, <2>3, <2>4
<1>6. CASE stage[p] = "responder"
  <2> DEFINE T1 == All \ {<<p, "publisher">>}
             T == T1 \ {<<p, "responder">>}
  <2>1. IsFiniteSet(T1) /\ Cardinality(T1) = Cardinality(All) - 1
    BY <1>1, <1>4, FS_RemoveElement
  <2>2. <<p, "responder">> \in T1
    BY <1>4
  <2>3. \A x \in FirstPort..port[p] : owner[x] \in T
    BY <1>3, <1>6 DEF CalmPart, OwnsNone
  <2> HIDE DEF T1
  <2>4. IsFiniteSet(T) /\ Cardinality(T) = Cardinality(T1) - 1
    BY <2>1, <2>2, FS_RemoveElement
  <2> HIDE DEF T
  <2>5. port[p] - FirstPort + 1 =< Cardinality(T)
    BY <2>3, <2>4, TakenPorts
  <2>6. port[p] - FirstPort + 1 = MaxRetries
    BY <1>2, <1>6 DEF FirstPortOf
  <2> QED  BY <1>1, <1>2, <2>1, <2>4, <2>5, <2>6
<1> QED  BY <1>5, <1>6 DEF Loops

(* A free port is bound: the process has one socket more. *)
LEMMA BindOne ==
  ASSUME TypeOK, CalmPart, NEW p \in Procs, stage[p] \in Loops, Free(port[p])
  PROVE  /\ \A x \in Ports : Bind(p)[x] = IF x = port[p] THEN <<p, stage[p]>> ELSE owner[x]
         /\ \A x \in Ports : Bind(p)[x] # Other
         /\ \A x, y \in Ports : Bind(p)[x] = Bind(p)[y] /\ Bind(p)[x] # None => x = y
<1>1. \A x \in Ports : Bind(p)[x] = IF x = port[p] THEN <<p, stage[p]>> ELSE owner[x]
  BY DEF Bind, TypeOK
<1>2. <<p, stage[p]>> # None /\ <<p, stage[p]>> # Other
  BY PortAssumption
<1>3. \A x \in Ports : owner[x] # <<p, stage[p]>>
  BY DEF CalmPart, OwnsNone, Loops
<1> QED  BY <1>1, <1>2, <1>3 DEF CalmPart

LEMMA CalmStep == TypeOK /\ CalmInv /\ [Next]_vars => CalmInv'
<1> SUFFICES ASSUME TypeOK, CalmInv, [Next]_vars, Calm' PROVE CalmPart'
  BY DEF CalmInv
<1> DEFINE Few == 2 * Cardinality(Procs) =< MaxRetries + 1
<1>0. undisturbed' /\ ~greedy' /\ Few
  BY DEF Calm
<1>1. ASSUME NEW p \in Procs, NEW e \in BOOLEAN, BindNext(p, e) PROVE CalmPart'
  <2>1. undisturbed /\ ~greedy /\ ~Free(port[p]) /\ stage[p] \in Loops
    BY <1>0, <1>1 DEF BindNext, TypeOK
  <2>2. CalmPart
    BY <1>0, <2>1 DEF CalmInv, Calm
  <2>3. owner' = owner /\ stage' = stage /\ port' = [port EXCEPT ![p] = @ + 1]
    BY <1>1, <2>1 DEF BindNext, Bind
  <2>4. \A q \in Procs : stage[q] \in Loops =>
          \A x \in Ports : x < port'[q] => owner[x] # None
    <3> SUFFICES ASSUME NEW q \in Procs, stage[q] \in Loops, NEW x \in Ports,
                        x < port'[q]
                 PROVE  owner[x] # None
      OBVIOUS
    <3>1. port[q] \in Int /\ x \in Int
      BY PortAssumption DEF TypeOK, Ports
    <3>2. x < port[q] \/ (q = p /\ x = port[p])
      BY <2>3, <3>1 DEF TypeOK
    <3> QED  BY <2>1, <2>2, <3>2 DEF CalmPart, Free
  <2> QED  BY <2>2, <2>3, <2>4 DEF CalmPart, OwnsNone
<1>2. ASSUME NEW p \in Procs, NEW e \in BOOLEAN, BindAborts(p, e) PROVE CalmPart'
  <2>1. undisturbed /\ ~greedy /\ ~Free(port[p]) /\ stage[p] \in Loops /\ ~TriesNext(p, TRUE)
    BY <1>0, <1>2 DEF BindAborts, ErrnoAfterBind, histVars
  <2>2. CalmPart
    BY <1>0, <2>1 DEF CalmInv, Calm
  <2> QED  BY <1>0, <2>1, <2>2, LastTryIsFree DEF TriesNext
<1>3. ASSUME NEW p \in Procs, NEW e \in BOOLEAN, ResponderBound(p, e) PROVE CalmPart'
  <2>1. undisturbed /\ ~greedy /\ Free(port[p]) /\ stage[p] = "responder" /\ stage[p] \in Loops
    BY <1>0, <1>3 DEF ResponderBound, Loops, histVars
  <2>2. CalmPart
    BY <1>0, <2>1 DEF CalmInv, Calm
  <2>3. /\ \A x \in Ports : owner'[x] = IF x = port[p] THEN <<p, "responder">> ELSE owner[x]
        /\ \A x \in Ports : owner'[x] # Other
        /\ \A x, y \in Ports : owner'[x] = owner'[y] /\ owner'[x] # None => x = y
    <3>1. owner' = Bind(p)
      BY <1>3 DEF ResponderBound
    <3> QED  BY <2>1, <2>2, <3>1, BindOne
  <2>4. /\ stage' = [stage EXCEPT ![p] = "publisher"]
        /\ port' = [port EXCEPT ![p] = FirstPort + 1]
    BY <1>3 DEF ResponderBound, EnterLoop, FirstPortOf
  <2>5. \A x \in Ports : owner[x] # None => owner'[x] # None
    BY <2>3, PortAssumption DEF Loops
  <2>6. ASSUME NEW q \in Procs
        PROVE  /\ stage'[q] # "aborted"
               /\ stage'[q] \in {"off", "responder"} =>
                    OwnsNone(q, "responder")' /\ OwnsNone(q, "publisher")'
               /\ stage'[q] = "publisher" => OwnsNone(q, "publisher")'
               /\ stage'[q] \in Loops => \A x \in Ports : x < port'[q] => owner'[x] # None
    <3>1. CASE q = p
      <4>1. stage'[q] = "publisher" /\ port'[q] = FirstPort + 1
        BY <2>4, <3>1 DEF TypeOK
      <4>2. OwnsNone(q, "publisher")'
        BY <2>1, <2>2, <2>3, <3>1 DEF CalmPart, OwnsNone
      <4>3. ASSUME NEW x \in Ports, x < FirstPort + 1 PROVE owner'[x] # None
        <5>1. x = FirstPort /\ port[p] \in Ports
          BY <4>3, PortAssumption DEF TypeOK, Ports
        <5>2. x = port[p] \/ x < port[p]
          BY <5>1, PortAssumption DEF Ports
        <5>3. <<p, "responder">> # None
          BY PortAssumption DEF Loops
        <5> QED  BY <2>1, <2>2, <2>3, <2>5, <5>2, <5>3 DEF CalmPart
      <4> QED  BY <4>1, <4>2, <4>3
    <3>2. CASE q # p
      <4>1. stage'[q] = stage[q] /\ port'[q] = port[q]
        BY <2>4, <3>2 DEF TypeOK
      <4>2. \A loop \in Loops : OwnsNone(q, loop) => OwnsNone(q, loop)'
        BY <2>3, <3>2 DEF OwnsNone
      <4> QED  BY <2>2, <2>5, <4>1, <4>2 DEF CalmPart, Loops
    <3> QED  BY <3>1, <3>2
  <2> QED  BY <2>3, <2>6 DEF CalmPart
<1>4. ASSUME NEW p \in Procs, NEW e \in BOOLEAN, PublisherBound(p, e) PROVE CalmPart'
  <2>1. undisturbed /\ ~greedy /\ Free(port[p]) /\ stage[p] = "publisher" /\ stage[p] \in Loops
    BY <1>0, <1>4 DEF PublisherBound, Loops, histVars
  <2>2. CalmPart
    BY <1>0, <2>1 DEF CalmInv, Calm
  <2>3. /\ \A x \in Ports : owner'[x] = IF x = port[p] THEN <<p, "publisher">> ELSE owner[x]
        /\ \A x \in Ports : owner'[x] # Other
        /\ \A x, y \in Ports : owner'[x] = owner'[y] /\ owner'[x] # None => x = y
    <3>1. owner' = Bind(p)
      BY <1>4 DEF PublisherBound
    <3> QED  BY <2>1, <2>2, <3>1, BindOne
  <2>4. stage' = [stage EXCEPT ![p] = "up"] /\ port' = port
    BY <1>4 DEF PublisherBound
  <2>5. \A x \in Ports : owner[x] # None => owner'[x] # None
    BY <2>3, PortAssumption DEF Loops
  <2>6. ASSUME NEW q \in Procs
        PROVE  /\ stage'[q] # "aborted"
               /\ stage'[q] \in {"off", "responder"} =>
                    OwnsNone(q, "responder")' /\ OwnsNone(q, "publisher")'
               /\ stage'[q] = "publisher" => OwnsNone(q, "publisher")'
               /\ stage'[q] \in Loops => \A x \in Ports : x < port'[q] => owner'[x] # None
    <3>1. CASE q = p
      <4>1. stage'[q] = "up"
        BY <2>4, <3>1 DEF TypeOK
      <4> QED  BY <4>1 DEF Loops
    <3>2. CASE q # p
      <4>1. stage'[q] = stage[q] /\ port'[q] = port[q]
        BY <2>4, <3>2 DEF TypeOK
      <4>2. \A loop \in Loops : OwnsNone(q, loop) => OwnsNone(q, loop)'
        BY <2>3, <3>2 DEF OwnsNone
      <4> QED  BY <2>2, <2>5, <4>1, <4>2 DEF CalmPart, Loops
    <3> QED  BY <3>1, <3>2
  <2> QED  BY <2>3, <2>6 DEF CalmPart
<1>5. ASSUME NEW p \in Procs, Start(p) PROVE CalmPart'
  <2>1. undisturbed /\ ~greedy /\ stage[p] = "off" /\ owner' = owner
    BY <1>0, <1>5 DEF Start, histVars
  <2>2. CalmPart
    BY <1>0, <2>1 DEF CalmInv, Calm
  <2>3. /\ stage' = [stage EXCEPT ![p] = "responder"]
        /\ port' = [port EXCEPT ![p] = FirstPort]
    BY <1>5 DEF Start, EnterLoop, FirstPortOf
  <2>4. \A x \in Ports : ~(x < FirstPort)
    BY PortAssumption DEF Ports
  <2>5. ASSUME NEW q \in Procs
        PROVE  /\ stage'[q] # "aborted"
               /\ stage'[q] \in {"off", "responder"} =>
                    OwnsNone(q, "responder") /\ OwnsNone(q, "publisher")
               /\ stage'[q] = "publisher" => OwnsNone(q, "publisher")
               /\ stage'[q] \in Loops => \A x \in Ports : x < port'[q] => owner[x] # None
    <3>1. CASE q = p
      <4>1. stage'[q] = "responder" /\ port'[q] = FirstPort
        BY <2>3, <3>1 DEF TypeOK
      <4> QED  BY <2>1, <2>2, <2>4, <3>1, <4>1 DEF CalmPart
    <3>2. CASE q # p
      <4>1. stage'[q] = stage[q] /\ port'[q] = port[q]
        BY <2>3, <3>2 DEF TypeOK
      <4> QED  BY <2>2, <4>1 DEF CalmPart
    <3> QED  BY <3>1, <3>2
  <2> QED  BY <2>1, <2>2, <2>5 DEF CalmPart, OwnsNone
<1>6. ASSUME NEW p \in Procs, Exit(p) PROVE CalmPart'
  BY <1>0, <1>6 DEF Exit
<1>7. ASSUME NEW x \in Ports, OtherProcess(x) PROVE CalmPart'
  BY <1>0, <1>7 DEF OtherProcess
<1>8. CASE UNCHANGED vars
  BY <1>0, <1>8 DEF vars, loopVars, histVars, CalmInv, Calm, CalmPart, OwnsNone
<1> QED BY <1>1, <1>2, <1>3, <1>4, <1>5, <1>6, <1>7, <1>8 DEF Next, BindStep

LEMMA CalmInit == Init => CalmInv
BY PortAssumption DEF Init, CalmInv, CalmPart, OwnsNone, Loops, Ports

(* N proxies of a host that start together all come up when 2N - 1 tries   *)
(* are allowed, in whatever order they make them, as long as nothing else  *)
(* takes ports and no old errno makes a socket take more than one: no      *)
(* assert of Responder or Publisher fails.  The ports that a loop has      *)
(* tried in vain are each held by a different socket.                      *)
THEOREM TogetherTheyComeUp == Spec => []NobodyAborts
<1>1. CalmInv => NobodyAborts
  BY DEF CalmInv, Calm, CalmPart, NobodyAborts
<1>2. Init => TypeOK /\ CalmInv
  BY InitBindInv, CalmInit DEF BindInv
<1>3. TypeOK /\ CalmInv /\ [Next]_vars => (TypeOK /\ CalmInv)'
  BY StepTypeOK, CalmStep
<1> QED BY <1>1, <1>2, <1>3, PTL DEF Spec
============================================================================
