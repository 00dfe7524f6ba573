---------------------------- MODULE PortBinding ----------------------------
(***************************************************************************)
(* How the proxies of one host get their ports.  The constructor of Proxy  *)
(* makes a Responder and then a Publisher; each tries one port after the   *)
(* other until zmq_bind succeeds, while other processes do the same.       *)
(*                                                                         *)
(* The loops look at zmq_errno() also after a successful zmq_bind, which   *)
(* may leave an old error there: then the socket binds further ports until *)
(* its retries are used up, and keeps them all.                            *)
(***************************************************************************)
EXTENDS Integers, FiniteSets

CONSTANTS
  Procs,      \* processes of proxies
  FirstPort,  \* responderPort at first: 7770; the publisher tries the next
  MaxRetries, \* 10
  None, Other

Ports == FirstPort .. FirstPort + MaxRetries
Loops == {"responder", "publisher"}
Owners == (Procs \X Loops) \cup {None, Other}

ASSUME PortAssumption ==
  /\ FirstPort \in Nat /\ MaxRetries \in Nat \ {0}
  /\ IsFiniteSet(Procs)
  /\ None \notin Procs \X Loops /\ Other \notin Procs \X Loops
  /\ None # Other

VARIABLES
  stage,   \* stage[p]: "off", the loop it is in, "up" or "aborted"
  port,    \* port[p]: the port it tries
  retries, \* retries[p]
  errno,   \* errno[p]: the last error is ADDR_IN_USE_ERROR
  owner,   \* owner[x]: the socket bound to port x, None or Other
  responderPort, publisherPort, \* what p tells others, when it is known
  undisturbed, \* history: nobody ended and no other program took a port
  greedy       \* history: an old errno made a socket take a further port

loopVars == <<port, retries, errno>>
toldVars == <<responderPort, publisherPort>>
histVars == <<undisturbed, greedy>>
vars == <<stage, loopVars, owner, toldVars, histVars>>
----------------------------------------------------------------------------
(* Mutant of FirstPortOf: both loops start from the first port. *)
FirstPortOfBoth(loop) == FirstPort

FirstPortOf(loop) == IF loop = "responder" THEN FirstPort ELSE FirstPort + 1

(* Mutant of EnterLoop: retries is shared by the two loops. *)
EnterLoopGoesOn(p, loop) ==
  /\ stage' = [stage EXCEPT ![p] = loop]
  /\ port' = [port EXCEPT ![p] = FirstPortOf(loop)]
  /\ UNCHANGED retries

EnterLoop(p, loop) ==
  /\ stage' = [stage EXCEPT ![p] = loop]
  /\ port' = [port EXCEPT ![p] = FirstPortOf(loop)]
  /\ retries' = [retries EXCEPT ![p] = 0]

Free(x) == owner[x] = None

(* What zmq_errno() says after zmq_bind. *)
ErrnoAfterBind(p) ==
  IF Free(port[p]) THEN {errno[p], FALSE} ELSE {TRUE}

Bind(p) == IF Free(port[p]) THEN [owner EXCEPT ![port[p]] = <<p, stage[p]>>]
           ELSE owner

(* The ports of p after its end. *)
Unbound(p) == [x \in Ports |-> IF owner[x] \in {p} \X Loops THEN None
                               ELSE owner[x]]

(* Mutant of TriesNext: the count starts from one. *)
TriesNextTooFew(p, e) == e /\ retries[p] + 2 < MaxRetries

(* zmq_errno() == ADDR_IN_USE_ERROR && ++retries < 10 *)
TriesNext(p, e) == e /\ retries[p] + 1 < MaxRetries

(* "Try to bind on next port" *)
BindNext(p, e) ==
  /\ stage[p] \in Loops /\ e \in ErrnoAfterBind(p)
  /\ TriesNext(p, e)
  /\ owner' = Bind(p)
  /\ errno' = [errno EXCEPT ![p] = e]
  /\ retries' = [retries EXCEPT ![p] = @ + 1]
  /\ port' = [port EXCEPT ![p] = @ + 1]
  /\ greedy' = (greedy \/ Free(port[p]))
  /\ UNCHANGED <<stage, toldVars, undisturbed>>

(* assert (rc == 0) fails *)
BindAborts(p, e) ==
  /\ stage[p] \in Loops /\ e \in ErrnoAfterBind(p)
  /\ ~TriesNext(p, e) /\ ~Free(port[p])
  /\ owner' = Unbound(p)
  /\ stage' = [stage EXCEPT ![p] = "aborted"]
  /\ UNCHANGED <<loopVars, toldVars, histVars>>

(* Mutant of ResponderBound: the port asked for is told to others. *)
ResponderBoundFirst(p, e) ==
  /\ stage[p] = "responder" /\ e \in ErrnoAfterBind(p)
  /\ ~TriesNext(p, e) /\ Free(port[p])
  /\ owner' = Bind(p)
  /\ errno' = [errno EXCEPT ![p] = e]
  /\ responderPort' = [responderPort EXCEPT ![p] = FirstPort]
  /\ EnterLoop(p, "publisher")
  /\ UNCHANGED <<publisherPort, histVars>>

(* "bind success": the publisher is next *)
ResponderBound(p, e) ==
  /\ stage[p] = "responder" /\ e \in ErrnoAfterBind(p)
  /\ ~TriesNext(p, e) /\ Free(port[p])
  /\ owner' = Bind(p)
  /\ errno' = [errno EXCEPT ![p] = e]
  /\ responderPort' = [responderPort EXCEPT ![p] = port[p]]
  /\ EnterLoop(p, "publisher")
  /\ UNCHANGED <<publisherPort, histVars>>

(* Mutant of PublisherBound: port++ comes before the break. *)
PublisherBoundNext(p, e) ==
  /\ stage[p] = "publisher" /\ e \in ErrnoAfterBind(p)
  /\ ~TriesNext(p, e) /\ Free(port[p])
  /\ owner' = Bind(p)
  /\ errno' = [errno EXCEPT ![p] = e]
  /\ publisherPort' = [publisherPort EXCEPT ![p] = port[p] + 1]
  /\ stage' = [stage EXCEPT ![p] = "up"]
  /\ UNCHANGED <<port, retries, responderPort, histVars>>

PublisherBound(p, e) ==
  /\ stage[p] = "publisher" /\ e \in ErrnoAfterBind(p)
  /\ ~TriesNext(p, e) /\ Free(port[p])
  /\ owner' = Bind(p)
  /\ errno' = [errno EXCEPT ![p] = e]
  /\ publisherPort' = [publisherPort EXCEPT ![p] = port[p]]
  /\ stage' = [stage EXCEPT ![p] = "up"]
  /\ UNCHANGED <<port, retries, responderPort, histVars>>
----------------------------------------------------------------------------
(* The environment *)

(* A process starts with any errno. *)
Start(p) ==
  /\ stage[p] = "off"
  /\ EnterLoop(p, "responder")
  /\ \E e \in BOOLEAN : errno' = [errno EXCEPT ![p] = e]
  /\ UNCHANGED <<owner, toldVars, histVars>>

Exit(p) ==
  /\ stage[p] # "off"
  /\ stage' = [stage EXCEPT ![p] = "off"]
  /\ owner' = Unbound(p)
  /\ undisturbed' = FALSE
  /\ UNCHANGED <<loopVars, toldVars, greedy>>

OtherProcess(x) ==
  /\ \/ Free(x) /\ owner' = [owner EXCEPT ![x] = Other]
     \/ owner[x] = Other /\ owner' = [owner EXCEPT ![x] = None]
  /\ undisturbed' = FALSE
  /\ UNCHANGED <<stage, loopVars, toldVars, greedy>>

Init ==
  /\ stage = [p \in Procs |-> "off"]
  /\ port = [p \in Procs |-> FirstPort]
  /\ retries = [p \in Procs |-> 0]
  /\ errno = [p \in Procs |-> FALSE]
  /\ owner = [x \in Ports |-> None]
  /\ responderPort = [p \in Procs |-> FirstPort]
  /\ publisherPort = [p \in Procs |-> FirstPort + 1]
  /\ undisturbed = TRUE /\ greedy = FALSE

BindStep(p) ==
  \E e \in BOOLEAN : \/ BindNext(p, e) \/ BindAborts(p, e)
                     \/ ResponderBound(p, e) \/ PublisherBound(p, e)

Next ==
  \/ \E p \in Procs : BindStep(p) \/ Start(p) \/ Exit(p)
  \/ \E x \in Ports : OtherProcess(x)

Spec == Init /\ [][Next]_vars
----------------------------------------------------------------------------
(* Properties *)

(* Every variable has its type; a loop has tried as many ports as it has   *)
(* counted retries, so that no port beyond Ports is tried.                 *)
TypeOK ==
  /\ stage \in [Procs -> {"off", "up", "aborted"} \cup Loops]
  /\ port \in [Procs -> Ports]
  /\ retries \in [Procs -> 0 .. MaxRetries]
  /\ errno \in [Procs -> BOOLEAN]
  /\ undisturbed \in BOOLEAN /\ greedy \in BOOLEAN
  /\ owner \in [Ports -> Owners]
  /\ responderPort \in [Procs -> Ports] /\ publisherPort \in [Procs -> Ports]
  /\ \A p \in Procs : stage[p] \in Loops =>
       retries[p] < MaxRetries /\ port[p] = FirstPortOf(stage[p]) + retries[p]

(* The ports that a running proxy tells to Redis and to its peers are      *)
(* bound, by its own socket of that kind, however many ports its loops     *)
(* have taken (Responder::Responder, Publisher::Publisher).                *)
AdvertisedBound ==
  \A p \in Procs :
    /\ stage[p] \in {"publisher", "up"} =>
         owner[responderPort[p]] = <<p, "responder">>
    /\ stage[p] = "up" => owner[publisherPort[p]] = <<p, "publisher">>

(* Two running proxies of a host have different addresses, and nobody's    *)
(* responder is where another's publisher is.                              *)
AddressesDiffer ==
  \A p, q \in Procs :
    stage[p] = "up" /\ stage[q] = "up" =>
      /\ responderPort[p] # publisherPort[q]
      /\ p # q => /\ responderPort[p] # responderPort[q]
                  /\ publisherPort[p] # publisherPort[q]

(* A proxy that is alone on its host comes up, also with an old errno that *)
(* makes its responder take every port it tries: the publisher's tries     *)
(* reach one port further (Proxy::Proxy, Responder::Responder,             *)
(* Publisher::Publisher).  A second proxy may then find no port at all.    *)
AloneComesUp ==
  undisturbed =>
    \A p \in Procs : (\A q \in Procs \ {p} : stage[q] = "off") =>
      stage[p] # "aborted"

(* N proxies that start together on one host come up if they have 2N - 1   *)
(* tries, in whatever order they make them, as long as nothing else takes  *)
(* ports and no old errno makes a socket take more than one: nobody fails  *)
(* its assertion (Responder::Responder, Publisher::Publisher).             *)
NobodyAborts ==
  undisturbed /\ ~greedy /\ 2 * Cardinality(Procs) =< MaxRetries + 1 =>
    \A p \in Procs : stage[p] # "aborted"
============================================================================
