-------------------------- MODULE RegistryPromise --------------------------
(***************************************************************************)
(* What the method registries of a set of ESB proxies promise, with the    *)
(* timers and the exchange protocol abstracted away.                       *)
(*                                                                         *)
(* A method is known by its method guid.  The node that registers it draws *)
(* that guid for one identifier, so Owner and Provides are functions of    *)
(* the guid.                                                               *)
(*                                                                         *)
(* The invocation path (InvokeRouting) runs on top of this promise, and    *)
(* the timed exchange protocol (Registry) is shown to implement it.        *)
(***************************************************************************)
CONSTANTS
  Proxies,      \* guids of the proxy processes; a restart draws a new guid
  Nodes,        \* guids of the nodes (driver processes)
  Methods,      \* method guids
  Identifiers,  \* names that nodes invoke
  Owner,        \* Owner[m]: the node that registered m
  Provides,     \* Provides[m]: the identifier m was registered under
  None          \* "no entry" / "field not set"

ASSUME RegistryAssumption ==
  /\ Proxies \cap Nodes = {}
  /\ Owner \in [Methods -> Nodes]
  /\ Provides \in [Methods -> Identifiers]
  /\ None \notin Proxies \cup Nodes \cup Methods \cup Identifiers

VARIABLES
  offers,      \* offers[p]: methods in p's localInvokeMethods
  routes,      \* routes[p][m]: proxyGuid of m in p's remoteInvokeMethods, or None
  advertised   \* advertised[p]: methods p has ever held (history)

regVars == <<offers, routes, advertised>>

RegistryTypeOK ==
  /\ offers \in [Proxies -> SUBSET Methods]
  /\ routes \in [Proxies -> [Methods -> Proxies \cup {None}]]
  /\ advertised \in [Proxies -> SUBSET Methods]

RegistryInit ==
  /\ offers = [p \in Proxies |-> {}]
  /\ routes = [p \in Proxies |-> [m \in Methods |-> None]]
  /\ advertised = [p \in Proxies |-> {}]

(* A node registers m at p, or registers it again. *)
Offer(p, m) ==
  /\ offers' = [offers EXCEPT ![p] = @ \cup {m}]
  /\ advertised' = [advertised EXCEPT ![p] = @ \cup {m}]
  /\ UNCHANGED routes

(* p drops local methods and routes that nobody refreshed in time. *)
Expire(p) ==
  \E stale \in SUBSET offers[p], lost \in SUBSET Methods :
    /\ offers' = [offers EXCEPT ![p] = @ \ stale]
    /\ routes' = [routes EXCEPT ![p] =
                    [m \in Methods |-> IF m \in lost THEN None ELSE @[m]]]
    /\ UNCHANGED advertised

(* p hears q's registry, as q sent it at some earlier time.  A method that *)
(* already has a route keeps it.                                           *)
Learn(p, q) ==
  /\ p # q
  /\ \E heard \in SUBSET advertised[q] :
       routes' = [routes EXCEPT ![p] =
                    [m \in Methods |-> IF m \in heard /\ @[m] = None
                                       THEN q ELSE @[m]]]
  /\ UNCHANGED <<offers, advertised>>

RegistryNext ==
  \/ \E p \in Proxies, m \in Methods : Offer(p, m)
  \/ \E p \in Proxies : Expire(p)
  \/ \E p, q \in Proxies : Learn(p, q)

RegistrySpec == RegistryInit /\ [][RegistryNext]_regVars
----------------------------------------------------------------------------
(* No proxy routes a method to a proxy that never held it, nor to itself.  *)
RoutesWereAdvertised ==
  \A p \in Proxies, m \in Methods :
    routes[p][m] # None => /\ routes[p][m] # p
                           /\ m \in advertised[routes[p][m]]
=============================================================================
