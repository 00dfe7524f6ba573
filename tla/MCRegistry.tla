----------------------------- MODULE MCRegistry -----------------------------
(* Instances of Registry for TLC. *)
EXTENDS Registry, TLC

CONSTANTS p1, p2, p3, n1, m1, m2, i1

MCOwner == [m \in Methods |-> n1]
MCProvides == [m \in Methods |-> i1]

(* The node keeps to one proxy, or moves between all of them. *)
OneHome == [m \in Methods |-> {p1}]
AnyHome == [m \in Methods |-> Proxies]
=============================================================================
