-------------------------- MODULE MCInvokeRouting --------------------------
(* Instances of InvokeRouting for TLC. *)
EXTENDS InvokeRouting

CONSTANTS p1, p2, n1, n2, m1, m2, i1, i2, c1, c2

(* n1 calls, n2 offers the methods. *)
MCCaller == [c \in Calls |-> n1]
MCWants == [c \in Calls |-> i1]
MCOwner == [m \in Methods |-> n2]
MCProvides == [m \in Methods |-> IF m = m1 THEN i1 ELSE i2]
=============================================================================
