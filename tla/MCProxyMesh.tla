---------------------------- MODULE MCProxyMesh ----------------------------
(* Instances of ProxyMesh for TLC. *)
EXTENDS ProxyMesh

CONSTANTS g1, g2, g3, n1, r1, r2, b1, b2, b3

(* g2 is g1 restarted, g3 another proxy.  g2 has the responder port of g1, *)
(* and its publisher port or another one.                                  *)
RestartResp == [g \in Guids |-> IF g = g3 THEN r2 ELSE r1]
RestartPub == [g \in Guids |-> IF g = g3 THEN b2 ELSE b1]
MovedPub == [g \in Guids |-> CASE g = g1 -> b1 [] g = g2 -> b3 [] g = g3 -> b2]

(* The node uses a port that g1 has used. *)
FormerPort == [n \in Nodes |-> b1]
============================================================================
