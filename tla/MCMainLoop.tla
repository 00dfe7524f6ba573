-------------------------- MODULE MCMainLoop --------------------------
(* An instance of MainLoop for TLC. *)
EXTENDS MainLoop

CONSTANTS s1, s2, s3

(* s1 is a node that also sends what can not be parsed, s2 and s3 are      *)
(* proxies.                                                                *)
MCRequests == {[from |-> s1, cmd |-> "NODE_HELLO"],
               [from |-> s2, cmd |-> "PROXY_HELLO"]}
MCSends == [s \in Peers |-> IF s = s1 THEN {"good", "bad"} ELSE {"good"}]
=======================================================================
