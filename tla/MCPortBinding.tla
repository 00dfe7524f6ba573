--------------------------- MODULE MCPortBinding ---------------------------
(* An instance of PortBinding for TLC. *)
EXTENDS PortBinding

CONSTANTS p1, p2
============================================================================
