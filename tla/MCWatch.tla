------------------------------- MODULE MCWatch --------------------------------
(* A small instance of Watch for TLC: two viewers of one campaign. *)
EXTENDS Watch

CONSTANTS u1, u2, r1, r2
===============================================================================
