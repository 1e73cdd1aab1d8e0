------------------------------- MODULE MCOutbox -------------------------------
(* A small instance of Outbox for TLC: four captures of one merchant. *)
EXTENDS Outbox

CONSTANTS c1, c2, f1, f2, p1, p2
===============================================================================
