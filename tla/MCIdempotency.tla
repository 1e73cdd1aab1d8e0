---------------------------- MODULE MCIdempotency -----------------------------
(* A small instance of Idempotency for TLC. *)
EXTENDS Idempotency

CONSTANTS r1, r2, r3

(* r2 repeats r1, r3 uses the key for something else. *)
MCBody == [r \in Requests |-> IF r = r3 THEN "another" ELSE "one"]
===============================================================================
