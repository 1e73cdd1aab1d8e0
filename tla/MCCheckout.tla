------------------------------ MODULE MCCheckout ------------------------------
(* Small instances of Checkout for TLC. *)
EXTENDS Checkout, TLC

CONSTANTS s1, s2, u1, v1, v2, r1, r2

(* Both checkouts are one buyer's, who can pay for one of them. *)
MCBuyer == [s \in Sagas |-> u1]
MCPrice == [s \in Sagas |-> 2]
MCFunds == [u \in Users |-> 3]

RaceSymmetry == Permutations(Vouchers) \cup Permutations(Requests)
===============================================================================
