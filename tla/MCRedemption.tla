----------------------------- MODULE MCRedemption -----------------------------
(* Small instances of Redemption for TLC. *)
EXTENDS Redemption

CONSTANTS v1, v2, h1, h2, h3, f1, f2

(* v1 carries its balance, v2 is consumed by one capture. *)
MCHoldOn == [h \in Holds |-> IF h = h3 /\ v2 \in Vouchers THEN v2 ELSE v1]
MCFace   == [v \in Vouchers |-> 2]
MCS      == [v \in Vouchers |-> IF v = v1 THEN 3 ELSE 1]
===============================================================================
