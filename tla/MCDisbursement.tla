---------------------------- MODULE MCDisbursement ----------------------------
(* A small instance of Disbursement for TLC: one run of the job at a time. *)
EXTENDS Disbursement

CONSTANTS w1
===============================================================================
