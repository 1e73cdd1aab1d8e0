----------------------------- MODULE MCStatements -----------------------------
(* A small instance of Statements for TLC. *)
EXTENDS Statements, TLC

CONSTANTS c1, c2

CaptureSymmetry == Permutations(Captures)
===============================================================================
