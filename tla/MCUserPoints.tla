----------------------------- MODULE MCUserPoints -----------------------------
(* Small instances of UserPoints for TLC. *)
EXTENDS UserPoints

CONSTANTS u1, u2, g1, g2, g3, e1, e2, s1, s2

MCGrantTo     == [g \in Grants |-> IF g = g3 THEN u2 ELSE u1]
MCGrantPoints == [g \in Grants |-> IF g = g2 THEN 2 ELSE 1]
MCEscrowOf     == [e \in Escrows |-> u1]
MCEscrowPoints == [e \in Escrows |-> IF e = e1 THEN 2 ELSE 1]
MCBuyer == [s \in Sagas |-> u1]
MCPrice == [s \in Sagas |-> IF s = s1 THEN 1 ELSE 2]
===============================================================================
