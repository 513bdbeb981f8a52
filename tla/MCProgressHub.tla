---------------------------- MODULE MCProgressHub ----------------------------
(* Detail pages of one migration, and the dashboard as the last socket. *)
EXTENDS ProgressHub

CONSTANT m

Topics == [x \in Pages |-> IF x = 9 THEN Every ELSE m]
================================================================================
