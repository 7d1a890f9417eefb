---------------------------- MODULE MCPortfolio ----------------------------
(* Instances of Portfolio. *)
EXTENDS Portfolio

Workers2 == {1, 2}
Depths == {1, 2}
=============================================================================
