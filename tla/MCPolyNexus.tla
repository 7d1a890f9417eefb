--------------------------- MODULE MCPolyNexus ----------------------------
(* Instances of PolyNexus. *)
EXTENDS PolyNexus

Two == {0, 1}
One == {0}
\* Property 0 fails, property 1 holds; the run starts with nothing known of them.
Truth2 == [p \in Two |-> IF p = 0 THEN "SAT" ELSE "UNSAT"]
Fresh2 == [p \in Two |-> Unknown]
Truth1 == [p \in One |-> "UNSAT"]
Fresh1 == [p \in One |-> Unknown]
Depths == {1, 2}
=============================================================================
