------------------------------ MODULE McResult ------------------------------
(***************************************************************************)
(* Results of engines (src/src/lib.rs): UNSAT, SAT with the depth of the    *)
(* counterexample, Unknown with the bound reached, and their `|`.          *)
(***************************************************************************)
EXTENDS Naturals

UNSAT == [kind |-> "UNSAT", depth |-> 0]
SAT(d) == [kind |-> "SAT", depth |-> d]
\* Unknown(None); Some(k) is told from None by counting from 1.
Unknown == [kind |-> "Unknown", depth |-> 0]
Reached(k) == [kind |-> "Unknown", depth |-> k + 1]

IsUnknown(r) == r.kind = "Unknown"

\* BitOr panics on a conflict; Unknown yields to a definite result, and the larger depth wins.
Conflict(a, b) == {a.kind, b.kind} = {"UNSAT", "SAT"}
Larger(a, b) == IF a.depth >= b.depth THEN a ELSE b
Or(a, b) ==
    IF a.kind = b.kind THEN Larger(a, b)
    ELSE IF IsUnknown(a) THEN b ELSE a
=============================================================================
