------------------------------ MODULE Netlist ------------------------------
(***************************************************************************)
(* Transition systems as the engines get them: Transys of                   *)
(* src/src/transys/mod.rs, whose relation is a circuit of gates.            *)
(*                                                                         *)
(* A circuit is a record                                                   *)
(*   [input, latch, gate, next, init, bad, cons, just]                     *)
(* of sets of variables, the gates' operands, the latches' next and initial *)
(* literals, a sequence of bads and sets of constraints and justice         *)
(* literals.  A literal is a variable or its negative, and a cube is a set  *)
(* of literals; a gate is the conjunction of its operands, with smaller     *)
(* variables.                                                              *)
(***************************************************************************)
EXTENDS Integers, Sequences, FiniteSets, FiniteSetsExt, Functions, SequencesExt

\* Var::CONST, here true as a positive literal.
CONST == 1

VarOf(l) == IF l > 0 THEN l ELSE -l

Leaves(c) == c.input \cup c.latch
Gates(c) == DOMAIN c.gate
Vars(c) == {CONST} \cup Leaves(c) \cup Gates(c)

\* The value of a literal under an assignment of the variables.
Value(a, l) == IF l > 0 THEN a[l] ELSE ~a[-l]

\* All variables, from the leaves.
Eval(c, leaf) ==
    LET v[x \in Vars(c)] ==
        IF x = CONST THEN TRUE
        ELSE IF x \in Leaves(c) THEN leaf[x]
        ELSE \A l \in c.gate[x] : IF l > 0 THEN v[l] ELSE ~v[-l]
    IN v

Assignments(c) == {Eval(c, leaf) : leaf \in [Leaves(c) -> BOOLEAN]}

\* The assignments that meet the constraints, which hold at every step.
Legal(c) == {a \in Assignments(c) : \A l \in c.cons : Value(a, l)}

\* The initial state: latches without an initial literal are free, and entries of
\* variables that are no latches are not looked at.
Starts(c, a) == \A l \in c.latch \cap DOMAIN c.init : a[l] = Value(a, c.init[l])

Follows(c, a, b) == \A l \in c.latch : b[l] = Value(a, c.next[l])

\* The legal assignments of step d.  Those of the steps 0, 1, ... repeat before the number of
\* states is reached, and the first of each state comes before it.
Layers(c, n) ==
    LET R[d \in 0..n] ==
        IF d = 0 THEN {a \in Legal(c) : Starts(c, a)}
        ELSE LET before == R[d - 1] IN {b \in Legal(c) : \E a \in before : Follows(c, a, b)}
    IN R

\* Every state of k latches is reached within 2^k - 1 steps.
Horizon(c) == 2 ^ Cardinality(c.latch)

Reachable(c) == UNION Range(Layers(c, Horizon(c)))

IsBad(c, P, a) == \E i \in P : Value(a, c.bad[i])

\* The disjunction of literals, as DagCnf::new_or makes one with the gate g.
OrGate(L) == {-l : l \in L}
=============================================================================
