-------------------------------- MODULE Cnf --------------------------------
(***************************************************************************)
(* Clauses over the variables of a circuit, and what they entail.  A       *)
(* literal is a variable's number or its negation, a clause is the set of  *)
(* its literals, an assignment the set of its true literals.               *)
(***************************************************************************)
EXTENDS Integers

CONSTANTS
    NumVar,   \* the variables are numbered from 1; a gate's inputs come before it
    Def       \* DagCnf: for each variable the clauses that define it, {} for a leaf

ASSUME NumVarAssumption == NumVar \in Nat \ {0}

Var == 1..NumVar
Lit == Var \cup {-v : v \in Var}
VarOf(l) == IF l > 0 THEN l ELSE -l
VarsOf(c) == {VarOf(l) : l \in c}
Negated(c) == {-l : l \in c}

ASSUME DefAssumption ==
    \A v \in Var : \A c \in Def[v] : c \subseteq Lit /\ \A u \in VarsOf(c) : u <= v

Circuit == UNION {Def[v] : v \in Var}
Leaf == {v \in Var : Def[v] = {}}
Dep(v) == (UNION {VarsOf(c) : c \in Def[v]}) \ {v}

Holds(c, m) == c \cap m # {}
Assignments == {{IF b[v] THEN v ELSE -v : v \in Var} : b \in [Var -> BOOLEAN]}
CircuitModels == {m \in Assignments : \A c \in Circuit : Holds(c, m)}

\* In every model of the circuit and of the clauses F the clause c holds.
Entails(F, c) == \A m \in CircuitModels : (\A d \in F : Holds(d, m)) => Holds(c, m)
=============================================================================
