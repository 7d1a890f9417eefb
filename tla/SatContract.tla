---------------------------- MODULE SatContract ----------------------------
(***************************************************************************)
(* What the engines rely on when they use an incremental solver on a       *)
(* circuit (trait Satif as DagCnfSolver offers it): clauses accumulate, a  *)
(* question is a sequence of assumptions with constraints that hold for it *)
(* alone, and                                                              *)
(*   - an unsatisfiable answer comes with a core, assumptions that the     *)
(*     clauses and the constraints refute;                                 *)
(*   - a satisfiable one comes with values, which the circuit computes and *)
(*     which satisfy everything whatever the leaves without a value are;   *)
(*   - of the values of an answer some may be given up as long as that     *)
(*     still holds;                                                        *)
(*   - an answer is given up only for a question that sets a limit.        *)
(***************************************************************************)
EXTENDS Cnf, Sequences

CONSTANTS
    Questions,   \* [assump, constraint, limit], limit 0 for none
    AddedClauses

VARIABLES
    exact,     \* whether the values of satisfiable answers are relied upon
    formula,   \* the clauses added so far, besides the circuit's
    question,
    ans,
    core,
    model

vars == <<exact, formula, question, ans, core, model>>

Assumed(q) == {q.assump[i] : i \in DOMAIN q.assump}

Refuted(F, q, k) == k \subseteq Assumed(q) /\ Entails(F \cup q.constraint, Negated(k))

\* The circuit computes the values in m, and satisfies all, from the values of m's leaves.
Sufficient(F, q, m) ==
    \A b \in CircuitModels :
        {l \in m : VarOf(l) \in Leaf} \subseteq b =>
            /\ m \subseteq b
            /\ \A c \in F \cup q.constraint : Holds(c, b)

Init ==
    /\ exact \in BOOLEAN
    /\ formula = {}
    /\ ans = "none"
    /\ core = {}
    /\ model = {}
    /\ question \in Questions

Add ==
    /\ \E c \in AddedClauses : formula' = formula \cup {c}
    /\ ans' = "none" /\ core' = {} /\ model' = {}
    /\ UNCHANGED <<exact, question>>

\* A solver made ready for other questions has no answer to show.
Forget ==
    /\ ans' = "none" /\ core' = {} /\ model' = {}
    /\ UNCHANGED <<exact, formula, question>>

Ask ==
    /\ ans # "asked"
    /\ question' \in Questions
    /\ ans' = "asked" /\ core' = {} /\ model' = {}
    /\ UNCHANGED <<exact, formula>>

AnswerUnsat ==
    /\ ans = "asked" /\ ans' = "unsat"
    /\ Refuted(formula, question, core')
    /\ UNCHANGED <<exact, formula, question, model>>

AnswerSat ==
    /\ ans = "asked" /\ ans' = "sat"
    /\ exact => Assumed(question) \subseteq model' /\ Sufficient(formula, question, model')
    /\ UNCHANGED <<exact, formula, question, core>>

GiveUp ==
    /\ ans = "asked" /\ ans' = "unknown"
    /\ question.limit > 0
    /\ UNCHANGED <<exact, formula, question, core, model>>

Shrink ==
    /\ ans = "sat" /\ exact
    /\ model' \subseteq model
    /\ Sufficient(formula, question, model')
    /\ UNCHANGED <<exact, formula, question, ans, core>>

Next == Add \/ Forget \/ Ask \/ AnswerUnsat \/ AnswerSat \/ GiveUp \/ Shrink

Spec == Init /\ [][Next]_vars
=============================================================================
