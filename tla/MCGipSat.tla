----------------------------- MODULE MCGipSat -----------------------------
(* Instances of GipSat. *)
EXTENDS GipSat

And(v, a, b) == {{-v, a}, {-v, b}, {v, -a, -b}}
Xor(v, a, b) == {{-v, a, b}, {-v, -a, -b}, {v, -a, b}, {v, a, -b}}
Q(a, c, k) == [assump |-> a, constraint |-> c, limit |-> k]

\* Leaves 1, 2, 3; a gate 6 that computes 1 without propagation showing it, one that computes
\* false; constrain_act 8.
Def1 == <<{}, {}, {}, And(4, -1, 2), And(5, -1, -2), And(6, -4, -5), And(7, 6, -1), {}>>
\* A constraint of the system, and clauses over its latches.
Lemmas1 == {{6}, {-1, 3}, {-1, -3}, {1}}
Questions1 == [ic3 |-> {Q(<<2, -4, -5>>, {{-1, -3}}, 0), Q(<<2, -4>>, {}, 0), Q(<<2>>, {{1}}, 0)},
               frts |-> {Q(<<>>, Differ(6, 1), 2), Q(<<>>, Differ(7, 1), 1)}]
Domains1 == {{4}}
Candidates1 == {<<6, 1>>, <<7, 1>>}

\* The lemmas contradict the constraint of the first question, which propagation alone does not
\* show; a unit is added afterwards, of which the gate 4 depends.
Def2 == <<{}, {}, {}, And(4, -1, 2), {}>>
Lemmas2 == {{-1, 3}, {-1, -3}, {2}}
Questions2 == [ic3 |-> {Q(<<-3>>, {{1}}, 0), Q(<<-4>>, {}, 0)}]
=============================================================================
