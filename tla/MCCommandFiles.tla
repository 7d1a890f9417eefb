--------------------------- MODULE MCCommandFiles ---------------------------
(* Small models that the digests take for one another or not, and who checks them. *)
EXTENDS CommandFiles

\* x follows the input, y its complement, w stays as it is; so x and y never hold together.
\* The gate is x with the input.
Base(x, y, w, bad, init) ==
    [input |-> {5}, latch |-> {x, y, w}, gate |-> [g \in {6} |-> {x, 5}],
     next |-> [v \in {x, y, w} |-> IF v = x THEN 5 ELSE IF v = y THEN -5 ELSE w],
     init |-> [v \in {x, y, w} |-> init[v]],
     bad |-> bad, cons |-> {}, just |-> {},
     name |-> [v \in {x, y, w, 5} |-> IF v = x THEN "x" ELSE IF v = y THEN "y" ELSE IF v = w THEN "w" ELSE "i"]]
AllFalse == [v \in 2..4 |-> -CONST]

MCModel ==
    [base |-> Base(2, 3, 4, <<4, 2>>, AllFalse),
     renumbered |-> Base(4, 2, 3, <<3, 4>>, AllFalse),
     safe |-> Base(2, 3, 4, <<4>>, AllFalse),
     \* w starts as true
     reset |-> Base(2, 3, 4, <<4>>, [AllFalse EXCEPT ![4] = CONST]),
     \* y is gone; x with w is asked for
     smaller |-> [input |-> {5}, latch |-> {2, 4}, gate |-> [g \in {6} |-> {2, 5}],
                  next |-> [v \in {2, 4} |-> IF v = 2 THEN 5 ELSE 4], init |-> [v \in {2, 4} |-> -CONST],
                  bad |-> <<2>>, cons |-> {}, just |-> {},
                  name |-> [v \in {2, 4, 5} |-> IF v = 2 THEN "x" ELSE IF v = 4 THEN "w" ELSE "i"]],
     \* without symbols
     plain |-> [Base(2, 3, 4, <<4>>, AllFalse) EXCEPT !.name = [v \in {} |-> ""]]]

Task0(m, e, p) == [model |-> m, eng |-> e, prop |-> p]
Check(m, e, p) == [kind |-> "check", tasks |-> <<Task0(m, e, p)>>, cert |-> p # 0]
LightOf(m, e, f) == [kind |-> "light", tasks |-> <<Task0(m, e, 0), Task0(m, f, 0)>>, cert |-> FALSE]
Both(x, y) == [p \in {"a", "b"} |-> IF p = "a" THEN x ELSE y]

MCPlan ==
    {Both(Check("base", "ic3", 1), Check("renumbered", "bmc", 1)),
     Both(Check("safe", "ic3", 0), Check("base", "ic3", 0)),
     Both(Check("safe", "ic3", 0), Check("smaller", "ic3", 0)),
     Both(Check("safe", "ic3", 0), Check("reset", "bmc", 0)),
     Both(Check("plain", "ic3", 0), Check("plain", "ic3", 0)),
     [p \in {"a"} |-> LightOf("base", "ic3", "bmc")],
     Both(LightOf("safe", "ic3", "bmc"), Check("base", "bmc", 2)),
     <<>>}

Two == {0, 1}
MCVersion == {1, 2}
\* Version 2 fixes one property and breaks the other.
MCFailing == [v \in MCVersion |-> IF v = 1 THEN {0} ELSE {1}]
=============================================================================
