----------------------------- MODULE MCBounded -----------------------------
(* Small systems for the engines that unroll, and the option sets to try on them. *)
EXTENDS Bounded

Make(n, next, init, cons, bads) ==
    [states |-> 0..n-1, inputs |-> {0, 1}, next |-> [x \in (0..n-1) \X {0, 1} |-> next[x[1] + 1][x[2] + 1]],
     init |-> init, cons |-> cons, bads |-> bads]
All(n) == (0..n-1) \X {0, 1}
At(s) == {s} \X {0, 1}

\* deep: 0 -> 1 -> 2 -> 3, bad at depth 3 under input 1 and not again before depth 6.
\* safe: 3 is bad; 1 and 2 form an unreachable path into it, so that two steps are needed.
\* loop: like safe, with a cycle among the unreachable states, provable by simple paths only.
\* held: the constraint keeps input 1 out of state 1, which alone leads to 3.
\* two: two properties, the second fails first and hides the first.
MCSystem ==
    [deep |-> Make(4, <<<<1, 1>>, <<2, 2>>, <<3, 0>>, <<0, 1>>>>, {0}, All(4), <<{<<3, 1>>}>>),
     safe |-> Make(4, <<<<0, 0>>, <<2, 2>>, <<3, 0>>, <<3, 3>>>>, {0}, All(4), <<At(3)>>),
     loop |-> Make(4, <<<<0, 0>>, <<1, 2>>, <<3, 1>>, <<3, 0>>>>, {0}, All(4), <<At(3)>>),
     held |-> Make(4, <<<<0, 1>>, <<0, 3>>, <<3, 0>>, <<3, 3>>>>, {0}, All(4) \ {<<1, 1>>, <<2, 0>>}, <<At(3)>>),
     two |-> Make(3, <<<<0, 1>>, <<2, 0>>, <<2, 2>>>>, {0}, All(3), <<{<<2, 1>>}, {<<1, 0>>}>>)]

\* An invariant of the system, and a lemma of a frame that no run satisfies for long.
Lemma(frame, holds) == [frame |-> frame, holds |-> holds]
MCLemmas == [s \in DOMAIN MCSystem |->
    CASE s \in {"safe", "loop"} -> {Lemma("all", {0, 3}), Lemma("one", {1, 2})}
      [] s = "held" -> {Lemma("all", {0, 1}), Lemma("one", {0})}
      [] OTHER -> {Lemma("all", 0..3 \cap MCSystem[s].states), Lemma("one", {0, 1})}]

Base == [eng |-> "bmc", start |-> 0, end |-> 4, step |-> 1, kissat |-> FALSE, limit |-> "none",
         simple |-> FALSE, skip |-> FALSE, prop |-> 0, local |-> FALSE]
Kind == [Base EXCEPT !.eng = "kind"]
MCConfig == {
    Base,
    [Base EXCEPT !.start = 1, !.step = 2],
    [Base EXCEPT !.kissat = TRUE],
    [Base EXCEPT !.kissat = TRUE, !.step = 2],
    [Base EXCEPT !.limit = "step"],
    [Base EXCEPT !.limit = "total"],
    Kind,
    [Kind EXCEPT !.simple = TRUE],
    [Kind EXCEPT !.skip = TRUE],
    [Kind EXCEPT !.prop = 1],
    [Kind EXCEPT !.prop = 1, !.local = TRUE],
    [Base EXCEPT !.eng = "wlbmc", !.step = 2],
    [Base EXCEPT !.eng = "wlkind"]}

=============================================================================
