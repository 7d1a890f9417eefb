---------------------------- MODULE MCTransforms ----------------------------
(* Small circuits and the ways they take to an engine.  The latches are 2, 3 and 4, the input *)
(* is 5, gates come after.                                                                    *)
EXTENDS Transforms

Gate(v, L) == v :> L
Make(latches, gates, next, init, bad, cons, just) ==
    [latch |-> latches, input |-> {5}, gate |-> gates, next |-> next, init |-> init,
     bad |-> bad, cons |-> cons, just |-> just]
On(l, n) == l :> n

\* twins: 3 follows 2's negation, so that one goes; 4 remembers that they were equal.
\* differ: the same, but 4 remembers that they differed, which they do.
\* start: 3 starts as 4, which starts as false, so that merging 4 into 3 must add a constraint.
\* late: the same, and both follow the input, so that a counterexample takes three steps.
\* first: 3 starts as 2, and their difference is bad in the first step, which 4 tells.
\* free: 3 starts free and a constraint ties it to 2; 4 counts.
\* gates: two gates with one function, in order and negated, under two bads.
\* held: the initial literals are gates and an input, the constraint cuts runs off.
\* trio: 3 and 4 go to 2, which has no initial literal, but takes theirs.
\* swap: 2 and 3 differ at the start, and for ever.
\* stuck: two latches that never move and start false, and a latch out of the cone.
\* loop, shift, once, never: accepting for a while only; spin, fair: for ever.
MCCircuit ==
    [twins |-> Make({2, 3, 4}, Gate(6, {2, 5}) @@ Gate(7, {2, 3}) @@ Gate(8, {-7, -4}) @@ Gate(9, {4, 2}),
                    On(2, 5) @@ On(3, -5) @@ On(4, -8), On(2, -1) @@ On(3, 1) @@ On(4, -1), <<9, 4>>, {}, {}),
     differ |-> Make({2, 3, 4}, Gate(6, {2, 5}) @@ Gate(7, {2, -3}) @@ Gate(8, {-7, -4}) @@ Gate(9, {4, 2}),
                    On(2, 5) @@ On(3, -5) @@ On(4, -8), On(2, -1) @@ On(3, 1) @@ On(4, -1), <<9, 4>>, {}, {}),
     start |-> Make({2, 3, 4}, Gate(6, {3, 5}) @@ Gate(7, {4, 2}),
                    On(2, 5) @@ On(3, 6) @@ On(4, 6), On(3, 4) @@ On(4, -1), <<7>>, {}, {}),
     late |-> Make({2, 3, 4}, Gate(6, {4, 2}), On(2, 3) @@ On(3, 5) @@ On(4, 5), On(2, -1) @@ On(3, 4) @@ On(4, -1), <<6>>, {}, {}),
     first |-> Make({2, 3, 4}, Gate(6, {4, 2, -3}), On(2, 5) @@ On(3, -5) @@ On(4, -1), On(3, 2) @@ On(4, 1), <<6>>, {}, {}),
     free |-> Make({2, 3, 4}, Gate(6, {2, -3}) @@ Gate(7, {-2, 3}) @@ Gate(8, {-6, -7}) @@ Gate(9, {4, 5}),
                   On(2, 5) @@ On(3, 5) @@ On(4, 2), On(2, 1) @@ On(4, -1), <<9, 6>>, {8}, {}),
     gates |-> Make({2, 3, 4}, Gate(6, {2, 5}) @@ Gate(7, {5, 2}) @@ Gate(8, {7, 3}) @@ Gate(9, {-6, 4}),
                    On(2, 5) @@ On(3, 6) @@ On(4, 7), On(2, -1) @@ On(3, -1) @@ On(4, -1), <<8, 9>>, {}, {}),
     held |-> Make({2, 3, 4}, Gate(6, {2, 5}) @@ Gate(7, {-3, 4}) @@ Gate(8, {3, -4}) @@ Gate(9, {2, 3, 4}),
                   On(2, 3) @@ On(3, 6) @@ On(4, 2), On(2, 5) @@ On(3, 2) @@ On(4, 7), <<7, 8>>, {-9}, {}),
     stuck |-> Make({2, 3, 4}, Gate(6, {2, 5}) @@ Gate(7, {-2, -3}) @@ Gate(8, {-7, 6}),
                    On(2, 2) @@ On(3, 8) @@ On(4, -4), On(2, -1) @@ On(3, 6), <<8, 3>>, {}, {}),
     trio |-> Make({2, 3, 4}, Gate(6, {2, -3}) @@ Gate(7, {-2, 3}) @@ Gate(8, {-6, -7}) @@ Gate(9, {4, 5}) @@ Gate(10, {-3, 5}),
                   On(2, 5) @@ On(3, 5) @@ On(4, -5), On(3, -1) @@ On(4, 1), <<10, 9>>, {8}, {}),
     swap |-> Make({2, 3, 4}, Gate(6, {2, 3}) @@ Gate(7, {-2, -3}) @@ Gate(8, {-6, -7}),
                   On(2, 3) @@ On(3, 2) @@ On(4, 8), On(2, 5) @@ On(3, -5) @@ On(4, 1), <<-4, -8>>, {}, {}),
     loop |-> Make({2, 3}, Gate(6, {2, -3}) @@ Gate(7, {3, 5}), On(2, 3) @@ On(3, 7), On(2, -1), << >>, {}, {6}),
     spin |-> Make({2, 3}, Gate(6, {2, 5}) @@ Gate(7, {3, -5}), On(2, -2) @@ On(3, 7), On(2, -1), << >>, {}, {6}),
     shift |-> Make({2, 3, 4}, Gate(6, {5, 2}), On(2, 3) @@ On(3, 4) @@ On(4, -1), On(4, 2), << >>, {}, {6}),
     once |-> Make({2, 3}, Gate(6, {2, -3}), On(2, -1) @@ On(3, 2), On(2, 1), << >>, {}, {6, 5}),
     fair |-> Make({2, 3}, Gate(6, {2, 5}), On(2, 5) @@ On(3, 3), On(3, -1), << >>, {}, {2, -5}),
     never |-> Make({2, 3}, Gate(6, {2, -3}), On(2, -3) @@ On(3, 2), On(2, -1) @@ On(3, -1), << >>, {-3}, {6, 5})]

All == {"preproc", "bve", "scorr", "frts"}
Engines(eng, prop, opts) == [eng |-> eng, prop |-> prop, opts |-> opts]
Alone(c, eng, prop, opts) == [circ |-> c, engines |-> <<Engines(eng, prop, opts)>>]
Handed(c, eng, to, prop, opts) == [circ |-> c, engines |-> <<Engines(eng, 0, All), Engines(to, prop, opts)>>]

Single == {"start", "late", "first"}
Safety == Single \cup {"twins", "differ", "free", "gates", "held", "trio", "swap", "stuck"}
MCJob ==
    {Alone(c, "ic3", 0, All) : c \in Safety} \cup {Alone(c, "bmc", 0, All) : c \in Safety}
    \cup {Alone(c, "kind", p, All \ {"bve"}) : c \in Safety \ Single, p \in 0..2}
    \cup {Alone(c, "ic3", 1, {"preproc", "inn"}) : c \in Safety}
    \cup {Alone(c, "ic3", 2, {"inn"}) : c \in Safety \ Single}
    \cup {Handed(c, "polynexus", "ic3", 1, {"preproc", "scorr", "inn"}) : c \in Safety}
    \cup {Handed(c, "portfolio", "ic3", 0, {"preproc", "frts"}) : c \in Safety}
    \cup {Handed(c, "portfolio", "bmc", 0, All) : c \in Single}
    \cup {Alone(c, "rlive", 0, o) : c \in {"loop", "spin", "shift", "once", "fair", "never"}, o \in {{}, All}}

\* A counterexample with the variable of the initial step, and a proof that needs it.
LateJob == {Alone("late", "bmc", 0, All)}
=============================================================================
