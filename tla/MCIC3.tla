------------------------------- MODULE MCIC3 -------------------------------
(* Instances of IC3 with three latches; latch i is bit i of a state. *)
EXTENDS IC3

Bit(s, i) == (s \div 2^i) % 2
States(n) == 0..2^n - 1

\* Every cube of literals, the empty one included: each latch is fixed or free.
Cubes(n) ==
    {{s \in States(n) : \A i \in 0..n-1 : Bit(s, i) \in p[i]} : p \in [0..n-1 -> {{0}, {1}, {0, 1}}]}

\* The cubes that the init literals "every latch is 0" exclude.
ZeroInit(n) == {{s \in States(n) : Bit(s, i) = 1} : i \in 0..n-1}

State3 == States(3)
Cube3 == {
    {0}, {1}, {2}, {3}, {4}, {5}, {6}, {7}, {0, 1}, {0, 2}, {0, 4}, {1, 3}, {1, 5},
    {2, 3}, {2, 6}, {3, 7}, {4, 5}, {4, 6}, {5, 7}, {6, 7}, {0, 1, 2, 3}, {0, 1, 4,
    5}, {0, 2, 4, 6}, {1, 3, 5, 7}, {2, 3, 6, 7}, {4, 5, 6, 7}, {0, 1, 2, 3, 4, 5, 6,
    7}}
Init3 == ZeroInit(3)

\* The list above is there for TLC, which would build Cubes(3) again for every state.
ASSUME Cube3IsEveryCube == Cube3 = Cubes(3)

\* Safe with 7 bad: 3, 5, 6 and 7 are unreachable, 5 and 6 lead to 7 or to 3.
MixTrans3 == [i \in 0..7 |->
    CASE i = 0 -> {2, 4} [] i = 1 -> {2} [] i = 2 -> {1} [] i = 3 -> {6} [] i = 4 -> {0}
      [] i = 5 -> {7} [] i = 6 -> {2, 3} [] i = 7 -> {0}]
\* The same with a step from 2 to 5: 7 is reached by 0, 2, 5, 7.
UnsafeTrans3 == [MixTrans3 EXCEPT ![2] = {1, 5}]
Bad3 == {7}
=============================================================================
