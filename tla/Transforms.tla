----------------------------- MODULE Transforms -----------------------------
(***************************************************************************)
(* What happens to a transition system between the frontend and an engine,  *)
(* and to the engine's answer on the way back: the passes of                *)
(* src/src/transys/ (simp.rs, scorr.rs, frts.rs, others.rs, nodep.rs,       *)
(* live.rs), the constructors of the engines, which order them, and the     *)
(* Restore of certify.rs, which every pass has to keep up.                  *)
(*                                                                         *)
(* A job is one engine on one circuit.  Portfolio and PolyNexus preprocess   *)
(* once and hand the result to a worker, which preprocesses it again with a  *)
(* Restore of its own: two certificates' ways back are then chained.         *)
(*                                                                         *)
(* A pass is a function of a pair [ts, rst], and what simulation, a solver's *)
(* limit or a clock decide (which of the equal latches and gates are found)  *)
(* is a choice.                                                            *)
(***************************************************************************)
EXTENDS Netlist

CONSTANTS
    Circuit,    \* names -> circuits, as a frontend returns them
    Job         \* [circ, engines]: the engine, then the worker if it hands on, each [eng, prop,
                \* opts] with prop 0 if it is asked for all properties

\* With internal signals and its own disjunction of several bads, IC3 takes that gate for one of
\* the original system's: see the README.
ASSUME OneBadInn ==
    \A j \in Job : \A i \in DOMAIN j.engines :
        "inn" \in j.engines[i].opts => (j.engines[i].prop # 0 \/ Len(Circuit[j.circ].bad) = 1)

VARIABLES
    job,        \* the circuit's name and the engines still to come, the one at work first
    ots,        \* its original system
    ts, rst,    \* the system it makes of it, and the way back
    at,         \* the pass to come
    outer       \* the pair [ots, rst] of the engine that handed the job on, or << >>

vars == <<job, ots, ts, rst, at, outer>>

-----------------------------------------------------------------------------
(* Literals, gates and renamings.                                           *)

MapLit(m, l) == IF l > 0 THEN m[l] ELSE -m[-l]
NotIf(l, y) == IF y > 0 THEN l ELSE -l
IsConstant(l) == VarOf(l) = CONST

RECURSIVE Closed(_, _)
Closed(S, succ) ==
    LET more == S \cup UNION {succ[v] : v \in S}
    IN IF more = S THEN S ELSE Closed(more, succ)

\* The position of each member of a set of variables, from 1.
Ranks(V) == [v \in V |-> Cardinality({w \in V : w <= v})]

NewVar(c) == Max(Vars(c)) + 1
AddGate(c, L) == [c EXCEPT !.gate = @ @@ (NewVar(c) :> L)]

\* Both return the circuit and the literal; an equivalence is built of conjunctions.
NewXnor(c, l, k) ==
    LET either == AddGate(AddGate(c, {l, -k}), {-l, k})
        both == {-NewVar(c), -(NewVar(c) + 1)}
    IN CASE l = k -> [ts |-> c, lit |-> CONST]
         [] l = -k -> [ts |-> c, lit |-> -CONST]
         [] l # k /\ l # -k /\ IsConstant(l) -> [ts |-> c, lit |-> NotIf(k, l)]
         [] l # k /\ l # -k /\ IsConstant(k) -> [ts |-> c, lit |-> NotIf(l, k)]
         [] OTHER -> [ts |-> AddGate(either, both), lit |-> NewVar(either)]
NewImply(c, l, k) == [ts |-> AddGate(c, {l, -k}), lit |-> -NewVar(c)]
NewOr(c, L) == [ts |-> AddGate(c, OrGate(L)), lit |-> -NewVar(c)]

Elements(s) == {s[i] : i \in DOMAIN s}

\* A function of variables under a renaming, and a circuit.
Moved(f, m) ==
    LET was == AntiFunction(Restrict(m, DOMAIN f))
    IN [v \in DOMAIN was |-> f[was[v]]]
Renamed(c, m) ==
    LET lit(l) == MapLit(m, l)
        lits(L) == {lit(l) : l \in L}
        tied(f) == Moved([v \in DOMAIN f |-> lit(f[v])], m)
    IN [input |-> {m[v] : v \in c.input}, latch |-> {m[v] : v \in c.latch},
        gate |-> Moved([g \in DOMAIN c.gate |-> lits(c.gate[g])], m),
        next |-> tied(c.next), init |-> tied(c.init),
        bad |-> [i \in DOMAIN c.bad |-> lit(c.bad[i])], cons |-> lits(c.cons), just |-> lits(c.just)]

-----------------------------------------------------------------------------
(* Restore: the variable of the original system behind each variable (the   *)
(* forward map is its inverse), the literals each original latch stands for *)
(* since they were merged into it, and the variable that tells the initial  *)
(* step, 0 if there is none.                                               *)

NewRestore(c) == [b |-> [v \in Vars(c) |-> v], eq |-> << >>, iv |-> 0]

Forget(r, V) ==
    [r EXCEPT !.b = Restrict(@, DOMAIN @ \ V), !.iv = IF @ \in V THEN 0 ELSE @]

\* Slip: the sign of the literal that takes the latch's place is lost.
RestoreReplaceUnsigned(r, x, y) ==
    LET ym == r.b[VarOf(y)]
        known == IF ym \in DOMAIN r.eq THEN r.eq[ym] ELSE {}
    IN [b |-> Restrict(r.b, DOMAIN r.b \ {x}), eq |-> (ym :> (known \cup {r.b[x]})) @@ r.eq, iv |-> r.iv]

RestoreReplace(r, x, y) ==
    LET xm == NotIf(r.b[x], y)
        ym == r.b[VarOf(y)]
        known == IF ym \in DOMAIN r.eq THEN r.eq[ym] ELSE {}
    IN [b |-> Restrict(r.b, DOMAIN r.b \ {x}), eq |-> (ym :> (known \cup {xm})) @@ r.eq,
        iv |-> IF r.iv = x THEN VarOf(y) ELSE r.iv]

RestoreRenamed(r, m) ==
    [r EXCEPT !.b = Moved(Restrict(@, DOMAIN @ \cap DOMAIN m), m),
              !.iv = IF @ = 0 THEN 0 ELSE m[@]]

\* Cubes that no state meets: the merged latches differ.
EqInvariant(r) == UNION {UNION {{{v, -e}, {-v, e}} : e \in r.eq[v]} : v \in DOMAIN r.eq}

RestoreEqState(r, s) ==
    s \cup UNION {{NotIf(e, l) : e \in r.eq[VarOf(l)]} : l \in {k \in s : VarOf(k) \in DOMAIN r.eq}}

Rename(p, m) == [ts |-> Renamed(p.ts, m), rst |-> RestoreRenamed(p.rst, m)]

-----------------------------------------------------------------------------
(* The passes of simp.rs.                                                   *)

Roots(c) ==
    {VarOf(l) : l \in c.cons \cup c.just \cup Elements(c.bad)} \cup (IF c.just = {} THEN {} ELSE c.latch)

Cone(c, V) ==
    Closed(V, [v \in Vars(c) |->
        (IF v \in DOMAIN c.next THEN {VarOf(c.next[v])} ELSE {})
        \cup (IF v \in DOMAIN c.init THEN {VarOf(c.init[v])} ELSE {})
        \cup (IF v \in DOMAIN c.gate THEN {VarOf(l) : l \in c.gate[v]} ELSE {})])

CoiRefine(p) ==
    LET c == p.ts
        mark == Cone(c, Roots(c)) \cup {CONST}
        kept(f) == Restrict(f, DOMAIN f \cap mark)
    IN [ts |-> [c EXCEPT !.input = @ \cap mark, !.latch = @ \cap mark,
                         !.gate = kept(@), !.next = kept(@), !.init = kept(@)],
        rst |-> Forget(p.rst, Vars(c) \ mark)]

Frozens(c) ==
    {CONST} \cup Leaves(c) \cup {VarOf(l) : l \in c.cons \cup c.just \cup Elements(c.bad)}
    \cup {VarOf(c.next[v]) : v \in c.latch} \cup {VarOf(c.init[v]) : v \in c.latch \cap DOMAIN c.init}

\* DagCnf::simplify eliminates variables that are not frozen: here the gates that are only
\* operands, never negated, whose own operands take their place.
Eliminated(c) ==
    {g \in Gates(c) : g \notin Frozens(c) /\ \A h \in Gates(c) : -g \notin c.gate[h]}
SimplifyRel(p) ==
    LET c == p.ts
        E == Eliminated(c)
        flat[g \in Gates(c)] == UNION {IF l \in E THEN flat[l] ELSE {l} : l \in c.gate[g]}
    IN [p EXCEPT !.ts.gate = [g \in Gates(c) \ E |-> flat[g]]]

Rearrange(p) == Rename(p, Ranks(Vars(p.ts)))

TrimConstraints(p) == [p EXCEPT !.ts.cons = @ \ {CONST}]

Trivial(p, bve) ==
    Rearrange(TrimConstraints(IF bve THEN CoiRefine(SimplifyRel(CoiRefine(p))) ELSE CoiRefine(p)))

Simplify(p) == Trivial(p, TRUE)

-----------------------------------------------------------------------------
(* Initial literals that are no constants become a constraint on the step   *)
(* at which the initial variable is true.                                   *)

GetInitVar(p) ==
    LET iv == NewVar(p.ts)
    IN IF p.rst.iv # 0 THEN p
       ELSE [ts |-> [p.ts EXCEPT !.latch = @ \cup {iv}, !.init = (iv :> CONST) @@ @, !.next = (iv :> -CONST) @@ @],
             rst |-> [p.rst EXCEPT !.iv = iv]]

ConstrainInit(p, l) ==
    LET q == GetInitVar(p)
        i == NewImply(q.ts, q.rst.iv, l)
    IN [q EXCEPT !.ts = [i.ts EXCEPT !.cons = @ \cup {i.lit}]]

GateInits(c) == {v \in c.latch \cap DOMAIN c.init : ~IsConstant(c.init[v])}

RemoveGateInit(p) ==
    LET E == GateInits(p.ts)
        bare == [p EXCEPT !.ts.init = Restrict(@, {v \in DOMAIN @ \cap p.ts.latch : v \notin E})]
        tie(v, q) == LET e == NewXnor(q.ts, v, p.ts.init[v]) IN ConstrainInit([q EXCEPT !.ts = e.ts], e.lit)
    IN IF E = {} THEN p ELSE FoldSet(tie, bare, E)

-----------------------------------------------------------------------------
(* replace: latches and gates give way to the literals found equal.  The    *)
(* literal that stays takes over what is known of the latch's first value.  *)

\* Slip: the literal that stays keeps its own initial literal and nothing else.
GiveInitIfFree(x, y, p) ==
    IF VarOf(y) \notin DOMAIN p.ts.init THEN [p EXCEPT !.ts.init = (VarOf(y) :> NotIf(p.ts.init[x], y)) @@ @] ELSE p

GiveInit(x, y, p) ==
    LET c == p.ts
        given == NotIf(c.init[x], y)
        e == NewXnor(c, c.init[VarOf(y)], given)
    IN IF VarOf(y) \notin DOMAIN c.init THEN [p EXCEPT !.ts.init = (VarOf(y) :> given) @@ @]
       ELSE IF e.lit = CONST THEN p
       ELSE ConstrainInit([p EXCEPT !.ts = e.ts], e.lit)

Replace(p, m) ==
    LET L == DOMAIN m \cap DOMAIN p.ts.next
        give(x, q) == GiveInit(x, m[x], q)
        merge(x, r) == RestoreReplace(r, x, m[x])
        q == FoldSet(give, p, L \cap DOMAIN p.ts.init)
        lit(l) == IF VarOf(l) \in DOMAIN m THEN NotIf(m[VarOf(l)], l) ELSE l
        lits(S) == {lit(l) : l \in S}
        left(f, New(_)) == [v \in DOMAIN f \ DOMAIN m |-> New(f[v])]
    IN [ts |-> [input |-> q.ts.input \ DOMAIN m, latch |-> q.ts.latch \ DOMAIN m,
                gate |-> left(q.ts.gate, lits), next |-> left(q.ts.next, lit), init |-> left(q.ts.init, lit),
                bad |-> [i \in DOMAIN q.ts.bad |-> lit(q.ts.bad[i])],
                cons |-> lits(q.ts.cons), just |-> lits(q.ts.just)],
        rst |-> Forget(FoldSet(merge, q.rst, L), DOMAIN m \ L)]

-----------------------------------------------------------------------------
(* scorr.rs: latches that are equal at the start and stay so, by induction   *)
(* over one step.                                                           *)

CheckScorr(c, x, y) ==
    LET next(l) == IF IsConstant(l) THEN l ELSE MapLit(c.next, l)
        legal == Legal(c)
    IN /\ \A a \in legal : Starts(c, a) => (Value(a, x) = Value(a, y))
       /\ \A a \in legal : Value(a, x) = Value(a, y) => Value(a, next(x)) = Value(a, next(y))

\* A latch with an initial literal that is no constant stays; the others may go to a smaller
\* latch, or the constant, that stays itself.
ScorrMaps(c) ==
    LET below(x) == {l \in UNION {{v, -v} : v \in {w \in c.latch \cup {CONST} : w < x}} : CheckScorr(c, x, l)}
        moving == [x \in c.latch \ GateInits(c) |-> below(x)]
        some == {x \in DOMAIN moving : moving[x] # {}}
    IN UNION {{m \in [D -> UNION {moving[x] : x \in D}] :
                  \A x \in D : m[x] \in moving[x] /\ VarOf(m[x]) \notin D} : D \in SUBSET some}

-----------------------------------------------------------------------------
(* frts.rs: gates with the same function, whatever the constraints.         *)

Level(c) ==
    LET R[v \in Vars(c)] == IF v \in Gates(c) THEN 1 + Max({R[VarOf(l)] : l \in c.gate[v]}) ELSE 0
    IN R
Topsort(p) ==
    LET level == Level(p.ts)
        before(v, w) == level[v] < level[w] \/ (level[v] = level[w] /\ v <= w)
    IN Rename(p, [w \in Vars(p.ts) |-> Cardinality({v \in Vars(p.ts) : before(v, w)})])

\* The class of a gate goes by its smallest member.
FrMaps(c) ==
    LET all == Assignments(c)
        same(v, l) == \A a \in all : a[v] = Value(a, l)
        equal == [v \in Gates(c) |-> {l \in UNION {{w, -w} : w \in {u \in Vars(c) : u < v}} : same(v, l)}]
        first(v) == CHOOSE l \in equal[v] : \A k \in equal[v] : VarOf(l) <= VarOf(k)
        found == {v \in Gates(c) : equal[v] # {}}
    IN {[v \in D |-> first(v)] : D \in SUBSET found}

-----------------------------------------------------------------------------
(* nodep.rs: the relation becomes clauses, the constraints among them, and  *)
(* the way back is left for the variables that clause elimination may not   *)
(* touch.                                                                   *)

NoDep(p, simplify) ==
    LET kept == Frozens([p.ts EXCEPT !.cons = {}])
    IN IF simplify THEN [p EXCEPT !.rst = Forget(@, Vars(p.ts) \ kept)] ELSE p

CompressBads(c) ==
    LET o == NewOr(c, Elements(c.bad))
    IN IF Len(c.bad) <= 1 THEN c ELSE [o.ts EXCEPT !.bad = <<o.lit>>]

-----------------------------------------------------------------------------
(* live.rs: several justice literals become one, seen when all of them were *)
(* since the last reset, which a new input may ask for.                     *)

NormalizeJustice(c) ==
    LET J == SetToSeq(c.just)
        n == Len(J)
        b == NewVar(c) - 1
        held == b+1 .. b+n
        seen == b+n+1 .. b+2*n
        accept == b + 2*n + 1
        ni == b + 2*n + 2
        stay == b + 2*n + 3
        after == b+2*n+4 .. b+3*n+3
    IN IF n = 1 THEN c
       ELSE [c EXCEPT
                !.latch = @ \cup held, !.input = @ \cup {ni}, !.just = {accept},
                !.init = @ @@ [v \in held |-> -CONST], !.next = @ @@ [v \in held |-> v + 2*n + 3],
                !.gate = @ @@ [v \in seen |-> OrGate({v - n, J[v - b - n]})]
                           @@ (accept :> {-v : v \in seen})
                           @@ (stay :> OrGate({ni, accept}))
                           @@ [v \in after |-> {-(v - n - 3), stay}]]

-----------------------------------------------------------------------------
(* Runs of a circuit.                                                       *)

State(c, a) == Restrict(a, c.latch)

\* A shortest path through A to each assignment that the paths given lead to.
RECURSIVE Spread(_, _, _)
Spread(c, A, path) ==
    LET new == {b \in A \ DOMAIN path : \E a \in DOMAIN path : Follows(c, a, b)}
        least(b) == CHOOSE a \in DOMAIN path :
            Follows(c, a, b) /\ \A e \in DOMAIN path : Follows(c, e, b) => Len(path[a]) <= Len(path[e])
    IN IF new = {} THEN path ELSE Spread(c, A, [b \in new |-> Append(path[least(b)], b)] @@ path)

Paths(c) == LET A == Legal(c) IN Spread(c, A, [a \in {e \in A : Starts(c, e)} |-> <<a>>])

\* The length of the shortest counterexample to one of the literals, 0 if there is none.
Shortest(path, L) ==
    LET bad == {a \in DOMAIN path : \E l \in L : Value(a, l)}
    IN IF bad = {} THEN 0 ELSE Min({Len(path[a]) : a \in bad})

\* The assignments at the end of the runs that meet a sequence of cubes.
Ends(c, cubes) ==
    LET meets(a, k) == \A l \in cubes[k] : Value(a, l)
        legal == Legal(c)
        R[k \in DOMAIN cubes] ==
            IF k = 1 THEN {a \in legal : Starts(c, a) /\ meets(a, 1)}
            ELSE LET before == R[k - 1] IN {b \in legal : meets(b, k) /\ \E a \in before : Follows(c, a, b)}
    IN R[Len(cubes)]

\* A cycle of the runs that meets each justice literal.
FairLasso(c) ==
    LET A == Legal(c)
        after == [a \in A |-> {b \in A : Follows(c, a, b)}]
        plus == [a \in A |-> Closed(after[a], after)]
    IN \E a \in DOMAIN Paths(c) : /\ a \in plus[a]
                                  /\ \A j \in c.just : \E b \in plus[a] : a \in plus[b] /\ Value(b, j)

-----------------------------------------------------------------------------
(* The engines' constructors.                                               *)

Engine == Head(job.engines)
Pair == [ts |-> ts, rst |-> rst]
Becomes(p, next) == ts' = p.ts /\ rst' = p.rst /\ at' = next /\ UNCHANGED <<job, ots, outer>>
Has(o) == o \in Engine.opts

Init ==
    /\ job \in Job
    /\ ots = Circuit[job.circ]
    /\ ts = ots
    /\ rst = NewRestore(ots)
    /\ at = "new"
    /\ outer = << >>

\* The properties an engine looks at: IC3 and k-induction take the one they are asked for, IC3
\* otherwise joins them, as BMC always does, before the way back is begun.
Selected(c) ==
    IF Engine.eng \in {"ic3", "kind"} /\ Engine.prop # 0 THEN [c EXCEPT !.bad = <<c.bad[Engine.prop]>>]
    ELSE IF Engine.eng \in {"ic3", "bmc"} THEN CompressBads(c)
    ELSE c

Create ==
    /\ at = "new" /\ Engine.eng # "rlive"
    /\ Becomes([ts |-> Selected(ots), rst |-> NewRestore(Selected(ots))],
               IF Has("preproc") THEN "trivial" ELSE "late")

TrivialPass ==
    /\ at = "trivial"
    /\ Becomes(Trivial(Pair, Has("bve")), "scorr")

\* Without a legal initial state there is nothing to simulate, and the system stays as it is.
ScorrPass ==
    /\ at = "scorr"
    /\ IF ~Has("scorr") \/ ~\E a \in Legal(ts) : Starts(ts, a) THEN Becomes(Pair, "frts")
       ELSE \E m \in ScorrMaps(ts) : Becomes(Simplify(Replace(Pair, m)), "frts")

FrtsPass ==
    /\ at = "frts"
    /\ IF ~Has("frts") THEN Becomes(Pair, "late")
       ELSE LET q == Topsort(Pair)
            IN \E m \in FrMaps(q.ts) : Becomes(Simplify(Rearrange(CoiRefine(Replace(q, m)))), "late")

Finish ==
    /\ at = "late"
    /\ LET bare == IF Engine.eng \in {"bmc", "portfolio"} THEN Pair ELSE RemoveGateInit(Pair)
           free == IF Engine.eng \in {"bmc", "kind"} THEN NoDep(bare, Has("preproc")) ELSE bare
       IN Becomes(IF Engine.eng = "kind" /\ Engine.prop = 0 THEN [free EXCEPT !.ts = CompressBads(@)] ELSE free, "ready")

\* Portfolio and PolyNexus fork a worker on the system they made.
HandOn ==
    /\ at = "ready" /\ Engine.eng \in {"portfolio", "polynexus"}
    /\ outer' = [ots |-> ots, rst |-> rst]
    /\ job' = [job EXCEPT !.engines = Tail(@)]
    /\ ots' = ts
    /\ at' = "new"
    /\ UNCHANGED <<ts, rst>>

-----------------------------------------------------------------------------
(* Rlive's constructor ends the process: the arguments that it makes up for  *)
(* its IC3 are not of the command line's grammar, and clap exits.            *)

RliveNew ==
    /\ at = "new" /\ Engine.eng = "rlive"
    /\ LET p == [ts |-> NormalizeJustice(ots), rst |-> NewRestore(ots)]
       IN Becomes(IF Has("preproc") THEN Simplify(p) ELSE p, "exit")

Next == Create \/ TrivialPass \/ ScorrPass \/ FrtsPass \/ Finish \/ HandOn \/ RliveNew

Spec == Init /\ [][Next]_vars

-----------------------------------------------------------------------------
(* Counterexamples on the way back.                                         *)

\* With internal signals IC3's states also hold the gates that no input reaches.
StateVars(c) ==
    LET fanout == [v \in Vars(c) |-> {g \in Gates(c) : v \in {VarOf(l) : l \in c.gate[g]}}]
    IN IF Engine.eng = "ic3" /\ Has("inn") THEN Vars(c) \ (Closed(c.input, fanout) \cup {CONST}) ELSE c.latch

Cube(a, V) == {IF a[v] THEN v ELSE -v : v \in V}

\* The literals that are mapped back.  restore_cex leaves the initial variable out, IC3's own cex
\* what has no way back as well, and BMC's nothing.
MappedBack(s) ==
    CASE Engine.eng = "bmc" -> s
      [] Engine.eng = "ic3" -> {l \in s : VarOf(l) \in DOMAIN rst.b \ {rst.iv}}
      [] OTHER -> {l \in s : VarOf(l) # rst.iv}
Restorable(s) == \A l \in MappedBack(s) : VarOf(l) \in DOMAIN rst.b
RestoreCube(s) == RestoreEqState(rst, {MapLit(rst.b, l) : l \in MappedBack(s)})
RestoreCex(path) ==
    [k \in DOMAIN path |-> RestoreCube(Cube(path[k], StateVars(ts) \cup ts.input))]

\* The properties of the original system that the i-th of the present one stands for.
AskedBads(i) ==
    IF Len(ots.bad) = Len(ts.bad) THEN {ots.bad[i]}
    ELSE IF Engine.prop # 0 THEN {ots.bad[Engine.prop]} ELSE Elements(ots.bad)

-----------------------------------------------------------------------------
(* Proofs on the way back: a circuit and the cubes it claims no run to meet. *)

\* inner_invariant: the states outside a set, as cubes.
Blocked(inv) == {Cube(a, StateVars(ts)) : a \in {e \in Legal(ts) : State(ts, e) \notin inv}}

\* DagCnf::migrate: the gates under a constraint that have no way back get a new one.
Migrated(c, b, cons) ==
    Closed({VarOf(l) : l \in cons} \ DOMAIN b,
           [v \in Vars(c) |-> IF v \in Gates(c) THEN {VarOf(l) : l \in c.gate[v]} \ DOMAIN b ELSE {}])

\* c with variables V of d, which b maps to new ones of c.
Grafted(c, d, V, b) ==
    [c EXCEPT !.gate = [w \in {b[v] : v \in V \cap Gates(d)} |->
                            {MapLit(b, l) : l \in d.gate[CHOOSE v \in V : b[v] = w]}] @@ @,
              !.latch = @ \cup {b[v] : v \in V \cap d.latch},
              !.next = [w \in {b[v] : v \in V \cap d.latch} |-> MapLit(b, d.next[CHOOSE v \in V : b[v] = w])] @@ @,
              !.init = [w \in {b[v] : v \in V \cap d.latch \cap DOMAIN d.init} |->
                            MapLit(b, d.init[CHOOSE v \in V : b[v] = w])] @@ @]
NewVars(c, V) == LET r == Ranks(V) IN [v \in V |-> Max(Vars(c)) + r[v]]

\* Slip: the constraints are taken for granted.
ConstraintCubesNone(cons, b) == {}

\* The constraints, which include those made from initial literals, join the invariant.
ConstraintCubes(cons, b) == {{-MapLit(b, l)} : l \in cons}

IC3Proof(inv) ==
    LET withIv == GetInitVar([ts |-> ots, rst |-> NewRestore(ots)]).ts
        base == IF rst.iv = 0 THEN ots ELSE withIv
        b1 == IF rst.iv = 0 THEN rst.b ELSE (rst.iv :> NewVar(ots)) @@ rst.b
        V == Migrated(ts, b1, ts.cons)
        b2 == NewVars(base, V) @@ b1
    IN [ts |-> Grafted(base, ts, V, b2),
        cubes |-> {{MapLit(b2, l) : l \in s} : s \in Blocked(inv)}
                  \cup ConstraintCubes(ts.cons, b2) \cup EqInvariant(rst) \cup {{l} : l \in Elements(ots.bad)}]

\* Restore::restore_proof of the engine that handed the job on: its own constraints are gone.
RestoreProof(proof) ==
    LET V == Vars(proof.ts) \ DOMAIN outer.rst.b
        b == NewVars(outer.ots, V) @@ outer.rst.b
    IN [ts |-> Grafted(outer.ots, proof.ts, V, b),
        cubes |-> {{MapLit(b, l) : l \in s} : s \in proof.cubes}
                  \cup EqInvariant(outer.rst) \cup {{l} : l \in Elements(outer.ots.bad)}]

\* What a certificate checker asks: no initial state meets a cube, and no step leads to one.
Certifies(proof) ==
    LET claimed(a) == \E s \in proof.cubes : \A l \in s : Value(a, l)
        legal == Legal(proof.ts)
        outside == {a \in legal : ~claimed(a)}
    IN /\ \A a \in legal : Starts(proof.ts, a) => a \in outside
       /\ \A a \in outside, b \in legal : Follows(proof.ts, a, b) => b \in outside

RECURSIVE Weakened(_, _)
Weakened(A, W) ==
    LET safe(a) == ~IsBad(ts, DOMAIN ts.bad, a) /\ \A b \in A : Follows(ts, a, b) => State(ts, b) \in W
        kept == {s \in W : \A a \in A : State(ts, a) = s => safe(a)}
    IN IF kept = W THEN W ELSE Weakened(A, kept)

\* The strongest and the weakest invariant that an IC3 could find.
Invariants ==
    LET A == Legal(ts)
    IN {{State(ts, a) : a \in DOMAIN Paths(ts)}, Weakened(A, {State(ts, a) : a \in A})}

-----------------------------------------------------------------------------
(* Properties.                                                              *)

\* Every pass keeps the verdict and the depth of each property: the constructors' comparisons
\* of a bound or an answer across engines (McResult's merges) count steps of the original
\* system.  Rlive's passes keep the lasso.
VerdictKept ==
    /\ Engine.eng # "rlive" =>
        LET path == Paths(ts)
            original == Paths(ots)
        IN \A i \in DOMAIN ts.bad : Shortest(path, {ts.bad[i]}) = Shortest(original, AskedBads(i))
    /\ at = "exit" => (FairLasso(ts) <=> FairLasso(ots))

\* The assignments at the end of the shortest counterexamples to the i-th property.
Violations(path, i) ==
    {a \in DOMAIN path : Value(a, ts.bad[i]) /\ Len(path[a]) = Shortest(path, {ts.bad[i]})}

\* A counterexample of the prepared system restores to cubes that some run of the original
\* system meets (exact_state asserts it), and every run that meets them ends in a property
\* that was asked for.  BMC's with an initial variable is CexPrinted's subject.
CexRestores ==
    (at = "ready" /\ ~(Engine.eng = "bmc" /\ rst.iv # 0)) =>
        LET path == Paths(ts)
        IN \A i \in DOMAIN ts.bad : \A a \in Violations(path, i) :
            /\ \A k \in DOMAIN path[a] : Restorable(Cube(path[a][k], Leaves(ts)))
            /\ LET ends == Ends(ots, RestoreCex(path[a]))
               IN ends # {} /\ \A b \in ends : \E l \in AskedBads(i) : Value(b, l)

\* `check --cex` promises to print a counterexample when the model is unsafe: every literal of
\* one that BMC maps back has a way back, so that no unwrap of restore() panics.
CexPrinted ==
    (at = "ready" /\ Engine.eng = "bmc") =>
        LET path == Paths(ts)
        IN \A a \in Violations(path, 1) : \A k \in DOMAIN path[a] : Restorable(Cube(path[a][k], Leaves(ts)))

\* IC3's proof of the prepared system, with what it knows of the merged latches, of the
\* initial step and of the constraints, is inductive in the original system, and so is it once
\* more in the system of the engine that handed the job on.  (IC3 puts every property of the
\* original system into its proof, so that all of them have to hold.)
ProofRestores ==
    (at = "ready" /\ Engine.eng = "ic3" /\ Shortest(Paths(ots), Elements(ots.bad)) = 0) =>
        \A inv \in Invariants :
            LET proof == IC3Proof(inv)
            IN Certifies(proof) /\ (outer # << >> => Certifies(RestoreProof(proof)))
=============================================================================
