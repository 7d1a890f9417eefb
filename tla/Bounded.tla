------------------------------ MODULE Bounded ------------------------------
(***************************************************************************)
(* The engines that unroll: BMC and k-induction on circuits (src/src/bmc.rs, *)
(* kind.rs over transys/unroll.rs) and on word-level systems (wlbmc.rs,     *)
(* wlkind.rs over wltransys/unroll.rs), with the handle that stops them and *)
(* the LogTracer that tells the user which bounds were reached.            *)
(*                                                                         *)
(* A system is given by its states and inputs.  The solver is the set of    *)
(* the facts it has been given about the copies 0, 1, ... of the variables; *)
(* a query asks for values of the copies that meet all of them.            *)
(***************************************************************************)
EXTENDS Integers, Sequences, FiniteSets, FiniteSetsExt, McResult

CONSTANTS
    System,   \* name |-> [states, inputs, next, init, cons, bads]
    Config,   \* [eng, start, end, step, kissat, limit, simple, skip, prop, local]
    Lemmas    \* name |-> what an extractor may yield for the system

\* States and inputs are valuations of finitely many latches and inputs.
ASSUME SystemAssumption == \A s \in DOMAIN System :
    LET y == System[s] IN
    /\ IsFiniteSet(y.states) /\ y.states # {} /\ y.inputs # {}
    /\ y.next \in [y.states \X y.inputs -> y.states]
    /\ y.init \subseteq y.states /\ y.cons \subseteq y.states \X y.inputs
    /\ y.bads \in Seq(SUBSET (y.states \X y.inputs))

\* KindConfig::validate; step limits and kissat are options of BMC alone, the simple path, the
\* skipped base case and local proofs of k-induction, and only k-induction heeds --prop.
ASSUME ConfigAssumption == \A c \in Config :
    /\ c.eng \in {"bmc", "kind", "wlbmc", "wlkind"}
    /\ c.start \in Nat /\ c.end \in Nat /\ c.step \in Nat \ {0} /\ c.prop \in Nat
    /\ {c.kissat, c.simple, c.skip, c.local} \subseteq BOOLEAN
    /\ c.eng \in {"kind", "wlkind"} => c.step = 1 /\ c.start = 0
    /\ c.eng # "bmc" => ~c.kissat /\ c.limit = "none"
    /\ c.eng # "kind" => c.prop = 0 /\ ~c.simple /\ ~c.skip /\ ~c.local
    /\ c.local => c.prop # 0

\* A lemma that an extractor yields for every step, one of IC3's infinity frame, holds in
\* a set of states that is closed under the transitions.
ASSUME LemmaAssumption == \A s \in DOMAIN System : \A l \in Lemmas[s] :
    LET y == System[s] IN
    l.frame = "all" =>
        \E C \in SUBSET y.states :
            /\ y.init \subseteq C /\ C \subseteq l.holds
            /\ \A x \in (C \X y.inputs) \cap y.cons : y.next[x] \in C

VARIABLES
    sys, cfg,
    pc,         \* head of the loop, step query, base query, report, done
    k,
    unrolled,   \* TransysUnroll::num_unroll
    slv,        \* what the solver holds
    transK,     \* BMC::solver_k, Kind::slv_trans_k
    badK,       \* Kind::slv_bad_k
    inv,        \* BMC::invariant
    pending,    \* what the extractor has still to yield
    flag,       \* EngineCtrl: terminated
    stopping,   \* steps of terminate() done
    solver,     \* which of the solvers created is in use
    ctrl,       \* which one the handle reaches
    told,       \* which one has been told to stop
    wit,        \* the counterexample: its steps and bad_id
    res,
    traced,     \* what trace_state was called with
    logged      \* LogTracer::unknown, -1 for None: "no counterexample up to depth"

solverVars == <<unrolled, slv, transK, badK, inv, pending>>
stopVars == <<flag, stopping, ctrl, told>>
answerVars == <<wit, res>>
logVars == <<traced, logged>>
vars == <<sys, cfg, pc, k, solverVars, stopVars, solver, answerVars, logVars>>

Y == System[sys]
Steps == Y.states \X Y.inputs
BadIds == DOMAIN Y.bads
AnyBad(P, x) == \E p \in P : x \in Y.bads[p]

WordLevel == cfg.eng \in {"wlbmc", "wlkind"}

\* compress_bads, or the one property: what the query asks for, and what load_bad_to excludes.
Target == IF cfg.prop = 0 THEN BadIds ELSE {cfg.prop}
Excluded == IF cfg.prop = 0 \/ cfg.local THEN BadIds ELSE {cfg.prop}

-----------------------------------------------------------------------------
(* The unrolled variables *)

Fact(what, u) == <<what, u, {}>>
LemmaAt(c, u) == <<"lemma", u, c>>

\* simple_path: the copy differs from every earlier one.
\* Slip: from its predecessor only.
DistinctFromLast(q, u) == q[u][1] # q[u + 1][1]
Distinct(q, u) == \A i \in 1..u : q[i][1] # q[u + 1][1]

\* The values q of the copies 0..u meet the facts F about copy u.  The latches of copy
\* u + 1 are the next literals of copy u, which the gates of copy u define once loaded.
Meets(F, q, u) ==
    LET x == q[u + 1] IN
    /\ Fact("init", u) \in F => x[1] \in Y.init
    /\ u > 0 /\ (WordLevel \/ Fact("trans", u - 1) \in F) => x[1] = Y.next[q[u]]
    /\ Fact("trans", u) \in F => x \in Y.cons
    /\ Fact("trans", u) \in F /\ cfg.simple /\ u > 0 => Distinct(q, u)
    /\ Fact("good", u) \in F => ~AnyBad(Excluded, x)
    /\ Fact("bad", u) \in F => AnyBad(Target, x)
    /\ \A f \in F : f[1] = "lemma" /\ f[2] = u => x[1] \in f[3]

\* The models of F over the copies 0..n.
Models(F, n) ==
    LET M[u \in 0..n] ==
        IF u = 0 THEN {q \in {<<x>> : x \in Steps} : Meets(F, q, 0)}
        ELSE {q \in {Append(m, x) : m \in M[u - 1], x \in Steps} : Meets(F, q, u)}
    IN M[n]

\* The facts load_trans adds for the copies transK..n: gates, constraints, distinctness.
Trans(n) == {Fact("trans", u) : u \in transK..n}

-----------------------------------------------------------------------------
(* Results, tracers and the certificate *)

\* LogTracer::update_unknow
LogUnknown(d) == logged' = IF d = logged + 1 THEN d ELSE logged

TraceState(r) ==
    /\ traced' = traced \cup {r}
    /\ IF IsUnknown(r) THEN LogUnknown(r.depth - 1) ELSE UNCHANGED logged

Return(r) == res' = r /\ pc' = "done"

\* Unknown(k.checked_sub(1))
Before == IF k = 0 THEN Unknown ELSE Reached(k - 1)

\* TransysUnroll::cex with exact_state; Kind sets bad_id to its property.
FirstBad(x) == Min({p \in BadIds : x \in Y.bads[p]})
Cex(q) == [steps |-> q, bad |-> IF cfg.prop # 0 THEN cfg.prop ELSE FirstBad(q[Len(q)])]
NoCex == [steps |-> <<>>, bad |-> 0]

\* WlTransysUnroll::cex; bad_id is looked up among the bads of the original system.
WlCex(q) == [steps |-> q, bad |-> FirstBad(q[Len(q)])]

-----------------------------------------------------------------------------
Init ==
    /\ sys \in DOMAIN System /\ cfg \in Config
    /\ cfg.prop # 0 => cfg.prop \in DOMAIN System[sys].bads
    /\ pc = "head" /\ k = cfg.start
    /\ unrolled = 0 /\ transK = 0 /\ badK = 0
    /\ slv = IF cfg.eng \in {"bmc", "wlbmc"} THEN {Fact("init", 0)} ELSE {}
    /\ inv = {}
    /\ pending \in IF cfg.eng = "bmc" THEN {{}, Lemmas[sys]} ELSE {{}}
    /\ flag = FALSE /\ stopping = 0
    /\ solver = 1 /\ ctrl = 1 /\ told = 0
    /\ wit = NoCex /\ res = Unknown
    /\ traced = {} /\ logged = -1

-----------------------------------------------------------------------------
(* The handle: BmcCtrl, KindCtrl *)

Stoppable == cfg.eng \in {"bmc", "kind"}

\* terminate(): the flag, then the solver.
\* Slip: the solver first.
TerminateSolverFirst ==
    /\ Stoppable
    /\ \/ stopping = 0 /\ told' = ctrl /\ UNCHANGED flag
       \/ stopping = 1 /\ flag' = TRUE /\ UNCHANGED told
    /\ stopping' = stopping + 1
    /\ UNCHANGED <<sys, cfg, pc, k, solverVars, ctrl, solver, answerVars, logVars>>
Terminate ==
    /\ Stoppable
    /\ \/ stopping = 0 /\ flag' = TRUE /\ UNCHANGED told
       \/ stopping = 1 /\ told' = ctrl /\ UNCHANGED flag
    /\ stopping' = stopping + 1
    /\ UNCHANGED <<sys, cfg, pc, k, solverVars, ctrl, solver, answerVars, logVars>>

\* The loop looks at the flag before each step; BMC looks at its clock as well.
Interrupted ==
    /\ pc = "head" /\ k <= cfg.end /\ Stoppable
    /\ flag \/ cfg.limit = "total"
    /\ Return(Before)
    /\ UNCHANGED <<sys, cfg, k, solverVars, stopVars, solver, wit, logVars>>

Finish ==
    /\ pc = "head" /\ k > cfg.end
    /\ Return(Reached(cfg.end))
    /\ UNCHANGED <<sys, cfg, k, solverVars, stopVars, solver, wit, logVars>>

\* A query that is given up: by the solver's handle, or by BMC's limits.
\* BMC with Kissat keeps the clause that asks for the bad state of this step.
CutShort ==
    /\ pc \in {"step", "base"}
    /\ told = solver \/ cfg.limit # "none"
    /\ IF flag THEN Return(Before) /\ UNCHANGED k
       ELSE k' = k + cfg.step /\ pc' = "head" /\ UNCHANGED res
    /\ UNCHANGED <<sys, cfg, solverVars, stopVars, solver, wit, logVars>>

-----------------------------------------------------------------------------
(* BMC *)

\* extract_invariant takes what has arrived, keeps what holds at every step, and drops
\* the lemmas of a frame.
\* Slip: it keeps those, too.
ExtractedOfAnyFrame(got) == {l.holds : l \in got}
Extracted(got) == {l.holds : l \in {x \in got : x.frame = "all"}}

\* Lemmas are added at the copies there are, and extend_slv_to adds them at each new one.
BmcStep ==
    /\ pc = "head" /\ k <= cfg.end /\ ~flag /\ cfg.eng = "bmc"
    /\ \E got \in SUBSET pending :
          /\ pending' = pending \ got
          /\ inv' = inv \cup Extracted(got)
          /\ slv' = slv \cup {LemmaAt(c, u) : c \in Extracted(got), u \in 0..unrolled}
                        \cup Trans(k) \cup {LemmaAt(c, u) : c \in inv', u \in transK..k}
                        \cup (IF cfg.kissat THEN {Fact("bad", k)} ELSE {})
    /\ unrolled' = k /\ transK' = k + 1
    /\ pc' = "base"
    /\ UNCHANGED <<sys, cfg, k, badK, stopVars, solver, answerVars, logVars>>

\* reset_solver: Kissat starts again with init and the copies, and the handle follows.
\* Slip: the handle keeps the old solver.
ResetKeepsHandle ==
    IF cfg.kissat
    THEN /\ slv' = {Fact("init", 0)} \cup {Fact("trans", u) : u \in 0..transK-1}
         /\ solver' = solver + 1 /\ UNCHANGED ctrl
    ELSE UNCHANGED <<slv, solver, ctrl>>
ResetSolver ==
    IF cfg.kissat
    THEN /\ slv' = {Fact("init", 0)} \cup {Fact("trans", u) : u \in 0..transK-1}
         /\ solver' = solver + 1 /\ ctrl' = solver + 1
    ELSE UNCHANGED <<slv, solver, ctrl>>

-----------------------------------------------------------------------------
(* k-induction *)

AfterStep == IF cfg.skip THEN "report" ELSE "base"

KindStep ==
    /\ pc = "head" /\ k <= cfg.end /\ ~flag /\ cfg.eng = "kind"
    /\ unrolled' = k /\ transK' = k + 1
    /\ badK' = k
    /\ slv' = slv \cup Trans(k) \cup {Fact("good", u) : u \in badK..k-1}
    /\ pc' = IF k > 0 THEN "step" ELSE AfterStep
    /\ UNCHANGED <<sys, cfg, k, inv, pending, stopVars, solver, answerVars, logVars>>

\* Whether k good copies in a row can be followed by a bad one.
StepQuery == {q \in Models(slv, unrolled) : AnyBad(Target, q[k + 1])}

StepHolds ==
    /\ pc = "step" /\ StepQuery = {}
    /\ TraceState(UNSAT) /\ Return(UNSAT)
    /\ UNCHANGED <<sys, cfg, k, solverVars, stopVars, solver, wit>>

StepFails ==
    /\ pc = "step" /\ StepQuery # {}
    /\ pc' = AfterStep
    /\ UNCHANGED <<sys, cfg, k, solverVars, stopVars, solver, answerVars, logVars>>

-----------------------------------------------------------------------------
(* The query for a counterexample of depth k, of both *)

BaseQuery ==
    LET F == IF cfg.eng = "kind" THEN slv \cup {Fact("init", 0)} ELSE slv IN
    {q \in Models(F, unrolled) : AnyBad(Target, q[k + 1])}

BaseSat ==
    /\ pc = "base"
    /\ \E q \in BaseQuery : wit' = Cex(q)
    /\ TraceState(SAT(k)) /\ Return(SAT(k))
    /\ UNCHANGED <<sys, cfg, k, solverVars, stopVars, solver>>

BaseUnsat ==
    /\ pc = "base" /\ BaseQuery = {}
    /\ pc' = "report"
    /\ UNCHANGED <<sys, cfg, k, solverVars, stopVars, solver, answerVars, logVars>>

Report ==
    /\ pc = "report"
    /\ TraceState(Reached(k))
    /\ ResetSolver
    /\ k' = k + cfg.step /\ pc' = "head"
    /\ UNCHANGED <<sys, cfg, unrolled, transK, badK, inv, pending,
                   flag, stopping, told, answerVars>>

-----------------------------------------------------------------------------
(* The word-level engines, which nobody can stop: one action is a pass of the loop *)

\* unroll_to, load_trans_to and, for k-induction, load_bad_to
WlLoaded ==
    slv \cup Trans(k) \cup (IF cfg.eng = "wlkind" THEN {Fact("good", u) : u \in badK..k-1} ELSE {})

WlQuery(F) == {q \in Models(F, k) : AnyBad(BadIds, q[k + 1])}

WlPass(F, next) ==
    /\ pc = "head" /\ k <= cfg.end
    /\ unrolled' = k /\ transK' = k + 1 /\ badK' = k /\ slv' = WlLoaded
    /\ \/ /\ WlQuery(F) # {}
          /\ \E q \in WlQuery(F) : wit' = WlCex(q)
          /\ TraceState(SAT(k)) /\ Return(SAT(k)) /\ UNCHANGED k
       \/ /\ WlQuery(F) = {}
          /\ TraceState(Reached(k))
          /\ k' = next /\ UNCHANGED <<pc, wit, res>>
    /\ UNCHANGED <<sys, cfg, inv, pending, stopVars, solver>>

WlBmcPass == cfg.eng = "wlbmc" /\ WlPass(WlLoaded, k + cfg.step)

WlStepHolds == k > 0 /\ WlQuery(WlLoaded) = {}

WlKindPass ==
    /\ cfg.eng = "wlkind"
    /\ \/ ~WlStepHolds /\ WlPass(WlLoaded \cup {Fact("init", 0)}, k + 1)
       \/ /\ pc = "head" /\ k <= cfg.end /\ WlStepHolds
          /\ unrolled' = k /\ transK' = k + 1 /\ badK' = k /\ slv' = WlLoaded
          /\ TraceState(UNSAT) /\ Return(UNSAT)
          /\ UNCHANGED <<sys, cfg, k, inv, pending, stopVars, solver, wit>>

-----------------------------------------------------------------------------
Work ==
    \/ Interrupted \/ Finish \/ CutShort
    \/ BmcStep \/ KindStep \/ Report

Answer == StepHolds \/ StepFails \/ BaseSat \/ BaseUnsat \/ WlBmcPass \/ WlKindPass

Next == Work \/ Answer \/ Terminate

\* A query may run for ever, unless it has a limit or its solver has been told to stop.
Spec == Init /\ [][Next]_vars /\ WF_vars(Work)

-----------------------------------------------------------------------------
(* The certificate of k-induction: a system of k copies of the original one *)

\* Copy 0 is the present, copy i the step i before it, aux[i] says that it exists.
Copies(n) == [aux : [0..n-1 -> BOOLEAN], at : [0..n-1 -> Steps]]

CertInit(n, c) ==
    /\ c.at[0][1] \in Y.init
    /\ \A i \in 0..n-1 : c.aux[i] <=> i = 0

CertNext(n, c, d) ==
    /\ d.at[0][1] = Y.next[c.at[0]]
    /\ \A i \in 1..n-1 : d.at[i] = c.at[i - 1] /\ d.aux[i] = c.aux[i - 1]
    /\ d.aux[0] = c.aux[0]

\* Kind::proof: bads[i] of each copy, then the links between neighbours.
\* Slip: where the copies begin, the state need not be initial.
CertBadUnanchored(n, c) ==
    \/ ~c.aux[0]
    \/ \E i \in 0..n-1 : c.aux[i] /\ (AnyBad(BadIds, c.at[i]) \/ c.at[i] \notin Y.cons)
    \/ \E i \in 1..n-1 :
          \/ c.aux[i] /\ ~c.aux[i - 1]
          \/ c.aux[i] /\ Y.next[c.at[i]] # c.at[i - 1][1]
CertBad(n, c) ==
    \/ ~c.aux[0]
    \/ \E i \in 0..n-1 : c.aux[i] /\ (AnyBad(BadIds, c.at[i]) \/ c.at[i] \notin Y.cons)
    \/ \E i \in 1..n-1 :
          \/ c.aux[i] /\ ~c.aux[i - 1]
          \/ c.aux[i] /\ Y.next[c.at[i]] # c.at[i - 1][1]
          \/ ~c.aux[i] /\ c.aux[i - 1] /\ c.at[i - 1][1] \notin Y.init

\* WlKind::proof says for each step what must hold of it.
WlCertBad(n, c) ==
    LET Good(i) == ~AnyBad(BadIds, c.at[i]) /\ c.at[i] \in Y.cons
        Linked(i) ==
            /\ c.aux[i] => c.aux[i - 1] /\ Y.next[c.at[i]] = c.at[i - 1][1]
            /\ ~c.aux[i] /\ c.aux[i - 1] => c.at[i - 1][1] \in Y.init
    IN ~(c.aux[0] /\ (\A i \in 0..n-1 : c.aux[i] => Good(i)) /\ \A i \in 1..n-1 : Linked(i))

Violates(n, c) == IF WordLevel THEN WlCertBad(n, c) ELSE CertBad(n, c)

-----------------------------------------------------------------------------
(* Properties *)

\* The states that a run may be in after d steps; with assume, a run ends at a bad step.
After(d, assume) ==
    LET R[u \in 0..d] ==
        IF u = 0 THEN Y.init
        ELSE {Y.next[x] : x \in {y \in (R[u - 1] \X Y.inputs) \cap Y.cons :
                                   ~(assume /\ AnyBad(BadIds, y))}}
    IN R[d]

\* A run violates the property in question after exactly d steps.  A local proof speaks of the
\* runs on which the other properties hold before.
FailsAt(d) == \E x \in (After(d, cfg.local) \X Y.inputs) \cap Y.cons : AnyBad(Target, x)

\* Deeper than this no state is reached for the first time.
Depths == 0..Cardinality(Y.states)

\* A counterexample is a run of the system of the depth reported that ends in the bad
\* it names; a property is proved only if no run violates it, and without the base case
\* (--skip-bmc) only if none does for the first time after k or more steps.
AnswersRight == pc = "done" =>
    /\ res.kind = "SAT" =>
          LET q == wit.steps IN
          /\ Len(q) = res.depth + 1
          /\ q[1][1] \in Y.init
          /\ \A i \in 1..Len(q) : q[i] \in Y.cons
          /\ \A i \in 1..Len(q)-1 : q[i + 1][1] = Y.next[q[i]]
          /\ q[Len(q)] \in Y.bads[wit.bad]
    /\ res = UNSAT /\ (\E d \in Depths : FailsAt(d)) =>
          cfg.skip /\ \E d \in 0..k-1 : FailsAt(d)

\* "no counterexample at exact depth d" (traced), "up to depth d" (logged) and the bound
\* returned are true, except where the source does not check: steps given up before a
\* bound is returned, base cases left out, and what Kissat says after a step given up.
BoundsChecked == ~cfg.skip /\ (cfg.kissat => cfg.limit = "none") =>
    /\ \A r \in traced : IsUnknown(r) => ~FailsAt(r.depth - 1)
    /\ \A d \in 0..logged : ~FailsAt(d)
    /\ (/\ pc = "done" /\ IsUnknown(res) /\ res # Unknown
        /\ cfg.start = 0 /\ cfg.step = 1 /\ cfg.limit = "none") =>
          \A d \in 0..res.depth-1 : ~FailsAt(d)

\* The certificate that k-induction builds is an inductive invariant of its own system
\* and implies the properties.  It is built for all of them, so --prop is left out.
ProofInductive ==
    res = UNSAT /\ cfg.prop = 0 /\ ~cfg.simple /\ ~cfg.skip =>
        LET n == unrolled IN
        \A c \in Copies(n) : c.at[0] \in Y.cons =>
            /\ CertInit(n, c) => ~Violates(n, c)
            /\ ~Violates(n, c) => ~AnyBad(BadIds, c.at[0])
            /\ ~Violates(n, c) =>
                 \A i \in Y.inputs :
                    LET d == [aux |-> [j \in 0..n-1 |-> IF j = 0 THEN c.aux[0] ELSE c.aux[j - 1]],
                              at |-> [j \in 0..n-1 |->
                                        IF j = 0 THEN <<Y.next[c.at[0]], i>> ELSE c.at[j - 1]]]
                    IN d.at[0] \in Y.cons => CertNext(n, c, d) /\ ~Violates(n, d)

\* With simple paths k-induction decides every system once the bound exceeds its states.
SimplePathDecides ==
    pc = "done" /\ cfg.simple /\ ~cfg.skip /\ ~flag /\ cfg.end >= Cardinality(Y.states) =>
        ~IsUnknown(res)

\* An engine told to stop returns, whatever query is running and whichever solver runs it.
StopHeeded == stopping = 2 ~> pc = "done"
=============================================================================
