------------------------------- MODULE GipSat -------------------------------
(***************************************************************************)
(* DagCnfSolver (src/src/gipsat): one long-lived CDCL solver on a circuit. *)
(* Between two questions its clauses, learnt clauses and level-0 literals  *)
(* stay; the question's constraints are temporary clauses guarded by the   *)
(* literal of constrain_act; the search only looks at a domain of          *)
(* variables, closed under the circuit's dependencies.                     *)
(*                                                                         *)
(* Left out: watch lists, of which only the literals whose lists were      *)
(* walked are kept (visited), activities and phases (any choice), the      *)
(* relocation of clauses, and simplify_subsume, which starts at 1000       *)
(* lemmas.                                                                 *)
(***************************************************************************)
EXTENDS Cnf, FiniteSets, Sequences

CONSTANTS
    Users,          \* which of the solver's users: "ic3" or "frts"
    Lemmas,         \* clauses that add_clause is called with
    Questions,      \* for each user its questions [assump, constraint, limit]
    Domains,        \* sets of variables that set_domain is called with
    Candidates,     \* pairs of literals that frts may prove equivalent
    RestartBase,    \* conflicts of the shortest run between restarts (100)
    MaxRestarts,    \* bound: restarts of one search
    SimplifyPeriod, \* questions between two simplifications (100)
    MaxCalls        \* bound: calls of the solver

ASSUME UserAssumption == Users \subseteq {"ic3", "frts"}
ASSUME BoundAssumption ==
    {RestartBase, MaxRestarts, SimplifyPeriod, MaxCalls} \subseteq Nat

VARIABLES
    user,
    trans, lemmas, learnt, temporary,  \* ClauseDB, by kind
    trail,      \* Seq of [lit, reason, level]; reason {} for CREF_NONE
    high,       \* highest_level()
    propagated, \* how much of the trail is propagated
    visited,    \* literals of the trail whose watch lists were walked
    walk,       \* the literal whose list is being walked, or 0
    domain, fixed, temporary_domain,   \* Domain, its first `fixed` variables
    queue,      \* Vsids: variables that decide() may pop
    prepared,   \* prepared_vsids
    rep,        \* Eqc::get_eq
    trivial_unsat,
    since, last_num_assign,   \* Simplify: questions since the last one, its trail's length
    question, restarts, noc,           \* of the running search
    conf,       \* the clause being resolved by analyze
    unsat_core, \* LitSet
    model,      \* the values sat_value reads after a satisfiable answer
    ans,
    pc, then,   \* where the call is, and where it goes on after propagation
    formula,    \* history: clauses added by callers
    overlooked, \* history: whether a literal came to lie where `propagated` had been already
    calls

db == <<trans, lemmas, learnt>>
assigns == <<trail, high, propagated, visited>>
domains == <<domain, fixed, temporary_domain>>
simps == <<rep, since, last_num_assign>>
search == <<restarts, noc, conf>>
answers == <<unsat_core, model, ans>>
history == <<user, formula, overlooked, calls>>
vars == <<db, temporary, assigns, walk, domains, queue, prepared, simps,
          trivial_unsat, question, search, answers, pc, then, history>>

Act == NumVar            \* constrain_act, the last variable
LeafVar == Leaf \ {Act}
PlainLit == Lit \ {Act, -Act}
Clauses == trans \cup lemmas \cup learnt \cup temporary
As == IF question.constraint = {} THEN question.assump ELSE <<Act>> \o question.assump

\* constrain_act is a variable of the solver's own, past those of the circuit, in which every
\* gate has a value whatever its inputs are; callers do not know of it.
ASSUME ActAssumption == Def[Act] = {}
ASSUME CircuitAssumption == CircuitModels # {}
\* A gate has no other value than the one its clauses ask for.
ASSUME GateAssumption ==
    \A v \in Var \ Leaf : \A m \in Assignments :
        v \in m /\ (\A c \in Def[v] : Holds(c, m)) =>
            \E c \in Def[v] : ~Holds(c, (m \ {v}) \cup {-v})
ASSUME InputAssumption ==
    /\ Lemmas \subseteq SUBSET PlainLit
    /\ \A u \in Users : \A q \in Questions[u] :
           /\ q.assump \in Seq(PlainLit) /\ q.constraint \subseteq SUBSET PlainLit
           /\ q.limit \in Nat
           /\ u = "frts" => q.assump = <<>>   \* FrTs::fr asks with constraints alone
           /\ u = "ic3" => q.assump # <<>> \/ q.constraint # {}
    /\ Domains \subseteq SUBSET Var
    /\ Candidates \subseteq PlainLit \X PlainLit

-----------------------------------------------------------------------------
(* The trail. *)
LitsOf(t) == {t[i].lit : i \in DOMAIN t}

\* The trail up to pos_in_trail[k]: levels never decrease along it.
PosInTrail(t, k) == Cardinality({i \in DOMAIN t : t[i].level <= k})
Upto(t, k) == SubSeq(t, 1, PosInTrail(t, k))

Without(t, v) ==
    LET at == {i \in DOMAIN t : VarOf(t[i].lit) = v}
        n == CHOOSE i \in at : TRUE
    IN  IF at = {} THEN t ELSE SubSeq(t, 1, n - 1) \o SubSeq(t, n + 1, Len(t))

True(l) == l \in LitsOf(trail)
False(l) == -l \in LitsOf(trail)
Unassigned(v) == ~True(v) /\ ~False(v)
PosOf(l) == CHOOSE i \in DOMAIN trail : trail[i].lit = l
LevelOf(l) == trail[PosOf(IF True(l) THEN l ELSE -l)].level

LitsUpto(k) == {trail[i].lit : i \in {j \in DOMAIN trail : trail[j].level <= k}}
Popped(k) == {VarOf(trail[i].lit) : i \in {j \in DOMAIN trail : trail[j].level > k}}

Assigned(t, l, c, k) == Append(t, [lit |-> l, reason |-> c, level |-> k])

\* The level-0 trail once clean_temporary has taken constrain_act's literal off it.
Ground == Without(Upto(trail, 0), Act)
GroundLits == LitsUpto(0) \ {Act, -Act}

\* A literal lies where `propagated` has been, and its watch list was not walked.
Skipped == \E i \in DOMAIN trail : i <= propagated /\ trail[i].lit \notin visited

\* backtrack(0) and clean_temporary, which leaves `propagated` as it is; the trail becomes
\* Ground, or what the caller puts on it.
ToGround ==
    /\ high' = 0
    /\ propagated' = IF high = 0 THEN propagated ELSE PosInTrail(trail, 0)
    /\ visited' = visited \cap GroundLits

\* simplify_clause under the level-0 literals in u.
Satisfied(c, u) == c \cap u # {} \/ \E l \in c : -l \in c
Reduced(c, u) == {l \in c : -l \notin u}

\* Slip: the gates that a variable depends on stay outside the domain.
ClosureDirect(s, stop) == s \cup stop

\* The variables that s reaches through dependencies, where those of stop are not expanded.
Closure(s, stop) ==
    LET reached[v \in Var] ==
            \/ v \in s \cup stop
            \/ \E u \in (v + 1)..NumVar : reached[u] /\ u \notin stop /\ v \in Dep(u)
    IN  {v \in Var : reached[v]}

-----------------------------------------------------------------------------
\* What the circuit's clauses assign in the end: new() adds one after the other, propagates every
\* unit at once, and simplifies a clause by what is known when its turn comes.
Constants ==
    {l \in Lit : \A u \in SUBSET Lit :
         (\A c \in Circuit : \A k \in c : Negated(c \ {k}) \subseteq u => k \in u) => l \in u}

Init ==
    /\ user \in Users
    /\ \E known \in [Circuit -> SUBSET Constants] :
           LET added == {Reduced(c, known[c]) : c \in {d \in Circuit : ~Satisfied(d, known[d])}}
           IN  trans = {r \in added : Cardinality(r) > 1}
    /\ trail \in {t \in [1..Cardinality(Constants) ->
                            {[lit |-> l, reason |-> {}, level |-> 0] : l \in Constants}] :
                    LitsOf(t) = Constants}
    /\ lemmas = {} /\ learnt = {} /\ temporary = {}
    /\ high = 0 /\ propagated = Len(trail) /\ visited = LitsOf(trail) /\ walk = 0
    /\ fixed = UNION {VarsOf(c) : c \in {d \in Circuit : Cardinality(d) = 1}}
    /\ domain = fixed /\ temporary_domain = FALSE
    /\ queue = {} /\ prepared = FALSE
    /\ rep = [v \in Var |-> v]
    /\ trivial_unsat = FALSE
    /\ since = 0 /\ last_num_assign = 0
    /\ question \in Questions[user]
    /\ restarts = 0 /\ noc = 0 /\ conf = {}
    /\ unsat_core = {} /\ model = {} /\ ans = "none"
    /\ pc = "idle" /\ then = "idle"
    /\ formula = {} /\ overlooked = FALSE /\ calls = 0

-----------------------------------------------------------------------------
(* Calls between questions. *)
Call ==
    /\ pc = "idle"
    /\ calls < MaxCalls
    /\ calls' = calls + 1
    /\ UNCHANGED user

Forgotten == unsat_core' = {} /\ model' = {} /\ ans' = "none"

\* add_clause_inner, when the clause is not attached: a unit is assigned and propagated.
AddReduced(t, r, back) ==
    /\ trivial_unsat' = (trivial_unsat \/ r = {})
    /\ IF Cardinality(r) = 1
       THEN \E l \in r : /\ trail' = Assigned(t, l, {}, 0)
                         /\ pc' = "propagate" /\ then' = back
       ELSE trail' = t /\ pc' = back /\ UNCHANGED then

AddClause(c) ==
    LET u == GroundLits
        new == {v \in VarsOf(c) : v \notin u /\ -v \notin u}
        r == Reduced(c, u)
    IN  /\ Call /\ user = "ic3"
        /\ ~temporary_domain
        /\ formula' = formula \cup {c}
        /\ fixed' = fixed \cup Closure(new, fixed \ new)
        /\ domain' = fixed'
        /\ ToGround
        /\ temporary' = {} /\ prepared' = FALSE
        /\ IF Satisfied(c, u)
           THEN trail' = Ground /\ UNCHANGED <<lemmas, trivial_unsat, pc, then>>
           ELSE /\ AddReduced(Ground, r, "idle")
                /\ lemmas' = IF Cardinality(r) > 1 THEN lemmas \cup {r} ELSE lemmas
        /\ overlooked' = (overlooked \/ Skipped')
        /\ Forgotten
        /\ UNCHANGED <<trans, learnt, walk, temporary_domain, queue, simps, question, search>>

\* DagCnfSolver::set_domain with its push_to_vsids: assigned variables leave `fixed`.
SetDomain(roots) ==
    LET gone == {v \in fixed : v \in GroundLits \/ -v \in GroundLits} IN
    /\ Call /\ user = "ic3"
    /\ ~temporary_domain /\ temporary_domain' = TRUE
    /\ trail' = Ground /\ ToGround
    /\ fixed' = fixed \ gone
    /\ domain' = (Closure(roots, fixed) \ gone) \cup {Act}
    /\ queue' = domain'
    /\ temporary' = {} /\ prepared' = FALSE
    /\ overlooked' = (overlooked \/ Skipped')
    /\ Forgotten
    /\ UNCHANGED <<db, walk, simps, trivial_unsat, question, search, pc, then, formula>>

UnsetDomain ==
    /\ Call
    /\ temporary_domain /\ temporary_domain' = FALSE
    /\ UNCHANGED <<db, temporary, assigns, walk, domain, fixed, queue, prepared, simps,
                   trivial_unsat, question, search, answers, pc, then, formula, overlooked>>

\* Eqc::add_eq, of literals proved equivalent: the smaller variable represents the other.
RepOf(l) == IF l > 0 THEN rep[l] ELSE -rep[-l]

Differ(x, y) == {{x, y}, {-x, -y}}

AddEq(x, y) ==
    LET xp == RepOf(x)
        yp == RepOf(y)
        to == IF VarOf(xp) > VarOf(yp) THEN yp ELSE xp
        from == IF VarOf(xp) > VarOf(yp) THEN xp ELSE yp
    IN  /\ Call /\ user = "frts"
        /\ ans = "unsat" /\ question.constraint = Differ(x, y)
        /\ xp # yp
        /\ rep' = [v \in Var |-> IF rep[v] = from THEN to
                                 ELSE IF rep[v] = -from THEN -to ELSE rep[v]]
        /\ UNCHANGED <<db, temporary, assigns, walk, domains, queue, prepared, since,
                       last_num_assign, trivial_unsat, question, search, answers, pc, then,
                       formula, overlooked>>

\* flip_to_none: every clause that the literal satisfies must be satisfied without it, or
\* have an unassigned literal outside the domain.
Flip(v) ==
    /\ pc = "idle" /\ ans = "sat" /\ user = "ic3"
    /\ \E l \in model :
        /\ VarOf(l) = v /\ LevelOf(l) > 0
        /\ \A c \in Clauses : l \in c =>
               \E m \in c \ {l} : m \in model \/ (VarOf(m) \notin domain /\ Unassigned(VarOf(m)))
        /\ model' = model \ {l}
    /\ UNCHANGED <<db, temporary, assigns, walk, domains, queue, prepared, simps,
                   trivial_unsat, question, search, unsat_core, ans, pc, then, history>>

-----------------------------------------------------------------------------
(* solve_with_param *)
Refute(k) ==
    /\ unsat_core' = k /\ ans' = "unsat" /\ pc' = "idle"
    /\ UNCHANGED model

\* FrTs::fr asks of one variable after the other, and records an equivalence at once.
Newest(q) == CHOOSE v \in VarsOf(UNION q.constraint) :
                 \A u \in VarsOf(UNION q.constraint) : u <= v
InOrder(q) ==
    /\ calls > 0 => Newest(q) > Newest(question)
    /\ ans = "unsat" => \A e \in Candidates :
           question.constraint = Differ(e[1], e[2]) => RepOf(e[1]) = RepOf(e[2])

Solve(q) ==
    /\ Call
    /\ user = "frts" => InOrder(q)
    /\ temporary_domain =>
           VarsOf(UNION q.constraint) \cup {VarOf(q.assump[i]) : i \in DOMAIN q.assump}
               \subseteq domain
    /\ question' = q
    /\ unsat_core' = {} /\ model' = {}
    /\ ans' = "asked" /\ then' = "start"
    /\ pc' = "propagate"
    /\ since' = IF trivial_unsat THEN since ELSE since + 1
    /\ UNCHANGED <<db, temporary, assigns, walk, domains, queue, prepared, rep,
                   last_num_assign, trivial_unsat, search, formula, overlooked>>

TrivialUnsat ==
    /\ pc = "propagate" /\ then = "start" /\ trivial_unsat
    /\ Refute({})
    /\ UNCHANGED <<db, temporary, assigns, walk, domains, queue, prepared, simps,
                   trivial_unsat, question, search, then, history>>

\* clean_learnt: the clauses of the upper third, and those that are locked or binary.
Locked(c, t) == \E i \in DOMAIN t : t[i].reason = c
Cleaned(full, t) ==
    LET n == Cardinality(learnt)
        keep == IF n <= n \div 3 + 1 THEN n ELSE n \div 3 + 1
    IN  IF (full /\ n * 15 > Cardinality(trans)) \/ n > Cardinality(trans)
        THEN {top \cup {c \in learnt : Locked(c, t) \/ Cardinality(c) = 2} :
                  top \in {s \in SUBSET learnt : Cardinality(s) = keep}}
        ELSE {learnt}

\* new_round, and clean_learnt(true) after it.
NewRound ==
    LET u == GroundLits
        guarded == {c \cup {-Act} : c \in question.constraint}
        reduced == {Reduced(c, u) : c \in {d \in guarded : ~Satisfied(d, u)}}
        asked == {VarOf(As[i]) : i \in DOMAIN As} \cup VarsOf(UNION question.constraint)
    IN  /\ pc = "start"
        /\ trail' = Ground /\ ToGround
        /\ prepared' = FALSE
        /\ restarts' = 0 /\ noc' = 0
        /\ IF {-Act} \in reduced
           THEN /\ Refute({})
                /\ \E s \in SUBSET (reduced \ {{-Act}}) : temporary' = s
                /\ queue' = IF temporary_domain THEN queue \cup Popped(0) ELSE queue
                /\ UNCHANGED <<learnt, domain>>
           ELSE /\ temporary' = reduced
                /\ IF temporary_domain
                   THEN queue' = queue \cup Popped(0) /\ UNCHANGED domain
                   ELSE /\ domain' = Closure(asked \ {Act}, fixed) \cup {Act}
                        /\ queue' = {}
                /\ learnt' \in Cleaned(TRUE, Ground)
                /\ pc' = "simplify"
                /\ UNCHANGED answers
        /\ UNCHANGED <<trans, lemmas, walk, fixed, temporary_domain, simps, trivial_unsat,
                       question, conf, then, history>>

-----------------------------------------------------------------------------
(* simplify *)

\* simplify_satisfied_clauses: a clause with a false literal among its first two, the watched
\* ones, is dropped as satisfied, without a look at the others.
Live(c) == c \cap LitsOf(trail) = {}
Unwalked(c) == {l \in c : False(l) /\ -l \notin visited}
Watchable(c) == Cardinality(Reduced(c, LitsOf(trail))) > 1
\* Slip: a false literal makes a clause satisfied, wherever it is.
SimplifiedAnyFalse(s, dropped) ==
    {c \in s : Live(c) /\ Negated(c) \cap LitsOf(trail) = {}} \ dropped

Simplified(s, dropped) ==
    {Reduced(c, LitsOf(trail)) : c \in {d \in s : Live(d) /\ Watchable(d)} \ dropped}

SimplifySatisfied ==
    IF last_num_assign < Len(trail)
    THEN /\ \E dropped \in SUBSET {c \in trans \cup lemmas \cup learnt :
                                       Live(c) /\ Watchable(c) /\ Unwalked(c) # {}} :
                /\ lemmas' = Simplified(lemmas, dropped)
                /\ learnt' = Simplified(learnt, dropped)
                /\ trans' = Simplified(trans, dropped)
         /\ last_num_assign' = Len(trail)
    ELSE UNCHANGED <<db, last_num_assign>>

Simplify ==
    /\ pc = "simplify"
    /\ IF since > SimplifyPeriod
       THEN SimplifySatisfied /\ since' = 0 /\ pc' = "eq" /\ UNCHANGED then
       ELSE /\ pc' = "propagate" /\ then' = "search"
            /\ UNCHANGED <<db, since, last_num_assign>>
    /\ UNCHANGED <<temporary, assigns, walk, domains, queue, prepared, rep, trivial_unsat,
                   question, search, answers, history>>

\* clean_eq_inner: a clause that mentions a represented literal is taken out, rewritten and
\* added again.
Rewritten(c) == {RepOf(l) : l \in c}

CleanEq ==
    \E c \in trans \cup lemmas \cup learnt :
        LET u == LitsOf(trail)
            r == Reduced(Rewritten(c), u)
            In(s) == IF c \in s
                     THEN (s \ {c}) \cup (IF Satisfied(Rewritten(c), u) \/ Cardinality(r) < 2
                                          THEN {} ELSE {r})
                     ELSE s
        IN  /\ pc = "eq"
            /\ Rewritten(c) # c
            /\ trans' = In(trans) /\ lemmas' = In(lemmas) /\ learnt' = In(learnt)
            /\ UNCHANGED <<temporary, high, propagated, visited, walk, domains, queue,
                           prepared, simps, question, search, answers, user, formula, calls>>
            /\ IF Satisfied(Rewritten(c), u)
               THEN UNCHANGED <<trail, trivial_unsat, pc, then>>
               ELSE AddReduced(trail, r, "eq")
            /\ overlooked' = (overlooked \/ Skipped')

EqCleaned ==
    /\ pc = "eq"
    /\ \A c \in trans \cup lemmas \cup learnt : Rewritten(c) = c
    /\ pc' = "propagate" /\ then' = "search"
    /\ UNCHANGED <<db, temporary, assigns, walk, domains, queue, prepared, simps,
                   trivial_unsat, question, search, answers, history>>

-----------------------------------------------------------------------------
(* propagate, at level 0 over all variables (propagate_full), above it over the domain. *)
InDomain(v) == high = 0 \/ v \in domain

Walked(c) == -walk \in c
Falsified(c) == \A l \in c : False(l)
UnitOf(c, l) ==
    /\ l \in c /\ Unassigned(VarOf(l)) /\ InDomain(VarOf(l))
    /\ \A m \in c \ {l} : False(m)

\* A clause's two watched literals are not among its false literals that are walked, except
\* for the one being walked.  A unit clause is found for sure when all false literals are
\* walked, a false one already when one is left.  At most one of the two watches may carry the
\* blocker of a variable that is no longer in the domain, and pass the clause over.
Passable(c) == high > 0 /\ \E l \in c : False(l) /\ VarOf(l) \notin domain
Pending ==
    \E c \in Clauses :
        /\ walk # 0 /\ Walked(c)
        /\ \/ Falsified(c) /\ Cardinality(Unwalked(c)) <= (IF Passable(c) THEN 0 ELSE 1)
           \/ ~Passable(c) /\ Unwalked(c) = {} /\ \E l \in c : UnitOf(c, l)

Propagating == pc = "propagate" /\ ~(then = "start" /\ trivial_unsat)

PropUnit ==
    /\ Propagating /\ walk # 0
    /\ \E c \in Clauses : \E l \in c :
        /\ Walked(c) /\ UnitOf(c, l)
        /\ trail' = Assigned(trail, l, c, high)
    /\ UNCHANGED <<db, temporary, high, propagated, visited, walk, domains, queue, prepared,
                   simps, trivial_unsat, question, search, answers, pc, then, history>>

PropWalk ==
    /\ Propagating /\ ~Pending
    /\ propagated < Len(trail)
    /\ walk' = trail[propagated + 1].lit
    /\ visited' = visited \cup {walk'}
    /\ propagated' = propagated + 1
    /\ UNCHANGED <<db, temporary, trail, high, domains, queue, prepared, simps, trivial_unsat,
                   question, search, answers, pc, then, history>>

Propagated ==
    /\ Propagating /\ ~Pending
    /\ propagated >= Len(trail)
    /\ walk' = 0
    /\ pc' = then
    /\ UNCHANGED <<db, temporary, assigns, domains, queue, prepared, simps, trivial_unsat,
                   question, search, answers, then, history>>

\* The conflicts after which search_with_restart starts again, by its luby sequence.
Luby == <<1, 1, 2, 1, 1, 2, 4>>
Enough == noc >= RestartBase * Luby[1 + (restarts % 7)]

AboveGround(c) == {l \in c : LevelOf(l) > 0}

Conflict ==
    /\ Propagating /\ walk # 0 /\ walk' = 0
    /\ \E c \in Clauses :
        /\ Walked(c) /\ Falsified(c)
        \* At level 0 the first watch to be walked finds it; the other is found by the next call.
        /\ then = "search" /\ high = 0 => Unwalked(c) # {}
        /\ CASE then = "search" /\ high > 0 ->
                    /\ conf' = AboveGround(c) /\ noc' = (IF Enough THEN noc ELSE noc + 1)
                    /\ pc' = "analyze"
                    /\ UNCHANGED <<trivial_unsat, answers>>
             [] then = "search" /\ high = 0 ->
                    Refute({}) /\ UNCHANGED <<trivial_unsat, conf, noc>>
             [] then = "start" ->
                    trivial_unsat' = TRUE /\ Refute({}) /\ UNCHANGED <<conf, noc>>
             [] OTHER ->
                    trivial_unsat' = TRUE /\ pc' = then /\ UNCHANGED <<conf, noc, answers>>
    /\ UNCHANGED <<db, temporary, assigns, domains, queue, prepared, simps, question, restarts,
                   then, history>>

-----------------------------------------------------------------------------
(* analyze, a resolution at a time *)
Top == {l \in conf : LevelOf(l) >= high}
Last == CHOOSE l \in Top : \A m \in Top : PosOf(-m) <= PosOf(-l)

Resolve ==
    /\ pc = "analyze" /\ Cardinality(Top) > 1
    /\ conf' = (conf \cup AboveGround(trail[PosOf(-Last)].reason \ {-Last})) \ {Last}
    /\ UNCHANGED <<db, temporary, assigns, walk, domains, queue, prepared, simps,
                   trivial_unsat, question, restarts, noc, answers, pc, then, history>>

\* minimal_learnt: a literal goes if its reason's literals are in the clause, at level 0 or go.
Minimal ==
    LET goes[i \in {j \in DOMAIN trail : trail[j].level > 0}] ==
            /\ trail[i].reason # {}
            /\ \A l \in trail[i].reason \ {trail[i].lit} :
                   LevelOf(l) = 0 \/ l \in conf \ Top \/ goes[PosOf(-l)]
    IN  Top \cup {l \in conf \ Top : ~goes[PosOf(-l)]}

MaxLevel(c) ==
    IF c = {} THEN 0 ELSE LevelOf(CHOOSE l \in c : \A m \in c : LevelOf(m) <= LevelOf(l))

\* Slip: what was propagated counts as propagated after going back.
BackPropagated(k, t) ==
    /\ high' = k
    /\ trail' = t
    /\ UNCHANGED propagated
    /\ visited' = visited \cap LitsUpto(high')
    /\ queue' = queue \cup Popped(high')

Back(k, t) ==
    /\ high' = k
    /\ trail' = t
    /\ propagated' = PosInTrail(trail, high')
    /\ visited' = visited \cap LitsUpto(high')
    /\ queue' = queue \cup Popped(high')

\* Slip: every learnt clause is kept as one that follows from the others.
LearnForGood ==
    LET c == Minimal
        btl == MaxLevel(c \ Top)
    IN  /\ pc = "analyze" /\ Cardinality(Top) = 1
        /\ Back(btl, Assigned(Upto(trail, btl), Last,
                              IF Cardinality(c) = 1 THEN {} ELSE c, btl))
        /\ learnt' = IF Cardinality(c) > 1 THEN learnt \cup {c} ELSE learnt
        /\ conf' = {}
        /\ pc' = "propagate"
        /\ UNCHANGED <<trans, lemmas, temporary, walk, domains, prepared, simps, trivial_unsat,
                       question, restarts, noc, answers, then, history>>

\* Slip: the literal that the learnt clause asserts is left to the search.
LearnUnasserted ==
    LET c == Minimal
        btl == MaxLevel(c \ Top)
    IN  /\ pc = "analyze" /\ Cardinality(Top) = 1
        /\ Back(btl, Upto(trail, btl))
        /\ learnt' = IF Cardinality(c) > 1 /\ -Act \notin c THEN learnt \cup {c} ELSE learnt
        /\ temporary' = IF Cardinality(c) > 1 /\ -Act \in c THEN temporary \cup {c} ELSE temporary
        /\ conf' = {}
        /\ pc' = "propagate"
        /\ UNCHANGED <<trans, lemmas, walk, domains, prepared, simps, trivial_unsat, question,
                       restarts, noc, answers, then, history>>

Learn ==
    LET c == Minimal
        btl == MaxLevel(c \ Top)
    IN  /\ pc = "analyze" /\ Cardinality(Top) = 1
        /\ Back(btl, Assigned(Upto(trail, btl), Last,
                              IF Cardinality(c) = 1 THEN {} ELSE c, btl))
        /\ learnt' = IF Cardinality(c) > 1 /\ -Act \notin c THEN learnt \cup {c} ELSE learnt
        /\ temporary' = IF Cardinality(c) > 1 /\ -Act \in c THEN temporary \cup {c} ELSE temporary
        /\ conf' = {}
        /\ pc' = "propagate"
        /\ UNCHANGED <<trans, lemmas, walk, domains, prepared, simps, trivial_unsat, question,
                       restarts, noc, answers, then, history>>

-----------------------------------------------------------------------------
(* search and search_with_restart *)
Restart ==
    /\ pc = "search" /\ Enough /\ restarts < MaxRestarts
    /\ IF high > Len(As) THEN Back(Len(As), Upto(trail, Len(As))) ELSE UNCHANGED <<assigns, queue>>
    /\ restarts' = restarts + 1 /\ noc' = 0
    /\ IF restarts' = question.limit
       THEN pc' = "idle" /\ ans' = "unknown"
       ELSE pc' = "propagate" /\ UNCHANGED ans
    /\ UNCHANGED <<db, temporary, walk, domains, prepared, simps, trivial_unsat, question,
                   conf, unsat_core, model, then, history>>

CleanLearnt ==
    /\ pc = "search" /\ ~(Enough /\ restarts < MaxRestarts)
    /\ learnt' \in Cleaned(FALSE, trail)
    /\ pc' = "branch"
    /\ UNCHANGED <<trans, lemmas, temporary, assigns, walk, domains, queue, prepared, simps,
                   trivial_unsat, question, search, answers, then, history>>

\* A level for the next assumption; prepare_vsids when it is the last one.
NextAssumption == As[high + 1]

OpenLevel ==
    /\ high' = high + 1
    /\ IF high' = Len(As) /\ ~prepared /\ ~temporary_domain
       THEN /\ prepared' = TRUE
            /\ queue' = queue \cup {v \in domain : v \notin VarsOf(LitsOf(trail'))}
       ELSE UNCHANGED <<prepared, queue>>

AssumeTrue ==
    /\ pc = "branch" /\ high < Len(As) /\ True(NextAssumption)
    /\ UNCHANGED trail /\ OpenLevel
    /\ UNCHANGED <<db, temporary, propagated, visited, walk, domains, simps, trivial_unsat,
                   question, search, answers, pc, then, history>>

Assume ==
    /\ pc = "branch" /\ high < Len(As) /\ Unassigned(VarOf(NextAssumption))
    /\ trail' = Assigned(trail, NextAssumption, {}, high + 1) /\ OpenLevel
    /\ pc' = "propagate"
    /\ UNCHANGED <<db, temporary, propagated, visited, walk, domains, simps, trivial_unsat,
                   question, search, answers, then, history>>

\* analyze_unsat_core: the decisions that the false assumption follows from.
Core(a) ==
    LET seen[i \in DOMAIN trail] ==
            /\ trail[i].level > 0
            /\ \/ trail[i].lit = -a
               \/ \E j \in (i + 1)..Len(trail) : seen[j] /\ -trail[i].lit \in trail[j].reason
    IN  {a} \cup {trail[i].lit : i \in {j \in DOMAIN trail : seen[j] /\ trail[j].reason = {}}}

AssumeFalse ==
    /\ pc = "branch" /\ high < Len(As) /\ False(NextAssumption)
    /\ Refute(Core(NextAssumption))
    /\ UNCHANGED <<db, temporary, assigns, walk, domains, queue, prepared, simps,
                   trivial_unsat, question, search, then, history>>

Undecided == {v \in queue : Unassigned(v)}

Decide ==
    /\ pc = "branch" /\ high >= Len(As)
    /\ \E v \in Undecided : \E l \in {v, -v} :
        /\ trail' = Assigned(trail, l, {}, high + 1)
        /\ queue' = Undecided \ {v}
    /\ high' = high + 1
    /\ pc' = "propagate"
    /\ UNCHANGED <<db, temporary, propagated, visited, walk, domains, prepared, simps,
                   trivial_unsat, question, search, answers, then, history>>

AnswerSat ==
    /\ pc = "branch" /\ high >= Len(As) /\ Undecided = {}
    /\ queue' = {}
    /\ model' = LitsOf(trail) /\ ans' = "sat" /\ pc' = "idle"
    /\ UNCHANGED <<db, temporary, assigns, walk, domains, prepared, simps, trivial_unsat,
                   question, search, unsat_core, then, history>>

-----------------------------------------------------------------------------
Propagate == PropUnit \/ PropWalk \/ Propagated \/ Conflict
Branch == AssumeTrue \/ Assume \/ AssumeFalse \/ Decide \/ AnswerSat
Working ==
    \/ TrivialUnsat \/ NewRound \/ Simplify \/ CleanEq \/ EqCleaned
    \/ Propagate \/ Resolve \/ Learn \/ Restart \/ CleanLearnt \/ Branch

Next ==
    \/ \E c \in Lemmas : AddClause(c)
    \/ \E d \in Domains : SetDomain(d)
    \/ UnsetDomain
    \/ \E e \in Candidates : AddEq(e[1], e[2])
    \/ \E v \in LeafVar : Flip(v)
    \/ \E q \in Questions[user] : Solve(q)
    \/ Working

Spec == Init /\ [][Next]_vars
FairSpec == Spec /\ WF_vars(Working)

-----------------------------------------------------------------------------
(* Properties. *)

\* Nothing that outlives a question depends on it: the clauses that stay, the level-0 literals
\* and the clause being learnt follow from what the callers added, those with constrain_act
\* from the question's guarded constraints as well (add_clause_inner, search, clean_temporary).
Guarded == {c \cup {-Act} : c \in question.constraint}
RoundPrepared == ~(ans = "asked" /\ "start" \in {pc, then})
ClausesFollow ==
    /\ \A c \in trans \cup lemmas \cup learnt : -Act \notin c /\ Entails(formula, c)
    /\ RoundPrepared => \A c \in temporary \cup (IF pc = "analyze" THEN {conf} ELSE {}) :
           Entails(formula \cup Guarded, c)
    /\ \A i \in DOMAIN trail :
           trail[i].level = 0 /\ trail[i].lit # -Act => Entails(formula, {trail[i].lit})

\* Simplification and the reduction of learnt clauses lose nothing unless a literal was
\* overlooked: up to the equivalences that were proved, the database and the level-0 literals
\* say all that was added.
DatabaseComplete ==
    LET ground == LitsUpto(0) \ {-Act} IN
    pc = "idle" /\ ~trivial_unsat /\ ~overlooked =>
        \A m \in Assignments :
            /\ \A c \in trans \cup lemmas : Holds(c, m)
            /\ ground \subseteq m
            /\ \A v \in Var : (v \in m) = (RepOf(v) \in m)
            => \A c \in Circuit \cup formula : Holds(c, m)

\* simplify_satisfied_clauses relies on every unit having been propagated at level 0: unless a
\* literal was overlooked, a clause that is not satisfied has two unassigned literals.
UnitsPropagated ==
    pc = "simplify" /\ ~overlooked =>
        \A c \in trans \cup lemmas \cup learnt : Live(c) => Watchable(c)

\* The debug_assert! of simplify_satisfied_clauses: a clause with a false literal among the two
\* that are watched is satisfied.
FalseWatchSatisfied ==
    pc = "simplify" /\ since > SimplifyPeriod /\ last_num_assign < Len(trail) =>
        \A c \in trans \cup lemmas \cup learnt : Live(c) => Watchable(c)

\* The solver keeps what its users rely on, except that satisfiable answers may be wrong once a
\* literal has been overlooked, or while the trail holds one that was skipped: a question's first
\* assumption may be, as clean_temporary shortens the trail and leaves `propagated` as it is.
Contract == INSTANCE SatContract WITH
    exact <- user = "ic3", core <- unsat_core \ {Act},
    Questions <- UNION {Questions[u] : u \in Users}, AddedClauses <- Lemmas
ContractKept ==
    /\ Contract!Init
    /\ [][Contract!Next \/ ((overlooked \/ Skipped) /\ ans' = "sat")]_(Contract!vars)

\* Every question is answered: each conflict, each restart and each decision brings the search
\* closer to its end, and analyze always finds the one literal it resolves towards (search).
AnswersEnd == []<>(ans # "asked")
=============================================================================
