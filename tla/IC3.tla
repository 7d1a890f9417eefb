-------------------------------- MODULE IC3 --------------------------------
(***************************************************************************)
(* The IC3/PDR engine of src/src/ic3: frames of lemmas, a queue of proof    *)
(* obligations, generalization with counterexamples to generalization      *)
(* (CTG), propagation with counterexamples to propagation (CTP), and the    *)
(* infinity frame.                                                          *)
(*                                                                         *)
(* A cube of literals is the set of states that satisfy it, a lemma is the  *)
(* cube it excludes, and `a.subsume(b)` on literal vectors is b \subseteq a. *)
(* A SAT query on solver k is a question about Frame(k), the states that    *)
(* no clause of solver k excludes; which model, which core and which        *)
(* lifting the solver returns is left open.                                 *)
(***************************************************************************)
EXTENDS Naturals, Sequences, FiniteSets

CONSTANTS
    State,        \* valuations of the latches
    Trans,        \* the successors of a state, inputs and constraints projected away
    Bad,          \* states in which some input makes the bad output true
    Cube,         \* the cubes of latch literals
    InitCubes,    \* the negations of the init literals
    MaxLevel,     \* bound on the level explored
    CtgMax,       \* bound on the CTG lemmas of one generalization, 0 without --ctg
    CtpMax,       \* rounds of counterexamples to propagation, 0 without --ctp
    DropPo        \* --drop-po

ASSUME StateAssumption == Trans \in [State -> SUBSET State] /\ Bad \subseteq State
ASSUME FiniteAssumption == IsFiniteSet(State)
ASSUME CubeAssumption ==
    /\ Cube \subseteq (SUBSET State) \ {{}}
    /\ InitCubes \subseteq Cube
ASSUME BoundAssumption == MaxLevel \in Nat /\ CtgMax \in Nat /\ CtpMax \in Nat
ASSUME FlagAssumption == DropPo \in BOOLEAN

VARIABLES
    pc,       \* where the engine is
    level,    \* IC3::level
    frames,   \* Frames::frames: delta frames, the lemmas whose highest frame is k
    slv,      \* IC3::solvers: the cubes whose clauses solver k holds
    inf,      \* Frames::inf, and the clauses of IC3::inf_solver
    early,    \* Frames::early
    obl,      \* IC3::obligations
    clash,    \* the assert! on a duplicate in ProofObligationQueue::add has failed
    cur,      \* the obligation popped by IC3::block
    gen,      \* the cube that blocks it, while IC3::mic generalizes and push_lemma pushes it
    ctg,      \* the counterexample to generalization being pushed
    idx,      \* the frame the pushed lemma has reached; in propagate, the frame propagated
    todo,     \* the clone of a frame that propagate and propagate_to_inf iterate over
    tries,    \* CTG lemmas spent in this mic, CTP rounds spent on the lemma at hand
    res       \* the McResult of IC3::check

vars == <<pc, level, frames, slv, inf, early, obl, clash, cur, gen, ctg, idx, todo, tries, res>>

lemmaVars == <<frames, slv, early>>
micVars == <<cur, gen, ctg, idx>>
propVars == <<todo, tries>>

Levels == 0..MaxLevel

-----------------------------------------------------------------------------
(* States, cubes and solver queries *)

Excluded(S) == UNION S
InitStates == State \ Excluded(InitCubes)
Frame(k) == State \ Excluded(slv[k])
InfFrame == State \ Excluded(inf)

\* cube_subsume_init: the cube shares a state with the initial states.
MeetsInit(c) == c \cap InitStates # {}

\* The query of inductive_with_constrain is unsatisfiable: no step from S enters c.
Blocked(S, c) == \A s \in S : Trans[s] \cap c = {}

\* inductive_core: any cube got from c by dropping literals that the refutation
\* from S did not need, kept disjoint from the initial states.
\* Slip: a core that may meet the initial states.
IsCoreUnrepaired(g, S, c) == c \subseteq g /\ Blocked(S, g)
IsCore(g, S, c) == c \subseteq g /\ ~MeetsInit(g) /\ Blocked(S, g)
Core(S, c) == {g \in Cube : IsCore(g, S, c)}

\* get_pred and TsLift::lift: a cube of states, one of them in S, that all step into c.
Pre(c) == {s \in State : Trans[s] \cap c # {}}
\* Slip: a cube of which only the model is known to step into c.
PredUnlifted(S, c) == {p \in Cube : p \cap S \cap Pre(c) # {}}
Pred(S, c) == {p \in Cube : p \cap S # {} /\ p \subseteq Pre(c)}

-----------------------------------------------------------------------------
(* Proof obligations *)

\* `chain` is the obligation's state followed by the states of its `next` links.
NoPo == [frame |-> 0, chain |-> <<>>]
Po(f, chain) == [frame |-> f, chain |-> chain]
PoState(o) == Head(o.chain)
Depth(o) == Len(o.chain) - 1
\* Slip: one frame too far.
PushToPast(o, f) == [o EXCEPT !.frame = IF f > @ THEN f + 1 ELSE @]
PushTo(o, f) == [o EXCEPT !.frame = IF f > @ THEN f ELSE @]

\* Ord of ProofObligationInner, read from the end of the BTreeSet: the lowest frame,
\* then the deepest, then the shortest cube.
Before(o, p) ==
    \/ o.frame < p.frame
    \/ /\ o.frame = p.frame
       /\ \/ Depth(o) > Depth(p)
          \/ Depth(o) = Depth(p) /\ Cardinality(PoState(o)) > Cardinality(PoState(p))

Peak(q) == {o \in q : \A p \in q : ~Before(p, o)}
Poppable == {o \in Peak(obl) : o.frame <= level}

SameKey(o, p) == o.frame = p.frame /\ Depth(o) = Depth(p) /\ PoState(o) = PoState(p)

\* ProofObligationQueue::add to the queue q, with its assert!.
AddObligation(q, o) ==
    /\ obl' = q \cup {o}
    /\ clash' = (clash \/ \E p \in q : SameKey(o, p))

\* The obligations in the queue that a lemma's `po` field can point to.
PoOf(l) == {o \in obl : PoState(o) \subseteq l}

-----------------------------------------------------------------------------
(* Frames *)

LemmasFrom(f) == UNION {frames[k] : k \in f..level}

\* Frames::trivial_contained(Some(f), c)
TrivialContained(f, c) == \E l \in LemmasFrom(f) \cup inf : c \subseteq l

\* The lowest frame from f on with a lemma that subsumes c.
ContainedAt(f, c) ==
    {k \in f..level : /\ \E l \in frames[k] : c \subseteq l
                      /\ \A j \in f..k-1 : \A l \in frames[j] : ~(c \subseteq l)}

\* add_lemma's downward loop stops at the highest frame with a lemma that subsumes c.
Stop(f, c) ==
    {k \in 1..f : /\ \E l \in frames[k] : c \subseteq l
                  /\ \A j \in k+1..f : \A l \in frames[j] : ~(c \subseteq l)}
StopOr0(f, c) == IF Stop(f, c) = {} THEN 0 ELSE CHOOSE k \in Stop(f, c) : TRUE

\* The two ways the loop ends at frame k: on c itself, which is moved up, or on a
\* lemma that strictly subsumes c.
Moved(k, c) == k > 0 /\ c \in frames[k]
Shadowed(k, c) == k > 0 /\ \E l \in frames[k] : c \subseteq l /\ l # c

\* The frames after the loop: above k every lemma that c subsumes is gone, in frame k
\* those in `gone`, and c is in frame f.
\* Slip: the loop starts below the frame of the lemma.
SplicedBelow(f, c, k, gone) ==
    [i \in Levels |->
        (frames[i] \ (IF i \in k + 1..f - 1 THEN {l \in frames[i] : l \subseteq c}
                      ELSE IF i = k THEN gone ELSE {}))
        \cup (IF i = f THEN {c} ELSE {})]
Spliced(f, c, k, gone) ==
    [i \in Levels |->
        (frames[i] \ (IF i \in k + 1..f THEN {l \in frames[i] : l \subseteq c}
                      ELSE IF i = k THEN gone ELSE {}))
        \cup (IF i = f THEN {c} ELSE {})]

\* What add_lemma(f, c, false, _) may leave behind, with the flag it returns. In frame k
\* the loop has met some of the lemmas that c strictly subsumes before it stopped.
Added(f, c) ==
    LET k == StopOr0(f, c)
        Subsumed == IF k = 0 THEN {} ELSE {l \in frames[k] : l \subseteq c /\ l # c}
        Moves == {[frames |-> Spliced(f, c, k, gone \cup {c}),
                   found |-> Spliced(f, c, k, gone \cup {c})[k] = {}] : gone \in SUBSET Subsumed}
        Stays == {[frames |-> Spliced(f, c, k, gone),
                   found |-> \E i \in k + 1..f - 1 : Spliced(f, c, k, gone)[i] = {}] :
                       gone \in SUBSET Subsumed}
    IN  (IF Moved(k, c) THEN Moves ELSE {}) \cup (IF k = 0 \/ Shadowed(k, c) THEN Stays ELSE {})

\* The part of add_lemma that has one outcome: the solvers above the stop get the clause.
\* Slip: the clause starts one frame above the stop's successor.
AddClauseLate(f, c) ==
    LET begin == StopOr0(f, c) + 2
    IN  /\ slv' = [i \in Levels |-> IF i \in begin..f THEN slv[i] \cup {c} ELSE slv[i]]
        /\ early' = IF begin < early THEN begin ELSE early
AddClause(f, c) ==
    LET begin == StopOr0(f, c) + 1
    IN  /\ slv' = [i \in Levels |-> IF i \in begin..f THEN slv[i] \cup {c} ELSE slv[i]]
        /\ early' = IF begin < early THEN begin ELSE early

-----------------------------------------------------------------------------
NoRes == [kind |-> "none", depth |-> 0]
Unsat == [kind |-> "UNSAT", depth |-> 0]

Finish(r) ==
    /\ res' = r
    /\ pc' = "done"

\* IC3::new and the first extend() of check().
Init ==
    /\ pc = "block"
    /\ level = 0
    /\ frames = [k \in Levels |-> IF k = 0 THEN InitCubes ELSE {}]
    /\ slv = [k \in Levels |-> IF k = 0 THEN InitCubes ELSE {}]
    /\ inf = {}
    /\ early = 1
    /\ obl = {}
    /\ clash = FALSE
    /\ cur = NoPo
    /\ gen = {}
    /\ ctg = {}
    /\ idx = 0
    /\ todo = {}
    /\ tries = 0
    /\ res = NoRes

-----------------------------------------------------------------------------
(* IC3::block: pop an obligation, then one of the outcomes below *)

Popped(o) ==
    /\ pc = "block"
    /\ o \in Poppable
    /\ ~(MeetsInit(PoState(o)) /\ o.frame = 0)

BlockInterrupted ==
    /\ pc = "block"
    /\ \E o \in Poppable : obl' = obl \ {o}
    /\ Finish([kind |-> "Unknown", depth |-> level])
    /\ UNCHANGED <<level, inf, clash, lemmaVars, micVars, propVars>>

BlockFailure ==
    /\ pc = "block"
    /\ \E o \in Poppable :
        /\ MeetsInit(PoState(o)) /\ o.frame = 0
        /\ AddObligation(obl \ {o}, o)
        /\ Finish([kind |-> "SAT", depth |-> Depth(o)])
    /\ UNCHANGED <<level, inf, lemmaVars, micVars, propVars>>

\* Slip: pushed past a frame in which nothing contains it.
BlockContainedSkip(o) ==
    /\ Popped(o)
    /\ \E bf \in ContainedAt(o.frame, PoState(o)) :
        AddObligation(obl \ {o}, PushTo(o, bf + 2))
    /\ UNCHANGED <<pc, level, inf, lemmaVars, micVars, propVars, res>>

\* Slip: put back into the frame that contains it.
BlockContainedStay(o) ==
    /\ Popped(o)
    /\ \E bf \in ContainedAt(o.frame, PoState(o)) :
        AddObligation(obl \ {o}, PushTo(o, bf))
    /\ UNCHANGED <<pc, level, inf, lemmaVars, micVars, propVars, res>>

BlockContained(o) ==
    /\ Popped(o)
    /\ \E bf \in ContainedAt(o.frame, PoState(o)) :
        AddObligation(obl \ {o}, PushTo(o, bf + 1))
    /\ UNCHANGED <<pc, level, inf, lemmaVars, micVars, propVars, res>>

BlockContainedInf(o) ==
    /\ Popped(o)
    /\ ContainedAt(o.frame, PoState(o)) = {}
    /\ \E l \in inf : PoState(o) \subseteq l
    /\ obl' = obl \ {o}
    /\ UNCHANGED <<pc, level, inf, clash, lemmaVars, micVars, propVars, res>>

\* An obligation whose activity has passed the limit is dropped; activity is left open.
BlockDrop(o) ==
    /\ Popped(o)
    /\ ~TrivialContained(o.frame, PoState(o))
    /\ DropPo
    /\ obl' = obl \ {o}
    /\ UNCHANGED <<pc, level, inf, clash, lemmaVars, micVars, propVars, res>>

BlockPred(o) ==
    /\ Popped(o)
    /\ ~TrivialContained(o.frame, PoState(o))
    /\ \E p \in Pred(Frame(o.frame - 1), PoState(o)) :
        LET new == Po(o.frame - 1, <<p>> \o o.chain)
        IN  /\ obl' = obl \cup {new}
            /\ clash' = (clash \/ \E q \in obl : SameKey(q, new))
    /\ UNCHANGED <<pc, level, inf, lemmaVars, micVars, propVars, res>>

\* generalize, up to its call of mic. Its fallback for an obligation without a core
\* needs a state that meets the initial states in a frame above 0, which
\* ObligationsBlockedBelow excludes.
BlockGeneralize(o) ==
    /\ Popped(o)
    /\ ~TrivialContained(o.frame, PoState(o))
    /\ gen' \in Core(Frame(o.frame - 1), PoState(o))
    /\ cur' = o
    /\ obl' = obl \ {o}
    /\ pc' = "mic"
    /\ UNCHANGED <<level, inf, clash, lemmaVars, ctg, idx, propVars, res>>

-----------------------------------------------------------------------------
(* IC3::mic and push_lemma *)

\* down and ctg_down: a larger cube that is inductive relative to the previous frame.
MicDrop ==
    /\ pc = "mic"
    /\ gen' \in {g \in Cube : g # gen /\ IsCore(g, Frame(cur.frame - 1) \ g, gen)}
    /\ UNCHANGED <<pc, level, inf, obl, clash, lemmaVars, cur, ctg, idx, propVars, res>>

\* trivial_block_rec: a cube met in a frame below is blocked there by a lemma that is
\* inductive relative to the frame before it, to itself and to the clause of `gen`.
CtgBlock ==
    /\ pc = "mic"
    /\ tries < CtgMax
    /\ \E f \in 1..cur.frame - 1, g \in Cube :
        /\ g \cap Frame(f) # {}
        /\ ~MeetsInit(g)
        /\ Blocked(Frame(f - 1) \ (gen \cup g), g)
        /\ ctg' = g
        /\ idx' = f
    /\ pc' = "ctg"
    /\ tries' = tries + 1
    /\ UNCHANGED <<level, inf, obl, clash, lemmaVars, cur, gen, todo, res>>

\* One round of push_lemma's loop for the lemma c that has reached frame idx: the states
\* that the query on solver idx, with the clause of c, leaves.
\* Slip: the solver of the frame below, in which c is already known to hold.
PushFromBelow(c) == Frame(idx - 1) \ c
PushFrom(c) == Frame(idx) \ c
Pushable(c) == idx < level /\ Blocked(PushFrom(c), c)

CtgPush ==
    /\ pc = "ctg"
    /\ Pushable(ctg)
    /\ ctg' \in Core(PushFrom(ctg), ctg)
    /\ idx' = idx + 1
    /\ UNCHANGED <<pc, level, inf, obl, clash, lemmaVars, cur, gen, propVars, res>>

\* The flag that add_lemma returns is ignored.
CtgAdd ==
    /\ pc = "ctg"
    /\ ~Pushable(ctg)
    /\ \E r \in Added(idx, ctg) : frames' = r.frames
    /\ AddClause(idx, ctg)
    /\ ctg' = {}
    /\ idx' = 0
    /\ pc' = "mic"
    /\ UNCHANGED <<level, inf, obl, clash, cur, gen, propVars, res>>

MicDone ==
    /\ pc = "mic"
    /\ idx' = cur.frame
    /\ pc' = "push"
    /\ tries' = 0
    /\ UNCHANGED <<level, inf, obl, clash, lemmaVars, cur, gen, ctg, todo, res>>

PushLemma ==
    /\ pc = "push"
    /\ Pushable(gen)
    /\ gen' \in Core(PushFrom(gen), gen)
    /\ idx' = idx + 1
    /\ UNCHANGED <<pc, level, inf, obl, clash, lemmaVars, cur, ctg, propVars, res>>

\* The end of generalize: the obligation goes back above the frame its lemma reached.
BlockedLemma ==
    /\ pc = "push"
    /\ ~Pushable(gen)
    /\ AddObligation(obl, PushTo(cur, idx + 1))
    /\ AddClause(idx, gen)
    /\ \E r \in Added(idx, gen) :
        /\ frames' = r.frames
        /\ IF r.found THEN Finish(Unsat) ELSE pc' = "block" /\ UNCHANGED res
    /\ cur' = NoPo
    /\ gen' = {}
    /\ idx' = 0
    /\ UNCHANGED <<level, inf, ctg, propVars>>

-----------------------------------------------------------------------------
(* The loop of IC3::check *)

GetBad ==
    /\ pc = "block"
    /\ Poppable = {}
    /\ \E b \in Cube :
        /\ b \subseteq Bad
        /\ b \cap Frame(level) # {}
        /\ AddObligation(obl, Po(level, <<b>>))
    /\ UNCHANGED <<pc, level, inf, lemmaVars, micVars, propVars, res>>

\* The heads of propagate's loop over frames and of propagate_to_inf.
EnterFrame(i, lv) ==
    IF i < lv
    THEN /\ pc' = "prop"
         /\ idx' = i
         /\ todo' = frames[i]
         /\ UNCHANGED early
    ELSE /\ pc' = "inf"
         /\ idx' = 0
         /\ todo' = frames[lv]
         /\ early' = lv

\* extend(), with no bad state left in the last frame.
Extend ==
    /\ pc = "block"
    /\ Poppable = {}
    /\ Frame(level) \cap Bad = {}
    /\ level < MaxLevel
    /\ level' = level + 1
    /\ slv' = [slv EXCEPT ![level + 1] = inf]
    /\ EnterFrame(early, level + 1)
    /\ UNCHANGED <<frames, inf, obl, clash, cur, gen, ctg, tries, res>>

-----------------------------------------------------------------------------
(* IC3::propagate *)

Shortest(S) == {l \in S : \A m \in S : Cardinality(m) <= Cardinality(l)}

\* The lemma at hand: with a CTP round behind it, it is the one that round was for.
InHand(l) ==
    /\ pc = "prop"
    /\ IF tries = 0 THEN l \in Shortest(todo) /\ l \in frames[idx] ELSE l = gen

NextLemma(l) ==
    /\ todo' = todo \ {l}
    /\ tries' = 0
    /\ gen' = {}

PropSkip ==
    /\ pc = "prop"
    /\ tries = 0
    /\ \E l \in Shortest(todo) : l \notin frames[idx] /\ NextLemma(l)
    /\ UNCHANGED <<pc, level, inf, obl, clash, lemmaVars, cur, ctg, idx, res>>

\* The lemma's own obligation, if it is still queued below idx + 2, moves along.
MovePo(l) ==
    \/ UNCHANGED <<obl, clash>>
    \/ \E o \in PoOf(l) : /\ o.frame < idx + 2
                          /\ AddObligation(obl \ {o}, PushTo(o, idx + 2))

\* add_lemma(idx + 1, c, true, _), its flag ignored.
AddUncontained(c) ==
    IF TrivialContained(idx + 1, c)
    THEN UNCHANGED lemmaVars
    ELSE /\ \E r \in Added(idx + 1, c) : frames' = r.frames
         /\ AddClause(idx + 1, c)

\* Slip: the query on the solver of the frame below.
PropPushBelow(l) ==
    /\ InHand(l)
    /\ \E c \in Core(Frame(idx - 1), l) : AddUncontained(c)
    /\ MovePo(l)
    /\ NextLemma(l)
    /\ UNCHANGED <<pc, level, inf, cur, ctg, idx, res>>

PropPush(l) ==
    /\ InHand(l)
    /\ \E c \in Core(Frame(idx), l) : AddUncontained(c)
    /\ MovePo(l)
    /\ NextLemma(l)
    /\ UNCHANGED <<pc, level, inf, cur, ctg, idx, res>>

\* A counterexample to propagation that can itself be blocked in frame idx.
PropCtp(l) ==
    /\ InHand(l)
    /\ tries < CtpMax
    /\ \E p \in Pred(Frame(idx), l) :
        /\ ~MeetsInit(p)
        /\ Blocked(Frame(idx - 1) \ p, p)
        /\ \E g \in {c \in Cube : IsCore(c, Frame(idx - 1) \ c, p)} :
            /\ AddClause(idx, g)
            /\ \E r \in Added(idx, g) :
                /\ frames' = r.frames
                /\ IF r.found THEN Finish(Unsat) ELSE UNCHANGED <<pc, res>>
    /\ IF tries + 1 = CtpMax
       THEN NextLemma(l)
       ELSE gen' = l /\ tries' = tries + 1 /\ UNCHANGED todo
    /\ UNCHANGED <<level, inf, obl, clash, cur, ctg, idx>>

PropKeep(l) ==
    /\ InHand(l)
    /\ \E p \in Pred(Frame(idx), l) :
        CtpMax = 0 \/ MeetsInit(p) \/ ~Blocked(Frame(idx - 1) \ p, p)
    /\ NextLemma(l)
    /\ UNCHANGED <<pc, level, inf, obl, clash, lemmaVars, cur, ctg, idx, res>>

PropNext ==
    /\ pc = "prop"
    /\ todo = {}
    /\ IF frames[idx] = {}
       THEN Finish(Unsat) /\ UNCHANGED <<idx, todo, early>>
       ELSE EnterFrame(idx + 1, level) /\ UNCHANGED res
    /\ UNCHANGED <<level, inf, obl, clash, frames, slv, cur, gen, ctg, tries>>

-----------------------------------------------------------------------------
(* IC3::propagate_to_inf *)

\* The lemma is inductive by itself: add_inf_lemma moves it out of the last frame, and
\* its own obligation leaves the queue.
InfMove ==
    /\ pc = "inf"
    /\ \E l \in todo :
        /\ Blocked(InfFrame \ l, l)
        /\ \E gone \in {{}} \cup {{o} : o \in PoOf(l)} : obl' = obl \ gone
        /\ inf' = inf \cup {l}
        /\ frames' = [frames EXCEPT ![level] = @ \ {l}]
        /\ todo' = todo \ {l}
    /\ UNCHANGED <<pc, level, slv, early, clash, micVars, tries, res>>

InfKeep ==
    /\ pc = "inf"
    /\ \E l \in todo :
        /\ ~Blocked(InfFrame \ l, l)
        /\ todo' = todo \ {l}
    /\ UNCHANGED <<pc, level, inf, obl, clash, lemmaVars, micVars, tries, res>>

InfDone ==
    /\ pc = "inf"
    /\ todo = {}
    /\ pc' = "block"
    /\ UNCHANGED <<level, inf, obl, clash, lemmaVars, micVars, propVars, res>>

-----------------------------------------------------------------------------
BlockStep ==
    \/ BlockFailure
    \/ \E o \in Poppable :
        \/ BlockContained(o) \/ BlockContainedInf(o) \/ BlockDrop(o)
        \/ BlockPred(o) \/ BlockGeneralize(o)

MicStep ==
    MicDrop \/ CtgBlock \/ CtgPush \/ CtgAdd \/ MicDone \/ PushLemma \/ BlockedLemma

PropagateStep ==
    \/ PropSkip
    \/ \E l \in todo : PropPush(l) \/ PropCtp(l) \/ PropKeep(l)
    \/ PropNext \/ InfMove \/ InfKeep \/ InfDone

Work == BlockStep \/ MicStep \/ GetBad \/ Extend \/ PropagateStep

\* check() has returned.
Returned == pc = "done" /\ UNCHANGED vars

Next == Work \/ BlockInterrupted \/ Returned

Spec == Init /\ [][Next]_vars

\* check() is one thread that keeps running until it returns.
FairSpec == Spec /\ WF_vars(Work)

-----------------------------------------------------------------------------
(* What the engine promises *)

\* The type of the engine's state.
TypeOK ==
    /\ pc \in {"block", "mic", "ctg", "push", "prop", "inf", "done"}
    /\ level \in Levels /\ idx \in Levels
    /\ frames \in [Levels -> SUBSET Cube]
    /\ slv \in [Levels -> SUBSET Cube]
    /\ inf \subseteq Cube /\ todo \subseteq Cube
    /\ early \in 1..MaxLevel + 1
    /\ obl \subseteq [frame : 0..MaxLevel + 1, chain : Seq(Cube)]
    /\ cur \in [frame : 0..MaxLevel + 1, chain : Seq(Cube)]
    /\ clash \in BOOLEAN
    /\ gen \in Cube \cup {{}} /\ ctg \in Cube \cup {{}}
    /\ tries \in Nat
    /\ \A o \in obl : o.frame <= level + 1
    /\ res \in [kind : {"none", "UNSAT", "SAT", "Unknown"}, depth : Nat]

\* States reachable in exactly n steps.
ReachIn[n \in Levels] ==
    IF n = 0 THEN InitStates ELSE LET before == ReachIn[n - 1]
                                  IN  UNION {Trans[s] : s \in before}

\* inner_invariant: the lemmas of the first empty frame and above, and of inf.
FirstEmpty(k) == k \in 0..level /\ frames[k] = {} /\ \A j \in 0..k-1 : frames[j] # {}
Certificate(k) == State \ Excluded(LemmasFrom(k) \cup inf)

\* UNSAT is returned with an empty frame (the unwrap of inner_invariant), and the certificate
\* that proof() writes from the first empty one holds initially, is closed under the
\* transitions and excludes every bad state, on every path that returns UNSAT: an empty
\* frame found by generalize, by a CTP lemma or by propagate.
UnsatCertified ==
    res.kind = "UNSAT" =>
        /\ \E k \in 0..level : frames[k] = {}
        /\ \A k \in 0..level :
            FirstEmpty(k) =>
                /\ InitStates \subseteq Certificate(k)
                /\ Blocked(Certificate(k), State \ Certificate(k))
                /\ Certificate(k) \cap Bad = {}

\* cex() walks the `next` links of the obligation at the end of the queue: it is in frame
\* 0, it meets the initial states, each of its cubes steps into the next one whatever the
\* state, and the last cube is bad; its depth is the one reported.
CexReal ==
    res.kind = "SAT" =>
        /\ Peak(obl) # {}
        /\ \A o \in Peak(obl) :
            /\ o.frame = 0
            /\ Depth(o) = res.depth
            /\ MeetsInit(PoState(o))
            /\ \A i \in 1..Len(o.chain) - 1 : o.chain[i] \subseteq Pre(o.chain[i + 1])
            /\ o.chain[Len(o.chain)] \subseteq Bad

\* When the blocking phase of a level ends, the trace reports the level as free of bad
\* states: none is reachable in fewer steps than the current level.
TracedBoundSafe == \A k \in 0..level - 1 : ReachIn[k] \cap Bad = {}

\* The delta frames, which trivial_contained, parent_lemma and the emptiness test read, and
\* the clauses of the solvers, which the queries read, describe the same frames, although
\* lemmas are moved and removed in one and only added in the other.
FramesAgree ==
    \A k \in 1..level : Excluded(slv[k]) = Excluded(LemmasFrom(k) \cup inf)

\* Frame k over-approximates the states reachable in at most k steps, at every moment of
\* a generalization too, when CTG lemmas hold relative to a clause not added yet.
FramesCover == \A k \in 0..level : \A n \in 0..k : ReachIn[n] \subseteq Frame(k)

\* An obligation of frame f is blocked in frame f - 1, whatever moved it there, so no
\* obligation above frame 0 meets the initial states (debug_assert of IC3::block).
ObligationsBlockedBelow ==
    \A o \in obl \cup {cur} :
        o.frame > 0 =>
            /\ PoState(o) \cap Frame(o.frame - 1) = {}
            /\ ~MeetsInit(PoState(o))

\* No two queued obligations compare equal: the assert! of ProofObligationQueue::add never
\* fails, wherever obligations with the same state are created, moved or put back.
ObligationsDistinct ==
    /\ ~clash
    /\ \A o, p \in obl : PoState(o) = PoState(p) => o = p

\* The assertions of add_inf_lemma: a lemma that moves to inf is in the last frame, and
\* no lemma of inf subsumes it.
InfLemmasNew ==
    pc = "inf" => \A l \in todo : l \in frames[level] /\ \A m \in inf : ~(l \subseteq m)

\* check() returns, unless --drop-po drops obligations.
CheckReturns == <>(pc = "done")
=============================================================================
