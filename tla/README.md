# rIC3: a verification project

rIC3 is a hardware model checker in Rust. It reads an AIGER or BTOR2 circuit
with safety (or liveness) properties and answers for each of them UNSAT (the
property holds, with an inductive invariant), SAT (it fails, with a witness)
or Unknown. This directory models its core logic in TLA+, checks the models
with TLC on small instances, and proves with TLAPS, for all values of the
constants, the safety of the IC3 engine, of BMC and k-induction, of the
portfolio, of the multi-property run, of the files that the commands keep, and
that the SAT solver learns and refutes only what follows.
Paths below are relative to the repository.

Everything here is read off the source. Where source and documentation
disagree the model follows the source, and the disagreement is listed under
[Disagreements](#disagreements-with-the-documentation).

## Inventory

### Engines

| Part | State it keeps | Operations | Correct when |
|---|---|---|---|
| IC3 (`src/ic3`) | the level; delta frames (`Frames`) and their mirror in one solver per level; the infinity frame; the queue of proof obligations; `early` | `check`, `extend`, `get_bad`, `block`, `generalize`, `mic` with CTGs, `push_lemma`, `add_lemma`, `propagate` with CTPs, `propagate_to_inf`, `proof`, `cex` | the two representations of a frame agree; UNSAT has an inductive certificate; SAT has a real path; the traced bound is safe; `check` returns |
| IC3 options: predicate property, localization, mab | an auxiliary system and solver, an abstraction of constraints and latches | `prep_prop_base`, `check_witness_by_bmc`, local refinement | a result of the abstract problem is one of the original |
| GipSAT (`src/gipsat`) | clauses by kind (transition, lemma, learnt, temporary), watches, trail with reasons, domain, `propagated` | `add_clause`, `solve` under assumptions with temporary constraints, `unsat_has`, `simplify`, `clean_learnt` | answers, cores and models are right over a domain that is only part of the system; what was learnt under a temporary constraint does not outlive it |
| BMC, k-induction (`src/bmc.rs`, `src/kind.rs`, `src/wlbmc.rs`, `src/wlkind.rs`) | the unrolled bound, a solver | the loops over steps and bounds | the bound returned was checked at every depth; k-induction has its base case |
| Rlive (`src/rlive`) | the trace of accepting states, the paths between them, shoals as constraints of the system, an IC3 per query | `check`, `check_reach`, `block`, `add_shoal`, `cex` | its passes keep the lassos; the search is never reached, see [Disagreements](#disagreements-with-the-documentation) |
| Cegar (`src/cegar`) | the uninterpreted abstraction and an IC3 for it | refine, check | refinement makes progress, the result is the concrete one |
| MultiProp (`src/mp`) | results of each property | one IC3 per property | results match the properties |

### Orchestration

| Part | State it keeps | Operations | Correct when |
|---|---|---|---|
| Portfolio (`src/portfolio/mod.rs`) | children not reaped, the winner, the last state of each worker, the certificate | fork, poll of the state channels, `accept_winner`, `reap_child`, `terminate_running` | the result is the winner's with its own certificate; no answer is lost; no child is left; `check` returns |
| LemmaMgr (`src/portfolio/lemma_mgr.rs`) | a sender and a receiver per worker | forward lemmas | ends when the workers have |
| LightPortfolio (same file) | engines as threads of one process | start, take the first result, terminate, join | joins only threads that stop |
| PolyNexus (`src/polynexus`) | results, certificates and bounds per property; the scheduler's counters; workers with two channels each | `pick`, `fill_workers`, `poll_state_traces`, `poll_done`, `reap_finished`, `terminate_running` | result and certificate of a property come from one worker; shown results only advance; no property starves; no place is wasted on an answered property |
| Result cache (`src/cache`) | files keyed by a digest of the relation and constraints, with a second digest of the properties, the verdict and lemmas | `try_cached_bl_engine`, `store_entry`, `load_entry`, `reconstruct_clauses` | an entry is used only for the system and property it was stored for; a reader finds a whole entry or none |
| Tracers and controls (`src/tracer.rs`, `EngineCtrl` of `src/utils.rs`) | channels, a stop flag, the bound that was logged | `trace_state`, `terminate` | a bound that is logged was checked; a stop is heeded |
| Commands `run`, `build`, `clean` and the project directory (`src/cli`) | `dut/` (design and hash of the sources), `res/` (results and witnesses), over repeated runs | hash, clear, generate, load, launch PolyNexus, drain its channels, keep | a stored result is one of the stored design, has its witness, and is not unlearnt |
| Command `cill` | candidates, counterexamples to induction | a cycle with a person in the loop | - |

### Data

Transition systems and their transforms (`src/transys`, `src/wltransys`): each
pass rewrites a system and keeps its `Restore`, which takes counterexamples and
proofs of the rewritten system back to the original one; a pass is right when
verdict and depth stay and both restore to certificates. Then
frontends (`src/frontend`), `McResult` and the engine traits (`src/lib.rs`),
configuration, terminal output, and the crate `crates/ric3-middleware`, which
no engine calls.

### How the parts interact

* A front end builds a transition system; `create_bl_engine` makes one engine
  of it, or Portfolio forks one process per engine and PolyNexus one per
  property and configuration. The constructor of an engine runs the passes of
  `src/transys` on its own copy; Portfolio and PolyNexus run them once before
  they fork, so a worker's certificate is taken back twice. Inside a worker
  everything is sequential.
* IC3 asks one GipSAT solver per frame for predecessors, cores and liftings.
  Lemmas go into the delta frames and into the solvers together; they are moved
  and removed only in the former.
* Engines report through tracers. In a worker a tracer is an IPC channel to the
  parent, read by select. A parent learns of the worker's death by `waitpid`,
  and these two sources of news are not ordered with one another.
* Certificates travel apart from results: a worker sends its state, then builds
  and sends its certificate, then exits.
* Time limits and termination set a flag that the loops look at between steps;
  BMC and k-induction also stop the query that is running.
* `check` and LightPortfolio wrap engines with the cache, which is shared by
  everything that runs on one cache directory. `run` starts PolyNexus in a
  thread and keeps what arrives on its two channels in the project directory.

### What is hard here

The hazards in `PROJECT.json` name the lines. In short: long sequences of
lemma additions whose subsumption keeps two copies of the frames in agreement;
lemmas that are inductive only relative to a clause not yet added; iteration
over a clone of a frame that changes; obligations that are moved on the
strength of facts that may be gone when they are popped; exits that overtake
messages; results without certificates; interrupted bounds taken for proved
ones; one long-lived SAT solver in which each query leaves something
behind; a handle that must follow a solver that is replaced; files of an earlier
run that may be of another design, of another model or half written; and a way
back that every pass has to keep in step with the system.

## Modules

| Module | Models | Checked by |
|---|---|---|
| `IC3` | `src/ic3`: `mod`, `block`, `mic`, `propagate`, `frame`, `proofoblig`, and the queries of `src/gipsat/ts.rs` and `src/transys/lift.rs` that it asks | `MCIC3`, proofs in `IC3Proofs` |
| `Portfolio` | `Portfolio::check` and its workers, the end of LemmaMgr | `MCPortfolio`, proofs in `PortfolioProofs` |
| `McResult` | `McResult` and its `\|` (`src/lib.rs`) | through `PolyNexus` |
| `PolyNexus` | `PolyNexus::run`, the scheduler, `run_worker` | `MCPolyNexus`, proofs in `PolyNexusProofs` |
| `Cnf` | clauses over a circuit, what they entail | through `GipSat` |
| `SatContract` | what users of an incremental solver rely on (abstract) | as a property of `GipSat` |
| `GipSat` | `src/gipsat`: `DagCnfSolver` | `MCGipSat`, proofs in `GipSatProofs` |
| `Bounded` | `src/bmc.rs`, `src/kind.rs`, `src/wlbmc.rs`, `src/wlkind.rs`, both `unroll.rs`, `LogTracer` | `MCBounded`, proofs in `BoundedProofs` |
| `Netlist` | circuits: assignments, steps, reachable states (`src/transys/mod.rs`) | through `Cache`, `Transforms` |
| `Cache` | `src/cache`, `LightPortfolio::check`, the command `check` | `MCCommandFiles`, proofs in `CacheProofs` |
| `RunCmd` | `src/cli/run`, `src/cli/rproj.rs`, `build`, `clean` | `MCCommandFiles`, proofs in `RunCmdProofs` |
| `CommandFiles` | both on one machine | `MCCommandFiles`, proofs in `CommandFilesProofs` |
| `Transforms` | the passes of `src/transys`, `Restore`, the constructors of the engines | `MCTransforms` |

`MC...` modules hold only the values of constants. In the modules a definition
whose comment begins "Slip:" is a plausible mistake in the definition after it;
it is not part of the specification, and shows that a property would notice the
mistake. The file `PROJECT.json` maps every other definition to its lines.

### IC3

A cube of latch literals is the set of the states that satisfy it and a lemma
is the cube that it excludes, so `a.subsume(b)` on literals reads
`b \subseteq a`. The state is what the struct keeps: `frames` (delta frames,
`Frames`), `slv` (the clauses that each solver has been given), `inf`, `early`,
`obl`, `level`; `pc` and `cur`, `gen`, `ctg`, `idx`, `todo`, `tries` hold the
local variables of the function that is running. One action is one pass of a
loop or one branch of it:

| Code | Actions |
|---|---|
| `block` | `BlockInterrupted`, `BlockFailure`, `BlockContained`, `BlockContainedInf`, `BlockDrop`, `BlockPred`, `BlockGeneralize` |
| `mic`, `down`, `ctg_down`, `trivial_block_rec` | `MicDrop`, `CtgBlock`, `CtgPush`, `CtgAdd`, `MicDone` |
| `push_lemma`, the end of `generalize` | `PushLemma`, `BlockedLemma` |
| `check`, `get_bad`, `extend` | `GetBad`, `Extend` |
| `propagate` | `PropSkip`, `PropPush`, `PropCtp`, `PropKeep`, `PropNext` |
| `propagate_to_inf` | `InfMove`, `InfKeep`, `InfDone` |

The solver is abstracted to its contract: a satisfiable query returns some cube
of predecessors (any model, any lifting), an unsatisfiable one some core (any
subset of the literals whose refutation stands, extended so that it misses the
initial states). Everything that follows from a choice the solver or a
heuristic makes, such as the order of literals in `mic`, the depth of CTGs, or
the activity that `--drop-po` looks at, is left open. What depends on the
control is not: `add_lemma` stops its loop where the code does, leaves in that
frame any of the lemmas it might not have met, gives the clause to exactly the
solvers above the stop, and returns the flag the code returns; callers use that
flag or ignore it as they do in the source.

Two details that reading the code brings up and the model keeps: `early` is
lowered by `add_lemma` and set to the level at the end of `propagate`, which
discards a lowering made meanwhile; and the flag that an empty frame has been
found is ignored for CTG lemmas and for propagated ones. Neither makes an
answer wrong. The first may only delay propagation, and an empty frame is found
at the next `propagate` that reaches it.

### Portfolio

`truth` is the right answer, which engines that are sound give; a worker may
trace bounds, answer, give up (Unknown), crash between any two of its steps or
run for ever. A channel holds its last message, since the parent keeps only the
last state of each. `Select` is one `select` with everything that has arrived,
handled message by message (`HandleTrace`), so that two answers in one batch
are met. `reap_child` is modelled with its inner loop, which polls until there
is a winner once a worker has exited cleanly (`ReapClean`, `ReapPollAgain`).
`RecvCert` blocks like the `recv()` it stands for: the parent has a sender of
its own, so the death of the worker is not an error to it.

### PolyNexus

A worker is a pair of a property and the index of its configuration. The state
channels are sequences, since `merge_and_trace` depends on their order; a done
channel holds at most one message. The loop's phases are `pc`: fill, state,
done1, reap, done2. `reap_finished` and `terminate_running` are atomic: a worker
that ends while they run counts as ended before or after. The time limit
and the stop flag are looked at in the head of the loop only, which is joined
with the end of `fill_workers`: one that came before is met there (`stop`). The
command's own view of results (`shown`) is set by every traced state. A crash
after the done message is an exit, for the parent cannot tell them apart.

### GipSat

A clause is the set of its literals, tagged by the set it is in (`trans`,
`lemmas`, `learnt`, `temporary`). `trail` has the literal, reason and level of
each assignment; `high` is `highest_level()`; `propagated` the index of the code.
The prefix of a level (`Upto`, `LitsUpto`) is counted off the levels, which never
decrease along the trail, as `pos_in_trail` keeps it; `Ground` is the level-0 trail
without the literal of `constrain_act` (`Act`), which `Without` takes off it. The
assumptions on the constants say that `Act` is a variable of the solver's own: no
gate, and unknown to callers; and that a gate's clauses leave its output one value
(`GateAssumption`), as `cnf_assign`, `new_and`, `new_or` and the others build them: only
then do the leaves say everything.
The actions are the public calls (`AddClause`, `SetDomain`, `UnsetDomain`,
`AddEq`, `Flip`, `Solve`) and the steps of a question: `solve_with_param` up to
`new_round` (`TrivialUnsat`, `NewRound`), `simplify` (`Simplify`, `CleanEq`,
`EqCleaned`), `propagate` a literal's watch list at a time (`PropWalk`,
`PropUnit`, `Propagated`, `Conflict`), `analyze` a resolution at a time
(`Resolve`, `Learn`), `search` (`Restart`, `CleanLearnt`, `AssumeTrue`, `Assume`,
`AssumeFalse`, `Decide`, `AnswerSat`). Orders that depend on activities, phases
and the position of watches are left open.

Watch lists are abstracted to what they guarantee. `visited` has the literals
whose lists were walked. The two watches of a clause are never both among its
false literals that were walked, so a unit is found for sure when all its false
literals were walked (`Pending`), and may be found earlier. Above level 0 a watch whose
blocker lies outside the domain passes its clause over (`Passable`). This keeps
what depends on an incomplete propagation, which does occur:
`clean_temporary` takes the literal of `constrain_act` off the level-0 trail
without lowering `propagated`, so the literal that comes to lie there, a unit clause or one
that was waiting on the trail, may stay unwalked. `overlooked` (a history variable)
remembers it (`Skipped`): what relies on complete propagation is claimed up to then, see
[Disagreements](#disagreements-with-the-documentation).

`Init` is the solver that `new()` returns: the circuit's `Constants` are assigned, in any
order, and each clause was simplified by some of them, those known when it was added.

`user` tells two kinds of users apart. IC3 adds clauses, sets domains, asks with
assumptions and constraints and relies on the values of a satisfiable answer.
FrTs asks of one pair of literals after the other whether they can differ, with
a limit, records equivalences with `add_eq` and reads no values; after rewriting by
equivalences the values are no longer those of the circuit.

`SatContract` is the abstract specification: an unsatisfiable answer has a core
that the clauses and constraints refute; the values of a satisfiable one are
computed by the circuit from the leaves that have one, and satisfy everything
whatever the others are, also after any sequence of `flip_to_none`; only a
question with a limit may be given up. `ContractKept` is the refinement, where
satisfiable answers are excepted once a literal was overlooked or while one that was
skipped is on the trail.
The answers that `IC3` assumes of its queries are instances of it.

`solve` without assumptions never calls `prepare_vsids` and answers without
deciding. The only such caller of GipSAT, the simulation of initial states, copes with latches
without a value; such questions are not among those asked here.

### Bounded

A system is given by states, inputs, a next function, constraints and bads. The
solver `slv` is the set of the facts it has been given about the copies of the
variables, and a query asks for values of the copies (`Models`) that meet all of
them: what is loaded when, how far (`transK`, `badK`), and what stays in the
solver after a query is given up is the code's. `solver`, `ctrl` and `told` tell
the solvers that Kissat goes through apart from the one that the handle reaches;
`terminate()` is two steps. One set of actions serves BMC and k-induction where
their loops agree (`BaseQuery`, `BaseSat`, `BaseUnsat`, `Report`, `CutShort`);
the word-level loops, which can be neither stopped nor limited, are `WlBmcPass`,
`WlStepHolds` and `WlKindPass`. Lemmas of an extractor arrive at any step and are taken as
the code takes them, without a query. `CertInit`, `CertNext` and `CertBad` are
the circuit that `Kind::proof` builds, over its own copies.

### Cache

An entry's names are digests; a digest is the set of the models that share it,
computed from the names of variables as `resolve_identities` gives them
(`Atom`), so that two models agree exactly when the code's inputs to the hash
agree. An engine is abstracted to its answer: the right one, unless lemmas that
were injected into it do not hold, in which case anything. Files are separate
from their names, so that a file renamed while another thread writes it stays
one file. One action is one system call: `Open` truncates or creates, `Write`
fills, `Rename` moves. `Kill`, `Interrupt` and `WriteFails` may come at any time,
up to `MaxFault` of them. `by` and `from` are history: who stored an entry, and the uses of
entries that an engine relies on, those of the entries it found included. The chain is needed:
with three processes an engine may answer wrongly because of lemmas from a model that differs
in what the digests leave out, and a third one find that verdict under its own model's digest.

### RunCmd

`disk` is the project directory, `src` the version of the sources, which `Edit`
may change at any time. The command goes through `dut`, `clear`, `generate`,
`hash`, `load`, `launch`, `loop`, `final`; files are created and written in two
steps, so that a kill leaves a torn one, and the directory is cleared in any
order. PolyNexus runs beside it, abstracted to what module `PolyNexus` shows of it:
states only advance, a done property has its right result and certificate.
`loaded` and `unproved` are history variables that only properties read.

### Transforms

A circuit is a record of sets (`Netlist`); a pass is an operator on a pair of a
circuit and its way back (`Restore`), written after its function in the source:
`CoiRefine`, `SimplifyRel`, `Rearrange`, `Replace` for `scorr` and `frts`,
`RemoveGateInit`, `NoDep`, `CompressBads`, `NormalizeJustice`. What simulation and a limited
solver find is a choice: any set of the equal latches that induction confirms
(`ScorrMaps`), any of the equal gates (`FrMaps`). The order of passes is that of
the constructors (`Create`, `TrivialPass`, `ScorrPass`, `FrtsPass`, `Finish`), and
`HandOn` is the worker's own constructor on what Portfolio or PolyNexus prepared.
Properties then compare the pair with the original circuit by enumerating both.
`RliveNew` ends in `exit`, as the constructor does. `MappedBack` is what an engine maps
back of a counterexample: `restore_cex` leaves the variable of the initial step
out, IC3 also what has no way back, and BMC nothing.

Gate elimination (`DagCnf::simplify` of the library) is modelled as inlining
operands that are never negated; the forward map of `Restore` is the inverse of
the backward one and left out; the gates that a proof adds for its invariant are
kept as a set of cubes.

`OneBadInn` restricts the instances: with internal signals (`--inn`) and several
properties at once IC3 takes its own disjunction for a gate of the original
system, see [Disagreements](#disagreements-with-the-documentation).

## Runs

| Run | Instance | Shows |
|---|---|---|
| `ic3_safe` | a safe system of three latches, all 27 cubes, levels up to 8, one CTG lemma per generalization and one CTP round | frames, solvers and obligations stay consistent through every core, predecessor and subsumption; UNSAT is certified; `check` returns |
| `ic3_unsafe` | the same with a counterexample of depth 3, dropped obligations, two CTG lemmas, three CTP rounds, interruptions | counterexamples are real and traced bounds are safe |
| `portfolio` | two workers, with and without certificates and `--share-lemma`, any crash, any stop | the result is the winner's, nothing is lost, `check` ends |
| `portfolio_uncertified` | the same with certificates | a disagreement, see below |
| `polynexus` | two properties, one of each kind, two places, three configurations, one crash | results, certificates, picks and displayed states are consistent; a crash costs one configuration; the run ends |
| `polynexus_wide` | one property, two configurations, three places | a disagreement, see below |
| `gipsat` | seven variables, three of them leaves, five calls, as IC3 and as FrTs | what outlives a question follows from the clauses added; simplification loses nothing; the solver keeps its contract; every question is answered |
| `gipsat_overlooked` | a circuit of one gate, five calls | a disagreement, see below |
| `bounded` | five systems of three or four states with two inputs, thirteen settings of the options, lemmas that hold at every step and lemmas of a frame | an answer is right, a traced, logged or returned bound was checked, the certificate of k-induction is inductive, simple paths decide every system, an engine that is told to stop returns |
| `commands` | eight plans: pairs of processes on models that are renumbered, extended, reset differently or without symbols, threads of LightPortfolio; and two invocations of `run`, `build` or `clean` with one edit, one kill, two properties, two versions | a verdict that comes from the cache or from injected lemmas is right, an entry is whole, LightPortfolio returns with an answer of one of its engines; results are of the design beside them, have witnesses and are not unlearnt |
| `transforms` | seventeen circuits of two or three latches and an input, 102 jobs of one or two engines | every pass keeps verdict and depth, and the ways back lead to certificates |
| `transforms_bmc` | one of them in BMC | a disagreement, see below |

### Bounds, and why they are enough

* `MaxLevel`. A safe system of eight states is proved or refuted at a level of
  at most eight, as the frames strictly grow; deadlock is checked in `ic3_safe`,
  so a run that could pass the bound would be reported.
* Three latches are the fewest in which a cube can be generalized in two steps,
  a CTG lies in a frame below, a lemma subsumes another strictly, and lemmas of
  several frames are subsumed in one call. The system of `ic3_safe` was chosen
  so that CTGs, CTPs, `inf` lemmas and the `add_lemma` branches all occur.
* `CtgMax`, `CtpMax` bound the CTG lemmas per generalization (`--ctg-max` bounds
  them per round) and are the rounds of CTPs. One is enough for a CTG lemma that
  holds relative to `gen` to stay in the frames while `gen` grows. The proofs
  hold for every value.
* Two workers suffice for the races of Portfolio, which are between a winner and
  another worker; no action looks at a third. Two depths tell two
  counterexamples apart.
* `MaxBound` bounds the bounds that all workers of PolyNexus trace together,
  `MaxCrash` the crashes. One bound is enough to be overtaken by a definite
  result or by a done message, in both orders. Three configurations are enough
  for two places and one crash: a property is never picked more often, which is
  the subject of `polynexus_wide`.

* `MaxCalls`: five calls reach a database that is unsatisfiable without
  propagation showing it, the question that finds out and one more; and a unit
  that is overlooked, with the answers that follow. The circuit
  has a gate that computes the same as a leaf, again unknown to propagation, so
  that an equivalence is learnt, and one that becomes a tautology by it. All
  branches of the actions occur but one: the unit clause that `clean_eq` could
  yield, which needs a variable that equals a constant, and that one is at level
  0 already.
* `Bounded`: `end` is 4 and no system has more than four states, so that every
  bound at which a state can be reached for the first time or a simple path can
  end is met. Each system is there for a case: a violation at depth 3 that does not recur (`deep`),
  a proof that needs two steps (`safe`), one that needs simple paths
  (`loop`), constraints that cut the violation off (`held`), a property hidden
  by another (`two`). `Config` has every option alone and the pairs that
  interact.
* `CommandFiles`: `MaxFault` is the number of kills, interrupts and failing writes
  of one plan; one is enough to leave any file in any state of writing, and the
  other process then runs against it. Two invocations of the project's commands
  are the writer of what is stored and its reader, with `MaxEdit` edits and
  `MaxKillRun` kills; a third would find nothing that the second could not.
* `Transforms`: two or three latches are enough for one to be merged into
  another that is itself merged into a third or the constant, with every
  combination of initial literals; the invariants are the strongest and the weakest, between which
  an invariant of IC3 lies.
* `RestartBase`, `SimplifyPeriod` stand for 100 conflicts and 100 questions and
  are 1, `MaxRestarts` bounds the restarts of one search, the limits of questions
  are counted in such runs. Clauses are reduced, restarts and simplifications
  happen in the middle of everything else.

### Fairness

* GipSat is one thread: weak fairness of the work on a question. Callers are not
  forced to call.

* IC3 is one thread: weak fairness of all its work together. Interruption is
  never forced. `CheckReturns` holds without `--drop-po`; with it an obligation
  may be dropped again and again.
* Portfolio and PolyNexus: weak fairness of the parent's loop as a whole, of a
  worker that has its result and must only build its certificate and exit, and
  of the delivery of signals. No fairness for checking itself: an engine may
  never answer, and the liveness properties do not need it to.

* Bounded: weak fairness of the loop's own work, which includes that a query ends
  when its solver has been told to stop or has a limit. A query that is answered
  is not fair: `StopHeeded` must not need it, since a query may run for ever.
* Cache: every thread and the thread of `check()` go on, and an engine that has been told
  to terminate gives up; an engine that has not may run for ever. Faults are
  never forced. `RunCmd` has safety properties only and no fairness.
* Transforms terminates and has none.

`AnswerReturned` and `StopHeeded` of Portfolio name their exceptions in the
formula: a winner that dies on its way out (`recv` of its certificate, or a
crash after it), `--share-lemma` (the join of LemmaMgr's thread, below), and for
a stop, a worker that has exited cleanly without a result, for which
`reap_child` polls without looking at the flag. Each is the behaviour of the
code.

The runs `bounded`, `commands` and `transforms` end in a state without successor when
the engine, the processes or the job are done, and do not check deadlock. The run of GipSat does not check deadlock, since its calls are bounded; that a
question does not get stuck is `AnswersEnd`. Runs of Portfolio and PolyNexus do not check deadlock: the parent may have
returned, be blocked in `recv`, or have panicked. IC3 loops in `Returned` once it
has returned, and its runs check deadlock.

## Proofs

Each theorem holds for every value of the constants that meets the assumptions
its module names, and the runs show its property on their instances. A module
of proofs states an inductive invariant as a conjunction of named parts, each
with a comment that says why it is there; it was checked by TLC as an
invariant of the runs' instances before it was proved. The proof that a step
preserves it has one lemma or one case per action.

| Theorem | Says |
|---|---|
| `IC3Proofs`: `Invariance`, `TypeCorrect` | `Spec => []IInv`; the type invariant, an obligation is at most one frame above the level |
| `UnsatSound` | UNSAT has an empty frame, and the lemmas from the first empty one on with those of `inf` are an inductive invariant without bad states |
| `SatSound` | the obligation that `cex()` starts from is a chain of cubes from an initial state to bad ones, each leading into the next whatever the state |
| `AnswersTrue` | UNSAT: no path of any length leads from an initial to a bad state; SAT: one of the returned depth does |
| `FramesCoverReached` | frame `k` has every state that `k` steps or fewer reach |
| `ClosedLevelsSafe` | the level that is traced is one at whose depth no bad state is reached |
| `FramesStayInAgreement` | `trivial_contained` and the emptiness test see the frames that the solvers see |
| `ObligationsPlaced` | an obligation above frame 0 is blocked one frame below and misses the initial states (the `debug_assert` of `block`) |
| `ObligationsApart` | the queue has no two obligations of one state: the `assert!` of its `add` never fails |
| `InfLemmasFresh` | a lemma that `propagate_to_inf` has still to move is in the last frame and no lemma of `inf` subsumes it (the assertions of `add_inf_lemma`) |
| `BoundedProofs`: `Inductiveness`, `AnswersCorrect` | `Spec => []IInv`; UNSAT: no run of any depth violates; SAT: the witness is a run that does, of the returned depth |
| `BoundsTrue` | a bound that is traced, logged or returned was checked (with the two exceptions of the run) |
| `CertificateInductive` | the circuit of `Kind::proof` is an inductive invariant of the system |
| `SimplePathsDecide` | with simple paths and no stop, k-induction that may go as far as there are states decides every system |
| `PortfolioProofs`: `TypeCorrect`, `WinnerReturned` | the result returned is the winner's, with its certificate |
| `AnswersKept`, `WorkersReaped` | Unknown is returned only after a stop or if no worker exited with an answer; no worker outlives `check` |
| `PolyNexusProofs`: `TypeCorrect`, `OneWorkersAnswer` | result and certificate of a resolved property are one worker's, whose process has answered so |
| `AnswersReadFirst` | no place is filled for a property of which a worker reaped before has answered |
| `FairPicks` | at most `--workers` processes run, and the picks of pending properties differ by at most one |
| `OnlyPickPanics` | of the loop's panics, `\|` on contradicting results and `unwrap` in `pick`, only the second is ever met |
| `DisplayAdvances` | what is shown of a property only advances |
| `RunCmdProofs`: `RunTypeCorrect`, `DesignsResults` | results on disk are right for the design beside them |
| `WitnessesWritten`, `NothingUnlearned` | a violation that is kept has its witness; no run replaces a decided result by less |
| `CacheProofs`: `CacheTypeCorrect`, `EntriesWhole` | what is at a final path is whole, when no two threads of a process store |
| `VerdictsDefinite` | only definite verdicts are stored and found |
| `VerdictsRight` | an answer is right, also a cached one and one found with cached lemmas, if along the chain of entries it relies on the models were alike in what the digests leave out |
| `LightCorrect` | LightPortfolio returns what one of its engines has answered, and none only if it was stopped or none has any |
| `CommandFilesProofs`: `CacheCorrect`, `DirectoryCorrect` | both for the two kinds of commands together |
| `GipSatProofs`: `Invariance`, `LearntFollow` | what is learnt, assigned at level 0 or rewritten follows from the clauses that callers added, whatever question it came up in |
| `CoresRefute` | the core of an unsatisfiable answer is refuted by the formula and the question's constraints |
| `ContractHolds` | the solver implements `SatContract`: also the values of satisfiable answers, and what `flip_to_none` leaves of them, suffice, unless a literal was overlooked or skipped |
| `ContractButValues` | overlooked or not, every step that the contract knows nothing of is a satisfiable answer or a flip in its turn |
| `NothingLost`, `DatabaseSays` | unless a literal was overlooked, the database goes on saying all that was added: no simplification, reduction or rewriting loses anything |
| `UnitsFound` | unless a literal was overlooked, a clause that is not satisfied has two unassigned literals when clauses are simplified |

### IC3

Assumed: the states are finitely many, `Trans` and `Bad` are over `State`, cubes
are non-empty sets of states, init cubes are cubes, bounds are naturals, `DropPo`
is Boolean. `IInv` adds to the type what makes the frames sound:

* `FramesAgree`: the delta frames and the solvers exclude the same states. The
  lemma `ClauseAdded` is the heart of it: skipping the solvers up to the stop is
  right because a lemma that subsumes the new one is already there, and
  `AgreementKept` shows the same of the removals.
* `Nested`, `Steps`, `BadFree`: the usual facts of IC3, with one twist. While
  `gen` is generalized, CTG lemmas hold only relative to its clause, which is not
  added yet; so `Steps` excepts, below the obligation's frame, the steps of the
  states of `gen`. The exception is closed when the lemma is added, since `gen`
  only grows during `mic` and is then blocked; `LemmaInHand` keeps the queries'
  answers for that moment. Without this exception the invariant is false, and
  with it for the wrong frames it is not inductive.
* `Obligations`: chains are real, and an obligation is placed in the first frame
  that its cube may belong to. It is needed for SAT, and for the precondition of
  `Core` in `generalize`.
* `Shape`, `UnsatFrameEmpty`, `CexReal`: cursors are in range, and an answer
  stays justified after it is given. `CexReal` says too that the queue is not
  empty then, which `cex()` relies on (`peak().unwrap()`, `src/ic3/mod.rs:500`).

`TypeStep`, `FramesStep`, `ObligationsStep`, `AnswerStep` are joined in
`NextInv`. States reachable in `n` steps and paths of any length are recursive
functions and sequences; what is said of them goes by induction over the
naturals, which is proved from the well-foundedness of `<` for a set
(`\A n : n \in S`) and needs no operator as parameter.
`ObligationsApart` and `InfLemmasFresh` have invariants of their own beside
`IInv` (`Queue`: what is under way is not in the queue; `LastFrameMinimal`: the
lemmas of a frame do not subsume one another).

### BMC and k-induction

Assumed, in `Bounded`: a system's states are finitely many and there are some,
there is an input, `next` is total; an option belongs to the engine that reads it
(k-induction goes step by step from 0, only BMC takes Kissat or a limit); and a
lemma that an extractor says holds in every frame is implied by a closed set of
states with the initial ones, which is what IC3 exports. Without the last,
BMC's answers mean nothing, since it takes lemmas without a query.

The queries are over `Models`, a recursive definition of the assignments to the
copies of the variables that meet the facts in the solver; `ModelsAre` gives it a
closed form, and with `ModelIsRun` and `RunIsModel` a query is satisfiable exactly
when there is a run with the stated properties. `FailsAtIs` does the same
for the reference (`FailsAt`, the states reached by `d` steps). What is in the
solver (`Held`, `Asked`) then decides what an answer means: `BaseDecides`,
`StepDecides`, and for the word-level loops `WlDecides`, `WlStepDecides`.
`Below` and `Here` keep what the queries have shown, `Said` what has been
told of it, `Answers` takes a result back to its query. An answer UNSAT is
right by `InductionSound`: a shortest violating run has the `k` good steps
before its end that the inductive query excludes, or with simple paths a
shortest one visits no state twice. `CertificateInductive` unfolds a state of the certificate's
circuit, which keeps `k` copies, to a run of `k` steps, and back.
`SimplePathsDecide` rests on `Simple`, by the pigeonhole principle.

### Portfolio and PolyNexus

Assumed: workers differ from `NoWorker`; options are Boolean; engines are sound
(`Truth`, by `IC3Proofs` and `BoundedProofs`), and what the run command has read of
earlier runs is right for the same model, by `ResultsOfDesign`. Any number of
workers, properties, configurations, crashes.

The invariants say where an answer is: with its worker, in the channel, taken by
a select or in the parent's state, in one place only and never hidden by a later
message (`Answering`, `Delivery`). `Winning`, `Reaping`, `Returning` of Portfolio
say that the parent drops no worker that exited cleanly before it has read its
answer, but for the one it holds; `Scheduling` of PolyNexus says that outside
`reap_finished` and the poll after it no done message of a worker that is not
running is left, and that the workers picked are exactly those below the counters.
`PicksBalanced` needs what `Balance` adds, that the running workers are finitely
many. `Sound` makes `|` of `McResult` a join, so that it never panics and what
is shown advances.

### Files

`RunCmd` and `Cache` are proved for any history of edits, kills, interrupts and
failing writes, whatever their number. In `RunInv`, where the command is decides
what is in the directory (`Directory`): nothing of an earlier design can be left
when the hash is written. What is on disk, in memory and on the way in the two
channels is right for the design and not less than what was read
(`DiskRight`, `MemoryRight`), and a resolved violation has its witness
on the way or on disk (`Witnesses`). In `CacheInv`, a file has one name and an
engine knows where its own is (`Names`), unless two threads of one process
share a temporary name; `Channel` and `Outcome` follow what LightPortfolio has
received. `Sourced` is about what entries rely on: an entry is the one of the task it names
(`EntryBacked`), and what an engine starts from is right, or some use of an entry in its
chain strayed (`EngineBacked`), whichever thread wrote last into a shared temporary file.
Neither kind of command touches the other's files, so that both
invariants hold of the composition.

### GipSat

Assumed: `constrain_act` is no gate and occurs in nothing that callers pass; the
circuit has a model, as gates are computed from leaves; a gate's clauses leave it one value;
FrTs asks with constraints alone, IC3 with an assumption or a constraint. Any circuit, clauses, questions, domains, equivalences, any number of calls,
restarts and conflicts, and all orders that the heuristics may choose.

There are two notions of what follows: from the `formula`, which stays, and from
`Given`, the formula with the question's constraints, each guarded by `constrain_act`.
Clauses carry no mark of which they follow from, and level-0 literals none either.
Two lemmas separate them. `GuardedAside`: in an assignment with `constrain_act` false all
guarded clauses hold, and what does not mention it does not depend on its value, so
a clause without it that follows from `Given` follows from the formula. `CoreAside` is its
counterpart for cores, with `constrain_act` true. `IInv` says

* `Control`: where a call stands; nothing is propagated above level 0 while clauses
  of the question before are still there (`Stale`), on which it might rest.
* `Grounded`: a literal at level 0 follows from the formula, except the
  negation of `constrain_act`, which may need the constraints and is what
  `clean_temporary` takes off; and the literal itself is never there.
* `Upper`: above level 0, an entry is the first of its level, and the assumption of
  that level if there is one, or its reason follows and has its other
  literals false earlier in the trail.
* `Database`, `Represented`: clauses follow, and a variable has the value of its
  representative, in each model of circuit and formula.
* `Analysis`, `CoreRight`: the clause that is being resolved follows and is false
  above level 0; a core is refuted.

A resolution step is right by `LastReason`. `minimal_learnt` and
`analyze_unsat_core` are recursive functions over positions of the trail;
`FixedPoint` proves that such a function has its value wherever it looks only at
earlier positions, `GoesIs` and `SeenIs` apply it, and `MinimalIs` and `CoreIs` are inductions
along the trail. `UnitGround` and `PropUnitKeeps` take whatever unit clause the
watch lists may yield; nothing here needs propagation to be complete, so the
theorems so far hold also after a literal was overlooked. `ContractButValues`
maps each step to one of `SatContract` (`CallStep`, `UnsatStep`, `SilentStep`,
`WorkingStep`), or to `ValuesGiven`: a satisfiable answer or a flip, of which it
shows that it comes in its turn and touches neither formula, question nor core.

The other direction, that nothing is lost, is the second part of the invariant, `Complete`,
which leans on the first:

* `Walks`: what was walked is assigned, and where nothing waits to be walked.
* `Reached`, unless a literal was overlooked: what `propagated` has passed at level 0 was walked.
* `Watched`, unless the database is trivially unsatisfiable: a clause is `Open`, that is,
  satisfied at level 0 or with two literals that were not found false there, but for those on
  the list of the literal that is being walked (`Walking`). Or a clause is `Contradicted`: a
  question refuted at level 0 leaves a false clause behind, and that goes on being so
  until propagation comes to it again and sets `trivial_unsat`.
* `Determined`: clauses, level-0 literals and representatives determine the circuit's clauses
  and those added. The step from a database to its simplified form is the lemma
  `OpenWatchable` (what is taken out is satisfied) with `GroundLits`, which say what a
  clause lost; the step to the rewritten form is `RewrittenHolds`.
* `Merged`: a representative represents itself.

Where level 0 was walked to its end all clauses are open (`AllOpen`), which is what
`simplify_satisfied_clauses` relies on (`UnitsFound`); between calls, `Determined` is
`DatabaseSays`. `overlooked` was defined by this
proof: with unit clauses alone `Reached` is not inductive, since a question refuted at level 0 may
leave literals waiting that the removal of the literal of `constrain_act` puts where
`propagated` has been.

That the values of a satisfiable answer suffice is the third part, `Exact`, on top of both, for
IC3's solver. The search leaves variables outside the domain alone; what makes that right is

* `Sealed`: the domain is closed. A variable is `Seated` if its gate's inputs are, down to
  leaves and constants, among the variables of the domain and of level-0 literals; all of the
  domain is, what `set_domain` and `add_clause` fix is, and so are the lemmas' variables. The
  closure of `get_coi` is a recursion that stops at what is there already (`ClosureIs`);
  `Rooted`, the greatest such set, replaces an induction over depth.
* `CircuitKept`, `ConstraintsKept`, `Covered`: a clause of the circuit or of the question is
  satisfied at level 0, or what is left of it is in the database; the clauses added follow from
  the lemmas and from the level-0 literals whose variables are fixed or explained by such ones
  (`Needed`).
* `Inside`, `Queued`: the search assigns inside the domain, which has what was asked, and a
  variable of it has a value or waits in the queue (`prepare_vsids` comes with the last
  assumption's level).
* `AssumedTrue`, `Behind`: assumptions come first and are true on their levels; what lies below the
  highest level was propagated.
* `Found`: a clause all of whose literals were walked as false has the one being walked among
  them, or is the clause of the running analysis. No conflict is passed over, though watches with a
  blocker outside the domain are.
* `Valued`: in an answer each clause has a true literal, or one without a value outside the
  domain; `flip_to_none` keeps this (`FlipValued`).

Then take any model of the circuit with the leaves' values. If it differed from the answer on a
seated variable, take the least: its gate's inputs agree, the gate's clauses hold with the
answer's value as well as with the model's, and by `GateAssumption` both are the same
(`OneValue`, `SeatedValues`). So the lemmas, then the added clauses (`FormulaValues`), then the
level-0 literals and the constraints hold (`AllValues`), which is `Sufficient` of `SatContract`. The
proof failed first where the next question's first assumption takes the place of the
literal that `clean_temporary` has removed: it is never propagated (`Skipped`), and TLC showed
a satisfiable answer that is wrong without anything overlooked at level 0. The
exception of `ContractKept` names that case since.

### What is only model-checked

* Liveness, which is out of the prover's reach: `CheckReturns`, `AnswerReturned`,
  `StopHeeded` of Portfolio and of Bounded, `AnswersEnd` of PolyNexus and of
  GipSat, the liveness half of `LightReturns`.
* `DigestAssumption` of Cache, on which `VerdictsRight` rests: that models with one digest
  have the same verdict, and that an invariant of one holds in the other by name, is a
  statement about a renaming of circuits and their executions, which TLC decides for the
  models of the plans; the protocol around it is what is proved.
* `Transforms`, which uses recursive operators, and these TLAPS does not take: its properties
  compare the runs of two circuits, which are enumerated.

## Disagreements with the documentation

* `gipsat_overlooked`. `clean_temporary` takes the literal of `constrain_act` off
  the level-0 trail and leaves `propagated` as it is (`src/gipsat/cdb.rs:356`).
  That literal is there when the question before was refuted at level 0, that is,
  when its constraint contradicts the clauses and propagation alone does not show
  it. The next unit that `add_clause` assigns then lies where `propagated` has
  been already, and is never propagated; so may one that was waiting behind the literal. Simplification drops
  clauses with a false watched literal as satisfied, and asserts that they are
  (`src/gipsat/simplify.rs:62`, a `debug_assert!`); the run shows a
  clause of a gate that is not. In release builds it is lost, and a satisfiable answer may
  then be wrong: without their proviso `overlooked`, `DatabaseComplete` and `ContractKept`
  fail on the same instance. If nothing is waiting, the first assumption of the next
  question comes to lie there; that question is then answered without the clauses that watch the
  assumption, as `ContractKept` admits while the literal is `Skipped`. Of the callers, FrTs and Scorr have the literal on the
  trail after every equivalence that search has proved; the units that follow come
  from rewriting, and what is lost are equivalences. A solver of IC3 has it
  only when every state of its frame that meets the constraints is in the cube
  that it asks for.
* `portfolio_uncertified`. `accept_winner` waits for a certificate with a blocking
  `recv()` on a channel of which the parent holds a sender itself
  (`src/portfolio/mod.rs:254`). A worker that dies between its result and its
  certificate leaves the parent blocked, deaf to its time limit. Such a death is
  described in `docs/toolchain-interop-patterns.md:484` (`Kind::proof()` panics
  with simple paths, which `portfolio.toml` uses).
* `polynexus_wide`. `Scheduler::pick` unwraps `nth(config_counter)`
  (`src/polynexus/schd.rs:28`) and has nothing to give once a property has had
  every configuration, although `--workers` may be any number
  (`src/polynexus/mod.rs:45`). The panic leaves the forked workers without parent.
* `transforms_bmc`. `BMC::cex` (`src/bmc.rs:242`) maps every literal by
  `Restore::restore`, which unwraps. When `scorr` merges latches with different
  initial literals, the constraint that follows hangs on the variable of the
  initial step, a latch without a way back, which `restore_cex` leaves out and BMC
  does not: with `--cex`, `--cert` or `--certify` it panics after the answer.
  `src/cli/check.rs:33` says "print counterexample when model is unsafe". Such
  initial literals come from BTOR models in which a state starts as another one.
  `CexRestores` leaves these counterexamples out.

Two more, of which no run speaks:

* `check` of IC3 returns `Unknown(Some(level))` when blocking is interrupted at
  `level` (`src/ic3/mod.rs:383`), while `src/lib.rs:47` says of the number "Proved
  in Some(exact depth)"; a bad state may be reachable at that very depth. Less
  than the level is free of them, as `TracedBoundSafe` says.
* `IC3::invariant` (`src/ic3/mod.rs:531`) unwraps as BMC does, and has not given the
  variable of the initial step a place in the original system, as `proof` has
  (line 471). The cache asks for it before it returns UNSAT
  (`src/cache/mod.rs:234`): with the feature `cache` a check may panic on a lemma
  with this variable that has a verdict without, against the "zero verdict
  changes, cold and warm" of `docs/cache-design.md:429`. Module `Cache` is about
  systems without such literals.

Seen while reading, kept in the models, and stated as exceptions there: with `--share-lemma` the LemmaMgr keeps a sender of
every channel whose closing it waits for, so `check` never gets past the join;
workers are never given a sender of lemmas; a worker that returns Unknown while
certificates are needed panics; a PolyNexus run that is stopped may hold a
definite result without certificate, for which `proof` and `cex` panic.

Of the engines that unroll: BMC takes lemmas of an extractor for invariants
without a query, at every step; a step that runs into its limit is skipped and
the bound returned in the end does not say so, and with Kissat the clause that
asks for the bad state of the skipped step stays in the solver, so that later
unsatisfiable answers mean nothing (`src/bmc.rs:210`; exceptions of
`BoundsChecked`).

Of the cache: the digests are of the clauses of the relation, the constraints
and the bads, in which all gates have one name; next functions, initial states
and `cfg.prop` are not in them (`src/cache/digest.rs:54`). A warm verdict may
therefore differ from the cold one, although `docs/cache-design.md:429` asks for
"zero verdict changes, cold and warm"; `VerdictRight` has the proviso
`AlikeUnseen`. `src/cache/storage.rs:58` says "Atomic write via tempfile to
prevent partial reads", which does not hold for the threads of LightPortfolio, as they
share one temporary name; `FinalWhole` is about processes with one engine. A
verdict from the cache comes with an empty proof or counterexample.

Of the run command: a torn `hash.ron` or `res.ron` makes later runs fail until
`clean`; sources are hashed before they are copied, so that the design may be of
later sources than its hash; a witness that cannot be written ends the run with
all of its results lost; PolyNexus solves decided properties again when any is
pending; and a violation whose state came from a run that was stopped is kept
without a witness (`unproved` in `WitnessKept`).

Of the transforms: `IC3::proof` and `PolyNexus::proof` put all properties of the
original system into the certificate, so that the certificate for one property
fails if another is violated (proviso of `ProofRestores`). With `--inn` and several
properties IC3 makes the disjunction of the bads before its `Restore`
(`src/ic3/mod.rs:246`), which therefore maps it to a number that is no variable
of the original system and is given to the first variable that the proof adds
(`OneBadInn`). `IC3::cex`
names the first bad that is true at the end, where `Kind` names the property
that was asked. `Restore::replace` asserts that the variable of the initial step
is merged with its sign kept, and `add_restore` that `proof()` is called once;
neither is reached otherwise here.

Of Rlive: `Rlive::new` (`src/rlive/mod.rs:151`) makes the configuration of its IC3 by
`EngineConfig::parse_from` of "ic3 --no-pred-prop --full-bad --no-preproc". The
first word is taken for the name of the program, and none of the three is an
argument (`full_bad` is skipped by the parser, `src/ic3/mod.rs:99`), so clap prints a
usage error and ends the process, although `ric3 check` lists the engine
(`src/config.rs:94`). The model stops there as well; what follows in the
constructor, and `check`, are dead code at this commit.

## Not modelled

* In `IC3`: the predicate property (`prep_prop_base`), localization
  (`localabs.rs`), the multi-armed bandit that only picks parameters,
  `block_with_restart` (not called), the extension of init by constants at level
  0, and the injection of lemmas from outside (`drain_extractor`, only with the
  feature `lemma-inject`), which needs no query to add a lemma and so would make
  every property conditional on the lemmas injected. Predicate property and localization
  replace the very queries on which the invariant proved here rests.
* In `GipSat`: subsumption between lemmas (`simplify_subsume`, from 2000 lemmas
  on), `new_var` after the first question and `imply`, garbage collection, the
  heuristics.
* In `Bounded`: optional connections and constraints of `TransysUnroll` and
  `compile`, which serve localization and lifting.
* In `Cache`: collisions of the hash; the engines, which are right, and the panic of `IC3::invariant`; the
  directory's creation. In `RunCmd`: the terminal, elapsed times, `.vcd` files,
  which are written with the witnesses.
* In `Transforms`: `l2s` and `refactor`, which no engine calls, the auxiliary
  variables of `aux.rs`, which simulation and time limits choose, and Rlive's search,
  which is never reached. The invariant that IC3 brings is one over whole states.
* Cegar (`src/cegar`): refinement compares counterexamples over bit-vector terms
  of a library; without it the loop has three lines. What is wrong in them is
  listed under the hazards: after the last refinement `check()` of the same IC3
  is called again, which asserts that it is fresh, and `get_ctrl` hands out the
  control of the IC3 of the moment.
* MultiProp (`src/mp`): independent IC3s; its merged proof rests on local proofs
  with the predicate property.
* `cill`: reads and writes Verilog by external tools, with a person deciding.
* Word-level rewriting and bit-blasting (`src/wltransys`), front ends: recursion
  over terms and text, without state of their own.
* Terminal interfaces, logging, configuration, conversions of files: no state
  that a property here would speak of.
* `crates/ric3-middleware`, `bench`, scripts: not part of the checker.

## Plan

Done: `IC3`, `Portfolio`, `McResult`, `PolyNexus`, `GipSat` with `SatContract`,
`Bounded`, `Netlist`, `Cache`, `RunCmd`, `CommandFiles`, `Transforms`; the proofs of
the safety of all but `Transforms`, and of the refinement of `SatContract` by `GipSat`.

1. An abstract engine contract (right answer, certified, at most once) that
   `IC3` and Portfolio implement, as refinements; `RunCmd` over it.
2. Predicate property and localization beside `IC3`.
