----------------------------- MODULE PolyNexus -----------------------------
(***************************************************************************)
(* The multi-property run of src/src/polynexus: a scheduler gives every     *)
(* unresolved property one IC3 configuration after the other, each in a    *)
(* forked worker that sends its progress over a state channel and its      *)
(* result with the certificate over a done channel. The loop polls both    *)
(* kinds of channels, reaps dead workers, and fills the free places.       *)
(***************************************************************************)
EXTENDS Naturals, Sequences, FiniteSets, Functions, McResult

CONSTANTS
    Prop,       \* the properties, by index
    Workers,    \* --workers
    Configs,    \* the number of configurations in config.toml
    Truth,      \* whether each property holds; IC3 is sound
    Cached,     \* the results that the run starts from
    Depth,      \* depths of the counterexamples that IC3 may find
    MaxBound,   \* bound on the levels that the workers trace, together
    MaxCrash    \* bound on the workers that crash

ASSUME PropAssumption == Prop \subseteq Nat /\ IsFiniteSet(Prop) /\ Prop # {}
ASSUME CountAssumption == {Workers, Configs, MaxBound, MaxCrash} \subseteq Nat /\ Depth \subseteq Nat
ASSUME TruthAssumption == Truth \in [Prop -> {"UNSAT", "SAT"}]
\* The results that the run command has read from its cache: earlier runs of the same model.
ASSUME CachedAssumption ==
    /\ Cached \in [Prop -> [kind : {"UNSAT", "SAT", "Unknown"}, depth : Nat]]
    /\ \A p \in Prop : IsUnknown(Cached[p]) \/ Cached[p].kind = Truth[p]
    /\ \A p \in Prop : Cached[p].kind = "UNSAT" => Cached[p] = UNSAT

\* A worker is known by its property and the index of its configuration.
Job == Prop \X (0..Configs - 1)

VARIABLES
    counter,    \* Scheduler::config_counter
    resolved,   \* Scheduler::resolved
    results,    \* PolyNexus::results
    certs,      \* PolyNexus::certs, by the result that they certify
    bound,      \* unknown_bound, 0 for None
    shown,      \* PropMcInfo::res of the command, set by every traced state
    proc,       \* the life of each worker's process
    answer,     \* the result of each worker's ic3.check()
    level,      \* the levels that each worker has traced
    states,     \* the state channels
    dones,      \* the done channels
    running,    \* the workers not reaped
    crashes,    \* the workers that have crashed
    stop,       \* the time limit is hit or the run is told to terminate
    pc          \* where run() is

schedVars == <<counter, resolved>>
resultVars == <<results, certs, bound, shown>>
workerVars == <<proc, answer, level, crashes>>
chanVars == <<states, dones>>
vars == <<schedVars, resultVars, workerVars, chanVars, running, stop, pc>>

-----------------------------------------------------------------------------
None == [kind |-> "none", depth |-> 0]
Right(p) == IF Truth[p] = "UNSAT" THEN {UNSAT} ELSE {SAT(d) : d \in Depth}
Definite == {UNSAT} \cup {SAT(d) : d \in Depth}

AllResolved == \A p \in Prop : resolved[p]
Alive == {w \in Job : proc[w] \in {"checking", "answered", "sent"}}

Init ==
    /\ counter = [p \in Prop |-> 0]
    /\ resolved = [p \in Prop |-> FALSE]
    /\ results = Cached
    /\ certs = [p \in Prop |-> None]
    /\ bound = [p \in Prop |-> 0]
    /\ shown = Cached
    /\ proc = [w \in Job |-> "none"]
    /\ answer = [w \in Job |-> None]
    /\ level = [w \in Job |-> 0]
    /\ states = [w \in Job |-> <<>>]
    /\ dones = [w \in Job |-> None]
    /\ running = {}
    /\ crashes = 0
    /\ stop = FALSE
    /\ pc = "fill"

-----------------------------------------------------------------------------
(* run_worker *)

Trace(w, r) == states' = [states EXCEPT ![w] = Append(@, r)]

TraceLevel(w) ==
    /\ proc[w] = "checking"
    /\ SumFunction(level) < MaxBound
    /\ Trace(w, Reached(level[w]))
    /\ level' = [level EXCEPT ![w] = @ + 1]
    /\ UNCHANGED <<schedVars, resultVars, proc, answer, crashes, dones, running, stop, pc>>

\* ic3.check() traces its result and returns it; it has no time limit, so never Unknown.
Answer(w) ==
    /\ proc[w] = "checking"
    /\ \E r \in Right(w[1]) : Trace(w, r) /\ answer' = [answer EXCEPT ![w] = r]
    /\ proc' = [proc EXCEPT ![w] = "answered"]
    /\ UNCHANGED <<schedVars, resultVars, level, crashes, dones, running, stop, pc>>

\* The proof or the counterexample is built, and sent with the result.
SendDone(w) ==
    /\ proc[w] = "answered"
    /\ proc' = [proc EXCEPT ![w] = "sent"]
    /\ dones' = [dones EXCEPT ![w] = answer[w]]
    /\ UNCHANGED <<schedVars, resultVars, answer, level, crashes, states, running, stop, pc>>

Exit(w) ==
    /\ proc[w] = "sent"
    /\ proc' = [proc EXCEPT ![w] = "exited"]
    /\ UNCHANGED <<schedVars, resultVars, answer, level, crashes, chanVars, running, stop, pc>>

\* After its done message a crash is an exit.
Crash(w) ==
    /\ proc[w] \in {"checking", "answered"}
    /\ crashes < MaxCrash
    /\ crashes' = crashes + 1
    /\ proc' = [proc EXCEPT ![w] = "crashed"]
    /\ UNCHANGED <<schedVars, resultVars, answer, level, chanVars, running, stop, pc>>

-----------------------------------------------------------------------------
(* The channels polled by the loop *)

\* merge_and_trace
Merge(p, r) ==
    LET merged == Or(results[p], r)
        stale == IsUnknown(merged) /\ bound[p] # 0 /\ merged.depth <= bound[p]
    IN  IF merged = results[p] \/ stale
        THEN UNCHANGED <<results, bound, shown>>
        ELSE /\ results' = [results EXCEPT ![p] = merged]
             /\ shown' = [shown EXCEPT ![p] = merged]
             /\ bound' = IF IsUnknown(merged) THEN [bound EXCEPT ![p] = merged.depth] ELSE bound

\* One message in poll_state_traces.
\* Slip: the last message stands.
HandleStateLast(w) ==
    /\ pc = "state"
    /\ states[w] # <<>>
    /\ states' = [states EXCEPT ![w] = Tail(@)]
    /\ results' = [results EXCEPT ![w[1]] = Head(states[w])]
    /\ shown' = [shown EXCEPT ![w[1]] = Head(states[w])]
    /\ UNCHANGED <<schedVars, certs, bound, workerVars, dones, running, stop, pc>>
HandleState(w) ==
    /\ pc = "state"
    /\ states[w] # <<>>
    /\ states' = [states EXCEPT ![w] = Tail(@)]
    /\ IF resolved[w[1]]
       THEN UNCHANGED <<results, bound, shown, pc>>
       ELSE IF Conflict(results[w[1]], Head(states[w]))
            THEN pc' = "panic" /\ UNCHANGED <<results, bound, shown>>
            ELSE Merge(w[1], Head(states[w])) /\ UNCHANGED pc
    /\ UNCHANGED <<schedVars, certs, workerVars, dones, running, stop>>

StatesPolled ==
    /\ pc = "state"
    /\ \A w \in Job : states[w] = <<>>
    /\ pc' = "done1"
    /\ UNCHANGED <<schedVars, resultVars, workerVars, chanVars, running, stop>>

\* One message in poll_done: on_worker_done.
\* Slip: a later answer of the same property replaces the certificate.
HandleDoneLast(w) ==
    /\ pc \in {"done1", "done2"}
    /\ dones[w] # None
    /\ dones' = [dones EXCEPT ![w] = None]
    /\ resolved' = [resolved EXCEPT ![w[1]] = TRUE]
    /\ certs' = [certs EXCEPT ![w[1]] = dones[w]]
    /\ IF resolved[w[1]]
       THEN UNCHANGED <<results, shown>>
       ELSE /\ results' = [results EXCEPT ![w[1]] = dones[w]]
            /\ shown' = [shown EXCEPT ![w[1]] = dones[w]]
    /\ UNCHANGED <<counter, bound, workerVars, states, running, stop, pc>>
HandleDone(w) ==
    /\ pc \in {"done1", "done2"}
    /\ dones[w] # None
    /\ dones' = [dones EXCEPT ![w] = None]
    /\ IF resolved[w[1]]
       THEN UNCHANGED <<resolved, results, certs, shown>>
       ELSE /\ resolved' = [resolved EXCEPT ![w[1]] = TRUE]
            /\ results' = [results EXCEPT ![w[1]] = dones[w]]
            /\ shown' = [shown EXCEPT ![w[1]] = dones[w]]
            /\ certs' = [certs EXCEPT ![w[1]] = dones[w]]
    /\ UNCHANGED <<counter, bound, workerVars, states, running, stop, pc>>

DonesPolled ==
    /\ pc = "done1"
    /\ \A w \in Job : dones[w] = None
    /\ pc' = "reap"
    /\ UNCHANGED <<schedVars, resultVars, workerVars, chanVars, running, stop>>

\* The second poll_done, with the answers of the workers just reaped; the loop ends once
\* every property is resolved.
\* Slip: the loop ends once no worker is left.
DonesPolledIdle ==
    /\ pc = "done2"
    /\ \A w \in Job : dones[w] = None
    /\ pc' = IF running = {} THEN "terminate" ELSE "fill"
    /\ UNCHANGED <<schedVars, resultVars, workerVars, chanVars, running, stop>>
DonesPolledAgain ==
    /\ pc = "done2"
    /\ \A w \in Job : dones[w] = None
    /\ pc' = IF AllResolved THEN "terminate" ELSE "fill"
    /\ UNCHANGED <<schedVars, resultVars, workerVars, chanVars, running, stop>>

-----------------------------------------------------------------------------
(* The loop of run() *)

\* reap_finished: every worker that has ended gives its place back. A worker that ends during
\* the loop over the workers counts as ended before it or after it.
\* Slip: no second look at the done channels.
ReapFinishedOnce ==
    /\ pc = "reap"
    /\ running' = running \cap Alive
    /\ pc' = IF AllResolved THEN "terminate" ELSE "fill"
    /\ UNCHANGED <<schedVars, resultVars, workerVars, chanVars, stop>>
ReapFinished ==
    /\ pc = "reap"
    /\ running' = running \cap Alive
    /\ pc' = "done2"
    /\ UNCHANGED <<schedVars, resultVars, workerVars, chanVars, stop>>

\* Scheduler::pick takes the first of the unresolved properties with the fewest picks.
\* Slip: the first of the unresolved properties.
PickedFirst(p) == ~resolved[p] /\ \A q \in Prop : ~resolved[q] => p <= q
Picked(p) ==
    /\ ~resolved[p]
    /\ \A q \in Prop :
        ~resolved[q] => \/ counter[p] < counter[q]
                        \/ counter[p] = counter[q] /\ p <= q

Start(w) ==
    /\ running' = running \cup {w}
    /\ proc' = [proc EXCEPT ![w] = "checking"]

\* fill_workers: a place is given to the next configuration of the picked property; the
\* unwrap in pick fails when there is none.
Fill ==
    /\ pc = "fill"
    /\ Cardinality(running) < Workers /\ ~AllResolved
    /\ \E p \in Prop :
        /\ Picked(p)
        /\ counter' = [counter EXCEPT ![p] = @ + 1]
        /\ IF counter[p] < Configs
           THEN Start(<<p, counter[p]>>) /\ UNCHANGED pc
           ELSE pc' = "panic" /\ UNCHANGED <<running, proc>>
    /\ UNCHANGED <<resolved, resultVars, answer, level, crashes, chanVars, stop>>

\* The end of fill_workers, and the head of the loop, the one place where the time limit and
\* the request to terminate are looked at: one that came before is met here.
Filled ==
    /\ pc = "fill"
    /\ Cardinality(running) >= Workers \/ AllResolved
    /\ stop' \in BOOLEAN
    /\ pc' = IF stop' THEN "terminate" ELSE "state"
    /\ UNCHANGED <<schedVars, resultVars, workerVars, chanVars, running>>

\* terminate_running kills the workers and waits for them. What a worker still does before
\* the signal reaches it is read by nobody.
TerminateRunning ==
    /\ pc = "terminate"
    /\ proc' = [w \in Job |-> IF w \in Alive THEN "crashed" ELSE proc[w]]
    /\ running' = {}
    /\ pc' = "done"
    /\ UNCHANGED <<schedVars, resultVars, answer, level, crashes, chanVars, stop>>

-----------------------------------------------------------------------------
WorkerStep(w) == TraceLevel(w) \/ Answer(w) \/ SendDone(w) \/ Exit(w) \/ Crash(w)

Parent ==
    \/ StatesPolled \/ DonesPolled \/ ReapFinished \/ DonesPolledAgain
    \/ Fill \/ Filled \/ TerminateRunning
    \/ \E w \in Job : HandleState(w) \/ HandleDone(w)

Next ==
    \/ \E w \in Job : WorkerStep(w)
    \/ Parent

\* The parent's loop goes on, and IC3, once it has its result, builds the
\* certificate and exits. Nothing says that a worker ever has a result.
Spec ==
    /\ Init /\ [][Next]_vars
    /\ WF_vars(Parent)
    /\ \A w \in Job : WF_vars(SendDone(w) \/ Exit(w))

-----------------------------------------------------------------------------
(* What the run promises *)

\* A resolved property keeps the result of one worker and the certificate of the same, although
\* other configurations go on tracing results of the same property: proof(p) and cex(p) match.
\* A run that was not stopped returns with every property resolved.
ResolvedCertified ==
    /\ \A p \in Prop :
        resolved[p] =>
            /\ certs[p] = results[p] /\ shown[p] = results[p]
            /\ \E w \in Job : w[1] = p /\ answer[w] = results[p]
    /\ pc = "done" => stop \/ AllResolved

\* What the command shows for a property only advances: a bound gives way to a larger bound or
\* to a definite result, which never changes its kind ("only emit increasing values").
ShownAdvances ==
    [][\A p \in Prop :
        shown'[p] # shown[p] =>
            \/ IsUnknown(shown[p]) /\ ~IsUnknown(shown'[p])
            \/ IsUnknown(shown[p]) /\ shown'[p].depth > shown[p].depth
            \/ shown[p].kind = "SAT" /\ shown'[p].kind = "SAT"]_vars

\* The processes in flight never exceed --workers, and the unresolved properties have had the
\* same number of configurations, one more or less, so that none starves.
PicksBalanced ==
    /\ Cardinality(running) <= Workers
    /\ \A p, q \in Prop : ~resolved[p] /\ ~resolved[q] => counter[p] <= counter[q] + 1

\* No place is given to a property of which a worker has answered and been reaped: its done
\* message is read before the free place is filled.
NoLateStart ==
    pc = "fill" =>
        \A w \in Job \ running : proc[w] = "exited" => resolved[w[1]]

\* Scheduler::pick finds a configuration, whatever the number of workers.
PickSucceeds == pc # "panic"

\* Once every property has a worker that has answered and exited, run() returns, although
\* other workers may go on for ever.
AnswersEnd ==
    (\A p \in Prop : \E w \in Job : w[1] = p /\ proc[w] = "exited") ~> pc = "done"
=============================================================================
