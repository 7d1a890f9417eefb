----------------------------- MODULE Portfolio -----------------------------
(***************************************************************************)
(* The process portfolio of src/src/portfolio: check() forks one worker per *)
(* engine configuration, learns their results over one state channel each, *)
(* takes the first definite one as the winner's, waits for the winner's    *)
(* certificate and for its exit, then terminates and reaps the others.     *)
(*                                                                         *)
(* Workers are processes of their own: they may answer in any order, crash  *)
(* between any two of their steps, or never answer.                         *)
(***************************************************************************)
EXTENDS Naturals, FiniteSets

CONSTANTS
    Worker,        \* Portfolio::engines, by index
    NoWorker,
    Depth,         \* depths of the counterexamples that engines may find
    CertOptions,   \* the values of need_cert
    ShareOptions   \* the values of --share-lemma

ASSUME WorkerAssumption == NoWorker \notin Worker
ASSUME DepthAssumption == Depth \subseteq Nat /\ Depth # {}
ASSUME OptionAssumption == CertOptions \subseteq BOOLEAN /\ ShareOptions \subseteq BOOLEAN

VARIABLES
    truth,        \* whether the property holds; engines are sound
    need_cert,    \* Portfolio::need_cert
    share_lemma,  \* PortfolioConfig::share_lemma
    proc,         \* the life of each worker's process
    answer,       \* the result of each worker's engine.check()
    chan,         \* the last message in each worker's state channel
    got,          \* the messages of one select, not handled yet
    state,        \* Worker::state
    running,      \* Portfolio::running: the children not reaped
    winner,       \* Portfolio::winner_idx
    cert,         \* Portfolio::cert
    hand,         \* the worker whose clean exit reap_child has just reaped
    stop,         \* the time limit is hit or the portfolio is told to terminate
    pc,           \* where check() is
    res           \* what check() returns

parentVars == <<got, state, running, winner, cert, hand, pc, res>>
workerVars == <<proc, answer>>
options == <<truth, need_cert, share_lemma>>
vars == <<options, workerVars, chan, stop, parentVars>>

-----------------------------------------------------------------------------
NoMsg == [kind |-> "empty", depth |-> 0]
Unknown == [kind |-> "Unknown", depth |-> 0]
Definite == [kind : {"UNSAT"}, depth : {0}] \cup [kind : {"SAT"}, depth : Depth]
Right == {r \in Definite : r.kind = truth}

IsUnknown(r) == r.kind = "Unknown"

Alive == {w \in Worker : proc[w] \in {"checking", "answered", "certified"}}
\* A child that has died and has not been waited for.
Zombies == running \ Alive

\* The workers' lemma channels of which LemmaMgr::add_worker has kept a sender: all of them.
KeptSenders == Worker
LemmaChannelOpen(w) == w \in Alive \cup KeptSenders

Init ==
    /\ truth \in {"UNSAT", "SAT"}
    /\ need_cert \in CertOptions
    /\ share_lemma \in ShareOptions
    /\ proc = [w \in Worker |-> "checking"]
    /\ answer = [w \in Worker |-> Unknown]
    /\ chan = [w \in Worker |-> NoMsg]
    /\ got = [w \in Worker |-> NoMsg]
    /\ state = [w \in Worker |-> Unknown]
    /\ running = Worker
    /\ winner = NoWorker
    /\ cert = NoMsg
    /\ hand = NoWorker
    /\ stop = FALSE
    /\ pc = "loop"
    /\ res = Unknown

-----------------------------------------------------------------------------
(* Worker::run *)

\* The engine traces a bound it has reached.
TraceBound(w) ==
    /\ proc[w] = "checking"
    /\ chan' = [chan EXCEPT ![w] = Unknown]
    /\ UNCHANGED <<options, workerVars, stop, parentVars>>

\* The engine traces its result and check() returns it.
TraceResult(w) ==
    /\ proc[w] = "checking"
    /\ \E r \in Right :
        /\ chan' = [chan EXCEPT ![w] = r]
        /\ answer' = [answer EXCEPT ![w] = r]
    /\ proc' = [proc EXCEPT ![w] = "answered"]
    /\ UNCHANGED <<options, stop, parentVars>>

\* check() returns Unknown, of which an engine traces nothing: the worker exits cleanly, or
\* panics for want of a certificate.
GiveUp(w) ==
    /\ proc[w] = "checking"
    /\ proc' = [proc EXCEPT ![w] = IF need_cert THEN "crashed" ELSE "gave up"]
    /\ UNCHANGED <<options, answer, chan, stop, parentVars>>

\* The proof or counterexample is built, restored and sent.
SendCert(w) ==
    /\ proc[w] = "answered"
    /\ need_cert
    /\ proc' = [proc EXCEPT ![w] = "certified"]
    /\ UNCHANGED <<options, answer, chan, stop, parentVars>>

Exit(w) ==
    /\ proc[w] = (IF need_cert THEN "certified" ELSE "answered")
    /\ proc' = [proc EXCEPT ![w] = "exited"]
    /\ UNCHANGED <<options, answer, chan, stop, parentVars>>

\* A panic (engine.proof() of a k-induction with simple paths does), a kill, no memory.
Crash(w) ==
    /\ w \in Alive
    /\ proc' = [proc EXCEPT ![w] = "crashed"]
    /\ UNCHANGED <<options, answer, chan, stop, parentVars>>

-----------------------------------------------------------------------------
(* The loop of check() *)

Stop ==
    /\ ~stop
    /\ stop' = TRUE
    /\ UNCHANGED <<options, workerVars, chan, parentVars>>

LoopStop ==
    /\ pc = "loop"
    /\ stop
    /\ res' = Unknown
    /\ pc' = "terminate"
    /\ UNCHANGED <<options, workerVars, chan, stop, got, state, running, winner, cert, hand>>

LoopEmpty ==
    /\ pc = "loop"
    /\ ~stop
    /\ running = {}
    /\ res' = IF winner = NoWorker THEN Unknown ELSE state[winner]
    /\ pc' = "join"
    /\ UNCHANGED <<options, workerVars, chan, stop, got, state, running, winner, cert, hand>>

\* poll_state_traces: one select takes what every channel holds.
Select ==
    /\ pc' = "handle"
    /\ got' = chan
    /\ chan' = [w \in Worker |-> NoMsg]

LoopPoll ==
    /\ pc = "loop"
    /\ ~stop
    /\ running # {}
    /\ Select
    /\ UNCHANGED <<options, workerVars, stop, state, running, winner, cert, hand, res>>

\* on_state_trace and accept_winner, up to its cert_rx.recv().
HandleTrace(w) ==
    /\ pc = "handle"
    /\ got[w] # NoMsg
    /\ state' = [state EXCEPT ![w] = got[w]]
    /\ got' = [got EXCEPT ![w] = NoMsg]
    /\ IF IsUnknown(got[w]) \/ winner # NoWorker
       THEN UNCHANGED <<winner, pc>>
       ELSE /\ winner' = w
            /\ pc' = IF need_cert THEN "recv" ELSE pc
    /\ UNCHANGED <<options, workerVars, chan, stop, running, cert, hand, res>>

\* The blocking recv(): the parent holds a sender of its own, so a dead worker is no error.
RecvCert ==
    /\ pc = "recv"
    /\ proc[winner] \in {"certified", "exited"}
    /\ cert' = answer[winner]
    /\ pc' = "handle"
    /\ UNCHANGED <<options, workerVars, chan, stop, got, state, running, winner, hand, res>>

Handled == pc = "handle" /\ \A w \in Worker : got[w] = NoMsg

\* The end of poll_state_traces, called by the loop.
LoopReap ==
    /\ Handled
    /\ hand = NoWorker
    /\ pc' = "reap"
    /\ UNCHANGED <<options, workerVars, chan, stop, got, state, running, winner, cert, hand, res>>

-----------------------------------------------------------------------------
(* reap_child *)

\* waitpid finds a worker that exited with 0: before it is compared with the winner, its
\* traces are polled until there is a winner.
\* Slip: it is compared with the winner there is.
ReapCleanNoPoll(w) ==
    /\ pc = "reap"
    /\ w \in Zombies
    /\ proc[w] \in {"exited", "gave up"}
    /\ running' = running \ {w}
    /\ hand' = IF winner = w THEN w ELSE NoWorker
    /\ pc' = IF winner = w THEN "handle" ELSE "reap"
    /\ UNCHANGED <<options, workerVars, chan, stop, got, state, winner, cert, res>>
ReapClean(w) ==
    /\ pc = "reap"
    /\ w \in Zombies
    /\ proc[w] \in {"exited", "gave up"}
    /\ running' = running \ {w}
    /\ hand' = w
    /\ IF winner = NoWorker THEN Select ELSE pc' = "handle" /\ UNCHANGED <<got, chan>>
    /\ UNCHANGED <<options, workerVars, stop, state, winner, cert, res>>

ReapPollAgain ==
    /\ Handled
    /\ hand # NoWorker
    /\ winner = NoWorker
    /\ Select
    /\ UNCHANGED <<options, workerVars, stop, state, running, winner, cert, hand, res>>

ReapOther ==
    /\ Handled
    /\ hand # NoWorker
    /\ winner \notin {NoWorker, hand}
    /\ hand' = NoWorker
    /\ pc' = "reap"
    /\ UNCHANGED <<options, workerVars, chan, stop, got, state, running, winner, cert, res>>

\* Slip: any clean exit ends the race.
ReapWinnerAny ==
    /\ Handled
    /\ hand # NoWorker
    /\ winner # NoWorker
    /\ res' = state[hand]
    /\ pc' = IF IsUnknown(state[hand]) THEN "panic" ELSE "terminate"
    /\ UNCHANGED <<options, workerVars, chan, stop, got, state, running, winner, cert, hand>>
\* Slip: the others are left running.
ReapWinnerLeave ==
    /\ Handled
    /\ hand # NoWorker
    /\ winner = hand
    /\ res' = state[hand]
    /\ pc' = IF IsUnknown(state[hand]) THEN "panic" ELSE "join"
    /\ UNCHANGED <<options, workerVars, chan, stop, got, state, running, winner, cert, hand>>
ReapWinner ==
    /\ Handled
    /\ hand # NoWorker
    /\ winner = hand
    /\ res' = state[hand]
    /\ pc' = IF IsUnknown(state[hand]) THEN "panic" ELSE "terminate"
    /\ UNCHANGED <<options, workerVars, chan, stop, got, state, running, winner, cert, hand>>

ReapCrash(w) ==
    /\ pc = "reap"
    /\ w \in Zombies
    /\ proc[w] = "crashed"
    /\ running' = running \ {w}
    /\ UNCHANGED <<options, workerVars, chan, stop, got, state, winner, cert, hand, pc, res>>

ReapNone ==
    /\ pc = "reap"
    /\ Zombies = {}
    /\ pc' = "loop"
    /\ UNCHANGED <<options, workerVars, chan, stop, got, state, running, winner, cert, hand, res>>

-----------------------------------------------------------------------------
(* terminate_running and the end of check() *)

\* A worker that gets the SIGTERM, if it has not ended before.
Sigterm(w) ==
    /\ pc = "terminate"
    /\ w \in Alive \cap running
    /\ proc' = [proc EXCEPT ![w] = "crashed"]
    /\ UNCHANGED <<options, answer, chan, stop, parentVars>>

\* Slip: only the workers that exited are taken off.
TerminateReapExited(w) ==
    /\ pc = "terminate"
    /\ w \in Zombies
    /\ proc[w] \in {"exited", "gave up"}
    /\ running' = running \ {w}
    /\ UNCHANGED <<options, workerVars, chan, stop, got, state, winner, cert, hand, pc, res>>
TerminateReap(w) ==
    /\ pc = "terminate"
    /\ w \in Zombies
    /\ running' = running \ {w}
    /\ UNCHANGED <<options, workerVars, chan, stop, got, state, winner, cert, hand, pc, res>>

Terminated ==
    /\ pc = "terminate"
    /\ running = {}
    /\ pc' = "join"
    /\ UNCHANGED <<options, workerVars, chan, stop, got, state, running, winner, cert, hand, res>>

\* LemmaMgr::run ends when every lemma channel is closed, and check() joins its thread.
Join ==
    /\ pc = "join"
    /\ share_lemma => \A w \in Worker : ~LemmaChannelOpen(w)
    /\ pc' = "done"
    /\ UNCHANGED <<options, workerVars, chan, stop, got, state, running, winner, cert, hand, res>>

-----------------------------------------------------------------------------
WorkerStep(w) == TraceResult(w) \/ SendCert(w) \/ Exit(w) \/ TraceBound(w) \/ GiveUp(w) \/ Crash(w)

Parent ==
    \/ LoopStop \/ LoopEmpty \/ LoopPoll \/ RecvCert \/ LoopReap
    \/ ReapPollAgain \/ ReapOther \/ ReapWinner \/ ReapNone
    \/ \E w \in Worker : HandleTrace(w) \/ ReapClean(w) \/ ReapCrash(w) \/ TerminateReap(w)
    \/ Terminated \/ Join

Next ==
    \/ \E w \in Worker : WorkerStep(w) \/ Sigterm(w)
    \/ Parent
    \/ Stop

\* The parent's loop goes on, signals arrive, and an engine that has its result builds the
\* certificate and exits. Nothing says that an engine ever has a result.
Spec ==
    /\ Init /\ [][Next]_vars
    /\ WF_vars(Parent)
    /\ \A w \in Worker : WF_vars(SendCert(w) \/ Exit(w)) /\ WF_vars(Sigterm(w))

-----------------------------------------------------------------------------
(* What the portfolio promises *)

\* The result returned is the winner's own, with the winner's certificate if one is needed, so
\* proof() and cex() match it, and the assert! on the winner's state in reap_child holds:
\* whichever worker exits first, and whatever the others trace meanwhile.
ResultIsWinners ==
    /\ pc # "panic"
    /\ pc = "done" /\ ~IsUnknown(res) =>
        /\ winner # NoWorker
        /\ res = answer[winner]
        /\ need_cert => cert = res

\* Unknown is returned only on a stop, or when no worker has both answered and exited cleanly:
\* the answer of a worker reaped before its last trace was read is not lost.
NoAnswerDropped ==
    pc = "done" /\ IsUnknown(res) =>
        stop \/ \A w \in Worker : proc[w] # "exited"

\* When check() returns every worker is dead and waited for, as terminate_running asserts.
NoWorkerLeft == pc = "done" => Alive = {} /\ running = {}

\* A winner whose process died before a clean exit.
WinnerDied == winner # NoWorker /\ proc[winner] = "crashed"

\* Once some worker has answered and exited, check() returns, although other workers may
\* never answer; except that it may not if the winner dies on its way out, or with
\* --share-lemma.
AnswerReturned ==
    (\E w \in Worker : proc[w] = "exited") ~> (pc = "done" \/ WinnerDied \/ share_lemma)

\* A stop is heeded, with the same exceptions, unless a worker has exited without tracing a
\* result, for which reap_child waits.
StopHeeded ==
    stop ~> (pc = "done" \/ WinnerDied \/ share_lemma \/ \E w \in Worker : proc[w] = "gave up")

\* A worker that has traced a result makes check() return.
AnswerEnds == (\E w \in Worker : proc[w] = "answered") ~> pc = "done"
=============================================================================
