-------------------------- MODULE PortfolioProofs --------------------------
(***************************************************************************)
(* What the process portfolio promises, for every set of workers, of        *)
(* depths and of options: the result it returns is its winner's and comes   *)
(* with the winner's certificate, no answer of a worker that exited cleanly  *)
(* is lost, and no worker outlives check().                                 *)
(***************************************************************************)
EXTENDS Portfolio, TLAPS

(***************************************************************************)
(* The inductive invariant.                                                 *)
(***************************************************************************)

Result == Definite \cup {Unknown}
Message == Result \cup {NoMsg}

\* The parent is still in its loop, in one of the calls the loop makes included.
Racing == pc \in {"loop", "handle", "recv", "reap"}

TypeOK ==
    /\ truth \in {"UNSAT", "SAT"} /\ need_cert \in BOOLEAN /\ share_lemma \in BOOLEAN
    /\ proc \in [Worker -> {"checking", "answered", "certified", "exited", "gave up", "crashed"}]
    /\ answer \in [Worker -> Result]
    /\ chan \in [Worker -> Message]
    /\ got \in [Worker -> Message]
    /\ state \in [Worker -> Result]
    /\ running \subseteq Worker
    /\ winner \in Worker \cup {NoWorker}
    /\ cert \in Message
    /\ hand \in Worker \cup {NoWorker}
    /\ stop \in BOOLEAN
    /\ pc \in {"loop", "handle", "recv", "reap", "terminate", "join", "done", "panic"}
    /\ res \in Result

\* A worker that has not answered has no answer, one past its answer has.
Answering ==
    \A w \in Worker :
        /\ proc[w] \in {"checking", "gave up"} => answer[w] = Unknown
        /\ proc[w] \in {"answered", "certified", "exited"} => answer[w] # Unknown

\* A definite message is the sender's answer, and it is in one place only: in the channel, taken
\* by a select, or in the worker's state. So a later message never hides it.
Delivery ==
    \A w \in Worker :
        /\ got[w] # NoMsg => pc \in {"handle", "recv"}
        /\ answer[w] = Unknown =>
            chan[w] \in {NoMsg, Unknown} /\ got[w] \in {NoMsg, Unknown} /\ state[w] = Unknown
        /\ answer[w] # Unknown =>
            \/ chan[w] = answer[w] /\ got[w] \in {NoMsg, Unknown} /\ state[w] = Unknown
            \/ chan[w] = NoMsg /\ got[w] = answer[w] /\ state[w] = Unknown
            \/ chan[w] = NoMsg /\ got[w] = NoMsg /\ state[w] = answer[w]

\* There is a winner as soon as a definite answer is in a worker's state, its own is in its state,
\* and its certificate is here once the parent has passed recv().
Winning ==
    /\ winner = NoWorker => \A w \in Worker : state[w] = Unknown
    /\ winner # NoWorker => answer[winner] # Unknown /\ state[winner] = answer[winner]
    /\ pc = "recv" => winner # NoWorker
    /\ need_cert /\ winner # NoWorker /\ pc # "recv" => cert = answer[winner]

\* Only dead children are reaped; while there is no winner the parent drops no worker that
\* exited cleanly but the one in its hand, whose traces it goes on polling.
Reaping ==
    /\ Alive \subseteq running
    /\ pc \in {"loop", "reap"} => hand = NoWorker
    /\ Racing /\ winner = NoWorker =>
        \A w \in Worker : proc[w] = "exited" => w \in running \cup {hand}

\* What check() is about to return, or has.
Returning ==
    /\ pc # "panic"
    /\ Racing => res = Unknown
    /\ ~IsUnknown(res) => winner # NoWorker /\ res = answer[winner]
    /\ pc = "terminate" /\ IsUnknown(res) => stop
    /\ pc \in {"join", "done"} => running = {}
    /\ pc \in {"join", "done"} /\ IsUnknown(res) =>
        stop \/ \A w \in Worker : proc[w] # "exited"

IInv == TypeOK /\ Answering /\ Delivery /\ Winning /\ Reaping /\ Returning

-----------------------------------------------------------------------------
\* The kinds of messages are told apart.
LEMMA Kinds ==
    /\ \A r \in Definite : ~IsUnknown(r) /\ r # Unknown /\ r # NoMsg
    /\ IsUnknown(Unknown) /\ ~IsUnknown(NoMsg) /\ Unknown # NoMsg
    /\ Right \subseteq Definite
BY DEF Definite, Right, IsUnknown, Unknown, NoMsg

\* What the messages are made of.
LEMMA Messages ==
    Right \subseteq Result /\ Unknown \in Result /\ Result \subseteq Message /\ NoMsg \in Message
BY Kinds DEF Result, Message

LEMMA Initially == Init => IInv
BY Kinds, WorkerAssumption, OptionAssumption
   DEF Init, IInv, TypeOK, Answering, Delivery, Winning, Reaping, Returning, Racing, Alive,
       Result, Message

\* The steps of a worker and of the signals preserve the invariant: a worker that answers has
\* sent nothing definite before, and no worker leaves the running ones by itself.
LEMMA WorkerSteps ==
    ASSUME IInv, NEW w \in Worker, WorkerStep(w) \/ Sigterm(w)
    PROVE  IInv'
<1> USE Kinds, WorkerAssumption DEF IInv, options, workerVars, parentVars
<1>1. CASE TraceBound(w)
  <2>1. TypeOK'
    BY <1>1, Messages DEF TraceBound, TypeOK
  <2>2. Delivery'
    <3>1. answer[w] = Unknown
      BY <1>1 DEF TraceBound, Answering
    <3> QED
      BY <1>1, <3>1 DEF TraceBound, TypeOK, Delivery
  <2>3. Answering' /\ Winning' /\ Reaping' /\ Returning'
    BY <1>1 DEF TraceBound, TypeOK, Answering, Winning, Reaping, Racing, Alive, Returning
  <2> QED
    BY <2>1, <2>2, <2>3
<1>2. CASE TraceResult(w)
  <2>0. PICK r \in Right : chan' = [chan EXCEPT ![w] = r] /\ answer' = [answer EXCEPT ![w] = r]
    BY <1>2 DEF TraceResult
  <2>1. r \in Result /\ r \notin {Unknown, NoMsg} /\ answer[w] = Unknown
    BY <1>2 DEF TraceResult, Answering, Result
  <2>2. TypeOK'
    BY <1>2, <2>0, <2>1 DEF TraceResult, TypeOK, Message
  <2>3. Answering'
    BY <1>2, <2>0, <2>1 DEF TraceResult, TypeOK, Answering
  <2>4. Delivery'
    BY <1>2, <2>0, <2>1 DEF TraceResult, TypeOK, Delivery
  <2>5. winner # w
    BY <2>1 DEF Winning
  <2>6. Winning' /\ Reaping' /\ Returning'
    BY <1>2, <2>0, <2>1, <2>5 DEF TraceResult, TypeOK, Winning, Reaping, Returning, Racing, Alive
  <2> QED
    BY <2>2, <2>3, <2>4, <2>6
<1>3. CASE GiveUp(w)
  <2>1. TypeOK'
    BY <1>3, Messages DEF GiveUp, TypeOK
  <2>2. Answering'
    BY <1>3 DEF GiveUp, TypeOK, Answering
  <2>3. Reaping'
    BY <1>3 DEF GiveUp, TypeOK, Reaping, Winning, Racing, Alive
  <2>4. Returning'
    BY <1>3 DEF GiveUp, TypeOK, Winning, Reaping, Returning, Racing, Alive
  <2>5. Delivery' /\ Winning'
    BY <1>3 DEF GiveUp, TypeOK, Answering, Delivery, Winning
  <2> QED
    BY <2>1, <2>2, <2>3, <2>4, <2>5
<1>4. CASE SendCert(w)
  <2>1. TypeOK'
    BY <1>4, Messages DEF SendCert, TypeOK
  <2>2. Answering'
    BY <1>4 DEF SendCert, TypeOK, Answering
  <2>3. Reaping'
    BY <1>4 DEF SendCert, TypeOK, Reaping, Winning, Racing, Alive
  <2>4. Returning'
    BY <1>4 DEF SendCert, TypeOK, Winning, Reaping, Returning, Racing, Alive
  <2>5. Delivery' /\ Winning'
    BY <1>4 DEF SendCert, TypeOK, Answering, Delivery, Winning
  <2> QED
    BY <2>1, <2>2, <2>3, <2>4, <2>5
<1>5. CASE Exit(w)
  <2>1. TypeOK'
    BY <1>5, Messages DEF Exit, TypeOK
  <2>2. Answering'
    BY <1>5 DEF Exit, TypeOK, Answering
  <2>3. Reaping'
    BY <1>5 DEF Exit, TypeOK, Reaping, Winning, Racing, Alive
  <2>4. Returning'
    BY <1>5 DEF Exit, TypeOK, Winning, Reaping, Returning, Racing, Alive
  <2>5. Delivery' /\ Winning'
    BY <1>5 DEF Exit, TypeOK, Answering, Delivery, Winning
  <2> QED
    BY <2>1, <2>2, <2>3, <2>4, <2>5
<1>6. CASE Crash(w)
  <2>1. TypeOK'
    BY <1>6, Messages DEF Crash, TypeOK
  <2>2. Answering'
    BY <1>6 DEF Crash, TypeOK, Answering
  <2>3. Reaping'
    BY <1>6 DEF Crash, TypeOK, Reaping, Winning, Racing, Alive
  <2>4. Returning'
    BY <1>6 DEF Crash, TypeOK, Winning, Reaping, Returning, Racing, Alive
  <2>5. Delivery' /\ Winning'
    BY <1>6 DEF Crash, TypeOK, Answering, Delivery, Winning
  <2> QED
    BY <2>1, <2>2, <2>3, <2>4, <2>5
<1>7. CASE Sigterm(w)
  <2>1. TypeOK'
    BY <1>7, Messages DEF Sigterm, TypeOK
  <2>2. Answering'
    BY <1>7 DEF Sigterm, TypeOK, Answering
  <2>3. Reaping'
    BY <1>7 DEF Sigterm, TypeOK, Reaping, Winning, Racing, Alive
  <2>4. Returning'
    BY <1>7 DEF Sigterm, TypeOK, Winning, Reaping, Returning, Racing, Alive
  <2>5. Delivery' /\ Winning'
    BY <1>7 DEF Sigterm, TypeOK, Answering, Delivery, Winning
  <2> QED
    BY <2>1, <2>2, <2>3, <2>4, <2>5
<1> QED
  BY <1>1, <1>2, <1>3, <1>4, <1>5, <1>6, <1>7 DEF WorkerStep

\* The steps of the parent preserve the invariant.
LEMMA ParentSteps == ASSUME IInv, Parent PROVE IInv'
<1> USE Kinds, WorkerAssumption DEF IInv, options, workerVars, parentVars
<1>1. ASSUME NEW w \in Worker, HandleTrace(w) PROVE IInv'
  <2>1. TypeOK'
    BY <1>1 DEF HandleTrace, TypeOK, Result, Message, Delivery
  <2>2. Delivery'
    BY <1>1 DEF HandleTrace, TypeOK, Answering, Delivery
  <2>3. Winning'
    BY <1>1 DEF HandleTrace, TypeOK, Winning, Answering, Delivery, Result, Message
  <2>4. Reaping'
    BY <1>1 DEF HandleTrace, TypeOK, Reaping, Winning, Racing, Alive
  <2>5. Returning'
    <3>1. res' = Unknown /\ pc' \in {"handle", "recv"}
      BY <1>1 DEF HandleTrace, Returning, Racing
    <3> QED
      BY <3>1 DEF Returning
  <2>6. Answering'
    BY <1>1 DEF HandleTrace, TypeOK, Answering
  <2> QED
    BY <2>1, <2>2, <2>3, <2>4, <2>5, <2>6
<1>2. ASSUME NEW w \in Worker, ReapClean(w) PROVE IInv'
  <2>1. TypeOK'
    BY <1>2 DEF ReapClean, Select, Zombies, TypeOK, Result, Message
  <2>2. Delivery'
    BY <1>2 DEF ReapClean, Select, Zombies, TypeOK, Answering, Delivery
  <2>3. Reaping'
    BY <1>2 DEF ReapClean, Select, Zombies, TypeOK, Reaping, Winning, Racing, Alive
  <2>4. Returning'
    BY <1>2 DEF ReapClean, Select, Zombies, TypeOK, Winning, Reaping, Returning, Racing,
       Alive
  <2>5. Answering' /\ Winning'
    BY <1>2 DEF ReapClean, Select, Zombies, TypeOK, Answering, Winning
  <2> QED
    BY <2>1, <2>2, <2>3, <2>4, <2>5
<1>3. ASSUME NEW w \in Worker, ReapCrash(w) PROVE IInv'
  <2>1. TypeOK'
    BY <1>3, Messages DEF ReapCrash, Zombies, TypeOK
  <2>2. Reaping'
    BY <1>3 DEF ReapCrash, Zombies, TypeOK, Reaping, Winning, Racing, Alive
  <2>3. Returning'
    BY <1>3 DEF ReapCrash, Zombies, TypeOK, Winning, Reaping, Returning, Racing, Alive
  <2>4. Answering' /\ Delivery' /\ Winning'
    BY <1>3 DEF ReapCrash, Zombies, TypeOK, Answering, Delivery, Winning
  <2> QED
    BY <2>1, <2>2, <2>3, <2>4
<1>4. ASSUME NEW w \in Worker, TerminateReap(w) PROVE IInv'
  <2>1. TypeOK'
    BY <1>4, Messages DEF TerminateReap, Zombies, TypeOK
  <2>2. Reaping'
    BY <1>4 DEF TerminateReap, Zombies, TypeOK, Reaping, Winning, Racing, Alive
  <2>3. Answering' /\ Delivery' /\ Winning' /\ Returning'
    BY <1>4 DEF TerminateReap, Zombies, TypeOK, Answering, Delivery, Winning, Reaping,
       Returning, Racing, Alive
  <2> QED
    BY <2>1, <2>2, <2>3
<1>5. CASE LoopStop
  <2>1. TypeOK' /\ Answering' /\ Delivery' /\ Winning'
    BY <1>5 DEF LoopStop, TypeOK, Answering, Delivery, Winning, Result, Message
  <2>2. Reaping' /\ Returning'
    BY <1>5 DEF LoopStop, TypeOK, Winning, Reaping, Returning, Racing, Alive
  <2> QED
    BY <2>1, <2>2
<1>6. CASE LoopEmpty
  <2>1. TypeOK' /\ Answering' /\ Delivery' /\ Winning'
    BY <1>6 DEF LoopEmpty, TypeOK, Answering, Delivery, Winning, Result, Message
  <2>2. Reaping' /\ Returning'
    BY <1>6 DEF LoopEmpty, TypeOK, Winning, Reaping, Returning, Racing, Alive, Result
  <2> QED
    BY <2>1, <2>2
<1>7. CASE LoopPoll
  <2>1. TypeOK' /\ Answering' /\ Delivery' /\ Winning'
    BY <1>7 DEF LoopPoll, Select, TypeOK, Answering, Delivery, Winning, Result, Message
  <2>2. Reaping' /\ Returning'
    BY <1>7 DEF LoopPoll, Select, TypeOK, Winning, Reaping, Returning, Racing, Alive
  <2> QED
    BY <2>1, <2>2
<1>8. CASE RecvCert
  <2>1. TypeOK'
    BY <1>8 DEF RecvCert, TypeOK, Winning, Message
  <2>2. Winning'
    BY <1>8 DEF RecvCert, TypeOK, Winning
  <2>3. Answering' /\ Delivery' /\ Reaping' /\ Returning'
    BY <1>8 DEF RecvCert, TypeOK, Answering, Delivery, Reaping, Returning, Racing, Alive
  <2> QED
    BY <2>1, <2>2, <2>3
<1>9. CASE LoopReap
  <2>1. TypeOK' /\ Answering' /\ Delivery' /\ Winning'
    BY <1>9 DEF LoopReap, Handled, TypeOK, Answering, Delivery, Winning
  <2>2. Reaping' /\ Returning'
    BY <1>9 DEF LoopReap, Handled, TypeOK, Winning, Reaping, Returning, Racing, Alive
  <2> QED
    BY <2>1, <2>2
<1>10. CASE ReapPollAgain
  <2>1. TypeOK' /\ Answering' /\ Delivery' /\ Winning'
    BY <1>10 DEF ReapPollAgain, Select, Handled, TypeOK, Answering, Delivery, Winning,
       Result, Message
  <2>2. Reaping' /\ Returning'
    BY <1>10 DEF ReapPollAgain, Select, Handled, TypeOK, Winning, Reaping, Returning,
       Racing, Alive
  <2> QED
    BY <2>1, <2>2
<1>11. CASE ReapOther
  <2>1. TypeOK' /\ Answering' /\ Delivery' /\ Winning'
    BY <1>11 DEF ReapOther, Handled, TypeOK, Answering, Delivery, Winning
  <2>2. Reaping' /\ Returning'
    BY <1>11 DEF ReapOther, Handled, TypeOK, Winning, Reaping, Returning, Racing, Alive
  <2> QED
    BY <2>1, <2>2
<1>12. CASE ReapWinner
  <2>1. TypeOK' /\ Answering' /\ Delivery' /\ Winning'
    BY <1>12 DEF ReapWinner, Handled, TypeOK, Answering, Delivery, Winning, Result,
       Message
  <2>2. Reaping' /\ Returning'
    BY <1>12 DEF ReapWinner, Handled, TypeOK, Winning, Reaping, Returning, Racing, Alive,
       Result
  <2> QED
    BY <2>1, <2>2
<1>13. CASE ReapNone
  <2>1. TypeOK' /\ Answering' /\ Delivery' /\ Winning'
    BY <1>13 DEF ReapNone, Zombies, TypeOK, Answering, Delivery, Winning
  <2>2. Reaping' /\ Returning'
    BY <1>13 DEF ReapNone, Zombies, TypeOK, Winning, Reaping, Returning, Racing, Alive
  <2> QED
    BY <2>1, <2>2
<1>14. CASE Terminated
  <2>1. TypeOK' /\ Answering' /\ Delivery' /\ Winning'
    BY <1>14 DEF Terminated, TypeOK, Answering, Delivery, Winning
  <2>2. Reaping' /\ Returning'
    BY <1>14 DEF Terminated, TypeOK, Winning, Reaping, Returning, Racing, Alive
  <2> QED
    BY <2>1, <2>2
<1>15. CASE Join
  <2>1. TypeOK' /\ Answering' /\ Delivery' /\ Winning'
    BY <1>15 DEF Join, TypeOK, Answering, Delivery, Winning
  <2>2. Reaping' /\ Returning'
    BY <1>15 DEF Join, TypeOK, Reaping, Returning, Racing, Alive
  <2> QED
    BY <2>1, <2>2
<1> QED
  BY <1>1, <1>2, <1>3, <1>4, <1>5, <1>6, <1>7, <1>8, <1>9, <1>10, <1>11, <1>12, <1>13,
     <1>14, <1>15 DEF Parent

\* The inductive invariant holds in every reachable state.
LEMMA Invariance == Spec => []IInv
<1>1. IInv /\ [Next]_vars => IInv'
  <2> SUFFICES ASSUME IInv, [Next]_vars PROVE IInv'
    OBVIOUS
  <2>1. CASE Stop
    <3> USE DEF Stop, IInv, options, workerVars, parentVars
    <3>1. TypeOK' /\ Answering' /\ Delivery' /\ Winning'
      BY <2>1 DEF TypeOK, Answering, Delivery, Winning
    <3>2. Reaping' /\ Returning'
      BY <2>1 DEF TypeOK, Reaping, Returning, Racing, Alive
    <3> QED
      BY <3>1, <3>2
  <2>2. CASE UNCHANGED vars
    <3>1. /\ UNCHANGED <<truth, need_cert, share_lemma, proc, answer, chan, got, state>>
          /\ UNCHANGED <<running, winner, cert, hand, stop, pc, res>>
      BY <2>2 DEF vars, options, workerVars, parentVars
    <3>2. TypeOK'
      BY <3>1 DEF IInv, TypeOK
    <3>3. Answering' /\ Delivery' /\ Winning'
      BY <3>1 DEF IInv, Answering, Delivery, Winning
    <3>4. Reaping' /\ Returning'
      BY <3>1 DEF IInv, Reaping, Returning, Racing, Alive
    <3> QED
      BY <3>2, <3>3, <3>4 DEF IInv
  <2> QED
    BY <2>1, <2>2, WorkerSteps, ParentSteps DEF Next
<1> QED
  BY Initially, <1>1, PTL DEF Spec

-----------------------------------------------------------------------------
(***************************************************************************)
(* The theorems.                                                            *)
(***************************************************************************)

\* Type correctness of the portfolio's variables.
THEOREM TypeCorrect == Spec => []TypeOK
<1>1. IInv => TypeOK
  BY DEF IInv
<1> QED
  BY <1>1, Invariance, PTL

\* Whatever check() returns is the answer of the winner, with the winner's certificate when one
\* is needed; the assert! on the winner's state in reap_child cannot fail.
THEOREM WinnerReturned == Spec => []ResultIsWinners
<1>1. IInv => ResultIsWinners
  BY DEF IInv, TypeOK, Winning, Returning, ResultIsWinners
<1> QED
  BY <1>1, Invariance, PTL

\* Unknown is returned after a stop, or when no worker has answered and exited cleanly.
THEOREM AnswersKept == Spec => []NoAnswerDropped
<1>1. IInv => NoAnswerDropped
  BY DEF IInv, Returning, NoAnswerDropped
<1> QED
  BY <1>1, Invariance, PTL

\* check() returns with every worker dead and waited for.
THEOREM WorkersReaped == Spec => []NoWorkerLeft
<1>1. IInv => NoWorkerLeft
  BY DEF IInv, Reaping, Returning, NoWorkerLeft
<1> QED
  BY <1>1, Invariance, PTL
=============================================================================
