-------------------------- MODULE PolyNexusProofs --------------------------
(***************************************************************************)
(* What the multi-property run promises, for every set of properties, every *)
(* number of workers and of configurations, and every number of crashes: a  *)
(* resolved property keeps one worker's result and certificate, no answer   *)
(* of a reaped worker is overlooked when its place is filled, the picks are *)
(* balanced, and what is shown of a property only advances.                 *)
(***************************************************************************)
EXTENDS PolyNexus, FiniteSetTheorems, SequenceTheorems, TLAPS

(***************************************************************************)
(* Results: `|` of McResult is a join.                                      *)
(***************************************************************************)

AnyResult == [kind : {"UNSAT", "SAT", "Unknown"}, depth : Nat]

\* The results that a sound engine may have of a property: bounds, and its definite answers.
SoundResults(p) ==
    {r \in AnyResult : /\ IsUnknown(r) \/ r.kind = Truth[p]
                       /\ r.kind = "UNSAT" => r = UNSAT}

(***************************************************************************)
(* The inductive invariant.                                                 *)
(***************************************************************************)

TypeOK ==
    /\ counter \in [Prop -> Nat]
    /\ resolved \in [Prop -> BOOLEAN]
    /\ results \in [Prop -> AnyResult]
    /\ certs \in [Prop -> Definite \cup {None}]
    /\ bound \in [Prop -> Nat]
    /\ shown \in [Prop -> AnyResult]
    /\ proc \in [Job -> {"none", "checking", "answered", "sent", "exited", "crashed"}]
    /\ answer \in [Job -> Definite \cup {None}]
    /\ level \in [Job -> Nat]
    /\ states \in [Job -> Seq(AnyResult)]
    /\ dones \in [Job -> Definite \cup {None}]
    /\ running \subseteq Job
    /\ crashes \in Nat
    /\ stop \in BOOLEAN
    /\ pc \in {"fill", "state", "done1", "reap", "done2", "terminate", "done", "panic"}

\* What the run knows of a property is right, and is what it shows of it.
Sound ==
    /\ shown = results
    /\ \A p \in Prop : results[p] \in SoundResults(p)
    /\ \A w \in Job : states[w] \in Seq(SoundResults(w[1]))

\* A worker past its answer has one, and one before it has none.
Answering ==
    \A w \in Job :
        /\ proc[w] \in {"none", "checking"} => answer[w] = None
        /\ proc[w] \in {"answered", "sent", "exited"} => answer[w] # None
        /\ answer[w] # None => answer[w] \in Right(w[1])

\* A done message is its sender's answer, and once it has been taken its property is resolved.
Delivery ==
    \A w \in Job :
        /\ dones[w] # None => dones[w] = answer[w]
        /\ proc[w] \in {"sent", "exited"} /\ dones[w] = None => resolved[w[1]]

\* A resolved property has the result, the certificate and the display of one worker.
Certified ==
    \A p \in Prop :
        resolved[p] =>
            /\ certs[p] = results[p]
            /\ \E w \in Job : w[1] = p /\ answer[w] = results[p]

\* The workers alive are running, the workers picked are those below the counters, and but for
\* the time between reap_finished and the second poll_done no done message is left of a worker
\* that is not running.
Scheduling ==
    /\ Alive \subseteq running
    /\ \A w \in Job : proc[w] = "none" <=> w[2] >= counter[w[1]]
    /\ pc \in {"fill", "state", "done1", "reap"} => \A w \in Job \ running : dones[w] = None
    /\ pc \in {"terminate", "done"} => stop \/ AllResolved

\* The places and the picks.
Balance ==
    /\ IsFiniteSet(running)
    /\ PicksBalanced

\* Of the loop's two panics, `|` on conflicting results and the unwrap in pick, only the second
\* is ever met.
PanicsInPick == pc = "panic" => \E p \in Prop : counter[p] > Configs

IInv ==
    /\ TypeOK /\ Sound /\ Answering /\ Delivery /\ Certified
    /\ Scheduling /\ Balance /\ PanicsInPick

-----------------------------------------------------------------------------
\* A job is a pair of a property and the index of a configuration.
LEMMA Jobs ==
    /\ \A w \in Job : w[1] \in Prop /\ w[2] \in 0..Configs - 1 /\ w = <<w[1], w[2]>>
    /\ \A p \in Prop, i \in 0..Configs - 1 : <<p, i>> \in Job
BY DEF Job

\* The answers of sound engines are results, none of them None or Unknown.
LEMMA Answers ==
    /\ Definite \subseteq AnyResult /\ None \notin AnyResult
    /\ \A r \in Definite : ~IsUnknown(r) /\ r # None
    /\ \A p \in Prop : Right(p) \subseteq Definite \cap SoundResults(p)
<1>1. Definite \subseteq AnyResult
  BY CountAssumption DEF Definite, AnyResult, UNSAT, SAT
<1>2. None \notin AnyResult
  BY DEF None, AnyResult
<1>3. \A r \in Definite : ~IsUnknown(r)
  BY DEF Definite, IsUnknown, UNSAT, SAT
<1>4. ASSUME NEW p \in Prop PROVE Right(p) \subseteq Definite \cap SoundResults(p)
  <2>1. CASE Truth[p] = "UNSAT"
    BY <1>1, <2>1 DEF Right, SoundResults, Definite, UNSAT
  <2>2. CASE Truth[p] # "UNSAT"
    <3>1. Truth[p] = "SAT"
      BY <2>2, TruthAssumption
    <3> QED
      BY <1>1, <2>2, <3>1 DEF Right, SoundResults, Definite, SAT
  <2> QED
    BY <2>1, <2>2
<1> QED
  BY <1>1, <1>2, <1>3, <1>4

\* `|` of two sound results of a property neither panics nor leaves the sound results, and
\* what it changes in the first only advances it.
LEMMA OrAdvances ==
    ASSUME NEW p \in Prop, NEW a \in SoundResults(p), NEW b \in SoundResults(p)
    PROVE  /\ ~Conflict(a, b)
           /\ Or(a, b) \in SoundResults(p)
           /\ Or(a, b) # a =>
                \/ IsUnknown(a) /\ ~IsUnknown(Or(a, b))
                \/ IsUnknown(a) /\ Or(a, b).depth > a.depth
                \/ a.kind = "SAT" /\ Or(a, b).kind = "SAT"
<1>1. /\ a \in AnyResult /\ b \in AnyResult
      /\ Truth[p] \in {"UNSAT", "SAT"}
      /\ a.kind \in {"Unknown", Truth[p]} /\ b.kind \in {"Unknown", Truth[p]}
      /\ a.depth \in Nat /\ b.depth \in Nat
  BY TruthAssumption DEF SoundResults, AnyResult, IsUnknown
<1>2. ~Conflict(a, b)
  BY <1>1 DEF Conflict
<1>3. Or(a, b) \in {a, b}
  BY DEF Or, Larger
<1>4. ASSUME Or(a, b) # a
      PROVE  \/ IsUnknown(a) /\ ~IsUnknown(Or(a, b))
             \/ IsUnknown(a) /\ Or(a, b).depth > a.depth
             \/ a.kind = "SAT" /\ Or(a, b).kind = "SAT"
  <2>1. Or(a, b) = b
    BY <1>3, <1>4
  <2>2. CASE a.kind = b.kind
    <3>1. b.depth > a.depth
      BY <1>1, <1>4, <2>2 DEF Or, Larger
    <3>2. a.kind # "UNSAT"
      BY <2>2, <3>1, <1>1 DEF SoundResults, UNSAT
    <3> QED
      BY <1>1, <2>1, <2>2, <3>1, <3>2 DEF IsUnknown
  <2>3. CASE a.kind # b.kind
    BY <1>1, <1>4, <2>1, <2>3 DEF Or, IsUnknown
  <2> QED
    BY <2>2, <2>3
<1> QED
  BY <1>2, <1>3, <1>4

\* A worker that traces a sound result leaves sound messages in its channel.
LEMMA TraceSound ==
    ASSUME TypeOK, Sound, NEW w \in Job, NEW r \in SoundResults(w[1]), Trace(w, r),
           UNCHANGED <<results, shown>>
    PROVE  /\ states' \in [Job -> Seq(AnyResult)]
           /\ Sound'
<1>1. r \in AnyResult
  BY DEF SoundResults
<1>2. states' \in [Job -> Seq(AnyResult)]
  BY <1>1 DEF TypeOK, Trace
<1>3. ASSUME NEW v \in Job PROVE states'[v] \in Seq(SoundResults(v[1]))
  <2>1. CASE v = w
    <3>1. states'[w] = Append(states[w], r)
      BY DEF TypeOK, Trace
    <3>2. states[w] \in Seq(SoundResults(w[1]))
      BY DEF Sound
    <3> QED
      BY <2>1, <3>1, <3>2
  <2>2. CASE v # w
    BY <2>2 DEF TypeOK, Trace, Sound
  <2> QED
    BY <2>1, <2>2
<1>4. \A p \in Prop : results'[p] \in SoundResults(p)
  BY DEF Sound
<1> QED
  BY <1>2, <1>3, <1>4 DEF Sound

LEMMA Initially == Init => IInv
<1> SUFFICES ASSUME Init PROVE IInv
  OBVIOUS
<1> USE DEF Init
<1>1. TypeOK
  <2>1. <<>> \in Seq(AnyResult) /\ Cached \in [Prop -> AnyResult]
    BY CachedAssumption DEF AnyResult
  <2> QED
    BY <2>1 DEF TypeOK
<1>2. Sound
  BY CachedAssumption DEF Sound, SoundResults, AnyResult
<1>3. Answering /\ Delivery /\ Certified
  BY DEF Answering, Delivery, Certified
<1>4. Scheduling
  BY Jobs DEF Scheduling, Alive
<1>5. Balance /\ PanicsInPick
  <2>1. Workers \in Nat
    BY CountAssumption
  <2> QED
    BY <2>1, FS_EmptySet DEF Balance, PicksBalanced, PanicsInPick
<1> QED
  BY <1>1, <1>2, <1>3, <1>4, <1>5 DEF IInv

-----------------------------------------------------------------------------
\* The steps of a worker preserve the invariant: what it sends is right, it answers once, and
\* what has been taken of it is not taken back.
LEMMA WorkerSteps == ASSUME IInv, NEW w \in Job, WorkerStep(w) PROVE IInv'
<1> USE DEF IInv, schedVars, resultVars, chanVars
<1>0. w[1] \in Prop
  BY Jobs
<1>1. CASE TraceLevel(w)
  <2>1. Reached(level[w]) \in AnyResult /\ Reached(level[w]) \in SoundResults(w[1])
    BY DEF TypeOK, AnyResult, SoundResults, Reached, IsUnknown
  <2>2. states' \in [Job -> Seq(AnyResult)] /\ Sound'
    BY <1>1, <2>1, TraceSound DEF TraceLevel
  <2>3. TypeOK'
    <3>1. level' \in [Job -> Nat]
      BY <1>1 DEF TraceLevel, TypeOK
    <3> QED
      BY <1>1, <2>2, <3>1 DEF TraceLevel, TypeOK
  <2>4. Answering' /\ Delivery' /\ Certified'
    BY <1>1 DEF TraceLevel, Answering, Delivery, Certified
  <2>5. Scheduling' /\ Balance' /\ PanicsInPick'
    BY <1>1 DEF TraceLevel, Scheduling, Alive, AllResolved, Balance, PicksBalanced, PanicsInPick
  <2> QED
    BY <2>2, <2>3, <2>4, <2>5
<1>2. CASE Answer(w)
  <2>1. PICK r \in Right(w[1]) : Trace(w, r) /\ answer' = [answer EXCEPT ![w] = r]
    BY <1>2 DEF Answer
  <2>2. r \in Definite /\ r \in AnyResult /\ r \in SoundResults(w[1]) /\ r # None
    BY <1>0, <2>1, Answers
  <2>3. answer[w] = None
    BY <1>2 DEF Answer, Answering
  <2>4. states' \in [Job -> Seq(AnyResult)] /\ Sound'
    BY <1>2, <2>1, <2>2, TraceSound DEF Answer
  <2>5. TypeOK'
    BY <1>2, <2>1, <2>2, <2>4 DEF Answer, TypeOK
  <2>6. Answering'
    BY <1>2, <2>1, <2>2 DEF Answer, TypeOK, Answering
  <2>7. Delivery'
    BY <1>2, <2>1, <2>3 DEF Answer, TypeOK, Delivery
  <2>8. Certified'
    <3> SUFFICES ASSUME NEW p \in Prop, resolved[p]
                 PROVE  /\ certs[p] = results[p]
                        /\ \E v \in Job : v[1] = p /\ answer'[v] = results[p]
      BY <1>2 DEF Answer, Certified
    <3>1. PICK v \in Job : v[1] = p /\ answer[v] = results[p]
      BY DEF Certified
    <3>2. results[p] # None
      BY Answers DEF TypeOK
    <3>3. answer'[v] = answer[v]
      BY <2>1, <2>3, <3>1, <3>2 DEF TypeOK
    <3> QED
      BY <3>1, <3>3 DEF Certified
  <2>9. Scheduling' /\ Balance' /\ PanicsInPick'
    BY <1>2 DEF Answer, TypeOK, Scheduling, Alive, AllResolved, Balance, PicksBalanced,
       PanicsInPick
  <2> QED
    BY <2>4, <2>5, <2>6, <2>7, <2>8, <2>9
<1>3. CASE SendDone(w)
  <2>1. answer[w] # None
    BY <1>3 DEF SendDone, Answering
  <2>2. TypeOK' /\ Answering' /\ Delivery'
    BY <1>3, <2>1 DEF SendDone, TypeOK, Answering, Delivery
  <2>3. Scheduling'
    BY <1>3 DEF SendDone, TypeOK, Scheduling, Alive, AllResolved
  <2>4. Sound' /\ Certified' /\ Balance' /\ PanicsInPick'
    BY <1>3 DEF SendDone, Sound, Certified, Balance, PicksBalanced, PanicsInPick
  <2> QED
    BY <2>2, <2>3, <2>4
<1>4. CASE Exit(w)
  <2>1. TypeOK' /\ Answering' /\ Delivery'
    BY <1>4 DEF Exit, TypeOK, Answering, Delivery
  <2>2. Scheduling'
    BY <1>4 DEF Exit, TypeOK, Scheduling, Alive, AllResolved
  <2>3. Sound' /\ Certified' /\ Balance' /\ PanicsInPick'
    BY <1>4 DEF Exit, Sound, Certified, Balance, PicksBalanced, PanicsInPick
  <2> QED
    BY <2>1, <2>2, <2>3
<1>5. CASE Crash(w)
  <2>1. TypeOK' /\ Answering' /\ Delivery'
    BY <1>5 DEF Crash, TypeOK, Answering, Delivery
  <2>2. Scheduling'
    BY <1>5 DEF Crash, TypeOK, Scheduling, Alive, AllResolved
  <2>3. Sound' /\ Certified' /\ Balance' /\ PanicsInPick'
    BY <1>5 DEF Crash, Sound, Certified, Balance, PicksBalanced, PanicsInPick
  <2> QED
    BY <2>1, <2>2, <2>3
<1> QED
  BY <1>1, <1>2, <1>3, <1>4, <1>5 DEF WorkerStep

\* Moving the loop on touches nothing that the first five conjuncts and the balance speak of.
LEMMA LoopSteps ==
    ASSUME IInv,
           UNCHANGED <<schedVars, resultVars, workerVars, chanVars, running>>,
           stop' \in BOOLEAN,
           pc' \in {"fill", "state", "done1", "reap", "done2", "terminate", "done"}
    PROVE  /\ TypeOK' /\ Sound' /\ Answering' /\ Delivery' /\ Certified'
           /\ Balance' /\ PanicsInPick'
<1> USE DEF IInv, schedVars, resultVars, workerVars, chanVars
<1>1. TypeOK' /\ Sound'
  BY DEF TypeOK, Sound
<1>2. Answering' /\ Delivery' /\ Certified'
  BY DEF Answering, Delivery, Certified
<1>3. Balance' /\ PanicsInPick'
  BY DEF Balance, PicksBalanced, PanicsInPick
<1> QED
  BY <1>1, <1>2, <1>3

\* What merge_and_trace does to a property that is not resolved, at most.
Merged(p) ==
    /\ \/ UNCHANGED <<results, bound, shown>>
       \/ /\ ~resolved[p]
          /\ \E r \in SoundResults(p) :
                results' = [results EXCEPT ![p] = r] /\ shown' = [shown EXCEPT ![p] = r]
          /\ bound' \in [Prop -> Nat]
    /\ UNCHANGED pc

\* The steps of the parent that take a message preserve the invariant.
LEMMA MessageSteps ==
    ASSUME IInv, NEW w \in Job, HandleState(w) \/ HandleDone(w)
    PROVE  IInv'
<1> USE DEF IInv, schedVars, resultVars, workerVars, chanVars
<1> DEFINE p == w[1]
<1>0. p \in Prop
  BY Jobs
<1>1. CASE HandleState(w)
  <2>1. /\ Head(states[w]) \in SoundResults(p)
        /\ states' \in [Job -> Seq(AnyResult)]
        /\ \A v \in Job : states'[v] \in Seq(SoundResults(v[1]))
    <3>1. states[w] \in Seq(SoundResults(p)) /\ states[w] # <<>>
      BY <1>1 DEF HandleState, Sound
    <3>2. Head(states[w]) \in SoundResults(p) /\ Tail(states[w]) \in Seq(SoundResults(p))
      BY <3>1, HeadTailProperties
    <3>3. Tail(states[w]) \in Seq(AnyResult)
      BY <3>1, HeadTailProperties DEF TypeOK
    <3>4. states' = [states EXCEPT ![w] = Tail(states[w])]
      BY <1>1 DEF HandleState
    <3> QED
      BY <3>2, <3>3, <3>4 DEF TypeOK, Sound
  <2>2. Merged(p)
    <3>1. CASE resolved[p]
      BY <1>1, <3>1 DEF HandleState, Merged
    <3>2. CASE ~resolved[p]
      <4> DEFINE r == Or(results[p], Head(states[w]))
      <4>1. ~Conflict(results[p], Head(states[w])) /\ r \in SoundResults(p)
        BY <1>0, <2>1, OrAdvances DEF Sound
      <4>2. Merge(p, Head(states[w])) /\ UNCHANGED pc
        BY <1>1, <3>2, <4>1 DEF HandleState
      <4>3. r.depth \in Nat
        BY <4>1 DEF SoundResults, AnyResult
      <4>4. \/ UNCHANGED <<results, bound, shown>>
            \/ /\ results' = [results EXCEPT ![p] = r]
               /\ shown' = [shown EXCEPT ![p] = r]
               /\ bound' = [bound EXCEPT ![p] = r.depth] \/ bound' = bound
        BY <4>2 DEF Merge
      <4>5. bound' \in [Prop -> Nat]
        BY <4>3, <4>4 DEF TypeOK
      <4> QED
        BY <3>2, <4>1, <4>2, <4>4, <4>5 DEF Merged
    <3> QED
      BY <3>1, <3>2
  <2>3. UNCHANGED <<schedVars, certs, workerVars, dones, running, stop>> /\ UNCHANGED pc
    BY <1>1, <2>2 DEF HandleState, Merged
  <2>4. TypeOK'
    <3>1. results' \in [Prop -> AnyResult] /\ shown' \in [Prop -> AnyResult]
      BY <1>0, <2>2 DEF Merged, TypeOK, SoundResults
    <3>2. bound' \in [Prop -> Nat]
      BY <2>2 DEF Merged, TypeOK
    <3> QED
      BY <2>1, <2>2, <2>3, <3>1, <3>2 DEF Merged, TypeOK
  <2>5. Sound'
    BY <1>0, <2>1, <2>2 DEF Merged, TypeOK, Sound
  <2>6. Certified'
    BY <1>0, <2>2, <2>3 DEF Merged, TypeOK, Certified
  <2>7. Answering' /\ Delivery' /\ Scheduling' /\ Balance' /\ PanicsInPick'
    <3>1. Answering' /\ Delivery'
      BY <2>3 DEF Answering, Delivery
    <3>2. Scheduling'
      BY <2>3 DEF Scheduling, Alive, AllResolved
    <3>3. Balance' /\ PanicsInPick'
      BY <2>3 DEF Balance, PicksBalanced, PanicsInPick
    <3> QED
      BY <3>1, <3>2, <3>3
  <2> QED
    BY <2>4, <2>5, <2>6, <2>7
<1>2. CASE HandleDone(w)
  <2>1. /\ dones[w] # None /\ dones' = [dones EXCEPT ![w] = None]
        /\ UNCHANGED <<counter, bound, workerVars, states, running, stop, pc>>
        /\ pc \in {"done1", "done2"}
    BY <1>2 DEF HandleDone
  <2>2. /\ dones[w] = answer[w] /\ answer[w] \in SoundResults(p)
        /\ dones[w] \in Definite /\ dones[w] \in AnyResult
    BY <1>0, <2>1, Answers DEF TypeOK, Delivery, Answering
  <2>3. CASE resolved[p]
    <3>1. UNCHANGED <<resolved, results, certs, shown>>
      BY <1>2, <2>3 DEF HandleDone
    <3>2. TypeOK' /\ Sound'
      BY <2>1, <3>1 DEF TypeOK, Sound
    <3>3. Answering' /\ Delivery' /\ Certified'
      BY <2>1, <2>3, <3>1 DEF TypeOK, Answering, Delivery, Certified
    <3>4. Scheduling' /\ Balance' /\ PanicsInPick'
      BY <2>1, <3>1 DEF TypeOK, Scheduling, Alive, AllResolved, Balance, PicksBalanced, PanicsInPick
    <3> QED
      BY <3>2, <3>3, <3>4
  <2>4. CASE ~resolved[p]
    <3>1. /\ resolved' = [resolved EXCEPT ![p] = TRUE]
          /\ results' = [results EXCEPT ![p] = dones[w]]
          /\ shown' = [shown EXCEPT ![p] = dones[w]]
          /\ certs' = [certs EXCEPT ![p] = dones[w]]
      BY <1>2, <2>4 DEF HandleDone
    <3>2. TypeOK'
      BY <1>0, <2>1, <2>2, <3>1 DEF TypeOK
    <3>3. Sound'
      BY <1>0, <2>1, <2>2, <3>1 DEF TypeOK, Sound
    <3>4. Answering' /\ Delivery'
      BY <1>0, <2>1, <3>1 DEF TypeOK, Answering, Delivery
    <3>5. Certified'
      <4> SUFFICES ASSUME NEW q \in Prop, resolved'[q]
                   PROVE  /\ certs'[q] = results'[q]
                          /\ \E v \in Job : v[1] = q /\ answer'[v] = results'[q]
        BY DEF Certified
      <4>1. CASE q = p
        BY <1>0, <2>1, <2>2, <3>1, <4>1 DEF TypeOK
      <4>2. CASE q # p
        BY <1>0, <2>1, <3>1, <4>2 DEF TypeOK, Certified
      <4> QED
        BY <4>1, <4>2
    <3>6. Scheduling' /\ PanicsInPick'
      BY <1>0, <2>1, <3>1 DEF TypeOK, Scheduling, Alive, AllResolved, PanicsInPick
    <3>7. Balance'
      BY <1>0, <2>1, <3>1 DEF TypeOK, Balance, PicksBalanced
    <3> QED
      BY <3>2, <3>3, <3>4, <3>5, <3>6, <3>7
  <2> QED
    BY <2>3, <2>4
<1> QED
  BY <1>1, <1>2

\* fill_workers preserves the invariant: the job it starts is fresh, there is a place for it,
\* and no property is more than one pick behind the picked one.
LEMMA FillStep == ASSUME IInv, Fill PROVE IInv'
<1> USE DEF IInv, schedVars, resultVars, chanVars
<1>1. PICK p \in Prop :
        /\ Picked(p)
        /\ counter' = [counter EXCEPT ![p] = @ + 1]
        /\ IF counter[p] < Configs
           THEN Start(<<p, counter[p]>>) /\ UNCHANGED pc
           ELSE pc' = "panic" /\ UNCHANGED <<running, proc>>
  BY DEF Fill
<1>2. /\ pc = "fill" /\ Cardinality(running) < Workers
      /\ UNCHANGED <<resolved, results, certs, bound, shown, answer, level, crashes>>
      /\ UNCHANGED <<states, dones, stop>>
  BY DEF Fill
<1>3. counter[p] \in Nat /\ Configs \in Nat /\ Workers \in Nat
  BY CountAssumption DEF TypeOK
<1>4. \A q, r \in Prop : ~resolved[q] /\ ~resolved[r] => counter'[q] <= counter'[r] + 1
  <2> SUFFICES ASSUME NEW q \in Prop, NEW r \in Prop, ~resolved[q], ~resolved[r]
               PROVE  counter'[q] <= counter'[r] + 1
    OBVIOUS
  <2>1. counter[q] \in Nat /\ counter[r] \in Nat /\ counter[q] <= counter[r] + 1
    BY DEF TypeOK, Balance, PicksBalanced
  <2>2. counter[p] <= counter[r]
    BY <1>1, <1>3, <2>1 DEF Picked
  <2> QED
    BY <1>1, <1>3, <2>1, <2>2 DEF TypeOK
<1>5. Sound' /\ Certified'
  BY <1>2 DEF Sound, Certified
<1>6. counter' \in [Prop -> Nat]
  BY <1>1, <1>3 DEF TypeOK
<1>7. CASE counter[p] < Configs
  <2> DEFINE w == <<p, counter[p]>>
  <2>1. w \in Job /\ w[1] = p /\ w[2] = counter[p]
    BY <1>3, <1>7, Jobs
  <2>2. running' = running \cup {w} /\ proc' = [proc EXCEPT ![w] = "checking"] /\ pc' = pc
    BY <1>1, <1>7 DEF Start
  <2>3. proc[w] = "none"
    BY <1>3, <2>1 DEF Scheduling
  <2> HIDE DEF w
  <2>4. TypeOK'
    BY <1>2, <1>6, <2>1, <2>2 DEF TypeOK
  <2>5. Answering' /\ Delivery'
    BY <1>2, <2>1, <2>2, <2>3 DEF TypeOK, Answering, Delivery
  <2>6. \A v \in Job : proc'[v] = "none" <=> v[2] >= counter'[v[1]]
    <3> SUFFICES ASSUME NEW v \in Job PROVE proc'[v] = "none" <=> v[2] >= counter'[v[1]]
      OBVIOUS
    <3>1. v[1] \in Prop /\ v[2] \in Int /\ v = <<v[1], v[2]>> /\ w = <<w[1], w[2]>>
      BY <2>1, Jobs
    <3>2. proc[v] = "none" <=> v[2] >= counter[v[1]]
      BY DEF Scheduling
    <3>3. CASE v = w
      BY <1>1, <1>3, <2>1, <2>2, <3>3 DEF TypeOK
    <3>4. CASE v # w
      <4>1. proc'[v] = proc[v]
        BY <2>2, <3>4 DEF TypeOK
      <4>2. v[1] = p => v[2] # counter[p]
        BY <2>1, <3>1, <3>4
      <4>3. CASE v[1] = p
        BY <1>1, <1>3, <3>1, <3>2, <4>1, <4>2, <4>3 DEF TypeOK
      <4>4. CASE v[1] # p
        BY <1>1, <3>1, <3>2, <4>1, <4>4 DEF TypeOK
      <4> QED
        BY <4>3, <4>4
    <3> QED
      BY <3>3, <3>4
  <2>7. Scheduling'
    BY <1>2, <2>1, <2>2, <2>6 DEF TypeOK, Scheduling, Alive, AllResolved
  <2>8. Balance'
    <3>0. IsFiniteSet(running) /\ Cardinality(running) \in Nat
      BY FS_CardinalityType DEF Balance
    <3>1. /\ IsFiniteSet(running \cup {w})
          /\ Cardinality(running \cup {w}) \in {Cardinality(running), Cardinality(running) + 1}
      BY <3>0, FS_AddElement
    <3>2. IsFiniteSet(running') /\ Cardinality(running') <= Cardinality(running) + 1
      BY <2>2, <3>0, <3>1
    <3>3. Cardinality(running') <= Workers
      BY <1>2, <1>3, <2>2, <3>0, <3>1
    <3> QED
      BY <1>2, <1>4, <3>2, <3>3 DEF Balance, PicksBalanced
  <2>9. PanicsInPick'
    BY <1>2, <2>2 DEF PanicsInPick
  <2> QED
    BY <1>5, <2>4, <2>5, <2>7, <2>8, <2>9
<1>8. CASE ~(counter[p] < Configs)
  <2>1. pc' = "panic" /\ UNCHANGED <<running, proc>>
    BY <1>1, <1>8
  <2>2. TypeOK' /\ Answering' /\ Delivery'
    BY <1>2, <1>6, <2>1 DEF TypeOK, Answering, Delivery
  <2>3. Scheduling'
    <3>1. \A v \in Job : proc[v] = "none" <=> v[2] >= counter'[v[1]]
      BY <1>1, <1>3, <1>8, Jobs DEF TypeOK, Scheduling
    <3> QED
      BY <1>2, <2>1, <3>1 DEF Scheduling, Alive
  <2>4. Balance'
    BY <1>2, <1>4, <2>1 DEF Balance, PicksBalanced
  <2>5. PanicsInPick'
    BY <1>1, <1>3, <1>8 DEF TypeOK, PanicsInPick
  <2> QED
    BY <1>5, <2>2, <2>3, <2>4, <2>5
<1> QED
  BY <1>7, <1>8

\* The other steps of the parent preserve the invariant.
LEMMA ParentSteps == ASSUME IInv, Parent PROVE IInv'
<1> USE DEF IInv
<1>1. ASSUME UNCHANGED <<schedVars, resultVars, workerVars, chanVars, running>>,
             stop' \in BOOLEAN,
             StatesPolled \/ DonesPolled \/ DonesPolledAgain \/ Filled
      PROVE  IInv'
  <2>1. pc' \in {"fill", "state", "done1", "reap", "done2", "terminate", "done"}
    BY <1>1 DEF StatesPolled, DonesPolled, DonesPolledAgain, Filled
  <2>2. Scheduling'
    BY <1>1 DEF StatesPolled, DonesPolled, DonesPolledAgain, Filled, Scheduling, Alive,
       AllResolved, schedVars, workerVars, chanVars
  <2> QED
    BY <1>1, <2>1, <2>2, LoopSteps
<1>2. CASE StatesPolled \/ DonesPolled \/ DonesPolledAgain \/ Filled
  BY <1>1, <1>2 DEF StatesPolled, DonesPolled, DonesPolledAgain, Filled, TypeOK
<1>3. CASE ReapFinished
  <2> USE <1>3 DEF ReapFinished, schedVars, resultVars, workerVars, chanVars
  <2>1. TypeOK' /\ Sound' /\ Answering' /\ Delivery' /\ Certified'
    BY DEF TypeOK, Sound, Answering, Delivery, Certified
  <2>2. Scheduling'
    BY DEF TypeOK, Scheduling, Alive
  <2>3. Balance' /\ PanicsInPick'
    <3>1. IsFiniteSet(running') /\ Cardinality(running') <= Cardinality(running)
      BY FS_Subset DEF Balance
    <3>2. Cardinality(running) \in Nat /\ Cardinality(running') \in Nat /\ Workers \in Nat
      BY <3>1, FS_CardinalityType, CountAssumption DEF Balance
    <3> QED
      BY <3>1, <3>2 DEF Balance, PicksBalanced, PanicsInPick
  <2> QED
    BY <2>1, <2>2, <2>3
<1>4. CASE TerminateRunning
  <2> USE <1>4 DEF TerminateRunning, schedVars, resultVars, chanVars
  <2>1. TypeOK' /\ Sound' /\ Certified'
    BY DEF TypeOK, Sound, Certified
  <2>2. Answering' /\ Delivery'
    BY DEF TypeOK, Answering, Delivery, Alive
  <2>3. Scheduling'
    BY DEF TypeOK, Scheduling, Alive, AllResolved
  <2>4. Balance' /\ PanicsInPick'
    <3>1. Workers \in Nat
      BY CountAssumption
    <3> QED
      BY <3>1, FS_EmptySet DEF Balance, PicksBalanced, PanicsInPick
  <2> QED
    BY <2>1, <2>2, <2>3, <2>4
<1> QED
  BY <1>2, <1>3, <1>4, FillStep, MessageSteps DEF Parent

\* The inductive invariant holds in every reachable state.
LEMMA Invariance == Spec => []IInv
<1>1. IInv /\ [Next]_vars => IInv'
  <2> SUFFICES ASSUME IInv, [Next]_vars PROVE IInv'
    OBVIOUS
  <2>1. CASE UNCHANGED vars
    <3>1. /\ UNCHANGED <<counter, resolved, results, certs, bound, shown, proc, answer, level>>
          /\ UNCHANGED <<crashes, states, dones, running, stop, pc>>
      BY <2>1 DEF vars, schedVars, resultVars, workerVars, chanVars
    <3>2. TypeOK' /\ Sound'
      BY <3>1 DEF IInv, TypeOK, Sound
    <3>3. Answering' /\ Delivery' /\ Certified'
      BY <3>1 DEF IInv, Answering, Delivery, Certified
    <3>4. Scheduling'
      BY <3>1 DEF IInv, Scheduling, Alive, AllResolved
    <3>5. Balance' /\ PanicsInPick'
      BY <3>1 DEF IInv, Balance, PicksBalanced, PanicsInPick
    <3> QED
      BY <3>2, <3>3, <3>4, <3>5 DEF IInv
  <2> QED
    BY <2>1, WorkerSteps, ParentSteps DEF Next
<1> QED
  BY Initially, <1>1, PTL DEF Spec

-----------------------------------------------------------------------------
(***************************************************************************)
(* The theorems.                                                            *)
(***************************************************************************)

\* Type correctness of the run's variables.
THEOREM TypeCorrect == Spec => []TypeOK
<1>1. IInv => TypeOK
  BY DEF IInv
<1> QED
  BY <1>1, Invariance, PTL

\* A resolved property has, once and for all, the result and the certificate of the same worker,
\* and a run that is not stopped ends with every property resolved.
THEOREM OneWorkersAnswer == Spec => []ResolvedCertified
<1>1. IInv => ResolvedCertified
  <2> SUFFICES ASSUME IInv PROVE ResolvedCertified
    OBVIOUS
  <2>1. ASSUME NEW p \in Prop, resolved[p]
        PROVE  /\ certs[p] = results[p] /\ shown[p] = results[p]
               /\ \E w \in Job : w[1] = p /\ answer[w] = results[p]
    BY <2>1 DEF IInv, Certified, Sound
  <2>2. pc = "done" => stop \/ AllResolved
    BY DEF IInv, Scheduling
  <2> QED
    BY <2>1, <2>2 DEF ResolvedCertified
<1> QED
  BY <1>1, Invariance, PTL

\* When free places are filled the answers of all workers reaped have been read.
THEOREM AnswersReadFirst == Spec => []NoLateStart
<1>1. IInv => NoLateStart
  <2> SUFFICES ASSUME IInv, pc = "fill", NEW w \in Job \ running, proc[w] = "exited"
               PROVE  resolved[w[1]]
    BY DEF NoLateStart
  <2>1. dones[w] = None
    BY DEF IInv, Scheduling
  <2> QED
    BY <2>1 DEF IInv, Delivery
<1> QED
  BY <1>1, Invariance, PTL

\* The workers in flight are within --workers and no unresolved property starves.
THEOREM FairPicks == Spec => []PicksBalanced
<1>1. IInv => PicksBalanced
  BY DEF IInv, Balance
<1> QED
  BY <1>1, Invariance, PTL

\* The only panic of the loop is the unwrap in Scheduling::pick, once a property has used up
\* the configurations: `|` never meets an UNSAT and a SAT of the same property.
THEOREM OnlyPickPanics == Spec => []PanicsInPick
<1>1. IInv => PanicsInPick
  BY DEF IInv
<1> QED
  BY <1>1, Invariance, PTL

\* What is shown of a property only advances, although its workers trace their bounds and
\* answers in any order, and the results the run starts from may be ahead of them.
THEOREM DisplayAdvances == Spec => ShownAdvances
<1> DEFINE Advances(p) ==
        shown'[p] # shown[p] =>
            \/ IsUnknown(shown[p]) /\ ~IsUnknown(shown'[p])
            \/ IsUnknown(shown[p]) /\ shown'[p].depth > shown[p].depth
            \/ shown[p].kind = "SAT" /\ shown'[p].kind = "SAT"
<1>1. IInv /\ [Next]_vars => [\A p \in Prop : Advances(p)]_vars
  <2> SUFFICES ASSUME IInv, Next, NEW p \in Prop, shown'[p] # shown[p]
               PROVE  Advances(p)
    OBVIOUS
  <2>0. shown[p] = results[p] /\ shown[p] \in SoundResults(p)
    BY DEF IInv, Sound
  <2>1. PICK w \in Job : HandleState(w) \/ HandleDone(w)
    BY DEF Next, Parent, WorkerStep, TraceLevel, Answer, SendDone, Exit, Crash,
       StatesPolled, DonesPolled, ReapFinished, DonesPolledAgain, Fill, Filled,
       TerminateRunning, resultVars
  <2>2. CASE HandleState(w)
    <3>1. states[w] \in Seq(SoundResults(w[1])) /\ states[w] # <<>>
      BY <2>2 DEF HandleState, IInv, Sound
    <3>2. Head(states[w]) \in SoundResults(w[1])
      BY <3>1, HeadTailProperties
    <3>3. Merge(w[1], Head(states[w]))
      BY <2>2 DEF HandleState
    <3>4. p = w[1] /\ shown'[p] = Or(results[p], Head(states[w]))
      BY <3>3 DEF Merge, IInv, TypeOK
    <3> QED
      BY <2>0, <3>2, <3>4, OrAdvances
  <2>3. CASE HandleDone(w)
    <3>1. p = w[1] /\ shown'[p] = dones[w] /\ dones[w] # None
      BY <2>3 DEF HandleDone, IInv, TypeOK
    <3>2. dones[w] \in Right(p)
      BY <3>1 DEF IInv, Delivery, Answering
    <3>3. ~IsUnknown(dones[w]) /\ dones[w] \in SoundResults(p)
      BY <3>2, Answers
    <3> QED
      BY <2>0, <3>1, <3>3 DEF SoundResults, AnyResult, IsUnknown, UNSAT
  <2> QED
    BY <2>1, <2>2, <2>3
<1> QED
  BY <1>1, Invariance, PTL DEF ShownAdvances, Spec
=============================================================================
