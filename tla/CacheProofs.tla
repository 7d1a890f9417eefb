----------------------------- MODULE CacheProofs -----------------------------
(***************************************************************************)
(* What the cache directory promises for every set of models and processes,  *)
(* and every number of kills, interrupts and writes that fail: the entry at  *)
(* its final path is whole as long as no two threads share a temporary file, *)
(* a verdict that is kept is definite, LightPortfolio returns what one       *)
(* of its engines has answered, and verdicts are right as far as the        *)
(* digests tell models apart.                                               *)
(***************************************************************************)
EXTENDS Cache, FiniteSetTheorems, SequenceTheorems, TLAPS

Definite == {"SAT", "UNSAT"}
Said == Definite \cup {"Unknown"}
Places == {"create", "check", "store", "write", "rename", "return", "returned"}

(***************************************************************************)
(* The inductive invariant.                                                 *)
(***************************************************************************)

CacheTypeOK ==
    /\ plan \in Plan
    /\ pc \in [Engines -> Places]
    /\ made = [t \in Engines |-> made[t]]
    /\ answer \in [Engines -> Said \cup {None}]
    /\ fd \in [Engines -> Nat]
    /\ file \in Seq(Range(file))
    /\ dir \in [DOMAIN dir -> DOMAIN file]
    /\ main \in [Proc -> {"create", "wait", "tell", "join", "done", "killed"}]
    /\ chan \in [Proc -> Seq(Said)]
    /\ got \in [Proc -> Nat]
    /\ told \subseteq Engines /\ flag \subseteq Proc
    /\ out \in [Proc -> Said \cup {None, "interrupted", "panic"}]
    /\ faults \in Nat

\* An engine that has finished has answered, and only a definite answer is stored or found.
Answered ==
    /\ \A t \in Engines :
          /\ pc[t] \in {"return", "returned"} => answer[t] \in Said
          /\ pc[t] \in {"store", "write", "rename"} => answer[t] \in Definite
          /\ made[t].kind = "verdict" => made[t].verdict \in Definite
    /\ \A i \in DOMAIN file : file[i].whole => file[i].verdict \in Definite

\* Each process has one engine, as the command `check` does, and so a temporary file of its own.
Alone == \A p \in Proc : Cardinality(Of(p)) = 1

\* A file has one name, final names are of whole files, and an engine's temporary file is where it
\* has left it.
Names ==
    /\ \A m, n \in DOMAIN dir : dir[m] = dir[n] => m = n
    /\ \A n \in DOMAIN dir : n[1] = "entry" => file[dir[n]].whole
    /\ \A t \in Used :
          /\ pc[t] = "write" => Tmp(t) \in DOMAIN dir /\ fd[t] = dir[Tmp(t)]
          /\ pc[t] = "rename" => Tmp(t) \in DOMAIN dir /\ file[dir[Tmp(t)]].whole

\* A process has received what its engines have answered, each once.
Finished(p) == {t \in Of(p) : pc[t] = "returned"}
Channel(p) ==
    /\ Len(chan[p]) = Cardinality(Finished(p)) /\ got[p] <= Len(chan[p])
    /\ \A t \in Finished(p) : \E i \in 1..Len(chan[p]) : chan[p][i] = answer[t]
    /\ \A i \in 1..Len(chan[p]) : \E t \in Finished(p) : chan[p][i] = answer[t]

\* LightPortfolio waits as long as no engine has answered, and returns an answer of one; none only
\* if it was stopped or no engine has any.
LightAnswer(p) ==
    IF out[p] = "Unknown"
    THEN p \in flag \/ \A t \in Of(p) : t \in Finished(p) /\ answer[t] = "Unknown"
    ELSE \E t \in Finished(p) : answer[t] = out[p]
Outcome(p) ==
    plan[p].kind = "light" =>
        /\ main[p] \in {"create", "wait"} => \A i \in 1..got[p] : chan[p][i] = "Unknown"
        /\ main[p] \in {"tell", "join", "done"} => LightAnswer(p)

CacheInv ==
    /\ CacheTypeOK
    /\ Answered
    /\ Alone => Names
    /\ \A p \in Proc : Channel(p) /\ Outcome(p)

-----------------------------------------------------------------------------
\* Engines are pairs, a process has at most two of them, and one where each has its own.
LEMMA OneEngine ==
    /\ \A t \in Engines : t = <<t[1], t[2]>> /\ t[1] \in Proc
    /\ Used \subseteq Engines
    /\ \A p \in Proc : Of(p) = {t \in Used : t[1] = p} /\ IsFiniteSet(Of(p))
    /\ Alone => \A t, u \in Used : t[1] = u[1] => t = u
<1>1. \A t \in Engines : t = <<t[1], t[2]>> /\ t[1] \in Proc /\ t[2] \in {1, 2}
  BY DEF Engines
<1>2. Used \subseteq Engines
  BY DEF Used
<1>3. ASSUME NEW p \in Proc PROVE Of(p) = {t \in Used : t[1] = p} /\ IsFiniteSet(Of(p))
  <2>1. Of(p) = {t \in Used : t[1] = p}
    BY DEF Of
  <2>2. Of(p) \subseteq {<<p, 1>>, <<p, 2>>}
    BY <1>1, <1>2, <2>1
  <2>3. IsFiniteSet({<<p, 1>>, <<p, 2>>})
    <3>1. IsFiniteSet({<<p, 1>>})
      BY FS_Singleton
    <3>2. IsFiniteSet({<<p, 1>>} \cup {<<p, 2>>})
      BY <3>1, FS_AddElement
    <3>3. {<<p, 1>>} \cup {<<p, 2>>} = {<<p, 1>>, <<p, 2>>}
      OBVIOUS
    <3> QED
      BY <3>2, <3>3
  <2> QED
    BY <2>1, <2>2, <2>3, FS_Subset
<1>4. ASSUME Alone, NEW t \in Used, NEW u \in Used, t[1] = u[1] PROVE t = u
  <2>1. t[1] \in Proc
    BY <1>1, <1>2
  <2>2. t \in Of(t[1]) /\ u \in Of(t[1])
    BY <1>3, <1>4, <2>1
  <2>3. Cardinality(Of(t[1])) = 1
    BY <1>4, <2>1 DEF Alone
  <2>4. \E x : Of(t[1]) = {x}
    BY <1>3, <2>1, <2>3, FS_Singleton
  <2> QED
    BY <2>2, <2>4
<1> QED
  BY <1>1, <1>2, <1>3, <1>4

\* Final and temporary names differ, and the temporary names of two processes do.
LEMMA NamesDiffer ==
    /\ \A t : Final(t)[1] = "entry" /\ Tmp(t)[1] = "tmp"
    /\ \A t, u : Tmp(t) = Tmp(u) <=> t[1] = u[1]
    /\ \A t, u : Tmp(t) # Final(u)
BY DEF Final, Tmp

LEMMA CacheInitially == CacheInit => CacheInv
<1> SUFFICES ASSUME CacheInit PROVE CacheInv
  OBVIOUS
<1> DEFINE Start == /\ file \in Seq(Range(file)) /\ dir \in [DOMAIN dir -> DOMAIN file]
                    /\ \A i \in DOMAIN file : file[i].whole /\ file[i].verdict = "SAT"
                    /\ \A m, n \in DOMAIN dir : m = n
                    /\ \A n \in DOMAIN dir : n[1] = "entry" /\ file[dir[n]].whole
<1>1. ASSUME dir = [x \in {} |-> 0], file = <<>> PROVE Start
  BY <1>1 DEF Range
<1>2. ASSUME NEW k, NEW e, dir = [x \in {<<"entry", k>>} |-> 1], file = <<e>>, e.whole,
             e.verdict = "SAT"
      PROVE  Start
  <2>1. DOMAIN file = {1} /\ file[1] = e /\ Range(file) = {e}
    BY <1>2 DEF Range
  <2>2. file \in Seq(Range(file))
    BY <1>2, <2>1
  <2>3. dir \in [DOMAIN dir -> DOMAIN file]
    BY <1>2, <2>1
  <2>4. \A n \in DOMAIN dir : n = <<"entry", k>> /\ dir[n] = 1
    BY <1>2
  <2> QED
    BY <1>2, <2>1, <2>2, <2>3, <2>4
<1>3. Start
  <2>1. ASSUME NEW p \in DOMAIN plan, NEW e, e = Stale(plan[p].tasks[1].model),
               dir = [x \in {<<"entry", e.region>>} |-> 1], file = <<e>>
        PROVE  Start
    <3>1. e.whole /\ e.verdict = "SAT"
      BY <2>1 DEF Stale
    <3> QED
      BY <1>2, <2>1, <3>1
  <2> QED
    BY <1>1, <2>1 DEF CacheInit
<1>4. CacheTypeOK
  BY <1>3 DEF CacheInit, CacheTypeOK, Places, Said, Proc
<1>5. Answered
  <2>1. Nothing.kind # "verdict"
    BY DEF Nothing, None
  <2>2. \A t \in Engines : pc[t] = "create" /\ made[t] = Nothing
    BY DEF CacheInit
  <2> QED
    BY <1>3, <2>1, <2>2 DEF Answered, Definite
<1>6. Names
  BY <1>3, OneEngine DEF CacheInit, Names
<1>7. ASSUME NEW p \in Proc PROVE Channel(p) /\ Outcome(p)
  <2>1. Finished(p) = {}
    BY <1>7, OneEngine DEF Finished, CacheInit
  <2>2. chan[p] = <<>> /\ got[p] = 0 /\ main[p] = "create"
    BY <1>7 DEF CacheInit, Proc
  <2> QED
    BY <2>1, <2>2, FS_EmptySet DEF Channel, Outcome
<1> QED
  BY <1>4, <1>5, <1>6, <1>7 DEF CacheInv

-----------------------------------------------------------------------------
\* What the plan decides does not change.
LEMMA PlanStays ==
    ASSUME plan' = plan
    PROVE  /\ Proc' = Proc /\ Engines' = Engines /\ Used' = Used
           /\ \A p : Of(p)' = Of(p)
           /\ \A t : Final(t)' = Final(t) /\ Tmp(t)' = Tmp(t)
           /\ Alone' = Alone
<1>1. Proc' = Proc /\ Engines' = Engines
  BY DEF Proc, Engines
<1>2. Used' = Used
  BY <1>1 DEF Used
<1>3. \A p : Of(p)' = Of(p)
  BY <1>2 DEF Of
<1>4. \A t : Final(t)' = Final(t) /\ Tmp(t)' = Tmp(t)
  BY DEF Final, Tmp, Task
<1> QED
  BY <1>1, <1>2, <1>3, <1>4 DEF Alone

\* A step that leaves the directory alone, and each engine that is writing where it is.
LEMMA NamesStay ==
    ASSUME CacheInv, UNCHANGED <<plan, dir, file>>,
           \A t \in Used : pc'[t] \in {"write", "rename"} => pc'[t] = pc[t] /\ fd'[t] = fd[t]
    PROVE  Alone' => Names'
<1> USE PlanStays
<1> SUFFICES ASSUME Alone' PROVE Names'
  OBVIOUS
<1>1. Names
  BY DEF CacheInv
<1> QED
  BY <1>1 DEF Names

\* A step of an engine that does not send what it has answered.
LEMMA ProcessesStay ==
    ASSUME CacheInv, UNCHANGED <<plan, chan, got, main, flag, out>>,
           \A t \in Used : (pc'[t] = "returned") = (pc[t] = "returned"),
           \A t \in Used : pc[t] = "returned" => answer'[t] = answer[t]
    PROVE  \A p \in Proc' : Channel(p)' /\ Outcome(p)'
<1> USE PlanStays
<1> TAKE p \in Proc'
<1>1. p \in Proc /\ Of(p) \subseteq Used
  BY OneEngine
<1>2. Finished(p)' = Finished(p) /\ \A t \in Finished(p) : answer'[t] = answer[t]
  BY <1>1 DEF Finished
<1>3. Channel(p) /\ Outcome(p)
  BY <1>1 DEF CacheInv
<1>4. Channel(p)'
  BY <1>2, <1>3 DEF Channel
<1>5. LightAnswer(p) => LightAnswer(p)'
  <2>1. out'[p] = out[p] /\ flag' = flag
    OBVIOUS
  <2>2. \A t \in Of(p) : t \in Finished(p) /\ answer[t] = "Unknown" =>
                            t \in Finished(p)' /\ answer'[t] = "Unknown"
    BY <1>2
  <2> QED
    BY <1>2, <2>1, <2>2 DEF LightAnswer
<1>6. Outcome(p)'
  BY <1>1, <1>3, <1>5 DEF Outcome
<1> QED
  BY <1>4, <1>6

-----------------------------------------------------------------------------
\* try_cached_bl_engine takes a definite verdict from a whole entry.
LEMMA CreateStep == ASSUME CacheInv, NEW t \in Used, Create(t) PROVE CacheInv'
<1> USE PlanStays
<1>1. /\ pc[t] = "create" /\ pc' = [pc EXCEPT ![t] = "check"]
      /\ UNCHANGED <<plan, answer, fd, dir, file, main, chan, got, told, flag, out, faults>>
  BY DEF Create, Goto, diskVars, mainVars
<1>2. t \in Engines
  BY OneEngine
<1>3. PICK m : made' = [made EXCEPT ![t] = m] /\ (m.kind = "verdict" => m.verdict \in Definite)
  <2>1. CASE Found(t) = {}
    <3>1. [Nothing EXCEPT !.kind = "fresh"].kind # "verdict"
      BY DEF Nothing
    <3> QED
      BY <2>1, <3>1 DEF Create
  <2>2. CASE Found(t) # {}
    <3> DEFINE e == CHOOSE x \in Found(t) : TRUE
    <3>1. e \in Found(t)
      BY <2>2
    <3>2. e.whole /\ \E i \in DOMAIN file : e = file[i]
      BY <3>1 DEF Found, CacheInv, CacheTypeOK
    <3>3. e.verdict \in Definite
      BY <3>2 DEF CacheInv, Answered
    <3> HIDE DEF e
    <3>4. \E f : \/ made' = [made EXCEPT ![t] = [kind |-> "verdict", verdict |-> e.verdict,
                                                lemmas |-> {}, from |-> f]]
                \/ made' = [made EXCEPT ![t] = [kind |-> "seeded", verdict |-> None,
                                                lemmas |-> Reconstructed(e, Sys(t)), from |-> f]]
      BY <2>2 DEF Create, e
    <3> QED
      BY <3>3, <3>4
  <2> QED
    BY <2>1, <2>2
<1>4. CacheTypeOK'
  BY <1>1, <1>2, <1>3 DEF CacheInv, CacheTypeOK, Places
<1>5. Answered'
  BY <1>1, <1>2, <1>3 DEF CacheInv, CacheTypeOK, Answered
<1>6. \A u \in Used : pc'[u] = (IF u = t THEN "check" ELSE pc[u])
  BY <1>1, <1>2, OneEngine DEF CacheInv, CacheTypeOK
<1>7. Alone' => Names'
  BY <1>1, <1>6, NamesStay
<1>8. \A p \in Proc' : Channel(p)' /\ Outcome(p)'
  BY <1>1, <1>6, ProcessesStay
<1> QED
  BY <1>4, <1>5, <1>7, <1>8 DEF CacheInv

\* An engine answers: the verdict kept, its own, or none when it is told to terminate.
LEMMA CheckSteps ==
    ASSUME CacheInv, NEW t \in Used, CheckCached(t) \/ CheckInner(t) \/ GiveUp(t)
    PROVE  CacheInv'
<1> USE PlanStays
<1>1. t \in Engines
  BY OneEngine
<1>2. PICK r \in Said, l \in {"return", "store"} :
         /\ pc[t] = "check" /\ pc' = [pc EXCEPT ![t] = l] /\ answer' = [answer EXCEPT ![t] = r]
         /\ l = "store" => r \in Definite
  <2>1. CASE CheckCached(t)
    BY <1>1, <2>1 DEF CheckCached, Goto, CacheInv, Answered, Said
  <2>2. CASE GiveUp(t)
    BY <2>2 DEF GiveUp, Goto, Said
  <2>3. CASE CheckInner(t)
    <3>1. Answers(t) \subseteq Said
      BY DEF Answers, Right, Said, Definite
    <3> QED
      BY <2>3, <3>1 DEF CheckInner, Goto, Said
  <2> QED
    BY <2>1, <2>2, <2>3
<1>3. UNCHANGED <<plan, made, fd, dir, file, main, chan, got, told, flag, out, faults>>
  BY DEF CheckCached, CheckInner, GiveUp, diskVars, mainVars
<1>4. CacheTypeOK'
  BY <1>1, <1>2, <1>3 DEF CacheInv, CacheTypeOK, Places
<1>5. Answered'
  BY <1>1, <1>2, <1>3 DEF CacheInv, CacheTypeOK, Answered
<1>6. \A u \in Used : /\ pc'[u] = (IF u = t THEN l ELSE pc[u])
                      /\ answer'[u] = (IF u = t THEN r ELSE answer[u])
  BY <1>1, <1>2, OneEngine DEF CacheInv, CacheTypeOK
<1>7. Alone' => Names'
  BY <1>2, <1>3, <1>6, NamesStay
<1>8. \A p \in Proc' : Channel(p)' /\ Outcome(p)'
  BY <1>2, <1>3, <1>6, ProcessesStay
<1> QED
  BY <1>4, <1>5, <1>7, <1>8 DEF CacheInv

\* A file is added, or its contents are replaced.
LEMMA FileChanges ==
    ASSUME NEW s, s \in Seq(Range(s)), NEW e
    PROVE  /\ Append(s, e) \in Seq(Range(Append(s, e)))
           /\ \A i : [s EXCEPT ![i] = e] \in Seq(Range([s EXCEPT ![i] = e]))
<1> DEFINE T == Range(s) \cup {e}
<1>1. s \in Seq(T)
  BY SeqMonotonic
<1>2. Append(s, e) \in Seq(T)
  BY <1>1
<1>3. ASSUME NEW i PROVE [s EXCEPT ![i] = e] \in Seq(T)
  <2>1. CASE i \in 1..Len(s)
    BY <1>1, <2>1, ExceptSeq
  <2>2. CASE i \notin 1..Len(s)
    <3>1. s \in [1..Len(s) -> T] /\ DOMAIN s = 1..Len(s)
      BY <1>1, LenProperties
    <3>2. [s EXCEPT ![i] = e] = s
      BY <2>2, <3>1
    <3> QED
      BY <1>1, <3>2
  <2> QED
    BY <2>1, <2>2
<1> QED
  BY <1>2, <1>3, SeqOfRange

\* The temporary file of the process is created, or truncated where another engine has left it.
LEMMA OpenStep == ASSUME CacheInv, NEW t \in Used, Open(t) PROVE CacheInv'
<1> USE PlanStays
<1> DEFINE n == Tmp(t)
<1>1. /\ pc[t] = "store" /\ pc' = [pc EXCEPT ![t] = "write"]
      /\ UNCHANGED <<plan, made, answer, main, chan, got, told, flag, out, faults>>
      /\ IF n \in DOMAIN dir
         THEN /\ file' = [file EXCEPT ![dir[n]] = Partial]
              /\ fd' = [fd EXCEPT ![t] = dir[n]] /\ dir' = dir
         ELSE /\ file' = Append(file, Partial) /\ fd' = [fd EXCEPT ![t] = Len(file')]
              /\ dir' = Named(n, Len(file'))
  BY DEF Open, Goto, mainVars
<1>2. t \in Engines
  BY OneEngine
<1>3. /\ Len(file) \in Nat /\ DOMAIN file = 1..Len(file)
      /\ \A m \in DOMAIN dir : dir[m] \in 1..Len(file)
      /\ dir = [m \in DOMAIN dir |-> dir[m]]
  BY DEF CacheInv, CacheTypeOK
<1>4. ~Partial.whole
  BY DEF Partial
<1> HIDE DEF n
\* The file opened has the temporary name, and only its contents change.
<1> DEFINE f == IF n \in DOMAIN dir THEN dir[n] ELSE Len(file) + 1
<1>5. /\ fd' = [fd EXCEPT ![t] = f] /\ f \in Nat
      /\ file' \in Seq(Range(file')) /\ f \in DOMAIN file' /\ DOMAIN file \subseteq DOMAIN file'
      /\ file'[f] = Partial
      /\ \A i \in DOMAIN file' \ {f} : i \in DOMAIN file /\ file'[i] = file[i]
      /\ DOMAIN dir' = DOMAIN dir \cup {n} /\ dir' = [m \in DOMAIN dir' |-> dir'[m]]
      /\ dir'[n] = f /\ \A m \in DOMAIN dir : dir'[m] = dir[m]
      /\ n \in DOMAIN dir \/ f \notin DOMAIN file
  <2>1. CASE n \in DOMAIN dir
    <3>1. f \in 1..Len(file) /\ file' = [file EXCEPT ![f] = Partial]
      BY <1>1, <1>3, <2>1
    <3>2. /\ DOMAIN file' = DOMAIN file /\ file'[f] = Partial
          /\ \A i \in DOMAIN file' \ {f} : i \in DOMAIN file /\ file'[i] = file[i]
      BY <1>3, <3>1 DEF CacheInv, CacheTypeOK
    <3>3. file' \in Seq(Range(file'))
      BY <3>1, FileChanges DEF CacheInv, CacheTypeOK
    <3> HIDE DEF f
    <3>4. fd' = [fd EXCEPT ![t] = f] /\ dir' = dir /\ dir[n] = f
      BY <1>1, <2>1 DEF f
    <3>5. f \in Nat /\ f \in DOMAIN file' /\ DOMAIN file \subseteq DOMAIN file'
      BY <1>3, <3>1, <3>2
    <3>6. DOMAIN dir' = DOMAIN dir \cup {n} /\ dir' = [m \in DOMAIN dir' |-> dir'[m]]
      BY <1>3, <2>1, <3>4
    <3> QED
      BY <2>1, <3>2, <3>3, <3>4, <3>5, <3>6
  <2>2. CASE n \notin DOMAIN dir
    <3>1. file' = Append(file, Partial) /\ f = Len(file) + 1
      BY <1>1, <2>2
    <3>2. /\ Len(file') = f /\ DOMAIN file' = 1..f /\ file'[f] = Partial
          /\ \A i \in DOMAIN file' \ {f} : i \in DOMAIN file /\ file'[i] = file[i]
      BY <1>3, <3>1 DEF CacheInv, CacheTypeOK
    <3>3. file' \in Seq(Range(file'))
      BY <3>1, FileChanges DEF CacheInv, CacheTypeOK
    <3>4. fd' = [fd EXCEPT ![t] = f] /\ dir' = Named(n, f)
      BY <1>1, <2>2, <3>2
    <3>5. /\ DOMAIN dir' = DOMAIN dir \cup {n} /\ dir' = [m \in DOMAIN dir' |-> dir'[m]]
          /\ dir'[n] = f /\ \A m \in DOMAIN dir : dir'[m] = dir[m]
      BY <1>3, <2>2, <3>4 DEF Named
    <3>6. /\ f \in Nat /\ f \in DOMAIN file' /\ DOMAIN file \subseteq DOMAIN file'
          /\ f \notin DOMAIN file
      BY <1>3, <3>1, <3>2
    <3> HIDE DEF f
    <3> QED
      BY <3>2, <3>3, <3>4, <3>5, <3>6
  <2> QED
    BY <2>1, <2>2
<1> HIDE DEF f
<1>6. CacheTypeOK'
  <2>1. dir' \in [DOMAIN dir' -> DOMAIN file']
    BY <1>3, <1>5
  <2> QED
    BY <1>1, <1>2, <1>5, <2>1 DEF CacheInv, CacheTypeOK, Places
<1>7. Answered'
  BY <1>1, <1>2, <1>4, <1>5 DEF CacheInv, CacheTypeOK, Answered
<1>8. \A u \in Used : pc'[u] = IF u = t THEN "write" ELSE pc[u]
  BY <1>1, <1>2, OneEngine DEF CacheInv, CacheTypeOK
<1>9. ASSUME Alone' PROVE Names'
  <2>1. Names
    BY <1>1, <1>9 DEF CacheInv
  <2>2. \A m \in DOMAIN dir' : dir'[m] = f => m = n
    BY <1>3, <1>5, <2>1 DEF Names
  <2>3. \A l, m \in DOMAIN dir' : dir'[l] = dir'[m] => l = m
    BY <1>5, <2>1, <2>2 DEF Names
  <2>4. \A m \in DOMAIN dir' : m[1] = "entry" => file'[dir'[m]].whole
    BY <1>3, <1>5, <2>1, <2>2, NamesDiffer DEF Names, n
  <2>5. ASSUME NEW u \in Used, u # t PROVE Tmp(u) # n
    BY <1>1, <1>9, <2>5, OneEngine, NamesDiffer DEF n
  <2>6. ASSUME NEW u \in Used, pc'[u] = "write"
        PROVE  Tmp(u) \in DOMAIN dir' /\ fd'[u] = dir'[Tmp(u)]
    <3>1. CASE u = t
      BY <1>2, <1>5, <3>1 DEF n, CacheInv, CacheTypeOK
    <3>2. CASE u # t
      BY <1>5, <1>8, <2>1, <2>6, <3>2, OneEngine DEF Names, CacheInv, CacheTypeOK
    <3> QED
      BY <3>1, <3>2
  <2>7. ASSUME NEW u \in Used, pc'[u] = "rename"
        PROVE  Tmp(u) \in DOMAIN dir' /\ file'[dir'[Tmp(u)]].whole
    BY <1>3, <1>5, <1>8, <2>1, <2>2, <2>5, <2>7 DEF Names
  <2> QED
    BY <1>1, <2>3, <2>4, <2>6, <2>7 DEF Names
<1>10. \A p \in Proc' : Channel(p)' /\ Outcome(p)'
  BY <1>1, <1>8, ProcessesStay
<1> QED
  BY <1>6, <1>7, <1>9, <1>10 DEF CacheInv

\* What is written is an entry with the engine's definite answer.
LEMMA WriteStep == ASSUME CacheInv, NEW t \in Used, Write(t) PROVE CacheInv'
<1> USE PlanStays
<1>1. /\ pc[t] = "write" /\ pc' = [pc EXCEPT ![t] = "rename"]
      /\ file' = [file EXCEPT ![fd[t]] = Entry(t)]
      /\ UNCHANGED <<plan, made, answer, fd, dir, main, chan, got, told, flag, out, faults>>
  BY DEF Write, Goto, mainVars
<1>2. t \in Engines
  BY OneEngine
<1>3. Entry(t).whole /\ Entry(t).verdict = answer[t] /\ answer[t] \in Definite
  BY <1>1, <1>2 DEF Entry, CacheInv, Answered
<1>4. /\ DOMAIN file' = DOMAIN file
      /\ \A i \in DOMAIN file : file'[i] = IF i = fd[t] THEN Entry(t) ELSE file[i]
  BY <1>1 DEF CacheInv, CacheTypeOK
<1>5. CacheTypeOK'
  <2>1. file' \in Seq(Range(file'))
    BY <1>1, FileChanges DEF CacheInv, CacheTypeOK
  <2> QED
    BY <1>1, <1>2, <1>4, <2>1 DEF CacheInv, CacheTypeOK, Places
<1>6. Answered'
  BY <1>1, <1>2, <1>3, <1>4 DEF CacheInv, CacheTypeOK, Answered
<1>7. \A u \in Used : pc'[u] = IF u = t THEN "rename" ELSE pc[u]
  BY <1>1, <1>2, OneEngine DEF CacheInv, CacheTypeOK
<1>8. ASSUME Alone' PROVE Names'
  <2>1. Names
    BY <1>1, <1>8 DEF CacheInv
  <2>2. \A m \in DOMAIN dir : dir[m] \in DOMAIN file
    BY DEF CacheInv, CacheTypeOK
  <2>3. \A m \in DOMAIN dir : file[dir[m]].whole => file'[dir[m]].whole
    BY <1>3, <1>4, <2>2
  <2>4. Tmp(t) \in DOMAIN dir /\ file'[dir[Tmp(t)]].whole
    BY <1>1, <1>3, <1>4, <2>1, <2>2 DEF Names
  <2> QED
    BY <1>1, <1>7, <2>1, <2>3, <2>4 DEF Names
<1>9. \A p \in Proc' : Channel(p)' /\ Outcome(p)'
  BY <1>1, <1>7, ProcessesStay
<1> QED
  BY <1>5, <1>6, <1>8, <1>9 DEF CacheInv

\* A write that fails removes the name of the file, and a rename gives it the final one.
LEMMA RemoveSteps == ASSUME CacheInv, NEW t \in Used, WriteFails(t) \/ Rename(t) PROVE CacheInv'
<1> USE PlanStays
<1>1. /\ pc[t] \in {"write", "rename"} /\ pc' = [pc EXCEPT ![t] = "return"]
      /\ UNCHANGED <<plan, made, answer, fd, file, main, chan, got, told, flag, out>>
      /\ faults' \in Nat
  BY DEF WriteFails, Rename, Goto, mainVars, CacheInv, CacheTypeOK
<1>2. t \in Engines
  BY OneEngine
<1>3. /\ dir = [m \in DOMAIN dir |-> dir[m]]
      /\ \A m \in DOMAIN dir : dir[m] \in DOMAIN file
  BY DEF CacheInv, CacheTypeOK
\* Names of other files stay, and one may be given to the temporary file.
<1>4. /\ dir' = [m \in DOMAIN dir' |-> dir'[m]]
      /\ DOMAIN dir \ {Tmp(t), Final(t)} \subseteq DOMAIN dir'
      /\ \A m \in DOMAIN dir' : \/ m # Tmp(t) /\ m \in DOMAIN dir /\ dir'[m] = dir[m]
                                \/ dir' = dir
                                \/ /\ pc[t] = "rename" /\ Tmp(t) \in DOMAIN dir
                                   /\ m = Final(t) /\ dir'[m] = dir[Tmp(t)]
      /\ \A m \in DOMAIN dir \ {Tmp(t), Final(t)} : dir'[m] = dir[m]
      /\ dir' = dir \/ Tmp(t) \notin DOMAIN dir'
  <2>1. CASE dir' = dir
    BY <2>1, <1>3
  <2>2. CASE dir' = Without(Tmp(t))
    BY <2>2, <1>3 DEF Without
  <2>3. CASE /\ pc[t] = "rename" /\ Tmp(t) \in DOMAIN dir
             /\ dir' = [x \in (DOMAIN dir \ {Tmp(t)}) \cup {Final(t)} |->
                          IF x = Final(t) THEN dir[Tmp(t)] ELSE dir[x]]
    BY <2>3, <1>3, NamesDiffer
  <2> QED
    BY <2>1, <2>2, <2>3 DEF WriteFails, Rename
<1>5. CacheTypeOK'
  <2>1. dir' \in [DOMAIN dir' -> DOMAIN file]
    BY <1>3, <1>4
  <2> QED
    BY <1>1, <1>2, <2>1 DEF CacheInv, CacheTypeOK, Places
<1>6. Answered'
  BY <1>1, <1>2 DEF CacheInv, CacheTypeOK, Answered, Said
<1>7. \A u \in Used : pc'[u] = IF u = t THEN "return" ELSE pc[u]
  BY <1>1, <1>2, OneEngine DEF CacheInv, CacheTypeOK
<1>8. ASSUME Alone' PROVE Names'
  <2>1. Names
    BY <1>1, <1>8 DEF CacheInv
  <2>2. \A l, m \in DOMAIN dir' : dir'[l] = dir'[m] => l = m
    BY <1>4, <2>1 DEF Names
  <2>3. \A m \in DOMAIN dir' : m[1] = "entry" => file[dir'[m]].whole
    BY <1>4, <2>1 DEF Names
  <2>4. ASSUME NEW u \in Used, u # t, Tmp(u) \in DOMAIN dir
        PROVE  Tmp(u) \in DOMAIN dir' /\ dir'[Tmp(u)] = dir[Tmp(u)]
    BY <1>1, <1>4, <1>8, <2>4, OneEngine, NamesDiffer
  <2> QED
    BY <1>1, <1>7, <2>1, <2>2, <2>3, <2>4 DEF Names
<1>9. \A p \in Proc' : Channel(p)' /\ Outcome(p)'
  BY <1>1, <1>7, ProcessesStay
<1> QED
  BY <1>5, <1>6, <1>8, <1>9 DEF CacheInv

\* An engine sends what it has answered, and is counted.
LEMMA ReturnStep == ASSUME CacheInv, NEW t \in Used, Return(t) PROVE CacheInv'
<1> USE PlanStays
<1> DEFINE o == t[1]
<1>1. /\ pc[t] = "return" /\ pc' = [pc EXCEPT ![t] = "returned"]
      /\ chan' = [chan EXCEPT ![o] = Append(chan[o], answer[t])]
      /\ UNCHANGED <<plan, made, answer, fd, dir, file, main, got, told, flag, out, faults>>
  BY DEF Return, Goto, diskVars
<1>2. t \in Engines /\ o \in Proc /\ t \in Of(o)
  BY OneEngine
<1>3. answer[t] \in Said /\ chan[o] \in Seq(Said)
  BY <1>1, <1>2 DEF CacheInv, CacheTypeOK, Answered
<1> HIDE DEF o
<1>4. CacheTypeOK'
  <2>1. Append(chan[o], answer[t]) \in Seq(Said)
    BY <1>3
  <2>2. chan' \in [Proc -> Seq(Said)]
    BY <1>1, <2>1 DEF CacheInv, CacheTypeOK
  <2> QED
    BY <1>1, <1>2, <2>2 DEF CacheInv, CacheTypeOK, Places
<1>5. Answered'
  BY <1>1, <1>2, <1>3 DEF CacheInv, CacheTypeOK, Answered
<1>6. \A u \in Used : pc'[u] = IF u = t THEN "returned" ELSE pc[u]
  BY <1>1, <1>2, OneEngine DEF CacheInv, CacheTypeOK
<1>7. Alone' => Names'
  BY <1>1, <1>6, NamesStay
<1>8. ASSUME NEW p \in Proc', p # o PROVE Channel(p)' /\ Outcome(p)'
  <2>1. p \in Proc /\ chan'[p] = chan[p]
    BY <1>1, <1>8 DEF CacheInv, CacheTypeOK
  <2>2. t \notin Of(p) /\ Of(p) \subseteq Used
    BY <1>1, <1>8, <2>1, OneEngine DEF o
  <2>3. Finished(p)' = Finished(p)
    BY <1>1, <1>6, <2>2 DEF Finished
  <2>4. Channel(p) /\ Outcome(p)
    BY <2>1 DEF CacheInv
  <2>5. Channel(p)'
    <3>1. got'[p] = got[p] /\ answer' = answer
      BY <1>1
    <3> QED
      BY <2>1, <2>3, <2>4, <3>1 DEF Channel
  <2>6. LightAnswer(p) => LightAnswer(p)'
    BY <1>1, <2>3 DEF LightAnswer
  <2>7. Outcome(p)'
    BY <1>1, <2>1, <2>4, <2>6 DEF Outcome
  <2> QED
    BY <2>5, <2>7
<1>9. Channel(o)' /\ Outcome(o)'
  <2>1. /\ chan'[o] = Append(chan[o], answer[t]) /\ Len(chan[o]) \in Nat
        /\ Len(chan'[o]) = Len(chan[o]) + 1 /\ chan'[o][Len(chan[o]) + 1] = answer[t]
        /\ \A i \in 1..Len(chan[o]) : chan'[o][i] = chan[o][i]
    BY <1>1, <1>2, <1>3 DEF CacheInv, CacheTypeOK
  <2>2. Finished(o)' = Finished(o) \cup {t} /\ t \notin Finished(o) /\ Finished(o) \subseteq Of(o)
    BY <1>1, <1>2, <1>6, OneEngine DEF Finished
  <2>3. IsFiniteSet(Finished(o))
    BY <1>2, <2>2, OneEngine, FS_Subset
  <2>4. Cardinality(Finished(o)') = Cardinality(Finished(o)) + 1
    BY <2>2, <2>3, FS_AddElement
  <2>5. Channel(o) /\ Outcome(o) /\ got[o] \in Nat
    BY <1>2 DEF CacheInv, CacheTypeOK
  <2>6. Len(chan'[o]) = Cardinality(Finished(o)') /\ got'[o] <= Len(chan'[o])
    BY <1>1, <2>1, <2>4, <2>5 DEF Channel
  <2>7. \A u \in Finished(o)' : \E i \in 1..Len(chan'[o]) : chan'[o][i] = answer'[u]
    <3> TAKE u \in Finished(o)'
    <3>1. CASE u = t
      BY <1>1, <2>1, <3>1
    <3>2. CASE u # t
      <4>1. PICK i \in 1..Len(chan[o]) : chan[o][i] = answer[u]
        BY <2>2, <2>5, <3>2 DEF Channel
      <4>2. i \in 1..Len(chan'[o]) /\ chan'[o][i] = answer'[u]
        BY <1>1, <2>1, <4>1
      <4> QED
        BY <4>2
    <3> QED
      BY <3>1, <3>2
  <2>8. \A i \in 1..Len(chan'[o]) : \E u \in Finished(o)' : chan'[o][i] = answer'[u]
    BY <1>1, <2>1, <2>2, <2>5 DEF Channel
  <2>9. Channel(o)'
    BY <2>6, <2>7, <2>8 DEF Channel
  <2>10. LightAnswer(o) => LightAnswer(o)'
    BY <1>1, <2>2 DEF LightAnswer
  <2>11. \A i \in 1..got[o] : chan'[o][i] = chan[o][i]
    BY <2>1, <2>5 DEF Channel
  <2>12. Outcome(o)'
    BY <1>1, <2>5, <2>10, <2>11 DEF Outcome
  <2> QED
    BY <2>9, <2>12
<1> QED
  BY <1>1, <1>4, <1>5, <1>7, <1>8, <1>9 DEF CacheInv

-----------------------------------------------------------------------------
\* A step of a process leaves what its engines have done, and what has been sent.
LEMMA EnginesStay ==
    ASSUME CacheInv, UNCHANGED <<plan, pc, made, answer, fd, dir, file, chan>>
    PROVE  /\ Answered' /\ (Alone' => Names')
           /\ \A p \in Proc : Finished(p)' = Finished(p)
           /\ \A p \in Proc : got'[p] <= Len(chan[p]) => Channel(p)'
<1> USE PlanStays
<1>1. Answered'
  BY DEF CacheInv, Answered
<1>2. Alone' => Names'
  BY NamesStay
<1>3. ASSUME NEW p \in Proc PROVE Finished(p)' = Finished(p)
  BY DEF Finished
<1>4. ASSUME NEW p \in Proc, got'[p] <= Len(chan[p]) PROVE Channel(p)'
  BY <1>3, <1>4 DEF CacheInv, Channel
<1> QED
  BY <1>1, <1>2, <1>3, <1>4

\* And what it does not change of a process is as good as it was.
LEMMA OutcomeStays ==
    ASSUME CacheInv, UNCHANGED <<plan, pc, made, answer, fd, dir, file, chan>>,
           NEW p \in Proc, flag \subseteq flag', out'[p] = out[p], got'[p] = got[p],
           \/ main'[p] = main[p]
           \/ main[p] = "create" /\ main'[p] = "wait"
           \/ main[p] \in {"tell", "join"} /\ main'[p] \in {"join", "done"}
           \/ main'[p] = "killed"
    PROVE  Channel(p)' /\ Outcome(p)'
<1> USE PlanStays
<1>1. Channel(p) /\ Outcome(p) /\ Finished(p)' = Finished(p)
  BY EnginesStay DEF CacheInv
<1>2. Channel(p)'
  BY <1>1, EnginesStay DEF Channel
<1>3. LightAnswer(p) => LightAnswer(p)'
  BY <1>1 DEF LightAnswer
<1> QED
  BY <1>1, <1>2, <1>3 DEF Outcome

\* The processes are created, stop their engines, wait for them, and are interrupted or killed.
LEMMA MainSteps ==
    ASSUME CacheInv, NEW p \in Proc,
           Created(p) \/ LightTell(p) \/ LightJoin(p) \/ Interrupt(p) \/ Kill(p)
    PROVE  CacheInv'
<1> USE PlanStays
<1>1. UNCHANGED <<plan, pc, made, answer, fd, dir, file, chan, got, out>>
  BY DEF Created, LightTell, LightJoin, Interrupt, Kill, engineVars, diskVars
<1>2. /\ flag \subseteq flag' /\ flag' \subseteq Proc /\ told' \subseteq Engines /\ faults' \in Nat
  <2>1. Of(p) \subseteq Engines
    BY OneEngine
  <2> QED
    BY <2>1 DEF Created, LightTell, LightJoin, Interrupt, Kill, To, CacheInv, CacheTypeOK
<1>3. \E l : /\ main' = [main EXCEPT ![p] = l]
             /\ l \in {"create", "wait", "tell", "join", "done", "killed"}
             /\ \/ l = main[p]
                \/ main[p] = "create" /\ l = "wait"
                \/ main[p] \in {"tell", "join"} /\ l \in {"join", "done"}
                \/ l = "killed"
  <2>1. CASE Interrupt(p)
    <3>1. main' = [main EXCEPT ![p] = main[p]]
      BY <2>1 DEF Interrupt, CacheInv, CacheTypeOK
    <3> QED
      BY <3>1 DEF CacheInv, CacheTypeOK
  <2>2. CASE Created(p) \/ LightTell(p) \/ LightJoin(p) \/ Kill(p)
    BY <2>2 DEF Created, LightTell, LightJoin, Kill, To
  <2> QED
    BY <2>1, <2>2
<1>4. CacheTypeOK'
  <2>1. main' \in [Proc -> {"create", "wait", "tell", "join", "done", "killed"}]
    BY <1>3 DEF CacheInv, CacheTypeOK
  <2> QED
    BY <1>1, <1>2, <2>1 DEF CacheInv, CacheTypeOK
<1>5. ASSUME NEW q \in Proc' PROVE Channel(q)' /\ Outcome(q)'
  <2>1. q \in Proc
    BY <1>1
  <2>2. \/ main'[q] = main[q]
        \/ main[q] = "create" /\ main'[q] = "wait"
        \/ main[q] \in {"tell", "join"} /\ main'[q] \in {"join", "done"}
        \/ main'[q] = "killed"
    BY <1>3, <2>1 DEF CacheInv, CacheTypeOK
  <2> QED
    BY <1>1, <1>2, <2>1, <2>2, OutcomeStays
<1> QED
  BY <1>1, <1>4, <1>5, EnginesStay DEF CacheInv

\* LightPortfolio ends without an answer when it is stopped, or when all engines have sent theirs
\* and none was definite.
LEMMA LightEndsStep == ASSUME CacheInv, NEW p \in Proc, LightEnds(p) PROVE CacheInv'
<1> USE PlanStays
<1>1. /\ plan[p].kind = "light" /\ main[p] = "wait" /\ (p \in flag \/ got[p] = Cardinality(Of(p)))
      /\ out' = [out EXCEPT ![p] = "Unknown"] /\ main' = [main EXCEPT ![p] = "tell"]
      /\ UNCHANGED <<plan, pc, made, answer, fd, dir, file, chan, got, told, flag, faults>>
  BY DEF LightEnds, Light, To, engineVars, diskVars
<1>2. CacheTypeOK'
  <2>1. main' \in [Proc -> {"create", "wait", "tell", "join", "done", "killed"}]
    BY <1>1 DEF CacheInv, CacheTypeOK
  <2>2. out' \in [Proc -> Said \cup {None, "interrupted", "panic"}]
    BY <1>1 DEF CacheInv, CacheTypeOK, Said
  <2> QED
    BY <1>1, <2>1, <2>2 DEF CacheInv, CacheTypeOK
<1>3. ASSUME NEW q \in Proc', q # p PROVE Channel(q)' /\ Outcome(q)'
  <2>1. q \in Proc /\ main'[q] = main[q] /\ out'[q] = out[q]
    BY <1>1, <1>3 DEF CacheInv, CacheTypeOK
  <2> QED
    BY <1>1, <2>1, OutcomeStays
<1>4. Channel(p) /\ Outcome(p) /\ Finished(p)' = Finished(p)
  BY <1>1, EnginesStay DEF CacheInv
<1>5. Channel(p)'
  BY <1>1, <1>4, EnginesStay DEF Channel
<1>6. main'[p] = "tell" /\ out'[p] = "Unknown"
  BY <1>1 DEF CacheInv, CacheTypeOK
<1>7. ASSUME p \notin flag, NEW t \in Of(p) PROVE t \in Finished(p) /\ answer[t] = "Unknown"
  <2>1. got[p] = Cardinality(Of(p)) /\ Finished(p) \subseteq Of(p) /\ IsFiniteSet(Of(p))
    BY <1>1, <1>7, OneEngine DEF Finished
  <2>2. Cardinality(Finished(p)) <= Cardinality(Of(p))
    BY <2>1, FS_Subset
  <2>3. /\ Cardinality(Finished(p)) \in Nat /\ Cardinality(Of(p)) \in Nat
        /\ Cardinality(Of(p)) <= Cardinality(Finished(p))
    BY <1>4, <2>1, FS_Subset, FS_CardinalityType DEF Channel
  <2>4. Cardinality(Of(p)) = Cardinality(Finished(p))
    BY <2>2, <2>3
  <2>5. Finished(p) = Of(p)
    BY <2>1, <2>4, FS_Subset
  <2>6. got[p] = Len(chan[p])
    BY <1>4, <2>1, <2>4 DEF Channel
  <2> QED
    BY <1>1, <1>4, <1>7, <2>5, <2>6 DEF Channel, Outcome
<1>8. LightAnswer(p)'
  BY <1>1, <1>4, <1>6, <1>7 DEF LightAnswer
<1>9. Outcome(p)'
  BY <1>6, <1>8 DEF Outcome
<1> QED
  BY <1>1, <1>2, <1>3, <1>5, <1>9, EnginesStay DEF CacheInv

\* It takes the first definite result.
LEMMA LightReceiveStep == ASSUME CacheInv, NEW p \in Proc, LightReceive(p) PROVE CacheInv'
<1> USE PlanStays
<1> DEFINE r == chan[p][got[p] + 1]
<1>1. got[p] \in Nat /\ got'[p] = got[p] + 1 /\ chan[p] \in Seq(Said)
  BY DEF LightReceive, CacheInv, CacheTypeOK
<1>2. /\ plan[p].kind = "light" /\ main[p] = "wait" /\ got[p] < Len(chan[p])
      /\ got' = [got EXCEPT ![p] = got[p] + 1]
      /\ \/ r = "Unknown" /\ UNCHANGED <<out, main>>
         \/ /\ r # "Unknown"
            /\ out' = [out EXCEPT ![p] = r] /\ main' = [main EXCEPT ![p] = "tell"]
      /\ UNCHANGED <<plan, pc, made, answer, fd, dir, file, chan, told, flag, faults>>
  BY <1>1 DEF LightReceive, Light, To, engineVars, diskVars
<1>3. r \in Said /\ got[p] + 1 \in 1..Len(chan[p])
  BY <1>1, <1>2
<1>4. CacheTypeOK'
  <2>1. main' \in [Proc -> {"create", "wait", "tell", "join", "done", "killed"}]
    BY <1>2 DEF CacheInv, CacheTypeOK
  <2>2. out' \in [Proc -> Said \cup {None, "interrupted", "panic"}]
    BY <1>2, <1>3 DEF CacheInv, CacheTypeOK
  <2>3. got' \in [Proc -> Nat]
    BY <1>1, <1>2 DEF CacheInv, CacheTypeOK
  <2> QED
    BY <1>2, <2>1, <2>2, <2>3 DEF CacheInv, CacheTypeOK
<1>5. ASSUME NEW q \in Proc', q # p PROVE Channel(q)' /\ Outcome(q)'
  <2>1. q \in Proc /\ main'[q] = main[q] /\ out'[q] = out[q] /\ got'[q] = got[q]
    BY <1>2, <1>5 DEF CacheInv, CacheTypeOK
  <2> QED
    BY <1>2, <2>1, OutcomeStays
<1>6. Channel(p) /\ Outcome(p) /\ Finished(p)' = Finished(p)
  BY <1>2, EnginesStay DEF CacheInv
<1>7. Channel(p)'
  BY <1>1, <1>2, <1>3, <1>6, EnginesStay
<1>8. Outcome(p)'
  <2>1. CASE r = "Unknown"
    <3>1. main'[p] = "wait"
      BY <1>2, <2>1
    <3>2. \A i \in 1..got'[p] : chan'[p][i] = "Unknown"
      BY <1>1, <1>2, <1>6, <2>1 DEF Outcome
    <3> QED
      BY <3>1, <3>2 DEF Outcome
  <2>2. CASE r # "Unknown"
    <3>1. main'[p] = "tell" /\ out'[p] = r
      BY <1>2, <2>2 DEF CacheInv, CacheTypeOK
    <3>2. \E t \in Finished(p)' : answer'[t] = out'[p]
      BY <1>2, <1>3, <1>6, <3>1 DEF Channel
    <3>3. LightAnswer(p)'
      BY <2>2, <3>1, <3>2 DEF LightAnswer
    <3> QED
      BY <3>1, <3>3 DEF Outcome
  <2> QED
    BY <2>1, <2>2
<1> QED
  BY <1>2, <1>4, <1>5, <1>7, <1>8, EnginesStay DEF CacheInv

\* The command check reports what its engine has answered, unless it was interrupted.
LEMMA CheckReportsStep == ASSUME CacheInv, NEW p \in Proc, CheckReports(p) PROVE CacheInv'
<1> USE PlanStays
<1>1. /\ plan[p].kind = "check" /\ main' = [main EXCEPT ![p] = "done"]
      /\ UNCHANGED <<plan, pc, made, answer, fd, dir, file, chan, got, told, flag, faults>>
  BY DEF CheckReports, To, engineVars, diskVars
<1>2. CacheTypeOK'
  <2>1. main' \in [Proc -> {"create", "wait", "tell", "join", "done", "killed"}]
    BY <1>1 DEF CacheInv, CacheTypeOK
  <2>2. chan[p][1] \in Said
    <3>1. chan[p] \in Seq(Said) /\ Len(chan[p]) = 1
      BY DEF CheckReports, CacheInv, CacheTypeOK
    <3> QED
      BY <3>1
  <2>3. out' \in [Proc -> Said \cup {None, "interrupted", "panic"}]
    BY <2>2 DEF CheckReports, CacheInv, CacheTypeOK
  <2> QED
    BY <1>1, <2>1, <2>3 DEF CacheInv, CacheTypeOK
<1>3. ASSUME NEW q \in Proc', q # p PROVE Channel(q)' /\ Outcome(q)'
  <2>1. q \in Proc /\ main'[q] = main[q] /\ out'[q] = out[q]
    BY <1>1, <1>3 DEF CheckReports, CacheInv, CacheTypeOK
  <2> QED
    BY <1>1, <2>1, OutcomeStays
<1>4. Channel(p)'
  BY <1>1, EnginesStay DEF CacheInv, Channel
<1>5. Outcome(p)'
  BY <1>1 DEF Outcome
<1> QED
  BY <1>1, <1>2, <1>3, <1>4, <1>5, EnginesStay DEF CacheInv

-----------------------------------------------------------------------------
\* The invariant is inductive.
LEMMA CacheInvariance == CacheInv /\ [CacheNext]_cacheVars => CacheInv'
<1> SUFFICES ASSUME CacheInv, [CacheNext]_cacheVars PROVE CacheInv'
  OBVIOUS
<1>1. CASE UNCHANGED cacheVars
  <2> USE PlanStays
  <2>1. UNCHANGED <<plan, pc, made, answer, fd, dir, file, main, chan, got, told, flag, out,
                    faults>>
    BY <1>1 DEF cacheVars, engineVars, diskVars, mainVars
  <2>2. CacheTypeOK'
    BY <2>1 DEF CacheInv, CacheTypeOK
  <2>3. \A p \in Proc' : Channel(p)' /\ Outcome(p)'
    BY <2>1, OutcomeStays
  <2> QED
    BY <2>1, <2>2, <2>3, EnginesStay DEF CacheInv
<1>2. ASSUME NEW t \in Used, EngineStep(t) \/ CheckInner(t) PROVE CacheInv'
  BY <1>2, CreateStep, CheckSteps, OpenStep, WriteStep, RemoveSteps, ReturnStep DEF EngineStep
<1>3. ASSUME NEW p \in Proc, MainStep(p) \/ Interrupt(p) \/ Kill(p) PROVE CacheInv'
  BY <1>3, MainSteps, LightEndsStep, LightReceiveStep, CheckReportsStep DEF MainStep
<1> QED
  BY <1>1, <1>2, <1>3 DEF CacheNext

\* The cache and those who use it keep the types of their state.
THEOREM CacheTypeCorrect == CacheInit /\ [][CacheNext]_cacheVars => []CacheTypeOK
<1>1. CacheInv => CacheTypeOK
  BY DEF CacheInv
<1> QED
  BY <1>1, CacheInitially, CacheInvariance, PTL

\* An entry at its final path is whole at every moment, as long as no process has two engines.
THEOREM EntriesWhole == CacheInit /\ [][CacheNext]_cacheVars => []FinalWhole
<1>1. CacheInv => FinalWhole
  BY DEF CacheInv, FinalWhole, Alone, Names
<1> QED
  BY <1>1, CacheInitially, CacheInvariance, PTL

\* No whole entry has a verdict other than SAT or UNSAT, and no engine takes another one from the
\* cache, also where threads share a temporary file: Unknown is a McResult as well, and an entry
\* with it would answer every later check of the model at once.
CachedDefinite ==
    /\ \A n \in DOMAIN dir : file[dir[n]].whole => file[dir[n]].verdict \in Definite
    /\ \A t \in Engines : made[t].kind = "verdict" => made[t].verdict \in Definite
THEOREM VerdictsDefinite == CacheInit /\ [][CacheNext]_cacheVars => []CachedDefinite
<1>1. CacheInv => CachedDefinite
  <2> SUFFICES ASSUME CacheInv PROVE CachedDefinite
    OBVIOUS
  <2>1. \A n \in DOMAIN dir : dir[n] \in DOMAIN file
    BY DEF CacheInv, CacheTypeOK
  <2> QED
    BY <2>1 DEF CacheInv, Answered, CachedDefinite
<1> QED
  BY <1>1, CacheInitially, CacheInvariance, PTL

\* What LightPortfolio returns is the answer of one of its engines, and it returns none only if it
\* was stopped or if all engines have finished without one: what LightReturns says of the result.
LightRight == \A p \in Proc : plan[p].kind = "light" /\ main[p] = "done" => LightAnswer(p)
THEOREM LightCorrect == CacheInit /\ [][CacheNext]_cacheVars => []LightRight
<1>1. CacheInv => LightRight
  BY DEF CacheInv, Outcome, LightRight
<1> QED
  BY <1>1, CacheInitially, CacheInvariance, PTL

(***************************************************************************)
(* Verdicts are right.  An entry says whose it is, and all that an engine   *)
(* relies on is a right verdict, or lemmas that hold, unless a use of an    *)
(* entry strayed: what the digests leave out differed.                      *)
(***************************************************************************)
Strayed(from) == \E use \in from : ~AlikeUnseen(use[1], use[2])

EntryBacked(e) ==
    e.whole /\ e.current =>
        /\ e.by \in Tasks
        /\ e.region = RegionKey[e.by.model] /\ e.digest = WholeDigest[e.by.model]
        /\ e.table = SideTable(Model[e.by.model])
        /\ e.clauses \subseteq Shortest[e.by.model]
        /\ e.verdict = Right(e.by) \/ Strayed(e.from)

EngineBacked(t) ==
    /\ pc[t] \in {"create", "check"} => answer[t] = None
    /\ answer[t] \in Definite => answer[t] = Right(Task(t)) \/ Strayed(made[t].from)
    /\ made[t].kind = "verdict" => made[t].verdict = Right(Task(t)) \/ Strayed(made[t].from)
    /\ (\A c \in made[t].lemmas : Holds(Task(t).model, c)) \/ Strayed(made[t].from)

Sourced ==
    /\ \A i \in DOMAIN file : EntryBacked(file[i])
    /\ \A t \in Used : EngineBacked(t)

\* The tasks of the engines are those that DigestAssumption speaks of.
LEMMA TasksKnown == ASSUME CacheInv, NEW t \in Used PROVE Task(t) \in Tasks
<1>1. plan \in Plan /\ t \in Engines /\ t[1] \in DOMAIN plan
  BY OneEngine DEF CacheInv, CacheTypeOK, Proc
<1>2. t[2] \in DOMAIN plan[t[1]].tasks
  BY DEF Used
<1>3. Task(t) \in Range(plan[t[1]].tasks)
  BY <1>2 DEF Task, Range
<1> QED
  BY <1>1, <1>3 DEF Tasks

\* Clauses are reconstructed one by one.
LEMMA OneByOne ==
    ASSUME NEW e, NEW m, NEW d \in Reconstructed(e, m)
    PROVE  \E c \in e.clauses : d \in Reconstructed([table |-> e.table, clauses |-> {c}], m)
<1> DEFINE now(l) == {x[2] : x \in {y \in SideTable(m) : <<y[1], VarOf(l)>> \in e.table}}
           lit(l) == IF l > 0 THEN Max(now(l)) ELSE -Max(now(l))
           from(s) == {{lit(l) : l \in c} : c \in {b \in s : \A l \in b : now(l) # {}}}
<1>1. Reconstructed(e, m) = from(e.clauses)
  BY DEF Reconstructed
<1>2. \A c : Reconstructed([table |-> e.table, clauses |-> {c}], m) = from({c})
  BY DEF Reconstructed
<1> HIDE DEF now, lit
<1>3. \E c \in e.clauses : d \in from({c})
  BY <1>1
<1> QED
  BY <1>2, <1>3

\* One more use.
LEMMA OneMoreUse ==
    ASSUME NEW f, NEW x, NEW y, ~Strayed(f \cup {<<x, y>>})
    PROVE  AlikeUnseen(x, y) /\ ~Strayed(f)
<1> DEFINE z == <<x, y>>
<1>1. z[1] = x /\ z[2] = y /\ z \in f \cup {<<x, y>>}
  OBVIOUS
<1> HIDE DEF z
<1>2. AlikeUnseen(z[1], z[2])
  BY <1>1 DEF Strayed
<1>3. AlikeUnseen(x, y)
  BY <1>1, <1>2, Zenon
<1> QED
  BY <1>3 DEF Strayed

\* What an engine finds is right for its task, or lemmas that hold for it, or it strayed.
LEMMA FoundServes ==
    ASSUME NEW e, EntryBacked(e), e.whole, e.current, NEW task \in Tasks,
           e.region = RegionKey[task.model], NEW from
    PROVE  /\ /\ Known(e, task)
              /\ from = e.from \cup {<<e.by, task>>}
              => e.verdict = Right(task) \/ Strayed(from)
           /\ from = e.from \cup {<<e.by, [task EXCEPT !.prop = e.by.prop]>>} =>
                  \/ \A d \in Reconstructed(e, Model[task.model]) : Holds(task.model, d)
                  \/ Strayed(from)
<1> DEFINE by == e.by
           as == [task EXCEPT !.prop = by.prop]
<1>1. /\ by \in Tasks /\ RegionKey[by.model] = RegionKey[task.model]
      /\ e.digest = WholeDigest[by.model]
      /\ e.table = SideTable(Model[by.model]) /\ e.clauses \subseteq Shortest[by.model]
      /\ e.verdict = Right(by) \/ Strayed(e.from)
  BY DEF EntryBacked
<1>2. ASSUME Known(e, task), from = e.from \cup {<<by, task>>}, ~Strayed(from)
      PROVE  e.verdict = Right(task)
  <2>1. AlikeUnseen(by, task) /\ ~Strayed(e.from)
    BY <1>2, OneMoreUse
  <2>2. WholeDigest[by.model] = WholeDigest[task.model]
    BY <1>1, <1>2 DEF Known
  <2>3. Right(by) = Right(task)
    BY <1>1, <2>1, <2>2, DigestAssumption
  <2> QED
    BY <1>1, <2>1, <2>3
<1>3. ASSUME from = e.from \cup {<<by, as>>}, ~Strayed(from),
             NEW d \in Reconstructed(e, Model[task.model])
      PROVE  Holds(task.model, d)
  <2>1. AlikeUnseen(by, as)
    BY <1>3, OneMoreUse
  <2>2. PICK c \in e.clauses :
               d \in Reconstructed([table |-> e.table, clauses |-> {c}], Model[task.model])
    BY <1>3, OneByOne
  <2>3. c \in Shortest[by.model]
    BY <1>1, <2>2
  <2> QED
    BY <1>1, <2>1, <2>2, <2>3, DigestAssumption
<1> QED
  BY <1>2, <1>3

LEMMA SourcedInitially == CacheInit => Sourced
<1> SUFFICES ASSUME CacheInit PROVE Sourced
  OBVIOUS
<1>1. \A i \in DOMAIN file : EntryBacked(file[i])
  <2>1. CASE file = <<>>
    BY <2>1
  <2>2. CASE \E p \in DOMAIN plan : file = <<Stale(plan[p].tasks[1].model)>>
    <3>1. \A n : EntryBacked(Stale(n))
      BY DEF Stale, EntryBacked
    <3> QED
      BY <2>2, <3>1
  <2> QED
    BY <2>1, <2>2 DEF CacheInit
<1>2. ASSUME NEW t \in Used PROVE EngineBacked(t)
  <2>1. pc[t] = "create" /\ made[t] = Nothing /\ answer[t] = None
    BY OneEngine DEF CacheInit
  <2> QED
    BY <2>1 DEF EngineBacked, Nothing, None, Definite
<1> QED
  BY <1>1, <1>2 DEF Sourced

\* Of a step that leaves the engines alone, but for where they are after their answer.
LEMMA EngineStays ==
    ASSUME NEW t, EngineBacked(t), plan' = plan, answer'[t] = answer[t], made'[t] = made[t],
           pc'[t] \in {"create", "check"} => pc'[t] = pc[t]
    PROVE  EngineBacked(t)'
BY DEF EngineBacked, Task

LEMMA CreateSourced == ASSUME CacheInv, Sourced, NEW t \in Used, Create(t) PROVE Sourced'
<1> USE PlanStays
<1>1. /\ pc[t] = "create" /\ pc' = [pc EXCEPT ![t] = "check"]
      /\ UNCHANGED <<plan, answer, file>>
  BY DEF Create, Goto, diskVars
<1>2. /\ t \in Engines /\ Task(t) \in Tasks
      /\ \A u \in Used : u \in Engines
  BY OneEngine, TasksKnown
<1>3. PICK m : made' = [made EXCEPT ![t] = m]
  BY DEF Create
<1>4. made'[t] = m /\ \A u \in Used : u # t => made'[u] = made[u]
  BY <1>2, <1>3 DEF CacheInv, CacheTypeOK
<1>5. ASSUME NEW u \in Used, u # t PROVE EngineBacked(u)'
  <2>1. made'[u] = made[u] /\ pc'[u] = pc[u] /\ answer'[u] = answer[u]
    BY <1>1, <1>2, <1>4, <1>5 DEF CacheInv, CacheTypeOK
  <2> QED
    BY <1>1, <2>1, EngineStays DEF Sourced
<1>6. /\ m.kind = "verdict" => m.verdict = Right(Task(t)) \/ Strayed(m.from)
      /\ (\A c \in m.lemmas : Holds(Task(t).model, c)) \/ Strayed(m.from)
  <2>1. CASE Found(t) = {}
    <3>1. made'[t] = [Nothing EXCEPT !.kind = "fresh"]
      BY <1>2, <2>1 DEF Create, CacheInv, CacheTypeOK
    <3> QED
      BY <1>4, <3>1 DEF Nothing
  <2>2. CASE Found(t) # {}
    <3> DEFINE e == CHOOSE x \in Found(t) : TRUE
               task == Task(t)
    <3>1. e \in Found(t)
      BY <2>2
    <3>2. /\ e.whole /\ e.current /\ e.region = RegionKey[task.model]
          /\ \E i \in DOMAIN file : e = file[i]
      BY <3>1 DEF Found, CacheInv, CacheTypeOK
    <3>3. EntryBacked(e)
      BY <3>2 DEF Sourced
    <3>4. made'[t] =
            IF Known(e, task)
            THEN [kind |-> "verdict", verdict |-> e.verdict, lemmas |-> {},
                  from |-> e.from \cup {<<e.by, task>>}]
            ELSE [kind |-> "seeded", verdict |-> None, lemmas |-> Reconstructed(e, Sys(t)),
                  from |-> e.from \cup {<<e.by, [task EXCEPT !.prop = e.by.prop]>>}]
      BY <1>2, <2>2 DEF Create, CacheInv, CacheTypeOK
    <3>5. Sys(t) = Model[task.model]
      BY DEF Sys
    <3> HIDE DEF e, task
    <3>6. task \in Tasks
      BY <1>2 DEF task
    <3>7. CASE Known(e, task)
      <4>1. m.verdict = e.verdict /\ m.lemmas = {} /\ m.from = e.from \cup {<<e.by, task>>}
        BY <1>4, <3>4, <3>7
      <4>2. m.verdict = Right(task) \/ Strayed(m.from)
        BY <3>2, <3>3, <3>6, <3>7, <4>1, FoundServes
      <4> QED
        BY <4>1, <4>2 DEF task
    <3>8. CASE ~Known(e, task)
      <4>1. /\ m.kind = "seeded" /\ m.lemmas = Reconstructed(e, Model[task.model])
            /\ m.from = e.from \cup {<<e.by, [task EXCEPT !.prop = e.by.prop]>>}
        BY <1>4, <3>4, <3>5, <3>8
      <4>2. (\A d \in m.lemmas : Holds(task.model, d)) \/ Strayed(m.from)
        BY <3>2, <3>3, <3>6, <4>1, FoundServes
      <4> QED
        BY <4>1, <4>2 DEF task
    <3> QED
      BY <3>7, <3>8
  <2> QED
    BY <2>1, <2>2
<1>7. EngineBacked(t)'
  <2>1. answer'[t] = None
    BY <1>1 DEF Sourced, EngineBacked
  <2>2. Task(t)' = Task(t)
    BY <1>1 DEF Task
  <2> QED
    BY <1>4, <1>6, <2>1, <2>2 DEF EngineBacked, None, Definite
<1> QED
  BY <1>1, <1>5, <1>7 DEF Sourced

LEMMA CheckSourced ==
    ASSUME CacheInv, Sourced, NEW t \in Used, CheckCached(t) \/ CheckInner(t) \/ GiveUp(t)
    PROVE  Sourced'
<1> USE PlanStays
<1>1. UNCHANGED <<plan, made, file>>
  BY DEF CheckCached, CheckInner, GiveUp, diskVars
<1>2. t \in Engines /\ \A u \in Used : u \in Engines
  BY OneEngine
<1>3. PICK r \in Said, l \in {"return", "store"} :
         /\ pc[t] = "check" /\ pc' = [pc EXCEPT ![t] = l] /\ answer' = [answer EXCEPT ![t] = r]
         /\ r \in Definite => r = Right(Task(t)) \/ Strayed(made[t].from)
  <2>1. CASE CheckCached(t)
    <3>1. made[t].verdict = Right(Task(t)) \/ Strayed(made[t].from)
      BY <2>1 DEF CheckCached, Sourced, EngineBacked
    <3> QED
      BY <1>2, <2>1, <3>1 DEF CheckCached, Goto, CacheInv, Answered, Said
  <2>2. CASE GiveUp(t)
    BY <2>2 DEF GiveUp, Goto, Said, Definite
  <2>3. CASE CheckInner(t)
    <3>1. Answers(t) \subseteq Said
      BY DEF Answers, Right, Said, Definite
    <3>2. ASSUME NEW r \in Answers(t), r \in Definite
          PROVE  r = Right(Task(t)) \/ Strayed(made[t].from)
      <4>1. (\A c \in made[t].lemmas : Holds(Task(t).model, c)) \/ Strayed(made[t].from)
        BY DEF Sourced, EngineBacked
      <4> QED
        BY <3>2, <4>1 DEF Answers, Definite
    <3> QED
      BY <2>3, <3>1, <3>2 DEF CheckInner, Goto, Said
  <2> QED
    BY <2>1, <2>2, <2>3
<1>4. ASSUME NEW u \in Used PROVE EngineBacked(u)'
  <2>1. CASE u = t
    <3>1. pc'[t] = l /\ answer'[t] = r /\ Task(t)' = Task(t)
      BY <1>1, <1>2, <1>3 DEF CacheInv, CacheTypeOK, Task
    <3> QED
      BY <1>1, <1>3, <2>1, <3>1 DEF Sourced, EngineBacked
  <2>2. CASE u # t
    <3>1. pc'[u] = pc[u] /\ answer'[u] = answer[u] /\ made'[u] = made[u]
      BY <1>1, <1>2, <1>3, <2>2 DEF CacheInv, CacheTypeOK
    <3> QED
      BY <1>1, <3>1, EngineStays DEF Sourced
  <2> QED
    BY <2>1, <2>2
<1> QED
  BY <1>1, <1>4 DEF Sourced

\* An engine that has its answer writes it, as its own.
LEMMA WrittenSourced ==
    ASSUME CacheInv, Sourced, NEW t \in Used,
           Open(t) \/ Write(t) \/ WriteFails(t) \/ Rename(t) \/ Return(t)
    PROVE  Sourced'
<1> USE PlanStays
<1>1. UNCHANGED <<plan, made, answer>>
  BY DEF Open, Write, WriteFails, Rename, Return
<1>2. t \in Engines /\ \A u \in Used : u \in Engines
  BY OneEngine
<1>3. PICK l \in {"write", "rename", "return", "returned"} : pc' = [pc EXCEPT ![t] = l]
  BY DEF Open, Write, WriteFails, Rename, Return, Goto
<1>4. ASSUME NEW u \in Used PROVE EngineBacked(u)'
  <2>1. pc'[u] \in {"create", "check"} => pc'[u] = pc[u]
    BY <1>2, <1>3 DEF CacheInv, CacheTypeOK
  <2> QED
    BY <1>1, <2>1, EngineStays DEF Sourced
<1>5. ASSUME NEW e, EntryBacked(e), NEW i,
             file' = [file EXCEPT ![i] = e] \/ file' = Append(file, e)
      PROVE  \A j \in DOMAIN file' : EntryBacked(file'[j])
  <2>1. file \in Seq(Range(file))
    BY DEF CacheInv, CacheTypeOK
  <2>2. CASE file' = [file EXCEPT ![i] = e]
    BY <1>5, <2>1, <2>2 DEF Sourced
  <2>3. CASE file' = Append(file, e)
    <3>1. \A j \in DOMAIN file' :
             (j \in DOMAIN file /\ file'[j] = file[j]) \/ file'[j] = e
      BY <2>1, <2>3, AppendProperties
    <3> QED
      BY <1>5, <3>1 DEF Sourced
  <2> QED
    BY <1>5, <2>2, <2>3
<1>6. \A j \in DOMAIN file' : EntryBacked(file'[j])
  <2>1. CASE Open(t)
    <3>1. EntryBacked(Partial)
      BY DEF Partial, EntryBacked
    <3>2. \E i : file' = [file EXCEPT ![i] = Partial] \/ file' = Append(file, Partial)
      BY <2>1 DEF Open
    <3> QED
      BY <1>5, <3>1, <3>2
  <2>2. CASE Write(t)
    <3>1. answer[t] \in Definite
      BY <1>2, <2>2 DEF Write, CacheInv, Answered
    <3>2. answer[t] = Right(Task(t)) \/ Strayed(made[t].from)
      BY <3>1 DEF Sourced, EngineBacked
    <3>3. Task(t) \in Tasks /\ Sys(t) = Model[Task(t).model]
      BY TasksKnown DEF Sys
    <3>4. Invariant(t) \subseteq Shortest[Task(t).model]
      BY DEF Invariant
    <3>5. EntryBacked(Entry(t))
      BY <3>2, <3>3, <3>4 DEF Entry, EntryBacked
    <3> QED
      BY <1>5, <2>2, <3>5 DEF Write
  <2>3. CASE WriteFails(t) \/ Rename(t) \/ Return(t)
    <3>1. file' = file
      BY <2>3 DEF WriteFails, Rename, Return, diskVars
    <3> QED
      BY <3>1 DEF Sourced
  <2> QED
    BY <2>1, <2>2, <2>3
<1> QED
  BY <1>1, <1>4, <1>6 DEF Sourced

LEMMA SourcedInvariance == CacheInv /\ Sourced /\ [CacheNext]_cacheVars => Sourced'
<1> SUFFICES ASSUME CacheInv, Sourced, [CacheNext]_cacheVars PROVE Sourced'
  OBVIOUS
<1>1. ASSUME UNCHANGED <<plan, pc, made, answer, file>> PROVE Sourced'
  <2>1. Used' = Used
    BY <1>1, PlanStays
  <2>2. ASSUME NEW t \in Used PROVE EngineBacked(t)'
    BY <1>1, EngineStays DEF Sourced
  <2> QED
    BY <1>1, <2>1, <2>2 DEF Sourced
<1>2. ASSUME NEW t \in Used, EngineStep(t) \/ CheckInner(t) PROVE Sourced'
  BY <1>2, CreateSourced, CheckSourced, WrittenSourced DEF EngineStep
<1>3. ASSUME NEW p \in Proc, MainStep(p) \/ Interrupt(p) \/ Kill(p) PROVE Sourced'
  <2>1. UNCHANGED <<plan, pc, made, answer, file>>
    BY <1>3 DEF MainStep, Created, LightEnds, LightReceive, LightTell, LightJoin, CheckReports,
       Interrupt, Kill, To, engineVars, diskVars
  <2> QED
    BY <1>1, <2>1
<1>4. CASE UNCHANGED cacheVars
  BY <1>1, <1>4 DEF cacheVars, engineVars, diskVars
<1> QED
  BY <1>2, <1>3, <1>4 DEF CacheNext

\* A definite result is right for the model and the property asked, also one from the cache or of
\* an engine with injected lemmas, whoever wrote the entries it relies on, in whatever order
\* processes write, read and die; provided that what the digests leave out is as it was for each
\* of the writers, and that the digests tell models apart otherwise.
THEOREM VerdictsRight == CacheInit /\ [][CacheNext]_cacheVars => []VerdictRight
<1>1. Sourced => VerdictRight
  BY DEF Sourced, EngineBacked, VerdictRight, Strayed, Definite
<1> QED
  BY <1>1, CacheInitially, CacheInvariance, SourcedInitially, SourcedInvariance, PTL
=============================================================================
