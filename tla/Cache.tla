------------------------------- MODULE Cache -------------------------------
(***************************************************************************)
(* The result cache (src/src/cache) under the commands that use it: `check`  *)
(* (cli/check.rs), with one engine, and LightPortfolio (portfolio/mod.rs),  *)
(* with an engine per thread.  Several processes work on one cache          *)
(* directory, and may be killed at any time.                               *)
(*                                                                         *)
(* An engine is abstracted to its answer: the right one, unless the lemmas  *)
(* injected into it are not invariants.                                    *)
(***************************************************************************)
EXTENDS Netlist

CONSTANTS
    Model,      \* name |-> a circuit with `name`, the symbols of its inputs and latches
    Plan,       \* what the processes do: process |-> [kind, tasks, cert]
    MaxFault    \* bound on kills, interrupts and writes that fail

ASSUME ModelAssumption == \A m \in DOMAIN Model :
    /\ DOMAIN Model[m].next = Model[m].latch
    /\ DOMAIN Model[m].name \subseteq Leaves(Model[m])
ASSUME PlanAssumption == \A plan \in Plan : \A p \in DOMAIN plan :
    /\ plan[p].kind \in {"check", "light"} /\ plan[p].tasks # <<>>
    /\ plan[p].kind = "check" => Len(plan[p].tasks) = 1

VARIABLES
    plan,
    pc,         \* where each engine is
    made,       \* what try_cached_bl_engine made of each
    answer,     \* the result of each engine's check()
    fd,         \* the file that each engine has open
    dir,        \* the cache directory: name |-> file
    file,       \* the contents of the files, in the order of creation
    main,       \* where check() of each process is
    chan,       \* the results sent to LightPortfolio::check
    got,        \* how many of them were received
    told,       \* the engines whose control was told to terminate
    flag,       \* the processes that were interrupted or have run out of time
    out,        \* what each process returns
    faults

engineVars == <<pc, made, answer, fd>>
diskVars == <<dir, file>>
mainVars == <<main, chan, got, told, flag, out>>
cacheVars == <<plan, engineVars, diskVars, mainVars, faults>>

Proc == DOMAIN plan
Engines == {<<p, i>> : p \in Proc, i \in 1..2}
Used == {t \in Engines : t[2] \in DOMAIN plan[t[1]].tasks}
Of(p) == {t \in Used : t[1] = p}
Task(t) == plan[t[1]].tasks[t[2]]
Sys(t) == Model[Task(t).model]

None == "none"

-----------------------------------------------------------------------------
(* Identities and digests *)

\* resolve_identities: the symbol, else the number of an input, else what defines a latch;
\* litvec_to_atom_literals has one name for all other variables.
Atom(m, v) ==
    IF v \in DOMAIN m.name THEN <<IF v \in m.input THEN "in" ELSE "lat", m.name[v]>>
    ELSE IF v \in m.input THEN <<"idx", v>>
    ELSE IF v \in m.latch THEN <<"sig", v, m.next[v], IF v \in DOMAIN m.init THEN m.init[v] ELSE 0>>
    ELSE <<"unknown">>

\* What clause_name_hash sees of a clause, and combine_fold of several.
Bagged(f) == [h \in Range(f) |-> Cardinality({x \in DOMAIN f : f[x] = h})]
NamedClause(m, c) == Bagged([l \in c |-> <<Atom(m, VarOf(l)), l > 0>>])
Fold(m, tagged) == Bagged([x \in tagged |-> NamedClause(m, x[2])])

\* The clauses of the relation, and the units of constraints and bads.
RelClauses(m) ==
    UNION {{<<"rel", {g} \cup {-l : l \in m.gate[g]}>>} \cup {<<"rel", {-g, l}>> : l \in m.gate[g]} :
              g \in Gates(m)}
Prelude(m) == RelClauses(m) \cup {<<"cons", {l}>> : l \in m.cons}

Whole(m) == Prelude(m) \cup {<<"bad", {m.bad[i]}, i>> : i \in DOMAIN m.bad}

\* A digest stands for all models that have it.
RegionKey == [n \in DOMAIN Model |->
    {k \in DOMAIN Model : Fold(Model[k], Prelude(Model[k])) = Fold(Model[n], Prelude(Model[n]))}]
WholeDigest == [n \in DOMAIN Model |->
    {k \in DOMAIN Model : Fold(Model[k], Whole(Model[k])) = Fold(Model[n], Whole(Model[n]))}]

-----------------------------------------------------------------------------
(* Answers and lemmas *)

\* cfg.prop, 0 for all properties
Asked(task) == IF task.prop = 0 THEN DOMAIN Model[task.model].bad ELSE {task.prop}
Reach == [n \in DOMAIN Model |-> Reachable(Model[n])]
Right(task) ==
    IF \E a \in Reach[task.model] : IsBad(Model[task.model], Asked(task), a) THEN "SAT" ELSE "UNSAT"

Cubes(m) == {c \in SUBSET UNION {{v, -v} : v \in m.latch} : c # {} /\ \A l \in c : -l \notin c}
Holds(n, c) == \A a \in Reach[n] : \E l \in c : ~Value(a, l)

\* IC3::invariant, in terms of shortest cubes; other engines have none.
Shortest == [n \in DOMAIN Model |->
    {c \in Cubes(Model[n]) : Holds(n, c) /\ \A l \in c : ~Holds(n, c \ {l})}]
Invariant(t) == IF Task(t).eng = "ic3" THEN Shortest[Task(t).model] ELSE {}

\* An engine that believes lemmas that do not hold may answer anything.  BMC never proves, and
\* any engine may have a limit.
Answers(t) ==
    LET said == IF \A c \in made[t].lemmas : Holds(Task(t).model, c) THEN {Right(Task(t))}
                ELSE {"SAT", "UNSAT"}
    IN {"Unknown"} \cup (IF Task(t).eng = "bmc" THEN said \ {"UNSAT"} ELSE said)

\* build_side_table
SideTable(m) == {<<Atom(m, v), v>> : v \in m.latch}

\* reconstruct_clauses: by name from the stored numbers to those of this model; a clause with a
\* latch that is not known is dropped.
Reconstructed(e, m) ==
    LET now(l) == {x[2] : x \in {y \in SideTable(m) : <<y[1], VarOf(l)>> \in e.table}}
        lit(l) == IF l > 0 THEN Max(now(l)) ELSE -Max(now(l))
    IN {{lit(l) : l \in c} : c \in {d \in e.clauses : \A l \in d : now(l) # {}}}

\* What the digests leave out: next and initial states of the latches, the operands of the
\* gates, and the property that was asked.
NamedLit(m, l) == IF VarOf(l) \in Leaves(m) THEN <<Atom(m, VarOf(l)), l > 0>> ELSE <<l>>
Defined(m, v) ==
    <<NamedLit(m, m.next[v]),
      IF v \in DOMAIN m.init THEN NamedLit(m, m.init[v]) ELSE <<>> >>
Operands(m, g) == {NamedLit(m, l) : l \in m.gate[g]}
AlikeUnseen(by, task) ==
    LET m == Model[by.model]
        n == Model[task.model]
    IN /\ by.prop = task.prop
       /\ \A v \in m.latch, w \in n.latch : Atom(m, v) = Atom(n, w) => Defined(m, v) = Defined(n, w)
       /\ \A g \in Gates(m) \cap Gates(n) : Operands(m, g) = Operands(n, g)

Tasks == UNION {UNION {Range(p[n].tasks) : n \in DOMAIN p} : p \in Plan}
\* What the digests are for: whatever they leave out apart, models with one digest have the same
\* verdicts, and an invariant of one model of a region holds by name in the others.
ASSUME DigestAssumption == \A by, task \in Tasks :
    LET m == Model[by.model] IN
    /\ WholeDigest[by.model] = WholeDigest[task.model] /\ AlikeUnseen(by, task) =>
           Right(by) = Right(task)
    /\ /\ RegionKey[by.model] = RegionKey[task.model]
       /\ AlikeUnseen(by, [task EXCEPT !.prop = by.prop])
       => \A c \in Shortest[by.model] :
              \A d \in Reconstructed([table |-> SideTable(m), clauses |-> {c}], Model[task.model]) :
                  Holds(task.model, d)

-----------------------------------------------------------------------------
(* Files: entries by the region's key, temporary files by the process *)

Final(t) == <<"entry", RegionKey[Task(t).model]>>
Tmp(t) == <<"tmp", t[1]>>

Partial == [whole |-> FALSE]
Entry(t) ==
    [whole |-> TRUE, current |-> TRUE, region |-> RegionKey[Task(t).model], digest |-> WholeDigest[Task(t).model],
     verdict |-> answer[t], table |-> SideTable(Sys(t)),
     clauses |-> IF answer[t] = "UNSAT" THEN Invariant(t) ELSE {},
     by |-> Task(t), from |-> made[t].from]   \* history: who stored it, and what that relied on

\* load_entry: a file that cannot be read as a current entry of the region is no entry.
Found(t) ==
    IF Final(t) \notin DOMAIN dir THEN {}
    ELSE {e \in {file[dir[Final(t)]]} : e.whole /\ e.current /\ e.region = RegionKey[Task(t).model]}

\* The names of a directory without one, and with one more.
Without(n) == [x \in DOMAIN dir \ {n} |-> dir[x]]
Named(n, f) == [x \in DOMAIN dir \cup {n} |-> IF x = n THEN f ELSE dir[x]]

-----------------------------------------------------------------------------
\* An entry that another version of the program left may be there.
Stale(n) ==
    [whole |-> TRUE, current |-> FALSE, region |-> RegionKey[n], digest |-> WholeDigest[n],
     verdict |-> "SAT", table |-> SideTable(Model[n]), clauses |-> {}, by |-> None, from |-> {}]

Nothing == [kind |-> None, verdict |-> None, lemmas |-> {}, from |-> {}]

CacheInit ==
    /\ plan \in Plan
    /\ pc = [t \in Engines |-> "create"]
    /\ made = [t \in Engines |-> Nothing]
    /\ answer = [t \in Engines |-> None]
    /\ fd = [t \in Engines |-> 0]
    /\ \/ dir = [x \in {} |-> 0] /\ file = <<>>
       \/ \E p \in DOMAIN plan :
            LET e == Stale(plan[p].tasks[1].model) IN
            dir = [x \in {<<"entry", e.region>>} |-> 1] /\ file = <<e>>
    /\ main = [p \in DOMAIN plan |-> "create"]
    /\ chan = [p \in DOMAIN plan |-> <<>>] /\ got = [p \in DOMAIN plan |-> 0]
    /\ told = {} /\ flag = {} /\ out = [p \in DOMAIN plan |-> None] /\ faults = 0

Goto(t, l) == pc' = [pc EXCEPT ![t] = l]
Alive(p) == main[p] \notin {"killed", "done"}

-----------------------------------------------------------------------------
(* An engine, from create_bl_engine to the end of its check() *)

\* Slip: whatever the region has is taken for the verdict.
KnownRegion(e, task) == TRUE
Known(e, task) == e.digest = WholeDigest[task.model]

\* try_cached_bl_engine.  An entry is relied upon for the task, or, as lemmas are the same for all
\* properties, for a task like it.
Create(t) ==
    /\ pc[t] = "create" /\ main[t[1]] = "create"
    /\ made' = [made EXCEPT ![t] =
         IF Found(t) = {} THEN [Nothing EXCEPT !.kind = "fresh"]
         ELSE LET e == CHOOSE x \in Found(t) : TRUE IN
              IF Known(e, Task(t))
              THEN [kind |-> "verdict", verdict |-> e.verdict, lemmas |-> {},
                    from |-> e.from \cup {<<e.by, Task(t)>>}]
              ELSE [kind |-> "seeded", verdict |-> None, lemmas |-> Reconstructed(e, Sys(t)),
                    from |-> e.from \cup {<<e.by, [Task(t) EXCEPT !.prop = e.by.prop]>>}]]
    /\ Goto(t, "check")
    /\ UNCHANGED <<plan, answer, fd, diskVars, mainVars, faults>>

\* CachedVerdictEngine::check has nothing to do and nothing to stop.
CheckCached(t) ==
    /\ pc[t] = "check" /\ main[t[1]] # "create" /\ Alive(t[1]) /\ made[t].kind = "verdict"
    /\ answer' = [answer EXCEPT ![t] = made[t].verdict]
    /\ Goto(t, "return")
    /\ UNCHANGED <<plan, made, fd, diskVars, mainVars, faults>>

\* CachingBlEngine::check runs the engine and stores a definite result.
CheckInner(t) ==
    /\ pc[t] = "check" /\ main[t[1]] # "create" /\ Alive(t[1]) /\ made[t].kind # "verdict"
    /\ \E r \in Answers(t) :
          /\ answer' = [answer EXCEPT ![t] = r]
          /\ Goto(t, IF r = "Unknown" THEN "return" ELSE "store")
    /\ UNCHANGED <<plan, made, fd, diskVars, mainVars, faults>>

\* An engine that is told to terminate gives up.
GiveUp(t) ==
    /\ pc[t] = "check" /\ t \in told /\ Alive(t[1]) /\ made[t].kind # "verdict"
    /\ answer' = [answer EXCEPT ![t] = "Unknown"]
    /\ Goto(t, "return")
    /\ UNCHANGED <<plan, made, fd, diskVars, mainVars, faults>>

\* fs::write creates or truncates the temporary file, then fills it.
\* Slip: the entry is written in place.
OpenInPlace(t) ==
    /\ pc[t] = "store" /\ Alive(t[1])
    /\ LET n == Final(t) IN
       IF n \in DOMAIN dir
       THEN /\ file' = [file EXCEPT ![dir[n]] = Partial]
            /\ fd' = [fd EXCEPT ![t] = dir[n]] /\ UNCHANGED dir
       ELSE /\ file' = Append(file, Partial) /\ fd' = [fd EXCEPT ![t] = Len(file')]
            /\ dir' = Named(n, Len(file'))
    /\ Goto(t, "write")
    /\ UNCHANGED <<plan, made, answer, mainVars, faults>>
Open(t) ==
    /\ pc[t] = "store" /\ Alive(t[1])
    /\ LET n == Tmp(t) IN
       IF n \in DOMAIN dir
       THEN /\ file' = [file EXCEPT ![dir[n]] = Partial]
            /\ fd' = [fd EXCEPT ![t] = dir[n]] /\ UNCHANGED dir
       ELSE /\ file' = Append(file, Partial) /\ fd' = [fd EXCEPT ![t] = Len(file')]
            /\ dir' = Named(n, Len(file'))
    /\ Goto(t, "write")
    /\ UNCHANGED <<plan, made, answer, mainVars, faults>>

Write(t) ==
    /\ pc[t] = "write" /\ Alive(t[1])
    /\ file' = [file EXCEPT ![fd[t]] = Entry(t)]
    /\ Goto(t, "rename")
    /\ UNCHANGED <<plan, made, answer, fd, dir, mainVars, faults>>

\* A write that fails part way; the temporary file is removed.
WriteFails(t) ==
    /\ pc[t] = "write" /\ Alive(t[1]) /\ faults < MaxFault
    /\ faults' = faults + 1
    /\ dir' = Without(Tmp(t))
    /\ Goto(t, "return")
    /\ UNCHANGED <<plan, made, answer, fd, file, mainVars>>

\* fs::rename fails when another thread has renamed or removed the file.
Rename(t) ==
    /\ pc[t] = "rename" /\ Alive(t[1])
    /\ dir' = IF Tmp(t) \notin DOMAIN dir THEN dir
              ELSE [x \in (DOMAIN dir \ {Tmp(t)}) \cup {Final(t)} |->
                      IF x = Final(t) THEN dir[Tmp(t)] ELSE dir[x]]
    /\ Goto(t, "return")
    /\ UNCHANGED <<plan, made, answer, fd, file, mainVars, faults>>

\* The thread sends its result to LightPortfolio; check() takes it as it is.
Return(t) ==
    /\ pc[t] = "return" /\ Alive(t[1])
    /\ chan' = [chan EXCEPT ![t[1]] = Append(@, answer[t])]
    /\ Goto(t, "returned")
    /\ UNCHANGED <<plan, made, answer, fd, diskVars, main, got, told, flag, out, faults>>

-----------------------------------------------------------------------------
(* LightPortfolio::check and the command check *)

To(p, l) == main' = [main EXCEPT ![p] = l]
Created(p) ==
    /\ main[p] = "create" /\ \A t \in Of(p) : pc[t] # "create"
    /\ To(p, "wait")
    /\ UNCHANGED <<plan, engineVars, diskVars, chan, got, told, flag, out, faults>>

Light(p) == plan[p].kind = "light" /\ main[p] = "wait"

\* The head of the loop: interrupted, out of time, or all engines have finished.
LightEnds(p) ==
    /\ Light(p)
    /\ p \in flag \/ got[p] = Cardinality(Of(p))
    /\ out' = [out EXCEPT ![p] = "Unknown"]
    /\ To(p, "tell")
    /\ UNCHANGED <<plan, engineVars, diskVars, chan, got, told, flag, faults>>

\* recv_timeout: the first definite result is the answer, also when the flag is set meanwhile.
\* Slip: the first result is.
LightReceiveAny(p) ==
    /\ Light(p) /\ got[p] < Len(chan[p])
    /\ got' = [got EXCEPT ![p] = @ + 1]
    /\ LET r == chan[p][got'[p]] IN out' = [out EXCEPT ![p] = r] /\ To(p, "tell")
    /\ UNCHANGED <<plan, engineVars, diskVars, chan, told, flag, faults>>
LightReceive(p) ==
    /\ Light(p) /\ got[p] < Len(chan[p])
    /\ got' = [got EXCEPT ![p] = @ + 1]
    /\ LET r == chan[p][got'[p]] IN
       IF r = "Unknown" THEN UNCHANGED <<out, main>>
       ELSE out' = [out EXCEPT ![p] = r] /\ To(p, "tell")
    /\ UNCHANGED <<plan, engineVars, diskVars, chan, told, flag, faults>>

\* All controls, also those of engines that have returned.
LightTell(p) ==
    /\ main[p] = "tell"
    /\ told' = told \cup Of(p)
    /\ To(p, "join")
    /\ UNCHANGED <<plan, engineVars, diskVars, chan, got, flag, out, faults>>

LightJoin(p) ==
    /\ main[p] = "join" /\ \A t \in Of(p) : pc[t] = "returned"
    /\ To(p, "done")
    /\ UNCHANGED <<plan, engineVars, diskVars, chan, got, told, flag, out, faults>>

\* check: an interrupted run exits before it reports; a certificate of Unknown panics, and the
\* one of a cached verdict is empty.
CheckReports(p) ==
    /\ plan[p].kind = "check" /\ main[p] = "wait" /\ Len(chan[p]) = 1
    /\ out' = [out EXCEPT ![p] =
                 IF p \in flag THEN "interrupted"
                 ELSE IF plan[p].cert /\ chan[p][1] = "Unknown" THEN "panic"
                 ELSE chan[p][1]]
    /\ To(p, "done")
    /\ UNCHANGED <<plan, engineVars, diskVars, chan, got, told, flag, faults>>

\* Ctrl-C reaches the engine's control through check's handler, or LightPortfolio's own.
Interrupt(p) ==
    /\ Alive(p) /\ main[p] # "create" /\ p \notin flag /\ faults < MaxFault
    /\ faults' = faults + 1
    /\ flag' = flag \cup {p}
    /\ told' = IF plan[p].kind = "check" THEN told \cup Of(p) ELSE told
    /\ UNCHANGED <<plan, engineVars, diskVars, main, chan, got, out>>

Kill(p) ==
    /\ Alive(p) /\ faults < MaxFault
    /\ faults' = faults + 1
    /\ To(p, "killed")
    /\ UNCHANGED <<plan, engineVars, diskVars, chan, got, told, flag, out>>

-----------------------------------------------------------------------------
EngineStep(t) ==
    \/ Create(t) \/ CheckCached(t) \/ GiveUp(t)
    \/ Open(t) \/ Write(t) \/ WriteFails(t) \/ Rename(t) \/ Return(t)

MainStep(p) ==
    Created(p) \/ LightEnds(p) \/ LightReceive(p) \/ LightTell(p) \/ LightJoin(p) \/ CheckReports(p)

CacheNext ==
    \/ \E t \in Used : EngineStep(t) \/ CheckInner(t)
    \/ \E p \in Proc : MainStep(p) \/ Interrupt(p) \/ Kill(p)

\* Threads go on, and an engine that is told to terminate gives up; a check may take for ever.
CacheFair ==
    /\ \A p \in {"a", "b"} :
          /\ WF_cacheVars(p \in Proc /\ MainStep(p))
          /\ \A i \in 1..2 : WF_cacheVars(<<p, i>> \in Used /\ EngineStep(<<p, i>>))

-----------------------------------------------------------------------------
(* Properties *)

\* A definite result is right for the model and the property asked, also one from the cache
\* or of an engine with injected lemmas, whatever was renumbered and whoever wrote the entry;
\* provided that for each entry it relies on, directly or by way of others, what the digests
\* leave out is as it was for the one who stored it.
VerdictRight ==
    \A t \in Used : answer[t] \in {"SAT", "UNSAT"} =>
        \/ answer[t] = Right(Task(t))
        \/ \E use \in made[t].from : ~AlikeUnseen(use[1], use[2])

\* The entry at its final path is whole at every moment ("atomic write via tempfile to prevent
\* partial reads"), in spite of kills and of writes that fail, as long as no process has two
\* engines: their threads share the temporary file.
FinalWhole ==
    (\A p \in Proc : Cardinality(Of(p)) = 1) =>
        \A n \in DOMAIN dir : n[1] = "entry" => file[dir[n]].whole

\* LightPortfolio returns once an engine has answered or it was interrupted, with the answer
\* of one of its engines; it is without an answer only if all are or it was stopped.
LightReturns ==
    \A p \in {"a", "b"} :
        (p \in Proc /\ plan[p].kind = "light" /\ main[p] # "create"
            /\ (p \in flag \/ \E t \in Of(p) : pc[t] = "returned" /\ answer[t] # "Unknown"))
        ~> (\/ p \notin Proc
            \/ main[p] = "killed"
            \/ /\ main[p] = "done"
               /\ IF out[p] = "Unknown" THEN p \in flag \/ \A t \in Of(p) : answer[t] = "Unknown"
                  ELSE \E t \in Of(p) : answer[t] = out[p])
=============================================================================
