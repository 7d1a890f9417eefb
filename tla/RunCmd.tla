------------------------------- MODULE RunCmd -------------------------------
(***************************************************************************)
(* The commands `run` and `build` (src/src/cli/run, cli/build.rs) on a      *)
(* project directory (cli/rproj.rs): the design generated from the sources, *)
(* the results of its properties and the witnesses, kept from one run to    *)
(* the next.  The sources may be edited and a command killed at any time.   *)
(*                                                                         *)
(* PolyNexus, in a thread of its own, is abstracted to what it promises     *)
(* (module PolyNexus): traced results only advance, and a definite result   *)
(* is right and comes with its certificate when the property is done.       *)
(***************************************************************************)
EXTENDS Integers, Sequences, FiniteSets, McResult

CONSTANTS
    Prop,           \* the properties
    Version,        \* versions of the sources, positive
    Failing,        \* the properties that each version violates
    MaxStart,       \* bound on the commands started
    MaxEdit,        \* bound on the edits of the sources
    MaxKillRun      \* bound on the commands killed

ASSUME VersionAssumption == 1 \in Version /\ Version \subseteq Nat \ {0} /\ Failing \in [Version -> SUBSET Prop]

VARIABLES
    src,            \* the version of the sources
    disk,           \* dut/hash.ron, dut/dut.btor, res/res.ron and res/p*.wit
    at,             \* where the command is
    command,
    hash,           \* the sources as hashed at the start
    design,         \* the version that the command has loaded
    mc,             \* PropMcState: the results
    status,         \* and the state of each property
    nexus,          \* PolyNexus: off, solving, or returned, its results and what is resolved
    stateQ,         \* the state channel
    witQ,           \* the witness channel
    stopped,        \* Ctrl-C: PolyNexus is told to terminate
    starts, edits, killed,
    loaded,         \* history: the results that the command has read
    unproved        \* history: violations of the design kept by a run stopped before their witness

nexusVars == <<nexus, stateQ, witQ, stopped>>
mcVars == <<design, mc, status>>
boundVars == <<starts, edits, killed>>
history == <<loaded, unproved>>
runVars == <<src, disk, at, command, hash, mcVars, nexusVars, boundVars, history>>

Absent == 0
Torn == -1      \* created and not yet written

NoResults == [p \in Prop |-> Unknown]
NoFile == [whole |-> FALSE, torn |-> FALSE, res |-> NoResults]
TornFile == [NoFile EXCEPT !.torn = TRUE]
NoWitness == [p \in Prop |-> Absent]
Off == [pc |-> "off", res |-> NoResults, resolved |-> {}]

RunRight(v, p) == IF p \in Failing[v] THEN SAT(1) ELSE UNSAT
Decided(r) == ~IsUnknown(r)

RunInit ==
    /\ src = 1
    /\ disk = [hash |-> Absent, btor |-> Absent, res |-> NoFile, wit |-> NoWitness]
    /\ at = "idle" /\ command = "run" /\ hash = Absent
    /\ design = Absent /\ mc = NoResults /\ status = [p \in Prop |-> "Wait"]
    /\ nexus = Off /\ stateQ = <<>> /\ witQ = <<>> /\ stopped = FALSE
    /\ starts = 0 /\ edits = 0 /\ killed = 0
    /\ loaded = NoResults /\ unproved = {}

At(l) == at' = l

-----------------------------------------------------------------------------
(* The design *)

\* src_hash
Start(c) ==
    /\ at = "idle" /\ starts < MaxStart
    /\ starts' = starts + 1
    /\ command' = c /\ hash' = src /\ At("dut")
    /\ UNCHANGED <<src, disk, mcVars, nexusVars, edits, killed, history>>

\* The end of the process, and of all that it had in memory.
Exit ==
    /\ at = "exit"
    /\ At("idle") /\ command' = "run" /\ hash' = Absent /\ design' = Absent /\ mc' = NoResults
    /\ status' = [p \in Prop |-> "Wait"]
    /\ nexus' = Off /\ stateQ' = <<>> /\ witQ' = <<>> /\ stopped' = FALSE
    /\ loaded' = NoResults
    /\ UNCHANGED <<src, disk, boundVars, unproved>>

AfterDut == IF command = "build" THEN "exit" ELSE "load"

\* check_cached_dut; a hash that cannot be read is an error.
CheckDut ==
    /\ at = "dut"
    /\ At(CASE disk.hash = Torn -> "exit"
            [] disk.hash = hash -> AfterDut
            [] OTHER -> "clear")
    /\ UNCHANGED <<src, disk, command, hash, mcVars, nexusVars, boundVars, history>>

DutCleared == [disk EXCEPT !.hash = Absent, !.btor = Absent]
ResCleared == [disk EXCEPT !.res = NoFile, !.wit = NoWitness]

\* clear_entry removes what is in the project directory, one after the other in any order.
\* Slip: the results stay.
ClearDut ==
    /\ at = "clear"
    /\ disk' = DutCleared
    /\ IF disk' = disk THEN At("generate") ELSE UNCHANGED at
    /\ unproved' = {}
    /\ UNCHANGED <<src, command, hash, mcVars, nexusVars, boundVars, loaded>>
Clear ==
    /\ at = "clear"
    /\ disk' \in {DutCleared, ResCleared}
    /\ IF DutCleared = disk /\ ResCleared = disk THEN At("generate") ELSE disk' # disk /\ UNCHANGED at
    /\ unproved' = {}
    /\ UNCHANGED <<src, command, hash, mcVars, nexusVars, boundVars, loaded>>

\* generate_btor copies the sources as they are now; Yosys may fail.
Generate ==
    /\ at = "generate"
    /\ \/ disk' = [disk EXCEPT !.btor = src] /\ At("hash")
       \/ UNCHANGED disk /\ At("exit")
    /\ UNCHANGED <<src, command, hash, mcVars, nexusVars, boundVars, history>>

\* cache_dut creates the file and writes it.
CacheDut ==
    /\ at = "hash"
    /\ IF disk.hash # Torn
       THEN disk' = [disk EXCEPT !.hash = Torn] /\ UNCHANGED at
       ELSE disk' = [disk EXCEPT !.hash = hash] /\ At(AfterDut)
    /\ UNCHANGED <<src, command, hash, mcVars, nexusVars, boundVars, history>>

-----------------------------------------------------------------------------
(* The run *)

\* check_cached_res with from_cached_res, or default_from_wts, then Run::new.
Load ==
    /\ at = "load"
    /\ design' = disk.btor
    /\ status' = [p \in Prop |-> "Wait"]
    /\ mc' = disk.res.res /\ loaded' = disk.res.res
    /\ At(IF disk.res.torn THEN "exit" ELSE "launch")
    /\ UNCHANGED <<src, disk, command, hash, nexusVars, boundVars, unproved>>

Pending == {p \in Prop : IsUnknown(mc[p]) /\ status[p] = "Wait"}

\* launch_nexus: PolyNexus starts from the results known.
\* Slip: it starts from nothing.
LaunchNexusAnew ==
    /\ at = "launch"
    /\ IF Pending = {} THEN UNCHANGED <<nexus, status>>
       ELSE /\ nexus' = [Off EXCEPT !.pc = "solving"]
            /\ status' = [p \in Prop |-> IF p \in Pending THEN "Solving" ELSE status[p]]
    /\ At("loop")
    /\ UNCHANGED <<src, disk, command, hash, design, mc, stateQ, witQ, stopped, boundVars, history>>
LaunchNexus ==
    /\ at = "launch"
    /\ IF Pending = {} THEN UNCHANGED <<nexus, status>>
       ELSE /\ nexus' = [Off EXCEPT !.pc = "solving", !.res = mc]
            /\ status' = [p \in Prop |-> IF p \in Pending THEN "Solving" ELSE status[p]]
    /\ At("loop")
    /\ UNCHANGED <<src, disk, command, hash, design, mc, stateQ, witQ, stopped, boundVars, history>>

\* A worker's state is merged and traced, before its done message.
NexusTrace(p) ==
    /\ nexus.pc = "solving" /\ p \notin nexus.resolved
    /\ \E r \in {Reached(0), RunRight(design, p)} :
          LET merged == Or(nexus.res[p], r) IN
          /\ merged # nexus.res[p]
          /\ nexus' = [nexus EXCEPT !.res[p] = merged]
          /\ stateQ' = Append(stateQ, <<p, merged>>)
    /\ UNCHANGED <<src, disk, at, command, hash, mcVars, witQ, stopped, boundVars, history>>

\* on_worker_done: the state, then the witness of a counterexample.
NexusDone(p) ==
    /\ nexus.pc = "solving" /\ p \notin nexus.resolved
    /\ LET r == RunRight(design, p) IN
       /\ nexus' = [nexus EXCEPT !.res[p] = r, !.resolved = @ \cup {p}]
       /\ stateQ' = Append(stateQ, <<p, r>>)
       /\ witQ' = IF r.kind = "SAT" THEN Append(witQ, p) ELSE witQ
    /\ UNCHANGED <<src, disk, at, command, hash, mcVars, stopped, boundVars, history>>

\* PolyNexus returns with every property resolved or on its flag, or its thread panics.
NexusEnds ==
    /\ nexus.pc = "solving"
    /\ \/ (stopped \/ nexus.resolved = Prop) /\ nexus' = [nexus EXCEPT !.pc = "returned"]
       \/ nexus' = [nexus EXCEPT !.pc = "panicked"]
    /\ UNCHANGED <<src, disk, at, command, hash, mcVars, stateQ, witQ, stopped, boundVars, history>>

\* drain_nexus_channels: the states that have arrived, then the witnesses, which are written.
DrainState ==
    /\ at \in {"loop", "final"} /\ stateQ # <<>>
    /\ mc' = [mc EXCEPT ![Head(stateQ)[1]] = Head(stateQ)[2]]
    /\ stateQ' = Tail(stateQ)
    /\ UNCHANGED <<src, disk, at, command, hash, design, status, nexus, witQ, stopped, boundVars, history>>

DrainWitness ==
    /\ at \in {"loop", "final"} /\ witQ # <<>>
    /\ disk' = [disk EXCEPT !.wit[Head(witQ)] = design]
    /\ witQ' = Tail(witQ)
    /\ UNCHANGED <<src, at, command, hash, mcVars, nexus, stateQ, stopped, boundVars, history>>

\* A file that cannot be written ends the command, and its results are not kept.
DrainFails ==
    /\ at \in {"loop", "final"} /\ witQ # <<>>
    /\ At("exit") /\ nexus' = Off
    /\ UNCHANGED <<src, disk, command, hash, mcVars, stateQ, witQ, stopped, boundVars, history>>

\* The thread has finished by the time process_updates has drained the channels once.
\* Slip: they are not drained again.
JoinDrained ==
    /\ at = "loop" /\ nexus.pc \in {"returned", "panicked"}
    /\ At(IF nexus.pc = "panicked" THEN "exit" ELSE "final")
    /\ stateQ' = <<>> /\ witQ' = <<>>
    /\ UNCHANGED <<src, disk, command, hash, mcVars, nexus, stopped, boundVars, history>>
Join ==
    /\ at = "loop" /\ nexus.pc \in {"returned", "panicked"}
    /\ At(IF nexus.pc = "panicked" THEN "exit" ELSE "final")
    /\ UNCHANGED <<src, disk, command, hash, mcVars, nexusVars, boundVars, history>>

\* apply_nexus_results
Apply ==
    /\ at = "final" /\ stateQ = <<>> /\ witQ = <<>>
    /\ mc' = nexus.res
    /\ status' = [p \in Prop |-> IF IsUnknown(nexus.res[p]) THEN "Pause" ELSE "Wait"]
    /\ nexus' = Off /\ At("loop")
    /\ unproved' = unproved \cup {p \in Prop : nexus.res[p].kind = "SAT" /\ p \notin nexus.resolved}
    /\ UNCHANGED <<src, disk, command, hash, design, stateQ, witQ, stopped, boundVars, loaded>>

\* run_tui and run_plain return when all is done or idle; cache_res creates the file and
\* writes it.
Idle == nexus.pc = "off" /\ Pending = {}
CacheRes ==
    /\ at = "loop" /\ Idle
    /\ IF ~disk.res.torn
       THEN disk' = [disk EXCEPT !.res = TornFile] /\ UNCHANGED at
       ELSE disk' = [disk EXCEPT !.res = [whole |-> TRUE, torn |-> FALSE, res |-> mc]] /\ At("exit")
    /\ UNCHANGED <<src, command, hash, mcVars, nexusVars, boundVars, history>>

-----------------------------------------------------------------------------
(* The environment *)

\* The first Ctrl-C tells PolyNexus, the second exits.
Stop ==
    /\ nexus.pc = "solving" /\ ~stopped
    /\ stopped' = TRUE
    /\ UNCHANGED <<src, disk, at, command, hash, mcVars, nexus, stateQ, witQ, boundVars, history>>

KillRun ==
    /\ at \notin {"idle", "exit"} /\ killed < MaxKillRun
    /\ killed' = killed + 1
    /\ At("exit") /\ nexus' = Off
    /\ UNCHANGED <<src, disk, command, hash, mcVars, stateQ, witQ, stopped, starts, edits, history>>

Edit ==
    /\ edits < MaxEdit
    /\ edits' = edits + 1
    /\ src' \in Version \ {src}
    /\ UNCHANGED <<disk, at, command, hash, mcVars, nexusVars, starts, killed, history>>

\* The command clean removes the project directory.
Clean ==
    /\ at = "idle" /\ starts < MaxStart
    /\ starts' = starts + 1
    /\ disk' = [hash |-> Absent, btor |-> Absent, res |-> NoFile, wit |-> NoWitness]
    /\ unproved' = {}
    /\ UNCHANGED <<src, at, command, hash, mcVars, nexusVars, edits, killed, loaded>>

RunNext ==
    \/ \E c \in {"run", "build"} : Start(c)
    \/ Exit \/ CheckDut \/ Clear \/ Generate \/ CacheDut \/ Load \/ LaunchNexus
    \/ \E p \in Prop : NexusTrace(p) \/ NexusDone(p)
    \/ NexusEnds \/ DrainState \/ DrainWitness \/ DrainFails \/ Join \/ Apply \/ CacheRes
    \/ Stop \/ KillRun \/ Edit \/ Clean

-----------------------------------------------------------------------------
(* Properties *)

\* The results kept next to a design are results of that design, and right for it, whatever
\* was edited, killed or failed in between.  (The design itself may be of later sources than
\* its hash: the sources are hashed before they are copied.)
ResultsOfDesign ==
    disk.hash \in Version /\ disk.res.whole =>
        \A p \in Prop : Decided(disk.res.res[p]) => disk.res.res[p] = RunRight(disk.btor, p)

\* A violation that a run has kept has its witness, of the same design, although the two
\* arrive on different channels and the thread may end between; except one whose state was
\* traced in a run that was stopped before its witness was built.
WitnessKept ==
    disk.hash \in Version /\ disk.res.whole =>
        \A p \in Prop \ unproved : disk.res.res[p].kind = "SAT" => disk.wit[p] = disk.btor

\* What a run has read as decided it also keeps as decided: neither a run that is stopped nor
\* one that solves all properties again unlearns it.
ResultsKept ==
    [][~disk.res.whole /\ disk'.res.whole =>
        \A p \in Prop : Decided(loaded[p]) => Decided(disk'.res.res[p])]_runVars
=============================================================================
