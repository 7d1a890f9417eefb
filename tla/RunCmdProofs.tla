---------------------------- MODULE RunCmdProofs ----------------------------
(***************************************************************************)
(* What the project directory promises, for every set of properties, every  *)
(* history of sources and every number of commands, edits and kills: the    *)
(* results kept next to a design are right for it, a violation kept has its  *)
(* witness, and no run unlearns a result.                                   *)
(***************************************************************************)
EXTENDS RunCmd, SequenceTheorems, TLAPS

AnyResult == [kind : {"UNSAT", "SAT", "Unknown"}, depth : Nat]
Results == [Prop -> AnyResult]
File == [whole : BOOLEAN, torn : BOOLEAN, res : Results]
Disk == [hash : Version \cup {Absent, Torn}, btor : Version \cup {Absent}, res : File,
         wit : [Prop -> Version \cup {Absent}]]
Nexus == [pc : {"off", "solving", "returned", "panicked"}, res : Results, resolved : SUBSET Prop]

\* The results a property may have that are right for a version of the design.
RightFor(v, p) == {r \in AnyResult : Decided(r) => r = RunRight(v, p)}

(***************************************************************************)
(* The inductive invariant.                                                 *)
(***************************************************************************)

RunTypeOK ==
    /\ src \in Version
    /\ disk \in Disk
    /\ at \in {"idle", "dut", "clear", "generate", "hash", "load", "launch", "loop", "final",
              "exit"}
    /\ command \in {"run", "build"}
    /\ hash \in Version \cup {Absent}
    /\ design \in Version \cup {Absent}
    /\ mc \in Results
    /\ status \in [Prop -> {"Wait", "Solving", "Pause"}]
    /\ nexus \in Nexus
    /\ stateQ \in Seq(Prop \X AnyResult)
    /\ witQ \in Seq(Prop)
    /\ stopped \in BOOLEAN
    /\ starts \in Nat /\ edits \in Nat /\ killed \in Nat
    /\ loaded \in Results
    /\ unproved \subseteq Prop

\* The command has the design in memory.
Running == at \in {"launch", "loop", "final"}

\* Where the command is decides what is in the directory: nothing but perhaps the design before the
\* hash is written, and the design of the hash afterwards.
Directory ==
    /\ at # "idle" => at = "exit" \/ hash \in Version
    /\ at \in {"generate", "hash"} => disk.res = NoFile /\ disk.hash \notin Version
    /\ at = "load" \/ Running => disk.hash = hash
    /\ Running => design = disk.btor

\* The thread of PolyNexus and its channels exist in the loop only.
Thread ==
    /\ nexus.pc # "off" => at \in {"loop", "final"} \/ (at = "exit" /\ nexus.pc = "panicked")
    /\ at \notin {"loop", "final", "exit"} => stateQ = <<>> /\ witQ = <<>>
    /\ Running /\ nexus.pc = "off" => stateQ = <<>> /\ witQ = <<>>
    /\ at = "final" => nexus.pc = "returned"

\* What is on disk under a valid hash is right for the design there, and no worse than it was read.
DiskRight ==
    /\ ~disk.res.whole => disk.res.res = NoResults
    /\ disk.hash \in Version => \A p \in Prop : disk.res.res[p] \in RightFor(disk.btor, p)

\* A result that the command has of a property is right, and decided if the one it has read was.
Kept(p, r) == r \in RightFor(design, p) /\ (Decided(loaded[p]) => Decided(r))

MemoryRight ==
    Running =>
        /\ \A p \in Prop : Kept(p, mc[p])
        /\ nexus.pc # "off" => \A p \in Prop : Kept(p, nexus.res[p])
        /\ \A i \in 1..Len(stateQ) : Kept(stateQ[i][1], stateQ[i][2])

\* The witness of a property that PolyNexus has resolved is on its way or on disk, and without
\* PolyNexus those of all violations known are on disk.
Witnesses ==
    /\ WitnessKept
    /\ Running =>
        /\ nexus.pc # "off" =>
            \A p \in nexus.resolved :
                nexus.res[p].kind = "SAT" =>
                    disk.wit[p] = design \/ \E i \in 1..Len(witQ) : witQ[i] = p
        /\ nexus.pc = "off" =>
            \A p \in Prop \ unproved : mc[p].kind = "SAT" => disk.wit[p] = design

RunInv ==
    RunTypeOK /\ Directory /\ Thread /\ DiskRight /\ MemoryRight /\ Witnesses

-----------------------------------------------------------------------------
\* Unknown and the right answer are right, and only the second is decided.
LEMMA Rights ==
    ASSUME NEW v, NEW p
    PROVE  /\ Unknown \in RightFor(v, p) /\ ~Decided(Unknown)
           /\ Reached(0) \in RightFor(v, p) /\ ~Decided(Reached(0))
           /\ RunRight(v, p) \in RightFor(v, p) /\ Decided(RunRight(v, p))
           /\ RunRight(v, p).kind \in {"UNSAT", "SAT"}
BY DEF RightFor, AnyResult, Decided, IsUnknown, RunRight, Unknown, Reached, SAT, UNSAT

\* `|` keeps right results right and decided ones decided.
LEMMA OrRight ==
    ASSUME NEW v, NEW p, NEW a \in RightFor(v, p), NEW r \in {Reached(0), RunRight(v, p)}
    PROVE  Or(a, r) \in RightFor(v, p) /\ (Decided(a) => Decided(Or(a, r)))
<1>1. r \in RightFor(v, p)
  BY Rights
<1>2. Or(a, r) \in {a, r}
  BY DEF Or, Larger
<1>3. ASSUME Decided(a) PROVE Decided(Or(a, r))
  BY <1>3 DEF Or, Larger, Decided, IsUnknown
<1> QED
  BY <1>1, <1>2, <1>3

\* Files without results.
LEMMA Files ==
    /\ NoResults \in Results /\ \A v, p : p \in Prop => NoResults[p] \in RightFor(v, p)
    /\ \A p \in Prop : NoResults[p].kind # "SAT" /\ ~Decided(NoResults[p])
    /\ NoFile \in File
    /\ TornFile \in File
    /\ ~NoFile.whole /\ ~TornFile.whole /\ NoFile.res = NoResults /\ TornFile.res = NoResults
    /\ NoWitness \in [Prop -> Version \cup {Absent}]
    /\ Off \in Nexus /\ Off.pc = "off"
    /\ <<>> \in Seq(Prop \X AnyResult) /\ <<>> \in Seq(Prop)
    /\ Absent \notin Version /\ Torn \notin Version /\ Absent # Torn
<1>1. NoResults \in Results /\ \A v, p : p \in Prop => NoResults[p] \in RightFor(v, p)
  BY Rights DEF NoResults, Results, RightFor
<1>2. \A p \in Prop : NoResults[p].kind # "SAT" /\ ~Decided(NoResults[p])
  BY DEF NoResults, Unknown, Decided, IsUnknown
<1>3. /\ NoFile \in File
      /\ TornFile \in File
      /\ ~NoFile.whole /\ ~TornFile.whole /\ NoFile.res = NoResults /\ TornFile.res = NoResults
  BY <1>1 DEF NoFile, TornFile, File
<1>4. Absent \notin Version /\ Torn \notin Version /\ Absent # Torn
  BY VersionAssumption DEF Absent, Torn
<1>5. NoWitness \in [Prop -> Version \cup {Absent}]
  BY DEF NoWitness
<1>6. Off \in Nexus /\ Off.pc = "off"
  BY <1>1 DEF Off, Nexus
<1> QED
  BY <1>1, <1>2, <1>3, <1>4, <1>5, <1>6

LEMMA RunInitially == RunInit => RunInv
<1> SUFFICES ASSUME RunInit PROVE RunInv
  OBVIOUS
<1> USE Files DEF RunInit
<1>1. disk \in Disk
  BY DEF Disk
<1>2. RunTypeOK
  BY <1>1, VersionAssumption DEF RunTypeOK, Results
<1>3. Directory /\ Thread /\ DiskRight /\ MemoryRight /\ Witnesses
  BY DEF Directory, Thread, DiskRight, MemoryRight, Witnesses, WitnessKept, Running
<1> QED
  BY <1>2, <1>3 DEF RunInv

-----------------------------------------------------------------------------
\* The steps that leave the results alone: the design is made and loaded, PolyNexus starts and ends,
\* the command ends, is killed or is stopped, and the sources are edited.
LEMMA SimpleSteps ==
    ASSUME RunInv, Exit \/ CheckDut \/ Generate \/ Load \/ Clean \/ LaunchNexus \/ NexusEnds
                   \/ DrainFails \/ Join \/ Stop \/ KillRun \/ Edit
                   \/ \E c \in {"run", "build"} : Start(c)
    PROVE  RunInv'
<1> USE Files DEF RunInv, At, mcVars, nexusVars, boundVars, history
<1>1. CASE CheckDut
  <2>1. RunTypeOK'
    BY <1>1 DEF CheckDut, AfterDut, RunTypeOK
  <2>2. Directory' /\ Thread'
    BY <1>1 DEF CheckDut, AfterDut, RunTypeOK, Directory, Thread, Running
  <2>3. DiskRight' /\ MemoryRight'
    BY <1>1 DEF CheckDut, AfterDut, RunTypeOK, Directory, DiskRight, Thread, MemoryRight, Kept,
       Running
  <2>4. Witnesses'
    BY <1>1 DEF CheckDut, AfterDut, RunTypeOK, Directory, Thread, DiskRight, Witnesses,
       WitnessKept, Running
  <2> QED
    BY <2>1, <2>2, <2>3, <2>4
<1>2. CASE Generate
  <2>1. disk' = disk \/ disk' = [disk EXCEPT !.btor = src]
    BY <1>2 DEF Generate
  <2>2. /\ disk' \in Disk
        /\ disk'.hash = disk.hash /\ disk'.res = disk.res /\ disk'.wit = disk.wit
    BY <2>1 DEF RunTypeOK, Disk
  <2>3. RunTypeOK'
    BY <1>2, <2>2 DEF Generate, RunTypeOK
  <2>4. Directory' /\ Thread'
    BY <1>2, <2>2 DEF Generate, RunTypeOK, Directory, Thread, Running
  <2>5. DiskRight' /\ MemoryRight'
    BY <1>2, <2>2 DEF Generate, RunTypeOK, Directory, DiskRight, Thread, MemoryRight, Kept,
       Running
  <2>6. Witnesses'
    BY <1>2, <2>2 DEF Generate, RunTypeOK, Directory, Thread, DiskRight, Witnesses, WitnessKept,
       Running
  <2> QED
    BY <2>2, <2>3, <2>4, <2>5, <2>6
<1>3. CASE Load
  <2>1. RunTypeOK'
    BY <1>3 DEF Load, RunTypeOK, Disk, File
  <2>2. Directory' /\ Thread'
    BY <1>3 DEF Load, RunTypeOK, Directory, Thread, Running
  <2>3. DiskRight' /\ MemoryRight'
    BY <1>3 DEF Load, RunTypeOK, Directory, DiskRight, Thread, MemoryRight, Kept, Running
  <2>4. Witnesses'
    BY <1>3 DEF Load, RunTypeOK, Directory, Thread, DiskRight, Witnesses, WitnessKept, Running
  <2> QED
    BY <2>1, <2>2, <2>3, <2>4
<1>4. CASE Clean
  <2>1. disk' \in Disk
    BY <1>4 DEF Clean, RunTypeOK, Disk
  <2>2. RunTypeOK'
    BY <1>4, <2>1 DEF Clean, RunTypeOK
  <2>3. Directory' /\ Thread'
    BY <1>4, <2>1 DEF Clean, RunTypeOK, Directory, Thread, Running
  <2>4. DiskRight' /\ MemoryRight'
    BY <1>4, <2>1 DEF Clean, RunTypeOK, Directory, DiskRight, Thread, MemoryRight, Kept, Running
  <2>5. Witnesses'
    BY <1>4, <2>1 DEF Clean, RunTypeOK, Directory, Thread, DiskRight, Witnesses, WitnessKept,
       Running
  <2> QED
    BY <2>1, <2>2, <2>3, <2>4, <2>5
<1>5. ASSUME NEW c \in {"run", "build"}, Start(c) PROVE RunInv'
  <2>1. RunTypeOK'
    BY <1>5 DEF Start, RunTypeOK
  <2>2. Directory' /\ Thread'
    BY <1>5 DEF Start, RunTypeOK, Directory, Thread, Running
  <2>3. DiskRight' /\ MemoryRight'
    BY <1>5 DEF Start, RunTypeOK, Directory, DiskRight, Thread, MemoryRight, Kept, Running
  <2>4. Witnesses'
    BY <1>5 DEF Start, RunTypeOK, Directory, Thread, DiskRight, Witnesses, WitnessKept, Running
  <2> QED
    BY <2>1, <2>2, <2>3, <2>4
<1>6. CASE Exit
  <2>1. RunTypeOK'
    BY <1>6 DEF Exit, RunTypeOK
  <2>2. Directory' /\ Thread'
    BY <1>6 DEF Exit, RunTypeOK, Directory, Thread, Running
  <2>3. DiskRight' /\ MemoryRight'
    BY <1>6 DEF Exit, RunTypeOK, Directory, DiskRight, Thread, MemoryRight, Kept, Running
  <2>4. Witnesses'
    BY <1>6 DEF Exit, RunTypeOK, Directory, Thread, DiskRight, Witnesses, WitnessKept, Running
  <2> QED
    BY <2>1, <2>2, <2>3, <2>4
<1>7. CASE LaunchNexus
  <2>1. nexus' = nexus \/ nexus' = [Off EXCEPT !.pc = "solving", !.res = mc]
    BY <1>7 DEF LaunchNexus
  <2>2. /\ nexus' \in Nexus
        /\ \/ nexus' = nexus
           \/ nexus'.pc = "solving" /\ nexus'.res = mc /\ nexus'.resolved = {}
    <3>1. Off.resolved = {}
      BY DEF Off
    <3>2. CASE nexus' = nexus
      BY <3>2 DEF RunTypeOK
    <3>3. CASE nexus' = [Off EXCEPT !.pc = "solving", !.res = mc]
      BY <3>1, <3>3 DEF RunTypeOK, Nexus
    <3> QED
      BY <2>1, <3>2, <3>3
  <2>3. status' \in [Prop -> {"Wait", "Solving", "Pause"}]
    BY <1>7 DEF LaunchNexus, RunTypeOK
  <2>4. RunTypeOK'
    BY <1>7, <2>2, <2>3 DEF LaunchNexus, RunTypeOK
  <2>5. Directory' /\ Thread'
    BY <1>7, <2>2 DEF LaunchNexus, Pending, RunTypeOK, Directory, Thread, Running
  <2>6. DiskRight' /\ MemoryRight'
    BY <1>7, <2>2 DEF LaunchNexus, Pending, RunTypeOK, Directory, DiskRight, Thread,
       MemoryRight, Kept, Running
  <2>7. Witnesses'
    BY <1>7, <2>2 DEF LaunchNexus, Pending, RunTypeOK, Directory, Thread, DiskRight, Witnesses,
       WitnessKept, Running
  <2> QED
    BY <2>2, <2>4, <2>5, <2>6, <2>7
<1>8. CASE NexusEnds
  <2>1. /\ nexus' \in Nexus /\ nexus'.pc \in {"returned", "panicked"}
        /\ nexus'.res = nexus.res /\ nexus'.resolved = nexus.resolved
    BY <1>8 DEF NexusEnds, RunTypeOK, Nexus
  <2>2. RunTypeOK'
    BY <1>8, <2>1 DEF NexusEnds, RunTypeOK
  <2>3. Directory' /\ Thread'
    BY <1>8, <2>1 DEF NexusEnds, RunTypeOK, Directory, Thread, Running
  <2>4. DiskRight' /\ MemoryRight'
    BY <1>8, <2>1 DEF NexusEnds, RunTypeOK, Directory, DiskRight, Thread, MemoryRight, Kept,
       Running
  <2>5. Witnesses'
    BY <1>8, <2>1 DEF NexusEnds, RunTypeOK, Directory, Thread, DiskRight, Witnesses,
       WitnessKept, Running
  <2> QED
    BY <2>1, <2>2, <2>3, <2>4, <2>5
<1>9. CASE DrainFails
  <2>1. RunTypeOK'
    BY <1>9 DEF DrainFails, RunTypeOK
  <2>2. Directory' /\ Thread'
    BY <1>9 DEF DrainFails, RunTypeOK, Directory, Thread, Running
  <2>3. DiskRight' /\ MemoryRight'
    BY <1>9 DEF DrainFails, RunTypeOK, Directory, DiskRight, Thread, MemoryRight, Kept, Running
  <2>4. Witnesses'
    BY <1>9 DEF DrainFails, RunTypeOK, Directory, Thread, DiskRight, Witnesses, WitnessKept,
       Running
  <2> QED
    BY <2>1, <2>2, <2>3, <2>4
<1>10. CASE Join
  <2>1. RunTypeOK'
    BY <1>10 DEF Join, RunTypeOK
  <2>2. Directory' /\ Thread'
    BY <1>10 DEF Join, RunTypeOK, Directory, Thread, Running
  <2>3. DiskRight' /\ MemoryRight'
    BY <1>10 DEF Join, RunTypeOK, Directory, DiskRight, Thread, MemoryRight, Kept, Running
  <2>4. Witnesses'
    BY <1>10 DEF Join, RunTypeOK, Directory, Thread, DiskRight, Witnesses, WitnessKept, Running
  <2> QED
    BY <2>1, <2>2, <2>3, <2>4
<1>11. CASE Stop
  <2>1. RunTypeOK'
    BY <1>11 DEF Stop, RunTypeOK
  <2>2. Directory' /\ Thread'
    BY <1>11 DEF Stop, RunTypeOK, Directory, Thread, Running
  <2>3. DiskRight' /\ MemoryRight'
    BY <1>11 DEF Stop, RunTypeOK, Directory, DiskRight, Thread, MemoryRight, Kept, Running
  <2>4. Witnesses'
    BY <1>11 DEF Stop, RunTypeOK, Directory, Thread, DiskRight, Witnesses, WitnessKept, Running
  <2> QED
    BY <2>1, <2>2, <2>3, <2>4
<1>12. CASE KillRun
  <2>1. RunTypeOK'
    BY <1>12 DEF KillRun, RunTypeOK
  <2>2. Directory' /\ Thread'
    BY <1>12 DEF KillRun, RunTypeOK, Directory, Thread, Running
  <2>3. DiskRight' /\ MemoryRight'
    BY <1>12 DEF KillRun, RunTypeOK, Directory, DiskRight, Thread, MemoryRight, Kept, Running
  <2>4. Witnesses'
    BY <1>12 DEF KillRun, RunTypeOK, Directory, Thread, DiskRight, Witnesses, WitnessKept,
       Running
  <2> QED
    BY <2>1, <2>2, <2>3, <2>4
<1>13. CASE Edit
  <2>1. RunTypeOK'
    BY <1>13 DEF Edit, RunTypeOK
  <2>2. Directory' /\ Thread'
    BY <1>13 DEF Edit, RunTypeOK, Directory, Thread, Running
  <2>3. DiskRight' /\ MemoryRight'
    BY <1>13 DEF Edit, RunTypeOK, Directory, DiskRight, Thread, MemoryRight, Kept, Running
  <2>4. Witnesses'
    BY <1>13 DEF Edit, RunTypeOK, Directory, Thread, DiskRight, Witnesses, WitnessKept, Running
  <2> QED
    BY <2>1, <2>2, <2>3, <2>4
<1> QED
  BY <1>1, <1>2, <1>3, <1>4, <1>5, <1>6, <1>7, <1>8, <1>9, <1>10, <1>11, <1>12, <1>13

\* Removing the design and the results leaves no hash or no results, and neither when it is done.
LEMMA ClearStep == ASSUME RunInv, Clear PROVE RunInv'
<1> USE Files DEF RunInv, At, mcVars, nexusVars, boundVars
<1>1. /\ disk' = DutCleared \/ disk' = ResCleared
      /\ at = "clear" /\ at' \in {"clear", "generate"} /\ unproved' = {}
      /\ at' = "generate" => DutCleared = disk /\ ResCleared = disk /\ disk' = disk
      /\ UNCHANGED <<src, command, hash, design, mc, status, nexus, stateQ, witQ, stopped, starts,
                     edits, killed, loaded>>
  BY DEF Clear
<1>2. /\ DutCleared \in Disk /\ DutCleared.hash = Absent /\ DutCleared.res = disk.res
  BY DEF RunTypeOK, Disk, DutCleared
<1>3. /\ ResCleared \in Disk /\ ResCleared.hash = disk.hash /\ ResCleared.res = NoFile
  BY DEF RunTypeOK, Disk, ResCleared
<1>4. RunTypeOK'
  BY <1>1, <1>2, <1>3 DEF RunTypeOK
<1>5. Directory' /\ Thread'
  BY <1>1, <1>2, <1>3 DEF Directory, Thread, Running
<1>6. DiskRight' /\ MemoryRight' /\ Witnesses'
  BY <1>1, <1>2, <1>3 DEF DiskRight, MemoryRight, Witnesses, WitnessKept, Running
<1> QED
  BY <1>4, <1>5, <1>6

\* The hash is written when there are no results yet.
LEMMA CacheDutStep == ASSUME RunInv, CacheDut PROVE RunInv'
<1> USE Files DEF RunInv, At, mcVars, nexusVars, boundVars, history
<1>1. /\ at = "hash"
      /\ \/ disk' = [disk EXCEPT !.hash = Torn] /\ at' = "hash"
         \/ disk' = [disk EXCEPT !.hash = hash] /\ at' \in {"load", "exit"}
  BY DEF CacheDut, AfterDut
<1>2. /\ disk' \in Disk /\ disk'.btor = disk.btor /\ disk'.res = disk.res
      /\ disk'.wit = disk.wit
  BY <1>1 DEF RunTypeOK, Disk, Directory
<1>3. \/ disk'.hash = Torn /\ at' = "hash"
      \/ disk'.hash = hash /\ at' \in {"load", "exit"}
  BY <1>1 DEF RunTypeOK, Disk
<1>4. UNCHANGED <<src, command, hash, design, mc, status, nexus, stateQ, witQ, stopped, starts,
                  edits, killed, loaded, unproved>>
  BY DEF CacheDut
<1>5. RunTypeOK'
  BY <1>1, <1>2, <1>3, <1>4 DEF RunTypeOK
<1>6. Directory' /\ Thread'
  BY <1>1, <1>2, <1>3, <1>4 DEF Directory, Thread, Running
<1>7. DiskRight' /\ MemoryRight' /\ Witnesses'
  BY <1>1, <1>2, <1>3, <1>4 DEF Directory, DiskRight, MemoryRight, Witnesses, WitnessKept, Running
<1> QED
  BY <1>5, <1>6, <1>7

\* The results are written when PolyNexus has returned, and with them none of its violations is
\* without a witness.
LEMMA CacheResStep == ASSUME RunInv, CacheRes PROVE RunInv'
<1> USE Files DEF RunInv, At, mcVars, nexusVars, boundVars, history
<1>1. /\ at = "loop" /\ nexus.pc = "off" /\ at' \in {"loop", "exit"}
      /\ UNCHANGED <<src, command, hash, design, mc, status, nexus, stateQ, witQ, stopped, starts,
                     edits, killed, loaded, unproved>>
  BY DEF CacheRes, Idle
<1> DEFINE written == [whole |-> TRUE, torn |-> FALSE, res |-> mc]
<1>2. PICK f \in {TornFile, written} : disk' = [disk EXCEPT !.res = f]
  BY DEF CacheRes
<1>3. f \in File /\ f.res \in {NoResults, mc} /\ (~f.whole => f.res = NoResults)
  <2>1. written \in File /\ written.res = mc /\ written.whole
    BY DEF RunTypeOK, File
  <2> QED
    BY <2>1
<1>4. /\ disk' \in Disk /\ disk'.hash = disk.hash /\ disk'.btor = disk.btor /\ disk'.res = f
      /\ disk'.wit = disk.wit
  BY <1>2, <1>3 DEF RunTypeOK, Disk
<1> HIDE DEF written
<1>5. RunTypeOK'
  BY <1>1, <1>4 DEF RunTypeOK
<1>6. Directory' /\ Thread'
  BY <1>1, <1>4 DEF Directory, Thread, Running
<1>7. \A p \in Prop : mc[p] \in RightFor(design, p) /\ design = disk.btor
  BY <1>1 DEF MemoryRight, Kept, Running, Directory
<1>8. DiskRight'
  BY <1>1, <1>3, <1>4, <1>7 DEF DiskRight
<1>9. MemoryRight'
  BY <1>1 DEF MemoryRight, Kept, Running
<1>10. Witnesses'
  BY <1>1, <1>3, <1>4, <1>7 DEF Witnesses, WitnessKept, Running
<1> QED
  BY <1>5, <1>6, <1>8, <1>9, <1>10

\* A state that the command reads is right.
LEMMA DrainStateStep == ASSUME RunInv, DrainState PROVE RunInv'
<1> USE Files DEF RunInv, At, mcVars, nexusVars, boundVars, history
<1> DEFINE p == Head(stateQ)[1]
           r == Head(stateQ)[2]
<1>1. /\ at \in {"loop", "final"} /\ stateQ # <<>> /\ stateQ' = Tail(stateQ)
      /\ mc' = [mc EXCEPT ![p] = r]
      /\ UNCHANGED <<src, disk, at, command, hash, design, status, nexus, witQ, stopped, starts,
                     edits, killed, loaded, unproved>>
  BY DEF DrainState
<1>2. /\ Head(stateQ) \in Prop \X AnyResult /\ Head(stateQ) = stateQ[1] /\ Len(stateQ) > 0
      /\ stateQ' \in Seq(Prop \X AnyResult) /\ Len(stateQ') = Len(stateQ) - 1
      /\ \A i \in 1..Len(stateQ') : stateQ'[i] = stateQ[i + 1]
  BY <1>1, HeadTailProperties DEF RunTypeOK
<1>3. p \in Prop /\ r \in AnyResult /\ Kept(p, r)
  BY <1>1, <1>2 DEF MemoryRight, Running
<1> HIDE DEF p, r
<1>4. mc' \in Results /\ \A q \in Prop : mc'[q] = IF q = p THEN r ELSE mc[q]
  BY <1>1, <1>3 DEF RunTypeOK, Results
<1>5. RunTypeOK'
  BY <1>1, <1>2, <1>4 DEF RunTypeOK
<1>6. Directory' /\ Thread' /\ DiskRight'
  BY <1>1 DEF Directory, Thread, DiskRight, Running
<1>7. \A q \in Prop : Kept(q, mc'[q])
  BY <1>1, <1>3, <1>4 DEF MemoryRight, Running
<1>8. \A i \in 1..Len(stateQ') : Kept(stateQ'[i][1], stateQ'[i][2])
  BY <1>1, <1>2 DEF MemoryRight, Running, RunTypeOK
<1>9. MemoryRight'
  BY <1>1, <1>7, <1>8 DEF MemoryRight, Running, Kept
<1>10. Witnesses'
  BY <1>1 DEF Witnesses, WitnessKept, Running, Thread
<1> QED
  BY <1>5, <1>6, <1>9, <1>10

\* The witness at the head of the channel is on disk when it has left the channel.
LEMMA DrainWitnessStep == ASSUME RunInv, DrainWitness PROVE RunInv'
<1> USE Files DEF RunInv, At, mcVars, nexusVars, boundVars, history
<1>1. /\ at \in {"loop", "final"} /\ witQ # <<>> /\ witQ' = Tail(witQ)
      /\ disk' = [disk EXCEPT !.wit[Head(witQ)] = design]
      /\ UNCHANGED <<src, at, command, hash, design, mc, status, nexus, stateQ, stopped, starts,
                     edits, killed, loaded, unproved>>
  BY DEF DrainWitness
<1>2. /\ Head(witQ) \in Prop /\ Head(witQ) = witQ[1] /\ Len(witQ) > 0
      /\ witQ' \in Seq(Prop) /\ Len(witQ') = Len(witQ) - 1
      /\ \A i \in 1..Len(witQ') : witQ'[i] = witQ[i + 1]
  BY <1>1, HeadTailProperties DEF RunTypeOK
<1>3. /\ disk' \in Disk /\ disk'.hash = disk.hash /\ disk'.btor = disk.btor
      /\ disk'.res = disk.res
      /\ \A p \in Prop : disk'.wit[p] = IF p = Head(witQ) THEN design ELSE disk.wit[p]
  BY <1>1, <1>2 DEF RunTypeOK, Disk
<1>4. RunTypeOK'
  BY <1>1, <1>2, <1>3 DEF RunTypeOK
<1>5. Directory' /\ Thread' /\ DiskRight'
  BY <1>1, <1>3 DEF Directory, Thread, DiskRight, Running
<1>6. MemoryRight'
  BY <1>1 DEF MemoryRight, Running, Kept
<1>7. design = disk.btor /\ nexus.pc # "off"
  BY <1>1 DEF Directory, Thread, Running
<1>8. WitnessKept'
  BY <1>1, <1>3, <1>7 DEF Witnesses, WitnessKept
<1>9. ASSUME NEW p \in Prop, NEW i \in 1..Len(witQ), witQ[i] = p
      PROVE  disk'.wit[p] = design \/ \E j \in 1..Len(witQ') : witQ'[j] = p
  <2>1. CASE i = 1
    BY <2>1, <1>2, <1>3, <1>9
  <2>2. CASE i # 1
    <3>1. i - 1 \in 1..Len(witQ') /\ witQ'[i - 1] = p
      BY <2>2, <1>2, <1>9 DEF RunTypeOK
    <3> QED
      BY <3>1
  <2> QED
    BY <2>1, <2>2
<1>10. \A p \in nexus.resolved :
          nexus.res[p].kind = "SAT" =>
              disk'.wit[p] = design \/ \E i \in 1..Len(witQ') : witQ'[i] = p
  BY <1>1, <1>3, <1>7, <1>9 DEF Witnesses, Running, RunTypeOK, Nexus
<1>11. Witnesses'
  BY <1>1, <1>7, <1>8, <1>10 DEF Witnesses, Running
<1> QED
  BY <1>4, <1>5, <1>6, <1>11

\* The results of PolyNexus are applied when its channels are empty: the witnesses of what it has
\* resolved are on disk.
LEMMA ApplyStep == ASSUME RunInv, Apply PROVE RunInv'
<1> USE Files DEF RunInv, At, mcVars, nexusVars, boundVars, history
<1>1. /\ at = "final" /\ stateQ = <<>> /\ witQ = <<>> /\ mc' = nexus.res /\ nexus' = Off
      /\ at' = "loop"
      /\ unproved' = unproved \cup
                        {p \in Prop : nexus.res[p].kind = "SAT" /\ p \notin nexus.resolved}
      /\ UNCHANGED <<src, disk, command, hash, design, stateQ, witQ, stopped, starts, edits,
                     killed, loaded>>
  BY DEF Apply
<1>2. status' \in [Prop -> {"Wait", "Solving", "Pause"}]
  BY DEF Apply
<1>3. RunTypeOK'
  BY <1>1, <1>2 DEF RunTypeOK, Nexus
<1>4. Directory' /\ Thread' /\ DiskRight'
  BY <1>1 DEF Directory, Thread, DiskRight, Running
<1>5. MemoryRight'
  BY <1>1 DEF MemoryRight, Running, Kept, Thread
<1>6. WitnessKept'
  BY <1>1 DEF Witnesses, WitnessKept
<1>7. ASSUME NEW p \in Prop \ unproved', mc'[p].kind = "SAT" PROVE disk.wit[p] = design
  <2>1. p \in nexus.resolved
    BY <1>1, <1>7
  <2>2. ~\E i \in 1..Len(witQ) : witQ[i] = p
    BY <1>1
  <2> QED
    BY <1>1, <1>7, <2>1, <2>2 DEF Witnesses, Running, Thread
<1>8. Witnesses'
  BY <1>1, <1>6, <1>7 DEF Witnesses, Running
<1> QED
  BY <1>3, <1>4, <1>5, <1>8

\* A state that PolyNexus traces is right, and no worse than the last one.
LEMMA NexusTraceStep == ASSUME RunInv, NEW p \in Prop, NexusTrace(p) PROVE RunInv'
<1> USE Files DEF RunInv, At, mcVars, nexusVars, boundVars, history
<1>1. PICK r \in {Reached(0), RunRight(design, p)} :
         /\ nexus' = [nexus EXCEPT !.res[p] = Or(nexus.res[p], r)]
         /\ stateQ' = Append(stateQ, <<p, Or(nexus.res[p], r)>>)
         /\ Or(nexus.res[p], r) # nexus.res[p]
  BY DEF NexusTrace
<1> DEFINE merged == Or(nexus.res[p], r)
<1>2. /\ nexus.pc = "solving" /\ p \notin nexus.resolved
      /\ UNCHANGED <<src, disk, at, command, hash, design, mc, status, witQ, stopped, starts, edits,
                     killed, loaded, unproved>>
  BY DEF NexusTrace
<1>3. at = "loop" /\ design = disk.btor
  BY <1>2 DEF Thread, Directory, Running
<1>4. Kept(p, merged)
  <2>1. Kept(p, nexus.res[p])
    BY <1>2, <1>3 DEF MemoryRight, Running
  <2> QED
    BY <2>1, OrRight DEF Kept
<1>5. merged \in AnyResult
  BY <1>4 DEF Kept, RightFor
<1> HIDE DEF merged
<1>6. /\ nexus' \in Nexus /\ nexus'.pc = nexus.pc /\ nexus'.resolved = nexus.resolved
      /\ \A q \in Prop : nexus'.res[q] = IF q = p THEN merged ELSE nexus.res[q]
  BY <1>1, <1>5 DEF merged, RunTypeOK, Nexus, Results
<1>7. stateQ' = Append(stateQ, <<p, merged>>) /\ stateQ' \in Seq(Prop \X AnyResult)
  BY <1>1, <1>5 DEF merged, RunTypeOK
<1>8. RunTypeOK'
  BY <1>2, <1>6, <1>7 DEF RunTypeOK
<1>9. Directory' /\ Thread' /\ DiskRight'
  BY <1>2, <1>3, <1>6 DEF Directory, Thread, DiskRight, Running
<1>10. \A i \in 1..Len(stateQ') : Kept(stateQ'[i][1], stateQ'[i][2])
  BY <1>3, <1>4, <1>7 DEF MemoryRight, Running, RunTypeOK
<1>11. MemoryRight'
  BY <1>2, <1>3, <1>4, <1>6, <1>10 DEF MemoryRight, Running, Kept
<1>12. Witnesses'
  BY <1>2, <1>3, <1>6 DEF Witnesses, WitnessKept, Running, RunTypeOK, Nexus
<1> QED
  BY <1>8, <1>9, <1>11, <1>12

\* A property that is resolved has the right result, and a violation sends its witness.
LEMMA NexusDoneStep == ASSUME RunInv, NEW p \in Prop, NexusDone(p) PROVE RunInv'
<1> USE Files DEF RunInv, At, mcVars, nexusVars, boundVars, history
<1> DEFINE r == RunRight(design, p)
<1>1. /\ nexus.pc = "solving" /\ p \notin nexus.resolved
      /\ nexus' = [nexus EXCEPT !.res[p] = r, !.resolved = nexus.resolved \cup {p}]
      /\ stateQ' = Append(stateQ, <<p, r>>)
      /\ witQ' = IF r.kind = "SAT" THEN Append(witQ, p) ELSE witQ
      /\ UNCHANGED <<src, disk, at, command, hash, design, mc, status, stopped, starts, edits,
                     killed, loaded, unproved>>
  BY DEF NexusDone
<1>2. at = "loop" /\ design = disk.btor
  BY <1>1 DEF Thread, Directory, Running
<1>3. r \in AnyResult /\ Kept(p, r)
  BY Rights DEF Kept, RightFor
<1> HIDE DEF r
<1>4. /\ nexus' \in Nexus /\ nexus'.pc = nexus.pc /\ nexus'.resolved = nexus.resolved \cup {p}
      /\ \A q \in Prop : nexus'.res[q] = IF q = p THEN r ELSE nexus.res[q]
  BY <1>1, <1>3 DEF RunTypeOK, Nexus, Results
<1>5. stateQ' \in Seq(Prop \X AnyResult) /\ witQ' \in Seq(Prop)
  BY <1>1, <1>3 DEF RunTypeOK
<1>6. RunTypeOK'
  BY <1>1, <1>4, <1>5 DEF RunTypeOK
<1>7. Directory' /\ Thread' /\ DiskRight'
  BY <1>1, <1>2, <1>4 DEF Directory, Thread, DiskRight, Running
<1>8. \A i \in 1..Len(stateQ') : Kept(stateQ'[i][1], stateQ'[i][2])
  BY <1>1, <1>2, <1>3 DEF MemoryRight, Running, RunTypeOK
<1>9. MemoryRight'
  BY <1>1, <1>2, <1>3, <1>4, <1>8 DEF MemoryRight, Running, Kept
<1>10. ASSUME NEW q \in nexus'.resolved, nexus'.res[q].kind = "SAT"
       PROVE  disk'.wit[q] = design \/ \E i \in 1..Len(witQ') : witQ'[i] = q
  <2>1. q \in Prop /\ Len(witQ) \in Nat
    BY <1>10, <1>4 DEF RunTypeOK, Nexus
  <2>2. CASE q = p
    <3>1. witQ' = Append(witQ, p)
      BY <1>1, <1>4, <1>10, <2>1, <2>2
    <3>2. Len(witQ') = Len(witQ) + 1 /\ witQ'[Len(witQ) + 1] = p
      BY <3>1 DEF RunTypeOK
    <3> QED
      BY <3>2, <2>1, <2>2
  <2>3. CASE q # p
    <3>1. disk.wit[q] = design \/ \E i \in 1..Len(witQ) : witQ[i] = q
      BY <1>1, <1>2, <1>4, <1>10, <2>1, <2>3 DEF Witnesses, Running
    <3>2. \A i \in 1..Len(witQ) : i \in 1..Len(witQ') /\ witQ'[i] = witQ[i]
      BY <1>1 DEF RunTypeOK
    <3> QED
      BY <1>1, <3>1, <3>2
  <2> QED
    BY <2>2, <2>3
<1>11. Witnesses'
  BY <1>1, <1>2, <1>4, <1>10 DEF Witnesses, WitnessKept, Running
<1> QED
  BY <1>6, <1>7, <1>9, <1>11

-----------------------------------------------------------------------------
\* The invariant is inductive.
LEMMA RunInvariance == RunInv /\ [RunNext]_runVars => RunInv'
<1> SUFFICES ASSUME RunInv, [RunNext]_runVars PROVE RunInv'
  OBVIOUS
<1>1. CASE UNCHANGED runVars
  <2>1. UNCHANGED <<src, disk, at, command, hash, design, mc, status, nexus, stateQ, witQ, stopped,
                    starts, edits, killed, loaded, unproved>>
    BY <1>1 DEF runVars, mcVars, nexusVars, boundVars, history
  <2>2. RunTypeOK' /\ Directory' /\ Thread'
    BY <2>1 DEF RunInv, RunTypeOK, Directory, Thread, Running
  <2>3. DiskRight' /\ MemoryRight'
    BY <2>1 DEF RunInv, DiskRight, MemoryRight, Running, Kept
  <2>4. Witnesses'
    BY <2>1 DEF RunInv, Witnesses, WitnessKept, Running
  <2> QED
    BY <2>2, <2>3, <2>4 DEF RunInv
<1>2. CASE RunNext
  BY <1>2, SimpleSteps, ClearStep, CacheDutStep, CacheResStep, DrainStateStep, DrainWitnessStep,
     ApplyStep, NexusTraceStep, NexusDoneStep DEF RunNext
<1> QED
  BY <1>1, <1>2

\* The commands keep the types of their state.
THEOREM RunTypeCorrect == RunInit /\ [][RunNext]_runVars => []RunTypeOK
<1>1. RunInv => RunTypeOK
  BY DEF RunInv
<1> QED
  BY <1>1, RunInitially, RunInvariance, PTL

\* Under a hash that is valid, the results on disk are right for the design next to them, whatever
\* was edited, killed or failed in between.
THEOREM DesignsResults == RunInit /\ [][RunNext]_runVars => []ResultsOfDesign
<1>1. RunInv => ResultsOfDesign
  BY DEF RunInv, DiskRight, ResultsOfDesign, RightFor
<1> QED
  BY <1>1, RunInitially, RunInvariance, PTL

\* A violation that is kept has its witness, of the same design, except where the run was stopped
\* before the witness was built.
THEOREM WitnessesWritten == RunInit /\ [][RunNext]_runVars => []WitnessKept
<1>1. RunInv => WitnessKept
  BY DEF RunInv, Witnesses
<1> QED
  BY <1>1, RunInitially, RunInvariance, PTL

\* No run unlearns a result that it has read.
THEOREM NothingUnlearned == RunInit /\ [][RunNext]_runVars => ResultsKept
<1> DEFINE Kept1 == ~disk.res.whole /\ disk'.res.whole =>
                       \A p \in Prop : Decided(loaded[p]) => Decided(disk'.res.res[p])
<1>1. RunInv /\ [RunNext]_runVars => Kept1
  <2> SUFFICES ASSUME RunInv, [RunNext]_runVars, ~disk.res.whole, disk'.res.whole PROVE Kept1
    OBVIOUS
  <2>1. disk' # disk /\ disk'.res # disk.res
    OBVIOUS
  <2>2. CacheRes
    <3>1. CASE DrainWitness
      BY <3>1, <2>1 DEF DrainWitness, RunInv, RunTypeOK, Disk
    <3>2. CASE CacheDut
      BY <3>2, <2>1 DEF CacheDut, RunInv, RunTypeOK, Disk
    <3>3. CASE Clear
      BY <3>3, <2>1, Files DEF Clear, DutCleared, ResCleared, RunInv, RunTypeOK, Disk
    <3>4. CASE Clean
      BY <3>4, Files DEF Clean
    <3>5. CASE Generate
      BY <3>5, <2>1 DEF Generate, RunInv, RunTypeOK, Disk
    <3>6. CASE UNCHANGED disk
      BY <3>6, <2>1
    <3> QED
      BY <3>1, <3>2, <3>3, <3>4, <3>5, <3>6 DEF RunNext, runVars, Start, Exit, CheckDut, Load,
         LaunchNexus, NexusTrace, NexusDone, NexusEnds, DrainState, DrainFails, Join, Apply, Stop,
         KillRun, Edit
  <2>3. disk'.res.res = mc
    BY <2>2, Files DEF CacheRes, RunInv, RunTypeOK, Disk
  <2>4. Running
    BY <2>2 DEF CacheRes, Running
  <2> QED
    BY <2>3, <2>4 DEF RunInv, MemoryRight, Kept
<1> QED
  BY <1>1, RunInitially, RunInvariance, PTL DEF ResultsKept
=============================================================================
