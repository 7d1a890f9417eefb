----------------------------- MODULE IC3Proofs -----------------------------
(***************************************************************************)
(* What IC3 promises, for every transition system, every set of cubes and   *)
(* every bound: the type invariant, that an UNSAT answer comes with an      *)
(* inductive invariant, that a SAT answer comes with a path of cubes from   *)
(* an initial to a bad state, so that both answers are true of the paths of *)
(* the transition system, that the frames cover what is reached at every    *)
(* moment, and the facts about frames, obligations and the infinity frame   *)
(* that the assertions of the code rest on.                                 *)
(***************************************************************************)
EXTENDS IC3, FiniteSetTheorems, WellFoundedInduction, TLAPS

(***************************************************************************)
(* The inductive invariant.                                                 *)
(***************************************************************************)

\* What TypeOK leaves open: frame 0 and solver 0 hold the init clauses, the frames above the level
\* are empty, chains are not, and the cursors are in the range their phase works on.
Generalizing == pc \in {"mic", "ctg", "push"}

Shape ==
    /\ slv[0] = InitCubes /\ frames[0] = InitCubes
    /\ \A k \in level + 1..MaxLevel : frames[k] = {}
    /\ \A o \in obl : o.chain # <<>>
    /\ Generalizing =>
        /\ cur.chain # <<>>
        /\ cur.frame \in 1..level
        /\ gen \in Cube
        /\ PoState(cur) \subseteq gen
    /\ ~Generalizing => cur = NoPo
    /\ pc = "ctg" => idx \in 1..level /\ ctg \in Cube
    /\ pc = "push" => idx \in cur.frame..level
    /\ pc = "prop" => idx \in 1..level - 1
    /\ pc = "inf" => level > 0 /\ todo \subseteq frames[level]
    /\ pc # "done" => res = NoRes

\* Every frame contains the initial states and the frame below it, and is within the
\* infinity frame, which is closed under the transitions.
Nested ==
    /\ \A k \in 0..level : InitStates \subseteq Frame(k) /\ Frame(k) \subseteq InfFrame
    /\ \A j, k \in 0..level : j <= k => Frame(j) \subseteq Frame(k)
    /\ \A s \in InfFrame : Trans[s] \subseteq InfFrame

\* A step from frame k ends in frame k + 1. While gen is generalized the steps of its own
\* states are excepted below the obligation's frame: CTG lemmas hold relative to gen.
Steps ==
    \A k \in 0..level - 1 : \A s \in Frame(k) :
        Trans[s] \subseteq Frame(k + 1) \/ (k < cur.frame /\ s \in gen)

BadFree == \A k \in 0..level - 1 : Frame(k) \cap Bad = {}

\* The states that the queries for a CTG lemma of frame f leave out besides its own.
Hole(f) == IF f <= cur.frame THEN gen ELSE {}

\* The lemma being generalized or pushed is inductive relative to the frame below it.
LemmaInHand ==
    /\ Generalizing => ~MeetsInit(gen)
    /\ pc \in {"mic", "ctg"} => Blocked(Frame(cur.frame - 1) \ gen, gen)
    /\ pc = "push" => Blocked(Frame(idx - 1) \ gen, gen)
    /\ pc = "ctg" => /\ ~MeetsInit(ctg)
                     /\ Blocked(Frame(idx - 1) \ (ctg \cup Hole(idx)), ctg)

\* An obligation's cubes lead step by step to a bad state.
ChainReal(o) ==
    /\ \A i \in 1..Len(o.chain) - 1 : o.chain[i] \subseteq Pre(o.chain[i + 1])
    /\ o.chain[Len(o.chain)] \subseteq Bad

\* An obligation's frame is the first its cube may belong to.
Placed(o) ==
    IF o.frame = 0
    THEN MeetsInit(PoState(o))
    ELSE PoState(o) \cap Frame(o.frame - 1) = {}

Obligations == \A o \in obl \cup (IF Generalizing THEN {cur} ELSE {}) : ChainReal(o) /\ Placed(o)

\* What is known of the frames and of the lemma in hand.
FramesSound == FramesAgree /\ Nested /\ Steps /\ BadFree /\ LemmaInHand

\* UNSAT is returned on an empty frame below the level.
UnsatFrameEmpty ==
    res.kind = "UNSAT" => pc = "done" /\ \E k \in 0..level - 1 : frames[k] = {}

IInv ==
    /\ TypeOK /\ Shape
    /\ FramesSound /\ Obligations
    /\ UnsatFrameEmpty /\ CexReal

-----------------------------------------------------------------------------
(***************************************************************************)
(* The frames after add_lemma.                                              *)
(***************************************************************************)

\* add_lemma's loop stops at 0 or at a frame with a lemma that subsumes the new one.
LEMMA StopsAtSubsuming ==
    ASSUME NEW f \in Nat, NEW c
    PROVE  /\ StopOr0(f, c) \in 0..f
           /\ StopOr0(f, c) > 0 => \E l \in frames[StopOr0(f, c)] : c \subseteq l
<1>1. CASE Stop(f, c) = {}
  <2>1. StopOr0(f, c) = 0
    BY <1>1 DEF StopOr0
  <2> QED
    BY <2>1
<1>2. CASE Stop(f, c) # {}
  <2>1. StopOr0(f, c) = CHOOSE k \in Stop(f, c) : TRUE
    BY <1>2 DEF StopOr0
  <2>2. StopOr0(f, c) \in Stop(f, c)
    BY <1>2, <2>1
  <2> QED
    BY <2>2 DEF Stop
<1> QED
  BY <1>1, <1>2

\* A lemma of a frame is excluded by the solvers up to that frame.
LEMMA LemmaExcluded ==
    ASSUME TypeOK, FramesAgree, NEW k \in 1..level, NEW i \in k..level, NEW l \in frames[i]
    PROVE  l \cap Frame(k) = {}
<1>1. l \in LemmasFrom(k)
  BY DEF TypeOK, LemmasFrom, Levels
<1>2. l \subseteq Excluded(slv[k])
  BY <1>1 DEF FramesAgree, Excluded
<1> QED
  BY <1>2 DEF Frame

\* A lemma of the infinity frame is excluded by every solver above 0.
LEMMA InfExcluded ==
    ASSUME TypeOK, FramesAgree, NEW k \in 1..level, NEW l \in inf
    PROVE  l \cap Frame(k) = {}
<1>1. l \subseteq Excluded(slv[k])
  BY DEF FramesAgree, Excluded
<1> QED
  BY <1>1 DEF Frame

\* AddClause skips the solvers up to the stop, yet the clause holds in every frame up to f.
LEMMA ClauseAdded ==
    ASSUME TypeOK, FramesAgree, NEW f \in 1..level, NEW c \in Cube, AddClause(f, c)
    PROVE  \A k \in Levels :
              Frame(k)' = IF k \in 1..f THEN Frame(k) \ c ELSE Frame(k)
<1> DEFINE stop == StopOr0(f, c)
<1>0. f \in Nat /\ level \in Levels /\ f <= level /\ f > 0
  BY BoundAssumption DEF TypeOK, Levels
<1>1. /\ stop \in 0..f
      /\ stop > 0 => \E l \in frames[stop] : c \subseteq l
  BY <1>0, StopsAtSubsuming
<1>2. ASSUME NEW k \in Levels
      PROVE  slv'[k] = IF k \in stop + 1..f THEN slv[k] \cup {c} ELSE slv[k]
  BY <1>2 DEF AddClause
<1>3. ASSUME NEW k \in Levels
      PROVE  Frame(k)' = IF k \in 1..f THEN Frame(k) \ c ELSE Frame(k)
  <2>1. CASE k \in stop + 1..f
    <3>1. slv'[k] = slv[k] \cup {c}
      BY <1>2, <2>1
    <3>2. Excluded(slv'[k]) = Excluded(slv[k]) \cup c
      BY <3>1 DEF Excluded
    <3>3. k \in 1..f
      BY <1>1, <2>1, <1>0
    <3> QED
      BY <3>2, <3>3 DEF Frame
  <2>2. CASE k \notin stop + 1..f /\ k \in 1..f
    <3>1. stop > 0 /\ stop \in k..level /\ k \in 1..level
      BY <1>0, <1>1, <2>2 DEF Levels
    <3>2. PICK l \in frames[stop] : c \subseteq l
      BY <1>1, <3>1
    <3>3. c \cap Frame(k) = {}
      BY <3>1, <3>2, LemmaExcluded
    <3>4. Frame(k)' = Frame(k)
      BY <1>2, <2>2 DEF Frame
    <3> QED
      BY <2>2, <3>3, <3>4
  <2>3. CASE k \notin stop + 1..f /\ k \notin 1..f
    <3>1. Frame(k)' = Frame(k)
      BY <1>2, <2>3 DEF Frame
    <3> QED
      BY <2>3, <3>1
  <2> QED
    BY <2>1, <2>2, <2>3
<1> QED
  BY <1>3

\* What add_lemma leaves in the delta frames: c is in frame f, only lemmas that c subsumes
\* are gone, and the flag is set only if a frame below f is empty.
LEMMA LemmasMoved ==
    ASSUME TypeOK, NEW f \in 1..level, NEW c \in Cube, NEW r \in Added(f, c)
    PROVE  /\ r.frames \in [Levels -> SUBSET Cube]
           /\ c \in r.frames[f]
           /\ \A i \in Levels : i # f => r.frames[i] \subseteq frames[i]
           /\ r.frames[f] \subseteq frames[f] \cup {c}
           /\ \A i \in Levels : \A l \in frames[i] : ~(l \subseteq c) => l \in r.frames[i]
           /\ \A i \in Levels : i = 0 \/ i > f => r.frames[i] = frames[i]
           /\ r.found => \E i \in 1..f - 1 : r.frames[i] = {}
<1> DEFINE stop == StopOr0(f, c)
           Subsumed == IF stop = 0 THEN {} ELSE {l \in frames[stop] : l \subseteq c /\ l # c}
<1>0. /\ f \in Nat /\ f \in Levels /\ f > 0
      /\ Levels \subseteq Nat
      /\ frames \in [Levels -> SUBSET Cube]
  BY BoundAssumption DEF TypeOK, Levels
<1>1. stop \in 0..f
  BY <1>0, StopsAtSubsuming
<1>2. PICK gone \in SUBSET (Subsumed \cup {c}) :
        /\ stop = 0 => gone = {}
        /\ r.frames = Spliced(f, c, stop, gone)
        /\ r.found => \/ Moved(stop, c) /\ r.frames[stop] = {}
                      \/ \E i \in stop + 1..f - 1 : r.frames[i] = {}
  <2>1. CASE Moved(stop, c) /\ r \in {[frames |-> Spliced(f, c, stop, gone \cup {c}),
                                      found |-> Spliced(f, c, stop, gone \cup {c})[stop] = {}] :
                                         gone \in SUBSET Subsumed}
    <3>1. PICK gone \in SUBSET Subsumed :
            r = [frames |-> Spliced(f, c, stop, gone \cup {c}),
                 found |-> Spliced(f, c, stop, gone \cup {c})[stop] = {}]
      BY <2>1
    <3>2. gone \cup {c} \in SUBSET (Subsumed \cup {c})
      OBVIOUS
    <3>3. /\ r.frames = Spliced(f, c, stop, gone \cup {c})
          /\ r.found => r.frames[stop] = {}
      BY <3>1
    <3>4. stop # 0
      BY <1>0, <1>1, <2>1 DEF Moved
    <3> QED
      BY <2>1, <3>2, <3>3, <3>4
  <2>2. CASE r \in {[frames |-> Spliced(f, c, stop, gone),
                    found |-> \E i \in stop + 1..f - 1 : Spliced(f, c, stop, gone)[i] = {}] :
                       gone \in SUBSET Subsumed}
    <3>1. PICK gone \in SUBSET Subsumed :
            r = [frames |-> Spliced(f, c, stop, gone),
                 found |-> \E i \in stop + 1..f - 1 : Spliced(f, c, stop, gone)[i] = {}]
      BY <2>2
    <3>2. gone \in SUBSET (Subsumed \cup {c})
      OBVIOUS
    <3>3. /\ r.frames = Spliced(f, c, stop, gone)
          /\ r.found => \E i \in stop + 1..f - 1 : r.frames[i] = {}
      BY <3>1
    <3> QED
      BY <3>2, <3>3
  <2> QED
    BY <2>1, <2>2 DEF Added
<1>3. ASSUME NEW i \in Levels
      PROVE  r.frames[i] =
               (frames[i] \ (IF i \in stop + 1..f THEN {l \in frames[i] : l \subseteq c}
                             ELSE IF i = stop THEN gone ELSE {}))
               \cup (IF i = f THEN {c} ELSE {})
  BY <1>2 DEF Spliced
<1>4. \A l \in gone : l \subseteq c
  BY <1>2
<1>5. ASSUME NEW i \in Levels
      PROVE  /\ r.frames[i] \subseteq frames[i] \cup (IF i = f THEN {c} ELSE {})
             /\ i = f => c \in r.frames[i]
             /\ \A l \in frames[i] : ~(l \subseteq c) => l \in r.frames[i]
  BY <1>3, <1>4
<1>6. r.frames \in [Levels -> SUBSET Cube]
  <2>1. r.frames = [i \in Levels |-> r.frames[i]]
    BY <1>2 DEF Spliced
  <2>2. \A i \in Levels : r.frames[i] \in SUBSET Cube
    BY <1>0, <1>5
  <2> QED
    BY <2>1, <2>2
<1>7. ASSUME r.found PROVE \E i \in 1..f - 1 : r.frames[i] = {}
  <2>1. CASE Moved(stop, c) /\ r.frames[stop] = {}
    <3>1. stop > 0 /\ stop \in Levels
      BY <1>0, <1>1, <2>1, BoundAssumption DEF Moved, TypeOK, Levels
    <3>2. stop # f
      BY <1>0, <1>5, <2>1, <3>1
    <3> QED
      BY <1>0, <1>1, <2>1, <3>1, <3>2
  <2>2. CASE \E i \in stop + 1..f - 1 : r.frames[i] = {}
    <3>1. PICK i \in stop + 1..f - 1 : r.frames[i] = {}
      BY <2>2
    <3> QED
      BY <1>0, <1>1, <3>1
  <2> QED
    BY <1>2, <1>7, <2>1, <2>2
<1>8. ASSUME NEW i \in Levels, i = 0 \/ i > f PROVE r.frames[i] = frames[i]
  <2>1. i \notin stop + 1..f /\ i # f /\ (i = stop => i = 0)
    BY <1>0, <1>1, <1>8
  <2> QED
    BY <1>2, <1>3, <2>1
<1> QED
  BY <1>0, <1>5, <1>6, <1>7, <1>8

\* add_lemma keeps the delta frames and the solvers in agreement.
LEMMA AgreementKept ==
    ASSUME TypeOK, FramesAgree, NEW f \in 1..level, NEW c \in Cube, NEW r \in Added(f, c),
           AddClause(f, c), frames' = r.frames, level' = level, inf' = inf
    PROVE  FramesAgree'
<1>0. f \in Levels /\ f > 0 /\ Levels \subseteq Nat /\ level \in Levels /\ 1..level \subseteq Levels
  BY BoundAssumption DEF TypeOK, Levels
<1> DEFINE Out(k) == Excluded(LemmasFrom(k) \cup inf)
<1>1. ASSUME NEW k \in 1..level
      PROVE  Out(k)' = IF k <= f THEN Out(k) \cup c ELSE Out(k)
  <2>0. k \in Levels /\ level' = level /\ inf' = inf
    BY <1>0
  <2>1. /\ \A i \in k..level : i # f => frames'[i] \subseteq frames[i]
        /\ frames'[f] \subseteq frames[f] \cup {c}
        /\ \A i \in k..level : \A l \in frames[i] : ~(l \subseteq c) => l \in frames'[i]
        /\ c \in frames'[f]
        /\ \A i \in k..level : i > f => frames'[i] = frames[i]
    <3>1. k..level \subseteq Levels
      BY <1>0, <2>0 DEF Levels
    <3> QED
      BY <1>0, <3>1, LemmasMoved
  <2>2. LemmasFrom(k)' = UNION {frames'[i] : i \in k..level}
    BY <2>0 DEF LemmasFrom
  <2>3. CASE k <= f
    <3>1. f \in k..level
      BY <1>0, <2>0, <2>3
    <3>2. LemmasFrom(k)' \subseteq LemmasFrom(k) \cup {c}
      BY <2>1, <2>2, <3>1 DEF LemmasFrom
    <3>3. c \in LemmasFrom(k)'
      BY <2>1, <2>2, <3>1
    <3>4. \A l \in LemmasFrom(k) : l \subseteq c \/ l \in LemmasFrom(k)'
      BY <2>1, <2>2 DEF LemmasFrom
    <3>5. Out(k)' = Excluded(LemmasFrom(k)' \cup inf)
      BY <2>0 DEF Excluded
    <3>6. Out(k)' \subseteq Out(k) \cup c
      BY <3>2, <3>5 DEF Excluded
    <3>7. Out(k) \cup c \subseteq Out(k)'
      BY <3>3, <3>4, <3>5 DEF Excluded
    <3> QED
      BY <2>3, <3>6, <3>7
  <2>4. CASE ~(k <= f)
    <3>1. \A i \in k..level : frames'[i] = frames[i]
      BY <1>0, <2>0, <2>1, <2>4
    <3>2. LemmasFrom(k)' = LemmasFrom(k)
      BY <2>2, <3>1 DEF LemmasFrom
    <3> QED
      BY <2>0, <2>4, <3>2 DEF Excluded
  <2> QED
    BY <2>3, <2>4
<1>2. ASSUME NEW k \in 1..level
      PROVE  Frame(k)' = State \ Out(k)'
  <2>1. Frame(k) = State \ Out(k)
    BY DEF FramesAgree, Frame
  <2>2. Frame(k)' = IF k \in 1..f THEN Frame(k) \ c ELSE Frame(k)
    BY <1>0, ClauseAdded
  <2>3. k \in 1..f <=> k <= f
    BY <1>0
  <2>4. CASE k <= f
    <3>1. Out(k)' = Out(k) \cup c
      BY <1>1, <2>4
    <3> QED
      BY <2>1, <2>2, <2>3, <2>4, <3>1
  <2>5. CASE ~(k <= f)
    <3>1. Out(k)' = Out(k)
      BY <1>1, <2>5
    <3> QED
      BY <2>1, <2>2, <2>3, <2>5, <3>1
  <2> QED
    BY <2>4, <2>5
<1>3. ASSUME NEW k \in 1..level
      PROVE  Excluded(slv[k])' = Out(k)'
  <2>1. Excluded(slv[k])' \subseteq State
    <3>1. slv'[k] \subseteq slv[k] \cup {c}
      BY <1>0 DEF AddClause
    <3>2. slv[k] \subseteq Cube
      BY <1>0 DEF TypeOK
    <3> QED
      BY <3>1, <3>2, CubeAssumption DEF Excluded
  <2>2. Out(k)' \subseteq State
    <3>1. Out(k) \subseteq State
      <4>1. \A i \in k..level : frames[i] \subseteq Cube
        BY <1>0 DEF TypeOK, Levels
      <4>2. inf \subseteq Cube
        BY DEF TypeOK
      <4> QED
        BY <4>1, <4>2, CubeAssumption DEF LemmasFrom, Excluded
    <3> QED
      BY <1>1, <3>1, CubeAssumption
  <2> QED
    BY <1>2, <2>1, <2>2 DEF Frame, Excluded
<1> QED
  BY <1>3 DEF FramesAgree

\* A lemma that is inductive relative to the frame below f may be added up to f.
LEMMA LemmaAdded ==
    ASSUME TypeOK, Shape, FramesAgree, Nested, Steps, BadFree,
           NEW f \in 1..level, NEW c \in Cube, ~MeetsInit(c),
           Blocked(Frame(f - 1) \ (c \cup Hole(f)), c),
           AddClause(f, c), level' = level, inf' = inf
    PROVE  /\ Nested' /\ BadFree'
           /\ \A k \in 0..level - 1 : \A s \in Frame(k)' :
                Trans[s] \subseteq Frame(k + 1)' \/ (k < cur.frame /\ s \in gen)
<1>0. /\ level \in Nat /\ level <= MaxLevel /\ f \in Nat /\ f > 0 /\ f <= level
      /\ 0..level \subseteq Levels
      /\ cur.frame \in Nat
  BY BoundAssumption DEF TypeOK, Levels
<1>1. \A k \in 0..level : Frame(k)' = IF k \in 1..f THEN Frame(k) \ c ELSE Frame(k)
  BY <1>0, ClauseAdded
<1>2. Frame(0) = InitStates
  BY DEF Shape, Frame, InitStates
<1>3. InitStates \cap c = {}
  BY DEF MeetsInit
<1>4. \A k \in 0..level : InitStates \subseteq Frame(k)'
  BY <1>1, <1>3 DEF Nested
<1>5. \A k \in 0..level : Frame(k)' \subseteq Frame(k)
  BY <1>1
<1>6. ASSUME NEW j \in 0..level, NEW k \in 0..level, j <= k
      PROVE  Frame(j)' \subseteq Frame(k)'
  <2>1. Frame(j) \subseteq Frame(k)
    BY <1>6 DEF Nested
  <2>2. CASE j = 0
    BY <1>1, <1>2, <1>4, <2>2
  <2>3. CASE j # 0 /\ k <= f
    <3>1. j \in 1..f /\ k \in 1..f
      BY <1>0, <1>6, <2>3
    <3> QED
      BY <1>1, <2>1, <3>1
  <2>4. CASE ~(k <= f)
    <3>1. k \notin 1..f
      BY <1>0, <2>4
    <3> QED
      BY <1>1, <1>5, <2>1, <3>1
  <2> QED
    BY <2>2, <2>3, <2>4
<1>7. Nested'
  <2>1. InfFrame' = InfFrame /\ InitStates' = InitStates
    BY DEF InfFrame, Excluded, InitStates
  <2> QED
    BY <1>4, <1>5, <1>6, <2>1 DEF Nested
<1>8. BadFree'
  <2>1. \A k \in 0..level - 1 : k \in 0..level
    BY <1>0
  <2> QED
    BY <1>5, <2>1 DEF BadFree
<1>9. ASSUME NEW k \in 0..level - 1, NEW s \in Frame(k)', ~(k < cur.frame /\ s \in gen)
      PROVE  Trans[s] \subseteq Frame(k + 1)'
  <2>1. k \in 0..level /\ k + 1 \in 0..level
    BY <1>0
  <2>2. s \in Frame(k)
    BY <1>5, <2>1
  <2>3. Trans[s] \subseteq Frame(k + 1)
    BY <1>9, <2>2 DEF Steps
  <2>4. CASE k + 1 <= f
    <3>1. s \notin c
      BY <1>0, <1>1, <1>2, <1>3, <2>1, <2>2, <2>4
    <3>2. s \in Frame(f - 1)
      <4>1. f - 1 \in 0..level /\ k <= f - 1
        BY <1>0, <2>4
      <4> QED
        BY <2>1, <2>2, <4>1 DEF Nested
    <3>3. s \notin Hole(f)
      BY <1>0, <1>9, <2>4 DEF Hole
    <3>4. Trans[s] \cap c = {}
      BY <3>1, <3>2, <3>3 DEF Blocked
    <3> QED
      BY <1>1, <2>1, <2>3, <3>4
  <2>5. CASE ~(k + 1 <= f)
    <3>1. k + 1 \notin 1..f
      BY <2>5, <1>0
    <3> QED
      BY <1>1, <2>1, <2>3, <3>1
  <2> QED
    BY <2>4, <2>5
<1> QED
  BY <1>7, <1>8, <1>9

(***************************************************************************)
(* Obligations.                                                             *)
(***************************************************************************)

ProofObligations == [frame : 0..MaxLevel + 1, chain : Seq(Cube)]

\* The state of an obligation with a chain is a cube, its depth a number.
LEMMA ObligationType ==
    ASSUME NEW o \in ProofObligations, o.chain # <<>>
    PROVE  /\ PoState(o) \in Cube
           /\ Depth(o) \in Nat
           /\ o.frame \in Nat
  BY BoundAssumption DEF ProofObligations, PoState, Depth

\* push_to moves an obligation up, never down, and keeps its chain.
LEMMA PushToMoves ==
    ASSUME NEW o \in ProofObligations, NEW f \in Nat, f <= MaxLevel + 1
    PROVE  /\ PushTo(o, f) \in ProofObligations
           /\ PushTo(o, f).chain = o.chain
           /\ PushTo(o, f).frame = IF f > o.frame THEN f ELSE o.frame
  BY BoundAssumption DEF ProofObligations, PushTo

\* A predecessor's chain is that of its successor behind its own cube.
LEMMA ChainExtended ==
    ASSUME NEW p \in Cube, NEW o \in ProofObligations, o.chain # <<>>,
           NEW f \in 0..MaxLevel + 1
    PROVE  LET new == Po(f, <<p>> \o o.chain)
           IN  /\ new \in ProofObligations
               /\ new.frame = f
               /\ new.chain # <<>>
               /\ PoState(new) = p
               /\ ChainReal(o) /\ p \subseteq Pre(PoState(o)) => ChainReal(new)
<1> DEFINE chain == <<p>> \o o.chain
<1>0. o.chain \in Seq(Cube) /\ Len(o.chain) \in Nat /\ Len(o.chain) > 0
  BY DEF ProofObligations
<1>1. /\ chain \in Seq(Cube)
      /\ Len(chain) = Len(o.chain) + 1
      /\ chain[1] = p
      /\ \A i \in 1..Len(o.chain) : chain[i + 1] = o.chain[i]
      /\ chain # <<>>
  BY <1>0
<1>2. Head(chain) = p /\ Head(o.chain) = o.chain[1]
  BY <1>0, <1>1
<1>3. ASSUME ChainReal(o), p \subseteq Pre(PoState(o)), NEW i \in 1..Len(chain) - 1
      PROVE  chain[i] \subseteq Pre(chain[i + 1])
  <2>1. CASE i = 1
    BY <1>0, <1>1, <1>2, <1>3, <2>1 DEF PoState
  <2>2. CASE i # 1
    <3>1. i - 1 \in 1..Len(o.chain) - 1 /\ i - 1 \in 1..Len(o.chain) /\ i \in 1..Len(o.chain)
      BY <1>0, <1>1, <2>2
    <3>2. chain[i] = o.chain[i - 1] /\ chain[i + 1] = o.chain[i]
      <4>1. chain[(i - 1) + 1] = o.chain[i - 1]
        BY <1>1, <3>1
      <4> QED
        BY <1>1, <3>1, <4>1
    <3>3. o.chain[i - 1] \subseteq Pre(o.chain[(i - 1) + 1])
      BY <1>3, <3>1 DEF ChainReal
    <3> QED
      BY <3>1, <3>2, <3>3
  <2> QED
    BY <2>1, <2>2
<1>4. chain[Len(chain)] = o.chain[Len(o.chain)]
  BY <1>0, <1>1
<1> QED
  BY <1>1, <1>2, <1>3, <1>4 DEF ChainReal, Po, PoState, ProofObligations

\* What the outcomes of block may use of the obligation it popped.
LEMMA PoppedObligation ==
    ASSUME TypeOK, Shape, Obligations, NEW o \in Poppable, Popped(o)
    PROVE  /\ o \in obl /\ o \in ProofObligations /\ o.chain # <<>>
           /\ o.frame \in 1..level
           /\ ChainReal(o)
           /\ PoState(o) \cap Frame(o.frame - 1) = {}
<1>1. o \in obl /\ o.frame <= level
  BY DEF Poppable, Peak
<1>2. o \in ProofObligations /\ o.chain # <<>> /\ o.frame \in Nat
  BY <1>1, ObligationType DEF TypeOK, Shape, ProofObligations
<1>3. ChainReal(o) /\ Placed(o)
  BY <1>1 DEF Obligations
<1>4. o.frame # 0
  BY <1>3 DEF Popped, Placed
<1>5. level \in Nat
  BY BoundAssumption DEF TypeOK, Levels
<1> QED
  BY <1>1, <1>2, <1>3, <1>4, <1>5 DEF Placed

(***************************************************************************)
(* Types and shape.                                                         *)
(***************************************************************************)

\* An add_lemma step keeps the types of the frames.
LEMMA AddTypes ==
    ASSUME TypeOK, NEW f \in 1..level, NEW c \in Cube, NEW r \in Added(f, c),
           AddClause(f, c), frames' = r.frames
    PROVE  /\ frames' \in [Levels -> SUBSET Cube]
           /\ slv' \in [Levels -> SUBSET Cube]
           /\ early' \in 1..MaxLevel + 1
           /\ slv'[0] = slv[0] /\ frames'[0] = frames[0]
           /\ \A k \in level + 1..MaxLevel : frames'[k] = frames[k]
<1>0. /\ level \in Nat /\ level <= MaxLevel /\ f \in Nat /\ f > 0 /\ f <= level
      /\ MaxLevel \in Nat /\ 0 \in Levels /\ level + 1..MaxLevel \subseteq Levels
  BY BoundAssumption DEF TypeOK, Levels
<1>1. StopOr0(f, c) \in 0..f
  BY <1>0, StopsAtSubsuming
<1>2. frames' \in [Levels -> SUBSET Cube]
  BY LemmasMoved
<1>3. slv' \in [Levels -> SUBSET Cube]
  BY DEF AddClause, TypeOK
<1>4. early' \in 1..MaxLevel + 1
  BY <1>0, <1>1 DEF AddClause, TypeOK
<1>5. slv'[0] = slv[0] /\ frames'[0] = frames[0]
  BY <1>0, <1>1, LemmasMoved DEF AddClause
<1>6. \A k \in level + 1..MaxLevel : frames'[k] = frames[k]
  <2>1. \A k \in level + 1..MaxLevel : k \in Levels /\ k > f
    BY <1>0
  <2> QED
    BY <2>1, LemmasMoved
<1> QED
  BY <1>2, <1>3, <1>4, <1>5, <1>6

\* The facts about the ranges of the cursors that the steps below start from.
LEMMA Ranges ==
    ASSUME TypeOK, Shape
    PROVE  /\ MaxLevel \in Nat /\ Levels \subseteq Nat /\ 0 \in Levels
           /\ level \in Nat /\ level <= MaxLevel /\ idx \in Nat
           /\ \A k \in Nat : k <= level => k \in Levels
           /\ pc \in {"mic", "ctg", "push"} => cur.frame \in Nat /\ cur.frame > 0 /\ cur.frame <= level
           /\ pc = "ctg" => idx > 0 /\ idx <= level
           /\ pc = "push" => idx > 0 /\ idx <= level /\ cur.frame <= idx
           /\ pc = "prop" => idx > 0 /\ idx < level
  BY BoundAssumption DEF TypeOK, Shape, Levels, Generalizing

\* Putting an obligation back, or a new one in, keeps the queue's type.
LEMMA AddTypesObligation ==
    ASSUME TypeOK, Shape, NEW q \in SUBSET obl, NEW o \in ProofObligations, o.chain # <<>>,
           o.frame <= level + 1, AddObligation(q, o)
    PROVE  /\ obl' \subseteq ProofObligations
           /\ clash' \in BOOLEAN
           /\ \A p \in obl' : p.chain # <<>> /\ p.frame <= level + 1
  BY DEF TypeOK, Shape, AddObligation, ProofObligations

\* Every step of block keeps the types and the shape.
LEMMA BlockTypes ==
    ASSUME TypeOK, Shape, Obligations, NEW o \in Poppable,
           \/ BlockContained(o) \/ BlockContainedInf(o) \/ BlockDrop(o)
           \/ BlockPred(o) \/ BlockGeneralize(o)
    PROVE  TypeOK' /\ Shape'
<1> USE DEF lemmaVars, micVars, propVars, ProofObligations
<1>0. /\ MaxLevel \in Nat /\ level \in Nat /\ level <= MaxLevel
      /\ o \in obl /\ o \in ProofObligations /\ o.chain # <<>>
      /\ o.frame \in Nat /\ o.frame > 0 /\ o.frame <= level
      /\ pc = "block"
  <2>1. Popped(o)
    BY DEF BlockContained, BlockContainedInf, BlockDrop, BlockPred, BlockGeneralize
  <2> QED
    BY <2>1, PoppedObligation, Ranges DEF Popped
<1>1. CASE BlockContained(o)
  <2>1. PICK bf \in o.frame..level : AddObligation(obl \ {o}, PushTo(o, bf + 1))
    BY <1>1 DEF BlockContained, ContainedAt
  <2>2. bf \in Nat /\ bf + 1 <= MaxLevel + 1 /\ bf + 1 <= level + 1
    BY <1>0, <2>1
  <2>3. /\ PushTo(o, bf + 1) \in ProofObligations
        /\ PushTo(o, bf + 1).chain # <<>>
        /\ PushTo(o, bf + 1).frame <= level + 1
    <3> HIDE DEF ProofObligations
    <3>0. o \in ProofObligations /\ bf + 1 \in Nat /\ bf + 1 <= MaxLevel + 1
      BY <1>0, <2>2
    <3>1. /\ PushTo(o, bf + 1) \in ProofObligations
          /\ PushTo(o, bf + 1).chain = o.chain
          /\ PushTo(o, bf + 1).frame = IF bf + 1 > o.frame THEN bf + 1 ELSE o.frame
      BY <3>0, PushToMoves
    <3> QED
      BY <1>0, <2>2, <3>1
  <2>4. /\ obl' \subseteq ProofObligations /\ clash' \in BOOLEAN
        /\ \A p \in obl' : p.chain # <<>> /\ p.frame <= level + 1
    <3>1. obl \ {o} \in SUBSET obl
      OBVIOUS
    <3> QED
      BY <2>1, <2>3, <3>1, AddTypesObligation
  <2> QED
    BY <1>1, <2>4 DEF BlockContained, TypeOK, Shape, Generalizing, PoState
<1>2. CASE BlockContainedInf(o)
  BY <1>2 DEF BlockContainedInf, TypeOK, Shape, Generalizing, PoState
<1>3. CASE BlockDrop(o)
  BY <1>3 DEF BlockDrop, TypeOK, Shape, Generalizing, PoState
<1>4. CASE BlockPred(o)
  <2>1. PICK p \in Cube : /\ obl' = obl \cup {Po(o.frame - 1, <<p>> \o o.chain)}
                          /\ clash' = (clash \/ \E q \in obl :
                                          SameKey(q, Po(o.frame - 1, <<p>> \o o.chain)))
    BY <1>4 DEF BlockPred, Pred
  <2>2. o.frame - 1 \in 0..MaxLevel + 1 /\ o.frame - 1 <= level + 1
    BY <1>0
  <2>3. LET new == Po(o.frame - 1, <<p>> \o o.chain)
        IN  new \in ProofObligations /\ new.chain # <<>> /\ new.frame = o.frame - 1
    BY <1>0, <2>2, ChainExtended
  <2>4. /\ obl' \subseteq ProofObligations /\ clash' \in BOOLEAN
        /\ \A q \in obl' : q.chain # <<>> /\ q.frame <= level + 1
    BY <2>1, <2>2, <2>3 DEF TypeOK, Shape
  <2> QED
    BY <1>4, <2>4 DEF BlockPred, TypeOK, Shape, Generalizing, PoState
<1>5. CASE BlockGeneralize(o)
  <2>1. gen' \in Cube /\ PoState(o) \subseteq gen'
    BY <1>5 DEF BlockGeneralize, Core, IsCore
  <2>2. cur' = o /\ pc' = "mic" /\ PoState(cur)' = PoState(o)
    BY <1>5 DEF BlockGeneralize, PoState
  <2>3. TypeOK'
    BY <1>0, <1>5, <2>1, <2>2 DEF BlockGeneralize, TypeOK
  <2>4. Shape'
    BY <1>0, <1>5, <2>1, <2>2 DEF BlockGeneralize, Shape, Generalizing
  <2> QED
    BY <2>3, <2>4
<1> QED
  BY <1>1, <1>2, <1>3, <1>4, <1>5

\* Every step of mic and of push_lemma keeps the types and the shape.
LEMMA MicTypes ==
    ASSUME TypeOK, Shape, MicStep
    PROVE  TypeOK' /\ Shape'
<1> USE DEF lemmaVars, micVars, propVars, ProofObligations
<1>0. /\ MaxLevel \in Nat /\ level \in Nat /\ level <= MaxLevel /\ idx \in Nat
      /\ \A k \in Nat : k <= level => k \in Levels
  BY Ranges
<1>1. CASE MicDrop
  <2>1. gen' \in Cube /\ gen \subseteq gen' /\ pc = "mic" /\ PoState(cur)' = PoState(cur)
    BY <1>1 DEF MicDrop, IsCore, PoState
  <2> QED
    BY <1>1, <2>1 DEF MicDrop, TypeOK, Shape, Generalizing
<1>2. CASE CtgBlock
  <2>1. PICK f \in 1..cur.frame - 1, g \in Cube : ctg' = g /\ idx' = f
    BY <1>2 DEF CtgBlock
  <2>2. pc = "mic" /\ cur.frame \in Nat /\ cur.frame <= level
    BY <1>2, Ranges DEF CtgBlock
  <2>3. idx' \in 1..level /\ idx' \in Levels /\ ctg' \in Cube
    BY <1>0, <2>1, <2>2
  <2>4. TypeOK'
    BY <1>2, <2>3 DEF CtgBlock, TypeOK
  <2>5. Shape'
    BY <1>2, <2>3 DEF CtgBlock, Shape, Generalizing, PoState
  <2> QED
    BY <2>4, <2>5
<1>3. CASE CtgPush
  <2>1. ctg' \in Cube /\ idx < level /\ pc = "ctg"
    BY <1>3 DEF CtgPush, Core, Pushable
  <2>2. idx' \in 1..level /\ idx' \in Levels
    BY <1>0, <1>3, <2>1 DEF CtgPush
  <2> QED
    BY <1>3, <2>1, <2>2 DEF CtgPush, TypeOK, Shape, Generalizing, PoState
<1>4. CASE CtgAdd
  <2>1. PICK r \in Added(idx, ctg) : frames' = r.frames
    BY <1>4 DEF CtgAdd
  <2>2. idx \in 1..level /\ ctg \in Cube /\ AddClause(idx, ctg) /\ pc = "ctg"
    BY <1>4 DEF CtgAdd, Shape
  <2>3. /\ frames' \in [Levels -> SUBSET Cube] /\ slv' \in [Levels -> SUBSET Cube]
        /\ early' \in 1..MaxLevel + 1 /\ slv'[0] = slv[0] /\ frames'[0] = frames[0]
        /\ \A k \in level + 1..MaxLevel : frames'[k] = frames[k]
    BY <2>1, <2>2, AddTypes
  <2>4. 0 \in Levels
    BY Ranges
  <2>5. TypeOK'
    BY <1>4, <2>3, <2>4 DEF CtgAdd, TypeOK
  <2>6. Shape'
    BY <1>4, <2>2, <2>3 DEF CtgAdd, Shape, Generalizing, PoState
  <2> QED
    BY <2>5, <2>6
<1>5. CASE MicDone
  <2>1. pc = "mic" /\ cur.frame \in Nat /\ cur.frame > 0 /\ cur.frame <= level
    BY <1>5, Ranges DEF MicDone
  <2>2. cur.frame \in Levels /\ cur.frame \in cur.frame..level
    BY <1>0, <2>1
  <2> QED
    BY <1>5, <2>1, <2>2 DEF MicDone, TypeOK, Shape, Generalizing, PoState
<1>6. CASE PushLemma
  <2>1. gen' \in Cube /\ gen \subseteq gen' /\ idx < level /\ pc = "push"
    BY <1>6 DEF PushLemma, Core, IsCore, Pushable
  <2>2. cur.frame \in Nat /\ cur.frame <= idx
    BY <2>1, Ranges
  <2>3. idx' \in cur.frame..level /\ idx' \in Levels
    BY <1>0, <1>6, <2>1, <2>2 DEF PushLemma
  <2>4. TypeOK'
    BY <1>6, <2>1, <2>3 DEF PushLemma, TypeOK
  <2>5. Shape'
    BY <1>6, <2>1, <2>3 DEF PushLemma, Shape, Generalizing, PoState
  <2> QED
    BY <2>4, <2>5
<1>7. CASE BlockedLemma
  <2>1. PICK r \in Added(idx, gen) : /\ frames' = r.frames
                                     /\ IF r.found THEN Finish(Unsat)
                                                   ELSE pc' = "block" /\ UNCHANGED res
    BY <1>7 DEF BlockedLemma
  <2>2. pc = "push" /\ AddClause(idx, gen) /\ AddObligation(obl, PushTo(cur, idx + 1))
    BY <1>7 DEF BlockedLemma
  <2>3. idx \in 1..level /\ gen \in Cube /\ cur.chain # <<>> /\ cur.frame <= level
    BY <1>0, <2>2, Ranges DEF Shape, Generalizing
  <2>4. /\ frames' \in [Levels -> SUBSET Cube] /\ slv' \in [Levels -> SUBSET Cube]
        /\ early' \in 1..MaxLevel + 1 /\ slv'[0] = slv[0] /\ frames'[0] = frames[0]
        /\ \A k \in level + 1..MaxLevel : frames'[k] = frames[k]
    BY <2>1, <2>2, <2>3, AddTypes
  <2>5. /\ cur \in ProofObligations /\ cur.frame \in Nat
        /\ idx + 1 \in Nat /\ idx + 1 <= MaxLevel + 1 /\ idx + 1 <= level + 1
    BY <1>0, <2>2, <2>3, Ranges DEF TypeOK
  <2>6. /\ PushTo(cur, idx + 1) \in ProofObligations
        /\ PushTo(cur, idx + 1).chain # <<>>
        /\ PushTo(cur, idx + 1).frame <= level + 1
    BY <1>0, <2>3, <2>5, PushToMoves
  <2>7. /\ obl' \subseteq ProofObligations /\ clash' \in BOOLEAN
        /\ \A p \in obl' : p.chain # <<>> /\ p.frame <= level + 1
    BY <2>2, <2>6, AddTypesObligation
  <2>8. /\ pc' \in {"block", "done"}
        /\ res' \in {Unsat, res}
        /\ pc' # "done" => res' = res
    BY <2>1 DEF Finish
  <2>9. /\ NoPo \in ProofObligations
        /\ Unsat \in [kind : {"none", "UNSAT", "SAT", "Unknown"}, depth : Nat]
        /\ 0 \in Levels
    BY <1>0, Ranges DEF NoPo, Unsat
  <2>10. TypeOK'
    BY <1>7, <2>4, <2>7, <2>8, <2>9 DEF BlockedLemma, TypeOK
  <2>11. Shape'
    BY <1>7, <2>2, <2>4, <2>7, <2>8 DEF BlockedLemma, Shape, Generalizing
  <2> QED
    BY <2>10, <2>11
<1> QED
  BY <1>1, <1>2, <1>3, <1>4, <1>5, <1>6, <1>7 DEF MicStep

\* Every step of propagate and propagate_to_inf keeps the types and the shape.
LEMMA PropagateTypes ==
    ASSUME TypeOK, Shape, PropagateStep
    PROVE  TypeOK' /\ Shape'
<1> USE DEF lemmaVars, micVars, propVars, ProofObligations
<1>0. /\ MaxLevel \in Nat /\ Levels \subseteq Nat /\ level \in Nat /\ level <= MaxLevel /\ idx \in Nat
      /\ level \in Levels
      /\ pc = "prop" => idx + 1 \in Nat /\ idx + 1 \in 1..level /\ idx \in 1..level /\ idx \in Levels
  BY Ranges
<1>1. CASE PropSkip
  BY <1>1 DEF PropSkip, NextLemma, TypeOK, Shape, Generalizing, PoState
<1>2. ASSUME NEW l \in todo, PropPush(l)
      PROVE  TypeOK' /\ Shape'
  <2>1. PICK c \in Core(Frame(idx), l) : AddUncontained(c)
    BY <1>2 DEF PropPush
  <2>2. pc = "prop" /\ c \in Cube
    BY <1>2, <2>1 DEF PropPush, InHand, Core
  <2>3. /\ frames' \in [Levels -> SUBSET Cube] /\ slv' \in [Levels -> SUBSET Cube]
        /\ early' \in 1..MaxLevel + 1 /\ slv'[0] = slv[0] /\ frames'[0] = frames[0]
        /\ \A k \in level + 1..MaxLevel : frames'[k] = frames[k]
    <3>1. CASE TrivialContained(idx + 1, c)
      BY <2>1, <3>1 DEF AddUncontained, TypeOK
    <3>2. CASE ~TrivialContained(idx + 1, c)
      <4>1. PICK r \in Added(idx + 1, c) : frames' = r.frames /\ AddClause(idx + 1, c)
        BY <2>1, <3>2 DEF AddUncontained
      <4> QED
        BY <1>0, <2>2, <4>1, AddTypes
    <3> QED
      BY <3>1, <3>2
  <2>4. /\ obl' \subseteq ProofObligations /\ clash' \in BOOLEAN
        /\ \A p \in obl' : p.chain # <<>> /\ p.frame <= level + 1
    <3>1. CASE UNCHANGED <<obl, clash>>
      BY <3>1 DEF TypeOK, Shape
    <3>2. CASE ~UNCHANGED <<obl, clash>>
      <4>1. PICK o \in obl : AddObligation(obl \ {o}, PushTo(o, idx + 2))
        BY <1>2, <3>2 DEF PropPush, MovePo, PoOf
      <4>2. o \in ProofObligations /\ o.chain # <<>> /\ o.frame <= level + 1 /\ o.frame \in Nat
        BY <1>0 DEF TypeOK, Shape
      <4>3. idx + 2 \in Nat /\ idx + 2 <= MaxLevel + 1 /\ idx + 2 <= level + 1
        BY <1>0, <2>2
      <4>4. /\ PushTo(o, idx + 2) \in ProofObligations
            /\ PushTo(o, idx + 2).chain # <<>>
            /\ PushTo(o, idx + 2).frame <= level + 1
        BY <1>0, <4>2, <4>3, PushToMoves
      <4> QED
        BY <4>1, <4>4, AddTypesObligation
    <3> QED
      BY <3>1, <3>2
  <2>5. todo' \subseteq Cube /\ tries' \in Nat /\ gen' = {}
    BY <1>2 DEF PropPush, NextLemma, TypeOK
  <2> QED
    BY <1>2, <2>2, <2>3, <2>4, <2>5 DEF PropPush, TypeOK, Shape, Generalizing, PoState
<1>3. ASSUME NEW l \in todo, PropCtp(l)
      PROVE  TypeOK' /\ Shape'
  <2>1. PICK g \in Cube : /\ AddClause(idx, g)
                          /\ \E r \in Added(idx, g) :
                                /\ frames' = r.frames
                                /\ IF r.found THEN Finish(Unsat) ELSE UNCHANGED <<pc, res>>
    BY <1>3 DEF PropCtp
  <2>2. pc = "prop" /\ l \in Cube
    BY <1>3 DEF PropCtp, InHand, TypeOK
  <2>3. PICK r \in Added(idx, g) : /\ frames' = r.frames
                                   /\ IF r.found THEN Finish(Unsat) ELSE UNCHANGED <<pc, res>>
    BY <2>1
  <2>4. /\ frames' \in [Levels -> SUBSET Cube] /\ slv' \in [Levels -> SUBSET Cube]
        /\ early' \in 1..MaxLevel + 1 /\ slv'[0] = slv[0] /\ frames'[0] = frames[0]
        /\ \A k \in level + 1..MaxLevel : frames'[k] = frames[k]
    BY <1>0, <2>1, <2>2, <2>3, AddTypes
  <2>5. todo' \subseteq Cube /\ tries' \in Nat /\ gen' \in Cube \cup {{}}
    BY <1>3, <2>2 DEF PropCtp, NextLemma, TypeOK
  <2>6. pc' \in {"prop", "done"} /\ res' \in {Unsat, res} /\ (pc' # "done" => res' = res)
    BY <2>2, <2>3 DEF Finish
  <2>7. Unsat \in [kind : {"none", "UNSAT", "SAT", "Unknown"}, depth : Nat]
    BY DEF Unsat
  <2>8. TypeOK'
    BY <1>3, <2>4, <2>5, <2>6, <2>7 DEF PropCtp, TypeOK
  <2>9. Shape'
    BY <1>3, <2>2, <2>4, <2>6 DEF PropCtp, Shape, Generalizing
  <2> QED
    BY <2>8, <2>9
<1>4. ASSUME NEW l \in todo, PropKeep(l)
      PROVE  TypeOK' /\ Shape'
  BY <1>4 DEF PropKeep, InHand, NextLemma, TypeOK, Shape, Generalizing, PoState
<1>5. CASE PropNext
  <2>1. pc = "prop"
    BY <1>5 DEF PropNext
  <2>2. CASE frames[idx] = {}
    <3>1. Unsat \in [kind : {"none", "UNSAT", "SAT", "Unknown"}, depth : Nat]
      BY DEF Unsat
    <3> QED
      BY <1>5, <2>1, <2>2, <3>1 DEF PropNext, Finish, TypeOK, Shape, Generalizing
  <2>3. CASE frames[idx] # {} /\ idx + 1 < level
    <3>1. /\ pc' = "prop" /\ idx' = idx + 1 /\ todo' = frames[idx + 1] /\ early' = early
          /\ res' = res
      BY <1>5, <2>3 DEF PropNext, EnterFrame
    <3>2. idx' \in 1..level - 1 /\ idx' \in Levels
      BY <1>0, <2>1, <2>3, <3>1 DEF Levels
    <3>3. todo' \subseteq Cube
      BY <1>0, <3>1, <3>2 DEF TypeOK
    <3> QED
      BY <1>5, <2>1, <3>1, <3>2, <3>3 DEF PropNext, TypeOK, Shape, Generalizing
  <2>4. CASE frames[idx] # {} /\ ~(idx + 1 < level)
    <3>1. /\ pc' = "inf" /\ idx' = 0 /\ todo' = frames[level] /\ early' = level /\ res' = res
      BY <1>5, <2>4 DEF PropNext, EnterFrame
    <3>2. level \in 1..MaxLevel + 1 /\ level > 0 /\ todo' \subseteq Cube /\ 0 \in Levels
      BY <1>0, <2>1, <3>1, Ranges DEF TypeOK
    <3> QED
      BY <1>5, <2>1, <3>1, <3>2 DEF PropNext, TypeOK, Shape, Generalizing
  <2> QED
    BY <2>2, <2>3, <2>4
<1>6. CASE InfMove
  <2>1. PICK l \in todo : /\ obl' \subseteq obl
                          /\ inf' = inf \cup {l}
                          /\ frames' = [frames EXCEPT ![level] = @ \ {l}]
                          /\ todo' = todo \ {l}
    BY <1>6 DEF InfMove
  <2>2. pc = "inf" /\ l \in Cube /\ todo \subseteq frames[level]
    BY <1>6 DEF InfMove, TypeOK, Shape
  <2>3. /\ frames' \in [Levels -> SUBSET Cube]
        /\ todo' \subseteq frames'[level]
        /\ frames'[0] = frames[0]
        /\ \A k \in level + 1..MaxLevel : frames'[k] = frames[k]
    <3>1. level # 0 /\ 0 \in Levels
      BY <1>0, <2>2, Ranges DEF Shape
    <3> QED
      BY <1>0, <2>1, <2>2, <3>1 DEF TypeOK, Levels
  <2>4. TypeOK'
    BY <1>6, <2>1, <2>2, <2>3 DEF InfMove, TypeOK
  <2>5. Shape'
    BY <1>6, <2>1, <2>2, <2>3 DEF InfMove, Shape, Generalizing
  <2> QED
    BY <2>4, <2>5
<1>7. CASE InfKeep
  BY <1>7 DEF InfKeep, TypeOK, Shape, Generalizing, PoState
<1>8. CASE InfDone
  BY <1>8 DEF InfDone, TypeOK, Shape, Generalizing, PoState
<1> QED
  BY <1>1, <1>2, <1>3, <1>4, <1>5, <1>6, <1>7, <1>8 DEF PropagateStep

\* Every step keeps the types and the shape.
LEMMA TypeStep ==
    ASSUME TypeOK, Shape, Obligations, [Next]_vars
    PROVE  TypeOK' /\ Shape'
<1> USE DEF lemmaVars, micVars, propVars, ProofObligations
<1>0. /\ MaxLevel \in Nat /\ Levels \subseteq Nat /\ level \in Nat /\ level <= MaxLevel
      /\ level \in Levels /\ 0 \in Levels
  BY Ranges
<1>1. CASE BlockInterrupted
  <2>1. obl' \subseteq obl /\ res' = [kind |-> "Unknown", depth |-> level] /\ pc' = "done"
    BY <1>1 DEF BlockInterrupted, Finish
  <2> QED
    BY <1>0, <1>1, <2>1 DEF BlockInterrupted, TypeOK, Shape, Generalizing
<1>2. CASE BlockFailure
  <2>1. PICK o \in Poppable : /\ AddObligation(obl \ {o}, o)
                              /\ Finish([kind |-> "SAT", depth |-> Depth(o)])
    BY <1>2 DEF BlockFailure
  <2>2. o \in obl /\ o \in ProofObligations /\ o.chain # <<>>
    BY <2>1 DEF Poppable, Peak, TypeOK, Shape
  <2>3. Depth(o) \in Nat
    BY <2>2, ObligationType
  <2>4. obl' = obl /\ clash' \in BOOLEAN
    BY <2>1, <2>2 DEF AddObligation, TypeOK
  <2>5. res' = [kind |-> "SAT", depth |-> Depth(o)] /\ pc' = "done"
    BY <2>1 DEF Finish
  <2> QED
    BY <1>2, <2>3, <2>4, <2>5 DEF BlockFailure, TypeOK, Shape, Generalizing
<1>3. ASSUME NEW o \in Poppable,
             \/ BlockContained(o) \/ BlockContainedInf(o) \/ BlockDrop(o)
             \/ BlockPred(o) \/ BlockGeneralize(o)
      PROVE  TypeOK' /\ Shape'
  BY <1>3, BlockTypes
<1>4. CASE MicStep
  BY <1>4, MicTypes
<1>5. CASE GetBad
  <2>1. PICK b \in Cube : AddObligation(obl, Po(level, <<b>>))
    BY <1>5 DEF GetBad
  <2>2. Po(level, <<b>>) \in ProofObligations /\ Po(level, <<b>>).frame = level
    BY <1>0 DEF Po
  <2>3. Po(level, <<b>>).chain # <<>>
    BY DEF Po
  <2>4. /\ obl' \subseteq ProofObligations /\ clash' \in BOOLEAN
        /\ \A p \in obl' : p.chain # <<>> /\ p.frame <= level + 1
    BY <1>0, <2>1, <2>2, <2>3, AddTypesObligation
  <2> QED
    BY <1>5, <2>4 DEF GetBad, TypeOK, Shape, Generalizing, PoState
<1>6. CASE Extend
  <2>1. /\ level' = level + 1 /\ level + 1 \in Levels /\ pc = "block" /\ cur = NoPo
        /\ slv' = [slv EXCEPT ![level + 1] = inf]
        /\ frames' = frames /\ obl' = obl /\ EnterFrame(early, level + 1)
    BY <1>0, <1>6 DEF Extend, Shape, Generalizing, Levels
  <2>2. /\ slv' \in [Levels -> SUBSET Cube] /\ slv'[0] = slv[0]
        /\ \A k \in level' + 1..MaxLevel : frames'[k] = {}
        /\ \A p \in obl' : p.chain # <<>> /\ p.frame <= level' + 1
    <3>1. level' + 1..MaxLevel \subseteq level + 1..MaxLevel
      BY <1>0, <2>1
    <3>2. \A p \in obl : p.frame \in Nat /\ p.frame <= level + 1
      BY <1>0 DEF TypeOK
    <3> QED
      BY <1>0, <2>1, <3>1, <3>2 DEF TypeOK, Shape
  <2>3. CASE early < level + 1
    <3>1. pc' = "prop" /\ idx' = early /\ todo' = frames[early] /\ early' = early
      BY <2>1, <2>3 DEF EnterFrame
    <3>2. early \in 1..level' - 1 /\ early \in Levels /\ todo' \subseteq Cube
      BY <1>0, <2>1, <2>3, <3>1 DEF TypeOK, Levels
    <3> QED
      BY <1>6, <2>1, <2>2, <3>1, <3>2 DEF Extend, TypeOK, Shape, Generalizing
  <2>4. CASE ~(early < level + 1)
    <3>1. pc' = "inf" /\ idx' = 0 /\ todo' = frames[level + 1] /\ early' = level + 1
      BY <2>1, <2>4 DEF EnterFrame
    <3>2. early' \in 1..MaxLevel + 1 /\ todo' \subseteq Cube /\ level' > 0
      BY <1>0, <2>1, <3>1 DEF TypeOK, Levels
    <3> QED
      BY <1>0, <1>6, <2>1, <2>2, <3>1, <3>2 DEF Extend, TypeOK, Shape, Generalizing
  <2> QED
    BY <2>3, <2>4
<1>7. CASE PropagateStep
  BY <1>7, PropagateTypes
<1>8. CASE UNCHANGED vars
  BY <1>8 DEF vars, TypeOK, Shape, Generalizing, PoState
<1> QED
  BY <1>1, <1>2, <1>3, <1>4, <1>5, <1>6, <1>7, <1>8 DEF Next, Work, BlockStep, Returned

(***************************************************************************)
(* Frames.                                                                  *)
(***************************************************************************)

\* Without a lemma in hand no step is excepted.
LEMMA StepsWhole ==
    ASSUME TypeOK, Shape, Steps, ~Generalizing
    PROVE  \A k \in 0..level - 1 : \A s \in Frame(k) : Trans[s] \subseteq Frame(k + 1)
  BY Ranges DEF Shape, Steps, NoPo

\* A step that touches neither the frames nor the lemma in hand keeps what is known of them.
LEMMA FramesUntouched ==
    ASSUME TypeOK, FramesAgree, Nested, BadFree,
           UNCHANGED <<level, frames, slv, inf>>
    PROVE  /\ FramesAgree' /\ Nested' /\ BadFree'
           /\ \A k : Frame(k)' = Frame(k)
<1>1. \A k : Frame(k)' = Frame(k)
  BY DEF Frame
<1>2. InfFrame' = InfFrame
  BY DEF InfFrame
<1>3. \A k : LemmasFrom(k)' = LemmasFrom(k)
  BY DEF LemmasFrom
<1> QED
  BY <1>1, <1>2, <1>3 DEF FramesAgree, Nested, BadFree, InitStates

\* The frames stay sound when a new level is opened.
LEMMA ExtendFrames ==
    ASSUME TypeOK, Shape, FramesAgree, Nested, Steps, BadFree, Extend
    PROVE  FramesAgree' /\ Nested' /\ Steps' /\ BadFree'
<1> PICK n \in Nat : n = level + 1
  BY Ranges
<1>0. /\ MaxLevel \in Nat /\ level \in Nat /\ n \in Levels /\ n > 0 /\ n - 1 = level
      /\ level' = n /\ frames' = frames /\ inf' = inf
      /\ slv' = [slv EXCEPT ![n] = inf]
      /\ cur' = NoPo
      /\ ~Generalizing
      /\ frames[n] = {}
      /\ slv \in [Levels -> SUBSET Cube]
      /\ 0..level \subseteq Levels
  BY Ranges DEF Extend, TypeOK, Shape, Generalizing, Levels
<1>1. /\ \A k \in 0..level : Frame(k)' = Frame(k)
      /\ Frame(n)' = InfFrame
      /\ InfFrame' = InfFrame
      /\ InitStates' = InitStates
  <2>1. \A k \in 0..level : slv'[k] = slv[k]
    BY <1>0
  <2>2. slv'[n] = inf
    BY <1>0
  <2> QED
    BY <1>0, <2>1, <2>2 DEF Frame, InfFrame, InitStates, Excluded
<1>2. FramesAgree'
  <2>1. \A k \in 1..level : LemmasFrom(k)' = LemmasFrom(k)
    <3>1. ASSUME NEW k \in 1..level PROVE LemmasFrom(k)' = LemmasFrom(k)
      <4>1. k..n = (k..level) \cup {n}
        BY <1>0
      <4>2. LemmasFrom(k)' = UNION {frames[i] : i \in k..n}
        BY <1>0 DEF LemmasFrom
      <4> QED
        BY <1>0, <4>1, <4>2 DEF LemmasFrom
    <3> QED
      BY <3>1
  <2>2. LemmasFrom(n)' = {}
    BY <1>0 DEF LemmasFrom
  <2>3. ASSUME NEW k \in 1..n
        PROVE  Excluded(slv'[k]) = Excluded(LemmasFrom(k)' \cup inf)
    <3>1. CASE k \in 1..level
      <4>1. slv'[k] = slv[k]
        BY <1>0, <3>1
      <4> QED
        BY <2>1, <3>1, <4>1 DEF FramesAgree
    <3>2. CASE k = n
      <4>1. slv'[k] = inf
        BY <1>0, <3>2
      <4> QED
        BY <2>2, <3>2, <4>1
    <3> QED
      BY <1>0, <3>1, <3>2
  <2> QED
    BY <1>0, <2>3 DEF FramesAgree, Excluded
<1>3. \A k \in 0..n : k \in 0..level \/ k = n
  BY <1>0
<1>4. \A k \in 0..level : Frame(k) \subseteq InfFrame /\ InitStates \subseteq Frame(k)
  BY DEF Nested
<1>5. Nested'
  <2>1. InitStates \subseteq InfFrame
    BY <1>0, <1>4
  <2>2. \A k \in 0..n : InitStates' \subseteq Frame(k)' /\ Frame(k)' \subseteq InfFrame'
    BY <1>1, <1>3, <1>4, <2>1
  <2>3. ASSUME NEW j \in 0..n, NEW k \in 0..n, j <= k
        PROVE  Frame(j)' \subseteq Frame(k)'
    <3>1. CASE k = n
      BY <1>1, <2>2, <3>1
    <3>2. CASE k # n
      <4>1. j \in 0..level /\ k \in 0..level
        BY <1>0, <2>3, <3>2
      <4> QED
        BY <1>1, <2>3, <4>1 DEF Nested
    <3> QED
      BY <3>1, <3>2
  <2>4. \A s \in InfFrame' : Trans[s] \subseteq InfFrame'
    BY <1>1 DEF Nested
  <2> QED
    BY <1>0, <2>2, <2>3, <2>4 DEF Nested
<1>6. Steps'
  <2>1. ASSUME NEW k \in 0..level, NEW s \in Frame(k)'
        PROVE  Trans[s] \subseteq Frame(k + 1)'
    <3>1. CASE k = level
      BY <1>1, <1>4, <2>1, <3>1 DEF Nested
    <3>2. CASE k # level
      <4>1. k \in 0..level - 1 /\ k + 1 \in 0..level
        BY <1>0, <3>2
      <4>2. Trans[s] \subseteq Frame(k + 1)
        BY <1>0, <1>1, <2>1, <4>1, StepsWhole
      <4> QED
        BY <1>1, <4>1, <4>2
    <3> QED
      BY <3>1, <3>2
  <2>2. level' - 1 = level
    BY <1>0
  <2> QED
    BY <2>1, <2>2 DEF Steps
<1>7. BadFree'
  <2>1. Frame(level) \cap Bad = {}
    BY DEF Extend
  <2>2. \A k \in 0..level : k \in 0..level - 1 \/ k = level
    BY <1>0
  <2>3. level' - 1 = level
    BY <1>0
  <2> QED
    BY <1>1, <2>1, <2>2, <2>3 DEF BadFree
<1> QED
  BY <1>2, <1>5, <1>6, <1>7

\* A step that touches neither the frames nor a lemma in hand.
LEMMA QuietFrames ==
    ASSUME TypeOK, Shape, FramesSound, UNCHANGED <<level, frames, slv, inf, cur>>,
           ~Generalizing, pc' \notin {"mic", "ctg", "push"}
    PROVE  FramesSound'
<1>1. FramesAgree' /\ Nested' /\ BadFree' /\ \A k : Frame(k)' = Frame(k)
  BY FramesUntouched DEF FramesSound
<1>2. Steps'
  BY <1>1, StepsWhole DEF FramesSound, Steps
<1>3. LemmaInHand'
  BY DEF LemmaInHand, Generalizing
<1> QED
  BY <1>1, <1>2, <1>3 DEF FramesSound

\* While a lemma is generalized its cube grows, and the steps it excepts with it.
LEMMA GrowingException ==
    ASSUME TypeOK, FramesSound, UNCHANGED <<level, frames, slv, inf, cur>>, gen \subseteq gen'
    PROVE  /\ FramesAgree' /\ Nested' /\ BadFree' /\ Steps'
           /\ \A k : Frame(k)' = Frame(k)
<1>1. FramesAgree' /\ Nested' /\ BadFree' /\ \A k : Frame(k)' = Frame(k)
  BY FramesUntouched DEF FramesSound
<1>2. Steps'
  BY <1>1 DEF FramesSound, Steps
<1> QED
  BY <1>1, <1>2

\* Generalizing a lemma and pushing it, up to the moment it is added.
LEMMA GeneralizeFrames ==
    ASSUME TypeOK, Shape, FramesSound,
           \/ \E o \in Poppable : BlockGeneralize(o)
           \/ MicDrop \/ CtgBlock \/ CtgPush \/ MicDone \/ PushLemma
    PROVE  FramesSound'
<1> USE DEF lemmaVars, micVars, propVars
<1>1. ASSUME NEW o \in Poppable, BlockGeneralize(o)
      PROVE  FramesSound'
  <2>1. /\ gen' \in Core(Frame(o.frame - 1), PoState(o)) /\ cur' = o /\ pc' = "mic"
        /\ UNCHANGED <<level, frames, slv, inf>> /\ pc = "block"
    BY <1>1 DEF BlockGeneralize, Popped
  <2>2. FramesAgree' /\ Nested' /\ BadFree' /\ \A k : Frame(k)' = Frame(k)
    BY <2>1, FramesUntouched DEF FramesSound
  <2>3. Steps'
    BY <2>1, <2>2, StepsWhole DEF FramesSound, Steps, Generalizing
  <2>4. ~MeetsInit(gen') /\ Blocked(Frame(o.frame - 1), gen')
    BY <2>1 DEF Core, IsCore
  <2>5. (Frame(cur.frame - 1) \ gen)' = Frame(o.frame - 1) \ gen'
    BY <2>1 DEF Frame
  <2>6. Blocked((Frame(cur.frame - 1) \ gen)', gen')
    BY <2>4, <2>5 DEF Blocked
  <2>7. LemmaInHand'
    BY <2>1, <2>4, <2>6 DEF LemmaInHand, Generalizing, MeetsInit, InitStates, Blocked
  <2> QED
    BY <2>2, <2>3, <2>7 DEF FramesSound
<1>2. CASE MicDrop
  <2>1. /\ gen' \in Cube /\ gen \subseteq gen' /\ ~MeetsInit(gen')
        /\ Blocked(Frame(cur.frame - 1) \ gen', gen')
        /\ UNCHANGED <<level, frames, slv, inf, cur>> /\ pc' = "mic"
    BY <1>2 DEF MicDrop, IsCore
  <2>2. FramesAgree' /\ Nested' /\ BadFree' /\ Steps' /\ \A k : Frame(k)' = Frame(k)
    BY <2>1, GrowingException
  <2>3. LemmaInHand'
    BY <2>1 DEF LemmaInHand, Generalizing, MeetsInit, InitStates, Blocked, Frame
  <2> QED
    BY <2>2, <2>3 DEF FramesSound
<1>3. CASE CtgBlock
  <2>1. PICK f \in 1..cur.frame - 1, g \in Cube :
          /\ ~MeetsInit(g) /\ Blocked(Frame(f - 1) \ (gen \cup g), g)
          /\ ctg' = g /\ idx' = f
    BY <1>3 DEF CtgBlock
  <2>2. UNCHANGED <<level, frames, slv, inf, cur, gen>> /\ pc = "mic" /\ pc' = "ctg"
    BY <1>3 DEF CtgBlock
  <2>3. FramesAgree' /\ Nested' /\ BadFree' /\ Steps' /\ \A k : Frame(k)' = Frame(k)
    BY <2>2, GrowingException
  <2>4. f <= cur.frame
    BY <2>1, <2>2, Ranges
  <2>5. Hole(idx)' = gen
    BY <2>1, <2>2, <2>4 DEF Hole
  <2>6. (Frame(idx - 1) \ (ctg \cup Hole(idx)))' = Frame(f - 1) \ (g \cup gen)
    BY <2>1, <2>2, <2>5 DEF Frame
  <2>7. Blocked((Frame(idx - 1) \ (ctg \cup Hole(idx)))', ctg')
    BY <2>1, <2>6 DEF Blocked
  <2>8. ~MeetsInit(gen) /\ Blocked(Frame(cur.frame - 1) \ gen, gen)
    BY <2>2 DEF FramesSound, LemmaInHand, Generalizing
  <2>9. LemmaInHand'
    <3>1. ~MeetsInit(gen)' /\ ~MeetsInit(ctg)'
      BY <2>1, <2>2, <2>8 DEF MeetsInit, InitStates
    <3>2. Blocked(Frame(idx - 1) \ (ctg \cup Hole(idx)), ctg)'
      BY <2>7 DEF Blocked
    <3>3. Blocked(Frame(cur.frame - 1) \ gen, gen)'
      BY <2>2, <2>8 DEF Blocked, Frame
    <3> QED
      BY <2>2, <3>1, <3>2, <3>3 DEF LemmaInHand
  <2> QED
    BY <2>3, <2>9 DEF FramesSound
<1>4. CASE CtgPush
  <2>1. /\ ctg' \in Core(Frame(idx) \ ctg, ctg) /\ idx' = idx + 1 /\ pc = "ctg" /\ pc' = "ctg"
        /\ UNCHANGED <<level, frames, slv, inf, cur, gen>>
    BY <1>4 DEF CtgPush, PushFrom
  <2>2. FramesAgree' /\ Nested' /\ BadFree' /\ Steps' /\ \A k : Frame(k)' = Frame(k)
    BY <2>1, GrowingException
  <2>3. ctg \subseteq ctg' /\ ~MeetsInit(ctg') /\ Blocked(Frame(idx) \ ctg, ctg')
    BY <2>1 DEF Core, IsCore
  <2>4. (Frame(idx - 1))' = Frame(idx)
    BY <2>1, Ranges DEF Frame
  <2>5. Blocked((Frame(idx - 1) \ (ctg \cup Hole(idx)))', ctg')
    BY <2>3, <2>4 DEF Blocked
  <2>6. ~MeetsInit(gen) /\ Blocked(Frame(cur.frame - 1) \ gen, gen)
    BY <2>1 DEF FramesSound, LemmaInHand, Generalizing
  <2>7. LemmaInHand'
    <3>1. ~MeetsInit(gen)' /\ ~MeetsInit(ctg)'
      BY <2>1, <2>3, <2>6 DEF MeetsInit, InitStates
    <3>2. Blocked(Frame(idx - 1) \ (ctg \cup Hole(idx)), ctg)'
      BY <2>5 DEF Blocked
    <3>3. Blocked(Frame(cur.frame - 1) \ gen, gen)'
      BY <2>1, <2>6 DEF Blocked, Frame
    <3> QED
      BY <2>1, <3>1, <3>2, <3>3 DEF LemmaInHand
  <2> QED
    BY <2>2, <2>7 DEF FramesSound
<1>5. CASE MicDone
  <2>1. /\ idx' = cur.frame /\ pc = "mic" /\ pc' = "push"
        /\ UNCHANGED <<level, frames, slv, inf, cur, gen>>
    BY <1>5 DEF MicDone
  <2>2. FramesAgree' /\ Nested' /\ BadFree' /\ Steps' /\ \A k : Frame(k)' = Frame(k)
    BY <2>1, GrowingException
  <2>3. ~MeetsInit(gen) /\ Blocked(Frame(cur.frame - 1) \ gen, gen)
    BY <2>1 DEF FramesSound, LemmaInHand, Generalizing
  <2>4. (Frame(idx - 1) \ gen)' = Frame(cur.frame - 1) \ gen
    BY <2>1 DEF Frame
  <2>5. LemmaInHand'
    BY <2>1, <2>3, <2>4 DEF LemmaInHand, Generalizing, MeetsInit, InitStates, Blocked
  <2> QED
    BY <2>2, <2>5 DEF FramesSound
<1>6. CASE PushLemma
  <2>1. /\ gen' \in Core(Frame(idx) \ gen, gen) /\ idx' = idx + 1 /\ pc = "push" /\ pc' = "push"
        /\ UNCHANGED <<level, frames, slv, inf, cur>>
    BY <1>6 DEF PushLemma, PushFrom
  <2>2. gen \subseteq gen' /\ ~MeetsInit(gen') /\ Blocked(Frame(idx) \ gen, gen')
    BY <2>1 DEF Core, IsCore
  <2>3. FramesAgree' /\ Nested' /\ BadFree' /\ Steps' /\ \A k : Frame(k)' = Frame(k)
    BY <2>1, <2>2, GrowingException
  <2>4. (Frame(idx - 1))' = Frame(idx)
    BY <2>1, Ranges DEF Frame
  <2>5. Blocked((Frame(idx - 1) \ gen)', gen')
    BY <2>2, <2>4 DEF Blocked
  <2>6. LemmaInHand'
    BY <2>1, <2>2, <2>5 DEF LemmaInHand, Generalizing, MeetsInit, InitStates, Blocked
  <2> QED
    BY <2>3, <2>6 DEF FramesSound
<1> QED
  BY <1>1, <1>2, <1>3, <1>4, <1>5, <1>6

\* Adding a lemma to the frames: the CTG lemma, the lemma in hand, a lemma pushed by
\* propagate and a CTP lemma.
LEMMA AddFrames ==
    ASSUME TypeOK, Shape, FramesSound,
           \/ CtgAdd \/ BlockedLemma
           \/ \E l \in todo : PropPush(l) \/ PropCtp(l)
    PROVE  FramesSound'
<1> USE DEF lemmaVars, micVars, propVars
<1>0. /\ level \in Nat /\ idx \in Nat
      /\ pc = "prop" => idx + 1 \in 1..level /\ idx \in 1..level /\ ~Generalizing
  BY Ranges DEF Generalizing
<1>1. CASE CtgAdd
  <2>1. PICK r \in Added(idx, ctg) : frames' = r.frames
    BY <1>1 DEF CtgAdd
  <2>2. /\ AddClause(idx, ctg) /\ pc = "ctg" /\ pc' = "mic"
        /\ level' = level /\ inf' = inf /\ cur' = cur /\ gen' = gen
    BY <1>1 DEF CtgAdd
  <2>3. idx \in 1..level /\ ctg \in Cube
    BY <2>2 DEF Shape
  <2>4. /\ ~MeetsInit(ctg) /\ ~MeetsInit(gen)
        /\ Blocked(Frame(idx - 1) \ (ctg \cup Hole(idx)), ctg)
        /\ Blocked(Frame(cur.frame - 1) \ gen, gen)
    BY <2>2 DEF FramesSound, LemmaInHand, Generalizing
  <2>5. FramesAgree'
    BY <2>1, <2>2, <2>3, AgreementKept DEF FramesSound
  <2>6. /\ Nested' /\ BadFree'
        /\ \A k \in 0..level - 1 : \A s \in Frame(k)' :
             Trans[s] \subseteq Frame(k + 1)' \/ (k < cur.frame /\ s \in gen)
    BY <2>2, <2>3, <2>4, LemmaAdded DEF FramesSound
  <2>7. Steps'
    BY <2>2, <2>6 DEF Steps
  <2>8. LemmaInHand'
    <3>1. \A k \in Levels : Frame(k)' \subseteq Frame(k)
      BY <2>2, <2>3, ClauseAdded DEF FramesSound
    <3>2. PICK n \in Levels : n = cur.frame - 1
      BY <2>2, Ranges DEF Levels
    <3>3. Frame(cur.frame - 1)' = Frame(n)'
      BY <2>2, <3>2
    <3>4. Blocked(Frame(cur.frame - 1) \ gen, gen)'
      BY <2>2, <2>4, <3>1, <3>2, <3>3 DEF Blocked
    <3>5. ~MeetsInit(gen)'
      BY <2>2, <2>4 DEF MeetsInit, InitStates
    <3> QED
      BY <2>2, <3>4, <3>5 DEF LemmaInHand
  <2> QED
    BY <2>5, <2>6, <2>7, <2>8 DEF FramesSound
<1>2. CASE BlockedLemma
  <2>1. PICK r \in Added(idx, gen) : frames' = r.frames /\ pc' \in {"block", "done"}
    BY <1>2 DEF BlockedLemma, Finish
  <2>2. /\ AddClause(idx, gen) /\ pc = "push" /\ cur' = NoPo
        /\ level' = level /\ inf' = inf
    BY <1>2 DEF BlockedLemma
  <2>3. idx \in 1..level /\ gen \in Cube /\ cur.frame <= idx
    BY <1>0, <2>2, Ranges DEF Shape, Generalizing
  <2>4. ~MeetsInit(gen) /\ Blocked(Frame(idx - 1) \ gen, gen)
    BY <2>2 DEF FramesSound, LemmaInHand, Generalizing
  <2>5. FramesAgree'
    BY <2>1, <2>2, <2>3, AgreementKept DEF FramesSound
  <2>6. Blocked(Frame(idx - 1) \ (gen \cup Hole(idx)), gen)
    BY <2>4 DEF Blocked
  <2>7. /\ Nested' /\ BadFree'
        /\ \A k \in 0..level - 1 : \A s \in Frame(k)' :
             Trans[s] \subseteq Frame(k + 1)' \/ (k < cur.frame /\ s \in gen)
    BY <2>2, <2>3, <2>4, <2>6, LemmaAdded DEF FramesSound
  <2>8. ASSUME NEW k \in 0..level - 1, NEW s \in Frame(k)', k < cur.frame
        PROVE  s \notin gen
    <3>1. k \in Levels /\ Frame(k)' = IF k \in 1..idx THEN Frame(k) \ gen ELSE Frame(k)
      BY <2>2, <2>3, ClauseAdded, Ranges DEF FramesSound
    <3>2. CASE k = 0
      <4>1. Frame(k) = InitStates
        BY <3>2 DEF Frame, InitStates, Shape
      <4> QED
        BY <2>4, <2>8, <3>1, <3>2, <4>1 DEF MeetsInit
    <3>3. CASE k # 0
      <4>1. k \in 1..idx
        BY <1>0, <2>2, <2>3, <2>8, <3>3, Ranges
      <4> QED
        BY <2>8, <3>1, <4>1
    <3> QED
      BY <3>2, <3>3
  <2>9. Steps'
    BY <2>2, <2>7, <2>8 DEF Steps
  <2>10. LemmaInHand'
    BY <2>1 DEF LemmaInHand, Generalizing
  <2> QED
    BY <2>5, <2>7, <2>9, <2>10 DEF FramesSound
<1>3. ASSUME pc = "prop", NEW f \in 1..level, NEW c \in Cube, NEW r \in Added(f, c),
             frames' = r.frames, AddClause(f, c), level' = level, inf' = inf, cur' = cur,
             pc' \in {"prop", "done"}, ~MeetsInit(c), Blocked(Frame(f - 1) \ c, c)
      PROVE  FramesSound'
  <2>1. FramesAgree'
    BY <1>3, AgreementKept DEF FramesSound
  <2>2. Blocked(Frame(f - 1) \ (c \cup Hole(f)), c)
    BY <1>3 DEF Blocked
  <2>3. /\ Nested' /\ BadFree'
        /\ \A k \in 0..level - 1 : \A s \in Frame(k)' :
             Trans[s] \subseteq Frame(k + 1)' \/ (k < cur.frame /\ s \in gen)
    BY <1>3, <2>2, LemmaAdded DEF FramesSound
  <2>4. cur = NoPo
    BY <1>3 DEF Shape, Generalizing
  <2>5. Steps'
    BY <1>3, <2>3, <2>4, Ranges DEF Steps, NoPo
  <2>6. LemmaInHand'
    BY <1>3 DEF LemmaInHand, Generalizing
  <2> QED
    BY <2>1, <2>3, <2>5, <2>6 DEF FramesSound
<1>4. ASSUME NEW l \in todo, PropPush(l)
      PROVE  FramesSound'
  <2>1. PICK c \in Core(Frame(idx), l) : AddUncontained(c)
    BY <1>4 DEF PropPush
  <2>2. /\ pc = "prop" /\ pc' = "prop" /\ level' = level /\ inf' = inf /\ cur' = cur
        /\ c \in Cube /\ ~MeetsInit(c) /\ Blocked(Frame(idx), c) /\ l \subseteq c
    BY <1>4, <2>1 DEF PropPush, InHand, Core, IsCore
  <2>3. CASE TrivialContained(idx + 1, c)
    <3>1. UNCHANGED <<frames, slv>>
      BY <2>1, <2>3 DEF AddUncontained
    <3> QED
      BY <1>0, <2>2, <3>1, QuietFrames
  <2>4. CASE ~TrivialContained(idx + 1, c)
    <3>1. PICK r \in Added(idx + 1, c) : frames' = r.frames /\ AddClause(idx + 1, c)
      BY <2>1, <2>4 DEF AddUncontained
    <3>2. Blocked(Frame((idx + 1) - 1) \ c, c)
      <4>1. (idx + 1) - 1 = idx
        BY <1>0
      <4> QED
        BY <2>2, <4>1 DEF Blocked
    <3> QED
      BY <1>0, <1>3, <2>2, <3>1, <3>2
  <2> QED
    BY <2>3, <2>4
<1>5. ASSUME NEW l \in todo, PropCtp(l)
      PROVE  FramesSound'
  <2>1. PICK p \in Cube, g \in Cube :
          /\ IsCore(g, Frame(idx - 1) \ g, p)
          /\ AddClause(idx, g)
          /\ \E r \in Added(idx, g) :
               /\ frames' = r.frames
               /\ IF r.found THEN Finish(Unsat) ELSE UNCHANGED <<pc, res>>
    BY <1>5 DEF PropCtp, Pred
  <2>2. pc = "prop" /\ level' = level /\ inf' = inf /\ cur' = cur
    BY <1>5 DEF PropCtp, InHand
  <2>3. PICK r \in Added(idx, g) : frames' = r.frames /\ pc' \in {"prop", "done"}
    BY <2>1, <2>2 DEF Finish
  <2>4. ~MeetsInit(g) /\ Blocked(Frame(idx - 1) \ g, g)
    BY <2>1 DEF IsCore
  <2> QED
    BY <1>0, <1>3, <2>1, <2>2, <2>3, <2>4
<1> QED
  BY <1>1, <1>2, <1>4, <1>5

\* Moving a lemma that is inductive by itself to the infinity frame.
LEMMA InfMoveFrames ==
    ASSUME TypeOK, Shape, FramesSound, InfMove
    PROVE  FramesSound'
<1>0. PICK l \in todo : /\ Blocked(InfFrame \ l, l)
                        /\ inf' = inf \cup {l}
                        /\ frames' = [frames EXCEPT ![level] = @ \ {l}]
  BY DEF InfMove
<1>1. /\ pc = "inf" /\ pc' = "inf" /\ level' = level /\ slv' = slv /\ cur' = cur /\ gen' = gen
      /\ level \in Nat /\ level > 0 /\ level \in Levels
      /\ l \in frames[level]
      /\ frames \in [Levels -> SUBSET Cube]
      /\ ~Generalizing
  BY <1>0, Ranges DEF InfMove, micVars, Shape, TypeOK, Generalizing
<1>2. \A k : Frame(k)' = Frame(k)
  BY <1>1 DEF Frame
<1>3. FramesAgree'
  <2>1. ASSUME NEW k \in 1..level
        PROVE  Excluded(slv'[k]) = Excluded(LemmasFrom(k)' \cup inf')
    <3>1. level \in k..level /\ k..level \subseteq Levels
      BY <1>1, Ranges
    <3>2. LemmasFrom(k)' = UNION {frames'[i] : i \in k..level}
      BY <1>1 DEF LemmasFrom
    <3>3. \A i \in k..level : frames'[i] = IF i = level THEN frames[i] \ {l} ELSE frames[i]
      BY <1>0, <1>1, <3>1
    <3>4. LemmasFrom(k)' \cup inf' = LemmasFrom(k) \cup inf
      BY <1>0, <1>1, <3>1, <3>2, <3>3 DEF LemmasFrom
    <3> QED
      BY <1>1, <3>4 DEF FramesSound, FramesAgree
  <2> QED
    BY <1>1, <2>1 DEF FramesAgree, Excluded
<1>4. InfFrame' = InfFrame \ l
  BY <1>0 DEF InfFrame, Excluded
<1>5. \A k \in 0..level : Frame(k) \cap l = {}
  <2>1. l \cap Frame(level) = {}
    BY <1>1, LemmaExcluded DEF FramesSound
  <2>2. \A k \in 0..level : Frame(k) \subseteq Frame(level)
    BY <1>1 DEF FramesSound, Nested
  <2> QED
    BY <2>1, <2>2
<1>6. Nested'
  <2>1. \A k \in 0..level : InitStates' \subseteq Frame(k)' /\ Frame(k)' \subseteq InfFrame'
    BY <1>2, <1>4, <1>5 DEF FramesSound, Nested, InitStates
  <2>2. \A s \in InfFrame' : Trans[s] \subseteq InfFrame'
    BY <1>0, <1>4 DEF FramesSound, Nested, Blocked
  <2> QED
    BY <1>1, <1>2, <2>1, <2>2 DEF FramesSound, Nested
<1>7. BadFree' /\ Steps'
  BY <1>1, <1>2 DEF FramesSound, BadFree, Steps
<1>8. LemmaInHand'
  BY <1>1 DEF LemmaInHand, Generalizing
<1> QED
  BY <1>3, <1>6, <1>7, <1>8 DEF FramesSound

\* Every step keeps the frames sound.
LEMMA FramesStep ==
    ASSUME TypeOK, Shape, FramesSound, [Next]_vars
    PROVE  FramesSound'
<1> USE DEF lemmaVars, micVars, propVars
<1>1. ASSUME \/ BlockInterrupted \/ BlockFailure \/ GetBad
             \/ \E o \in Poppable : \/ BlockContained(o) \/ BlockContainedInf(o)
                                    \/ BlockDrop(o) \/ BlockPred(o)
      PROVE  FramesSound'
  <2>1. /\ UNCHANGED <<level, frames, slv, inf, cur>> /\ pc = "block" /\ pc' \in {"block", "done"}
    BY <1>1 DEF BlockInterrupted, BlockFailure, GetBad, BlockContained, BlockContainedInf,
                BlockDrop, BlockPred, Popped, Finish
  <2> QED
    BY <2>1, QuietFrames DEF Generalizing
<1>2. ASSUME \/ PropSkip \/ PropNext \/ InfKeep \/ InfDone
             \/ \E l \in todo : PropKeep(l)
      PROVE  FramesSound'
  <2>1. /\ UNCHANGED <<level, frames, slv, inf, cur>> /\ pc \in {"prop", "inf"}
        /\ pc' \in {"prop", "inf", "block", "done"}
    BY <1>2 DEF PropSkip, PropNext, InfKeep, InfDone, PropKeep, InHand, Finish, EnterFrame
  <2> QED
    BY <2>1, QuietFrames DEF Generalizing
<1>3. CASE Extend
  <2>1. FramesAgree' /\ Nested' /\ Steps' /\ BadFree'
    BY <1>3, ExtendFrames DEF FramesSound
  <2>2. pc' \in {"prop", "inf"}
    BY <1>3 DEF Extend, EnterFrame
  <2>3. LemmaInHand'
    BY <2>2 DEF LemmaInHand, Generalizing
  <2> QED
    BY <2>1, <2>3 DEF FramesSound
<1>4. ASSUME \/ \E o \in Poppable : BlockGeneralize(o)
             \/ MicDrop \/ CtgBlock \/ CtgPush \/ MicDone \/ PushLemma
      PROVE  FramesSound'
  BY <1>4, GeneralizeFrames
<1>5. ASSUME CtgAdd \/ BlockedLemma \/ \E l \in todo : PropPush(l) \/ PropCtp(l)
      PROVE  FramesSound'
  BY <1>5, AddFrames
<1>6. CASE InfMove
  BY <1>6, InfMoveFrames
<1>7. CASE UNCHANGED vars
  <2>1. FramesAgree' /\ Nested' /\ BadFree' /\ \A k : Frame(k)' = Frame(k)
    BY <1>7, FramesUntouched DEF FramesSound, vars
  <2>2. Steps'
    BY <1>7, <2>1 DEF FramesSound, Steps, vars
  <2>3. LemmaInHand'
    BY <1>7 DEF FramesSound, LemmaInHand, Generalizing, vars, MeetsInit, InitStates, Blocked,
                Frame, Hole
  <2> QED
    BY <2>1, <2>2, <2>3 DEF FramesSound
<1> QED
  BY <1>1, <1>2, <1>3, <1>4, <1>5, <1>6, <1>7
     DEF Next, Work, BlockStep, MicStep, PropagateStep, Returned

(***************************************************************************)
(* Obligations.                                                             *)
(***************************************************************************)

\* A frame only ever loses states, while its solver gains clauses.
LEMMA FramesShrink ==
    ASSUME TypeOK, Shape, FramesSound, [Next]_vars
    PROVE  \A k \in 0..level : Frame(k)' \subseteq Frame(k)
<1> USE DEF lemmaVars
<1>0. /\ level \in Nat /\ 0..level \subseteq Levels
      /\ pc = "prop" => idx + 1 \in 1..level /\ idx \in 1..level
      /\ pc = "ctg" => idx \in 1..level /\ ctg \in Cube
      /\ pc = "push" => idx \in 1..level /\ gen \in Cube
  BY Ranges DEF Levels, Shape, Generalizing
<1>1. CASE slv' = slv
  BY <1>1 DEF Frame
<1>2. CASE Extend
  <2>1. \A k \in 0..level : slv'[k] = slv[k]
    BY <1>0, <1>2 DEF Extend, TypeOK
  <2> QED
    BY <2>1 DEF Frame
<1>3. ASSUME NEW f \in 1..level, NEW c \in Cube, AddClause(f, c)
      PROVE  \A k \in 0..level : Frame(k)' \subseteq Frame(k)
  BY <1>0, <1>3, ClauseAdded DEF FramesSound
<1>4. CASE CtgAdd
  BY <1>0, <1>3, <1>4 DEF CtgAdd
<1>5. CASE BlockedLemma
  BY <1>0, <1>3, <1>5 DEF BlockedLemma
<1>6. ASSUME NEW l \in todo, PropPush(l)
      PROVE  \A k \in 0..level : Frame(k)' \subseteq Frame(k)
  <2>1. PICK c \in Cube : AddUncontained(c)
    BY <1>6 DEF PropPush, Core
  <2>2. slv' = slv \/ AddClause(idx + 1, c)
    BY <2>1 DEF AddUncontained
  <2>3. pc = "prop"
    BY <1>6 DEF PropPush, InHand
  <2> QED
    BY <1>0, <1>1, <1>3, <2>2, <2>3
<1>7. ASSUME NEW l \in todo, PropCtp(l)
      PROVE  \A k \in 0..level : Frame(k)' \subseteq Frame(k)
  <2>1. PICK g \in Cube : AddClause(idx, g)
    BY <1>7 DEF PropCtp
  <2>2. pc = "prop"
    BY <1>7 DEF PropCtp, InHand
  <2> QED
    BY <1>0, <1>3, <2>1, <2>2
<1>8. ASSUME ~Extend, ~CtgAdd, ~BlockedLemma, \A l \in todo : ~PropPush(l) /\ ~PropCtp(l)
      PROVE  slv' = slv
  BY <1>8 DEF Next, vars, Work, BlockStep, MicStep, PropagateStep, Returned,
        BlockInterrupted, BlockFailure, BlockContained, BlockContainedInf, BlockDrop, BlockPred,
        BlockGeneralize, MicDrop, CtgBlock, CtgPush, MicDone, PushLemma, GetBad, PropSkip,
        PropKeep, PropNext, InfMove, InfKeep, InfDone
<1> QED
  BY <1>1, <1>2, <1>4, <1>5, <1>6, <1>7, <1>8

\* An obligation that stays in the queue stays placed.
LEMMA StaysPlaced ==
    ASSUME TypeOK, Shape, NEW o \in ProofObligations, o.frame <= level + 1, Placed(o),
           \A k \in 0..level : Frame(k)' \subseteq Frame(k)
    PROVE  Placed(o)'
<1>1. CASE o.frame = 0
  BY <1>1 DEF Placed, MeetsInit, InitStates
<1>2. CASE o.frame # 0
  <2>1. o.frame - 1 \in 0..level
    BY <1>2, Ranges DEF ProofObligations
  <2> QED
    BY <1>2, <2>1 DEF Placed
<1> QED
  BY <1>1, <1>2

\* An obligation pushed to frame f is placed there if frame f - 1 has none of its states.
LEMMA PushedPlaced ==
    ASSUME NEW o \in ProofObligations, NEW f \in Nat, f > o.frame, f <= MaxLevel + 1,
           ChainReal(o), PoState(o) \cap Frame(f - 1)' = {}
    PROVE  ChainReal(PushTo(o, f)) /\ Placed(PushTo(o, f))'
<1> PICK p : p = PushTo(o, f)
  OBVIOUS
<1>1. p.frame = f /\ p.chain = o.chain /\ f # 0
  BY PushToMoves, BoundAssumption DEF ProofObligations
<1>2. ChainReal(p)
  BY <1>1 DEF ChainReal
<1>3. PoState(p) = PoState(o)
  BY <1>1 DEF PoState
<1>4. Placed(p)'
  BY <1>1, <1>3 DEF Placed
<1> QED
  BY <1>2, <1>4

\* The obligations of a step that puts none in or back.
LEMMA FewerObligations ==
    ASSUME TypeOK, Shape, Obligations, obl' \subseteq obl,
           \A k \in 0..level : Frame(k)' \subseteq Frame(k),
           Generalizing' => \/ Generalizing /\ cur' = cur
                            \/ cur' \in obl
    PROVE  Obligations'
<1>1. ASSUME NEW o \in obl' \cup (IF Generalizing' THEN {cur'} ELSE {})
      PROVE  ChainReal(o) /\ Placed(o)'
  <2>1. o \in obl \cup (IF Generalizing THEN {cur} ELSE {})
    BY <1>1
  <2>2. ChainReal(o) /\ Placed(o)
    BY <2>1 DEF Obligations
  <2>3. o \in ProofObligations /\ o.frame <= level + 1
    BY <2>1, Ranges DEF TypeOK, Shape, ProofObligations, Generalizing
  <2> QED
    BY <2>2, <2>3, StaysPlaced
<1>2. \A o : ChainReal(o)' <=> ChainReal(o)
  BY DEF ChainReal, Pre
<1> QED
  BY <1>1, <1>2 DEF Obligations, Generalizing

\* The obligations of a step that puts one in, which is real and placed.
LEMMA OneMoreObligation ==
    ASSUME TypeOK, Shape, Obligations, NEW n, obl' \subseteq obl \cup {n},
           ChainReal(n), Placed(n)', ~Generalizing',
           \A k \in 0..level : Frame(k)' \subseteq Frame(k)
    PROVE  Obligations'
<1>1. ASSUME NEW o \in obl'
      PROVE  ChainReal(o) /\ Placed(o)'
  <2>1. CASE o = n
    BY <2>1
  <2>2. CASE o \in obl
    <3>1. ChainReal(o) /\ Placed(o) /\ o \in ProofObligations /\ o.frame <= level + 1
      BY <2>2 DEF Obligations, TypeOK, ProofObligations
    <3> QED
      BY <3>1, StaysPlaced
  <2> QED
    BY <2>1, <2>2
<1>2. \A o : ChainReal(o)' <=> ChainReal(o)
  BY DEF ChainReal, Pre
<1> QED
  BY <1>1, <1>2 DEF Obligations, Generalizing

\* Every step keeps the obligations real and placed.
LEMMA ObligationsStep ==
    ASSUME TypeOK, Shape, FramesSound, Obligations, [Next]_vars
    PROVE  Obligations'
<1> USE DEF lemmaVars, micVars, propVars
<1>0. /\ \A k \in 0..level : Frame(k)' \subseteq Frame(k)
      /\ level \in Nat /\ level <= MaxLevel /\ MaxLevel \in Nat /\ idx \in Nat
      /\ pc = "prop" => idx + 1 \in 1..level /\ idx \in 1..level
  BY FramesShrink, Ranges
<1>1. CASE BlockFailure
  <2>1. obl' \subseteq obl /\ pc' = "done"
    BY <1>1 DEF BlockFailure, AddObligation, Finish, Poppable, Peak
  <2> QED
    BY <1>0, <2>1, FewerObligations DEF Generalizing
<1>2. ASSUME NEW o \in Poppable, BlockContained(o)
      PROVE  Obligations'
  <2>1. PICK bf \in o.frame..level : /\ AddObligation(obl \ {o}, PushTo(o, bf + 1))
                                     /\ \E l \in frames[bf] : PoState(o) \subseteq l
    BY <1>2 DEF BlockContained, ContainedAt
  <2>2. /\ o \in ProofObligations /\ o.frame \in 1..level /\ ChainReal(o)
        /\ pc = "block" /\ pc' = "block"
    BY <1>2, PoppedObligation DEF BlockContained, Popped
  <2>3. bf \in 1..level /\ bf \in bf..level /\ bf + 1 > o.frame /\ bf + 1 <= MaxLevel + 1 /\ bf + 1 \in Nat
    BY <1>0, <2>1, <2>2
  <2>4. PoState(o) \cap Frame(bf) = {}
    BY <2>1, <2>3, LemmaExcluded DEF FramesSound
  <2>5. PoState(o) \cap Frame((bf + 1) - 1)' = {}
    <3>1. bf \in 0..level /\ (bf + 1) - 1 = bf
      BY <2>3
    <3> QED
      BY <1>0, <2>4, <3>1
  <2>6. ChainReal(PushTo(o, bf + 1)) /\ Placed(PushTo(o, bf + 1))'
    <3> HIDE DEF lemmaVars, micVars, propVars
    <3> QED
      BY <2>2, <2>3, <2>5, PushedPlaced
  <2>7. obl' \subseteq obl \cup {PushTo(o, bf + 1)}
    BY <2>1 DEF AddObligation
  <2> QED
    BY <1>0, <2>2, <2>6, <2>7, OneMoreObligation DEF Generalizing
<1>3. ASSUME NEW o \in Poppable, BlockContainedInf(o) \/ BlockDrop(o)
      PROVE  Obligations'
  <2>1. obl' \subseteq obl /\ pc' = "block"
    BY <1>3 DEF BlockContainedInf, BlockDrop, Popped
  <2> QED
    BY <1>0, <2>1, FewerObligations DEF Generalizing
<1>4. ASSUME NEW o \in Poppable, BlockPred(o)
      PROVE  Obligations'
  <2>1. PICK p \in Cube : /\ p \cap Frame(o.frame - 1) # {} /\ p \subseteq Pre(PoState(o))
                          /\ obl' = obl \cup {Po(o.frame - 1, <<p>> \o o.chain)}
    BY <1>4 DEF BlockPred, Pred
  <2>2. /\ o \in ProofObligations /\ o.chain # <<>> /\ o.frame \in 1..level /\ ChainReal(o)
        /\ PoState(o) \cap Frame(o.frame - 1) = {}
        /\ pc = "block" /\ pc' = "block"
    BY <1>4, PoppedObligation DEF BlockPred, Popped
  <2>3. PICK f \in 0..MaxLevel + 1 : f = o.frame - 1 /\ f + 1 = o.frame
    BY <1>0, <2>2
  <2>4. PICK new \in ProofObligations :
          new = Po(f, <<p>> \o o.chain) /\ new.frame = f /\ PoState(new) = p /\ ChainReal(new)
    BY <2>1, <2>2, <2>3, ChainExtended
  <2>5. Placed(new)'
    <3>1. CASE f = 0
      <4>1. Frame(f) = InitStates
        BY <3>1 DEF Shape, Frame, InitStates
      <4> QED
        BY <2>1, <2>3, <2>4, <3>1, <4>1 DEF Placed, MeetsInit, InitStates
    <3>2. CASE f # 0
      <4>1. f - 1 \in 0..level - 1 /\ f - 1 \in 0..level /\ (f - 1) + 1 = f
        BY <1>0, <2>2, <2>3, <3>2
      <4>2. \A s \in Frame(f - 1) : Trans[s] \subseteq Frame(f)
        BY <2>2, <4>1, StepsWhole DEF FramesSound, Generalizing
      <4>3. \A s \in p : Trans[s] \cap PoState(o) # {}
        BY <2>1 DEF Pre
      <4>4. p \cap Frame(f - 1) = {}
        BY <2>2, <2>3, <4>2, <4>3
      <4>5. p \cap Frame(f - 1)' = {}
        BY <1>0, <4>1, <4>4
      <4> QED
        BY <2>4, <3>2, <4>5 DEF Placed
    <3> QED
      BY <3>1, <3>2
  <2>6. obl' \subseteq obl \cup {new}
    BY <2>1, <2>3, <2>4
  <2> QED
    BY <1>0, <2>2, <2>4, <2>5, <2>6, OneMoreObligation DEF Generalizing
<1>5. ASSUME NEW o \in Poppable, BlockGeneralize(o)
      PROVE  Obligations'
  <2>1. obl' \subseteq obl /\ cur' = o /\ o \in obl
    BY <1>5 DEF BlockGeneralize, Poppable, Peak
  <2> QED
    BY <1>0, <2>1, FewerObligations
<1>6. ASSUME MicDrop \/ CtgBlock \/ CtgPush \/ CtgAdd \/ MicDone \/ PushLemma
      PROVE  Obligations'
  <2>1. obl' = obl /\ cur' = cur /\ Generalizing
    BY <1>6 DEF MicDrop, CtgBlock, CtgPush, CtgAdd, MicDone, PushLemma, Generalizing
  <2> QED
    BY <1>0, <2>1, FewerObligations
<1>7. CASE BlockedLemma
  <2>1. /\ pc = "push" /\ pc' \in {"block", "done"} /\ AddClause(idx, gen)
        /\ AddObligation(obl, PushTo(cur, idx + 1))
    BY <1>7 DEF BlockedLemma, Finish
  <2>2. /\ idx \in 1..level /\ gen \in Cube /\ cur.frame <= idx /\ cur.frame \in Nat
        /\ cur \in ProofObligations /\ ChainReal(cur) /\ PoState(cur) \subseteq gen
    BY <2>1, Ranges DEF Shape, Generalizing, TypeOK, Obligations, ProofObligations
  <2>3. PICK c \in ProofObligations : c = cur
    BY <2>2
  <2>4. PICK i \in 1..level : i = idx
    BY <2>2
  <2>5. PoState(c) \cap Frame(i)' = {}
    <3>1. i \in Levels /\ i \in 1..i
      BY <1>0, Ranges
    <3>2. Frame(i)' = Frame(i) \ gen
      BY <2>1, <2>2, <2>4, <3>1, ClauseAdded DEF FramesSound
    <3> QED
      BY <2>2, <2>3, <3>2
  <2>6. i + 1 \in Nat /\ i + 1 > c.frame /\ i + 1 <= MaxLevel + 1 /\ (i + 1) - 1 = i
    BY <1>0, <2>2, <2>3, <2>4
  <2>7. ChainReal(PushTo(c, i + 1)) /\ Placed(PushTo(c, i + 1))'
    <3>1. PoState(c) \cap Frame((i + 1) - 1)' = {} /\ ChainReal(c)
      BY <2>2, <2>3, <2>5, <2>6
    <3> HIDE DEF lemmaVars, micVars, propVars
    <3> QED
      BY <2>6, <3>1, PushedPlaced
  <2>8. obl' \subseteq obl \cup {PushTo(c, i + 1)}
    BY <2>1, <2>3, <2>4 DEF AddObligation
  <2> QED
    BY <1>0, <2>1, <2>7, <2>8, OneMoreObligation DEF Generalizing
<1>8. CASE GetBad
  <2>1. PICK b \in Cube : /\ b \subseteq Bad /\ b \cap Frame(level) # {}
                          /\ AddObligation(obl, Po(level, <<b>>))
    BY <1>8 DEF GetBad
  <2>2. PICK k \in 0..level : k = level
    BY <1>0
  <2>3. PICK n \in ProofObligations :
          n = Po(k, <<b>>) /\ n.frame = k /\ n.chain = <<b>>
    <3>1. k \in 0..MaxLevel + 1 /\ <<b>> \in Seq(Cube)
      BY <1>0
    <3>2. Po(k, <<b>>) = [frame |-> k, chain |-> <<b>>]
      BY DEF Po
    <3>3. Po(k, <<b>>) \in ProofObligations
      <4>1. [frame |-> k, chain |-> <<b>>] \in [frame : 0..MaxLevel + 1, chain : Seq(Cube)]
        BY <3>1
      <4> QED
        BY <3>2, <4>1 DEF ProofObligations
    <3> QED
      BY <3>2, <3>3
  <2>4. PoState(n) = b /\ ChainReal(n)
    <3>1. Len(<<b>>) = 1 /\ <<b>>[1] = b /\ Head(<<b>>) = b
      OBVIOUS
    <3>2. \A j \in 1..Len(n.chain) - 1 : FALSE
      BY <2>3, <3>1
    <3> QED
      BY <2>1, <2>3, <3>1, <3>2 DEF PoState, ChainReal
  <2>5. Placed(n)'
    <3>1. CASE k = 0
      <4>1. Frame(k) = InitStates
        BY <3>1 DEF Shape, Frame, InitStates
      <4> QED
        BY <2>1, <2>2, <2>3, <2>4, <3>1, <4>1 DEF Placed, MeetsInit, InitStates
    <3>2. CASE k # 0
      <4>1. k - 1 \in 0..level - 1 /\ k - 1 \in 0..level
        BY <1>0, <2>2, <3>2
      <4>2. b \cap Frame(k - 1) = {}
        BY <2>1, <4>1 DEF FramesSound, BadFree
      <4> QED
        BY <1>0, <2>3, <2>4, <3>2, <4>1, <4>2 DEF Placed
    <3> QED
      BY <3>1, <3>2
  <2>6. obl' \subseteq obl \cup {n} /\ pc' = "block"
    BY <1>8, <2>1, <2>2, <2>3 DEF AddObligation, GetBad
  <2> QED
    BY <1>0, <2>4, <2>5, <2>6, OneMoreObligation DEF Generalizing
<1>9. ASSUME NEW l \in todo, PropPush(l)
      PROVE  Obligations'
  <2>1. PICK c \in Cube : l \subseteq c /\ AddUncontained(c)
    BY <1>9 DEF PropPush, Core, IsCore
  <2>2. pc = "prop" /\ pc' = "prop" /\ MovePo(l)
    BY <1>9 DEF PropPush, InHand
  <2>3. PICK i \in 1..level : i = idx + 1
    BY <1>0, <2>2
  <2>4. c \cap Frame(i)' = {}
    <3>1. CASE TrivialContained(idx + 1, c)
      <4>1. PICK m \in LemmasFrom(i) \cup inf : c \subseteq m
        BY <2>3, <3>1 DEF TrivialContained
      <4>2. m \cap Frame(i) = {}
        <5>1. CASE m \in inf
          BY <5>1, InfExcluded DEF FramesSound
        <5>2. CASE m \in LemmasFrom(i)
          <6>1. PICK j \in i..level : m \in frames[j]
            BY <5>2 DEF LemmasFrom
          <6> QED
            BY <6>1, LemmaExcluded DEF FramesSound
        <5> QED
          BY <4>1, <5>1, <5>2
      <4> QED
        BY <1>0, <4>1, <4>2
    <3>2. CASE ~TrivialContained(idx + 1, c)
      <4>1. AddClause(i, c)
        BY <2>1, <2>3, <3>2 DEF AddUncontained
      <4>2. i \in Levels /\ i \in 1..i
        BY <1>0, Ranges
      <4>3. Frame(i)' = Frame(i) \ c
        BY <4>1, <4>2, ClauseAdded DEF FramesSound
      <4> QED
        BY <4>3
    <3> QED
      BY <3>1, <3>2
  <2>5. CASE obl' = obl
    BY <1>0, <2>2, <2>5, FewerObligations DEF Generalizing
  <2>6. CASE obl' # obl
    <3>1. PICK o \in obl : /\ PoState(o) \subseteq l /\ o.frame < idx + 2
                           /\ AddObligation(obl \ {o}, PushTo(o, idx + 2))
      BY <2>2, <2>6 DEF MovePo, PoOf
    <3>2. o \in ProofObligations /\ ChainReal(o)
      BY DEF TypeOK, ProofObligations, Obligations
    <3>3. /\ i + 1 = idx + 2 /\ i + 1 \in Nat /\ i + 1 > o.frame /\ i + 1 <= MaxLevel + 1
          /\ (i + 1) - 1 = i
      BY <1>0, <2>3, <3>1
    <3>4. ChainReal(PushTo(o, i + 1)) /\ Placed(PushTo(o, i + 1))'
      <4>1. PoState(o) \cap Frame((i + 1) - 1)' = {}
        BY <2>1, <2>4, <3>1, <3>3
      <4> HIDE DEF lemmaVars, micVars, propVars
      <4> QED
        BY <3>2, <3>3, <4>1, PushedPlaced
    <3>5. obl' \subseteq obl \cup {PushTo(o, i + 1)}
      BY <3>1, <3>3 DEF AddObligation
    <3> QED
      BY <1>0, <2>2, <3>4, <3>5, OneMoreObligation DEF Generalizing
  <2> QED
    BY <2>5, <2>6
<1>10. ASSUME \/ BlockInterrupted \/ Extend \/ PropSkip \/ PropNext \/ InfMove \/ InfKeep \/ InfDone
              \/ \E l \in todo : PropCtp(l) \/ PropKeep(l)
       PROVE  Obligations'
  <2>1. obl' \subseteq obl /\ pc' \in {"block", "prop", "inf", "done"}
    BY <1>10 DEF BlockInterrupted, Extend, EnterFrame, PropSkip, PropNext, InfMove, InfKeep, InfDone,
                PropCtp, PropKeep, InHand, Finish
  <2> QED
    BY <1>0, <2>1, FewerObligations DEF Generalizing
<1>11. CASE UNCHANGED vars
  <2>1. obl' = obl /\ cur' = cur /\ pc' = pc
    BY <1>11 DEF vars
  <2> QED
    BY <1>0, <2>1, FewerObligations DEF Generalizing
<1> QED
  BY <1>1, <1>2, <1>3, <1>4, <1>5, <1>6, <1>7, <1>8, <1>9, <1>10, <1>11
     DEF Next, Work, BlockStep, MicStep, PropagateStep, Returned

(***************************************************************************)
(* Answers.                                                                 *)
(***************************************************************************)

\* An empty frame below the level makes the certificate of the first empty one good.
LEMMA EmptyFrameCertifies ==
    ASSUME TypeOK, Shape, FramesSound, ~Generalizing,
           NEW i \in 0..level - 1, frames[i] = {}, NEW k \in 0..level, FirstEmpty(k)
    PROVE  /\ InitStates \subseteq Certificate(k)
           /\ Blocked(Certificate(k), State \ Certificate(k))
           /\ Certificate(k) \cap Bad = {}
<1>0. level \in Nat /\ level \in Levels /\ slv \in [Levels -> SUBSET Cube]
  BY Ranges DEF TypeOK
<1>1. k \in 0..level - 1 /\ k + 1 \in 1..level /\ k + 1 \in 0..level
  <2>1. k <= i
    BY <1>0 DEF FirstEmpty
  <2> QED
    BY <1>0, <2>1
<1>2. LemmasFrom(k) = LemmasFrom(k + 1)
  <2>1. k..level = {k} \cup (k + 1..level)
    BY <1>0, <1>1
  <2> QED
    BY <2>1 DEF LemmasFrom, FirstEmpty
<1>3. Certificate(k) = Frame(k + 1)
  BY <1>1, <1>2 DEF Certificate, FramesSound, FramesAgree, Frame
<1>4. Frame(k + 1) \subseteq Frame(k)
  <2>1. CASE k = 0
    <3>1. Frame(k) = State
      BY <2>1 DEF Frame, Excluded, FirstEmpty, Shape
    <3> QED
      BY <3>1 DEF Frame
  <2>2. CASE k # 0
    <3>1. k \in 1..level
      BY <1>0, <1>1, <2>2
    <3> QED
      BY <1>1, <1>2, <3>1 DEF FramesSound, FramesAgree, Frame
  <2> QED
    BY <2>1, <2>2
<1>5. InitStates \subseteq Certificate(k)
  BY <1>1, <1>3 DEF FramesSound, Nested
<1>6. \A s \in Certificate(k) : Trans[s] \subseteq Certificate(k)
  BY <1>1, <1>3, <1>4, StepsWhole DEF FramesSound
<1>7. Certificate(k) \cap Bad = {}
  BY <1>1, <1>3, <1>4 DEF FramesSound, BadFree
<1> QED
  BY <1>5, <1>6, <1>7 DEF Blocked

\* A SAT answer comes with the path that cex() reads off the queue.
LEMMA FailureReal ==
    ASSUME TypeOK, Shape, Obligations, BlockFailure
    PROVE  CexReal'
<1>1. PICK o \in Poppable : /\ MeetsInit(PoState(o)) /\ o.frame = 0
                            /\ AddObligation(obl \ {o}, o)
                            /\ Finish([kind |-> "SAT", depth |-> Depth(o)])
  BY DEF BlockFailure
<1>2. o \in obl /\ \A p \in obl : ~Before(p, o)
  BY <1>1 DEF Poppable, Peak
<1>3. obl' = obl /\ res'.depth = Depth(o)
  BY <1>1, <1>2 DEF AddObligation, Finish
<1>4. ASSUME NEW p \in Peak(obl)
      PROVE  /\ p.frame = 0 /\ Depth(p) = Depth(o)
             /\ MeetsInit(PoState(p)) /\ ChainReal(p)
  <2>1. p \in obl /\ ~Before(o, p) /\ ~Before(p, o)
    BY <1>2, <1>4 DEF Peak
  <2>2. /\ p.frame \in Nat /\ Depth(p) \in Nat
        /\ o.frame \in Nat /\ Depth(o) \in Nat
    BY <1>2, <2>1, ObligationType DEF TypeOK, Shape, ProofObligations
  <2>3. p.frame = 0 /\ Depth(p) = Depth(o)
    BY <1>1, <2>1, <2>2 DEF Before
  <2>4. ChainReal(p) /\ Placed(p)
    BY <2>1 DEF Obligations
  <2> QED
    BY <2>3, <2>4 DEF Placed
<1>5. ASSUME NEW p \in Peak(obl')
      PROVE  /\ p.frame = 0 /\ Depth(p) = res'.depth
             /\ MeetsInit(PoState(p)) /\ ChainReal(p)
  <2>1. p \in Peak(obl)
    BY <1>3
  <2> QED
    BY <1>3, <1>4, <2>1
<1>6. o \in Peak(obl')
  BY <1>2, <1>3 DEF Peak
<1> QED
  BY <1>5, <1>6 DEF CexReal, ChainReal, MeetsInit, InitStates, Pre

\* Every answer is right when it is given and stays right.
LEMMA AnswerStep ==
    ASSUME TypeOK, Shape, FramesSound, Obligations, UnsatFrameEmpty, CexReal, [Next]_vars
    PROVE  UnsatFrameEmpty' /\ CexReal'
<1>1. ASSUME res' = NoRes \/ res'.kind = "Unknown"
      PROVE  UnsatFrameEmpty' /\ CexReal'
  BY <1>1 DEF UnsatFrameEmpty, CexReal, NoRes
<1>2. ASSUME res' = Unsat, pc' = "done", level' = level,
             NEW i \in 0..level - 1, frames'[i] = {}
      PROVE  UnsatFrameEmpty' /\ CexReal'
  <2>4. UnsatFrameEmpty'
    BY <1>2, Ranges DEF UnsatFrameEmpty
  <2>5. CexReal'
    BY <1>2 DEF CexReal, Unsat
  <2> QED
    BY <2>4, <2>5
<1>3. CASE BlockFailure
  <2>1. CexReal'
    BY <1>3, FailureReal
  <2>2. res'.kind = "SAT"
    BY <1>3 DEF BlockFailure, Finish
  <2> QED
    BY <2>1, <2>2 DEF UnsatFrameEmpty
<1>4. CASE BlockedLemma
  <2>1. PICK r \in Added(idx, gen) : /\ frames' = r.frames
                                     /\ IF r.found THEN Finish(Unsat)
                                                   ELSE pc' = "block" /\ UNCHANGED res
    BY <1>4 DEF BlockedLemma
  <2>2. /\ pc = "push" /\ level' = level /\ idx \in 1..level /\ gen \in Cube /\ res = NoRes
        /\ level \in Nat
    BY <1>4, Ranges DEF BlockedLemma, Shape, Generalizing
  <2>3. CASE r.found
    <3>1. PICK i \in 1..idx - 1 : frames'[i] = {}
      BY <2>1, <2>2, <2>3, LemmasMoved
    <3>2. i \in 0..level - 1
      BY <2>2, <3>1
    <3> QED
      BY <1>2, <2>1, <2>2, <2>3, <3>1, <3>2 DEF Finish
  <2>4. CASE ~r.found
    BY <1>1, <2>1, <2>2, <2>4
  <2> QED
    BY <2>3, <2>4
<1>5. ASSUME NEW l \in todo, PropCtp(l)
      PROVE  UnsatFrameEmpty' /\ CexReal'
  <2>1. PICK g \in Cube : \E r \in Added(idx, g) :
                            /\ frames' = r.frames
                            /\ IF r.found THEN Finish(Unsat) ELSE UNCHANGED <<pc, res>>
    BY <1>5 DEF PropCtp
  <2>2. PICK r \in Added(idx, g) : /\ frames' = r.frames
                                   /\ IF r.found THEN Finish(Unsat) ELSE UNCHANGED <<pc, res>>
    BY <2>1
  <2>3. /\ pc = "prop" /\ level' = level /\ idx \in 1..level - 1 /\ res = NoRes
        /\ level \in Nat /\ idx \in 1..level
    BY <1>5, Ranges DEF PropCtp, InHand, Shape
  <2>4. CASE r.found
    <3>1. PICK i \in 1..idx - 1 : frames'[i] = {}
      BY <2>2, <2>3, <2>4, LemmasMoved
    <3>2. i \in 0..level - 1
      BY <2>3, <3>1
    <3> QED
      BY <1>2, <2>2, <2>3, <2>4, <3>1, <3>2 DEF Finish
  <2>5. CASE ~r.found
    BY <1>1, <2>2, <2>3, <2>5
  <2> QED
    BY <2>4, <2>5
<1>6. CASE PropNext
  <2>1. pc = "prop" /\ level' = level /\ frames' = frames /\ idx \in 0..level - 1 /\ res = NoRes
    BY <1>6, Ranges DEF PropNext, Shape
  <2>2. CASE frames[idx] = {}
    <3>1. PICK i \in 0..level - 1 : i = idx
      BY <2>1
    <3>2. frames'[i] = {} /\ res' = Unsat /\ pc' = "done"
      BY <1>6, <2>1, <2>2, <3>1 DEF PropNext, Finish
    <3> QED
      BY <1>2, <2>1, <3>1, <3>2
  <2>3. CASE frames[idx] # {}
    BY <1>1, <1>6, <2>1, <2>3 DEF PropNext
  <2> QED
    BY <2>2, <2>3
<1>7. CASE BlockInterrupted
  BY <1>1, <1>7 DEF BlockInterrupted, Finish
<1>8. CASE UNCHANGED vars
  <2>1. UNCHANGED <<pc, level, frames, obl, res>>
    BY <1>8 DEF vars
  <2>2. UnsatFrameEmpty'
    BY <2>1 DEF UnsatFrameEmpty
  <2>3. CexReal'
    BY <2>1 DEF CexReal
  <2> QED
    BY <2>2, <2>3
<1>9. ASSUME \/ Extend \/ GetBad \/ PropSkip \/ InfMove \/ InfKeep \/ InfDone
             \/ MicDrop \/ CtgBlock \/ CtgPush \/ CtgAdd \/ MicDone \/ PushLemma
             \/ \E o \in Poppable : \/ BlockContained(o) \/ BlockContainedInf(o) \/ BlockDrop(o)
                                    \/ BlockPred(o) \/ BlockGeneralize(o)
             \/ \E l \in todo : PropPush(l) \/ PropKeep(l)
      PROVE  UnsatFrameEmpty' /\ CexReal'
  <2>1. pc # "done" /\ res' = res
    BY <1>9 DEF Extend, GetBad, PropSkip, InfMove, InfKeep, InfDone, MicDrop, CtgBlock, CtgPush,
                CtgAdd, MicDone, PushLemma, BlockContained, BlockContainedInf, BlockDrop,
                BlockPred, BlockGeneralize, PropPush, PropKeep, InHand, Popped
  <2>2. res' = NoRes
    BY <2>1 DEF Shape
  <2> QED
    BY <1>1, <2>2
<1> QED
  BY <1>3, <1>4, <1>5, <1>6, <1>7, <1>8, <1>9
     DEF Next, Work, BlockStep, MicStep, PropagateStep, Returned

(***************************************************************************)
(* The theorems.                                                            *)
(***************************************************************************)

\* The state check() starts the loop in satisfies the inductive invariant.
LEMMA InitInv == Init => IInv
<1> SUFFICES ASSUME Init PROVE IInv
  OBVIOUS
<1> USE DEF Init
<1>0. /\ MaxLevel \in Nat /\ Levels = 0..MaxLevel /\ 0 \in Levels
      /\ InitCubes \subseteq Cube
  BY BoundAssumption, CubeAssumption DEF Levels
<1>1. TypeOK
  <2>1. /\ NoPo \in [frame : 0..MaxLevel + 1, chain : Seq(Cube)]
        /\ NoRes \in [kind : {"none", "UNSAT", "SAT", "Unknown"}, depth : Nat]
    BY <1>0 DEF NoPo, NoRes
  <2>2. /\ frames \in [Levels -> SUBSET Cube] /\ slv \in [Levels -> SUBSET Cube]
    BY <1>0
  <2>3. /\ pc = "block" /\ level \in Levels /\ idx \in Levels /\ clash = FALSE
        /\ inf = {} /\ todo = {} /\ gen = {} /\ ctg = {}
        /\ obl = {} /\ cur = NoPo /\ res = NoRes
    BY <1>0
  <2>4. early \in 1..MaxLevel + 1
    BY <1>0
  <2>5. tries \in Nat
    OBVIOUS
  <2> HIDE DEF Init
  <2> QED
    BY <2>1, <2>2, <2>3, <2>4, <2>5 DEF TypeOK
<1>2. Shape
  BY <1>0 DEF Shape, Generalizing, Levels
<1>3. FramesAgree
  BY DEF FramesAgree
<1>4. Frame(0) = InitStates /\ InfFrame = State
  BY <1>0 DEF Frame, InitStates, InfFrame, Excluded
<1>5. Nested
  <2>1. \A k \in 0..level : k = 0
    OBVIOUS
  <2>2. \A s \in State : Trans[s] \subseteq State
    BY StateAssumption
  <2> QED
    BY <1>4, <2>1, <2>2 DEF Nested, InitStates
<1>6. Steps /\ BadFree
  BY DEF Steps, BadFree
<1>7. LemmaInHand /\ Obligations
  BY DEF LemmaInHand, Obligations, Generalizing
<1>8. UnsatFrameEmpty /\ CexReal
  BY DEF UnsatFrameEmpty, CexReal, NoRes
<1> QED
  BY <1>1, <1>2, <1>3, <1>5, <1>6, <1>7, <1>8 DEF IInv, FramesSound

\* Every step of the loop preserves it: each of its four parts has a lemma of its own above.
LEMMA NextInv == IInv /\ [Next]_vars => IInv'
<1> SUFFICES ASSUME IInv, [Next]_vars PROVE IInv'
  OBVIOUS
<1>1. TypeOK' /\ Shape'
  BY TypeStep DEF IInv
<1>2. FramesSound'
  BY FramesStep DEF IInv
<1>3. Obligations'
  BY ObligationsStep DEF IInv
<1>4. UnsatFrameEmpty' /\ CexReal'
  BY AnswerStep DEF IInv
<1> QED
  BY <1>1, <1>2, <1>3, <1>4 DEF IInv

\* The inductive invariant holds in every reachable state, for every transition system, every
\* bound and every option.
THEOREM Invariance == Spec => []IInv
  BY InitInv, NextInv, PTL DEF Spec

\* Every variable of the engine stays in its type, the obligations within a frame of the level.
THEOREM TypeCorrect == Spec => []TypeOK
<1>1. IInv => TypeOK
  BY DEF IInv
<1> QED
  BY <1>1, Invariance, PTL

\* Soundness of UNSAT: whenever the engine answers UNSAT, the lemmas of the first empty frame
\* and above are an inductive invariant that contains the initial states and no bad state.
THEOREM UnsatSound == Spec => []UnsatCertified
<1>1. IInv => UnsatCertified
  <2> SUFFICES ASSUME IInv, res.kind = "UNSAT" PROVE UnsatCertified
    BY DEF UnsatCertified
  <2>1. TypeOK /\ Shape /\ FramesSound /\ ~Generalizing
    BY DEF IInv, UnsatFrameEmpty, Generalizing
  <2>2. PICK i \in 0..level - 1 : frames[i] = {}
    BY DEF IInv, UnsatFrameEmpty
  <2>3. i \in 0..level
    BY <2>1, Ranges
  <2>4. ASSUME NEW k \in 0..level, FirstEmpty(k)
        PROVE  /\ InitStates \subseteq Certificate(k)
               /\ Blocked(Certificate(k), State \ Certificate(k))
               /\ Certificate(k) \cap Bad = {}
    BY <2>1, <2>2, <2>4, EmptyFrameCertifies
  <2> QED
    BY <2>2, <2>3, <2>4 DEF UnsatCertified
<1> QED
  BY <1>1, Invariance, PTL

\* Soundness of SAT: whenever the engine answers SAT, the obligation at the end of its queue
\* carries a chain of cubes from the initial states to the bad ones, of the reported depth.
THEOREM SatSound == Spec => []CexReal
<1>1. IInv => CexReal
  BY DEF IInv
<1> QED
  BY <1>1, Invariance, PTL

\* The delta frames and the solvers never disagree about what a frame excludes.
THEOREM FramesStayInAgreement == Spec => []FramesAgree
<1>1. IInv => FramesAgree
  BY DEF IInv, FramesSound
<1> QED
  BY <1>1, Invariance, PTL

\* An obligation is never in a frame that it could have left for a lower one, so the
\* debug_assert of block and the unwrap in generalize's fallback cannot be reached.
THEOREM ObligationsPlaced == Spec => []ObligationsBlockedBelow
<1>1. IInv => ObligationsBlockedBelow
  <2> SUFFICES ASSUME IInv, NEW o \in obl \cup {cur}, o.frame > 0
               PROVE  PoState(o) \cap Frame(o.frame - 1) = {} /\ ~MeetsInit(PoState(o))
    BY DEF ObligationsBlockedBelow
  <2>1. o \in obl \cup (IF Generalizing THEN {cur} ELSE {})
    BY DEF IInv, Shape, NoPo
  <2>2. o.frame \in Nat /\ o.frame <= level + 1
    BY <2>1, Ranges DEF IInv, TypeOK, Shape, Generalizing
  <2>3. PoState(o) \cap Frame(o.frame - 1) = {}
    BY <2>1, <2>2 DEF IInv, Obligations, Placed
  <2>4. o.frame - 1 \in 0..level
    BY <2>2, Ranges DEF IInv
  <2>5. InitStates \subseteq Frame(o.frame - 1)
    BY <2>4 DEF IInv, FramesSound, Nested
  <2> QED
    BY <2>3, <2>5 DEF MeetsInit
<1> QED
  BY <1>1, Invariance, PTL

(***************************************************************************)
(* Induction over the natural numbers, and the states reached in n steps.   *)
(***************************************************************************)

\* Induction over the natural numbers, for a set in the place of a predicate.
LEMMA SetInduction ==
    ASSUME NEW T, 0 \in T, \A n \in Nat : n \in T => n + 1 \in T
    PROVE  Nat \subseteq T
<1> DEFINE R == OpToRel(<, Nat)
           U == Nat \ T
<1> SUFFICES ASSUME U # {} PROVE FALSE
  OBVIOUS
<1>1. \A x, y \in Nat : y < x => <<y, x>> \in R
  BY Zenon DEF OpToRel
<1>2. IsWellFoundedOn(R, Nat)
  BY NatLessThanWellFounded, Zenon
<1> HIDE DEF R
<1>3. U \subseteq Nat
  OBVIOUS
<1> HIDE DEF U
<1>4. PICK x \in U : \A y \in U : ~(<<y, x>> \in R)
  <2>1. \E x \in U : \A y \in U : ~(<<y, x>> \in R)
    BY <1>2, <1>3, WFMin
  <2> QED
    BY <2>1
<1> USE DEF U
<1>5. x # 0 /\ x \in Nat
  OBVIOUS
<1>6. x - 1 \in Nat /\ x - 1 < x /\ x = (x - 1) + 1
  BY <1>5
<1>7. x - 1 \in T
  BY <1>1, <1>4, <1>5, <1>6
<1> QED
  BY <1>5, <1>6, <1>7

\* The states reached in n + 1 steps are the successors of those reached in n.
Successors(S) == UNION {Trans[s] : s \in S}

LEMMA ReachInSteps ==
    /\ ReachIn[0] = InitStates
    /\ \A n \in Nat : n + 1 <= MaxLevel => ReachIn[n + 1] = Successors(ReachIn[n])
<1> DEFINE Upto(f, m) == f = [n \in 0..m |-> IF n = 0 THEN InitStates ELSE Successors(f[n - 1])]
           T == {m \in Nat : \E f : Upto(f, m)}
<1>1. 0 \in T
  <2>1. Upto([n \in 0..0 |-> InitStates], 0)
    OBVIOUS
  <2> QED
    BY <2>1
<1>2. ASSUME NEW m \in Nat, m \in T PROVE m + 1 \in T
  <2>1. PICK f : Upto(f, m)
    BY <1>2
  <2> DEFINE g == [n \in 0..m + 1 |-> IF n = m + 1 THEN Successors(f[m]) ELSE f[n]]
  <2>2. \A n \in 0..m : f[n] = IF n = 0 THEN InitStates ELSE Successors(f[n - 1])
    BY <2>1
  <2>3. \A n \in 0..m + 1 : g[n] = IF n = 0 THEN InitStates ELSE Successors(g[n - 1])
    <3> TAKE n \in 0..m + 1
    <3>1. CASE n = m + 1
      BY <3>1
    <3>2. CASE n # m + 1
      <4>1. n \in 0..m /\ (n # 0 => n - 1 \in 0..m /\ n - 1 # m + 1)
        BY <3>2
      <4> QED
        BY <2>2, <3>2, <4>1
    <3> QED
      BY <3>1, <3>2
  <2>4. Upto(g, m + 1)
    BY <2>3
  <2> HIDE DEF g
  <2> QED
    BY <2>4
<1>3. MaxLevel \in T
  BY <1>1, <1>2, SetInduction, BoundAssumption
<1>4. \E f : f = [n \in Levels |-> IF n = 0 THEN InitStates ELSE Successors(f[n - 1])]
  BY <1>3 DEF Levels
<1>5. ReachIn = [n \in Levels |-> IF n = 0 THEN InitStates ELSE Successors(ReachIn[n - 1])]
  BY <1>4 DEF ReachIn, Successors
<1> QED
  BY <1>5, BoundAssumption DEF Levels

(***************************************************************************)
(* The frames and the reachable states.                                     *)
(***************************************************************************)

\* The states reached in n steps are in frame n, and while a lemma is generalized or pushed
\* none of those reached before its frame is in its cube.
LEMMA ReachedInFrame ==
    ASSUME IInv, NEW n \in 0..level
    PROVE  /\ ReachIn[n] \subseteq Frame(n)
           /\ Generalizing /\ n < cur.frame => ReachIn[n] \cap gen = {}
<1> DEFINE Covered(m) == /\ ReachIn[m] \subseteq Frame(m)
                         /\ Generalizing /\ m < cur.frame => ReachIn[m] \cap gen = {}
           T == {m \in Nat : m <= level => Covered(m)}
<1>0. /\ MaxLevel \in Nat /\ level \in Nat /\ level <= MaxLevel
      /\ Generalizing => cur.frame \in Nat /\ cur.frame > 0 /\ cur.frame <= level
      /\ ~Generalizing => cur.frame = 0
      /\ TypeOK /\ Shape
  BY Ranges DEF IInv, Shape, Generalizing, NoPo
<1>1. Covered(0)
  <2>1. ReachIn[0] = InitStates
    BY ReachInSteps
  <2>2. Frame(0) = InitStates
    BY DEF IInv, Shape, Frame, InitStates
  <2>3. Generalizing => InitStates \cap gen = {}
    BY DEF IInv, FramesSound, LemmaInHand, MeetsInit
  <2> QED
    BY <2>1, <2>2, <2>3
<1>2. ASSUME Generalizing, NEW m \in Nat, m < cur.frame
      PROVE  Blocked(Frame(m) \ gen, gen)
  <2>1. CASE pc \in {"mic", "ctg"}
    <3>1. m \in 0..level /\ cur.frame - 1 \in 0..level /\ m <= cur.frame - 1
      BY <1>0, <1>2
    <3>2. Frame(m) \subseteq Frame(cur.frame - 1)
      BY <3>1 DEF IInv, FramesSound, Nested
    <3>3. Blocked(Frame(cur.frame - 1) \ gen, gen)
      BY <2>1 DEF IInv, FramesSound, LemmaInHand
    <3> QED
      BY <3>2, <3>3 DEF Blocked
  <2>2. CASE pc = "push"
    <3>1. idx \in Nat /\ cur.frame <= idx /\ idx <= level
      BY <1>0, <2>2, Ranges
    <3>2. m \in 0..level /\ idx - 1 \in 0..level /\ m <= idx - 1
      BY <1>0, <1>2, <3>1
    <3>3. Frame(m) \subseteq Frame(idx - 1)
      BY <3>2 DEF IInv, FramesSound, Nested
    <3>4. Blocked(Frame(idx - 1) \ gen, gen)
      BY <2>2 DEF IInv, FramesSound, LemmaInHand
    <3> QED
      BY <3>3, <3>4 DEF Blocked
  <2> QED
    BY <1>2, <2>1, <2>2 DEF Generalizing
<1>3. ASSUME NEW m \in Nat, m + 1 <= level, Covered(m) PROVE Covered(m + 1)
  <2>1. m \in 0..level - 1 /\ m + 1 <= MaxLevel
    BY <1>0, <1>3
  <2>2. ReachIn[m + 1] = Successors(ReachIn[m])
    BY <2>1, ReachInSteps
  <2>3. ASSUME NEW s \in ReachIn[m]
        PROVE  /\ Trans[s] \subseteq Frame(m + 1)
               /\ Generalizing /\ m + 1 < cur.frame => Trans[s] \cap gen = {}
    <3>1. s \in Frame(m) /\ ~(m < cur.frame /\ s \in gen)
      BY <1>0, <1>3
    <3>2. Trans[s] \subseteq Frame(m + 1)
      BY <2>1, <3>1 DEF IInv, FramesSound, Steps
    <3>3. ASSUME Generalizing, m + 1 < cur.frame PROVE Trans[s] \cap gen = {}
      <4>1. m < cur.frame
        BY <1>0, <3>3
      <4> QED
        BY <1>2, <3>1, <3>3, <4>1 DEF Blocked
    <3> QED
      BY <3>2, <3>3
  <2> QED
    BY <2>2, <2>3 DEF Successors
<1> HIDE DEF Covered
<1>4. 0 \in T
  BY <1>1
<1>5. ASSUME NEW m \in Nat, m \in T PROVE m + 1 \in T
  <2>1. m + 1 <= level => m <= level
    BY <1>0
  <2> QED
    BY <1>3, <1>5, <2>1
<1>6. Nat \subseteq T
  <2> HIDE DEF T
  <2> QED
    BY <1>4, <1>5, SetInduction
<1> QED
  BY <1>0, <1>6 DEF Covered

\* Frame k over-approximates the states reachable in at most k steps at every moment, also
\* while a lemma is generalized and the CTG lemmas in the frames hold only relative to it.
THEOREM FramesCoverReached == Spec => []FramesCover
<1>1. IInv => FramesCover
  <2> SUFFICES ASSUME IInv, NEW k \in 0..level, NEW n \in 0..k PROVE ReachIn[n] \subseteq Frame(k)
    BY DEF FramesCover
  <2>1. level \in Nat /\ n \in 0..level /\ n <= k
    BY Ranges DEF IInv
  <2>2. Frame(n) \subseteq Frame(k)
    BY <2>1 DEF IInv, FramesSound, Nested
  <2> QED
    BY <2>1, <2>2, ReachedInFrame
<1> QED
  BY <1>1, Invariance, PTL

\* A level that has been closed is a proved bound: no bad state is reachable in fewer steps
\* than the current level.
THEOREM ClosedLevelsSafe == Spec => []TracedBoundSafe
<1>1. IInv => TracedBoundSafe
  <2> SUFFICES ASSUME IInv, NEW k \in 0..level - 1 PROVE ReachIn[k] \cap Bad = {}
    BY DEF TracedBoundSafe
  <2>1. level \in Nat /\ k \in 0..level
    BY Ranges DEF IInv
  <2>2. ReachIn[k] \subseteq Frame(k)
    BY <2>1, ReachedInFrame
  <2> QED
    BY <2>2 DEF IInv, FramesSound, BadFree
<1> QED
  BY <1>1, Invariance, PTL

(***************************************************************************)
(* The queue of obligations.                                                *)
(***************************************************************************)

\* A measure in the natural numbers has a greatest value on a finite set.
LEMMA GreatestOn ==
    ASSUME NEW S, IsFiniteSet(S), S # {}, NEW f, \A x \in S : f[x] \in Nat
    PROVE  \E m \in S : \A x \in S : f[x] <= f[m]
<1> DEFINE Top(A) == \E m \in A : \A x \in A : f[x] <= f[m]
           T == {n \in Nat : \A A \in SUBSET S : Cardinality(A) = n + 1 => Top(A)}
<1>0. \A A \in SUBSET S : IsFiniteSet(A) /\ Cardinality(A) \in Nat
  BY FS_Subset, FS_CardinalityType
<1>1. 0 \in T
  <2>1. ASSUME NEW A \in SUBSET S, Cardinality(A) = 1 PROVE Top(A)
    <3>1. \E x : A = {x}
      BY <1>0, <2>1, FS_Singleton
    <3> QED
      BY <3>1
  <2> QED
    BY <2>1
<1>2. ASSUME NEW n \in Nat, n \in T PROVE n + 1 \in T
  <2>1. ASSUME NEW A \in SUBSET S, Cardinality(A) = (n + 1) + 1 PROVE Top(A)
    <3>1. A # {}
      BY <2>1, FS_EmptySet
    <3>2. PICK a \in A : TRUE
      BY <3>1
    <3>3. Cardinality(A \ {a}) = n + 1
      BY <1>0, <2>1, <3>2, FS_RemoveElement
    <3>4. A \ {a} \in SUBSET S
      OBVIOUS
    <3>5. Top(A \ {a})
      BY <1>2, <3>3, <3>4
    <3>6. PICK m \in A \ {a} : \A x \in A \ {a} : f[x] <= f[m]
      BY <3>5
    <3>7. f[a] \in Nat /\ f[m] \in Nat
      BY <3>2, <3>6
    <3>8. CASE f[a] <= f[m]
      BY <3>6, <3>8
    <3>9. CASE ~(f[a] <= f[m])
      <4>1. \A x \in A : f[x] <= f[a]
        BY <3>6, <3>7, <3>9
      <4> QED
        BY <3>2, <4>1
    <3> QED
      BY <3>8, <3>9
  <2> QED
    BY <2>1
<1> HIDE DEF T
<1>3. Nat \subseteq T
  BY <1>1, <1>2, SetInduction
<1> USE DEF T
<1>4. PICK n \in Nat : Cardinality(S) = n + 1
  <2>1. Cardinality(S) # 0 /\ Cardinality(S) \in Nat
    BY FS_EmptySet, FS_CardinalityType
  <2>2. Cardinality(S) - 1 \in Nat /\ Cardinality(S) = (Cardinality(S) - 1) + 1
    BY <2>1
  <2> QED
    BY <2>2
<1> QED
  BY <1>3, <1>4

\* A queue that is not empty has an end, in a frame no higher than that of any obligation.
LEMMA PeakExists ==
    ASSUME NEW q, q \subseteq ProofObligations, IsFiniteSet(q), \A o \in q : o.chain # <<>>,
           NEW p \in q
    PROVE  \E o \in Peak(q) : o.frame <= p.frame
<1> DEFINE low == [o \in q |-> (MaxLevel + 1) - o.frame]
           deep == [o \in q |-> Depth(o)]
           short == [o \in q |-> Cardinality(PoState(o))]
<1>1. ASSUME NEW o \in q
      PROVE  /\ o.frame \in Nat /\ o.frame <= MaxLevel + 1 /\ low[o] \in Nat
             /\ Depth(o) \in Nat /\ Cardinality(PoState(o)) \in Nat
  <2>1. PoState(o) \in Cube /\ Depth(o) \in Nat /\ o \in ProofObligations
    BY ObligationType
  <2>2. o.frame \in 0..MaxLevel + 1 /\ MaxLevel \in Nat
    BY <2>1, BoundAssumption DEF ProofObligations
  <2>3. PoState(o) \subseteq State
    BY <2>1, CubeAssumption
  <2>4. Cardinality(PoState(o)) \in Nat
    BY <2>3, FiniteAssumption, FS_Subset, FS_CardinalityType
  <2>5. (MaxLevel + 1) - o.frame \in Nat
    BY <2>2
  <2> QED
    BY <2>1, <2>2, <2>4, <2>5
<1>2. PICK a \in q : \A o \in q : low[o] <= low[a]
  <2>1. \A o \in q : low[o] \in Nat
    BY <1>1
  <2> HIDE DEF low
  <2> QED
    BY <2>1, GreatestOn
<1> DEFINE A == {o \in q : o.frame = a.frame}
<1>3. PICK b \in A : \A o \in A : deep[o] <= deep[b]
  <2>1. \A o \in A : deep[o] \in Nat
    BY <1>1
  <2>2. IsFiniteSet(A) /\ A # {}
    BY FS_Subset
  <2> HIDE DEF A, deep
  <2> QED
    BY <2>1, <2>2, GreatestOn
<1> DEFINE B == {o \in A : Depth(o) = Depth(b)}
<1>4. PICK c \in B : \A o \in B : short[o] <= short[c]
  <2>1. \A o \in B : short[o] \in Nat
    BY <1>1
  <2>2. IsFiniteSet(B) /\ B # {}
    BY FS_Subset
  <2> HIDE DEF B, short
  <2> QED
    BY <2>1, <2>2, GreatestOn
<1>5. c \in q /\ c.frame = a.frame /\ Depth(c) = Depth(b)
  OBVIOUS
<1>6. ASSUME NEW o \in q PROVE a.frame <= o.frame
  <2>1. (MaxLevel + 1) - o.frame <= (MaxLevel + 1) - a.frame
    BY <1>2
  <2> HIDE DEF low, A, B
  <2> QED
    BY <1>1, <2>1, BoundAssumption
<1>7. ASSUME NEW o \in q, Before(o, c) PROVE FALSE
  <2>1. o.frame = c.frame
    BY <1>1, <1>5, <1>6, <1>7 DEF Before
  <2>2. Depth(o) <= Depth(b)
    BY <1>3, <1>5, <2>1
  <2>3. Depth(o) = Depth(c) /\ Cardinality(PoState(o)) > Cardinality(PoState(c))
    BY <1>1, <1>5, <1>7, <2>1, <2>2 DEF Before
  <2>4. Cardinality(PoState(o)) <= Cardinality(PoState(c))
    BY <1>4, <1>5, <2>1, <2>3
  <2> QED
    BY <1>1, <1>5, <2>3, <2>4
<1> QED
  BY <1>5, <1>6, <1>7 DEF Peak

\* No two queued obligations have the same state, nor has one the state of the obligation in
\* hand, and the queue is finite, so that its end exists.
Queue ==
    /\ IsFiniteSet(obl) /\ ~clash
    /\ \A o, p \in obl : PoState(o) = PoState(p) => o = p
    /\ Generalizing => \A o \in obl : PoState(o) # PoState(cur)

\* The queue after a step that puts in no obligation.
LEMMA QueueShrinks ==
    ASSUME Queue, obl' \subseteq obl, clash' = clash,
           Generalizing' => \/ Generalizing /\ cur' = cur
                            \/ cur' \in obl /\ cur' \notin obl'
    PROVE  Queue'
<1>1. IsFiniteSet(obl') /\ ~clash'
  BY FS_Subset DEF Queue
<1>2. \A o, p \in obl' : PoState(o) = PoState(p) => o = p
  BY DEF Queue
<1>3. Generalizing' => \A o \in obl' : PoState(o) # PoState(cur')
  BY DEF Queue
<1> QED
  BY <1>1, <1>2, <1>3 DEF Queue, PoState

\* The queue after an obligation with a state of its own has been put in.
LEMMA QueueGrows ==
    ASSUME Queue, NEW q \in SUBSET obl, NEW n, \A o \in q : PoState(o) # PoState(n),
           AddObligation(q, n), ~Generalizing'
    PROVE  Queue'
<1>1. obl' = q \cup {n} /\ IsFiniteSet(q)
  BY FS_Subset DEF Queue, AddObligation
<1>2. IsFiniteSet(obl')
  BY <1>1, FS_AddElement
<1>3. ~clash'
  BY DEF Queue, AddObligation, SameKey
<1>4. \A o, p \in obl' : PoState(o) = PoState(p) => o = p
  BY <1>1 DEF Queue
<1> QED
  BY <1>2, <1>3, <1>4 DEF Queue, PoState

\* A cube that meets the frame of the lowest queued obligation belongs to none of them: they
\* are blocked in it.
LEMMA CubeNotQueued ==
    ASSUME TypeOK, Shape, FramesSound, Obligations,
           NEW c, NEW f \in 0..level, c \cap Frame(f) # {},
           NEW o \in obl, o.frame > f
    PROVE  PoState(o) # c
<1>1. o.frame \in Nat /\ o.frame <= level + 1 /\ level \in Nat /\ o.frame # 0
  BY Ranges, ObligationType DEF TypeOK, Shape, ProofObligations
<1>2. o.frame - 1 \in 0..level /\ f <= o.frame - 1
  BY <1>1
<1>3. PoState(o) \cap Frame(o.frame - 1) = {}
  BY <1>1 DEF Obligations, Placed
<1>4. Frame(f) \subseteq Frame(o.frame - 1)
  BY <1>2 DEF FramesSound, Nested
<1> QED
  BY <1>3, <1>4

\* Every step keeps the queued obligations apart.
LEMMA QueueStep ==
    ASSUME TypeOK, Shape, FramesSound, Obligations, Queue, [Next]_vars
    PROVE  Queue'
<1>0. obl \subseteq ProofObligations /\ \A o \in obl : o.chain # <<>>
  BY DEF TypeOK, Shape, ProofObligations
<1>1. CASE BlockFailure
  <2>1. PICK o \in Poppable : AddObligation(obl \ {o}, o)
    BY <1>1 DEF BlockFailure
  <2>2. o \in obl
    BY DEF Poppable, Peak
  <2>3. \A p \in obl \ {o} : PoState(p) # PoState(o)
    BY <2>2 DEF Queue
  <2>4. ~Generalizing'
    BY <1>1 DEF BlockFailure, Finish, Generalizing
  <2>5. obl \ {o} \in SUBSET obl
    OBVIOUS
  <2> QED
    BY <2>1, <2>3, <2>4, <2>5, QueueGrows
<1>2. ASSUME NEW o \in Poppable, BlockContained(o) PROVE Queue'
  <2>1. PICK f \in Nat : AddObligation(obl \ {o}, PushTo(o, f)) /\ pc' = pc /\ pc = "block"
    <3>1. PICK bf \in ContainedAt(o.frame, PoState(o)) :
              AddObligation(obl \ {o}, PushTo(o, bf + 1))
      BY <1>2 DEF BlockContained
    <3>2. o.frame \in Nat /\ level \in Nat
      BY <1>2, PoppedObligation, ObligationType, Ranges DEF BlockContained
    <3>3. bf + 1 \in Nat
      BY <3>2 DEF ContainedAt
    <3> QED
      BY <1>2, <3>1, <3>3 DEF BlockContained, Popped
  <2>2. o \in obl
    BY DEF Poppable, Peak
  <2>3. PoState(PushTo(o, f)) = PoState(o)
    BY DEF PushTo, PoState
  <2>4. \A p \in obl \ {o} : PoState(p) # PoState(PushTo(o, f))
    BY <2>2, <2>3 DEF Queue
  <2>5. ~Generalizing' /\ obl \ {o} \in SUBSET obl
    BY <2>1 DEF Generalizing
  <2> QED
    BY <2>1, <2>4, <2>5, QueueGrows
<1>3. ASSUME NEW o \in Poppable, BlockPred(o) PROVE Queue'
  <2>1. /\ o \in obl /\ o \in ProofObligations /\ o.chain # <<>>
        /\ o.frame \in 1..level /\ level \in Nat
    BY <1>3, PoppedObligation, Ranges DEF BlockPred
  <2>2. PICK p \in Pred(Frame(o.frame - 1), PoState(o)) :
            AddObligation(obl, Po(o.frame - 1, <<p>> \o o.chain))
    <3>1. PICK p \in Pred(Frame(o.frame - 1), PoState(o)) :
            LET new == Po(o.frame - 1, <<p>> \o o.chain)
            IN  /\ obl' = obl \cup {new}
                /\ clash' = (clash \/ \E q \in obl : SameKey(q, new))
      BY <1>3 DEF BlockPred
    <3> DEFINE new == Po(o.frame - 1, <<p>> \o o.chain)
    <3>2. obl' = obl \cup {new} /\ clash' = (clash \/ \E q \in obl : SameKey(q, new))
      BY <3>1
    <3> HIDE DEF new
    <3>3. (\E q \in obl : SameKey(q, new)) <=> (\E q \in obl : SameKey(new, q))
      BY DEF SameKey
    <3>4. AddObligation(obl, new)
      BY <3>2, <3>3, Zenon DEF AddObligation
    <3> USE DEF new
    <3> QED
      BY <3>4
  <2> DEFINE n == Po(o.frame - 1, <<p>> \o o.chain)
  <2>3. p \in Cube /\ p \cap Frame(o.frame - 1) # {}
    BY DEF Pred
  <2>4. PoState(n) = p
    <3>1. o.frame - 1 \in 0..MaxLevel + 1
      BY <2>1, Ranges
    <3> QED
      BY <2>1, <2>3, <3>1, ChainExtended
  <2>5. ASSUME NEW q \in obl PROVE PoState(q) # p
    <3>1. ~Before(q, o)
      BY DEF Poppable, Peak
    <3>2. q.frame \in Nat
      BY <1>0, ObligationType
    <3>3. q.frame > o.frame - 1 /\ o.frame - 1 \in 0..level
      BY <2>1, <3>1, <3>2 DEF Before
    <3> QED
      BY <2>3, <3>3, CubeNotQueued
  <2>6. ~Generalizing' /\ obl \in SUBSET obl
    BY <1>3 DEF BlockPred, Popped, Generalizing
  <2> HIDE DEF n
  <2>7. AddObligation(obl, n)
    BY <2>2 DEF n
  <2> QED
    BY <2>4, <2>5, <2>6, <2>7, QueueGrows
<1>4. ASSUME NEW o \in Poppable, BlockGeneralize(o) PROVE Queue'
  <2>1. o \in obl
    BY DEF Poppable, Peak
  <2>2. obl' = obl \ {o} /\ cur' = o /\ clash' = clash
    BY <1>4 DEF BlockGeneralize
  <2>3. \A p \in obl' : PoState(p) # PoState(cur')
    BY <2>1, <2>2 DEF Queue
  <2> QED
    BY <2>1, <2>2, QueueShrinks
<1>5. CASE GetBad
  <2>1. PICK b \in Cube : b \cap Frame(level) # {} /\ AddObligation(obl, Po(level, <<b>>))
    BY <1>5 DEF GetBad
  <2>2. PoState(Po(level, <<b>>)) = b
    BY DEF Po, PoState
  <2>3. ASSUME NEW q \in obl PROVE PoState(q) # b
    <3>1. PICK o \in Peak(obl) : o.frame <= q.frame
      BY <1>0, PeakExists DEF Queue
    <3>2. o \in obl /\ ~(o.frame <= level)
      BY <1>5, <3>1 DEF GetBad, Poppable, Peak
    <3>3. o.frame \in Nat /\ q.frame \in Nat /\ level \in Nat
      BY <1>0, <3>2, ObligationType, Ranges
    <3>4. q.frame > level /\ level \in 0..level
      BY <3>1, <3>2, <3>3
    <3> QED
      BY <2>1, <3>4, CubeNotQueued
  <2>4. ~Generalizing' /\ obl \in SUBSET obl
    BY <1>5 DEF GetBad, Generalizing
  <2> QED
    BY <2>1, <2>2, <2>3, <2>4, QueueGrows
<1>6. CASE BlockedLemma
  <2>1. AddObligation(obl, PushTo(cur, idx + 1)) /\ Generalizing
    BY <1>6 DEF BlockedLemma, Generalizing
  <2>2. PoState(PushTo(cur, idx + 1)) = PoState(cur)
    BY DEF PushTo, PoState
  <2>3. \A p \in obl : PoState(p) # PoState(PushTo(cur, idx + 1))
    BY <2>1, <2>2 DEF Queue
  <2>4. ~Generalizing' /\ obl \in SUBSET obl
    BY <1>6 DEF BlockedLemma, Finish, Generalizing
  <2> QED
    BY <2>1, <2>3, <2>4, QueueGrows
<1>7. ASSUME NEW l \in todo, PropPush(l) PROVE Queue'
  <2>1. pc' = pc /\ ~Generalizing' /\ MovePo(l)
    BY <1>7 DEF PropPush, InHand, Generalizing
  <2>2. CASE obl' = obl /\ clash' = clash
    BY <2>1, <2>2, QueueShrinks
  <2>3. CASE \E o \in PoOf(l) : AddObligation(obl \ {o}, PushTo(o, idx + 2))
    <3>1. PICK o \in PoOf(l) : AddObligation(obl \ {o}, PushTo(o, idx + 2))
      BY <2>3
    <3>2. o \in obl /\ PoState(PushTo(o, idx + 2)) = PoState(o)
      BY DEF PoOf, PushTo, PoState
    <3>3. \A p \in obl \ {o} : PoState(p) # PoState(PushTo(o, idx + 2))
      BY <3>2 DEF Queue
    <3>4. obl \ {o} \in SUBSET obl
      OBVIOUS
    <3> QED
      BY <2>1, <3>1, <3>3, <3>4, QueueGrows
  <2> QED
    BY <2>1, <2>2, <2>3 DEF MovePo
<1>8. ASSUME \/ BlockInterrupted \/ Extend \/ PropSkip \/ PropNext \/ InfMove \/ InfKeep \/ InfDone
             \/ \E o \in Poppable : BlockContainedInf(o) \/ BlockDrop(o)
             \/ \E l \in todo : PropCtp(l) \/ PropKeep(l)
      PROVE  Queue'
  <2>1. obl' \subseteq obl /\ clash' = clash
    BY <1>8 DEF BlockInterrupted, Extend, PropSkip, PropNext, InfMove, InfKeep, InfDone,
                BlockContainedInf, BlockDrop, PropCtp, PropKeep
  <2>2. ~Generalizing'
    BY <1>8 DEF BlockInterrupted, Extend, EnterFrame, PropSkip, PropNext, InfMove, InfKeep,
                InfDone, BlockContainedInf, BlockDrop, Popped, PropCtp, PropKeep, InHand, Finish,
                Generalizing
  <2> QED
    BY <2>1, <2>2, QueueShrinks
<1>9. ASSUME MicDrop \/ CtgBlock \/ CtgPush \/ CtgAdd \/ MicDone \/ PushLemma
      PROVE  Queue'
  <2>1. obl' = obl /\ clash' = clash /\ cur' = cur /\ Generalizing
    BY <1>9 DEF MicDrop, CtgBlock, CtgPush, CtgAdd, MicDone, PushLemma, Generalizing
  <2> QED
    BY <2>1, QueueShrinks
<1>10. CASE UNCHANGED vars
  <2>1. obl' = obl /\ clash' = clash /\ cur' = cur /\ pc' = pc
    BY <1>10 DEF vars
  <2> QED
    BY <2>1, QueueShrinks DEF Generalizing
<1> QED
  BY <1>1, <1>2, <1>3, <1>4, <1>5, <1>6, <1>7, <1>8, <1>9, <1>10
     DEF Next, Work, BlockStep, MicStep, PropagateStep, Returned

\* No two queued obligations have the same state, and the assert! of ProofObligationQueue::add
\* never fails, wherever an obligation is created, moved or put back.
THEOREM ObligationsApart == Spec => []ObligationsDistinct
<1>1. Init => Queue
  BY FS_EmptySet DEF Init, Queue, Generalizing
<1>2. IInv /\ Queue /\ [Next]_vars => Queue'
  BY QueueStep DEF IInv
<1>3. Queue => ObligationsDistinct
  BY DEF Queue, ObligationsDistinct
<1>4. Spec => []Queue
  BY <1>1, <1>2, Invariance, PTL DEF Spec
<1> QED
  BY <1>3, <1>4, PTL

(***************************************************************************)
(* The last frame and the infinity frame.                                   *)
(***************************************************************************)

\* While propagate runs no lemma of the last frame is subsumed by another one of it or by one
\* of the infinity frame.
LastFrameMinimal ==
    pc \in {"prop", "inf"} =>
        \A l \in frames[level] : /\ \A m \in inf : ~(l \subseteq m)
                                 /\ \A m \in frames[level] : l \subseteq m => l = m

\* A lemma that nothing subsumes from its frame on takes the place of those it subsumes there.
LEMMA SubsumedReplaced ==
    ASSUME TypeOK, NEW f \in 1..level, NEW c \in Cube, NEW r \in Added(f, c),
           \A l \in frames[f] : ~(c \subseteq l)
    PROVE  r.frames[f] = {l \in frames[f] : ~(l \subseteq c)} \cup {c}
<1> DEFINE stop == StopOr0(f, c)
<1>0. /\ f \in Nat /\ f \in Levels /\ f > 0
      /\ frames \in [Levels -> SUBSET Cube]
  BY BoundAssumption DEF TypeOK, Levels
<1>1. stop \in 0..f - 1
  <2>1. stop \in 0..f /\ (stop > 0 => \E l \in frames[stop] : c \subseteq l)
    BY <1>0, StopsAtSubsuming
  <2>2. stop # f
    BY <1>0, <2>1
  <2> QED
    BY <1>0, <2>1, <2>2
<1>2. \E gone : r.frames = Spliced(f, c, stop, gone)
  <2> DEFINE Subsumed == IF stop = 0 THEN {} ELSE {l \in frames[stop] : l \subseteq c /\ l # c}
  <2>1. CASE r \in {[frames |-> Spliced(f, c, stop, gone \cup {c}),
                    found |-> Spliced(f, c, stop, gone \cup {c})[stop] = {}] :
                       gone \in SUBSET Subsumed}
    <3>1. PICK gone \in SUBSET Subsumed :
            r = [frames |-> Spliced(f, c, stop, gone \cup {c}),
                 found |-> Spliced(f, c, stop, gone \cup {c})[stop] = {}]
      BY <2>1
    <3>2. r.frames = Spliced(f, c, stop, gone \cup {c})
      BY <3>1
    <3> QED
      BY <3>2
  <2>2. CASE r \in {[frames |-> Spliced(f, c, stop, gone),
                    found |-> \E i \in stop + 1..f - 1 : Spliced(f, c, stop, gone)[i] = {}] :
                       gone \in SUBSET Subsumed}
    <3>1. PICK gone \in SUBSET Subsumed :
            r = [frames |-> Spliced(f, c, stop, gone),
                 found |-> \E i \in stop + 1..f - 1 : Spliced(f, c, stop, gone)[i] = {}]
      BY <2>2
    <3>2. r.frames = Spliced(f, c, stop, gone)
      BY <3>1
    <3> QED
      BY <3>2
  <2> QED
    BY <2>1, <2>2 DEF Added
<1>3. PICK gone : r.frames = Spliced(f, c, stop, gone)
  BY <1>2
<1>4. r.frames[f] = (frames[f] \ {l \in frames[f] : l \subseteq c}) \cup {c}
  <2>1. f \in stop + 1..f
    BY <1>0, <1>1
  <2> QED
    BY <1>0, <1>3, <2>1 DEF Spliced
<1> QED
  BY <1>4

\* Every step keeps the last frame minimal: propagate skips a lemma that is contained there
\* and add_lemma removes those that the new one subsumes.
LEMMA LastFrameStep ==
    ASSUME TypeOK, Shape, LastFrameMinimal, [Next]_vars
    PROVE  LastFrameMinimal'
<1> USE DEF lemmaVars, micVars, propVars
<1>0. level \in Nat /\ level \in Levels /\ level <= MaxLevel /\ MaxLevel \in Nat
  BY Ranges DEF TypeOK
<1>1. CASE Extend
  <2>1. level' = level + 1 /\ frames' = frames /\ level < MaxLevel
    BY <1>1 DEF Extend
  <2>2. frames'[level'] = {}
    BY <1>0, <2>1 DEF Shape
  <2> QED
    BY <2>2 DEF LastFrameMinimal
<1>2. ASSUME NEW l \in todo, PropPush(l) PROVE LastFrameMinimal'
  <2>1. pc = "prop" /\ level' = level /\ inf' = inf /\ idx \in Nat /\ idx + 1 \in 1..level
    BY <1>0, <1>2, Ranges DEF PropPush, InHand
  <2>2. PICK c \in Core(Frame(idx), l) : AddUncontained(c)
    BY <1>2 DEF PropPush
  <2>3. c \in Cube
    BY DEF Core
  <2>4. CASE TrivialContained(idx + 1, c)
    BY <2>1, <2>2, <2>4 DEF AddUncontained, LastFrameMinimal
  <2>5. CASE ~TrivialContained(idx + 1, c)
    <3>1. PICK r \in Added(idx + 1, c) : frames' = r.frames
      BY <2>2, <2>5 DEF AddUncontained
    <3>2. CASE idx + 1 = level
      <4>1. \A m \in frames[level] \cup inf : ~(c \subseteq m)
        <5>1. LemmasFrom(level) = frames[level]
          BY <1>0 DEF LemmasFrom
        <5> QED
          BY <2>5, <3>2, <5>1 DEF TrivialContained
      <4>2. frames'[level] = {m \in frames[level] : ~(m \subseteq c)} \cup {c}
        BY <2>1, <2>3, <3>1, <3>2, <4>1, SubsumedReplaced
      <4>3. \A m \in frames[level] : /\ \A n \in inf : ~(m \subseteq n)
                                     /\ \A n \in frames[level] : m \subseteq n => m = n
        BY <2>1 DEF LastFrameMinimal
      <4>4. \A m \in frames'[level] : \A n \in inf : ~(m \subseteq n)
        BY <4>1, <4>2, <4>3
      <4>5. \A m, n \in frames'[level] : m \subseteq n => m = n
        BY <4>1, <4>2, <4>3
      <4> QED
        BY <2>1, <4>4, <4>5 DEF LastFrameMinimal
    <3>3. CASE idx + 1 # level
      <4>1. frames'[level] = frames[level]
        BY <1>0, <2>1, <2>3, <3>1, <3>3, LemmasMoved
      <4> QED
        BY <2>1, <4>1 DEF LastFrameMinimal
    <3> QED
      BY <3>2, <3>3
  <2> QED
    BY <2>4, <2>5
<1>3. ASSUME NEW l \in todo, PropCtp(l) PROVE LastFrameMinimal'
  <2>1. /\ pc = "prop" /\ level' = level /\ inf' = inf /\ idx \in 1..level /\ idx < level
        /\ idx \in Nat
    BY <1>0, <1>3, Ranges DEF PropCtp, InHand
  <2>2. PICK g \in Cube : \E r \in Added(idx, g) : frames' = r.frames
    BY <1>3 DEF PropCtp
  <2>3. frames'[level] = frames[level]
    BY <1>0, <2>1, <2>2, LemmasMoved
  <2> QED
    BY <2>1, <2>3 DEF LastFrameMinimal
<1>4. CASE InfMove
  <2>1. PICK l \in todo : /\ inf' = inf \cup {l}
                         /\ frames' = [frames EXCEPT ![level] = @ \ {l}]
    BY <1>4 DEF InfMove
  <2>2. level' = level /\ pc = "inf" /\ l \in frames[level]
    BY <1>4 DEF InfMove, Shape
  <2>3. frames'[level] = frames[level] \ {l}
    BY <1>0, <2>1 DEF TypeOK
  <2> QED
    BY <2>1, <2>2, <2>3 DEF LastFrameMinimal
<1>5. ASSUME \/ PropSkip \/ PropNext \/ InfKeep
             \/ \E l \in todo : PropKeep(l)
             \/ UNCHANGED vars
      PROVE  LastFrameMinimal'
  <2>1. UNCHANGED <<level, frames, inf>> /\ (pc' \in {"prop", "inf"} => pc \in {"prop", "inf"})
    BY <1>5 DEF PropSkip, PropNext, InfKeep, PropKeep, InHand, vars
  <2> QED
    BY <2>1 DEF LastFrameMinimal
<1>6. ASSUME \/ BlockStep \/ MicStep \/ GetBad \/ BlockInterrupted \/ InfDone
      PROVE  LastFrameMinimal'
  <2>1. pc' \in {"block", "mic", "ctg", "push", "done"}
    BY <1>6 DEF BlockStep, MicStep, GetBad, BlockInterrupted, InfDone, BlockFailure, BlockContained,
                BlockContainedInf, BlockDrop, BlockPred, BlockGeneralize, Popped, MicDrop, CtgBlock,
                CtgPush, CtgAdd, MicDone, PushLemma, BlockedLemma, Finish
  <2> QED
    BY <2>1 DEF LastFrameMinimal
<1> QED
  BY <1>1, <1>2, <1>3, <1>4, <1>5, <1>6 DEF Next, Work, PropagateStep, Returned

\* The assertions of add_inf_lemma never fail: the lemma that propagate_to_inf moves is in the
\* last frame and no lemma of the infinity frame subsumes it, those it has just moved included.
THEOREM InfLemmasFresh == Spec => []InfLemmasNew
<1>1. Init => LastFrameMinimal
  BY DEF Init, LastFrameMinimal
<1>2. IInv /\ LastFrameMinimal /\ [Next]_vars => LastFrameMinimal'
  BY LastFrameStep DEF IInv
<1>3. IInv /\ LastFrameMinimal => InfLemmasNew
  BY DEF IInv, Shape, LastFrameMinimal, InfLemmasNew
<1>4. Spec => []LastFrameMinimal
  BY <1>1, <1>2, Invariance, PTL DEF Spec
<1> QED
  BY <1>3, <1>4, Invariance, PTL

(***************************************************************************)
(* The answers and the paths of the transition system.                      *)
(***************************************************************************)

\* The paths of n steps that start in an initial state, and whether one ends in a bad state.
Paths(n) ==
    {p \in [0..n -> State] : p[0] \in InitStates /\ \A i \in 0..n - 1 : p[i + 1] \in Trans[p[i]]}
BadAfter(n) == \E p \in Paths(n) : p[n] \in Bad

\* A path stays in a set that holds initially and is closed under the transitions.
LEMMA PathsInClosed ==
    ASSUME NEW S, InitStates \subseteq S, \A s \in S : Trans[s] \subseteq S,
           NEW n \in Nat, NEW p \in Paths(n)
    PROVE  p[n] \in S
<1> DEFINE T == {i \in Nat : i <= n => p[i] \in S}
<1>1. 0 \in T
  BY DEF Paths
<1>2. ASSUME NEW i \in Nat, i \in T PROVE i + 1 \in T
  <2>1. ASSUME i + 1 <= n PROVE p[i + 1] \in S
    <3>1. i <= n /\ i \in 0..n - 1
      BY <2>1
    <3>2. p[i] \in S /\ p[i + 1] \in Trans[p[i]]
      BY <1>2, <3>1 DEF Paths
    <3> QED
      BY <3>2
  <2> QED
    BY <2>1
<1> HIDE DEF T
<1>3. Nat \subseteq T
  BY <1>1, <1>2, SetInduction
<1> USE DEF T
<1> QED
  BY <1>3

\* An obligation that meets the initial states has a path of its depth to a bad state.
LEMMA ChainPath ==
    ASSUME NEW o \in ProofObligations, o.chain # <<>>, ChainReal(o), MeetsInit(PoState(o))
    PROVE  BadAfter(Depth(o))
<1> DEFINE n == Depth(o)
           T == {i \in Nat : i <= n => \E p \in Paths(i) : p[i] \in o.chain[i + 1]}
<1>0. /\ n \in Nat /\ Len(o.chain) = n + 1
      /\ PoState(o) = o.chain[1]
      /\ \A i \in 1..n + 1 : o.chain[i] \in Cube
  BY DEF ProofObligations, PoState, Depth
<1>1. 0 \in T
  <2>1. PICK s \in o.chain[1] : s \in InitStates
    BY <1>0 DEF MeetsInit
  <2> DEFINE p == [i \in 0..0 |-> s]
  <2>2. p \in Paths(0) /\ p[0] = s
    BY <2>1 DEF Paths, InitStates
  <2> HIDE DEF p
  <2> QED
    BY <2>1, <2>2
<1>2. ASSUME NEW i \in Nat, i \in T PROVE i + 1 \in T
  <2>1. ASSUME i + 1 <= n
        PROVE  \E q \in Paths(i + 1) : q[i + 1] \in o.chain[(i + 1) + 1]
    <3>1. i <= n /\ i + 1 \in 1..Len(o.chain) - 1 /\ (i + 1) + 1 \in 1..n + 1
      BY <1>0, <2>1
    <3>2. PICK p \in Paths(i) : p[i] \in o.chain[i + 1]
      BY <1>2, <3>1
    <3>3. p[i] \in Pre(o.chain[(i + 1) + 1])
      BY <3>1, <3>2 DEF ChainReal
    <3>4. PICK s \in Trans[p[i]] : s \in o.chain[(i + 1) + 1]
      BY <3>3 DEF Pre
    <3>5. s \in State
      BY <1>0, <3>1, <3>4, CubeAssumption
    <3> DEFINE q == [j \in 0..i + 1 |-> IF j = i + 1 THEN s ELSE p[j]]
    <3>6. /\ p \in [0..i -> State] /\ p[0] \in InitStates
          /\ \A j \in 0..i - 1 : p[j + 1] \in Trans[p[j]]
      BY DEF Paths
    <3>7. q \in [0..i + 1 -> State] /\ q[0] = p[0] /\ q[i + 1] = s
      BY <3>5, <3>6
    <3>8. ASSUME NEW j \in 0..(i + 1) - 1 PROVE q[j + 1] \in Trans[q[j]]
      <4>1. CASE j = i
        BY <3>4, <4>1
      <4>2. CASE j # i
        <5>1. j \in 0..i - 1 /\ j + 1 \in 0..i + 1 /\ j \in 0..i + 1 /\ j # i + 1 /\ j + 1 # i + 1
          BY <4>2
        <5>2. q[j + 1] = p[j + 1] /\ q[j] = p[j]
          BY <5>1
        <5> QED
          BY <3>6, <5>1, <5>2
      <4> QED
        BY <4>1, <4>2
    <3> HIDE DEF q
    <3>9. q \in Paths(i + 1)
      BY <3>6, <3>7, <3>8 DEF Paths
    <3> QED
      BY <3>4, <3>7, <3>9
  <2> HIDE DEF n
  <2> QED
    BY <2>1
<1> HIDE DEF T
<1>3. Nat \subseteq T
  BY <1>1, <1>2, SetInduction
<1> USE DEF T
<1>4. PICK p \in Paths(n) : p[n] \in o.chain[n + 1]
  BY <1>0, <1>3
<1>5. o.chain[n + 1] \subseteq Bad
  BY <1>0 DEF ChainReal
<1> QED
  BY <1>4, <1>5 DEF BadAfter

\* With an empty frame there is a first one, so the certificate exists.
LEMMA FirstEmptyExists ==
    ASSUME level \in Nat, NEW i \in 0..level, frames[i] = {}
    PROVE  \E k \in 0..level : FirstEmpty(k)
<1> DEFINE E == {k \in 0..level : frames[k] = {}}
           below == [k \in E |-> level - k]
<1>1. IsFiniteSet(E) /\ E # {}
  <2>1. IsFiniteSet(0..level)
    BY FS_Interval
  <2>2. E \in SUBSET (0..level) /\ i \in E
    OBVIOUS
  <2> HIDE DEF E
  <2> QED
    BY <2>1, <2>2, FS_Subset
<1>2. \A k \in E : below[k] \in Nat
  OBVIOUS
<1>3. PICK k \in E : \A j \in E : below[j] <= below[k]
  <2> HIDE DEF E, below
  <2> QED
    BY <1>1, <1>2, GreatestOn
<1>4. \A j \in E : k <= j
  <2>1. ASSUME NEW j \in E PROVE k <= j
    <3>1. level - j <= level - k /\ j \in 0..level /\ k \in 0..level
      BY <1>3
    <3> QED
      BY <3>1
  <2> QED
    BY <2>1
<1>5. \A j \in 0..k - 1 : frames[j] # {}
  <2>1. ASSUME NEW j \in 0..k - 1, frames[j] = {} PROVE FALSE
    <3>1. j \in E /\ ~(k <= j)
      BY <2>1
    <3> QED
      BY <1>4, <3>1
  <2> QED
    BY <2>1
<1> QED
  BY <1>5 DEF FirstEmpty

\* What the answers mean for the transition system: UNSAT, that no path from an initial state
\* reaches a bad one; SAT, that one of the reported depth does.
AnswerTrue ==
    /\ res.kind = "UNSAT" => \A n \in Nat : ~BadAfter(n)
    /\ res.kind = "SAT" => BadAfter(res.depth)

\* Both answers of the engine are true of the transition system.
THEOREM AnswersTrue == Spec => []AnswerTrue
<1>1. IInv /\ UnsatCertified => AnswerTrue
  <2> SUFFICES ASSUME IInv, UnsatCertified PROVE AnswerTrue
    OBVIOUS
  <2>1. ASSUME res.kind = "UNSAT", NEW n \in Nat, BadAfter(n) PROVE FALSE
    <3>1. level \in Nat
      BY Ranges DEF IInv
    <3>2. \E i \in 0..level : frames[i] = {}
      BY <2>1 DEF UnsatCertified
    <3>3. PICK k \in 0..level : FirstEmpty(k)
      BY <3>1, <3>2, FirstEmptyExists
    <3>4. /\ InitStates \subseteq Certificate(k)
          /\ Blocked(Certificate(k), State \ Certificate(k))
          /\ Certificate(k) \cap Bad = {}
      BY <2>1, <3>3 DEF UnsatCertified
    <3>5. \A s \in Certificate(k) : Trans[s] \subseteq Certificate(k)
      <4>1. \A s \in Certificate(k) : Trans[s] \subseteq State
        BY StateAssumption DEF Certificate
      <4> QED
        BY <3>4, <4>1 DEF Blocked
    <3>6. PICK p \in Paths(n) : p[n] \in Bad
      BY <2>1 DEF BadAfter
    <3>7. p[n] \in Certificate(k)
      BY <3>4, <3>5, <3>6, PathsInClosed
    <3> QED
      BY <3>4, <3>6, <3>7
  <2>2. ASSUME res.kind = "SAT" PROVE BadAfter(res.depth)
    <3>1. Peak(obl) # {} /\ CexReal
      BY <2>2 DEF IInv, CexReal
    <3>2. PICK o \in Peak(obl) : TRUE
      BY <3>1
    <3>3. o \in ProofObligations /\ o.chain # <<>>
      BY <3>2 DEF Peak, IInv, TypeOK, Shape, ProofObligations
    <3>4. Depth(o) = res.depth /\ MeetsInit(PoState(o)) /\ ChainReal(o)
      BY <2>2, <3>1, <3>2 DEF CexReal, ChainReal
    <3> QED
      BY <3>3, <3>4, ChainPath
  <2> QED
    BY <2>1, <2>2 DEF AnswerTrue
<1> QED
  BY <1>1, Invariance, UnsatSound, PTL
=============================================================================
