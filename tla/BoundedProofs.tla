--------------------------- MODULE BoundedProofs ---------------------------
(***************************************************************************)
(* What the engines that unroll promise, for every system and every option: *)
(* a counterexample is a run, a bound that is reported has been checked,    *)
(* k-induction is sound and, with simple paths, complete, and the           *)
(* certificate it builds is an inductive invariant.                         *)
(***************************************************************************)
EXTENDS Bounded, FiniteSetTheorems, SequenceTheorems, WellFoundedInduction, TLAPS

(***************************************************************************)
(* Induction over the natural numbers, for a set in the place of a          *)
(* predicate.                                                               *)
(***************************************************************************)

\* A set of natural numbers has a least element.
LEMMA LeastNumber ==
    ASSUME NEW S, S \subseteq Nat, S # {}
    PROVE  \E m \in S : \A x \in S : m <= x
<1> DEFINE R == OpToRel(<, Nat)
<1>1. \A x, y \in Nat : y < x => <<y, x>> \in R
  BY Zenon DEF OpToRel
<1>2. IsWellFoundedOn(R, Nat)
  BY NatLessThanWellFounded, Zenon
<1> HIDE DEF R
<1>3. \E m \in S : \A x \in S : ~(<<x, m>> \in R)
  BY <1>2, WFMin
<1>4. PICK m \in S : \A x \in S : ~(<<x, m>> \in R)
  BY <1>3
<1>5. ASSUME NEW x \in S PROVE m <= x
  <2>1. x \in Nat /\ m \in Nat /\ ~(x < m)
    BY <1>1, <1>4
  <2> QED
    BY <2>1
<1> QED
  BY <1>5

LEMMA SetInduction ==
    ASSUME NEW T, 0 \in T, \A n \in Nat : n \in T => n + 1 \in T
    PROVE  Nat \subseteq T
<1> SUFFICES ASSUME Nat \ T # {} PROVE FALSE
  OBVIOUS
<1>1. PICK m \in Nat \ T : \A x \in Nat \ T : m <= x
  BY LeastNumber
<1>2. m - 1 \in Nat /\ m = (m - 1) + 1 /\ ~(m <= m - 1)
  <2>1. m # 0 /\ m \in Nat
    BY <1>1
  <2> QED
    BY <2>1
<1>3. m - 1 \in T
  BY <1>1, <1>2
<1> QED
  BY <1>1, <1>2, <1>3

-----------------------------------------------------------------------------
(***************************************************************************)
(* Runs and failures of a system, as sequences of steps.                    *)
(***************************************************************************)

StepsOf(s) == System[s].states \X System[s].inputs
AllBads(s) == DOMAIN System[s].bads
Wrong(s, P, x) == \E p \in P : x \in System[s].bads[p]

TargetOf(s, c) == IF c.prop = 0 THEN AllBads(s) ELSE {c.prop}
ExcludedOf(s, c) == IF c.prop = 0 \/ c.local THEN AllBads(s) ELSE {c.prop}

\* Steps in a row, each within the constraints, and its state the one the last leads to.
Run(s, q) ==
    /\ q \in Seq(StepsOf(s))
    /\ \A i \in 1..Len(q) : q[i] \in System[s].cons
    /\ \A i \in 1..Len(q) - 1 : q[i + 1][1] = System[s].next[q[i]]

\* A run from the initial states that violates the property in question after d steps; in a
\* local proof the other properties hold before.
Failure(s, c, d, q) ==
    /\ Run(s, q) /\ Len(q) = d + 1
    /\ q[1][1] \in System[s].init
    /\ Wrong(s, TargetOf(s, c), q[d + 1])
    /\ c.local => \A i \in 1..d : ~Wrong(s, AllBads(s), q[i])
Fails(s, c, d) == \E q : Failure(s, c, d, q)

\* n good steps in a row are not followed by a bad one.
StepClosed(s, c, n) ==
    \A q : /\ Run(s, q) /\ Len(q) = n + 1
           /\ \A i \in 1..n : ~Wrong(s, ExcludedOf(s, c), q[i])
           /\ c.simple => \A i, j \in 1..n + 1 : i < j => q[i][1] # q[j][1]
           => ~Wrong(s, TargetOf(s, c), q[n + 1])

\* A part of a run is a run.
LEMMA PartOfRun ==
    ASSUME NEW s, NEW q, Run(s, q), NEW m \in 1..Len(q), NEW n \in m..Len(q)
    PROVE  /\ Run(s, SubSeq(q, m, n))
           /\ Len(SubSeq(q, m, n)) = n - m + 1
           /\ \A i \in 1..n - m + 1 : SubSeq(q, m, n)[i] = q[m + i - 1]
<1> DEFINE r == SubSeq(q, m, n)
<1>0. q \in Seq(StepsOf(s)) /\ Len(q) \in Nat /\ m \in Nat /\ n \in Nat /\ m <= n /\ m > 0
  BY LenProperties DEF Run
<1>1. \A i \in m..n : q[i] \in StepsOf(s)
  BY <1>0, ElementOfSeq
<1>2. /\ r \in Seq(StepsOf(s)) /\ Len(r) = n - m + 1
      /\ \A i \in 1..n - m + 1 : r[i] = q[m + i - 1]
  BY <1>0, <1>1, SubSeqProperties
<1> HIDE DEF r
<1>3. \A i \in 1..n - m + 1 : r[i] \in System[s].cons
  <2>1. \A i \in 1..n - m + 1 : m + i - 1 \in 1..Len(q)
    BY <1>0
  <2> QED
    BY <1>2, <2>1 DEF Run
<1>4. ASSUME NEW i \in 1..(n - m + 1) - 1 PROVE r[i + 1][1] = System[s].next[r[i]]
  <2>1. /\ i \in 1..n - m + 1 /\ i + 1 \in 1..n - m + 1
        /\ m + i - 1 \in 1..Len(q) - 1 /\ m + (i + 1) - 1 = (m + i - 1) + 1
    BY <1>0
  <2>2. r[i] = q[m + i - 1]
    BY <1>2, <2>1
  <2>3. r[i + 1] = q[m + (i + 1) - 1]
    BY <1>2, <2>1
  <2>4. q[(m + i - 1) + 1][1] = System[s].next[q[m + i - 1]]
    BY <2>1 DEF Run
  <2> QED
    BY <2>1, <2>2, <2>3, <2>4
<1>5. Run(s, r)
  BY <1>2, <1>3, <1>4 DEF Run
<1> QED
  BY <1>2, <1>5 DEF r

\* Before the first failure every step is good.
LEMMA ShortestGood ==
    ASSUME NEW s, NEW c, NEW d \in Nat, NEW q, Failure(s, c, d, q),
           \A e \in 0..d - 1 : ~Fails(s, c, e), NEW i \in 1..d
    PROVE  ~Wrong(s, ExcludedOf(s, c), q[i])
<1>1. CASE c.local
  BY <1>1 DEF Failure, ExcludedOf
<1>2. CASE ~c.local
  <2>1. SUFFICES ASSUME Wrong(s, TargetOf(s, c), q[i]) PROVE FALSE
    BY <1>2 DEF ExcludedOf, TargetOf
  <2> DEFINE r == SubSeq(q, 1, i)
  <2>2. /\ Run(s, q) /\ Len(q) = d + 1 /\ i \in 1..Len(q) /\ 1 \in 1..Len(q)
        /\ i - 1 \in 0..d - 1
    BY DEF Failure
  <2>3. Run(s, r) /\ Len(r) = i /\ \A j \in 1..i : r[j] = q[j]
    <3>1. /\ Run(s, r) /\ Len(r) = i - 1 + 1
          /\ \A j \in 1..i - 1 + 1 : r[j] = q[1 + j - 1]
      BY <2>2, PartOfRun
    <3>2. i - 1 + 1 = i /\ \A j \in 1..i : 1 + j - 1 = j
      BY <2>2
    <3> QED
      BY <3>1, <3>2
  <2> HIDE DEF r
  <2>4. r[1] = q[1] /\ r[(i - 1) + 1] = q[i] /\ Len(r) = (i - 1) + 1
    BY <2>2, <2>3
  <2>5. Failure(s, c, i - 1, r)
    BY <1>2, <2>1, <2>3, <2>4 DEF Failure
  <2> QED
    BY <2>2, <2>5 DEF Fails
<1> QED
  BY <1>1, <1>2

\* No state occurs twice on a shortest failure: what lies between could be left out.
LEMMA ShortestSimple ==
    ASSUME NEW s, NEW c, NEW d \in Nat, NEW q, Failure(s, c, d, q),
           \A e \in 0..d - 1 : ~Fails(s, c, e),
           NEW i \in 1..d + 1, NEW j \in 1..d + 1, i < j
    PROVE  q[i][1] # q[j][1]
<1> SUFFICES ASSUME q[i][1] = q[j][1] PROVE FALSE
  OBVIOUS
<1> DEFINE e == d - (j - i)
           r == SubSeq(q, 1, i - 1) \o SubSeq(q, j, d + 1)
<1>0. /\ Run(s, q) /\ Len(q) = d + 1 /\ q \in Seq(StepsOf(s))
      /\ e \in 0..d - 1 /\ i - 1 \in Nat /\ i \in Nat /\ j \in Nat
      /\ i <= e + 1
  BY DEF Failure, Run
<1>1. /\ SubSeq(q, 1, i - 1) \in Seq(StepsOf(s))
      /\ Len(SubSeq(q, 1, i - 1)) = i - 1
      /\ \A m \in 1..i - 1 : SubSeq(q, 1, i - 1)[m] = q[m]
  <2>1. \A m \in 1..i - 1 : q[m] \in StepsOf(s)
    BY <1>0, ElementOfSeq
  <2>2. /\ SubSeq(q, 1, i - 1) \in Seq(StepsOf(s))
        /\ Len(SubSeq(q, 1, i - 1)) = IF 1 <= i - 1 THEN i - 1 - 1 + 1 ELSE 0
        /\ \A m \in 1..i - 1 - 1 + 1 : SubSeq(q, 1, i - 1)[m] = q[1 + m - 1]
    BY <1>0, <2>1, SubSeqProperties
  <2>3. /\ (IF 1 <= i - 1 THEN i - 1 - 1 + 1 ELSE 0) = i - 1
        /\ i - 1 - 1 + 1 = i - 1 /\ \A m \in 1..i - 1 : 1 + m - 1 = m
    BY <1>0
  <2> QED
    BY <2>2, <2>3
<1>2. /\ SubSeq(q, j, d + 1) \in Seq(StepsOf(s))
      /\ Len(SubSeq(q, j, d + 1)) = d + 1 - j + 1
      /\ \A m \in 1..d + 1 - j + 1 : SubSeq(q, j, d + 1)[m] = q[j + m - 1]
  <2>1. j \in 1..Len(q) /\ d + 1 \in j..Len(q)
    BY <1>0
  <2> QED
    BY <1>0, <2>1, PartOfRun DEF Run
<1>3. /\ r \in Seq(StepsOf(s)) /\ Len(r) = e + 1
      /\ \A m \in 1..e + 1 : r[m] = IF m < i THEN q[m] ELSE q[m + (j - i)]
  <2>1. /\ r \in Seq(StepsOf(s))
        /\ Len(r) = (i - 1) + (d + 1 - j + 1)
        /\ \A m \in 1..(i - 1) + (d + 1 - j + 1) :
              r[m] = IF m <= i - 1 THEN SubSeq(q, 1, i - 1)[m]
                                   ELSE SubSeq(q, j, d + 1)[m - (i - 1)]
    BY <1>1, <1>2, ConcatProperties
  <2>2. (i - 1) + (d + 1 - j + 1) = e + 1
    BY <1>0
  <2>3. ASSUME NEW m \in 1..e + 1
        PROVE  r[m] = IF m < i THEN q[m] ELSE q[m + (j - i)]
    <3>1. CASE m < i
      <4>1. m <= i - 1 /\ m \in 1..i - 1
        BY <1>0, <3>1
      <4> QED
        BY <1>1, <2>1, <2>2, <3>1, <4>1
    <3>2. CASE ~(m < i)
      <4>1. /\ ~(m <= i - 1) /\ m - (i - 1) \in 1..d + 1 - j + 1
            /\ j + (m - (i - 1)) - 1 = m + (j - i)
        BY <1>0, <3>2
      <4> QED
        BY <1>2, <2>1, <2>2, <3>2, <4>1
    <3> QED
      BY <3>1, <3>2
  <2> QED
    BY <2>1, <2>2, <2>3
<1> HIDE DEF r
<1>4. ASSUME NEW m \in 1..e + 1
      PROVE  \E n \in 1..d + 1 : r[m] = q[n] /\ (m <= e => n <= d)
  <2>1. CASE m < i
    <3>1. m \in 1..d + 1 /\ m <= d
      BY <1>0, <2>1
    <3> QED
      BY <1>3, <2>1, <3>1
  <2>2. CASE ~(m < i)
    <3>1. m + (j - i) \in 1..d + 1 /\ (m <= e => m + (j - i) <= d)
      BY <1>0, <2>2
    <3> QED
      BY <1>3, <2>2, <3>1
  <2> QED
    BY <2>1, <2>2
<1>5. \A m \in 1..e + 1 : r[m] \in System[s].cons
  BY <1>0, <1>4 DEF Run
<1>6. ASSUME NEW m \in 1..e PROVE r[m + 1][1] = System[s].next[r[m]]
  <2>1. m \in 1..e + 1 /\ m + 1 \in 1..e + 1
    BY <1>0
  <2>2. CASE m + 1 < i
    <3>1. m < i /\ m \in 1..Len(q) - 1
      BY <1>0, <2>2
    <3>2. r[m] = q[m] /\ r[m + 1] = q[m + 1]
      BY <1>3, <2>1, <2>2, <3>1
    <3> QED
      BY <1>0, <3>1, <3>2 DEF Run
  <2>3. CASE m + 1 = i
    <3>1. m < i /\ m \in 1..Len(q) - 1 /\ ~(m + 1 < i) /\ (m + 1) + (j - i) = j
      BY <1>0, <2>3
    <3>2. r[m] = q[m] /\ r[m + 1] = q[j]
      BY <1>3, <2>1, <3>1
    <3>3. q[m + 1][1] = System[s].next[q[m]]
      BY <1>0, <3>1 DEF Run
    <3> QED
      BY <2>3, <3>2, <3>3
  <2>4. CASE m >= i
    <3>1. /\ ~(m < i) /\ ~(m + 1 < i)
          /\ m + (j - i) \in 1..Len(q) - 1
          /\ (m + 1) + (j - i) = (m + (j - i)) + 1
      BY <1>0, <2>4
    <3>2. r[m] = q[m + (j - i)] /\ r[m + 1] = q[(m + (j - i)) + 1]
      BY <1>3, <2>1, <3>1
    <3> QED
      BY <1>0, <3>1, <3>2 DEF Run
  <2> QED
    BY <1>0, <2>2, <2>3, <2>4
<1>7. Run(s, r)
  <2>1. (e + 1) - 1 = e
    BY <1>0
  <2> QED
    BY <1>3, <1>5, <1>6, <2>1 DEF Run
<1>8. r[1][1] \in System[s].init
  <2>1. 1 \in 1..e + 1
    BY <1>0
  <2>2. CASE 1 < i
    BY <1>3, <2>1, <2>2 DEF Failure
  <2>3. CASE ~(1 < i)
    <3>1. i = 1 /\ 1 + (j - i) = j
      BY <1>0, <2>3
    <3> QED
      BY <1>3, <2>1, <2>3, <3>1 DEF Failure
  <2> QED
    BY <2>2, <2>3
<1>9. r[e + 1] = q[d + 1]
  <2>1. e + 1 \in 1..e + 1 /\ ~(e + 1 < i) /\ (e + 1) + (j - i) = d + 1
    BY <1>0
  <2> QED
    BY <1>3, <2>1
<1>10. c.local => \A m \in 1..e : ~Wrong(s, AllBads(s), r[m])
  <2>1. ASSUME c.local, NEW m \in 1..e PROVE ~Wrong(s, AllBads(s), r[m])
    <3>1. m \in 1..e + 1 /\ m <= e
      BY <1>0
    <3>2. PICK n \in 1..d + 1 : r[m] = q[n] /\ n <= d
      BY <1>4, <3>1
    <3>3. n \in 1..d
      BY <3>2
    <3> QED
      BY <2>1, <3>2, <3>3 DEF Failure
  <2> QED
    BY <2>1
<1>11. Failure(s, c, e, r)
  BY <1>3, <1>7, <1>8, <1>9, <1>10 DEF Failure
<1> QED
  BY <1>0, <1>11 DEF Fails

\* A property that fails fails for a first time.
LEMMA FirstFailure ==
    ASSUME NEW s, NEW c, NEW d \in Nat, Fails(s, c, d)
    PROVE  \E e \in 0..d : Fails(s, c, e) /\ \A f \in 0..e - 1 : ~Fails(s, c, f)
<1> DEFINE F == {e \in Nat : Fails(s, c, e)}
<1>1. PICK e \in F : \A f \in F : e <= f
  <2>1. d \in F
    OBVIOUS
  <2> HIDE DEF F
  <2>2. F \subseteq Nat
    BY DEF F
  <2> QED
    BY <2>1, <2>2, LeastNumber
<1>2. e \in 0..d
  BY <1>1
<1>3. ASSUME NEW f \in 0..e - 1, Fails(s, c, f) PROVE FALSE
  <2>1. f \in F /\ ~(e <= f)
    BY <1>3
  <2> QED
    BY <1>1, <2>1
<1> QED
  BY <1>2, <1>3

\* k-induction: if n good steps are not followed by a bad one, a property that fails fails for
\* the first time before step n.
LEMMA InductionSound ==
    ASSUME NEW s, NEW c, NEW n \in Nat, StepClosed(s, c, n), NEW d \in Nat, Fails(s, c, d)
    PROVE  \E e \in 0..n - 1 : Fails(s, c, e)
<1>1. PICK e \in 0..d : Fails(s, c, e) /\ \A f \in 0..e - 1 : ~Fails(s, c, f)
  BY FirstFailure
<1>2. CASE e < n
  BY <1>1, <1>2
<1>3. CASE ~(e < n)
  <2>1. PICK q : Failure(s, c, e, q)
    BY <1>1 DEF Fails
  <2> DEFINE m == e - n + 1
             r == SubSeq(q, m, e + 1)
  <2>2. /\ Run(s, q) /\ Len(q) = e + 1 /\ e \in Nat
        /\ m \in 1..Len(q) /\ e + 1 \in m..Len(q) /\ m \in Nat
    BY <1>3, <2>1 DEF Failure
  <2>3. Run(s, r) /\ Len(r) = n + 1 /\ \A i \in 1..n + 1 : r[i] = q[m + i - 1]
    <3>1. /\ Run(s, r) /\ Len(r) = e + 1 - m + 1
          /\ \A i \in 1..e + 1 - m + 1 : r[i] = q[m + i - 1]
      BY <2>2, PartOfRun
    <3>2. e + 1 - m + 1 = n + 1
      BY <2>2
    <3> QED
      BY <3>1, <3>2
  <2> HIDE DEF r
  <2>4. ASSUME NEW i \in 1..n PROVE ~Wrong(s, ExcludedOf(s, c), r[i])
    <3>1. i \in 1..n + 1 /\ m + i - 1 \in 1..e
      BY <1>3, <2>2
    <3> QED
      BY <1>1, <2>1, <2>2, <2>3, <3>1, ShortestGood
  <2>5. ASSUME NEW i \in 1..n + 1, NEW j \in 1..n + 1, i < j
        PROVE  r[i][1] # r[j][1]
    <3>1. m + i - 1 \in 1..e + 1 /\ m + j - 1 \in 1..e + 1 /\ m + i - 1 < m + j - 1
      BY <1>3, <2>2, <2>5
    <3>2. r[i] = q[m + i - 1]
      BY <2>3
    <3>3. r[j] = q[m + j - 1]
      BY <2>3
    <3>4. q[m + i - 1][1] # q[m + j - 1][1]
      BY <1>1, <2>1, <2>2, <3>1, ShortestSimple
    <3> QED
      BY <3>2, <3>3, <3>4
  <2>6. r[n + 1] = q[e + 1]
    <3>1. n + 1 \in 1..n + 1 /\ m + (n + 1) - 1 = e + 1
      BY <2>2
    <3> QED
      BY <2>3, <3>1
  <2>7. ~Wrong(s, TargetOf(s, c), r[n + 1])
    BY <2>3, <2>4, <2>5 DEF StepClosed
  <2> QED
    BY <2>1, <2>6, <2>7 DEF Failure
<1> QED
  BY <1>2, <1>3

-----------------------------------------------------------------------------
(***************************************************************************)
(* What the recursive functions of the model compute.                       *)
(***************************************************************************)

\* What is asked of a copy concerns it and the copies before.
LEMMA MeetsPrefix ==
    ASSUME NEW F, NEW u \in Nat, NEW p, NEW q, \A i \in 1..u + 1 : p[i] = q[i]
    PROVE  Meets(F, p, u) <=> Meets(F, q, u)
<1>1. p[u + 1] = q[u + 1] /\ (u > 0 => p[u] = q[u])
  <2>1. u + 1 \in 1..u + 1 /\ (u > 0 => u \in 1..u + 1)
    OBVIOUS
  <2> QED
    BY <2>1
<1>2. Distinct(p, u) <=> Distinct(q, u)
  <2>1. \A i \in 1..u : p[i] = q[i]
    <3>1. \A i \in 1..u : i \in 1..u + 1
      OBVIOUS
    <3> QED
      BY <3>1
  <2> QED
    BY <1>1, <2>1 DEF Distinct
<1>3. u > 0 => (p[u + 1][1] = Y.next[p[u]] <=> q[u + 1][1] = Y.next[q[u]])
  BY <1>1
<1> QED
  BY <1>1, <1>2, <1>3 DEF Meets

\* The values of the copies 0..n that meet the facts.
Valuations(F, n) ==
    {q \in Seq(Steps) : Len(q) = n + 1 /\ \A u \in 0..n : Meets(F, q, u)}

LEMMA FirstValuation ==
    ASSUME NEW F
    PROVE  Valuations(F, 0) = {q \in {<<x>> : x \in Steps} : Meets(F, q, 0)}
<1>1. ASSUME NEW q \in Valuations(F, 0)
      PROVE  q \in {<<x>> : x \in Steps} /\ Meets(F, q, 0)
  <2>1. q \in Seq(Steps) /\ Len(q) = 1 /\ Meets(F, q, 0)
    BY DEF Valuations
  <2>2. q[1] \in Steps /\ q = <<q[1]>>
    BY <2>1
  <2> QED
    BY <2>1, <2>2
<1>2. ASSUME NEW x \in Steps, Meets(F, <<x>>, 0) PROVE <<x>> \in Valuations(F, 0)
  <2>1. <<x>> \in Seq(Steps) /\ Len(<<x>>) = 0 + 1 /\ 0..0 = {0}
    OBVIOUS
  <2> QED
    BY <1>2, <2>1 DEF Valuations
<1> QED
  BY <1>1, <1>2

LEMMA NextValuation ==
    ASSUME NEW F, NEW u \in Nat \ {0}
    PROVE  Valuations(F, u) =
              {q \in {Append(m, x) : m \in Valuations(F, u - 1), x \in Steps} : Meets(F, q, u)}
<1>1. ASSUME NEW q \in Valuations(F, u)
      PROVE  /\ q \in {Append(m, x) : m \in Valuations(F, u - 1), x \in Steps}
             /\ Meets(F, q, u)
  <2>1. q \in Seq(Steps) /\ Len(q) = u + 1 /\ \A v \in 0..u : Meets(F, q, v)
    BY DEF Valuations
  <2>2. PICK m \in Seq(Steps), x \in Steps : q = Append(m, x)
    <3>1. q # <<>>
      BY <2>1
    <3> QED
      BY <2>1, <3>1, SequenceEmptyOrAppend
  <2>6. Len(m) = u /\ \A i \in 1..u : m[i] = q[i]
    <3>1. /\ Len(q) = Len(m) + 1 /\ Len(m) \in Nat
          /\ \A i \in 1..Len(m) : q[i] = m[i]
      BY <2>2, AppendProperties, LenProperties
    <3>2. Len(m) = u
      BY <2>1, <3>1
    <3> QED
      BY <3>1, <3>2
  <2>3. ASSUME NEW v \in 0..u - 1 PROVE Meets(F, m, v)
    <3>1. v \in Nat /\ v \in 0..u /\ \A i \in 1..v + 1 : i \in 1..u
      OBVIOUS
    <3>2. Meets(F, m, v) <=> Meets(F, q, v)
      BY <2>6, <3>1, MeetsPrefix
    <3> QED
      BY <2>1, <3>1, <3>2
  <2>4. m \in Valuations(F, u - 1)
    BY <2>2, <2>6, <2>3 DEF Valuations
  <2>5. u \in 0..u
    OBVIOUS
  <2> QED
    BY <2>1, <2>2, <2>4, <2>5
<1>2. ASSUME NEW m \in Valuations(F, u - 1), NEW x \in Steps, Meets(F, Append(m, x), u)
      PROVE  Append(m, x) \in Valuations(F, u)
  <2> DEFINE q == Append(m, x)
  <2>1. m \in Seq(Steps) /\ Len(m) = u /\ \A v \in 0..u - 1 : Meets(F, m, v)
    BY DEF Valuations
  <2>2. q \in Seq(Steps) /\ Len(q) = u + 1 /\ \A i \in 1..u : q[i] = m[i]
    BY <2>1, AppendProperties
  <2>3. Meets(F, q, u)
    BY <1>2
  <2> HIDE DEF q
  <2>4. ASSUME NEW v \in 0..u PROVE Meets(F, q, v)
    <3>1. CASE v = u
      BY <2>3, <3>1
    <3>2. CASE v # u
      <4>1. v \in Nat /\ v \in 0..u - 1 /\ \A i \in 1..v + 1 : i \in 1..u
        BY <3>2
      <4>2. Meets(F, m, v) <=> Meets(F, q, v)
        BY <2>2, <4>1, MeetsPrefix
      <4> QED
        BY <2>1, <4>1, <4>2
    <3> QED
      BY <3>1, <3>2
  <2>5. q \in Valuations(F, u)
    BY <2>2, <2>4 DEF Valuations
  <2> QED
    BY <2>5 DEF q
<1> DEFINE E == {Append(m, x) : m \in Valuations(F, u - 1), x \in Steps}
<1>3. ASSUME NEW q \in E, Meets(F, q, u) PROVE q \in Valuations(F, u)
  <2>1. PICK m \in Valuations(F, u - 1), x \in Steps : q = Append(m, x)
    OBVIOUS
  <2> QED
    BY <1>2, <1>3, <2>1
<1>4. \A q \in Valuations(F, u) : q \in E /\ Meets(F, q, u)
  BY <1>1
<1> HIDE DEF E
<1>5. Valuations(F, u) = {q \in E : Meets(F, q, u)}
  BY <1>3, <1>4
<1> QED
  BY <1>5 DEF E

\* Building the values copy by copy yields all of them.
LEMMA ModelsAre ==
    ASSUME NEW F, NEW n \in Nat
    PROVE  Models(F, n) = Valuations(F, n)
<1> DEFINE Body(M, u) ==
              IF u = 0 THEN {q \in {<<x>> : x \in Steps} : Meets(F, q, 0)}
              ELSE {q \in {Append(m, x) : m \in M[u - 1], x \in Steps} : Meets(F, q, u)}
           R == CHOOSE M : M = [u \in 0..n |-> Body(M, u)]
           V == [u \in 0..n |-> Valuations(F, u)]
<1>1. Models(F, n) = R[n]
  BY DEF Models
<1>2. ASSUME NEW M, NEW u \in 0..n, u = 0 \/ M[u - 1] = Valuations(F, u - 1)
      PROVE  Body(M, u) = Valuations(F, u)
  <2>1. CASE u = 0
    BY <2>1, FirstValuation
  <2>2. CASE u # 0
    <3>1. u \in Nat \ {0}
      BY <2>2
    <3> QED
      BY <1>2, <2>2, <3>1, NextValuation
  <2> QED
    BY <2>1, <2>2
<1> HIDE DEF Body
<1>3. V = [u \in 0..n |-> Body(V, u)]
  <2>1. ASSUME NEW u \in 0..n PROVE Valuations(F, u) = Body(V, u)
    <3>1. CASE u = 0
      BY <1>2, <3>1
    <3>2. CASE u # 0
      <4>1. u - 1 \in 0..n
        BY <3>2
      <4>2. V[u - 1] = Valuations(F, u - 1)
        BY <4>1
      <4> HIDE DEF V
      <4> QED
        BY <1>2, <4>2
    <3> QED
      BY <3>1, <3>2
  <2>2. V = [u \in 0..n |-> Valuations(F, u)]
    OBVIOUS
  <2> HIDE DEF V
  <2> QED
    BY <2>1, <2>2
<1> HIDE DEF V
<1>4. R = [u \in 0..n |-> Body(R, u)]
  BY <1>3
<1> HIDE DEF R
<1>5. \A u \in 0..n : R[u] = Valuations(F, u)
  <2> DEFINE T == {u \in Nat : u <= n => R[u] = Valuations(F, u)}
  <2>1. 0 \in T
    <3>1. 0 \in 0..n /\ R[0] = Body(R, 0)
      BY <1>4
    <3>2. R[0] = Valuations(F, 0)
      BY <1>2, <3>1
    <3> QED
      BY <3>2
  <2>2. ASSUME NEW u \in Nat, u \in T PROVE u + 1 \in T
    <3>1. SUFFICES ASSUME u + 1 <= n PROVE R[u + 1] = Valuations(F, u + 1)
      OBVIOUS
    <3>2. /\ u + 1 \in 0..n /\ (u + 1) - 1 = u
          /\ R[u] = Valuations(F, u)
      BY <2>2, <3>1
    <3>3. R[u + 1] = Body(R, u + 1)
      BY <1>4, <3>2
    <3>4. R[(u + 1) - 1] = Valuations(F, (u + 1) - 1)
      BY <3>2
    <3> QED
      BY <1>2, <3>2, <3>3, <3>4
  <2> HIDE DEF T
  <2>3. Nat \subseteq T
    BY <2>1, <2>2, SetInduction
  <2> QED
    BY <2>3 DEF T
<1>6. n \in 0..n
  OBVIOUS
<1> QED
  BY <1>1, <1>5, <1>6

\* A run from the initial states, and where it leads.
Way(q) == Run(sys, q) /\ (q # <<>> => q[1][1] \in Y.init)
Leads(q, y) == IF q = <<>> THEN y \in Y.init ELSE y = Y.next[q[Len(q)]]

LEMMA WayAppend ==
    ASSUME NEW m \in Seq(Steps), NEW x \in Steps
    PROVE  /\ Way(Append(m, x)) <=> Way(m) /\ Leads(m, x[1]) /\ x \in Y.cons
           /\ \A y : Leads(Append(m, x), y) <=> y = Y.next[x]
<1> DEFINE q == Append(m, x)
           n == Len(m)
<1>1. /\ q \in Seq(Steps) /\ q # <<>> /\ Len(q) = n + 1 /\ n \in Nat
      /\ \A i \in 1..n : q[i] = m[i]
      /\ q[n + 1] = x
      /\ m = <<>> <=> n = 0
  BY AppendProperties, LenProperties, EmptySeq
<1> HIDE DEF q
<1>2. Steps = StepsOf(sys)
  BY DEF Steps, Y, StepsOf
<1>3. ASSUME Way(q) PROVE Way(m) /\ Leads(m, x[1]) /\ x \in Y.cons
  <2>1. /\ \A i \in 1..n + 1 : q[i] \in Y.cons
        /\ \A i \in 1..n : q[i + 1][1] = Y.next[q[i]]
        /\ q[1][1] \in Y.init
    <3>1. (n + 1) - 1 = n
      BY <1>1
    <3> QED
      BY <1>1, <1>3, <3>1 DEF Way, Run, Y
  <2>2. \A i \in 1..n : m[i] \in Y.cons
    BY <1>1, <2>1
  <2>3. ASSUME NEW i \in 1..n - 1 PROVE m[i + 1][1] = Y.next[m[i]]
    <3>1. i \in 1..n /\ i + 1 \in 1..n
      BY <1>1
    <3> QED
      BY <1>1, <2>1, <3>1
  <2>4. m # <<>> => m[1][1] \in Y.init
    <3>1. m # <<>> => 1 \in 1..n
      BY <1>1
    <3> QED
      BY <1>1, <2>1, <3>1
  <2>5. Way(m)
    BY <1>2, <2>2, <2>3, <2>4 DEF Way, Run, Y
  <2>6. Leads(m, x[1])
    <3>1. CASE n = 0
      BY <1>1, <2>1, <3>1 DEF Leads
    <3>2. CASE n # 0
      <4>1. n \in 1..n
        BY <1>1, <3>2
      <4> QED
        BY <1>1, <2>1, <3>2, <4>1 DEF Leads
    <3> QED
      BY <3>1, <3>2
  <2>7. n + 1 \in 1..n + 1
    BY <1>1
  <2> QED
    BY <1>1, <2>1, <2>5, <2>6, <2>7
<1>4. ASSUME Way(m), Leads(m, x[1]), x \in Y.cons PROVE Way(q)
  <2>1. ASSUME NEW i \in 1..n + 1 PROVE q[i] \in Y.cons
    <3>1. CASE i = n + 1
      BY <1>1, <1>4, <3>1
    <3>2. CASE i # n + 1
      <4>1. i \in 1..n
        BY <1>1, <3>2
      <4> QED
        BY <1>1, <1>4, <4>1 DEF Way, Run, Y
    <3> QED
      BY <3>1, <3>2
  <2>2. ASSUME NEW i \in 1..n PROVE q[i + 1][1] = Y.next[q[i]]
    <3>1. CASE i = n
      BY <1>1, <1>4, <3>1 DEF Leads
    <3>2. CASE i # n
      <4>1. i \in 1..n - 1 /\ i + 1 \in 1..n
        BY <1>1, <3>2
      <4>2. m[i + 1][1] = Y.next[m[i]]
        BY <1>4, <4>1 DEF Way, Run, Y
      <4> QED
        BY <1>1, <4>1, <4>2
    <3> QED
      BY <3>1, <3>2
  <2>3. q[1][1] \in Y.init
    <3>1. CASE n = 0
      BY <1>1, <1>4, <3>1 DEF Leads
    <3>2. CASE n # 0
      <4>1. 1 \in 1..n
        BY <1>1, <3>2
      <4> QED
        BY <1>1, <1>4, <4>1 DEF Way
    <3> QED
      BY <3>1, <3>2
  <2>4. (n + 1) - 1 = n
    BY <1>1
  <2> QED
    BY <1>1, <1>2, <2>1, <2>2, <2>3, <2>4 DEF Way, Run, Y
<1>5. \A y : Leads(q, y) <=> y = Y.next[x]
  BY <1>1 DEF Leads
<1> QED
  BY <1>3, <1>4, <1>5 DEF q

\* The states a run may be in after d steps, a run ending at a bad step if a says so.
Spotless(q) == \A i \in 1..Len(q) : ~AnyBad(BadIds, q[i])
Arrivals(d, a) ==
    {y \in Y.states : \E q \in Seq(Steps) :
        Len(q) = d /\ Way(q) /\ Leads(q, y) /\ (a => Spotless(q))}

LEMMA SpotlessAppend ==
    ASSUME NEW m \in Seq(Steps), NEW x \in Steps
    PROVE  Spotless(Append(m, x)) <=> Spotless(m) /\ ~AnyBad(BadIds, x)
<1> DEFINE q == Append(m, x)
           n == Len(m)
<1>1. /\ Len(q) = n + 1 /\ n \in Nat
      /\ \A i \in 1..n : q[i] = m[i]
      /\ q[n + 1] = x
  BY AppendProperties, LenProperties
<1> HIDE DEF q
<1>2. (\A i \in 1..n + 1 : ~AnyBad(BadIds, q[i]))
        <=> (\A i \in 1..n : ~AnyBad(BadIds, q[i])) /\ ~AnyBad(BadIds, q[n + 1])
  <2>1. /\ \A i \in 1..n : i \in 1..n + 1
        /\ n + 1 \in 1..n + 1
        /\ \A i \in 1..n + 1 : i \in 1..n \/ i = n + 1
    BY <1>1
  <2> QED
    BY <2>1
<1>3. (\A i \in 1..n : ~AnyBad(BadIds, q[i])) <=> Spotless(m)
  BY <1>1 DEF Spotless
<1> QED
  BY <1>1, <1>2, <1>3 DEF Spotless, q

LEMMA FirstArrivals ==
    ASSUME sys \in DOMAIN System, NEW a
    PROVE  Arrivals(0, a) = Y.init
<1>1. Y.init \subseteq Y.states
  BY SystemAssumption DEF Y
<1>2. ASSUME NEW y \in Y.init PROVE y \in Arrivals(0, a)
  <2>1. <<>> \in Seq(Steps) /\ Len(<<>>) = 0
    OBVIOUS
  <2>2. Way(<<>>) /\ Leads(<<>>, y) /\ Spotless(<<>>)
    BY <1>2 DEF Way, Run, Leads, Spotless, StepsOf
  <2> QED
    BY <1>1, <1>2, <2>1, <2>2 DEF Arrivals
<1>3. ASSUME NEW y \in Arrivals(0, a) PROVE y \in Y.init
  <2>1. PICK q \in Seq(Steps) : Len(q) = 0 /\ Leads(q, y)
    BY DEF Arrivals
  <2>2. q = <<>>
    BY <2>1, EmptySeq
  <2> QED
    BY <2>1, <2>2 DEF Leads
<1> QED
  BY <1>2, <1>3

LEMMA NextArrivals ==
    ASSUME sys \in DOMAIN System, NEW a \in BOOLEAN, NEW u \in Nat \ {0}
    PROVE  Arrivals(u, a) =
              {Y.next[x] : x \in {y \in (Arrivals(u - 1, a) \X Y.inputs) \cap Y.cons :
                                      ~(a /\ AnyBad(BadIds, y))}}
<1> DEFINE D == {y \in (Arrivals(u - 1, a) \X Y.inputs) \cap Y.cons :
                     ~(a /\ AnyBad(BadIds, y))}
<1>1. \A x \in Steps : Y.next[x] \in Y.states
  <2>1. Y.next \in [Steps -> Y.states]
    BY SystemAssumption DEF Y, Steps
  <2> QED
    BY <2>1
<1>2. ASSUME NEW y \in Arrivals(u, a) PROVE \E x \in D : y = Y.next[x]
  <2>1. PICK q \in Seq(Steps) : Len(q) = u /\ Way(q) /\ Leads(q, y) /\ (a => Spotless(q))
    BY DEF Arrivals
  <2>2. PICK m \in Seq(Steps), x \in Steps : q = Append(m, x)
    <3>1. q # <<>>
      BY <2>1
    <3> QED
      BY <3>1, SequenceEmptyOrAppend
  <2>3. Len(m) = u - 1
    BY <2>1, <2>2, AppendProperties, LenProperties
  <2>4. Way(m) /\ Leads(m, x[1]) /\ x \in Y.cons /\ y = Y.next[x]
    BY <2>1, <2>2, WayAppend
  <2>5. a => Spotless(m) /\ ~AnyBad(BadIds, x)
    BY <2>1, <2>2, SpotlessAppend
  <2>6. x[1] \in Y.states /\ x[2] \in Y.inputs /\ x = <<x[1], x[2]>>
    BY DEF Steps
  <2>7. x[1] \in Arrivals(u - 1, a)
    BY <2>3, <2>4, <2>5, <2>6 DEF Arrivals
  <2>8. x \in D
    BY <2>4, <2>5, <2>6, <2>7
  <2> QED
    BY <2>4, <2>8
<1>3. ASSUME NEW x \in D PROVE Y.next[x] \in Arrivals(u, a)
  <2>1. /\ x[1] \in Arrivals(u - 1, a) /\ x[2] \in Y.inputs /\ x = <<x[1], x[2]>>
        /\ x \in Y.cons /\ (a => ~AnyBad(BadIds, x))
    OBVIOUS
  <2>2. x \in Steps
    BY <2>1 DEF Steps, Arrivals
  <2>3. PICK m \in Seq(Steps) :
            Len(m) = u - 1 /\ Way(m) /\ Leads(m, x[1]) /\ (a => Spotless(m))
    BY <2>1 DEF Arrivals
  <2>4. Append(m, x) \in Seq(Steps) /\ Len(Append(m, x)) = u
    BY <2>2, <2>3, AppendProperties
  <2>5. Way(Append(m, x)) /\ Leads(Append(m, x), Y.next[x])
    BY <2>1, <2>2, <2>3, WayAppend
  <2>6. a => Spotless(Append(m, x))
    BY <2>1, <2>2, <2>3, SpotlessAppend
  <2> QED
    BY <1>1, <2>2, <2>4, <2>5, <2>6 DEF Arrivals
<1> HIDE DEF D
<1>4. Arrivals(u, a) = {Y.next[x] : x \in D}
  BY <1>2, <1>3
<1> QED
  BY <1>4 DEF D

\* Counting the steps one by one yields the states in which runs of that length end.
LEMMA AfterAre ==
    ASSUME sys \in DOMAIN System, NEW a \in BOOLEAN, NEW n \in Nat
    PROVE  After(n, a) = Arrivals(n, a)
<1> DEFINE Body(M, u) ==
              IF u = 0 THEN Y.init
              ELSE {Y.next[x] : x \in {y \in (M[u - 1] \X Y.inputs) \cap Y.cons :
                                         ~(a /\ AnyBad(BadIds, y))}}
           R == CHOOSE M : M = [u \in 0..n |-> Body(M, u)]
           V == [u \in 0..n |-> Arrivals(u, a)]
<1>1. After(n, a) = R[n]
  BY DEF After
<1>2. ASSUME NEW M, NEW u \in 0..n, u = 0 \/ M[u - 1] = Arrivals(u - 1, a)
      PROVE  Body(M, u) = Arrivals(u, a)
  <2>1. CASE u = 0
    BY <2>1, FirstArrivals
  <2>2. CASE u # 0
    <3>1. u \in Nat \ {0}
      BY <2>2
    <3> QED
      BY <1>2, <2>2, <3>1, NextArrivals
  <2> QED
    BY <2>1, <2>2
<1> HIDE DEF Body
<1>3. V = [u \in 0..n |-> Body(V, u)]
  <2>1. ASSUME NEW u \in 0..n PROVE Arrivals(u, a) = Body(V, u)
    <3>1. CASE u = 0
      BY <1>2, <3>1
    <3>2. CASE u # 0
      <4>1. u - 1 \in 0..n
        BY <3>2
      <4>2. V[u - 1] = Arrivals(u - 1, a)
        BY <4>1
      <4> HIDE DEF V
      <4> QED
        BY <1>2, <4>2
    <3> QED
      BY <3>1, <3>2
  <2>2. V = [u \in 0..n |-> Arrivals(u, a)]
    OBVIOUS
  <2> HIDE DEF V
  <2> QED
    BY <2>1, <2>2
<1> HIDE DEF V
<1>4. R = [u \in 0..n |-> Body(R, u)]
  BY <1>3
<1> HIDE DEF R
<1>5. \A u \in 0..n : R[u] = Arrivals(u, a)
  <2> DEFINE T == {u \in Nat : u <= n => R[u] = Arrivals(u, a)}
  <2>1. 0 \in T
    <3>1. 0 \in 0..n /\ R[0] = Body(R, 0)
      BY <1>4
    <3>2. R[0] = Arrivals(0, a)
      BY <1>2, <3>1
    <3> QED
      BY <3>2
  <2>2. ASSUME NEW u \in Nat, u \in T PROVE u + 1 \in T
    <3>1. SUFFICES ASSUME u + 1 <= n PROVE R[u + 1] = Arrivals(u + 1, a)
      OBVIOUS
    <3>2. /\ u + 1 \in 0..n /\ (u + 1) - 1 = u
          /\ R[u] = Arrivals(u, a)
      BY <2>2, <3>1
    <3>3. R[u + 1] = Body(R, u + 1)
      BY <1>4, <3>2
    <3>4. R[(u + 1) - 1] = Arrivals((u + 1) - 1, a)
      BY <3>2
    <3> QED
      BY <1>2, <3>2, <3>3, <3>4
  <2> HIDE DEF T
  <2>3. Nat \subseteq T
    BY <2>1, <2>2, SetInduction
  <2> QED
    BY <2>3 DEF T
<1>6. n \in 0..n
  OBVIOUS
<1> QED
  BY <1>1, <1>5, <1>6

\* The property fails at a depth if and only if a run of that depth violates it.
LEMMA FailsAtIs ==
    ASSUME sys \in DOMAIN System, cfg \in Config, NEW d \in Nat
    PROVE  FailsAt(d) <=> Fails(sys, cfg, d)
<1>0. /\ Target = TargetOf(sys, cfg) /\ BadIds = AllBads(sys) /\ Steps = StepsOf(sys)
      /\ \A P, x : AnyBad(P, x) <=> Wrong(sys, P, x)
  BY DEF Target, TargetOf, BadIds, AllBads, AnyBad, Wrong, Y, Steps, StepsOf
<1>1. cfg.local \in BOOLEAN
  BY ConfigAssumption
<1>2. After(d, cfg.local) = Arrivals(d, cfg.local)
  BY <1>1, AfterAre
<1>3. ASSUME FailsAt(d) PROVE Fails(sys, cfg, d)
  <2>1. PICK x \in (Arrivals(d, cfg.local) \X Y.inputs) \cap Y.cons : AnyBad(Target, x)
    BY <1>2, <1>3 DEF FailsAt
  <2>2. x \in Steps /\ x[1] \in Arrivals(d, cfg.local)
    BY <2>1 DEF Steps, Arrivals
  <2>3. PICK m \in Seq(Steps) :
            Len(m) = d /\ Way(m) /\ Leads(m, x[1]) /\ (cfg.local => Spotless(m))
    BY <2>2 DEF Arrivals
  <2> DEFINE q == Append(m, x)
  <2>4. /\ Len(q) = d + 1 /\ q # <<>> /\ q[d + 1] = x
        /\ \A i \in 1..d : q[i] = m[i]
    BY <2>2, <2>3, AppendProperties
  <2>5. Way(q)
    BY <2>1, <2>2, <2>3, WayAppend
  <2> HIDE DEF q
  <2>6. cfg.local => \A i \in 1..d : ~Wrong(sys, AllBads(sys), q[i])
    BY <1>0, <2>3, <2>4 DEF Spotless
  <2>7. Failure(sys, cfg, d, q)
    BY <1>0, <2>1, <2>4, <2>5, <2>6 DEF Failure, Way, Y
  <2> QED
    BY <2>7 DEF Fails
<1>4. ASSUME Fails(sys, cfg, d) PROVE FailsAt(d)
  <2>1. PICK q : Failure(sys, cfg, d, q)
    BY <1>4 DEF Fails
  <2>2. q \in Seq(Steps) /\ Len(q) = d + 1 /\ q # <<>> /\ Way(q)
    <3>1. Run(sys, q) /\ Len(q) = d + 1 /\ q[1][1] \in Y.init
      BY <2>1 DEF Failure, Y
    <3>2. q \in Seq(Steps)
      BY <1>0, <3>1 DEF Run
    <3>3. q # <<>>
      BY <3>1
    <3> QED
      BY <3>1, <3>2, <3>3 DEF Way
  <2>3. PICK m \in Seq(Steps), x \in Steps : q = Append(m, x)
    BY <2>2, SequenceEmptyOrAppend
  <2>4. Len(m) = d /\ q[d + 1] = x /\ \A i \in 1..d : q[i] = m[i]
    <3>1. /\ Len(q) = Len(m) + 1 /\ Len(m) \in Nat /\ q[Len(m) + 1] = x
          /\ \A i \in 1..Len(m) : q[i] = m[i]
      BY <2>3, AppendProperties, LenProperties
    <3>2. Len(m) = d
      BY <2>2, <3>1
    <3> QED
      BY <3>1, <3>2
  <2>5. Way(m) /\ Leads(m, x[1]) /\ x \in Y.cons
    BY <2>2, <2>3, WayAppend
  <2>6. cfg.local => Spotless(m)
    <3>1. ASSUME cfg.local, NEW i \in 1..Len(m) PROVE ~AnyBad(BadIds, m[i])
      BY <1>0, <2>1, <2>4, <3>1 DEF Failure
    <3> QED
      BY <3>1 DEF Spotless
  <2>7. x[1] \in Y.states /\ x[2] \in Y.inputs /\ x = <<x[1], x[2]>>
    BY DEF Steps
  <2>8. x[1] \in Arrivals(d, cfg.local)
    BY <2>4, <2>5, <2>6, <2>7 DEF Arrivals
  <2>9. x \in (After(d, cfg.local) \X Y.inputs) \cap Y.cons
    BY <1>2, <2>5, <2>7, <2>8
  <2>10. AnyBad(Target, x)
    BY <1>0, <2>1, <2>4 DEF Failure
  <2> QED
    BY <2>9, <2>10 DEF FailsAt
<1> QED
  BY <1>3, <1>4

-----------------------------------------------------------------------------
(***************************************************************************)
(* What the solver holds, and what its answers mean.                        *)
(***************************************************************************)

\* A set of states that no run leaves: what LemmaAssumption says of a lemma.
Lasting(s, L) ==
    \E C \in SUBSET System[s].states :
        /\ System[s].init \subseteq C /\ C \subseteq L
        /\ \A x \in (C \X System[s].inputs) \cap System[s].cons : System[s].next[x] \in C

\* Every state of a run from the initial states meets a lemma.
LEMMA LastingHolds ==
    ASSUME NEW s, NEW L, Lasting(s, L), NEW q, Run(s, q), q[1][1] \in System[s].init,
           NEW i \in 1..Len(q)
    PROVE  q[i][1] \in L
<1>1. PICK C \in SUBSET System[s].states :
        /\ System[s].init \subseteq C /\ C \subseteq L
        /\ \A x \in (C \X System[s].inputs) \cap System[s].cons : System[s].next[x] \in C
  BY DEF Lasting
<1> DEFINE T == {u \in Nat : u + 1 <= Len(q) => q[u + 1][1] \in C}
<1>2. q \in Seq(StepsOf(s)) /\ Len(q) \in Nat
  BY LenProperties DEF Run
<1>3. 0 \in T
  BY <1>1
<1>4. ASSUME NEW u \in Nat, u \in T PROVE u + 1 \in T
  <2>1. SUFFICES ASSUME (u + 1) + 1 <= Len(q) PROVE q[(u + 1) + 1][1] \in C
    OBVIOUS
  <2>2. u + 1 \in 1..Len(q) - 1 /\ u + 1 \in 1..Len(q)
    BY <1>2, <2>1
  <2>3. q[u + 1][1] \in C
    BY <1>2, <1>4, <2>1
  <2>4. q[u + 1] \in StepsOf(s) /\ q[u + 1] \in System[s].cons
    BY <1>2, <2>2, ElementOfSeq DEF Run
  <2>5. q[u + 1] \in (C \X System[s].inputs) \cap System[s].cons
    BY <2>3, <2>4 DEF StepsOf
  <2>6. q[(u + 1) + 1][1] = System[s].next[q[u + 1]]
    BY <2>2 DEF Run
  <2> QED
    BY <1>1, <2>5, <2>6
<1> HIDE DEF T
<1>5. i - 1 \in T
  <2>1. Nat \subseteq T
    BY <1>3, <1>4, SetInduction
  <2>2. i - 1 \in Nat
    BY <1>2
  <2> QED
    BY <2>1, <2>2
<1>6. (i - 1) + 1 = i /\ i <= Len(q)
  BY <1>2
<1> QED
  BY <1>1, <1>5, <1>6 DEF T

\* The relation between the names used here and the model's.
LEMMA Names ==
    /\ Target = TargetOf(sys, cfg) /\ Excluded = ExcludedOf(sys, cfg)
    /\ BadIds = AllBads(sys) /\ Steps = StepsOf(sys)
    /\ \A P, x : AnyBad(P, x) <=> Wrong(sys, P, x)
BY DEF Target, TargetOf, Excluded, ExcludedOf, BadIds, AllBads, AnyBad, Wrong, Y, Steps, StepsOf

\* What the solver finds is a run, once the transitions are loaded.
LEMMA ModelIsRun ==
    ASSUME NEW F, NEW n \in Nat, \A u \in 0..n : Fact("trans", u) \in F, NEW q \in Models(F, n)
    PROVE  /\ Run(sys, q) /\ Len(q) = n + 1
           /\ Fact("init", 0) \in F => q[1][1] \in Y.init
           /\ cfg.simple => \A i, j \in 1..n + 1 : i < j => q[i][1] # q[j][1]
<1>1. q \in Seq(Steps) /\ Len(q) = n + 1 /\ \A u \in 0..n : Meets(F, q, u)
  BY ModelsAre DEF Valuations
<1>2. ASSUME NEW i \in 1..n + 1 PROVE q[i] \in Y.cons
  <2>1. i - 1 \in 0..n /\ (i - 1) + 1 = i
    OBVIOUS
  <2> QED
    BY <1>1, <2>1 DEF Meets
<1>3. ASSUME NEW i \in 1..n PROVE q[i + 1][1] = Y.next[q[i]]
  <2>1. i \in 0..n /\ i > 0 /\ i - 1 \in 0..n
    OBVIOUS
  <2> QED
    BY <1>1, <2>1 DEF Meets
<1>4. Run(sys, q)
  <2>1. (n + 1) - 1 = n
    OBVIOUS
  <2> QED
    BY <1>1, <1>2, <1>3, <2>1, Names DEF Run, Y
<1>5. ASSUME Fact("init", 0) \in F PROVE q[1][1] \in Y.init
  <2>1. 0 \in 0..n /\ 0 + 1 = 1
    OBVIOUS
  <2> QED
    BY <1>1, <1>5, <2>1 DEF Meets
<1>6. ASSUME cfg.simple, NEW i \in 1..n + 1, NEW j \in 1..n + 1, i < j
      PROVE  q[i][1] # q[j][1]
  <2>1. j - 1 \in 0..n /\ j - 1 > 0 /\ i \in 1..j - 1 /\ (j - 1) + 1 = j
    BY <1>6
  <2>2. Distinct(q, j - 1)
    BY <1>1, <1>6, <2>1 DEF Meets
  <2> QED
    BY <2>1, <2>2 DEF Distinct
<1> QED
  BY <1>1, <1>4, <1>5, <1>6

\* A run that meets what the solver holds is found.
LEMMA RunIsModel ==
    ASSUME NEW F, NEW n \in Nat, NEW q, Run(sys, q), Len(q) = n + 1,
           \A u \in Nat : Fact("init", u) \in F => u = 0 /\ q[1][1] \in Y.init,
           \A u \in 0..n : Fact("good", u) \in F => ~AnyBad(Excluded, q[u + 1]),
           \A u \in 0..n : Fact("bad", u) \in F => AnyBad(Target, q[u + 1]),
           \A f \in F : f[1] = "lemma" => \A u \in 0..n : q[u + 1][1] \in f[3],
           cfg.simple => \A i, j \in 1..n + 1 : i < j => q[i][1] # q[j][1]
    PROVE  q \in Models(F, n)
<1>1. /\ q \in Seq(Steps)
      /\ \A i \in 1..n + 1 : q[i] \in Y.cons
      /\ \A i \in 1..n : q[i + 1][1] = Y.next[q[i]]
  <2>1. (n + 1) - 1 = n
    OBVIOUS
  <2> QED
    BY <2>1, Names DEF Run, Y
<1>2. ASSUME NEW u \in 0..n PROVE Meets(F, q, u)
  <2> DEFINE x == q[u + 1]
  <2>1. Fact("init", u) \in F => x[1] \in Y.init
    OBVIOUS
  <2>2. u > 0 => x[1] = Y.next[q[u]]
    <3>1. u > 0 => u \in 1..n
      OBVIOUS
    <3> QED
      BY <1>1, <3>1
  <2>3. x \in Y.cons
    <3>1. u + 1 \in 1..n + 1
      OBVIOUS
    <3> QED
      BY <1>1, <3>1
  <2>4. cfg.simple => Distinct(q, u)
    <3>1. \A i \in 1..u : i \in 1..n + 1 /\ i < u + 1 /\ u + 1 \in 1..n + 1
      OBVIOUS
    <3> QED
      BY <3>1 DEF Distinct
  <2>5. Fact("good", u) \in F => ~AnyBad(Excluded, x)
    OBVIOUS
  <2>6. Fact("bad", u) \in F => AnyBad(Target, x)
    OBVIOUS
  <2>7. \A f \in F : f[1] = "lemma" /\ f[2] = u => x[1] \in f[3]
    OBVIOUS
  <2> QED
    BY <2>1, <2>2, <2>3, <2>4, <2>5, <2>6, <2>7 DEF Meets
<1>3. q \in Valuations(F, n)
  BY <1>1, <1>2 DEF Valuations
<1> QED
  BY <1>3, ModelsAre

\* The query for a counterexample of a depth is complete: if the facts are those of the
\* engines, a failure at this depth is found, the first one at least if steps are assumed good.
LEMMA FailureFound ==
    ASSUME NEW F, NEW n \in Nat,
           \A u \in Nat : Fact("init", u) \in F => u = 0,
           \A u \in Nat : Fact("good", u) \in F => u < n,
           \A u \in Nat : Fact("bad", u) \in F => u = n,
           \A f \in F : f[1] = "lemma" => Lasting(sys, f[3]),
           (cfg.simple \/ \E u \in Nat : Fact("good", u) \in F) =>
              \A d \in 0..n - 1 : ~Fails(sys, cfg, d),
           Fails(sys, cfg, n)
    PROVE  \E q \in Models(F, n) : AnyBad(Target, q[n + 1])
<1>1. PICK q : Failure(sys, cfg, n, q)
  BY DEF Fails
<1>2. /\ Run(sys, q) /\ Len(q) = n + 1 /\ q[1][1] \in Y.init
      /\ q[1][1] \in System[sys].init
      /\ AnyBad(Target, q[n + 1])
  BY <1>1, Names DEF Failure, Y
<1>3. ASSUME NEW u \in 0..n, Fact("good", u) \in F PROVE ~AnyBad(Excluded, q[u + 1])
  <2>1. u \in Nat /\ u < n /\ u + 1 \in 1..n
    BY <1>3
  <2>2. ~Wrong(sys, ExcludedOf(sys, cfg), q[u + 1])
    BY <1>1, <1>3, <2>1, ShortestGood
  <2> QED
    BY <2>2, Names
<1>4. ASSUME NEW u \in 0..n, Fact("bad", u) \in F PROVE AnyBad(Target, q[u + 1])
  BY <1>2, <1>4
<1>5. ASSUME NEW f \in F, f[1] = "lemma", NEW u \in 0..n PROVE q[u + 1][1] \in f[3]
  <2>1. u + 1 \in 1..Len(q) /\ Lasting(sys, f[3])
    BY <1>2, <1>5
  <2> QED
    BY <1>2, <2>1, LastingHolds
<1>6. ASSUME cfg.simple, NEW i \in 1..n + 1, NEW j \in 1..n + 1, i < j
      PROVE  q[i][1] # q[j][1]
  BY <1>1, <1>6, ShortestSimple
<1>7. q \in Models(F, n)
  BY <1>2, <1>3, <1>4, <1>5, <1>6, RunIsModel
<1> QED
  BY <1>2, <1>7

\* The query of the induction step is complete.
LEMMA StepFound ==
    ASSUME NEW F, NEW n \in Nat,
           \A u \in Nat : Fact("init", u) \notin F,
           \A u \in Nat : Fact("good", u) \in F => u < n,
           \A u \in Nat : Fact("bad", u) \notin F,
           \A f \in F : f[1] # "lemma",
           \A q \in Models(F, n) : ~AnyBad(Target, q[n + 1])
    PROVE  StepClosed(sys, cfg, n)
<1> SUFFICES ASSUME NEW q, Run(sys, q), Len(q) = n + 1,
                    \A i \in 1..n : ~Wrong(sys, ExcludedOf(sys, cfg), q[i]),
                    cfg.simple => \A i, j \in 1..n + 1 : i < j => q[i][1] # q[j][1]
             PROVE  ~Wrong(sys, TargetOf(sys, cfg), q[n + 1])
  BY DEF StepClosed
<1>1. ASSUME NEW u \in 0..n, Fact("good", u) \in F PROVE ~AnyBad(Excluded, q[u + 1])
  <2>1. u + 1 \in 1..n
    BY <1>1
  <2> QED
    BY <2>1, Names
<1>2. \A u \in 0..n : Fact("bad", u) \notin F
  OBVIOUS
<1>3. q \in Models(F, n)
  BY <1>1, <1>2, RunIsModel
<1> QED
  BY <1>3, Names

-----------------------------------------------------------------------------
(***************************************************************************)
(* The inductive invariant.                                                 *)
(***************************************************************************)

Initial(eng) == eng \in {"bmc", "wlbmc"}
Inductive(eng) == eng \in {"kind", "wlkind"}

Types ==
    /\ sys \in DOMAIN System /\ cfg \in Config
    /\ cfg.prop # 0 => cfg.prop \in AllBads(sys)
    /\ pc \in {"head", "step", "base", "report", "done"}
    /\ k \in Nat /\ unrolled \in Nat /\ transK \in Nat /\ badK \in Nat
    /\ logged \in Int
    /\ cfg.eng \in {"wlbmc", "wlkind"} => pc \in {"head", "done"}
    /\ pc = "step" => cfg.eng = "kind" /\ k > 0
    /\ pc = "base" => ~cfg.skip

\* A solver is told to stop only once the flag says so.
Stopping ==
    /\ flag \in BOOLEAN /\ solver \in Nat \ {0}
    /\ told # 0 => flag
    /\ stopping = 1 => flag

\* How far the loading has come.
Cursors ==
    /\ pc \in {"step", "base", "report"} =>
          unrolled = k /\ transK = k + 1 /\ (cfg.eng = "kind" => badK = k)
    /\ badK <= k

\* What the solver holds, and what it does not.
Held ==
    /\ \A u \in 0..transK - 1 : Fact("trans", u) \in slv
    /\ Initial(cfg.eng) => Fact("init", 0) \in slv
    /\ \A u \in Nat : Fact("init", u) \in slv => u = 0 /\ Initial(cfg.eng)
    /\ \A u \in Nat : Fact("good", u) \in slv => u < badK /\ Inductive(cfg.eng)
    /\ \A f \in slv : f[1] = "lemma" => cfg.eng = "bmc" /\ Lasting(sys, f[3])
    /\ \A L \in inv : Lasting(sys, L)
    /\ pending \subseteq Lemmas[sys]

\* Only Kissat is given the bad states, and without a limit it never keeps them.
Asked ==
    \A u \in Nat : Fact("bad", u) \in slv =>
        cfg.kissat /\ (cfg.limit = "none" => u = k /\ pc \in {"base", "report", "done"})

\* The bounds below k are checked when every bound is.
Below ==
    ~cfg.skip /\ cfg.start = 0 /\ cfg.step = 1 /\ cfg.limit = "none" =>
        \A d \in 0..k - 1 : ~Fails(sys, cfg, d)

\* A bound about to be reported is checked.
Plain == ~cfg.skip /\ (cfg.kissat => cfg.limit = "none")
Here == pc = "report" /\ Plain => ~Fails(sys, cfg, k)

\* What the tracers were told is right.
Said == Plain =>
    /\ \A r \in traced : IsUnknown(r) => r.depth - 1 \in Nat /\ ~Fails(sys, cfg, r.depth - 1)
    /\ \A d \in 0..logged : ~Fails(sys, cfg, d)

Counterexample(s, w, d) ==
    LET q == w.steps IN
    /\ Len(q) = d + 1
    /\ q[1][1] \in System[s].init
    /\ \A i \in 1..Len(q) : q[i] \in System[s].cons
    /\ \A i \in 1..Len(q) - 1 : q[i + 1][1] = System[s].next[q[i]]
    /\ q[Len(q)] \in System[s].bads[w.bad]

\* A result goes back to the query that gave it.
Answers ==
    /\ pc # "done" => res = Unknown
    /\ pc = "done" =>
          \/ IsUnknown(res) /\ res.depth \in Nat /\ res.depth <= k
          \/ /\ res = UNSAT /\ Inductive(cfg.eng) /\ k > 0 /\ unrolled = k
             /\ StepClosed(sys, cfg, k)
          \/ res = SAT(k) /\ Counterexample(sys, wit, k)

\* A simple path has no more steps than there are states.
Simple == cfg.simple =>
    /\ pc \in {"base", "report"} => k < Cardinality(System[sys].states)
    /\ pc = "head" => k <= Cardinality(System[sys].states)
    /\ pc = "done" /\ IsUnknown(res) /\ ~flag => cfg.end < Cardinality(System[sys].states)

IInv ==
    /\ Types /\ Stopping /\ Cursors /\ Held /\ Asked
    /\ Below /\ Here /\ Said /\ Answers /\ Simple

\* What the options may be.
LEMMA Options ==
    ASSUME Types
    PROVE  /\ cfg.eng \in {"bmc", "kind", "wlbmc", "wlkind"}
           /\ cfg.start \in Nat /\ cfg.end \in Nat /\ cfg.step \in Nat \ {0}
           /\ {cfg.kissat, cfg.simple, cfg.skip, cfg.local} \subseteq BOOLEAN
           /\ Inductive(cfg.eng) => cfg.step = 1 /\ cfg.start = 0
           /\ cfg.eng # "bmc" => ~cfg.kissat /\ cfg.limit = "none"
           /\ cfg.eng # "kind" => cfg.prop = 0 /\ ~cfg.simple /\ ~cfg.skip /\ ~cfg.local
           /\ cfg.local => cfg.prop # 0
BY ConfigAssumption DEF Types, Inductive

LEMMA CountUpTo ==
    ASSUME NEW n \in Nat
    PROVE  IsFiniteSet(1..n) /\ Cardinality(1..n) = n
<1>1. 1 \in Int /\ n \in Int /\ (IF 1 > n THEN 0 ELSE n - 1 + 1) = n
  OBVIOUS
<1> QED
  BY <1>1, FS_Interval

LEMMA StatesCounted ==
    ASSUME sys \in DOMAIN System
    PROVE  /\ IsFiniteSet(System[sys].states) /\ Cardinality(System[sys].states) \in Nat
           /\ Cardinality(System[sys].states) > 0
<1>1. IsFiniteSet(System[sys].states) /\ System[sys].states # {}
  BY SystemAssumption
<1>2. /\ Cardinality(System[sys].states) \in Nat
      /\ Cardinality(System[sys].states) = 0 <=> System[sys].states = {}
  BY <1>1, FS_CardinalityType, FS_EmptySet
<1> QED
  BY <1>1, <1>2

\* Names for the kinds of facts.
LEMMA FactKinds ==
    /\ \A v, w, u, t : Fact(v, u) = Fact(w, t) <=> v = w /\ u = t
    /\ \A v, u : Fact(v, u)[1] = v
    /\ \A c, u : LemmaAt(c, u)[1] = "lemma" /\ LemmaAt(c, u)[3] = c
BY DEF Fact, LemmaAt

-----------------------------------------------------------------------------
(* The queries *)

LEMMA BaseDecides ==
    ASSUME IInv, pc = "base", cfg.kissat => cfg.limit = "none", BaseQuery = {}
    PROVE  ~Fails(sys, cfg, k)
<1> DEFINE F == IF cfg.eng = "kind" THEN slv \cup {Fact("init", 0)} ELSE slv
<1>0. /\ k \in Nat /\ unrolled = k /\ ~cfg.skip /\ cfg.eng \in {"bmc", "kind"}
      /\ cfg.eng = "kind" => badK = k
  BY Options DEF IInv, Types, Cursors
<1>1. \A q \in Models(F, k) : ~AnyBad(Target, q[k + 1])
  BY <1>0 DEF BaseQuery
<1>2. \A w, u : w # "init" => (Fact(w, u) \in F <=> Fact(w, u) \in slv)
  BY FactKinds
<1>3. \A f \in F : f[1] = "lemma" => f \in slv
  BY FactKinds
<1>4. \A u \in Nat : Fact("init", u) \in F => u = 0
  BY FactKinds DEF IInv, Held
<1> HIDE DEF F
<1>5. \A u \in Nat : Fact("good", u) \in F => u < k /\ cfg.eng = "kind"
  BY <1>0, <1>2 DEF IInv, Held, Inductive
<1>6. \A u \in Nat : Fact("bad", u) \in F => u = k
  BY <1>2 DEF IInv, Asked
<1>7. \A f \in F : f[1] = "lemma" => Lasting(sys, f[3])
  BY <1>3 DEF IInv, Held
<1>8. (cfg.simple \/ \E u \in Nat : Fact("good", u) \in F) =>
         \A d \in 0..k - 1 : ~Fails(sys, cfg, d)
  <2>1. SUFFICES ASSUME cfg.eng = "kind" PROVE \A d \in 0..k - 1 : ~Fails(sys, cfg, d)
    BY <1>5, Options DEF IInv
  <2>2. cfg.start = 0 /\ cfg.step = 1 /\ cfg.limit = "none"
    BY <2>1, Options DEF IInv, Inductive
  <2> QED
    BY <1>0, <2>2 DEF IInv, Below
<1> QED
  BY <1>0, <1>1, <1>4, <1>5, <1>6, <1>7, <1>8, FailureFound

LEMMA StepDecides ==
    ASSUME IInv, pc = "step", StepQuery = {}
    PROVE  StepClosed(sys, cfg, k)
<1>0. k \in Nat /\ unrolled = k /\ cfg.eng = "kind" /\ badK = k /\ ~cfg.kissat
  BY Options DEF IInv, Types, Cursors
<1>1. \A q \in Models(slv, k) : ~AnyBad(Target, q[k + 1])
  BY <1>0 DEF StepQuery
<1>2. \A u \in Nat : Fact("init", u) \notin slv
  BY <1>0 DEF IInv, Held, Initial
<1>3. \A u \in Nat : Fact("good", u) \in slv => u < k
  BY <1>0 DEF IInv, Held
<1>4. \A u \in Nat : Fact("bad", u) \notin slv
  BY <1>0 DEF IInv, Asked
<1>5. \A f \in slv : f[1] # "lemma"
  BY <1>0 DEF IInv, Held
<1> QED
  BY <1>0, <1>1, <1>2, <1>3, <1>4, <1>5, StepFound

\* What WlLoaded adds.
LEMMA WlHeld ==
    ASSUME IInv, pc = "head", cfg.eng \in {"wlbmc", "wlkind"}
    PROVE  /\ \A u \in 0..k : Fact("trans", u) \in WlLoaded
           /\ slv \subseteq WlLoaded
           /\ \A u \in Nat : Fact("init", u) \in WlLoaded => u = 0 /\ cfg.eng = "wlbmc"
           /\ \A u \in Nat : Fact("good", u) \in WlLoaded => u < k /\ cfg.eng = "wlkind"
           /\ \A u \in Nat : Fact("bad", u) \notin WlLoaded
           /\ \A f \in WlLoaded : f[1] # "lemma"
<1>0. k \in Nat /\ transK \in Nat /\ badK \in Nat /\ badK <= k /\ ~cfg.kissat
  BY Options DEF IInv, Types, Cursors
<1> DEFINE T == {Fact("trans", u) : u \in transK..k}
           G == IF cfg.eng = "wlkind" THEN {Fact("good", u) : u \in badK..k - 1} ELSE {}
<1>1. WlLoaded = slv \cup T \cup G
  BY DEF WlLoaded, Trans
<1>2. \A w, u : Fact(w, u) \in T <=> w = "trans" /\ u \in transK..k
  BY FactKinds
<1>3. \A w, u : Fact(w, u) \in G => w = "good" /\ u \in badK..k - 1 /\ cfg.eng = "wlkind"
  BY FactKinds
<1>4. \A f \in T \cup G : f[1] # "lemma"
  BY FactKinds
<1> HIDE DEF T, G
<1>5. ASSUME NEW u \in 0..k PROVE Fact("trans", u) \in WlLoaded
  <2>1. u \in 0..transK - 1 \/ u \in transK..k
    BY <1>0
  <2> QED
    BY <1>1, <1>2, <2>1 DEF IInv, Held
<1>6. ASSUME NEW u \in Nat, Fact("init", u) \in WlLoaded PROVE u = 0 /\ cfg.eng = "wlbmc"
  <2>1. Fact("init", u) \in slv
    BY <1>1, <1>2, <1>3, <1>6
  <2> QED
    BY <2>1 DEF IInv, Held, Initial
<1>7. ASSUME NEW u \in Nat, Fact("good", u) \in WlLoaded PROVE u < k /\ cfg.eng = "wlkind"
  <2>1. CASE Fact("good", u) \in slv
    <3>1. u < badK /\ cfg.eng = "wlkind"
      BY <2>1 DEF IInv, Held, Inductive
    <3> QED
      BY <1>0, <3>1
  <2>2. CASE Fact("good", u) \notin slv
    <3>1. Fact("good", u) \in G
      BY <1>1, <1>2, <1>7, <2>2
    <3> QED
      BY <1>0, <1>3, <3>1
  <2> QED
    BY <2>1, <2>2
<1>8. ASSUME NEW u \in Nat PROVE Fact("bad", u) \notin WlLoaded
  <2>1. Fact("bad", u) \notin slv
    BY <1>0 DEF IInv, Asked
  <2> QED
    BY <1>1, <1>2, <1>3, <2>1
<1>9. ASSUME NEW f \in WlLoaded PROVE f[1] # "lemma"
  <2>1. f \in slv => f[1] # "lemma"
    BY DEF IInv, Held
  <2> QED
    BY <1>1, <1>4, <2>1
<1> QED
  BY <1>1, <1>5, <1>6, <1>7, <1>8, <1>9

LEMMA WlDecides ==
    ASSUME IInv, pc = "head", cfg.eng \in {"wlbmc", "wlkind"}, NEW F,
           \/ F = WlLoaded /\ cfg.eng = "wlbmc"
           \/ F = WlLoaded \cup {Fact("init", 0)} /\ cfg.eng = "wlkind",
           WlQuery(F) = {}
    PROVE  ~Fails(sys, cfg, k)
<1>0. k \in Nat /\ ~cfg.skip /\ cfg.limit = "none" /\ cfg.prop = 0 /\ ~cfg.simple
  BY Options DEF IInv, Types
<1>1. \A q \in Models(F, k) : ~AnyBad(Target, q[k + 1])
  BY <1>0 DEF WlQuery, Target
<1>2. \A u \in Nat : Fact("init", u) \in F => u = 0
  BY WlHeld, FactKinds
<1>3. \A u \in Nat : Fact("good", u) \in F => u < k /\ cfg.eng = "wlkind"
  BY WlHeld, FactKinds
<1>4. \A u \in Nat : Fact("bad", u) \in F => u = k
  BY WlHeld, FactKinds
<1>5. \A f \in F : f[1] = "lemma" => Lasting(sys, f[3])
  BY WlHeld, FactKinds
<1>6. (cfg.simple \/ \E u \in Nat : Fact("good", u) \in F) =>
         \A d \in 0..k - 1 : ~Fails(sys, cfg, d)
  <2>1. SUFFICES ASSUME cfg.eng = "wlkind" PROVE \A d \in 0..k - 1 : ~Fails(sys, cfg, d)
    BY <1>0, <1>3
  <2>2. cfg.start = 0 /\ cfg.step = 1
    BY <2>1, Options DEF IInv, Inductive
  <2> QED
    BY <1>0, <2>2 DEF IInv, Below
<1> QED
  BY <1>0, <1>1, <1>2, <1>3, <1>4, <1>5, <1>6, FailureFound

LEMMA WlStepDecides ==
    ASSUME IInv, pc = "head", cfg.eng = "wlkind", WlQuery(WlLoaded) = {}
    PROVE  StepClosed(sys, cfg, k)
<1>0. k \in Nat /\ cfg.prop = 0
  BY Options DEF IInv, Types
<1>1. \A q \in Models(WlLoaded, k) : ~AnyBad(Target, q[k + 1])
  BY <1>0 DEF WlQuery, Target
<1>2. /\ \A u \in Nat : Fact("init", u) \notin WlLoaded
      /\ \A u \in Nat : Fact("good", u) \in WlLoaded => u < k
      /\ \A u \in Nat : Fact("bad", u) \notin WlLoaded
      /\ \A f \in WlLoaded : f[1] # "lemma"
  BY WlHeld
<1> QED
  BY <1>0, <1>1, <1>2, StepFound

\* The bad state that a counterexample names is one it ends in.
LEMMA FirstBadHolds ==
    ASSUME sys \in DOMAIN System, NEW x, AnyBad(BadIds, x)
    PROVE  x \in Y.bads[FirstBad(x)]
<1> DEFINE P == {p \in BadIds : x \in Y.bads[p]}
<1>1. P # {}
  BY DEF AnyBad
<1>2. P \subseteq Nat
  <2>1. Y.bads \in Seq(SUBSET (Y.states \X Y.inputs))
    BY SystemAssumption DEF Y
  <2>2. BadIds = 1..Len(Y.bads) /\ Len(Y.bads) \in Nat
    BY <2>1, LenProperties DEF BadIds
  <2> QED
    BY <2>2
<1>3. FirstBad(x) = Min(P)
  BY DEF FirstBad
<1>4. Min(P) \in P
  <2> HIDE DEF P
  <2>1. \E m \in P : \A y \in P : m <= y
    BY <1>1, <1>2, LeastNumber
  <2> QED
    BY <2>1 DEF Min
<1> QED
  BY <1>3, <1>4

LEMMA WitnessRight ==
    ASSUME sys \in DOMAIN System, NEW F, NEW n \in Nat,
           \A u \in 0..n : Fact("trans", u) \in F, Fact("init", 0) \in F,
           NEW q \in Models(F, n), NEW w, w.steps = q, q[n + 1] \in Y.bads[w.bad]
    PROVE  Counterexample(sys, w, n)
<1>1. Run(sys, q) /\ Len(q) = n + 1 /\ q[1][1] \in Y.init
  BY ModelIsRun
<1> QED
  BY <1>1 DEF Counterexample, Run, Y

LEMMA BaseWitness ==
    ASSUME IInv, pc = "base", NEW q \in BaseQuery
    PROVE  Counterexample(sys, Cex(q), k)
<1> DEFINE F == IF cfg.eng = "kind" THEN slv \cup {Fact("init", 0)} ELSE slv
<1>0. /\ k \in Nat /\ unrolled = k /\ transK = k + 1 /\ cfg.eng \in {"bmc", "kind"}
      /\ sys \in DOMAIN System
  BY Options DEF IInv, Types, Cursors
<1>1. q \in Models(F, k) /\ AnyBad(Target, q[k + 1])
  BY <1>0 DEF BaseQuery
<1>2. Fact("init", 0) \in F /\ slv \subseteq F
  BY <1>0 DEF IInv, Held, Initial
<1> HIDE DEF F
<1>3. ASSUME NEW u \in 0..k PROVE Fact("trans", u) \in F
  <2>1. u \in 0..transK - 1
    BY <1>0
  <2> QED
    BY <1>2, <2>1 DEF IInv, Held
<1>4. Len(q) = k + 1
  BY <1>0, <1>1, <1>3, ModelIsRun
<1>5. q[k + 1] \in Y.bads[Cex(q).bad]
  <2>1. CASE cfg.prop # 0
    BY <1>1, <2>1 DEF Cex, Target, AnyBad
  <2>2. CASE cfg.prop = 0
    <3>1. AnyBad(BadIds, q[k + 1])
      BY <1>1, <2>2 DEF Target
    <3>2. q[k + 1] \in Y.bads[FirstBad(q[k + 1])]
      BY <1>0, <3>1, FirstBadHolds
    <3> QED
      BY <1>4, <2>2, <3>2 DEF Cex
  <2> QED
    BY <2>1, <2>2
<1>6. Cex(q).steps = q
  BY DEF Cex
<1> QED
  BY <1>0, <1>1, <1>2, <1>3, <1>5, <1>6, WitnessRight

LEMMA WlWitness ==
    ASSUME IInv, pc = "head", cfg.eng \in {"wlbmc", "wlkind"}, NEW F,
           WlLoaded \subseteq F, Fact("init", 0) \in F, NEW q \in WlQuery(F)
    PROVE  Counterexample(sys, WlCex(q), k)
<1>0. k \in Nat /\ sys \in DOMAIN System
  BY DEF IInv, Types
<1>1. q \in Models(F, k) /\ AnyBad(BadIds, q[k + 1])
  BY DEF WlQuery
<1>2. \A u \in 0..k : Fact("trans", u) \in F
  BY WlHeld
<1>3. Len(q) = k + 1
  BY <1>0, <1>1, <1>2, ModelIsRun
<1>4. q[k + 1] \in Y.bads[WlCex(q).bad]
  BY <1>0, <1>1, <1>3, FirstBadHolds DEF WlCex
<1>5. WlCex(q).steps = q
  BY DEF WlCex
<1> QED
  BY <1>0, <1>1, <1>2, <1>4, <1>5, WitnessRight

\* A simple path visits no more states than there are.
LEMMA StepShort ==
    ASSUME IInv, pc = "step", cfg.simple, StepQuery # {}
    PROVE  k < Cardinality(System[sys].states)
<1>0. k \in Nat /\ unrolled = k /\ transK = k + 1 /\ sys \in DOMAIN System
  BY DEF IInv, Types, Cursors
<1>1. PICK q : q \in Models(slv, k)
  BY <1>0 DEF StepQuery
<1>2. \A u \in 0..k : Fact("trans", u) \in slv
  <2>1. \A u \in 0..k : u \in 0..transK - 1
    BY <1>0
  <2> QED
    BY <2>1 DEF IInv, Held
<1>3. /\ Run(sys, q) /\ Len(q) = k + 1
      /\ \A i, j \in 1..k + 1 : i < j => q[i][1] # q[j][1]
  BY <1>0, <1>1, <1>2, ModelIsRun
<1> DEFINE S == System[sys].states
           D == 1..k + 1
           f == [i \in D |-> q[i][1]]
<1>4. \A i \in D : q[i][1] \in S
  <2>1. \A i \in D : q[i] \in StepsOf(sys)
    BY <1>3, ElementOfSeq DEF Run
  <2> QED
    BY <2>1 DEF StepsOf
<1>5. IsFiniteSet(D) /\ Cardinality(D) = k + 1
  <2>1. k + 1 \in Nat
    BY <1>0
  <2> QED
    BY <2>1, CountUpTo
<1>6. IsFiniteSet(S) /\ Cardinality(S) \in Nat
  BY <1>0, StatesCounted
<1>7. f \in [D -> S]
  BY <1>4
<1>8. ASSUME NEW i \in D, NEW j \in D, i # j PROVE f[i] # f[j]
  <2>1. i < j \/ j < i
    BY <1>0, <1>8
  <2>2. q[i][1] # q[j][1]
    BY <1>3, <2>1
  <2> QED
    BY <2>2
<1> HIDE DEF f
<1>9. ~(Cardinality(S) < Cardinality(D))
  BY <1>5, <1>6, <1>7, <1>8, FS_PigeonHole
<1> QED
  BY <1>0, <1>5, <1>6, <1>9

-----------------------------------------------------------------------------
(* Initially, and what a step leaves alone *)

LEMMA InitHolds == Init => IInv
<1> SUFFICES ASSUME Init PROVE IInv
  OBVIOUS
<1>1. /\ sys \in DOMAIN System /\ cfg \in Config /\ pc = "head" /\ k = cfg.start
      /\ (cfg.prop # 0 => cfg.prop \in DOMAIN System[sys].bads)
      /\ unrolled = 0 /\ transK = 0 /\ badK = 0
      /\ flag = FALSE /\ stopping = 0 /\ solver = 1 /\ told = 0
      /\ res = Unknown /\ traced = {} /\ logged = -1
  BY DEF Init
<1>2. Types
  BY <1>1, ConfigAssumption DEF Types, AllBads
<1>3. Stopping
  <2>1. flag \in BOOLEAN
    BY <1>1
  <2>2. solver \in Nat \ {0} /\ told = 0 /\ stopping # 1
    BY <1>1
  <2> QED
    BY <2>1, <2>2 DEF Stopping
<1>4. Cursors
  BY <1>1, <1>2 DEF Cursors, Types
<1>5. Held
  <2>1. slv = IF cfg.eng \in {"bmc", "wlbmc"} THEN {Fact("init", 0)} ELSE {}
    BY DEF Init
  <2>2. \A u \in 0..transK - 1 : FALSE
    BY <1>1
  <2>3. Initial(cfg.eng) => Fact("init", 0) \in slv
    BY <2>1 DEF Initial
  <2>4. \A u \in Nat : Fact("init", u) \in slv => u = 0 /\ Initial(cfg.eng)
    BY <2>1, FactKinds DEF Initial
  <2>5. \A u \in Nat : Fact("good", u) \notin slv
    BY <2>1, FactKinds
  <2>6. \A f \in slv : f[1] # "lemma"
    BY <2>1, FactKinds
  <2>7. inv = {} /\ pending \subseteq Lemmas[sys]
    BY DEF Init
  <2> QED
    BY <2>2, <2>3, <2>4, <2>5, <2>6, <2>7 DEF Held
<1>6. Asked
  <2>1. slv = IF cfg.eng \in {"bmc", "wlbmc"} THEN {Fact("init", 0)} ELSE {}
    BY DEF Init
  <2>2. \A u \in Nat : Fact("bad", u) \notin slv
    BY <2>1, FactKinds
  <2> QED
    BY <2>2 DEF Asked
<1>7. Below
  BY <1>1 DEF Below
<1>8. Here
  BY <1>1 DEF Here
<1>9. Said
  BY <1>1 DEF Said
<1>10. Answers
  BY <1>1 DEF Answers
<1>11. Simple
  <2>1. cfg.simple => cfg.start = 0
    BY <1>2, Options DEF Inductive
  <2> QED
    BY <1>1, <2>1, StatesCounted DEF Simple
<1> QED
  BY <1>2, <1>3, <1>4, <1>5, <1>6, <1>7, <1>8, <1>9, <1>10, <1>11 DEF IInv

LEMMA StoppingSame ==
    ASSUME Stopping, UNCHANGED <<flag, stopping, told, solver>>
    PROVE  Stopping'
BY DEF Stopping

LEMMA HeldSame ==
    ASSUME Held, UNCHANGED <<sys, cfg, slv, transK, badK, inv, pending>>
    PROVE  Held'
BY DEF Held

LEMMA AskedSame ==
    ASSUME Asked, UNCHANGED <<cfg, slv, k>>, pc' \in {"base", "report", "done"}
    PROVE  Asked'
BY DEF Asked

LEMMA BelowSame ==
    ASSUME Below, UNCHANGED <<sys, cfg, k>>
    PROVE  Below'
BY DEF Below

LEMMA SaidSame ==
    ASSUME Said, UNCHANGED <<sys, cfg, traced, logged>>
    PROVE  Said'
BY DEF Said, Plain

\* A definite result does not concern the bounds.
LEMMA SaidDefinite ==
    ASSUME Said, UNCHANGED <<sys, cfg>>, NEW r, ~IsUnknown(r), TraceState(r)
    PROVE  Said'
<1>1. traced' = traced \cup {r} /\ logged' = logged
  BY DEF TraceState
<1>2. Plain' <=> Plain
  BY DEF Plain
<1>3. SUFFICES ASSUME Plain
               PROVE  /\ \A t \in traced' : IsUnknown(t) =>
                              t.depth - 1 \in Nat /\ ~Fails(sys, cfg, t.depth - 1)
                      /\ \A d \in 0..logged' : ~Fails(sys, cfg, d)
  BY <1>2 DEF Said
<1> QED
  BY <1>1, <1>3 DEF Said

\* A bound that has been checked may be reported.
LEMMA SaidBound ==
    ASSUME Said, Types, UNCHANGED <<sys, cfg>>, TraceState(Reached(k)),
           Plain => ~Fails(sys, cfg, k)
    PROVE  Said' /\ logged' \in Int
<1>0. k \in Nat /\ logged \in Int
  BY DEF Types
<1>1. /\ traced' = traced \cup {Reached(k)}
      /\ Reached(k).depth - 1 = k
      /\ logged' = IF k = logged + 1 THEN k ELSE logged
  <2>1. IsUnknown(Reached(k)) /\ Reached(k).depth = k + 1
    BY DEF IsUnknown, Reached
  <2>2. Reached(k).depth - 1 = k
    BY <1>0, <2>1
  <2> QED
    BY <2>1, <2>2 DEF TraceState, LogUnknown
<1>2. Plain' <=> Plain
  BY DEF Plain
<1>3. ASSUME Plain
      PROVE  /\ \A t \in traced' : IsUnknown(t) =>
                    t.depth - 1 \in Nat /\ ~Fails(sys, cfg, t.depth - 1)
             /\ \A d \in 0..logged' : ~Fails(sys, cfg, d)
  <2>1. ASSUME NEW t \in traced', IsUnknown(t)
        PROVE  t.depth - 1 \in Nat /\ ~Fails(sys, cfg, t.depth - 1)
    BY <1>0, <1>1, <1>3, <2>1 DEF Said
  <2>2. ASSUME NEW d \in 0..logged' PROVE ~Fails(sys, cfg, d)
    <3>1. d \in 0..logged \/ d = k
      BY <1>0, <1>1
    <3> QED
      BY <1>3, <3>1 DEF Said
  <2> QED
    BY <2>1, <2>2
<1> QED
  BY <1>0, <1>1, <1>2, <1>3 DEF Said

\* The bounds below k and k itself are the bounds below k + 1.
LEMMA BelowNext ==
    ASSUME Types, Below, UNCHANGED <<sys, cfg>>, k' = k + cfg.step,
           ~cfg.skip /\ cfg.limit = "none" => ~Fails(sys, cfg, k)
    PROVE  Below'
<1> SUFFICES ASSUME ~cfg.skip, cfg.start = 0, cfg.step = 1, cfg.limit = "none",
                    NEW d \in 0..k' - 1
             PROVE  ~Fails(sys, cfg, d)
  BY DEF Below
<1>1. d \in 0..k - 1 \/ d = k
  BY DEF Types
<1> QED
  BY <1>1 DEF Below

-----------------------------------------------------------------------------
(* The steps *)

LEMMA ReturnKeeps ==
    ASSUME IInv, UNCHANGED <<sys, cfg, k, slv, transK, badK, unrolled, inv, pending>>,
           UNCHANGED <<flag, stopping, told, solver>>,
           pc' = "done", logged' \in Int, Said', Answers', Simple'
    PROVE  IInv'
<1>1. Types'
  <2>1. sys' \in DOMAIN System /\ cfg' \in Config /\ (cfg'.prop # 0 => cfg'.prop \in AllBads(sys'))
    BY DEF IInv, Types
  <2>2. k' \in Nat /\ unrolled' \in Nat /\ transK' \in Nat /\ badK' \in Nat
    BY DEF IInv, Types
  <2> QED
    BY <2>1, <2>2 DEF Types
<1>2. Stopping'
  BY StoppingSame DEF IInv
<1>3. Cursors'
  BY DEF IInv, Cursors
<1>4. Held'
  BY HeldSame DEF IInv
<1>5. Asked'
  BY AskedSame DEF IInv
<1>6. Below'
  BY BelowSame DEF IInv
<1>7. Here'
  BY DEF Here
<1> QED
  BY <1>1, <1>2, <1>3, <1>4, <1>5, <1>6, <1>7 DEF IInv

\* The bound returned with nothing found is one that was reached.
LEMMA BeforeReached ==
    ASSUME k \in Nat
    PROVE  IsUnknown(Before) /\ Before.depth \in Nat /\ Before.depth <= k
<1>1. CASE k = 0
  BY <1>1 DEF Before, Unknown, IsUnknown
<1>2. CASE k # 0
  <2>1. Before.kind = "Unknown" /\ Before.depth = (k - 1) + 1
    BY <1>2 DEF Before, Reached
  <2>2. (k - 1) + 1 = k
    OBVIOUS
  <2> QED
    BY <2>1, <2>2 DEF IsUnknown
<1> QED
  BY <1>1, <1>2

LEMMA TerminateKeeps == ASSUME IInv, Terminate PROVE IInv'
<1>0. UNCHANGED <<sys, cfg, pc, k, unrolled, slv, transK, badK, inv, pending, solver,
                  wit, res, traced, logged>>
  BY DEF Terminate, solverVars, answerVars, logVars
<1>1. Types'
  BY <1>0 DEF IInv, Types
<1>2. Stopping' /\ (flag => flag')
  <2>1. CASE stopping = 0 /\ flag' = TRUE /\ UNCHANGED told
    BY <1>0, <2>1 DEF IInv, Stopping
  <2>2. CASE stopping = 1 /\ told' = ctrl /\ UNCHANGED flag
    <3>1. flag /\ stopping' # 1
      BY <2>2 DEF IInv, Stopping, Terminate
    <3>2. flag' = flag /\ solver' = solver
      BY <1>0, <2>2
    <3> QED
      BY <3>1, <3>2 DEF IInv, Stopping
  <2> QED
    BY <2>1, <2>2 DEF Terminate
<1>3. Cursors' /\ Here'
  BY <1>0 DEF IInv, Cursors, Here, Plain
<1>4. Held'
  BY <1>0, HeldSame DEF IInv
<1>5. Asked'
  BY <1>0 DEF IInv, Asked
<1>6. Below' /\ Said'
  BY <1>0, BelowSame, SaidSame DEF IInv
<1>7. Answers'
  BY <1>0 DEF IInv, Answers
<1>8. Simple'
  <2>1. ~flag' => ~flag
    BY <1>2
  <2> QED
    BY <1>0, <2>1 DEF IInv, Simple
<1> QED
  BY <1>1, <1>2, <1>3, <1>4, <1>5, <1>6, <1>7, <1>8 DEF IInv

LEMMA InterruptedKeeps == ASSUME IInv, Interrupted PROVE IInv'
<1>0. /\ UNCHANGED <<sys, cfg, k, unrolled, slv, transK, badK, inv, pending, solver,
                     flag, stopping, told, wit, traced, logged>>
      /\ pc' = "done" /\ res' = Before /\ (flag \/ cfg.limit = "total")
  BY DEF Interrupted, Return, solverVars, stopVars, logVars
<1>1. Said' /\ logged' \in Int
  BY <1>0, SaidSame DEF IInv, Types
<1>2. IsUnknown(Before) /\ Before.depth \in Nat /\ Before.depth <= k
  BY BeforeReached DEF IInv, Types
<1>3. Answers'
  BY <1>0, <1>2 DEF Answers
<1>4. Simple'
  <2>1. cfg.simple => cfg.limit = "none"
    BY Options DEF IInv
  <2>2. cfg.simple => flag'
    BY <1>0, <2>1
  <2> QED
    BY <1>0, <2>2 DEF Simple
<1> QED
  BY <1>0, <1>1, <1>3, <1>4, ReturnKeeps

LEMMA FinishKeeps == ASSUME IInv, Finish PROVE IInv'
<1>0. /\ UNCHANGED <<sys, cfg, k, unrolled, slv, transK, badK, inv, pending, solver,
                     flag, stopping, told, wit, traced, logged>>
      /\ pc = "head" /\ pc' = "done" /\ res' = Reached(cfg.end) /\ k > cfg.end
  BY DEF Finish, Return, solverVars, stopVars, logVars
<1>1. Said' /\ logged' \in Int
  BY <1>0, SaidSame DEF IInv, Types
<1>2. k \in Nat /\ cfg.end \in Nat
  BY Options DEF IInv, Types
<1>3. IsUnknown(res') /\ res'.depth \in Nat /\ res'.depth <= k
  <2>1. res'.kind = "Unknown" /\ res'.depth = cfg.end + 1
    BY <1>0 DEF Reached
  <2>2. cfg.end + 1 \in Nat /\ cfg.end + 1 <= k
    BY <1>0, <1>2
  <2> QED
    BY <2>1, <2>2 DEF IsUnknown
<1>4. Answers'
  BY <1>0, <1>3 DEF Answers
<1>5. Simple'
  <2>1. SUFFICES ASSUME cfg.simple PROVE cfg.end < Cardinality(System[sys].states)
    BY <1>0 DEF Simple
  <2>2. k <= Cardinality(System[sys].states) /\ Cardinality(System[sys].states) \in Nat
    BY <1>0, <2>1, StatesCounted DEF IInv, Simple, Types
  <2> QED
    BY <1>0, <1>2, <2>2
<1> QED
  BY <1>0, <1>1, <1>4, <1>5, ReturnKeeps

LEMMA CutShortKeeps == ASSUME IInv, CutShort PROVE IInv'
<1>0. /\ UNCHANGED <<sys, cfg, unrolled, slv, transK, badK, inv, pending, solver,
                     flag, stopping, told, wit, traced, logged>>
      /\ pc \in {"step", "base"}
      /\ told = solver \/ cfg.limit # "none"
  BY DEF CutShort, solverVars, stopVars, logVars
<1>1. Said' /\ logged' \in Int
  BY <1>0, SaidSame DEF IInv, Types
<1>2. cfg.limit = "none" => flag
  BY <1>0 DEF IInv, Stopping
<1>3. CASE flag
  <2>1. pc' = "done" /\ res' = Before /\ k' = k /\ flag'
    BY <1>0, <1>3 DEF CutShort, Return
  <2>2. IsUnknown(Before) /\ Before.depth \in Nat /\ Before.depth <= k
    BY BeforeReached DEF IInv, Types
  <2>3. Answers'
    BY <2>1, <2>2 DEF Answers
  <2>4. Simple'
    BY <2>1 DEF Simple
  <2> QED
    BY <1>0, <1>1, <2>1, <2>3, <2>4, ReturnKeeps
<1>4. CASE ~flag
  <2>1. k' = k + cfg.step /\ pc' = "head" /\ res' = res
    BY <1>4 DEF CutShort
  <2>2. cfg.limit # "none" /\ cfg.eng = "bmc" /\ ~cfg.simple
    BY <1>2, <1>4, Options DEF IInv
  <2>3. k \in Nat /\ cfg.step \in Nat \ {0} /\ badK \in Nat
    BY Options DEF IInv, Types
  <2>4. Types'
    <3>1. k' \in Nat
      BY <2>1, <2>3
    <3> QED
      BY <1>0, <1>1, <2>1, <3>1 DEF IInv, Types
  <2>5. Stopping'
    BY <1>0, StoppingSame DEF IInv
  <2>6. Cursors'
    <3>1. badK <= k
      BY <1>0, <2>2 DEF IInv, Cursors
    <3>2. badK' <= k'
      BY <1>0, <2>1, <2>3, <3>1
    <3> QED
      BY <2>1, <3>2 DEF Cursors
  <2>7. Held'
    BY <1>0, HeldSame DEF IInv
  <2>8. Asked'
    BY <1>0, <2>2 DEF IInv, Asked
  <2>9. Below' /\ Here' /\ Simple'
    BY <1>0, <2>1, <2>2 DEF Below, Here, Simple
  <2>10. Answers'
    BY <1>0, <2>1 DEF IInv, Answers
  <2> QED
    BY <1>1, <2>4, <2>5, <2>6, <2>7, <2>8, <2>9, <2>10 DEF IInv
<1> QED
  BY <1>3, <1>4

\* The facts that Trans adds.
LEMMA TransAre ==
    ASSUME NEW n
    PROVE  /\ \A w, u : Fact(w, u) \in Trans(n) <=> w = "trans" /\ u \in transK..n
           /\ \A f \in Trans(n) : f[1] # "lemma"
BY FactKinds DEF Trans

\* A lemma that BMC takes over is one of every step.
LEMMA ExtractedLasting ==
    ASSUME sys \in DOMAIN System, NEW got \in SUBSET Lemmas[sys], NEW L \in Extracted(got)
    PROVE  Lasting(sys, L)
<1>1. PICK l \in got : l.frame = "all" /\ L = l.holds
  BY DEF Extracted
<1>2. l \in Lemmas[sys]
  BY <1>1
<1> QED
  BY <1>1, <1>2, LemmaAssumption DEF Lasting

LEMMA BmcStepKeeps == ASSUME IInv, BmcStep PROVE IInv'
<1>0. /\ UNCHANGED <<sys, cfg, k, badK, solver, flag, stopping, told, wit, res, traced, logged>>
      /\ pc = "head" /\ cfg.eng = "bmc" /\ unrolled' = k /\ transK' = k + 1 /\ pc' = "base"
  BY DEF BmcStep, stopVars, answerVars, logVars
<1>1. k \in Nat /\ badK \in Nat /\ transK \in Nat /\ sys \in DOMAIN System /\ badK <= k
  BY DEF IInv, Types, Cursors
<1>2. ~cfg.skip /\ ~cfg.simple
  BY <1>0, Options DEF IInv
<1>3. Types'
  <2>1. unrolled' \in Nat /\ transK' \in Nat
    BY <1>0, <1>1
  <2> QED
    BY <1>0, <1>2, <2>1 DEF IInv, Types
<1>4. Stopping'
  BY <1>0, StoppingSame DEF IInv
<1>5. Cursors'
  BY <1>0, <1>1 DEF Cursors
<1>6. PICK got \in SUBSET pending :
          /\ pending' = pending \ got
          /\ inv' = inv \cup Extracted(got)
          /\ slv' = slv \cup {LemmaAt(c, u) : c \in Extracted(got), u \in 0..unrolled}
                        \cup Trans(k) \cup {LemmaAt(c, u) : c \in inv', u \in transK..k}
                        \cup (IF cfg.kissat THEN {Fact("bad", k)} ELSE {})
  BY DEF BmcStep
<1>7. got \in SUBSET Lemmas[sys]
  BY <1>6 DEF IInv, Held
<1>8. \A L \in Extracted(got) \cup inv' : Lasting(sys, L)
  BY <1>1, <1>6, <1>7, ExtractedLasting DEF IInv, Held
<1> DEFINE A == {LemmaAt(c, u) : c \in Extracted(got), u \in 0..unrolled}
           B == {LemmaAt(c, u) : c \in inv', u \in transK..k}
           C == IF cfg.kissat THEN {Fact("bad", k)} ELSE {}
<1>9. slv' = slv \cup A \cup Trans(k) \cup B \cup C
  BY <1>6
<1>10. \A f \in A \cup B : f[1] = "lemma" /\ Lasting(sys, f[3])
  <2>1. ASSUME NEW f \in A PROVE f[1] = "lemma" /\ Lasting(sys, f[3])
    <3>1. PICK c \in Extracted(got), u \in 0..unrolled : f = LemmaAt(c, u)
      BY <2>1
    <3> QED
      BY <1>8, <3>1, FactKinds
  <2>2. ASSUME NEW f \in B PROVE f[1] = "lemma" /\ Lasting(sys, f[3])
    <3>1. PICK c \in inv', u \in transK..k : f = LemmaAt(c, u)
      BY <2>2
    <3> QED
      BY <1>8, <3>1, FactKinds
  <2> QED
    BY <2>1, <2>2
<1>11. \A w, u : Fact(w, u) \in C => w = "bad" /\ u = k /\ cfg.kissat
  BY FactKinds
<1>12. \A f \in C : f[1] # "lemma"
  BY FactKinds
<1> HIDE DEF A, B, C
<1>13. \A w, u : w # "lemma" => Fact(w, u) \notin A \cup B
  BY <1>10, FactKinds
<1>14. Held'
  <2>1. ASSUME NEW u \in 0..transK' - 1 PROVE Fact("trans", u) \in slv'
    <3>1. u \in 0..transK - 1 \/ u \in transK..k
      BY <1>0, <1>1
    <3> QED
      BY <1>9, <3>1, TransAre DEF IInv, Held
  <2>2. Initial(cfg'.eng) => Fact("init", 0) \in slv'
    BY <1>0, <1>9 DEF IInv, Held
  <2>3. ASSUME NEW u \in Nat, Fact("init", u) \in slv' PROVE u = 0 /\ Initial(cfg'.eng)
    <3>1. Fact("init", u) \in slv
      BY <1>9, <1>11, <1>13, <2>3, TransAre
    <3> QED
      BY <1>0, <3>1 DEF IInv, Held
  <2>4. ASSUME NEW u \in Nat, Fact("good", u) \in slv'
        PROVE  u < badK' /\ Inductive(cfg'.eng)
    <3>1. Fact("good", u) \in slv
      BY <1>9, <1>11, <1>13, <2>4, TransAre
    <3> QED
      BY <1>0, <3>1 DEF IInv, Held
  <2>5. ASSUME NEW f \in slv', f[1] = "lemma" PROVE Lasting(sys, f[3])
    <3>1. f \in slv \/ f \in A \cup B
      BY <1>9, <1>12, <2>5, TransAre
    <3> QED
      BY <1>10, <2>5, <3>1 DEF IInv, Held
  <2>6. (\A L \in inv' : Lasting(sys, L)) /\ pending' \subseteq Lemmas[sys]
    BY <1>6, <1>8 DEF IInv, Held
  <2> QED
    BY <1>0, <2>1, <2>2, <2>3, <2>4, <2>5, <2>6 DEF Held
<1>15. Asked'
  <2>1. SUFFICES ASSUME NEW u \in Nat, Fact("bad", u) \in slv'
                 PROVE  cfg.kissat /\ (cfg.limit = "none" => u = k)
    BY <1>0 DEF Asked
  <2>2. Fact("bad", u) \in slv \/ Fact("bad", u) \in C
    BY <1>9, <1>13, <2>1, TransAre
  <2> QED
    BY <1>0, <1>11, <2>2 DEF IInv, Asked
<1>16. Below' /\ Said'
  BY <1>0, BelowSame, SaidSame DEF IInv
<1>17. Here' /\ Simple'
  BY <1>0, <1>2 DEF Here, Simple
<1>18. Answers'
  BY <1>0 DEF IInv, Answers
<1> QED
  BY <1>3, <1>4, <1>5, <1>14, <1>15, <1>16, <1>17, <1>18 DEF IInv

LEMMA KindStepKeeps == ASSUME IInv, KindStep PROVE IInv'
<1>0. /\ UNCHANGED <<sys, cfg, k, inv, pending, solver, flag, stopping, told,
                     wit, res, traced, logged>>
      /\ pc = "head" /\ cfg.eng = "kind"
      /\ unrolled' = k /\ transK' = k + 1 /\ badK' = k
      /\ slv' = slv \cup Trans(k) \cup {Fact("good", u) : u \in badK..k - 1}
      /\ pc' = IF k > 0 THEN "step" ELSE AfterStep
  BY DEF KindStep, stopVars, answerVars, logVars
<1>1. k \in Nat /\ badK \in Nat /\ transK \in Nat /\ sys \in DOMAIN System /\ badK <= k
  BY DEF IInv, Types, Cursors
<1>2. cfg.skip \in BOOLEAN /\ ~cfg.kissat
  BY <1>0, Options DEF IInv
<1>3. /\ pc' \in {"step", "base", "report"}
      /\ pc' = "step" => k > 0
      /\ pc' # "step" => k = 0
      /\ pc' = "base" => ~cfg.skip
      /\ pc' = "report" => cfg.skip
  BY <1>0, <1>1, <1>2 DEF AfterStep
<1>4. Types'
  <2>1. unrolled' \in Nat /\ transK' \in Nat /\ badK' \in Nat
    BY <1>0, <1>1
  <2> QED
    BY <1>0, <1>3, <2>1 DEF IInv, Types
<1>5. Stopping'
  BY <1>0, StoppingSame DEF IInv
<1>6. Cursors'
  BY <1>0, <1>1 DEF Cursors
<1> DEFINE G == {Fact("good", u) : u \in badK..k - 1}
<1>7. slv' = slv \cup Trans(k) \cup G
  BY <1>0
<1>8. /\ \A w, u : Fact(w, u) \in G => w = "good" /\ u \in badK..k - 1
      /\ \A f \in G : f[1] # "lemma"
  BY FactKinds
<1> HIDE DEF G
<1>9. Held'
  <2>1. ASSUME NEW u \in 0..transK' - 1 PROVE Fact("trans", u) \in slv'
    <3>1. u \in 0..transK - 1 \/ u \in transK..k
      BY <1>0, <1>1
    <3> QED
      BY <1>7, <3>1, TransAre DEF IInv, Held
  <2>2. Initial(cfg'.eng) => Fact("init", 0) \in slv'
    BY <1>0, <1>7 DEF IInv, Held
  <2>3. ASSUME NEW u \in Nat, Fact("init", u) \in slv' PROVE u = 0 /\ Initial(cfg'.eng)
    <3>1. Fact("init", u) \in slv
      BY <1>7, <1>8, <2>3, TransAre
    <3> QED
      BY <1>0, <3>1 DEF IInv, Held
  <2>4. ASSUME NEW u \in Nat, Fact("good", u) \in slv'
        PROVE  u < badK' /\ Inductive(cfg'.eng)
    <3>1. Fact("good", u) \in slv \/ u \in badK..k - 1
      BY <1>7, <1>8, <2>4, TransAre
    <3>2. Fact("good", u) \in slv => u < badK
      BY DEF IInv, Held
    <3>3. u < k
      BY <1>1, <3>1, <3>2
    <3> QED
      BY <1>0, <3>3 DEF Inductive
  <2>5. ASSUME NEW f \in slv', f[1] = "lemma" PROVE cfg.eng = "bmc" /\ Lasting(sys, f[3])
    <3>1. f \in slv
      BY <1>7, <1>8, <2>5, TransAre
    <3> QED
      BY <2>5, <3>1 DEF IInv, Held
  <2>6. (\A L \in inv' : Lasting(sys, L)) /\ pending' \subseteq Lemmas[sys]
    BY <1>0 DEF IInv, Held
  <2> QED
    BY <1>0, <2>1, <2>2, <2>3, <2>4, <2>5, <2>6 DEF Held
<1>10. Asked'
  <2>1. SUFFICES ASSUME NEW u \in Nat, Fact("bad", u) \in slv' PROVE FALSE
    BY <1>0 DEF Asked
  <2>2. Fact("bad", u) \in slv
    BY <1>7, <1>8, <2>1, TransAre
  <2> QED
    BY <1>2, <2>2 DEF IInv, Asked
<1>11. Below' /\ Said'
  BY <1>0, BelowSame, SaidSame DEF IInv
<1>12. Here'
  BY <1>0, <1>3 DEF Here, Plain
<1>13. Answers'
  BY <1>0, <1>3 DEF IInv, Answers
<1>14. Simple'
  <2>1. pc' \in {"base", "report"} => k < Cardinality(System[sys].states)
    BY <1>1, <1>3, StatesCounted
  <2> QED
    BY <1>0, <1>3, <2>1 DEF Simple
<1> QED
  BY <1>4, <1>5, <1>6, <1>9, <1>10, <1>11, <1>12, <1>13, <1>14 DEF IInv

LEMMA StepHoldsKeeps == ASSUME IInv, StepHolds PROVE IInv'
<1>0. /\ UNCHANGED <<sys, cfg, k, unrolled, slv, transK, badK, inv, pending, solver,
                     flag, stopping, told, wit>>
      /\ pc = "step" /\ StepQuery = {} /\ pc' = "done" /\ res' = UNSAT /\ TraceState(UNSAT)
  BY DEF StepHolds, Return, solverVars, stopVars
<1>1. ~IsUnknown(UNSAT)
  BY DEF IsUnknown, UNSAT
<1>2. Said'
  BY <1>0, <1>1, SaidDefinite DEF IInv
<1>3. logged' \in Int
  BY <1>0, <1>1 DEF IInv, Types, TraceState
<1>4. StepClosed(sys, cfg, k) /\ cfg.eng = "kind" /\ k > 0 /\ unrolled = k
  BY <1>0, StepDecides DEF IInv, Types, Cursors
<1>5. Answers'
  BY <1>0, <1>4 DEF Answers, Inductive
<1>6. Simple'
  BY <1>0, <1>1 DEF Simple
<1> QED
  BY <1>0, <1>2, <1>3, <1>5, <1>6, ReturnKeeps

LEMMA StepFailsKeeps == ASSUME IInv, StepFails PROVE IInv'
<1>0. /\ UNCHANGED <<sys, cfg, k, unrolled, slv, transK, badK, inv, pending, solver,
                     flag, stopping, told, wit, res, traced, logged>>
      /\ pc = "step" /\ StepQuery # {} /\ pc' = AfterStep
  BY DEF StepFails, solverVars, stopVars, answerVars, logVars
<1>1. cfg.skip \in BOOLEAN /\ cfg.eng = "kind"
  BY <1>0, Options DEF IInv, Types
<1>2. /\ pc' \in {"base", "report"}
      /\ pc' = "base" => ~cfg.skip
      /\ pc' = "report" => cfg.skip
  BY <1>0, <1>1 DEF AfterStep
<1>3. Types'
  BY <1>0, <1>1, <1>2 DEF IInv, Types
<1>4. Stopping'
  BY <1>0, StoppingSame DEF IInv
<1>5. Cursors'
  BY <1>0 DEF IInv, Cursors
<1>6. Held'
  BY <1>0, HeldSame DEF IInv
<1>7. Asked'
  BY <1>0, <1>2, AskedSame DEF IInv
<1>8. Below' /\ Said'
  BY <1>0, BelowSame, SaidSame DEF IInv
<1>9. Here'
  BY <1>0, <1>2 DEF Here, Plain
<1>10. Answers'
  BY <1>0, <1>2 DEF IInv, Answers
<1>11. Simple'
  BY <1>0, <1>2, StepShort DEF Simple
<1> QED
  BY <1>3, <1>4, <1>5, <1>6, <1>7, <1>8, <1>9, <1>10, <1>11 DEF IInv

LEMMA BaseSatKeeps == ASSUME IInv, BaseSat PROVE IInv'
<1>0. /\ UNCHANGED <<sys, cfg, k, unrolled, slv, transK, badK, inv, pending, solver,
                     flag, stopping, told>>
      /\ pc = "base" /\ pc' = "done" /\ res' = SAT(k) /\ TraceState(SAT(k))
  BY DEF BaseSat, Return, solverVars, stopVars
<1>1. ~IsUnknown(SAT(k))
  BY DEF IsUnknown, SAT
<1>2. Said'
  BY <1>0, <1>1, SaidDefinite DEF IInv
<1>3. logged' \in Int
  BY <1>0, <1>1 DEF IInv, Types, TraceState
<1>4. PICK q \in BaseQuery : wit' = Cex(q)
  BY DEF BaseSat
<1>5. Counterexample(sys, wit', k)
  BY <1>0, <1>4, BaseWitness
<1>6. Answers'
  BY <1>0, <1>5 DEF Answers
<1>7. Simple'
  BY <1>0, <1>1 DEF Simple
<1> QED
  BY <1>0, <1>2, <1>3, <1>6, <1>7, ReturnKeeps

LEMMA BaseUnsatKeeps == ASSUME IInv, BaseUnsat PROVE IInv'
<1>0. /\ UNCHANGED <<sys, cfg, k, unrolled, slv, transK, badK, inv, pending, solver,
                     flag, stopping, told, wit, res, traced, logged>>
      /\ pc = "base" /\ BaseQuery = {} /\ pc' = "report"
  BY DEF BaseUnsat, solverVars, stopVars, answerVars, logVars
<1>1. Types'
  BY <1>0 DEF IInv, Types
<1>2. Stopping'
  BY <1>0, StoppingSame DEF IInv
<1>3. Cursors'
  BY <1>0 DEF IInv, Cursors
<1>4. Held'
  BY <1>0, HeldSame DEF IInv
<1>5. Asked'
  BY <1>0, AskedSame DEF IInv
<1>6. Below' /\ Said'
  BY <1>0, BelowSame, SaidSame DEF IInv
<1>7. Here'
  BY <1>0, BaseDecides DEF Here, Plain
<1>8. Answers'
  BY <1>0 DEF IInv, Answers
<1>9. Simple'
  BY <1>0 DEF IInv, Simple
<1> QED
  BY <1>1, <1>2, <1>3, <1>4, <1>5, <1>6, <1>7, <1>8, <1>9 DEF IInv

LEMMA ReportKeeps == ASSUME IInv, Report PROVE IInv'
<1>0. /\ UNCHANGED <<sys, cfg, unrolled, transK, badK, inv, pending, flag, stopping, told,
                     wit, res>>
      /\ pc = "report" /\ pc' = "head" /\ k' = k + cfg.step
      /\ TraceState(Reached(k)) /\ ResetSolver
  BY DEF Report, answerVars
<1>1. /\ k \in Nat /\ badK \in Nat /\ transK \in Nat /\ cfg.step \in Nat \ {0} /\ badK <= k
      /\ sys \in DOMAIN System /\ cfg.kissat \in BOOLEAN
  BY Options DEF IInv, Types, Cursors
<1>2. cfg.kissat => cfg.eng = "bmc"
  BY Options DEF IInv
<1>3. Plain => ~Fails(sys, cfg, k)
  BY <1>0 DEF IInv, Here
<1>4. Said' /\ logged' \in Int
  BY <1>0, <1>3, SaidBound DEF IInv
<1>5. Below'
  BY <1>0, <1>3, BelowNext DEF IInv, Plain
<1>6. Types'
  <2>1. k' \in Nat
    BY <1>0, <1>1
  <2> QED
    BY <1>0, <1>4, <2>1 DEF IInv, Types
<1>7. Stopping'
  <2>1. solver' = solver \/ solver' = solver + 1
    BY <1>0 DEF ResetSolver
  <2>2. solver' \in Nat \ {0}
    BY <2>1 DEF IInv, Stopping
  <2> QED
    BY <1>0, <2>2 DEF IInv, Stopping
<1>8. Cursors'
  <2>1. badK' <= k'
    BY <1>0, <1>1
  <2> QED
    BY <1>0, <2>1 DEF Cursors
<1>9. Held'
  <2>1. CASE ~cfg.kissat
    <3>1. slv' = slv
      BY <1>0, <2>1 DEF ResetSolver
    <3> QED
      BY <1>0, <3>1, HeldSame DEF IInv
  <2>2. CASE cfg.kissat
    <3> DEFINE T == {Fact("trans", u) : u \in 0..transK - 1}
    <3>1. slv' = {Fact("init", 0)} \cup T
      BY <1>0, <2>2 DEF ResetSolver
    <3>2. /\ \A w, u : Fact(w, u) \in T <=> w = "trans" /\ u \in 0..transK - 1
          /\ \A f \in T : f[1] # "lemma"
      BY FactKinds
    <3> HIDE DEF T
    <3>3. \A u \in 0..transK' - 1 : Fact("trans", u) \in slv'
      BY <1>0, <3>1, <3>2
    <3>4. Fact("init", 0) \in slv'
      BY <3>1
    <3>5. \A u \in Nat : Fact("init", u) \in slv' => u = 0
      BY <3>1, <3>2, FactKinds
    <3>6. \A u \in Nat : Fact("good", u) \notin slv'
      BY <3>1, <3>2, FactKinds
    <3>7. \A f \in slv' : f[1] # "lemma"
      BY <3>1, <3>2, FactKinds
    <3>8. Initial(cfg'.eng)
      BY <1>0, <1>2, <2>2 DEF Initial
    <3>9. (\A L \in inv' : Lasting(sys', L)) /\ pending' \subseteq Lemmas[sys']
      BY <1>0 DEF IInv, Held
    <3> QED
      BY <3>3, <3>4, <3>5, <3>6, <3>7, <3>8, <3>9 DEF Held
  <2> QED
    BY <2>1, <2>2
<1>10. Asked'
  <2>1. CASE ~cfg.kissat
    <3>1. slv' = slv
      BY <1>0, <2>1 DEF ResetSolver
    <3> QED
      BY <1>0, <2>1, <3>1 DEF IInv, Asked
  <2>2. CASE cfg.kissat
    <3>1. slv' = {Fact("init", 0)} \cup {Fact("trans", u) : u \in 0..transK - 1}
      BY <1>0, <2>2 DEF ResetSolver
    <3>2. \A u \in Nat : Fact("bad", u) \notin slv'
      BY <3>1, FactKinds
    <3> QED
      BY <3>2 DEF Asked
  <2> QED
    BY <2>1, <2>2
<1>11. Here' /\ Answers'
  BY <1>0 DEF IInv, Here, Answers
<1>12. Simple'
  <2>1. SUFFICES ASSUME cfg.simple PROVE k' <= Cardinality(System[sys].states)
    BY <1>0 DEF Simple
  <2>2. cfg.step = 1
    BY <2>1, Options DEF IInv, Inductive
  <2>3. k < Cardinality(System[sys].states) /\ Cardinality(System[sys].states) \in Nat
    BY <1>0, <1>1, <2>1, StatesCounted DEF IInv, Simple
  <2> QED
    BY <1>0, <1>1, <2>2, <2>3
<1> QED
  BY <1>4, <1>5, <1>6, <1>7, <1>8, <1>9, <1>10, <1>11, <1>12 DEF IInv

\* What all passes of the word-level loops leave right.
LEMMA WlPassLoads ==
    ASSUME IInv, cfg.eng \in {"wlbmc", "wlkind"}, pc = "head",
           UNCHANGED <<sys, cfg, inv, pending, flag, stopping, told, solver>>,
           unrolled' = k, transK' = k + 1, badK' = k, slv' = WlLoaded,
           pc' \in {"head", "done"}, k' \in Nat, k <= k', logged' \in Int
    PROVE  Types' /\ Stopping' /\ Cursors' /\ Held' /\ Asked' /\ Here' /\ Simple'
<1>0. k \in Nat /\ ~cfg.simple
  BY Options DEF IInv, Types
<1>1. Types'
  <2>1. unrolled' \in Nat /\ transK' \in Nat /\ badK' \in Nat
    BY <1>0
  <2> QED
    BY <2>1 DEF IInv, Types
<1>2. Stopping'
  BY StoppingSame DEF IInv
<1>3. Cursors' /\ Here' /\ Simple'
  BY <1>0 DEF Cursors, Here, Simple
<1>4. Held'
  <2>1. \A u \in 0..transK' - 1 : Fact("trans", u) \in slv'
    <3>1. (k + 1) - 1 = k
      BY <1>0
    <3> QED
      BY <3>1, WlHeld
  <2>2. Initial(cfg'.eng) => Fact("init", 0) \in slv'
    BY WlHeld DEF IInv, Held
  <2>3. \A u \in Nat : Fact("init", u) \in slv' => u = 0 /\ Initial(cfg'.eng)
    BY WlHeld DEF Initial
  <2>4. \A u \in Nat : Fact("good", u) \in slv' => u < badK' /\ Inductive(cfg'.eng)
    BY WlHeld DEF Inductive
  <2>5. \A f \in slv' : f[1] # "lemma"
    BY WlHeld
  <2>6. (\A L \in inv' : Lasting(sys', L)) /\ pending' \subseteq Lemmas[sys']
    BY DEF IInv, Held
  <2> QED
    BY <2>1, <2>2, <2>3, <2>4, <2>5, <2>6 DEF Held
<1>5. Asked'
  BY WlHeld DEF Asked
<1> QED
  BY <1>1, <1>2, <1>3, <1>4, <1>5

LEMMA WlPassKeeps ==
    ASSUME IInv, NEW F, WlPass(F, k + cfg.step),
           \/ F = WlLoaded /\ cfg.eng = "wlbmc"
           \/ F = WlLoaded \cup {Fact("init", 0)} /\ cfg.eng = "wlkind"
    PROVE  IInv'
<1>0. /\ UNCHANGED <<sys, cfg, inv, pending, flag, stopping, told, solver>>
      /\ pc = "head" /\ cfg.eng \in {"wlbmc", "wlkind"}
      /\ unrolled' = k /\ transK' = k + 1 /\ badK' = k /\ slv' = WlLoaded
  BY DEF WlPass, stopVars
<1>1. k \in Nat /\ cfg.step \in Nat \ {0}
  BY Options DEF IInv, Types
<1>2. CASE /\ WlQuery(F) # {}
           /\ \E q \in WlQuery(F) : wit' = WlCex(q)
           /\ TraceState(SAT(k)) /\ Return(SAT(k)) /\ UNCHANGED k
  <2>1. ~IsUnknown(SAT(k)) /\ pc' = "done" /\ res' = SAT(k) /\ k' = k
    BY <1>2 DEF IsUnknown, SAT, Return
  <2>2. Said'
    BY <1>0, <1>2, <2>1, SaidDefinite DEF IInv
  <2>3. logged' \in Int
    BY <1>2, <2>1 DEF IInv, Types, TraceState
  <2>4. PICK q \in WlQuery(F) : wit' = WlCex(q)
    BY <1>2
  <2>5. Fact("init", 0) \in F /\ WlLoaded \subseteq F
    BY WlHeld, <1>0 DEF IInv, Held, Initial
  <2>6. Counterexample(sys, wit', k)
    BY <1>0, <2>4, <2>5, WlWitness
  <2>7. Answers'
    BY <1>0, <2>1, <2>6 DEF Answers
  <2>8. Below'
    BY <1>0, <2>1, BelowSame DEF IInv
  <2>9. k' \in Nat /\ k <= k'
    BY <1>1, <2>1
  <2>10. Types' /\ Stopping' /\ Cursors' /\ Held' /\ Asked' /\ Here' /\ Simple'
    BY <1>0, <2>1, <2>3, <2>9, WlPassLoads
  <2> QED
    BY <2>2, <2>7, <2>8, <2>10 DEF IInv
<1>3. CASE /\ WlQuery(F) = {}
           /\ TraceState(Reached(k))
           /\ k' = k + cfg.step /\ UNCHANGED <<pc, wit, res>>
  <2>1. ~Fails(sys, cfg, k)
    BY <1>0, <1>3, WlDecides
  <2>2. Said' /\ logged' \in Int
    BY <1>0, <1>3, <2>1, SaidBound DEF IInv
  <2>3. Below'
    BY <1>0, <1>3, <2>1, BelowNext DEF IInv
  <2>4. Answers'
    BY <1>0, <1>3 DEF IInv, Answers
  <2>5. k' \in Nat /\ k <= k' /\ pc' \in {"head", "done"}
    BY <1>0, <1>1, <1>3
  <2>6. Types' /\ Stopping' /\ Cursors' /\ Held' /\ Asked' /\ Here' /\ Simple'
    BY <1>0, <2>2, <2>5, WlPassLoads
  <2> QED
    BY <2>2, <2>3, <2>4, <2>6 DEF IInv
<1> QED
  BY <1>2, <1>3 DEF WlPass

LEMMA WlBmcPassKeeps == ASSUME IInv, WlBmcPass PROVE IInv'
BY WlPassKeeps DEF WlBmcPass

LEMMA WlKindPassKeeps == ASSUME IInv, WlKindPass PROVE IInv'
<1>0. cfg.eng = "wlkind" /\ cfg.step = 1 /\ k \in Nat
  BY Options DEF IInv, Types, WlKindPass, Inductive
<1>1. CASE WlPass(WlLoaded \cup {Fact("init", 0)}, k + 1)
  BY <1>0, <1>1, WlPassKeeps
<1>2. CASE /\ pc = "head" /\ k <= cfg.end /\ WlStepHolds
           /\ unrolled' = k /\ transK' = k + 1 /\ badK' = k /\ slv' = WlLoaded
           /\ TraceState(UNSAT) /\ Return(UNSAT)
           /\ UNCHANGED <<sys, cfg, k, inv, pending, stopVars, solver, wit>>
  <2>0. UNCHANGED <<sys, cfg, inv, pending, flag, stopping, told, solver>> /\ k' = k
    BY <1>2 DEF stopVars
  <2>1. ~IsUnknown(UNSAT) /\ pc' = "done" /\ res' = UNSAT
    BY <1>2 DEF IsUnknown, UNSAT, Return
  <2>2. Said'
    BY <1>2, <2>0, <2>1, SaidDefinite DEF IInv
  <2>3. logged' \in Int
    BY <1>2, <2>1 DEF IInv, Types, TraceState
  <2>4. StepClosed(sys, cfg, k) /\ k > 0
    BY <1>0, <1>2, WlStepDecides DEF WlStepHolds
  <2>5. Answers'
    BY <1>0, <1>2, <2>0, <2>1, <2>4 DEF Answers, Inductive
  <2>6. Below'
    BY <2>0, BelowSame DEF IInv
  <2>7. k' \in Nat /\ k <= k'
    BY <1>0, <2>0
  <2>8. Types' /\ Stopping' /\ Cursors' /\ Held' /\ Asked' /\ Here' /\ Simple'
    BY <1>0, <1>2, <2>0, <2>1, <2>3, <2>7, WlPassLoads
  <2> QED
    BY <2>2, <2>5, <2>6, <2>8 DEF IInv
<1> QED
  BY <1>1, <1>2 DEF WlKindPass

LEMMA StutterKeeps == ASSUME IInv, UNCHANGED vars PROVE IInv'
<1>0. UNCHANGED <<sys, cfg, pc, k, unrolled, slv, transK, badK, inv, pending, flag, stopping,
                  told, solver, wit, res, traced, logged>>
  BY DEF vars, solverVars, stopVars, answerVars, logVars
<1>1. Types'
  BY <1>0 DEF IInv, Types
<1>2. Stopping' /\ Held'
  BY <1>0, StoppingSame, HeldSame DEF IInv
<1>3. Cursors' /\ Here'
  BY <1>0 DEF IInv, Cursors, Here, Plain
<1>4. Asked'
  BY <1>0 DEF IInv, Asked
<1>5. Below' /\ Said'
  BY <1>0, BelowSame, SaidSame DEF IInv
<1>6. Answers'
  BY <1>0 DEF IInv, Answers
<1>7. Simple'
  BY <1>0 DEF IInv, Simple
<1> QED
  BY <1>1, <1>2, <1>3, <1>4, <1>5, <1>6, <1>7 DEF IInv

\* The invariant holds in every state an engine reaches.
THEOREM Inductiveness == Spec => []IInv
<1>1. ASSUME IInv, [Next]_vars PROVE IInv'
  <2>1. CASE Work
    BY <1>1, <2>1, InterruptedKeeps, FinishKeeps, CutShortKeeps, BmcStepKeeps, KindStepKeeps,
       ReportKeeps DEF Work
  <2>2. CASE Answer
    BY <1>1, <2>2, StepHoldsKeeps, StepFailsKeeps, BaseSatKeeps, BaseUnsatKeeps,
       WlBmcPassKeeps, WlKindPassKeeps DEF Answer
  <2>3. CASE Terminate
    BY <1>1, <2>3, TerminateKeeps
  <2>4. CASE UNCHANGED vars
    BY <1>1, <2>4, StutterKeeps
  <2> QED
    BY <1>1, <2>1, <2>2, <2>3, <2>4 DEF Next
<1> QED
  BY InitHolds, <1>1, PTL DEF Spec

-----------------------------------------------------------------------------
(***************************************************************************)
(* The properties.                                                          *)
(***************************************************************************)

\* A counterexample is a run of the depth reported to the bad state it names; a proof means
\* that no run of any length violates the property, but for what --skip-bmc leaves out.
THEOREM AnswersCorrect == Spec => []AnswersRight
<1>1. ASSUME IInv PROVE AnswersRight
  <2>1. SUFFICES ASSUME pc = "done"
                 PROVE  /\ res.kind = "SAT" => Counterexample(sys, wit, res.depth)
                        /\ res = UNSAT /\ (\E d \in Depths : FailsAt(d)) =>
                              cfg.skip /\ \E d \in 0..k - 1 : FailsAt(d)
    BY DEF AnswersRight, Counterexample, Y
  <2>2. sys \in DOMAIN System /\ cfg \in Config /\ k \in Nat
    BY <1>1 DEF IInv, Types
  <2>3. ASSUME res.kind = "SAT" PROVE Counterexample(sys, wit, res.depth)
    <3>1. ~IsUnknown(res) /\ res # UNSAT
      BY <2>3 DEF IsUnknown, UNSAT
    <3>2. res = SAT(k) /\ Counterexample(sys, wit, k)
      BY <1>1, <2>1, <3>1 DEF IInv, Answers
    <3>3. res.depth = k
      BY <3>2 DEF SAT
    <3> QED
      BY <3>2, <3>3
  <2>4. ASSUME res = UNSAT, NEW d \in Depths, FailsAt(d)
        PROVE  cfg.skip /\ \E e \in 0..k - 1 : FailsAt(e)
    <3>1. Inductive(cfg.eng) /\ StepClosed(sys, cfg, k)
      <4>1. ~IsUnknown(res) /\ res # SAT(k)
        BY <2>4 DEF IsUnknown, UNSAT, SAT
      <4> QED
        BY <1>1, <2>1, <4>1 DEF IInv, Answers
    <3>2. d \in Nat
      <4>1. Cardinality(Y.states) \in Nat
        BY <2>2, StatesCounted DEF Y
      <4> QED
        BY <4>1 DEF Depths
    <3>3. Fails(sys, cfg, d)
      BY <2>2, <2>4, <3>2, FailsAtIs
    <3>4. PICK e \in 0..k - 1 : Fails(sys, cfg, e)
      BY <2>2, <3>1, <3>2, <3>3, InductionSound
    <3>5. FailsAt(e)
      BY <2>2, <3>4, FailsAtIs
    <3>6. cfg.start = 0 /\ cfg.step = 1 /\ cfg.limit = "none" /\ cfg.skip \in BOOLEAN
      BY <1>1, <3>1, Options DEF IInv, Inductive
    <3>7. cfg.skip
      BY <1>1, <3>4, <3>6 DEF IInv, Below
    <3> QED
      BY <3>5, <3>7
  <2> QED
    BY <2>3, <2>4
<1> QED
  BY <1>1, Inductiveness, PTL

\* Every bound that is traced, logged or returned has been checked.
THEOREM BoundsTrue == Spec => []BoundsChecked
<1>1. ASSUME IInv PROVE BoundsChecked
  <2>1. SUFFICES ASSUME Plain
                 PROVE  /\ \A r \in traced : IsUnknown(r) => ~FailsAt(r.depth - 1)
                        /\ \A d \in 0..logged : ~FailsAt(d)
                        /\ (/\ pc = "done" /\ IsUnknown(res) /\ res # Unknown
                            /\ cfg.start = 0 /\ cfg.step = 1 /\ cfg.limit = "none") =>
                              \A d \in 0..res.depth - 1 : ~FailsAt(d)
    BY DEF BoundsChecked, Plain
  <2>2. sys \in DOMAIN System /\ cfg \in Config /\ k \in Nat /\ logged \in Int
    BY <1>1 DEF IInv, Types
  <2>3. \A d \in Nat : FailsAt(d) <=> Fails(sys, cfg, d)
    BY <2>2, FailsAtIs
  <2>4. ASSUME NEW r \in traced, IsUnknown(r) PROVE ~FailsAt(r.depth - 1)
    BY <1>1, <2>1, <2>3, <2>4 DEF IInv, Said
  <2>5. ASSUME NEW d \in 0..logged PROVE ~FailsAt(d)
    <3>1. d \in Nat
      BY <2>2
    <3> QED
      BY <1>1, <2>1, <2>3, <3>1 DEF IInv, Said
  <2>6. ASSUME pc = "done", IsUnknown(res), cfg.start = 0, cfg.step = 1, cfg.limit = "none",
               NEW d \in 0..res.depth - 1
        PROVE  ~FailsAt(d)
    <3>1. res.depth \in Nat /\ res.depth <= k
      <4>1. res # UNSAT /\ res # SAT(k)
        BY <2>6 DEF IsUnknown, UNSAT, SAT
      <4> QED
        BY <1>1, <2>6, <4>1 DEF IInv, Answers
    <3>2. d \in 0..k - 1 /\ d \in Nat
      BY <2>2, <3>1
    <3>3. ~cfg.skip
      BY <2>1 DEF Plain
    <3>4. ~Fails(sys, cfg, d)
      BY <1>1, <2>6, <3>2, <3>3 DEF IInv, Below
    <3> QED
      BY <2>3, <3>2, <3>4
  <2> QED
    BY <2>4, <2>5, <2>6
<1> QED
  BY <1>1, Inductiveness, PTL

\* With simple paths k-induction decides every system, if its last bound allows it.
THEOREM SimplePathsDecide == Spec => []SimplePathDecides
<1>1. ASSUME IInv PROVE SimplePathDecides
  <2>1. SUFFICES ASSUME pc = "done", cfg.simple, ~flag, cfg.end >= Cardinality(Y.states),
                        IsUnknown(res)
                 PROVE  FALSE
    BY DEF SimplePathDecides
  <2>2. cfg.end < Cardinality(System[sys].states)
    BY <1>1, <2>1 DEF IInv, Simple
  <2>3. cfg.end \in Nat /\ Cardinality(System[sys].states) \in Nat
    BY <1>1, Options, StatesCounted DEF IInv, Types
  <2> QED
    BY <2>1, <2>2, <2>3 DEF Y
<1> QED
  BY <1>1, Inductiveness, PTL

-----------------------------------------------------------------------------
(* The certificate *)

\* The copies that exist are the last steps of a run, which began where they end.
Intact(n, c) ==
    /\ c.aux[0]
    /\ \A i \in 0..n - 1 : c.aux[i] => ~AnyBad(BadIds, c.at[i]) /\ c.at[i] \in Y.cons
    /\ \A i \in 1..n - 1 :
          /\ c.aux[i] => c.aux[i - 1] /\ Y.next[c.at[i]] = c.at[i - 1][1]
          /\ ~c.aux[i] /\ c.aux[i - 1] => c.at[i - 1][1] \in Y.init

LEMMA ViolatesIs == \A n, c : Violates(n, c) <=> ~Intact(n, c)
<1> SUFFICES ASSUME NEW n, NEW c PROVE Violates(n, c) <=> ~Intact(n, c)
  OBVIOUS
<1>1. WlCertBad(n, c) <=> ~Intact(n, c)
  BY DEF WlCertBad, Intact
<1>2. CertBad(n, c) <=> ~Intact(n, c)
  BY DEF CertBad, Intact
<1> QED
  BY <1>1, <1>2 DEF Violates

\* The copies 0..m-1 of an intact certificate, in the order of time, and the step after them.
Unfold(c, m, x) == [j \in 1..m + 1 |-> IF j = m + 1 THEN x ELSE c.at[m - j]]

LEMMA UnfoldRuns ==
    ASSUME sys \in DOMAIN System, NEW n \in Nat, NEW c \in Copies(n), Intact(n, c),
           NEW m \in 1..n, \A i \in 0..m - 1 : c.aux[i],
           NEW x \in Steps, x \in Y.cons, x[1] = Y.next[c.at[0]]
    PROVE  /\ Run(sys, Unfold(c, m, x)) /\ Len(Unfold(c, m, x)) = m + 1
           /\ \A i \in 1..m : ~AnyBad(BadIds, Unfold(c, m, x)[i])
           /\ Unfold(c, m, x)[1] = c.at[m - 1] /\ Unfold(c, m, x)[m + 1] = x
<1> DEFINE q == Unfold(c, m, x)
<1>0. m \in Nat /\ m > 0 /\ m <= n
  OBVIOUS
<1>1. ASSUME NEW i \in 0..m - 1
      PROVE  c.at[i] \in Steps /\ ~AnyBad(BadIds, c.at[i]) /\ c.at[i] \in Y.cons
  <2>1. i \in 0..n - 1 /\ c.aux[i]
    BY <1>0
  <2>2. c.at \in [0..n - 1 -> Steps]
    BY DEF Copies
  <2> QED
    BY <2>1, <2>2 DEF Intact
<1>2. /\ \A j \in 1..m : q[j] = c.at[m - j]
      /\ q[m + 1] = x /\ q \in [1..m + 1 -> Steps]
  <2>1. ASSUME NEW j \in 1..m PROVE j \in 1..m + 1 /\ j # m + 1 /\ m - j \in 0..m - 1
    BY <1>0
  <2>2. m + 1 \in 1..m + 1
    BY <1>0
  <2>3. \A j \in 1..m : q[j] = c.at[m - j]
    BY <2>1 DEF Unfold
  <2>4. q[m + 1] = x
    BY <2>2 DEF Unfold
  <2>5. ASSUME NEW j \in 1..m + 1 PROVE q[j] \in Steps
    <3>1. j \in 1..m \/ j = m + 1
      BY <1>0
    <3> QED
      BY <1>1, <2>1, <2>3, <2>4, <3>1
  <2>6. q = [j \in 1..m + 1 |-> q[j]]
    BY DEF Unfold
  <2> HIDE DEF q
  <2> QED
    BY <2>3, <2>4, <2>5, <2>6
<1> HIDE DEF q
<1>3. q \in Seq(Steps) /\ Len(q) = m + 1
  <2>1. m + 1 \in Nat
    BY <1>0
  <2> QED
    BY <1>2, <2>1
<1>4. ASSUME NEW j \in 1..m + 1 PROVE q[j] \in Y.cons
  <2>1. j = m + 1 \/ (j \in 1..m /\ m - j \in 0..m - 1)
    BY <1>0
  <2> QED
    BY <1>1, <1>2, <2>1
<1>5. ASSUME NEW j \in 1..m PROVE q[j + 1][1] = Y.next[q[j]]
  <2>1. CASE j = m
    <3>1. m - j = 0
      BY <1>0, <2>1
    <3> QED
      BY <1>2, <2>1, <3>1
  <2>2. CASE j # m
    <3>1. /\ j + 1 \in 1..m /\ m - j \in 1..n - 1 /\ m - j \in 0..m - 1
          /\ m - (j + 1) = (m - j) - 1
      BY <1>0, <2>2
    <3>2. q[j] = c.at[m - j] /\ q[j + 1] = c.at[(m - j) - 1]
      BY <1>2, <3>1
    <3>3. Y.next[c.at[m - j]] = c.at[(m - j) - 1][1]
      BY <3>1 DEF Intact
    <3> QED
      BY <3>2, <3>3
  <2> QED
    BY <2>1, <2>2
<1>6. Run(sys, q)
  <2>1. (m + 1) - 1 = m
    BY <1>0
  <2> QED
    BY <1>3, <1>4, <1>5, <2>1, Names DEF Run, Y
<1>7. ASSUME NEW i \in 1..m PROVE ~AnyBad(BadIds, q[i])
  <2>1. m - i \in 0..m - 1
    BY <1>0
  <2> QED
    BY <1>1, <1>2, <2>1
<1>8. q[1] = c.at[m - 1]
  <2>1. 1 \in 1..m
    BY <1>0
  <2> QED
    BY <1>2, <2>1
<1> QED
  BY <1>2, <1>3, <1>6, <1>7, <1>8 DEF q

\* One step further an intact certificate is intact, provided that the step is not bad: by the
\* induction step if all copies exist, by the base case if they reach back to the beginning.
LEMMA NextNotBad ==
    ASSUME sys \in DOMAIN System, cfg \in Config, NEW n \in Nat \ {0},
           cfg.prop = 0, ~cfg.simple, ~cfg.local,
           StepClosed(sys, cfg, n), \A d \in 0..n - 1 : ~Fails(sys, cfg, d),
           NEW c \in Copies(n), Intact(n, c),
           NEW x \in Steps, x \in Y.cons, x[1] = Y.next[c.at[0]]
    PROVE  ~AnyBad(BadIds, x)
<1>0. TargetOf(sys, cfg) = BadIds /\ ExcludedOf(sys, cfg) = BadIds
  BY Names DEF TargetOf, ExcludedOf
<1>1. CASE \A i \in 0..n - 1 : c.aux[i]
  <2> DEFINE q == Unfold(c, n, x)
  <2>1. n \in 1..n
    OBVIOUS
  <2>2. /\ Run(sys, q) /\ Len(q) = n + 1 /\ q[n + 1] = x
        /\ \A i \in 1..n : ~AnyBad(BadIds, q[i])
    BY <1>1, <2>1, UnfoldRuns
  <2> HIDE DEF q
  <2>3. \A i \in 1..n : ~Wrong(sys, ExcludedOf(sys, cfg), q[i])
    BY <1>0, <2>2, Names
  <2>4. ~Wrong(sys, TargetOf(sys, cfg), q[n + 1])
    BY <2>2, <2>3 DEF StepClosed
  <2> QED
    BY <1>0, <2>2, <2>4, Names
<1>2. CASE ~\A i \in 0..n - 1 : c.aux[i]
  <2> DEFINE E == {i \in 0..n - 1 : ~c.aux[i]}
  <2>1. PICK m \in E : \A i \in E : m <= i
    <3>1. E # {} /\ E \subseteq Nat
      BY <1>2
    <3> HIDE DEF E
    <3> QED
      BY <3>1, LeastNumber
  <2>2. m \in 0..n - 1 /\ ~c.aux[m] /\ m # 0
    BY DEF Intact
  <2>3. m \in 1..n - 1 /\ m \in 1..n /\ m - 1 \in 0..m - 1 /\ m \in 0..n - 1
    BY <2>2
  <2>4. ASSUME NEW i \in 0..m - 1 PROVE c.aux[i]
    <3>1. i \in 0..n - 1 /\ ~(m <= i)
      BY <2>3
    <3>2. i \notin E
      BY <2>1, <3>1
    <3> QED
      BY <3>1, <3>2
  <2>5. c.at[m - 1][1] \in Y.init
    BY <2>2, <2>3, <2>4 DEF Intact
  <2> HIDE DEF E
  <2> DEFINE q == Unfold(c, m, x)
  <2>6. /\ Run(sys, q) /\ Len(q) = m + 1 /\ q[m + 1] = x /\ q[1] = c.at[m - 1]
    <3>1. n \in Nat /\ m \in 1..n /\ \A i \in 0..m - 1 : c.aux[i]
      BY <2>3, <2>4
    <3> HIDE DEF q
    <3>2. /\ Run(sys, Unfold(c, m, x)) /\ Len(Unfold(c, m, x)) = m + 1
          /\ Unfold(c, m, x)[m + 1] = x /\ Unfold(c, m, x)[1] = c.at[m - 1]
      BY <3>1, UnfoldRuns
    <3> QED
      BY <3>2 DEF q
  <2> HIDE DEF q
  <2>7. SUFFICES ASSUME AnyBad(BadIds, x) PROVE FALSE
    OBVIOUS
  <2>8. Failure(sys, cfg, m, q)
    BY <1>0, <2>5, <2>6, <2>7, Names DEF Failure, Y
  <2> QED
    BY <2>3, <2>8 DEF Fails
<1> QED
  BY <1>1, <1>2

\* The certificate of k-induction and its word-level sibling is an inductive invariant of the
\* system of copies, and implies the properties.
THEOREM CertificateInductive == Spec => []ProofInductive
<1>1. ASSUME IInv PROVE ProofInductive
  <2> DEFINE n == unrolled
             Succ(c, i) ==
                [aux |-> [j \in 0..n - 1 |-> IF j = 0 THEN c.aux[0] ELSE c.aux[j - 1]],
                 at |-> [j \in 0..n - 1 |-> IF j = 0 THEN <<Y.next[c.at[0]], i>> ELSE c.at[j - 1]]]
  <2>1. SUFFICES ASSUME res = UNSAT, cfg.prop = 0, ~cfg.simple, ~cfg.skip,
                        NEW c \in Copies(n), c.at[0] \in Y.cons
                 PROVE  /\ CertInit(n, c) => ~Violates(n, c)
                        /\ ~Violates(n, c) => ~AnyBad(BadIds, c.at[0])
                        /\ ~Violates(n, c) => \A i \in Y.inputs :
                              Succ(c, i).at[0] \in Y.cons =>
                                  CertNext(n, c, Succ(c, i)) /\ ~Violates(n, Succ(c, i))
    BY DEF ProofInductive
  <2>2. sys \in DOMAIN System /\ cfg \in Config /\ k \in Nat /\ ~cfg.local
    BY <1>1, <2>1, Options DEF IInv, Types
  <2>3. n = k /\ k > 0 /\ StepClosed(sys, cfg, k) /\ Inductive(cfg.eng)
    <3>1. ~IsUnknown(res) /\ res # SAT(k) /\ res # Unknown
      BY <2>1 DEF IsUnknown, UNSAT, SAT, Unknown
    <3> QED
      BY <1>1, <3>1 DEF IInv, Answers
  <2> HIDE DEF n
  <2>4. \A d \in 0..n - 1 : ~Fails(sys, cfg, d)
    <3>1. cfg.start = 0 /\ cfg.step = 1 /\ cfg.limit = "none"
      BY <1>1, <2>3, Options DEF IInv, Inductive
    <3> QED
      BY <1>1, <2>1, <2>3, <3>1 DEF IInv, Below
  <2>5. n \in Nat \ {0} /\ 0 \in 0..n - 1
    BY <2>2, <2>3
  <2>6. c.aux \in [0..n - 1 -> BOOLEAN] /\ c.at \in [0..n - 1 -> Steps]
    BY DEF Copies
  <2>7. c.at[0] \in Steps
    BY <2>5, <2>6
  <2>8. ASSUME CertInit(n, c) PROVE Intact(n, c)
    <3>1. c.at[0][1] \in Y.init /\ \A i \in 0..n - 1 : c.aux[i] <=> i = 0
      BY <2>8 DEF CertInit
    <3>2. c.aux[0]
      BY <2>5, <3>1
    <3>3. ~AnyBad(BadIds, c.at[0])
      <4> DEFINE q == <<c.at[0]>>
      <4>1. q \in Seq(Steps) /\ Len(q) = 0 + 1 /\ q[1] = c.at[0] /\ q[0 + 1] = c.at[0]
        BY <2>7
      <4> HIDE DEF q
      <4>2. Run(sys, q)
        <5>1. \A i \in 1..Len(q) : q[i] \in Y.cons
          <6>1. \A i \in 1..Len(q) : i = 1
            BY <4>1
          <6> QED
            BY <2>1, <4>1, <6>1
        <5>2. \A i \in 1..Len(q) - 1 : FALSE
          BY <4>1
        <5> QED
          BY <4>1, <5>1, <5>2, Names DEF Run, Y
      <4>3. SUFFICES ASSUME AnyBad(BadIds, c.at[0]) PROVE FALSE
        OBVIOUS
      <4>4. Failure(sys, cfg, 0, q)
        BY <2>1, <2>2, <3>1, <4>1, <4>2, <4>3, Names DEF Failure, TargetOf, Y
      <4> QED
        BY <2>4, <2>5, <4>4 DEF Fails
    <3>4. ASSUME NEW i \in 1..n - 1
          PROVE  /\ ~c.aux[i]
                 /\ c.aux[i - 1] => c.at[i - 1][1] \in Y.init
      <4>1. i \in 0..n - 1 /\ i # 0 /\ i - 1 \in 0..n - 1
        BY <2>5
      <4> QED
        BY <3>1, <4>1
    <3>5. \A i \in 0..n - 1 : c.aux[i] => c.at[i] = c.at[0]
      BY <3>1
    <3> QED
      BY <2>1, <3>2, <3>3, <3>4, <3>5 DEF Intact
  <2>9. ASSUME Intact(n, c) PROVE ~AnyBad(BadIds, c.at[0])
    BY <2>5, <2>9 DEF Intact
  <2>10. ASSUME Intact(n, c), NEW i \in Y.inputs, Succ(c, i).at[0] \in Y.cons
         PROVE  CertNext(n, c, Succ(c, i)) /\ Intact(n, Succ(c, i))
    <3> DEFINE d == Succ(c, i)
               x == <<Y.next[c.at[0]], i>>
    <3>1. /\ d.aux[0] = c.aux[0] /\ d.at[0] = x
          /\ \A j \in 1..n - 1 : d.aux[j] = c.aux[j - 1] /\ d.at[j] = c.at[j - 1]
      <4>1. \A j \in 1..n - 1 : j \in 0..n - 1 /\ j # 0
        BY <2>5
      <4> QED
        BY <2>5, <4>1
    <3>2. x \in Y.cons
      BY <2>10, <3>1
    <3> HIDE DEF d
    <3>3. x \in Steps /\ x[1] = Y.next[c.at[0]]
      <4>1. Y.next \in [Steps -> Y.states]
        BY <2>2, SystemAssumption DEF Y, Steps
      <4>2. Y.next[c.at[0]] \in Y.states
        BY <2>7, <4>1
      <4> QED
        BY <2>10, <4>2 DEF Steps
    <3> HIDE DEF x
    <3>4. ~AnyBad(BadIds, x)
      BY <2>1, <2>2, <2>3, <2>4, <2>5, <2>10, <3>2, <3>3, NextNotBad
    <3>5. CertNext(n, c, d)
      BY <3>1, <3>3 DEF CertNext
    <3>6. d.aux[0]
      BY <2>10, <3>1 DEF Intact
    <3>7. ASSUME NEW j \in 0..n - 1, d.aux[j]
          PROVE  ~AnyBad(BadIds, d.at[j]) /\ d.at[j] \in Y.cons
      <4>1. CASE j = 0
        BY <3>1, <3>2, <3>4, <4>1
      <4>2. CASE j # 0
        <5>1. j \in 1..n - 1 /\ j - 1 \in 0..n - 1
          BY <2>5, <4>2
        <5> QED
          BY <2>10, <3>1, <3>7, <5>1 DEF Intact
      <4> QED
        BY <4>1, <4>2
    <3>8. ASSUME NEW j \in 1..n - 1
          PROVE  /\ d.aux[j] => d.aux[j - 1] /\ Y.next[d.at[j]] = d.at[j - 1][1]
                 /\ ~d.aux[j] /\ d.aux[j - 1] => d.at[j - 1][1] \in Y.init
      <4>1. CASE j = 1
        <5>1. j - 1 = 0
          BY <4>1
        <5>2. c.aux[0] /\ d.aux[j] = c.aux[0] /\ d.at[j] = c.at[0]
          BY <2>10, <3>1, <5>1 DEF Intact
        <5> QED
          BY <3>1, <3>3, <3>6, <5>1, <5>2
      <4>2. CASE j # 1
        <5>1. j - 1 \in 1..n - 1
          BY <2>5, <4>2
        <5>2. /\ d.aux[j] = c.aux[j - 1] /\ d.at[j] = c.at[j - 1]
              /\ d.aux[j - 1] = c.aux[(j - 1) - 1] /\ d.at[j - 1] = c.at[(j - 1) - 1]
          BY <3>1, <5>1
        <5>3. /\ c.aux[j - 1] => c.aux[(j - 1) - 1]
                                 /\ Y.next[c.at[j - 1]] = c.at[(j - 1) - 1][1]
              /\ ~c.aux[j - 1] /\ c.aux[(j - 1) - 1] => c.at[(j - 1) - 1][1] \in Y.init
          BY <2>10, <5>1 DEF Intact
        <5> QED
          BY <5>2, <5>3
      <4> QED
        BY <4>1, <4>2
    <3>9. Intact(n, d)
      BY <3>6, <3>7, <3>8 DEF Intact
    <3> QED
      BY <3>5, <3>9 DEF d
  <2> HIDE DEF Succ
  <2> QED
    BY <2>8, <2>9, <2>10, ViolatesIs
<1> QED
  BY <1>1, Inductiveness, PTL
=============================================================================
