---------------------------- MODULE GipSatProofs ----------------------------
(***************************************************************************)
(* What the solver promises, for every circuit, every set of clauses and   *)
(* questions and every bound: what it learns follows from what the callers *)
(* added, whatever question it was learnt for, and an unsatisfiable answer *)
(* comes with a core that the clauses and the question's constraints       *)
(* refute. Nothing is lost unless a literal was overlooked: the database   *)
(* goes on saying all that was added, and every unit is found before the   *)
(* clauses are simplified. And the values of a satisfiable answer suffice, *)
(* though only a domain was searched, unless a literal was overlooked or   *)
(* skipped: the solver is the one that the engines rely on.                *)
(***************************************************************************)
EXTENDS GipSat, FiniteSetTheorems, SequenceTheorems, WellFoundedInduction, TLAPS

-----------------------------------------------------------------------------
(***************************************************************************)
(* Natural numbers.                                                        *)
(***************************************************************************)

\* A set of natural numbers has a least element.
LEMMA LeastNumber ==
    ASSUME NEW S, S \subseteq Nat, S # {}
    PROVE  \E m \in S : \A x \in S : m <= x
<1> DEFINE R == OpToRel(<, Nat)
<1>1. \A x, y \in Nat : y < x => <<y, x>> \in R
  BY Zenon DEF OpToRel
<1>2. IsWellFoundedOn(R, Nat)
  BY NatLessThanWellFounded, Zenon
<1> HIDE DEF R
<1>3. \E m \in S : \A x \in S : ~(<<x, m>> \in R)
  BY <1>2, WFMin
<1>4. PICK m \in S : \A x \in S : ~(<<x, m>> \in R)
  BY <1>3
<1>5. ASSUME NEW x \in S PROVE m <= x
  <2>1. x \in Nat /\ m \in Nat /\ ~(x < m)
    BY <1>1, <1>4
  <2> QED
    BY <2>1
<1> QED
  BY <1>5

\* A bounded function to the natural numbers has a greatest value.
LEMMA GreatestValue ==
    ASSUME NEW S, S # {}, NEW f \in [S -> Nat], NEW b \in Nat, \A x \in S : f[x] <= b
    PROVE  \E x \in S : \A y \in S : f[y] <= f[x]
<1> DEFINE U == {k \in Nat : \A x \in S : f[x] <= k}
<1>1. b \in U /\ U \subseteq Nat
  OBVIOUS
<1>2. PICK k \in U : \A j \in U : k <= j
  BY <1>1, LeastNumber
<1>3. PICK x \in S : TRUE
  OBVIOUS
<1>4. CASE k = 0
  <2>1. \A y \in S : f[y] = 0
    BY <1>2, <1>4
  <2> QED
    BY <1>3, <2>1
<1>5. CASE k # 0
  <2>1. k \in Nat /\ k - 1 \in Nat /\ ~(k <= k - 1)
    BY <1>5
  <2>2. k - 1 \notin U
    BY <1>2, <2>1
  <2>3. PICK y \in S : ~(f[y] <= k - 1)
    BY <2>1, <2>2
  <2>4. \A z \in S : f[z] <= k
    BY <1>2
  <2>5. f[y] = k
    BY <2>1, <2>3, <2>4
  <2> QED
    BY <2>4, <2>5
<1> QED
  BY <1>4, <1>5

-----------------------------------------------------------------------------
(***************************************************************************)
(* Literals, clauses and assignments.                                      *)
(***************************************************************************)

\* constrain_act's variable is the last one.
LEMMA ActType == Act \in Var /\ Act \in Nat /\ NumVar \in Nat
BY NumVarAssumption DEF Act, Var

\* Literals and their variables.
LEMMA LitType ==
    /\ \A v \in Var : v \in Nat /\ v > 0 /\ v \in Lit /\ -v \in Lit /\ VarOf(v) = v /\ VarOf(-v) = v
    /\ \A l \in Lit : l \in Int /\ l # 0 /\ -l \in Lit /\ -(-l) = l /\ VarOf(l) \in Var
BY NumVarAssumption DEF Lit, Var, VarOf

\* Two literals of the same variable are equal or opposite.
LEMMA SameVar ==
    ASSUME NEW l \in Lit, NEW k \in Lit
    PROVE  /\ VarOf(l) = VarOf(k) <=> l = k \/ l = -k
           /\ VarOf(-l) = VarOf(l)
           /\ VarOf(l) = Act <=> l \in {Act, -Act}
BY NumVarAssumption DEF Lit, Var, VarOf, Act

\* The literals that callers know of.
LEMMA PlainType ==
    ASSUME NEW l \in Lit
    PROVE  /\ l \in PlainLit <=> VarOf(l) # Act
           /\ l \in PlainLit <=> -l \in PlainLit
BY NumVarAssumption DEF PlainLit, Lit, Var, VarOf, Act

\* There are finitely many literals.
LEMMA LitsFinite == IsFiniteSet(Lit)
<1>1. -NumVar \in Int /\ NumVar \in Int
  BY NumVarAssumption
<1>2. IsFiniteSet((-NumVar)..NumVar)
  BY <1>1, FS_Interval
<1>3. Lit \subseteq (-NumVar)..NumVar
  BY NumVarAssumption DEF Lit, Var
<1> QED
  BY <1>2, <1>3, FS_Subset

\* An assignment has one of two opposite literals.
LEMMA AssignmentType ==
    ASSUME NEW m \in Assignments
    PROVE  m \subseteq Lit /\ \A l \in Lit : l \in m <=> -l \notin m
<1>1. PICK b \in [Var -> BOOLEAN] : m = {IF b[v] THEN v ELSE -v : v \in Var}
  BY DEF Assignments
<1>2. m \subseteq Lit
  BY <1>1, LitType
<1>3. ASSUME NEW v \in Var PROVE v \in m <=> -v \notin m
  <2>1. \A u \in Var : u # -v /\ v # -u /\ (-u = -v => u = v)
    BY LitType
  <2>2. b[v] => v \in m /\ -v \notin m
    BY <1>1, <2>1
  <2>3. ~b[v] => -v \in m /\ v \notin m
    BY <1>1, <2>1
  <2> QED
    BY <2>2, <2>3
<1>4. ASSUME NEW l \in Lit PROVE l \in m <=> -l \notin m
  <2>1. l \in Var \/ -l \in Var
    BY LitType DEF Lit
  <2> QED
    BY <1>3, <2>1, LitType
<1> QED
  BY <1>2, <1>4

\* The clauses of the circuit do not mention constrain_act.
LEMMA CircuitPlain == Circuit \subseteq SUBSET PlainLit
<1> SUFFICES ASSUME NEW v \in Var, NEW c \in Def[v] PROVE c \subseteq PlainLit
  BY DEF Circuit
<1>1. v # Act
  BY ActAssumption
<1>2. ASSUME NEW l \in c PROVE l \in PlainLit
  <2>1. l \in Lit /\ VarOf(l) <= v
    BY DefAssumption DEF VarsOf
  <2>2. VarOf(l) # Act
    BY <1>1, <2>1, NumVarAssumption DEF Var, Act
  <2> QED
    BY <2>1, <2>2, PlainType
<1> QED
  BY <1>2

\* The value of constrain_act can be chosen in a model of the circuit.
LEMMA ActFree ==
    ASSUME NEW m \in CircuitModels, NEW a \in {Act, -Act}
    PROVE  \E n \in CircuitModels : a \in n /\ \A l \in PlainLit : l \in n <=> l \in m
<1>1. m \in Assignments /\ \A c \in Circuit : Holds(c, m)
  BY DEF CircuitModels
<1>2. PICK b \in [Var -> BOOLEAN] : m = {IF b[v] THEN v ELSE -v : v \in Var}
  BY <1>1 DEF Assignments
<1> DEFINE d == [b EXCEPT ![Act] = (a = Act)]
           n == {IF d[v] THEN v ELSE -v : v \in Var}
<1>3. d \in [Var -> BOOLEAN] /\ n \in Assignments
  BY ActType DEF Assignments
<1>4. \A v \in Var \ {Act} : d[v] = b[v]
  BY <1>2
<1>5. d[Act] = (a = Act)
  BY <1>2, ActType
<1> HIDE DEF d
<1>6. a \in n
  <2>1. (IF d[Act] THEN Act ELSE -Act) \in n
    BY ActType
  <2>2. Act # -Act
    BY ActType, LitType
  <2> QED
    BY <1>5, <2>1, <2>2
<1>7. ASSUME NEW l \in PlainLit PROVE l \in n <=> l \in m
  <2>1. l \in Lit /\ VarOf(l) \in Var \ {Act}
    BY LitType, PlainType DEF PlainLit
  <2>2. ASSUME NEW f \in [Var -> BOOLEAN]
        PROVE  l \in {IF f[v] THEN v ELSE -v : v \in Var} <=> (l = VarOf(l) <=> f[VarOf(l)])
    <3>1. \A v \in Var : v = l \/ -v = l => v = VarOf(l)
      BY <2>1, LitType DEF VarOf
    <3>2. (l = VarOf(l) \/ l = -VarOf(l)) /\ VarOf(l) # -VarOf(l)
      BY <2>1, LitType DEF VarOf
    <3> QED
      BY <2>1, <3>1, <3>2
  <2> QED
    BY <1>2, <1>3, <1>4, <2>1, <2>2
<1> HIDE DEF n
<1>8. \A c \in Circuit : Holds(c, n)
  BY <1>1, <1>7, CircuitPlain DEF Holds
<1> QED
  BY <1>3, <1>6, <1>7, <1>8 DEF CircuitModels

-----------------------------------------------------------------------------
(***************************************************************************)
(* What clauses entail.                                                    *)
(***************************************************************************)

Given == formula \cup Guarded

\* What some clauses entail, more clauses entail.
LEMMA EntailsMore ==
    ASSUME NEW F, NEW G, F \subseteq G, NEW c, Entails(F, c)
    PROVE  Entails(G, c)
BY DEF Entails

\* Literals whose negations are entailed can be left out of a clause.
LEMMA LeftOut ==
    ASSUME NEW F, NEW c, c \subseteq Lit, Entails(F, c), NEW d,
           \A l \in c \ d : Entails(F, {-l})
    PROVE  Entails(F, d)
<1> SUFFICES ASSUME NEW m \in CircuitModels, \A e \in F : Holds(e, m) PROVE Holds(d, m)
  BY DEF Entails
<1>1. PICK l \in c : l \in m
  BY DEF Entails, Holds
<1>2. l \in d
  <2> SUFFICES ASSUME l \notin d PROVE FALSE
    OBVIOUS
  <2>1. -l \in m
    BY DEF Entails, Holds
  <2>2. m \in Assignments /\ l \in Lit
    BY DEF CircuitModels
  <2> QED
    BY <1>1, <2>1, <2>2, AssignmentType
<1> QED
  BY <1>1, <1>2 DEF Holds

\* A clause that is simplified under literals that are entailed is entailed.
LEMMA ReducedFollows ==
    ASSUME NEW F, NEW c, c \subseteq Lit, Entails(F, c), NEW u, \A l \in u : Entails(F, {l})
    PROVE  Entails(F, Reduced(c, u))
BY LeftOut DEF Reduced

\* A clause of the callers' literals that the guarded constraints entail is entailed without
\* them: constrain_act can be false.
LEMMA GuardedAside ==
    ASSUME formula \subseteq SUBSET PlainLit, NEW c, c \subseteq PlainLit, Entails(Given, c)
    PROVE  Entails(formula, c)
<1> SUFFICES ASSUME NEW m \in CircuitModels, \A e \in formula : Holds(e, m) PROVE Holds(c, m)
  BY DEF Entails
<1>1. PICK n \in CircuitModels : -Act \in n /\ \A l \in PlainLit : l \in n <=> l \in m
  BY ActFree
<1>2. \A e \in Guarded : Holds(e, n)
  BY <1>1 DEF Guarded, Holds
<1>3. \A e \in formula : Holds(e, n)
  BY <1>1 DEF Holds
<1>4. Holds(c, n)
  BY <1>2, <1>3 DEF Entails, Given
<1> QED
  BY <1>1, <1>4 DEF Holds

\* What refutes the guarded constraints refutes the constraints: constrain_act can be true.
LEMMA CoreAside ==
    ASSUME formula \subseteq SUBSET PlainLit, question.constraint \subseteq SUBSET PlainLit,
           NEW k, k \subseteq Lit \ {-Act}, Entails(Given, Negated(k))
    PROVE  Entails(formula \cup question.constraint, Negated(k \ {Act}))
<1> SUFFICES ASSUME NEW m \in CircuitModels,
                    \A e \in formula \cup question.constraint : Holds(e, m)
             PROVE  Holds(Negated(k \ {Act}), m)
  BY DEF Entails
<1>1. PICK n \in CircuitModels : Act \in n /\ \A l \in PlainLit : l \in n <=> l \in m
  BY ActFree
<1>2. \A e \in Guarded : Holds(e, n)
  BY <1>1 DEF Guarded, Holds
<1>3. \A e \in formula : Holds(e, n)
  BY <1>1 DEF Holds
<1>4. Holds(Negated(k), n)
  BY <1>2, <1>3 DEF Entails, Given
<1>5. PICK l \in k : -l \in n
  BY <1>4 DEF Holds, Negated
<1>6. l # Act
  <2>1. -Act \notin n
    BY <1>1, AssignmentType, ActType, LitType DEF CircuitModels
  <2> QED
    BY <1>5, <2>1
<1>7. l \in PlainLit /\ -l \in PlainLit
  BY <1>6, PlainType DEF PlainLit
<1>8. -l \in m
  BY <1>1, <1>5, <1>7
<1> QED
  BY <1>6, <1>8 DEF Holds, Negated

-----------------------------------------------------------------------------
(***************************************************************************)
(* Trails.                                                                 *)
(***************************************************************************)

Entry == [lit : Lit, reason : SUBSET Lit, level : Nat]

\* A variable is assigned once, and levels never decrease.
Ordered(t) ==
    /\ \A i, j \in DOMAIN t : i # j => VarOf(t[i].lit) # VarOf(t[j].lit)
    /\ \A i, j \in DOMAIN t : i <= j => t[i].level <= t[j].level

\* The entries of a trail.
LEMMA Trails ==
    ASSUME NEW t \in Seq(Entry)
    PROVE  /\ Len(t) \in Nat /\ DOMAIN t = 1..Len(t)
           /\ \A i \in DOMAIN t : /\ i \in Nat /\ t[i] \in Entry /\ t[i].lit \in Lit
                                  /\ t[i].reason \subseteq Lit /\ t[i].level \in Nat
<1>1. Len(t) \in Nat /\ DOMAIN t = 1..Len(t) /\ \A i \in 1..Len(t) : t[i] \in Entry
  BY LenProperties, ElementOfSeq
<1> QED
  BY <1>1 DEF Entry

\* The entries up to a level are the first ones.
LEMMA PosInTrailIs ==
    ASSUME NEW t \in Seq(Entry), Ordered(t), NEW k \in Nat
    PROVE  /\ PosInTrail(t, k) \in 0..Len(t)
           /\ \A i \in DOMAIN t : t[i].level <= k <=> i <= PosInTrail(t, k)
<1> DEFINE S == {i \in DOMAIN t : t[i].level <= k}
           U == DOMAIN t \ S
<1>1. Len(t) \in Nat /\ DOMAIN t = 1..Len(t) /\ \A i \in DOMAIN t : t[i].level \in Nat
  BY Trails
<1>2. PICK n \in 0..Len(t) : S = 1..n
  <2>1. CASE U = {}
    <3>1. S = 1..Len(t) /\ Len(t) \in 0..Len(t)
      BY <1>1, <2>1
    <3> QED
      BY <3>1
  <2>2. CASE U # {}
    <3>1. U \subseteq Nat
      BY <1>1
    <3> HIDE DEF U
    <3>2. PICK q \in U : \A j \in U : q <= j
      BY <2>2, <3>1, LeastNumber
    <3> USE DEF U
    <3>3. q \in 1..Len(t) /\ ~(t[q].level <= k)
      BY <1>1, <3>2
    <3>4. q - 1 \in 0..Len(t)
      BY <1>1, <3>3
    <3>5. ASSUME NEW i \in 1..(q - 1) PROVE i \in S
      <4>1. i \in DOMAIN t /\ ~(q <= i)
        BY <1>1, <3>3
      <4> QED
        BY <3>2, <4>1
    <3>6. ASSUME NEW i \in S PROVE i \in 1..(q - 1)
      <4>1. i \in 1..Len(t) /\ t[i].level <= k
        BY <1>1
      <4>2. ~(q <= i)
        <5> SUFFICES ASSUME q <= i PROVE FALSE
          OBVIOUS
        <5>1. t[q].level <= t[i].level
          BY <1>1, <3>3, <4>1 DEF Ordered
        <5>2. t[q].level \in Nat /\ t[i].level \in Nat
          BY <1>1, <3>3, <4>1
        <5> QED
          BY <3>3, <4>1, <5>1, <5>2
      <4> QED
        BY <3>3, <4>1, <4>2
    <3> HIDE DEF S
    <3>7. S = 1..(q - 1)
      BY <3>5, <3>6
    <3> QED
      BY <3>4, <3>7
  <2> QED
    BY <2>1, <2>2
<1>3. PosInTrail(t, k) = n
  <2>1. n \in Nat /\ 1 \in Int /\ n \in Int
    BY <1>1
  <2>2. Cardinality(1..n) = IF 1 > n THEN 0 ELSE n - 1 + 1
    BY <2>1, FS_Interval
  <2>3. PosInTrail(t, k) = Cardinality(1..n)
    BY <1>2 DEF PosInTrail
  <2> QED
    BY <2>1, <2>2, <2>3
<1>4. ASSUME NEW i \in DOMAIN t PROVE t[i].level <= k <=> i <= n
  <2>1. i \in S <=> i \in 1..n
    BY <1>2
  <2> QED
    BY <1>1, <2>1
<1> QED
  BY <1>3, <1>4

\* What is left of a trail up to a level.
LEMMA UptoIs ==
    ASSUME NEW t \in Seq(Entry), Ordered(t), NEW k \in Nat
    PROVE  /\ Upto(t, k) \in Seq(Entry) /\ Len(Upto(t, k)) = PosInTrail(t, k)
           /\ Len(Upto(t, k)) <= Len(t)
           /\ \A i \in DOMAIN Upto(t, k) : i \in DOMAIN t /\ Upto(t, k)[i] = t[i] /\ t[i].level <= k
           /\ \A i \in DOMAIN t : t[i].level <= k => i \in DOMAIN Upto(t, k)
           /\ Ordered(Upto(t, k))
<1> DEFINE p == PosInTrail(t, k)
           s == Upto(t, k)
<1>1. Len(t) \in Nat /\ DOMAIN t = 1..Len(t) /\ \A i \in 1..Len(t) : t[i] \in Entry
  BY Trails
<1>2. p \in 0..Len(t) /\ p \in Nat /\ \A i \in DOMAIN t : t[i].level <= k <=> i <= p
  <2>1. p \in 0..Len(t) /\ \A i \in DOMAIN t : t[i].level <= k <=> i <= p
    BY PosInTrailIs
  <2> HIDE DEF p
  <2>2. p \in Nat
    BY <1>1, <2>1
  <2> QED
    BY <2>1, <2>2
<1>3. s = SubSeq(t, 1, p)
  BY DEF Upto
<1> HIDE DEF s, p
<1>4. s \in Seq(Entry) /\ Len(s) = p /\ \A i \in 1..p : s[i] = t[i]
  <2>1. 1..p \subseteq 1..Len(t)
    BY <1>1, <1>2
  <2> QED
    BY <1>1, <1>2, <1>3, <2>1, SubSeqProperties
<1>5. DOMAIN s = 1..p
  BY <1>4, LenProperties
<1>6. \A i \in DOMAIN s : i \in DOMAIN t /\ s[i] = t[i] /\ t[i].level <= k
  BY <1>1, <1>2, <1>4, <1>5
<1>7. \A i \in DOMAIN t : t[i].level <= k => i \in DOMAIN s
  BY <1>1, <1>2, <1>5
<1>8. Ordered(s)
  BY <1>6 DEF Ordered
<1>9. Len(s) <= Len(t)
  BY <1>1, <1>2, <1>4
<1>10. s \in Seq(Entry) /\ Len(s) = p /\ Len(s) <= Len(t)
  BY <1>4, <1>9
<1> USE DEF s, p
<1> QED
  BY <1>6, <1>7, <1>8, <1>10, Zenon

\* A sequence without one of its elements.
LEMMA RemovedIs ==
    ASSUME NEW S, NEW t \in Seq(S), NEW n \in 1..Len(t)
    PROVE  LET s == SubSeq(t, 1, n - 1) \o SubSeq(t, n + 1, Len(t)) IN
           /\ s \in Seq(S) /\ Len(s) = Len(t) - 1
           /\ \A i \in 1..(Len(t) - 1) : s[i] = IF i < n THEN t[i] ELSE t[i + 1]
<1> DEFINE a == SubSeq(t, 1, n - 1)
           b == SubSeq(t, n + 1, Len(t))
           s == a \o b
<1>1. PICK k \in Nat : k = Len(t)
  BY LenProperties
<1>2. \A i \in 1..k : t[i] \in S
  BY <1>1, ElementOfSeq
<1>3. n \in 1..k /\ n - 1 \in Int /\ n + 1 \in Int /\ n \in Int /\ 1 \in Int /\ k \in Int
  BY <1>1
<1>4. a \in Seq(S) /\ Len(a) = n - 1 /\ \A i \in 1..(n - 1) : a[i] = t[i]
  <2>1. /\ a \in Seq(S) /\ Len(a) = (IF 1 <= n - 1 THEN n - 1 - 1 + 1 ELSE 0)
        /\ \A i \in 1..(n - 1 - 1 + 1) : a[i] = t[1 + i - 1]
    <3>1. \A i \in 1..(n - 1) : t[i] \in S
      BY <1>2, <1>3
    <3> QED
      BY <1>3, <3>1, SubSeqProperties
  <2> HIDE DEF a
  <2>2. n - 1 - 1 + 1 = n - 1 /\ \A i \in 1..(n - 1) : 1 + i - 1 = i
    BY <1>3
  <2>3. (IF 1 <= n - 1 THEN n - 1 ELSE 0) = n - 1
    BY <1>3
  <2> QED
    BY <2>1, <2>2, <2>3
<1>5. b \in Seq(S) /\ Len(b) = k - n /\ \A i \in 1..(k - n) : b[i] = t[i + n]
  <2>1. /\ b \in Seq(S) /\ Len(b) = (IF n + 1 <= k THEN k - (n + 1) + 1 ELSE 0)
        /\ \A i \in 1..(k - (n + 1) + 1) : b[i] = t[n + 1 + i - 1]
    <3>1. \A i \in (n + 1)..k : t[i] \in S
      BY <1>2, <1>3
    <3> QED
      BY <1>1, <1>3, <3>1, SubSeqProperties
  <2> HIDE DEF b
  <2>2. k - (n + 1) + 1 = k - n /\ \A i \in 1..(k - n) : n + 1 + i - 1 = i + n
    BY <1>3
  <2>3. (IF n + 1 <= k THEN k - n ELSE 0) = k - n
    BY <1>3
  <2> QED
    BY <2>1, <2>2, <2>3
<1> HIDE DEF a, b
<1>6. /\ s \in Seq(S) /\ Len(s) = Len(a) + Len(b)
      /\ \A i \in 1..(Len(a) + Len(b)) : s[i] = IF i <= Len(a) THEN a[i] ELSE b[i - Len(a)]
  BY <1>4, <1>5, ConcatProperties
<1> HIDE DEF s
<1>7. Len(a) + Len(b) = k - 1
  BY <1>3, <1>4, <1>5
<1>8. ASSUME NEW i \in 1..(k - 1) PROVE s[i] = IF i < n THEN t[i] ELSE t[i + 1]
  <2>1. s[i] = IF i <= n - 1 THEN a[i] ELSE b[i - (n - 1)]
    BY <1>4, <1>6, <1>7
  <2>2. CASE i < n
    <3>1. i \in 1..(n - 1) /\ i <= n - 1
      BY <1>3, <2>2
    <3> QED
      BY <1>4, <2>1, <2>2, <3>1
  <2>3. CASE ~(i < n)
    <3>1. ~(i <= n - 1) /\ i - (n - 1) \in 1..(k - n) /\ i - (n - 1) + n = i + 1
      BY <1>3, <2>3
    <3> QED
      BY <1>5, <2>1, <2>3, <3>1
  <2> QED
    BY <2>2, <2>3
<1> QED
  BY <1>1, <1>6, <1>7, <1>8 DEF s, a, b

\* What clean_temporary leaves of level 0.
LEMMA GroundIs ==
    ASSUME trail \in Seq(Entry), Ordered(trail)
    PROVE  /\ Ground \in Seq(Entry) /\ Ordered(Ground)
           /\ \A i \in DOMAIN Ground : /\ Ground[i].level = 0 /\ Ground[i].lit \notin {Act, -Act}
                                       /\ \E j \in DOMAIN trail : Ground[i] = trail[j]
           /\ Len(Ground) <= PosInTrail(trail, 0)
           /\ \A j \in DOMAIN trail :
                  trail[j].level <= 0 /\ trail[j].lit \notin {Act, -Act} =>
                      \E i \in DOMAIN Ground : Ground[i] = trail[j]
<1> DEFINE t == Upto(trail, 0)
           at == {i \in DOMAIN t : VarOf(t[i].lit) = Act}
           n == CHOOSE i \in at : TRUE
           s == SubSeq(t, 1, n - 1) \o SubSeq(t, n + 1, Len(t))
<1>1. /\ t \in Seq(Entry) /\ Ordered(t)
      /\ \A i \in DOMAIN t : i \in DOMAIN trail /\ t[i] = trail[i] /\ trail[i].level <= 0
      /\ \A i \in DOMAIN trail : trail[i].level <= 0 => i \in DOMAIN t
      /\ Len(t) = PosInTrail(trail, 0)
  BY UptoIs
<1>2. Ground = IF at = {} THEN t ELSE s
  BY DEF Ground, Without
<1> HIDE DEF t
<1>3. /\ Len(t) \in Nat /\ DOMAIN t = 1..Len(t)
      /\ \A i \in DOMAIN t : t[i] \in Entry /\ t[i].lit \in Lit /\ t[i].level = 0
  BY <1>1, Trails
<1>4. \A i \in DOMAIN t : i \notin at => t[i].lit \notin {Act, -Act}
  BY <1>3, SameVar, ActType, LitType
<1>5. CASE at = {}
  <2>1. Ground = t /\ Len(t) <= PosInTrail(trail, 0)
    BY <1>1, <1>2, <1>3, <1>5
  <2>2. \A i \in DOMAIN t : /\ t[i].level = 0 /\ t[i].lit \notin {Act, -Act}
                            /\ \E j \in DOMAIN trail : t[i] = trail[j]
    BY <1>1, <1>3, <1>4, <1>5
  <2>3. \A j \in DOMAIN trail : trail[j].level <= 0 => \E i \in DOMAIN t : t[i] = trail[j]
    BY <1>1
  <2> QED
    BY <1>1, <2>1, <2>2, <2>3
<1>6. CASE at # {}
  <2>1. n \in DOMAIN t /\ VarOf(t[n].lit) = Act
    BY <1>6
  <2>2. \A i \in DOMAIN t : i # n => i \notin at
    BY <1>1, <2>1 DEF Ordered
  <2> HIDE DEF n, at
  <2>3. n \in 1..Len(t) /\ n \in Int
    BY <1>3, <2>1
  <2>7. /\ s \in Seq(Entry) /\ Len(s) = Len(t) - 1
        /\ \A i \in 1..(Len(t) - 1) : s[i] = IF i < n THEN t[i] ELSE t[i + 1]
    BY <1>1, <2>3, RemovedIs
  <2> HIDE DEF s
  <2> DEFINE to(i) == IF i < n THEN i ELSE i + 1
  <2>8. DOMAIN s = 1..(Len(t) - 1)
    BY <2>7, LenProperties
  <2>9. /\ \A i \in DOMAIN s : to(i) \in DOMAIN t /\ to(i) # n /\ s[i] = t[to(i)]
        /\ \A i, j \in DOMAIN s : i # j => to(i) # to(j)
        /\ \A i, j \in DOMAIN s : i <= j => to(i) <= to(j)
    BY <1>3, <2>3, <2>7, <2>8
  <2> HIDE DEF to
  <2>10. Ordered(s)
    BY <1>1, <2>9 DEF Ordered
  <2>11. \A i \in DOMAIN s : /\ s[i].level = 0 /\ s[i].lit \notin {Act, -Act}
                             /\ \E j \in DOMAIN trail : s[i] = trail[j]
    BY <1>1, <1>3, <1>4, <2>2, <2>9
  <2>12. Ground = s
    BY <1>2, <1>6
  <2>13. ASSUME NEW j \in DOMAIN t, j # n PROVE \E i \in DOMAIN s : s[i] = t[j]
    <3>1. CASE j < n
      <4>1. j \in DOMAIN s /\ s[j] = t[j]
        BY <1>3, <2>3, <2>7, <2>8, <3>1
      <4> QED
        BY <4>1
    <3>2. CASE ~(j < n)
      <4>1. j - 1 \in DOMAIN s /\ s[j - 1] = t[j]
        BY <1>3, <2>3, <2>7, <2>8, <2>13, <3>2
      <4> QED
        BY <4>1
    <3> QED
      BY <3>1, <3>2
  <2>14. t[n].lit \in {Act, -Act}
    BY <1>3, <2>1, SameVar, ActType
  <2>15. Len(s) <= PosInTrail(trail, 0)
    BY <1>1, <1>3, <2>7
  <2>16. \A j \in DOMAIN trail : trail[j].level <= 0 /\ trail[j].lit \notin {Act, -Act} =>
             \E i \in DOMAIN s : s[i] = trail[j]
    BY <1>1, <2>13, <2>14
  <2> QED
    BY <2>7, <2>10, <2>11, <2>12, <2>15, <2>16
<1> QED
  BY <1>5, <1>6

\* The position and the level of a literal that is false.
LEMMA FalseAt ==
    ASSUME trail \in Seq(Entry), Ordered(trail), NEW k \in DOMAIN trail, NEW l \in Lit,
           trail[k].lit = -l
    PROVE  False(l) /\ ~True(l) /\ PosOf(-l) = k /\ LevelOf(l) = trail[k].level
<1>1. \A j \in DOMAIN trail : trail[j].lit \in Lit
  BY Trails
<1>2. ASSUME NEW j \in DOMAIN trail, trail[j].lit \in {l, -l} PROVE j = k
  BY <1>1, <1>2, SameVar, LitType DEF Ordered
<1>3. l # -l
  BY LitType
<1>4. ~True(l) /\ False(l)
  BY <1>2, <1>3 DEF True, False, LitsOf
<1>5. PosOf(-l) = k
  BY <1>2 DEF PosOf
<1> QED
  BY <1>4, <1>5 DEF LevelOf

\* A literal that is false was assigned somewhere.
LEMMA FalsePos ==
    ASSUME NEW l, False(l)
    PROVE  \E k \in DOMAIN trail : trail[k].lit = -l
BY DEF False, LitsOf

\* A literal of a new variable at a level no lower than the others keeps the order.
LEMMA AppendOrdered ==
    ASSUME NEW t \in Seq(Entry), Ordered(t), NEW l \in Lit, NEW c, c \subseteq Lit, NEW k \in Nat,
           \A i \in DOMAIN t : VarOf(t[i].lit) # VarOf(l) /\ t[i].level <= k
    PROVE  LET s == Assigned(t, l, c, k) IN
           /\ s \in Seq(Entry) /\ Ordered(s) /\ Len(s) = Len(t) + 1 /\ DOMAIN s = 1..(Len(t) + 1)
           /\ \A i \in DOMAIN t : s[i] = t[i]
           /\ s[Len(t) + 1] = [lit |-> l, reason |-> c, level |-> k]
<1> DEFINE e == [lit |-> l, reason |-> c, level |-> k]
           s == Assigned(t, l, c, k)
<1>1. e \in Entry /\ e.lit = l /\ e.level = k
  BY DEF Entry
<1>2. s = Append(t, e)
  BY DEF Assigned
<1> HIDE DEF e, s
<1>3. Len(t) \in Nat /\ DOMAIN t = 1..Len(t) /\ \A i \in DOMAIN t : t[i].level \in Nat
  BY Trails
<1>4. /\ s \in Seq(Entry) /\ Len(s) = Len(t) + 1 /\ s[Len(t) + 1] = e
      /\ \A i \in 1..Len(t) : s[i] = t[i]
  BY <1>1, <1>2, <1>3, AppendProperties
<1>5. DOMAIN s = 1..(Len(t) + 1)
  BY <1>4, LenProperties
<1>6. ASSUME NEW i \in DOMAIN s, NEW j \in DOMAIN s
      PROVE  /\ i # j => VarOf(s[i].lit) # VarOf(s[j].lit)
             /\ i <= j => s[i].level <= s[j].level
  <2>1. CASE i \in DOMAIN t /\ j \in DOMAIN t
    BY <1>3, <1>4, <2>1 DEF Ordered
  <2>2. CASE i = Len(t) + 1 /\ j \in DOMAIN t
    <3>1. s[i] = e /\ s[j] = t[j] /\ ~(i <= j)
      BY <1>3, <1>4, <2>2
    <3> QED
      BY <1>1, <2>2, <3>1
  <2>3. CASE i \in DOMAIN t /\ j = Len(t) + 1
    <3>1. s[i] = t[i] /\ s[j] = e
      BY <1>3, <1>4, <2>3
    <3> QED
      BY <1>1, <2>3, <3>1
  <2>4. CASE i = Len(t) + 1 /\ j = Len(t) + 1
    <3>1. s[i] = e /\ s[j] = e /\ i = j
      BY <1>4, <2>4
    <3> QED
      BY <1>1, <3>1
  <2> QED
    BY <1>3, <1>5, <2>1, <2>2, <2>3, <2>4
<1>7. Ordered(s)
  BY <1>6 DEF Ordered
<1>8. \A i \in DOMAIN t : s[i] = t[i]
  BY <1>3, <1>4
<1> QED
  BY <1>4, <1>5, <1>7, <1>8 DEF e, s

-----------------------------------------------------------------------------
(***************************************************************************)
(* The inductive invariant.                                                *)
(***************************************************************************)

\* What the variables hold.
TypeOK ==
    /\ user \in Users /\ question \in Questions[user]
    /\ formula \subseteq SUBSET PlainLit
    /\ trans \subseteq SUBSET PlainLit
    /\ lemmas \subseteq SUBSET PlainLit
    /\ learnt \subseteq SUBSET PlainLit
    /\ \A c \in temporary : c \subseteq Lit \ {Act} /\ -Act \in c
    /\ trail \in Seq(Entry) /\ high \in Nat /\ propagated \in Nat
    /\ domain \subseteq Var /\ fixed \subseteq Var /\ queue \subseteq Var
    /\ rep \in [Var -> Lit]
    /\ conf \subseteq Lit \ {Act}
    /\ restarts \in Nat
    /\ ans \in {"none", "asked", "unsat", "sat", "unknown"}
    /\ pc \in {"idle", "start", "simplify", "eq", "propagate", "analyze", "search", "branch"}
    /\ then \in {"idle", "start", "eq", "search"}

\* The question's round has begun, or is about to.
Searching ==
    \/ pc \in {"simplify", "eq", "search", "branch", "analyze"}
    \/ pc = "propagate" /\ then \in {"eq", "search"}
Starting == pc = "start" \/ (pc = "propagate" /\ then = "start")
Stale == ans = "asked" /\ Starting

\* Where a call stands, and that nothing is propagated above level 0 for a question to come.
Control ==
    /\ ans = "asked" <=> Starting \/ Searching
    /\ pc = "propagate" /\ then = "idle" => ans = "none"
    /\ pc \in {"search", "branch", "analyze"} => then = "search"
    /\ pc \in {"search", "branch"} => walk = 0 /\ propagated >= Len(trail)
    /\ (pc = "idle" \/ Starting) /\ high > 0 => walk = 0 /\ propagated >= Len(trail)
    /\ pc \in {"simplify", "eq"} \/ (pc = "propagate" /\ then \in {"idle", "eq"}) => high = 0
    /\ pc = "analyze" => high > 0

Levels ==
    /\ Ordered(trail)
    /\ \A i \in DOMAIN trail : trail[i].level <= high

\* What is assigned at level 0 follows from what the callers added, or is constrain_act's
\* negation, which follows from the question's constraints as well.
Grounded ==
    \A i \in DOMAIN trail :
        trail[i].level = 0 =>
            /\ trail[i].lit # Act
            /\ trail[i].lit # -Act => Entails(formula, {trail[i].lit})
            /\ Searching => Entails(Given, {trail[i].lit})

\* Above level 0 a literal is the first of its level, an assumption if there is one for the level,
\* or it has a reason that follows from G and whose other literals were false before.
JustifiedAt(t, i, G, a) ==
    IF t[i].reason = {}
    THEN /\ \A j \in 1..(i - 1) : t[j].level < t[i].level
         /\ t[i].level <= Len(a) => t[i].lit = a[t[i].level]
    ELSE /\ t[i].lit \in t[i].reason /\ Act \notin t[i].reason
         /\ Entails(G, t[i].reason)
         /\ \A l \in t[i].reason \ {t[i].lit} : \E k \in 1..(i - 1) : t[k].lit = -l

Justified(t, G, a) == \A i \in DOMAIN t : t[i].level > 0 => JustifiedAt(t, i, G, a)

Upper == Searching => Justified(trail, Given, As)

Database ==
    /\ \A c \in trans \cup lemmas \cup learnt : Entails(formula, c)
    /\ ~Stale => \A c \in temporary : Entails(Given, c)
    /\ trivial_unsat => Entails(formula, {})

\* A variable's representative has its value.
Represented ==
    \A v \in Var \ {Act} :
        /\ rep[v] \in PlainLit
        /\ \A m \in CircuitModels :
               (\A d \in formula : Holds(d, m)) => (v \in m <=> rep[v] \in m)

\* The clause that is being resolved follows, and is false above level 0.
Analysis ==
    pc = "analyze" =>
        /\ Entails(Given, conf)
        /\ \A l \in conf : \E k \in DOMAIN trail : trail[k].lit = -l /\ trail[k].level > 0

Refutes(k) ==
    /\ k \ {Act} \subseteq {question.assump[i] : i \in DOMAIN question.assump}
    /\ Entails(formula \cup question.constraint, Negated(k \ {Act}))

CoreRight == ans = "unsat" => Refutes(unsat_core)

\* The whole of it.
IInv ==
    /\ TypeOK /\ Control /\ Levels /\ Grounded /\ Upper /\ Database /\ Represented
    /\ Analysis /\ CoreRight

-----------------------------------------------------------------------------
(***************************************************************************)
(* Literals that are assigned at level 0.                                  *)
(***************************************************************************)

\* While nothing is added or asked, what is given stays the same.
LEMMA SameGiven ==
    ASSUME UNCHANGED <<formula, question>>
    PROVE  Given' = Given /\ As' = As
BY DEF Given, Guarded, As

\* The questions are ones that callers may ask.
LEMMA QuestionType ==
    ASSUME TypeOK
    PROVE  /\ question.assump \in Seq(PlainLit) /\ question.constraint \subseteq SUBSET PlainLit
           /\ question.limit \in Nat
           /\ user = "frts" => question.assump = <<>>
BY InputAssumption DEF TypeOK

\* The callers' literals are literals.
LEMMA PlainIsLit == PlainLit \subseteq Lit \ {Act, -Act}
BY DEF PlainLit

\* Guarded constraints have the negation of constrain_act, and are the callers' otherwise.
LEMMA GuardedType ==
    ASSUME TypeOK
    PROVE  \A c \in Guarded : c \subseteq Lit \ {Act} /\ -Act \in c /\ c \ {-Act} \subseteq PlainLit
<1>1. -Act \in Lit /\ -Act # Act
  BY ActType, LitType
<1> QED
  BY <1>1, QuestionType, PlainIsLit DEF Guarded

\* A sequence with one more element in front.
LEMMA InFront ==
    ASSUME NEW S, NEW x \in S, NEW a \in Seq(S), NEW s, s = <<x>> \o a
    PROVE  /\ Len(a) \in Nat /\ DOMAIN a = 1..Len(a)
           /\ s \in Seq(S) /\ Len(s) = 1 + Len(a) /\ DOMAIN s = 1..(1 + Len(a))
           /\ s[1] = x
           /\ \A j \in 1..Len(a) : s[j + 1] = a[j]
<1> DEFINE b == <<x>>
<1>1. b \in Seq(S) /\ Len(b) = 1 /\ b[1] = x
  OBVIOUS
<1>2. Len(a) \in Nat /\ DOMAIN a = 1..Len(a)
  BY LenProperties
<1>3. s = b \o a
  OBVIOUS
<1> HIDE DEF b
<1>4. b \o a \in Seq(S) /\ Len(b \o a) = Len(b) + Len(a)
  BY <1>1, ConcatProperties
<1>5. \A i \in 1..(Len(b) + Len(a)) :
          (b \o a)[i] = (IF i <= Len(b) THEN b[i] ELSE a[i - Len(b)])
  BY <1>1, ConcatProperties
<1>6. s \in Seq(S) /\ Len(s) = 1 + Len(a)
  BY <1>1, <1>3, <1>4
<1>7. \A i \in 1..(1 + Len(a)) : s[i] = (IF i <= 1 THEN b[i] ELSE a[i - 1])
  BY <1>1, <1>3, <1>5
<1>8. s[1] = x
  <2>1. 1 \in 1..(1 + Len(a))
    BY <1>2
  <2> QED
    BY <1>1, <1>7, <2>1
<1>9. ASSUME NEW j \in 1..Len(a) PROVE s[j + 1] = a[j]
  <2>1. j + 1 \in 1..(1 + Len(a)) /\ ~(j + 1 <= 1) /\ (j + 1) - 1 = j
    BY <1>2
  <2> QED
    BY <1>7, <2>1
<1>10. DOMAIN s = 1..(1 + Len(a))
  BY <1>6, LenProperties
<1> QED
  BY <1>2, <1>6, <1>8, <1>9, <1>10

\* The assumptions, with constrain_act first if the question has constraints.
LEMMA AsType ==
    ASSUME TypeOK
    PROVE  /\ As \in Seq(Lit \ {-Act})
           /\ \A i \in DOMAIN As :
                  As[i] = Act \/ As[i] \in {question.assump[j] : j \in DOMAIN question.assump}
<1> DEFINE q == question.assump
<1>1. /\ q \in Seq(PlainLit) /\ Len(q) \in Nat /\ DOMAIN q = 1..Len(q)
      /\ \A i \in 1..Len(q) : q[i] \in PlainLit
  BY QuestionType, LenProperties, ElementOfSeq
<1>2. Act \in Lit \ {-Act}
  BY ActType, LitType
<1> HIDE DEF q
<1>3. q \in Seq(Lit \ {-Act})
  BY <1>1, PlainIsLit
<1>4. CASE question.constraint = {}
  BY <1>1, <1>3, <1>4 DEF As, q
<1>5. CASE question.constraint # {}
  <2>1. As = <<Act>> \o q
    BY <1>5 DEF As, q
  <2>2. /\ Len(q) \in Nat /\ As \in Seq(Lit \ {-Act}) /\ DOMAIN As = 1..(1 + Len(q))
        /\ As[1] = Act /\ \A j \in 1..Len(q) : As[j + 1] = q[j]
    BY <1>2, <1>3, <2>1, InFront
  <2>3. ASSUME NEW i \in DOMAIN As PROVE As[i] = Act \/ As[i] \in {q[j] : j \in DOMAIN q}
    <3>1. CASE i = 1
      BY <2>2, <3>1
    <3>2. CASE i # 1
      <4>1. i - 1 \in 1..Len(q) /\ (i - 1) + 1 = i
        BY <2>2, <3>2
      <4>2. As[i] = q[i - 1]
        BY <2>2, <4>1
      <4> QED
        BY <1>1, <4>1, <4>2
    <3> QED
      BY <3>1, <3>2
  <2> QED
    BY <2>2, <2>3 DEF q
<1> QED
  BY <1>4, <1>5

\* The literals that a caller's clause is simplified with.
LEMMA GroundLitsFollow ==
    ASSUME TypeOK, Grounded
    PROVE  \A l \in GroundLits : l \in PlainLit /\ Entails(formula, {l})
<1> SUFFICES ASSUME NEW l \in GroundLits PROVE l \in PlainLit /\ Entails(formula, {l})
  OBVIOUS
<1>1. PICK i \in DOMAIN trail : trail[i].level <= 0 /\ trail[i].lit = l /\ l \notin {Act, -Act}
  BY DEF GroundLits, LitsUpto
<1>2. trail[i].level = 0 /\ l \in Lit
  BY <1>1, Trails DEF TypeOK
<1> QED
  BY <1>1, <1>2 DEF Grounded, PlainLit

\* A literal that is false at level 0.
LEMMA FalseGround ==
    ASSUME TypeOK, Grounded, NEW l \in Lit \ {Act}, NEW k \in DOMAIN trail,
           trail[k].lit = -l, trail[k].level = 0
    PROVE  l # -Act /\ Entails(formula, {-l})
<1>1. -l # -Act /\ (l = -Act => -l = Act)
  BY ActType, LitType
<1> QED
  BY <1>1 DEF Grounded

\* Clauses without constrain_act's literal; the temporary ones have its negation.
LEMMA ClausesType ==
    ASSUME TypeOK, NEW c \in Clauses
    PROVE  c \subseteq Lit \ {Act} /\ (c \in temporary => -Act \in c)
           /\ (c \notin temporary => c \subseteq PlainLit)
BY PlainIsLit DEF TypeOK, Clauses

\* While the highest level is 0, the false literals of a clause but l are false for good.
LEMMA FalseAllGround ==
    ASSUME TypeOK, Levels, Grounded, high = 0, NEW c \in Clauses, NEW d,
           \A l \in c \ d : False(l)
    PROVE  /\ \A l \in c \ d : l # -Act /\ Entails(formula, {-l})
           /\ Entails(formula, c) => Entails(formula, d)
<1>1. ASSUME NEW l \in c \ d PROVE l # -Act /\ Entails(formula, {-l})
  <2>1. l \in Lit \ {Act}
    BY ClausesType
  <2>2. PICK k \in DOMAIN trail : trail[k].lit = -l
    BY <1>1, FalsePos
  <2>3. trail[k].level = 0
    BY <2>2, Trails DEF TypeOK, Levels
  <2> QED
    BY <2>1, <2>2, <2>3, FalseGround
<1>2. c \subseteq Lit
  BY ClausesType
<1>3. Entails(formula, c) => Entails(formula, d)
  BY <1>1, <1>2, LeftOut
<1> QED
  BY <1>1, <1>3

\* A clause that is falsified at level 0 refutes what the callers added.
LEMMA ConflictGround ==
    ASSUME TypeOK, Levels, Grounded, Database, high = 0, NEW c \in Clauses, Falsified(c)
    PROVE  Entails(formula, {})
<1>1. \A l \in c : l # -Act /\ Entails(formula, {-l})
  <2> DEFINE d == {}
  <2>1. \A l \in c \ d : False(l)
    BY DEF Falsified
  <2>2. c \ d = c
    OBVIOUS
  <2> HIDE DEF d
  <2>3. \A l \in c \ d : l # -Act /\ Entails(formula, {-l})
    BY <2>1, FalseAllGround
  <2> QED
    BY <2>2, <2>3
<1>2. c \notin temporary
  BY <1>1, ClausesType
<1>3. Entails(formula, c) /\ c \subseteq Lit
  BY <1>2, ClausesType DEF Database, Clauses
<1> QED
  BY <1>1, <1>3, LeftOut

\* A literal that becomes unit at level 0.
LEMMA UnitGround ==
    ASSUME TypeOK, Control, Levels, Grounded, Database, high = 0,
           NEW c \in Clauses, NEW l, UnitOf(c, l)
    PROVE  /\ l \in Lit \ {Act}
           /\ l # -Act => Entails(formula, {l})
           /\ Searching => Entails(Given, {l})
<1>1. l \in c /\ l \in Lit \ {Act}
  BY ClausesType DEF UnitOf
<1>2. \A k \in c \ {l} : k # -Act /\ Entails(formula, {-k})
  <2>1. \A k \in c \ {l} : False(k)
    BY DEF UnitOf
  <2> QED
    BY <2>1, FalseAllGround
<1>3. c \subseteq Lit
  BY ClausesType
<1>4. formula \subseteq Given
  BY DEF Given
<1>5. CASE l # -Act
  <2>1. c \notin temporary
    BY <1>2, <1>5, ClausesType
  <2>2. Entails(formula, c)
    BY <2>1 DEF Database, Clauses
  <2>3. Entails(formula, {l})
    BY <1>2, <1>3, <2>2, LeftOut
  <2> QED
    BY <1>1, <1>4, <1>5, <2>3, EntailsMore
<1>6. CASE l = -Act
  <2>1. \A k \in c \ {l} : Entails(Given, {-k})
    BY <1>2, <1>4, EntailsMore
  <2>2. Searching => Entails(Given, c)
    <3>1. Searching => ~Stale
      BY DEF Searching, Stale, Starting
    <3>2. c \notin temporary => Entails(formula, c)
      BY DEF Database, Clauses
    <3> QED
      BY <1>4, <3>1, <3>2, EntailsMore DEF Database
  <2>3. Searching => Entails(Given, {l})
    BY <1>3, <2>1, <2>2, LeftOut
  <2> QED
    BY <1>1, <1>6, <2>3
<1> QED
  BY <1>5, <1>6

-----------------------------------------------------------------------------
(***************************************************************************)
(* Steps that keep what is assigned, and steps that leave only level 0.    *)
(***************************************************************************)

\* A step that changes no clause and no assignment.
LEMMA Quiet ==
    ASSUME IInv, UNCHANGED <<trans, lemmas, learnt, temporary, trail, high, formula, question,
                             trivial_unsat, rep>>,
           Searching' => Searching,
           Stale => Stale' \/ Entails(formula, {})
    PROVE  Levels' /\ Grounded' /\ Upper' /\ Database' /\ Represented'
<1>1. Given' = Given /\ As' = As
  BY SameGiven
<1>2. Levels'
  BY DEF IInv, Levels
<1>3. Grounded'
  BY <1>1 DEF IInv, Grounded
<1>4. Upper'
  BY <1>1 DEF IInv, Upper
<1>5. Represented'
  BY DEF IInv, Represented
<1>6. Database'
  <2>1. ~Stale' => \A c \in temporary : Entails(Given, c)
    <3>1. Entails(formula, {}) => \A c \in temporary : Entails(Given, c)
      BY DEF Entails, Holds, Given
    <3> QED
      BY <3>1 DEF IInv, Database
  <2> QED
    BY <1>1, <2>1 DEF IInv, Database
<1> QED
  BY <1>2, <1>3, <1>4, <1>5, <1>6

\* A trail of level 0 whose literals follow from F, with constrain_act's negation from G.
Flat(t, F, G) ==
    /\ t \in Seq(Entry) /\ Ordered(t)
    /\ \A i \in DOMAIN t :
           /\ t[i].level = 0 /\ t[i].lit # Act
           /\ t[i].lit # -Act => Entails(F, {t[i].lit})
           /\ Entails(G, {t[i].lit})

\* What clean_temporary leaves is such a trail.
LEMMA FlatGround ==
    ASSUME TypeOK, Levels, Grounded, NEW F, formula \subseteq F, NEW G, F \subseteq G
    PROVE  Flat(Ground, F, G)
<1>1. /\ Ground \in Seq(Entry) /\ Ordered(Ground)
      /\ \A i \in DOMAIN Ground : /\ Ground[i].level = 0 /\ Ground[i].lit \notin {Act, -Act}
                                  /\ \E j \in DOMAIN trail : Ground[i] = trail[j]
  BY GroundIs DEF TypeOK, Levels
<1>2. ASSUME NEW i \in DOMAIN Ground
      PROVE  Entails(F, {Ground[i].lit}) /\ Entails(G, {Ground[i].lit})
  <2>1. Entails(formula, {Ground[i].lit})
    BY <1>1 DEF Grounded
  <2> QED
    BY <2>1, EntailsMore
<1> QED
  BY <1>1, <1>2 DEF Flat

\* A variable without a literal among those clauses are simplified with is not in Ground.
LEMMA NotInGround ==
    ASSUME TypeOK, Levels, NEW l \in Lit, l \notin GroundLits, -l \notin GroundLits,
           NEW i \in DOMAIN Ground
    PROVE  VarOf(Ground[i].lit) # VarOf(l)
<1>1. PICK j \in DOMAIN trail : Ground[i] = trail[j] /\ Ground[i].level = 0
                               /\ Ground[i].lit \notin {Act, -Act}
  BY GroundIs DEF TypeOK, Levels
<1>2. Ground[i].lit \in GroundLits /\ Ground[i].lit \in Lit
  BY <1>1, Trails DEF GroundLits, LitsUpto, TypeOK
<1> QED
  BY <1>2, SameVar

\* So is what comes of assigning an entailed literal at level 0.
LEMMA FlatUnit ==
    ASSUME NEW F, NEW G, F \subseteq G, NEW t, Flat(t, F, G),
           NEW l \in PlainLit, Entails(F, {l}), \A i \in DOMAIN t : VarOf(t[i].lit) # VarOf(l)
    PROVE  Flat(Assigned(t, l, {}, 0), F, G)
<1> DEFINE s == Assigned(t, l, {}, 0)
           e == [lit |-> l, reason |-> {}, level |-> 0]
<1>1. t \in Seq(Entry) /\ Ordered(t) /\ \A i \in DOMAIN t : t[i].level = 0
  BY DEF Flat
<1>2. l \in Lit /\ l # Act /\ l # -Act /\ Entails(G, {l})
  BY PlainIsLit, EntailsMore
<1>3. /\ s \in Seq(Entry) /\ Ordered(s) /\ DOMAIN s = 1..(Len(t) + 1)
      /\ s[Len(t) + 1] = e
      /\ \A i \in DOMAIN t : s[i] = t[i]
  <2> DEFINE c == {}
             k == 0
  <2>1. c \subseteq Lit /\ k \in Nat
    OBVIOUS
  <2>2. \A i \in DOMAIN t : VarOf(t[i].lit) # VarOf(l) /\ t[i].level <= k
    BY <1>1
  <2> HIDE DEF c, k
  <2>3. /\ Assigned(t, l, c, k) \in Seq(Entry) /\ Ordered(Assigned(t, l, c, k))
        /\ DOMAIN Assigned(t, l, c, k) = 1..(Len(t) + 1)
        /\ Assigned(t, l, c, k)[Len(t) + 1] = [lit |-> l, reason |-> c, level |-> k]
        /\ \A i \in DOMAIN t : Assigned(t, l, c, k)[i] = t[i]
    BY <1>1, <1>2, <2>1, <2>2, AppendOrdered
  <2> QED
    BY <2>3 DEF c, k
<1>4. DOMAIN t = 1..Len(t) /\ Len(t) \in Nat
  BY <1>1, Trails
<1> HIDE DEF s
<1>5. e.lit = l /\ e.level = 0
  OBVIOUS
<1> HIDE DEF e
<1>6. ASSUME NEW i \in DOMAIN s
      PROVE  /\ s[i].level = 0 /\ s[i].lit # Act
             /\ s[i].lit # -Act => Entails(F, {s[i].lit})
             /\ Entails(G, {s[i].lit})
  <2>1. CASE i \in DOMAIN t
    BY <1>3, <2>1 DEF Flat
  <2>2. CASE i = Len(t) + 1
    BY <1>2, <1>3, <1>5, <2>2
  <2> QED
    BY <1>3, <1>4, <2>1, <2>2
<1>7. Flat(s, F, G)
  BY <1>3, <1>6 DEF Flat
<1> QED
  BY <1>7 DEF s

\* What the invariant says of the trail when only level 0 is left.
LEMMA FlatTrail ==
    ASSUME Flat(trail', formula', Given'), high' = 0
    PROVE  trail' \in Seq(Entry) /\ Levels' /\ Grounded' /\ Upper'
<1>1. trail' \in Seq(Entry) /\ Ordered(trail') /\ \A i \in DOMAIN trail' : trail'[i].level = 0
  BY DEF Flat
<1>2. Levels'
  BY <1>1 DEF Levels
<1>3. Grounded'
  BY DEF Grounded, Flat
<1>4. Upper'
  BY <1>1 DEF Upper, Justified
<1> QED
  BY <1>1, <1>2, <1>3, <1>4

\* Clauses are finite.
LEMMA ClauseFinite == ASSUME NEW c, c \subseteq Lit PROVE IsFiniteSet(c) /\ Cardinality(c) \in Nat
BY LitsFinite, FS_Subset, FS_CardinalityType

\* A clause that is not attached leaves a literal of level 0, or nothing.
LEMMA AddReducedFlat ==
    ASSUME NEW F, NEW G, F \subseteq G, NEW t, Flat(t, F, G),
           NEW r, r \subseteq PlainLit, Entails(F, r),
           \A l \in r : \A i \in DOMAIN t : VarOf(t[i].lit) # VarOf(l),
           NEW back, AddReduced(t, r, back)
    PROVE  Flat(trail', F, G)
<1>1. CASE Cardinality(r) = 1
  <2>1. PICK l \in r : trail' = Assigned(t, l, {}, 0)
    BY <1>1 DEF AddReduced
  <2>2. r = {l}
    BY <1>1, <2>1, ClauseFinite, PlainIsLit, FS_Singleton
  <2> QED
    BY <2>1, <2>2, FlatUnit
<1>2. CASE Cardinality(r) # 1
  BY <1>2 DEF AddReduced
<1> QED
  BY <1>1, <1>2

-----------------------------------------------------------------------------
(***************************************************************************)
(* The beginning, and the calls between questions.                         *)
(***************************************************************************)

\* The circuit's constants follow from it, and its clauses are no longer unit under them.
LEMMA ConstantsAre ==
    /\ Constants \subseteq PlainLit
    /\ \A l \in Constants : \A m \in CircuitModels : l \in m
    /\ \A c \in Circuit : \A k \in c : Negated(c \ {k}) \subseteq Constants => k \in Constants
<1> DEFINE Closed(u) ==
             \A c \in Circuit : \A k \in c : Negated(c \ {k}) \subseteq u => k \in u
           given == {l \in PlainLit : \A m \in CircuitModels : l \in m}
<1>1. Constants = {l \in Lit : \A u \in SUBSET Lit : Closed(u) => l \in u}
  BY DEF Constants
<1>2. Closed(given)
  <2> SUFFICES ASSUME NEW c \in Circuit, NEW k \in c, Negated(c \ {k}) \subseteq given
               PROVE  k \in given
    OBVIOUS
  <2>1. c \subseteq PlainLit
    BY CircuitPlain
  <2>2. ASSUME NEW m \in CircuitModels PROVE k \in m
    <3>1. m \in Assignments /\ c \cap m # {}
      BY DEF CircuitModels, Holds
    <3>2. PICK j \in c : j \in m
      BY <3>1
    <3>3. CASE j # k
      <4>1. -j \in given
        BY <3>3 DEF Negated
      <4>2. -j \in m /\ j \in Lit
        BY <2>1, <4>1, PlainIsLit
      <4> QED
        BY <3>1, <3>2, <4>2, AssignmentType
    <3> QED
      BY <3>2, <3>3
  <2> QED
    BY <2>1, <2>2
<1>3. given \subseteq PlainLit /\ given \in SUBSET Lit
  BY PlainIsLit
<1> HIDE DEF given
<1>4. Constants \subseteq given
  BY <1>1, <1>2, <1>3
<1>5. ASSUME NEW c \in Circuit, NEW k \in c, Negated(c \ {k}) \subseteq Constants
      PROVE  k \in Constants
  <2>1. k \in Lit
    BY CircuitPlain, PlainIsLit
  <2>2. ASSUME NEW u \in SUBSET Lit, Closed(u) PROVE k \in u
    <3>1. Constants \subseteq u
      BY <1>1, <2>2
    <3> QED
      BY <1>5, <2>2, <3>1
  <2> QED
    BY <1>1, <2>1, <2>2
<1>6. \A l \in given : \A m \in CircuitModels : l \in m
  BY DEF given
<1> QED
  BY <1>3, <1>4, <1>5, <1>6

\* In the beginning the circuit's constants are assigned, once.
LEMMA FlatInit == ASSUME Init PROVE Flat(trail, formula, Given)
<1> DEFINE n == Cardinality(Constants)
<1>1. /\ trail \in [1..n -> {[lit |-> l, reason |-> {}, level |-> 0] : l \in Constants}]
      /\ LitsOf(trail) = Constants
  BY DEF Init
<1>2. IsFiniteSet(Constants) /\ n \in Nat
  <2>1. Constants \subseteq Lit
    BY ConstantsAre, PlainIsLit
  <2>2. IsFiniteSet(Constants)
    BY <2>1, LitsFinite, FS_Subset
  <2> QED
    BY <2>2, FS_CardinalityType
<1> HIDE DEF n
<1>3. ASSUME NEW i \in 1..n
      PROVE  /\ trail[i].lit \in PlainLit /\ trail[i].lit \in Constants
             /\ trail[i].level = 0 /\ trail[i].reason = {}
             /\ trail[i] \in Entry
  <2>1. PICK l \in Constants : trail[i] = [lit |-> l, reason |-> {}, level |-> 0]
    BY <1>1
  <2>2. l \in PlainLit /\ l \in Lit
    BY ConstantsAre, PlainIsLit
  <2> QED
    BY <2>1, <2>2 DEF Entry
<1>4. DOMAIN trail = 1..n /\ trail \in Seq(Entry)
  <2>1. DOMAIN trail = 1..n /\ trail = [i \in 1..n |-> trail[i]]
    BY <1>1
  <2>2. trail \in [1..n -> Entry]
    BY <1>3, <2>1
  <2> QED
    BY <1>2, <2>1, <2>2, SeqDef
<1>5. ASSUME NEW i \in 1..n, NEW j \in 1..n, trail[i].lit = trail[j].lit PROVE i = j
  <2> DEFINE f == [k \in 1..n |-> trail[k].lit]
  <2>1. f \in [1..n -> Constants]
    BY <1>3
  <2>2. ASSUME NEW l \in Constants PROVE \E k \in 1..n : f[k] = l
    <3>1. l \in LitsOf(trail)
      BY <1>1
    <3>2. PICK k \in DOMAIN trail : trail[k].lit = l
      BY <3>1 DEF LitsOf
    <3> QED
      BY <1>4, <3>2
  <2>3. f[i] = f[j]
    BY <1>5
  <2> HIDE DEF f
  <2>4. f \in Surjection(1..n, Constants)
    BY <2>1, <2>2 DEF Surjection
  <2>5. IsFiniteSet(1..n) /\ Cardinality(1..n) = n
    <3>1. 1 \in Int /\ n \in Int
      BY <1>2
    <3>2. IsFiniteSet(1..n) /\ Cardinality(1..n) = IF 1 > n THEN 0 ELSE n - 1 + 1
      BY <3>1, FS_Interval
    <3>3. (IF 1 > n THEN 0 ELSE n - 1 + 1) = n
      BY <1>2
    <3> QED
      BY <3>2, <3>3
  <2>6. f \in Injection(1..n, Constants)
    BY <1>2, <2>4, <2>5, FS_SurjSameCardinalityImpliesInj DEF n
  <2> QED
    BY <2>3, <2>6 DEF Injection, IsInjective
<1>6. ASSUME NEW i \in 1..n PROVE Entails(formula, {trail[i].lit}) /\ Entails(Given, {trail[i].lit})
  BY <1>3, ConstantsAre DEF Entails, Holds
<1>7. ASSUME NEW i \in 1..n, NEW j \in 1..n, VarOf(trail[i].lit) = VarOf(trail[j].lit)
      PROVE  i = j
  <2>1. trail[i].lit \in Lit /\ trail[j].lit \in Lit
    BY <1>3, PlainIsLit
  <2>2. PICK m \in CircuitModels : TRUE
    BY CircuitAssumption
  <2>3. trail[i].lit \in m /\ trail[j].lit \in m
    BY <1>3, <2>2, ConstantsAre
  <2>4. trail[i].lit # -trail[j].lit
    BY <2>1, <2>3, AssignmentType DEF CircuitModels
  <2> QED
    BY <1>5, <1>7, <2>1, <2>4, SameVar
<1>8. Ordered(trail)
  <2>1. ASSUME NEW i \in DOMAIN trail, NEW j \in DOMAIN trail
        PROVE  trail[i].level <= trail[j].level
    <3>1. trail[i].level = 0 /\ trail[j].level = 0
      BY <1>3, <1>4
    <3> QED
      BY <3>1
  <2> QED
    BY <1>4, <1>7, <2>1 DEF Ordered
<1>9. \A i \in 1..n : trail[i].lit \notin {Act, -Act}
  BY <1>3 DEF PlainLit
<1> QED
  BY <1>3, <1>4, <1>6, <1>8, <1>9 DEF Flat

\* The invariant holds in the beginning.
LEMMA Initially == Init => IInv
<1> SUFFICES ASSUME Init PROVE IInv
  OBVIOUS
<1>1. Flat(trail, formula, Given)
  BY FlatInit
<1>2. trail \in Seq(Entry) /\ Ordered(trail) /\ \A i \in DOMAIN trail : trail[i].level = 0
  BY <1>1 DEF Flat
<1>0. PICK known \in [Circuit -> SUBSET Constants] :
          \A c \in trans : \E d \in Circuit : c = Reduced(d, known[d])
  BY DEF Init
<1>3. TypeOK
  <2>1. trans \subseteq SUBSET PlainLit /\ lemmas = {} /\ learnt = {} /\ temporary = {} /\ conf = {}
    BY <1>0, CircuitPlain DEF Init, Reduced
  <2>2. fixed \subseteq Var /\ domain \subseteq Var /\ queue \subseteq Var
    <3>1. \A c \in Circuit : VarsOf(c) \subseteq Var
      BY CircuitPlain, PlainIsLit, LitType DEF VarsOf
    <3>2. fixed \subseteq Var
      BY <3>1 DEF Init
    <3> QED
      BY <3>2 DEF Init
  <2>3. rep \in [Var -> Lit]
    BY LitType DEF Init
  <2>4. high \in Nat /\ propagated \in Nat /\ restarts \in Nat
    BY <1>2, Trails DEF Init
  <2>5. user \in Users /\ question \in Questions[user] /\ formula = {}
    BY DEF Init
  <2>6. ans = "none" /\ pc = "idle" /\ then = "idle"
    BY DEF Init
  <2> QED
    BY <1>2, <2>1, <2>2, <2>3, <2>4, <2>5, <2>6 DEF TypeOK
<1>4. Control
  BY DEF Init, Control, Starting, Searching
<1>5. Levels
  BY <1>2 DEF Init, Levels
<1>6. Grounded
  BY <1>1 DEF Grounded, Flat
<1>7. Upper
  BY <1>2 DEF Upper, Justified
<1>8. Database
  <2>1. ASSUME NEW c \in Circuit, NEW u \in SUBSET Constants PROVE Entails(formula, Reduced(c, u))
    <3>1. c \subseteq Lit /\ Entails(formula, c)
      BY CircuitPlain, PlainIsLit DEF Entails, CircuitModels
    <3>2. \A l \in u : Entails(formula, {l})
      BY ConstantsAre DEF Entails, Holds
    <3> QED
      BY <3>1, <3>2, ReducedFollows
  <2>2. ASSUME NEW c \in trans PROVE Entails(formula, c)
    <3>1. PICK d \in Circuit : c = Reduced(d, known[d])
      BY <1>0
    <3>2. known[d] \in SUBSET Constants
      OBVIOUS
    <3> QED
      BY <2>1, <3>1, <3>2
  <2> QED
    BY <2>2 DEF Init, Database
<1>9. Represented
  <2>1. \A v \in Var \ {Act} : v \in PlainLit /\ rep[v] = v
    BY LitType, PlainType DEF Init
  <2> QED
    BY <2>1 DEF Represented
<1>10. Analysis /\ CoreRight
  BY DEF Init, Analysis, CoreRight
<1> QED
  BY <1>3, <1>4, <1>5, <1>6, <1>7, <1>8, <1>9, <1>10 DEF IInv

\* What variables reach through dependencies are variables.
LEMMA ClosureType == ASSUME NEW s, NEW t PROVE Closure(s, t) \subseteq Var
BY DEF Closure

\* What is left of a clause when it is simplified and not satisfied.
LEMMA ReducedType ==
    ASSUME NEW c, c \subseteq PlainLit, NEW u, ~Satisfied(c, u)
    PROVE  /\ Reduced(c, u) \subseteq PlainLit
           /\ \A l \in Reduced(c, u) : l \notin u /\ -l \notin u
BY DEF Reduced, Satisfied

\* add_clause simplifies the clause by level 0, and attaches or assigns it.
LEMMA AddClauseKeeps == ASSUME IInv, NEW c \in Lemmas, AddClause(c) PROVE IInv'
<1> DEFINE u == GroundLits
           r == Reduced(c, u)
<1> USE DEF IInv
<1>1. /\ pc = "idle" /\ formula' = formula \cup {c} /\ high' = 0 /\ temporary' = {}
      /\ ans' = "none" /\ Given' = formula' \cup Guarded' /\ c \subseteq PlainLit
      /\ UNCHANGED <<user, trans, learnt, queue, rep, question, restarts, conf>>
  BY InputAssumption DEF AddClause, Call, ToGround, Forgotten, Given, simps, search
<1>2. formula \subseteq formula' /\ formula' \subseteq Given' /\ Entails(formula', c)
  BY <1>1 DEF Entails
<1>3. Flat(Ground, formula', Given')
  BY <1>2, FlatGround
<1>4. \A l \in u : l \in PlainLit /\ Entails(formula', {l})
  BY <1>2, GroundLitsFollow, EntailsMore
<1> HIDE DEF u
<1>5. Entails(formula', r) /\ (~Satisfied(c, u) => r \subseteq PlainLit)
  BY <1>1, <1>2, <1>4, ReducedFollows, ReducedType, PlainIsLit
<1>6. Flat(trail', formula', Given')
  <2>1. CASE Satisfied(c, u)
    BY <1>3, <2>1 DEF AddClause, u
  <2>2. CASE ~Satisfied(c, u)
    <3>1. AddReduced(Ground, r, "idle")
      BY <2>2 DEF AddClause, u
    <3>2. \A l \in r : l \in Lit /\ l \notin GroundLits /\ -l \notin GroundLits
      BY <1>1, <2>2, ReducedType, PlainIsLit DEF u
    <3>3. \A l \in r : \A i \in DOMAIN Ground : VarOf(Ground[i].lit) # VarOf(l)
      BY <3>2, NotInGround
    <3> HIDE DEF r
    <3> QED
      BY <1>2, <1>3, <1>5, <2>2, <3>1, <3>3, AddReducedFlat
  <2> QED
    BY <2>1, <2>2
<1>7. trail' \in Seq(Entry) /\ Levels' /\ Grounded' /\ Upper'
  BY <1>1, <1>6, FlatTrail
<1>8. pc' = "idle" \/ (pc' = "propagate" /\ then' = "idle")
  BY <1>1 DEF AddClause, AddReduced
<1>9. then' \in {then, "idle"}
  BY DEF AddClause, AddReduced
<1>10. Control'
  BY <1>1, <1>8 DEF Control, Starting, Searching
<1>11. lemmas' \in {lemmas, lemmas \cup {r}} /\ (lemmas' # lemmas => ~Satisfied(c, u))
  BY DEF AddClause, u
<1>12. trivial_unsat' = trivial_unsat \/ (trivial_unsat' = (trivial_unsat \/ r = {}))
  BY DEF AddClause, AddReduced, u
<1> HIDE DEF r
<1>13. TypeOK'
  <2>1. fixed' \subseteq Var /\ domain' \subseteq Var
    BY ClosureType DEF AddClause, TypeOK
  <2>2. propagated' \in Nat
    BY PosInTrailIs DEF AddClause, ToGround, TypeOK, Levels
  <2>3. formula' \subseteq SUBSET PlainLit /\ lemmas' \subseteq SUBSET PlainLit
    BY <1>1, <1>5, <1>11 DEF TypeOK
  <2>4. user' \in Users /\ question' \in Questions[user'] /\ pc' \in {"idle", "propagate"}
    BY <1>1, <1>8 DEF TypeOK
  <2>5. /\ trans' \subseteq SUBSET PlainLit /\ learnt' \subseteq SUBSET PlainLit
        /\ queue' \subseteq Var /\ rep' \in [Var -> Lit] /\ conf' \subseteq Lit \ {Act}
        /\ restarts' \in Nat /\ then' \in {"idle", "start", "eq", "search"}
    BY <1>1, <1>9 DEF TypeOK
  <2> QED
    BY <1>1, <1>7, <2>1, <2>2, <2>3, <2>4, <2>5 DEF TypeOK
<1>14. Database'
  <2>1. \A d \in trans \cup lemmas \cup learnt : Entails(formula', d)
    BY <1>2, EntailsMore DEF Database
  <2>2. \A d \in trans' \cup lemmas' \cup learnt' : Entails(formula', d)
    BY <1>1, <1>5, <1>11, <2>1
  <2>3. trivial_unsat' => Entails(formula', {})
    BY <1>2, <1>5, <1>12, EntailsMore DEF Database
  <2> QED
    BY <1>1, <2>2, <2>3 DEF Database
<1>15. Represented'
  BY <1>1, <1>2 DEF Represented
<1>16. Analysis' /\ CoreRight'
  BY <1>1, <1>8 DEF Analysis, CoreRight
<1> QED
  BY <1>7, <1>10, <1>13, <1>14, <1>15, <1>16

\* set_domain cleans up after the last question.
LEMMA SetDomainKeeps == ASSUME IInv, NEW d \in Domains, SetDomain(d) PROVE IInv'
<1> USE DEF IInv
<1>1. /\ pc = "idle" /\ pc' = "idle" /\ high' = 0 /\ temporary' = {} /\ ans' = "none"
      /\ trail' = Ground /\ queue' = domain'
      /\ UNCHANGED <<user, formula, trans, lemmas, learnt, rep, question, restarts, conf,
                     trivial_unsat, then>>
  BY DEF SetDomain, Call, ToGround, Forgotten, simps, search, db
<1>2. Given' = Given /\ formula \subseteq Given
  BY <1>1, SameGiven DEF Given
<1>3. Flat(trail', formula', Given')
  BY <1>1, <1>2, FlatGround
<1>4. trail' \in Seq(Entry) /\ Levels' /\ Grounded' /\ Upper'
  BY <1>1, <1>3, FlatTrail
<1>5. Control'
  BY <1>1 DEF Control, Starting, Searching
<1>6. TypeOK'
  <2>1. fixed' \subseteq Var /\ domain' \subseteq Var
    BY ClosureType, ActType DEF SetDomain, TypeOK
  <2>2. propagated' \in Nat
    BY PosInTrailIs DEF SetDomain, ToGround, TypeOK, Levels
  <2> QED
    BY <1>1, <1>4, <2>1, <2>2 DEF TypeOK
<1>7. Database' /\ Represented'
  BY <1>1, <1>2 DEF Database, Represented
<1>8. Analysis' /\ CoreRight'
  BY <1>1 DEF Analysis, CoreRight
<1> QED
  BY <1>4, <1>5, <1>6, <1>7, <1>8

\* Two calls between questions that touch no clause and no assignment.
LEMMA QuietCallKeeps == ASSUME IInv, UnsetDomain \/ \E v \in LeafVar : Flip(v) PROVE IInv'
<1> USE DEF IInv
<1>1. UNCHANGED <<user, formula, trans, lemmas, learnt, temporary, trail, high, propagated, walk,
                  rep, question, restarts, conf, unsat_core, trivial_unsat, domain, fixed,
                  queue, ans, pc, then>>
  BY DEF UnsetDomain, Call, Flip, db, assigns, domains, simps, search, answers, history
<1>2. Levels' /\ Grounded' /\ Upper' /\ Database' /\ Represented'
  BY <1>1, Quiet DEF Searching, Stale, Starting
<1>3. TypeOK' /\ Control'
  BY <1>1 DEF TypeOK, Control, Starting, Searching
<1>4. Given' = Given
  BY <1>1, SameGiven
<1>5. Analysis' /\ CoreRight'
  BY <1>1, <1>4 DEF Analysis, CoreRight, Refutes
<1> QED
  BY <1>2, <1>3, <1>5

\* A literal has the value of what represents it.
LEMMA RepOfFollows ==
    ASSUME TypeOK, Represented, NEW l \in PlainLit
    PROVE  /\ RepOf(l) \in PlainLit
           /\ \A m \in CircuitModels :
                  (\A d \in formula : Holds(d, m)) => (l \in m <=> RepOf(l) \in m)
<1>1. l \in Lit /\ VarOf(l) \in Var \ {Act} /\ l \in Int
  BY LitType, PlainType, PlainIsLit
<1> DEFINE v == VarOf(l)
<1>2. rep[v] \in PlainLit /\ rep[v] \in Lit /\ -rep[v] \in PlainLit
  BY <1>1, PlainType, PlainIsLit DEF Represented
<1>3. CASE l > 0
  <2>1. v = l /\ RepOf(l) = rep[v]
    BY <1>3 DEF VarOf, RepOf
  <2> QED
    BY <1>1, <1>2, <2>1 DEF Represented
<1>4. CASE ~(l > 0)
  <2>1. v = -l /\ RepOf(l) = -rep[v]
    BY <1>1, <1>4 DEF VarOf, RepOf
  <2>2. v \in Lit
    BY <1>1, LitType
  <2>3. ASSUME NEW m \in CircuitModels, \A d \in formula : Holds(d, m)
        PROVE  l \in m <=> RepOf(l) \in m
    <3>1. v \in m <=> rep[v] \in m
      BY <1>1, <2>3 DEF Represented
    <3>2. (l \in m <=> v \notin m) /\ (-rep[v] \in m <=> rep[v] \notin m)
      BY <1>1, <1>2, <2>1, <2>2, AssignmentType, LitType DEF CircuitModels
    <3> QED
      BY <2>1, <3>1, <3>2
  <2> QED
    BY <1>2, <2>1, <2>3
<1> QED
  BY <1>3, <1>4

\* Literals of which one question said that they do not differ have the same value.
LEMMA SameValue ==
    ASSUME TypeOK, CoreRight, user = "frts", ans = "unsat",
           NEW x \in PlainLit, NEW y \in PlainLit, question.constraint = Differ(x, y),
           NEW m \in CircuitModels, \A d \in formula : Holds(d, m)
    PROVE  x \in m <=> y \in m
<1>1. question.assump = <<>>
  BY QuestionType
<1>2. unsat_core \ {Act} = {}
  BY <1>1 DEF CoreRight, Refutes
<1>3. Entails(formula \cup question.constraint, {})
  <2>1. Entails(formula \cup question.constraint, Negated(unsat_core \ {Act}))
    BY DEF CoreRight, Refutes
  <2> QED
    BY <1>2, <2>1 DEF Negated
<1>4. ~(Holds({x, y}, m) /\ Holds({-x, -y}, m))
  BY <1>3 DEF Entails, Holds, Differ
<1>5. (x \in m <=> -x \notin m) /\ (y \in m <=> -y \notin m)
  BY AssignmentType, PlainIsLit DEF CircuitModels
<1> QED
  BY <1>4, <1>5 DEF Holds

\* The literals of an equivalence that was proved have the same value.
LEMMA AddEqKeeps == ASSUME IInv, NEW e \in Candidates, AddEq(e[1], e[2]) PROVE IInv'
<1> USE DEF IInv
<1> DEFINE x == e[1]
           y == e[2]
           xp == RepOf(x)
           yp == RepOf(y)
           to == IF VarOf(xp) > VarOf(yp) THEN yp ELSE xp
           from == IF VarOf(xp) > VarOf(yp) THEN xp ELSE yp
<1>1. x \in PlainLit /\ y \in PlainLit
  BY InputAssumption
<1>2. /\ user = "frts" /\ ans = "unsat" /\ question.constraint = Differ(x, y)
      /\ rep' = [v \in Var |-> IF rep[v] = from THEN to
                               ELSE IF rep[v] = -from THEN -to ELSE rep[v]]
      /\ UNCHANGED <<user, formula, trans, lemmas, learnt, temporary, trail, high, propagated,
                     walk, question, restarts, conf, unsat_core, trivial_unsat, domain, fixed,
                     queue, ans, pc, then>>
  BY DEF AddEq, Call, db, assigns, domains, search, answers
<1> HIDE DEF x, y
<1>3. xp \in PlainLit /\ yp \in PlainLit
  BY <1>1, RepOfFollows
<1>4. ASSUME NEW m \in CircuitModels, \A d \in formula : Holds(d, m)
      PROVE  xp \in m <=> yp \in m
  BY <1>1, <1>2, <1>4, RepOfFollows, SameValue
<1> HIDE DEF xp, yp
<1>5. to \in PlainLit /\ from \in PlainLit /\ to \in Lit /\ from \in Lit /\ -to \in PlainLit
  BY <1>3, PlainType, PlainIsLit
<1>6. ASSUME NEW m \in CircuitModels, \A d \in formula : Holds(d, m)
      PROVE  (to \in m <=> from \in m) /\ (-to \in m <=> -from \in m)
  <2>1. to \in m <=> from \in m
    BY <1>4, <1>6
  <2>2. (-to \in m <=> to \notin m) /\ (-from \in m <=> from \notin m)
    BY <1>5, AssignmentType, LitType DEF CircuitModels
  <2> QED
    BY <2>1, <2>2
<1> HIDE DEF to, from
<1>7. ASSUME NEW v \in Var \ {Act}
      PROVE  /\ rep'[v] \in PlainLit
             /\ \A m \in CircuitModels :
                    (\A d \in formula : Holds(d, m)) => (v \in m <=> rep'[v] \in m)
  <2>1. rep'[v] = IF rep[v] = from THEN to ELSE IF rep[v] = -from THEN -to ELSE rep[v]
    BY <1>2
  <2>2. /\ rep[v] \in PlainLit
        /\ \A m \in CircuitModels :
               (\A d \in formula : Holds(d, m)) => (v \in m <=> rep[v] \in m)
    BY DEF Represented
  <2> QED
    BY <1>5, <1>6, <2>1, <2>2
<1>8. Represented'
  BY <1>2, <1>7 DEF Represented
<1>9. rep' \in [Var -> Lit]
  <2>1. -to \in Lit
    BY <1>5, PlainIsLit
  <2> QED
    BY <1>2, <1>5, <2>1 DEF TypeOK
<1>10. Given' = Given /\ As' = As
  BY <1>2, SameGiven
<1>11. Levels' /\ Grounded' /\ Upper' /\ Database'
  BY <1>2, <1>10
     DEF Levels, Grounded, Upper, Database, Searching, Stale, Starting
<1>12. TypeOK' /\ Control'
  BY <1>2, <1>9 DEF TypeOK, Control, Starting, Searching
<1>13. Analysis' /\ CoreRight'
  BY <1>2, <1>10 DEF Analysis, CoreRight, Refutes
<1> QED
  BY <1>8, <1>11, <1>12, <1>13

-----------------------------------------------------------------------------
(***************************************************************************)
(* A question is asked, and its round prepared.                            *)
(***************************************************************************)

\* A question is asked.
LEMMA SolveKeeps == ASSUME IInv, NEW q \in Questions[user], Solve(q) PROVE IInv'
<1> USE DEF IInv
<1>1. /\ pc = "idle" /\ pc' = "propagate" /\ then' = "start" /\ ans' = "asked" /\ question' = q
      /\ UNCHANGED <<user, formula, trans, lemmas, learnt, temporary, trail, high, propagated,
                     walk, rep, restarts, conf, trivial_unsat, domain, fixed, queue>>
  BY DEF Solve, Call, db, assigns, domains, search
<1>2. Stale' /\ Starting' /\ ~Searching'
  BY <1>1 DEF Stale, Starting, Searching
<1>3. TypeOK'
  BY <1>1 DEF TypeOK
<1>4. Control'
  BY <1>1, <1>2 DEF Control
<1>5. Levels' /\ Grounded' /\ Upper'
  BY <1>1, <1>2 DEF Levels, Grounded, Upper
<1>6. Database' /\ Represented'
  BY <1>1, <1>2 DEF Database, Represented
<1>7. Analysis' /\ CoreRight'
  BY <1>1 DEF Analysis, CoreRight
<1> QED
  BY <1>3, <1>4, <1>5, <1>6, <1>7

\* Nothing is left to refute once the callers' clauses are refuted.
LEMMA EmptyCore ==
    ASSUME Entails(formula', {}), unsat_core' = {}
    PROVE  CoreRight'
<1>1. Refutes(unsat_core)'
  <2>1. formula' \subseteq formula' \cup question'.constraint
    OBVIOUS
  <2>2. Entails(formula' \cup question'.constraint, {})
    BY <2>1, EntailsMore
  <2>3. Negated({}) = {}
    BY DEF Negated
  <2> QED
    BY <2>2, <2>3 DEF Refutes
<1> QED
  BY <1>1 DEF CoreRight

\* What was added before is unsatisfiable already.
LEMMA TrivialUnsatKeeps == ASSUME IInv, TrivialUnsat PROVE IInv'
<1> USE DEF IInv
<1>1. /\ pc = "propagate" /\ then = "start" /\ trivial_unsat
      /\ pc' = "idle" /\ ans' = "unsat" /\ unsat_core' = {}
      /\ UNCHANGED <<user, formula, trans, lemmas, learnt, temporary, trail, high, propagated,
                     walk, rep, question, restarts, conf, trivial_unsat, domain, fixed, queue,
                     then>>
  BY DEF TrivialUnsat, Refute, db, assigns, domains, simps, search, history
<1>2. Entails(formula, {})
  BY <1>1 DEF Database
<1>3. Levels' /\ Grounded' /\ Upper' /\ Database' /\ Represented'
  BY <1>1, <1>2, Quiet DEF Searching
<1>4. TypeOK'
  BY <1>1 DEF TypeOK
<1>5. Control'
  BY <1>1 DEF Control, Starting, Searching
<1>6. Analysis' /\ CoreRight'
  BY <1>1, <1>2, EmptyCore DEF Analysis
<1> QED
  BY <1>3, <1>4, <1>5, <1>6

\* A step that keeps the trail and does not begin a round.
LEMMA SameTrail ==
    ASSUME Levels, Grounded, Upper, UNCHANGED <<trail, high, formula, question>>,
           Searching' => Searching
    PROVE  Levels' /\ Grounded' /\ Upper'
<1>1. Given' = Given /\ As' = As
  BY SameGiven
<1>2. Levels'
  BY DEF Levels
<1>3. Grounded'
  BY <1>1 DEF Grounded
<1>4. Upper'
  BY <1>1 DEF Upper
<1> QED
  BY <1>2, <1>3, <1>4

\* clean_learnt only forgets.
LEMMA CleanedType ==
    ASSUME NEW full, NEW t, NEW s \in Cleaned(full, t)
    PROVE  s \subseteq learnt
BY DEF Cleaned

\* What is unassigned when going back are variables.
LEMMA PoppedType == ASSUME TypeOK, NEW k PROVE Popped(k) \subseteq Var
BY Trails, LitType DEF Popped, TypeOK

\* The temporary clauses of a round follow from its question's constraints; if nothing but
\* constrain_act's negation is left of one, the question is refuted.
LEMMA RoundClauses ==
    ASSUME TypeOK, Grounded,
           NEW d \in Guarded, ~Satisfied(d, GroundLits), NEW r, r = Reduced(d, GroundLits)
    PROVE  /\ r \subseteq Lit \ {Act} /\ -Act \in r /\ Entails(Given, r)
           /\ r = {-Act} => Entails(formula \cup question.constraint, {})
<1> DEFINE u == GroundLits
<1>1. d \subseteq Lit \ {Act} /\ -Act \in d /\ d \ {-Act} \subseteq PlainLit
  BY GuardedType
<1>2. \A l \in u : l \in PlainLit /\ Entails(formula, {l})
  BY GroundLitsFollow
<1> HIDE DEF u
<1>3. r \subseteq d /\ r = {l \in d : -l \notin u}
  BY DEF Reduced, u
<1>4. -Act \in r
  <2>1. -(-Act) = Act
    BY ActType, LitType
  <2>2. Act \notin u
    BY <1>2 DEF PlainLit
  <2> QED
    BY <1>1, <1>3, <2>1, <2>2
<1>5. Entails(Given, r)
  <2>1. Entails(Given, d)
    BY DEF Given, Entails
  <2>2. formula \subseteq Given
    BY DEF Given
  <2>3. \A l \in u : Entails(Given, {l})
    BY <1>2, <2>2, EntailsMore
  <2>4. d \subseteq Lit
    BY <1>1
  <2> QED
    BY <2>1, <2>3, <2>4, ReducedFollows DEF u
<1>6. ASSUME r = {-Act} PROVE Entails(formula \cup question.constraint, {})
  <2> DEFINE F == formula \cup question.constraint
  <2>1. PICK c \in question.constraint : d = c \cup {-Act}
    BY DEF Guarded
  <2>2. c \subseteq PlainLit
    BY <2>1, QuestionType
  <2>3. \A l \in c : -l \in u
    <3>1. \A l \in c : l # -Act
      BY <2>2 DEF PlainLit
    <3> QED
      BY <1>3, <1>6, <2>1, <3>1
  <2>4. \A l \in c \ {} : Entails(F, {-l})
    BY <1>2, <2>3, EntailsMore
  <2>5. Entails(F, c)
    BY DEF Entails
  <2>6. c \subseteq Lit
    BY <2>2, PlainIsLit
  <2> HIDE DEF F
  <2>7. Entails(F, {})
    BY <2>4, <2>5, <2>6, LeftOut
  <2> QED
    BY <2>7 DEF F
<1> QED
  BY <1>1, <1>3, <1>4, <1>5, <1>6

\* new_round takes the last question's traces away and puts the constraints in.
LEMMA NewRoundKeeps == ASSUME IInv, NewRound PROVE IInv'
<1> USE DEF IInv
<1> DEFINE u == GroundLits
           reduced == {Reduced(c, u) : c \in {d \in Guarded : ~Satisfied(d, u)}}
<1>1. /\ pc = "start" /\ trail' = Ground /\ high' = 0
      /\ UNCHANGED <<user, formula, trans, lemmas, walk, rep, question, conf, trivial_unsat,
                     fixed, then>>
  BY DEF NewRound, ToGround, simps, history
<1>2. Given' = Given /\ formula \subseteq Given
  BY <1>1, SameGiven DEF Given
<1>3. Flat(trail', formula', Given')
  BY <1>1, <1>2, FlatGround
<1>4. trail' \in Seq(Entry) /\ Levels' /\ Grounded' /\ Upper'
  BY <1>1, <1>3, FlatTrail
<1>5. \A r \in reduced :
          /\ r \subseteq Lit \ {Act} /\ -Act \in r /\ Entails(Given, r)
          /\ r = {-Act} => Entails(formula \cup question.constraint, {})
  BY RoundClauses
<1>6. /\ temporary' \subseteq reduced
      /\ \/ /\ {-Act} \in reduced
            /\ pc' = "idle" /\ ans' = "unsat" /\ unsat_core' = {}
         \/ pc' = "simplify" /\ UNCHANGED <<ans, unsat_core>>
      /\ learnt' \subseteq learnt
  <2>1. CASE {-Act} \in reduced
    BY <2>1 DEF NewRound, Refute, Guarded
  <2>2. CASE {-Act} \notin reduced
    BY <2>2, CleanedType DEF NewRound, answers, Guarded
  <2> QED
    BY <2>1, <2>2
<1>7. domain' \subseteq Var /\ queue' \subseteq Var
  <2>1. \A s, t : Closure(s, t) \subseteq Var
    BY ClosureType
  <2>2. Popped(0) \subseteq Var
    BY PoppedType
  <2>3. domain' = domain \/ \E s, t : domain' = Closure(s, t) \cup {Act}
    BY DEF NewRound
  <2>4. queue' \subseteq queue \cup Popped(0)
    BY DEF NewRound
  <2> QED
    BY <2>1, <2>2, <2>3, <2>4, ActType DEF TypeOK
<1> HIDE DEF reduced
<1>8. TypeOK'
  <2>1. propagated' \in Nat /\ restarts' = 0
    BY PosInTrailIs DEF NewRound, ToGround, TypeOK, Levels
  <2>2. /\ learnt' \subseteq SUBSET PlainLit
        /\ \A c \in temporary' : c \subseteq Lit \ {Act} /\ -Act \in c
    BY <1>5, <1>6 DEF TypeOK
  <2>3. pc' \in {"idle", "simplify"} /\ ans' \in {"unsat", ans}
    BY <1>6
  <2> QED
    BY <1>1, <1>4, <1>7, <2>1, <2>2, <2>3 DEF TypeOK
<1>9. ans = "asked"
  BY <1>1 DEF Control, Starting
<1>10. Control'
  BY <1>1, <1>6, <1>9 DEF Control, Starting, Searching
<1>11. Database'
  BY <1>1, <1>2, <1>5, <1>6 DEF Database
<1>12. Represented'
  BY <1>1 DEF Represented
<1>13. Analysis'
  BY <1>6 DEF Analysis
<1>14. CoreRight'
  <2>1. CASE {-Act} \in reduced /\ unsat_core' = {}
    <3>1. Entails(formula \cup question.constraint, {})
      BY <1>5, <2>1
    <3>2. Negated({}) = {}
      BY DEF Negated
    <3> QED
      BY <1>1, <2>1, <3>1, <3>2 DEF CoreRight, Refutes
  <2>2. CASE UNCHANGED <<ans, unsat_core>>
    BY <1>9, <2>2 DEF CoreRight
  <2> QED
    BY <1>6, <2>1, <2>2
<1> QED
  BY <1>4, <1>8, <1>10, <1>11, <1>12, <1>13, <1>14

-----------------------------------------------------------------------------
(***************************************************************************)
(* Simplification.                                                         *)
(***************************************************************************)

\* While the highest level is 0, a clause's literals that are false can be left out.
LEMMA ReducedGround ==
    ASSUME TypeOK, Levels, Grounded, high = 0, NEW c, c \subseteq PlainLit, Entails(formula, c)
    PROVE  LET r == Reduced(c, LitsOf(trail)) IN r \subseteq PlainLit /\ Entails(formula, r)
<1> DEFINE r == Reduced(c, LitsOf(trail))
<1>1. ASSUME NEW l \in c \ r PROVE Entails(formula, {-l})
  <2>1. l \in Lit \ {Act}
    BY PlainIsLit
  <2>2. PICK k \in DOMAIN trail : trail[k].lit = -l
    BY DEF Reduced, LitsOf
  <2>3. trail[k].level = 0
    BY <2>2, Trails DEF TypeOK, Levels
  <2> QED
    BY <2>1, <2>2, <2>3, FalseGround
<1>2. r \subseteq c /\ c \subseteq Lit
  BY PlainIsLit DEF Reduced
<1> HIDE DEF r
<1>3. Entails(formula, r)
  BY <1>1, <1>2, LeftOut
<1> QED
  BY <1>2, <1>3 DEF r

\* simplify_satisfied_clauses drops clauses and leaves false literals out.
LEMMA SimplifyKeeps == ASSUME IInv, Simplify PROVE IInv'
<1> USE DEF IInv
<1>1. /\ pc = "simplify"
      /\ (pc' = "eq" /\ then' = then) \/ (pc' = "propagate" /\ then' = "search")
      /\ UNCHANGED <<user, formula, temporary, trail, high, propagated, walk, domain, fixed,
                     queue, rep, question, restarts, conf, trivial_unsat, ans, unsat_core>>
  BY DEF Simplify, assigns, domains, search, answers, history
<1>2. high = 0
  BY <1>1 DEF Control
<1>3. \A s, dropped : s \subseteq SUBSET PlainLit /\ (\A c \in s : Entails(formula, c)) =>
          \A r \in Simplified(s, dropped) : r \subseteq PlainLit /\ Entails(formula, r)
  BY <1>2, ReducedGround DEF Simplified
<1>4. /\ trans' = trans \/ \E dropped : trans' = Simplified(trans, dropped)
      /\ lemmas' = lemmas \/ \E dropped : lemmas' = Simplified(lemmas, dropped)
      /\ learnt' = learnt \/ \E dropped : learnt' = Simplified(learnt, dropped)
  BY DEF Simplify, SimplifySatisfied, db
<1>5. /\ \A c \in trans : c \subseteq PlainLit /\ Entails(formula, c)
      /\ \A c \in lemmas : c \subseteq PlainLit /\ Entails(formula, c)
      /\ \A c \in learnt : c \subseteq PlainLit /\ Entails(formula, c)
  BY DEF TypeOK, Database
<1>6. /\ \A c \in trans' : c \subseteq PlainLit /\ Entails(formula, c)
      /\ \A c \in lemmas' : c \subseteq PlainLit /\ Entails(formula, c)
      /\ \A c \in learnt' : c \subseteq PlainLit /\ Entails(formula, c)
  BY <1>3, <1>4, <1>5 DEF TypeOK
<1>7. Searching /\ Searching' /\ ~Stale /\ ~Stale' /\ Given' = Given
  BY <1>1, SameGiven DEF Searching, Stale, Starting
<1>8. Levels' /\ Grounded' /\ Upper'
  BY <1>1, <1>7, SameTrail
<1>9. TypeOK'
  BY <1>1, <1>6 DEF TypeOK
<1>10. Control'
  BY <1>1, <1>2 DEF Control, Starting, Searching
<1>11. Database'
  BY <1>1, <1>6, <1>7 DEF Database
<1>12. Represented' /\ Analysis' /\ CoreRight'
  BY <1>1, <1>7 DEF Represented, Analysis, CoreRight, Refutes
<1> QED
  BY <1>8, <1>9, <1>10, <1>11, <1>12

\* A clause rewritten by proved equivalences follows as well.
LEMMA RewrittenFollows ==
    ASSUME TypeOK, Represented, NEW c, c \subseteq PlainLit, Entails(formula, c)
    PROVE  Rewritten(c) \subseteq PlainLit /\ Entails(formula, Rewritten(c))
<1>1. Rewritten(c) \subseteq PlainLit
  BY RepOfFollows DEF Rewritten
<1>2. ASSUME NEW m \in CircuitModels, \A d \in formula : Holds(d, m) PROVE Holds(Rewritten(c), m)
  <2>1. PICK l \in c : l \in m
    BY <1>2 DEF Entails, Holds
  <2>2. RepOf(l) \in m
    BY <1>2, <2>1, RepOfFollows
  <2> QED
    BY <2>1, <2>2 DEF Rewritten, Holds
<1>3. Entails(formula, Rewritten(c))
  BY <1>2 DEF Entails
<1> QED
  BY <1>1, <1>3

\* clean_eq rewrites one clause.
LEMMA CleanEqKeeps == ASSUME IInv, CleanEq PROVE IInv'
<1> USE DEF IInv
<1> DEFINE u == LitsOf(trail)
<1>1. PICK c \in trans \cup lemmas \cup learnt :
         /\ pc = "eq"
         /\ \/ /\ Satisfied(Rewritten(c), u)
               /\ UNCHANGED <<trail, trivial_unsat, pc, then>>
            \/ /\ ~Satisfied(Rewritten(c), u)
               /\ AddReduced(trail, Reduced(Rewritten(c), u), "eq")
         /\ trans' \subseteq trans \cup {Reduced(Rewritten(c), u)}
         /\ lemmas' \subseteq lemmas \cup {Reduced(Rewritten(c), u)}
         /\ learnt' \subseteq learnt \cup {Reduced(Rewritten(c), u)}
         /\ UNCHANGED <<temporary, high, propagated, walk, domain, fixed, queue, rep, question,
                        restarts, conf, ans, unsat_core, user, formula>>
  BY DEF CleanEq, domains, simps, search, answers
<1> DEFINE d == Rewritten(c)
           r == Reduced(d, u)
<1>2. high = 0
  BY <1>1 DEF Control
<1>3. d \subseteq PlainLit /\ Entails(formula, d)
  <2>1. c \subseteq PlainLit /\ Entails(formula, c)
    BY <1>1 DEF TypeOK, Database
  <2> QED
    BY <2>1, RewrittenFollows
<1> HIDE DEF d
<1>4. r \subseteq PlainLit /\ Entails(formula, r)
  BY <1>2, <1>3, ReducedGround
<1>5. Searching /\ ~Stale /\ Given' = Given /\ formula \subseteq Given
  BY <1>1, SameGiven DEF Searching, Stale, Starting, Given
<1>6. trail \in Seq(Entry) /\ Ordered(trail) /\ \A i \in DOMAIN trail : trail[i].level = 0
  BY <1>2, Trails DEF TypeOK, Levels
<1>7. Flat(trail, formula, Given)
  BY <1>5, <1>6 DEF Flat, Grounded
<1>8. Flat(trail', formula', Given')
  <2>1. CASE UNCHANGED trail
    BY <1>1, <1>5, <1>7, <2>1
  <2>2. CASE ~Satisfied(d, u) /\ AddReduced(trail, r, "eq")
    <3>1. ASSUME NEW l \in r, NEW i \in DOMAIN trail PROVE VarOf(trail[i].lit) # VarOf(l)
      <4>1. l \in Lit /\ l \notin u /\ -l \notin u
        BY <1>3, <2>2, <3>1, ReducedType, PlainIsLit
      <4>2. trail[i].lit \in u /\ trail[i].lit \in Lit
        BY <1>6, Trails DEF LitsOf
      <4> QED
        BY <4>1, <4>2, SameVar
    <3> HIDE DEF r
    <3> QED
      BY <1>1, <1>4, <1>5, <1>7, <2>2, <3>1, AddReducedFlat
  <2> QED
    BY <1>1, <2>1, <2>2 DEF d
<1>9. trail' \in Seq(Entry) /\ Levels' /\ Grounded' /\ Upper'
  BY <1>1, <1>2, <1>8, FlatTrail
<1>10. (pc' = "eq" /\ then' = then) \/ (pc' \in {"eq", "propagate"} /\ then' \in {then, "eq"}
                                        /\ (pc' = "propagate" => then' = "eq"))
  BY <1>1 DEF AddReduced
<1>11. trivial_unsat' => trivial_unsat \/ r = {}
  BY <1>1 DEF AddReduced, d
<1>12. /\ trans' \subseteq trans \cup {r}
       /\ lemmas' \subseteq lemmas \cup {r}
       /\ learnt' \subseteq learnt \cup {r}
  BY <1>1 DEF d
<1> HIDE DEF r
<1>13. TypeOK'
  <2>1. trans' \subseteq SUBSET PlainLit /\ lemmas' \subseteq SUBSET PlainLit
        /\ learnt' \subseteq SUBSET PlainLit
    BY <1>4, <1>12 DEF TypeOK
  <2>2. pc' \in {"eq", "propagate"} /\ then' \in {then, "eq"}
    BY <1>10
  <2> QED
    BY <1>1, <1>9, <2>1, <2>2 DEF TypeOK
<1>14. Control' /\ Searching' /\ ~Stale'
  BY <1>1, <1>2, <1>10 DEF Control, Starting, Searching, Stale
<1>15. Database'
  <2>1. \A e \in trans' \cup lemmas' \cup learnt' : Entails(formula, e)
    BY <1>4, <1>12 DEF Database
  <2>2. \A e \in temporary : Entails(Given, e)
    BY <1>5 DEF Database
  <2>3. trivial_unsat' => Entails(formula, {})
    BY <1>4, <1>11 DEF Database
  <2> QED
    BY <1>1, <1>5, <2>1, <2>2, <2>3 DEF Database
<1>16. Represented' /\ CoreRight'
  BY <1>1 DEF Represented, CoreRight, Refutes
<1>17. Analysis'
  BY <1>10 DEF Analysis
<1> QED
  BY <1>9, <1>13, <1>14, <1>15, <1>16, <1>17

\* clean_eq has no clause left to rewrite.
LEMMA EqCleanedKeeps == ASSUME IInv, EqCleaned PROVE IInv'
<1> USE DEF IInv
<1>1. /\ pc = "eq" /\ pc' = "propagate" /\ then' = "search"
      /\ UNCHANGED <<user, formula, trans, lemmas, learnt, temporary, trail, high, propagated,
                     walk, rep, question, restarts, conf, trivial_unsat, domain, fixed, queue,
                     ans, unsat_core>>
  BY DEF EqCleaned, db, assigns, domains, simps, search, answers, history
<1>2. Levels' /\ Grounded' /\ Upper' /\ Database' /\ Represented'
  BY <1>1, Quiet DEF Searching, Stale, Starting
<1>3. TypeOK'
  BY <1>1 DEF TypeOK
<1>4. Control'
  BY <1>1 DEF Control, Starting, Searching
<1>5. Analysis' /\ CoreRight'
  BY <1>1 DEF Analysis, CoreRight, Refutes
<1> QED
  BY <1>2, <1>3, <1>4, <1>5

-----------------------------------------------------------------------------
(***************************************************************************)
(* Assigning a literal.                                                    *)
(***************************************************************************)

\* A variable that is unassigned is not in the trail.
LEMMA UnassignedIs ==
    ASSUME trail \in Seq(Entry), NEW l \in Lit, Unassigned(VarOf(l)), NEW i \in DOMAIN trail
    PROVE  VarOf(trail[i].lit) # VarOf(l)
<1>1. trail[i].lit \in Lit /\ trail[i].lit \in LitsOf(trail)
  BY Trails DEF LitsOf
<1>2. VarOf(l) \notin LitsOf(trail) /\ -VarOf(l) \notin LitsOf(trail)
  BY DEF Unassigned, True, False
<1>3. trail[i].lit = VarOf(trail[i].lit) \/ trail[i].lit = -VarOf(trail[i].lit)
  BY <1>1, LitType DEF VarOf
<1> QED
  BY <1>1, <1>2, <1>3

\* A justification looks only at what was assigned before.
LEMMA JustifiedPrefix ==
    ASSUME NEW t \in Seq(Entry), NEW s \in Seq(Entry), NEW i \in DOMAIN t, i \in DOMAIN s,
           \A j \in 1..i : s[j] = t[j], NEW G, NEW a, JustifiedAt(t, i, G, a)
    PROVE  JustifiedAt(s, i, G, a)
<1>1. i \in Nat /\ s[i] = t[i] /\ \A j \in 1..(i - 1) : s[j] = t[j]
  <2>1. i \in Nat /\ 1 <= i
    BY Trails
  <2>2. \A j \in 1..(i - 1) : j \in 1..i
    BY <2>1
  <2> QED
    BY <2>1, <2>2
<1> QED
  BY <1>1 DEF JustifiedAt

\* A trail stays justified when its higher levels are given up.
LEMMA JustifiedUpto ==
    ASSUME NEW t \in Seq(Entry), Ordered(t), NEW k \in Nat, NEW G, NEW a, Justified(t, G, a)
    PROVE  Justified(Upto(t, k), G, a)
<1> DEFINE s == Upto(t, k)
<1>1. /\ s \in Seq(Entry) /\ \A i \in DOMAIN s : i \in DOMAIN t /\ s[i] = t[i]
  BY UptoIs
<1> HIDE DEF s
<1>2. ASSUME NEW i \in DOMAIN s, s[i].level > 0 PROVE JustifiedAt(s, i, G, a)
  <2>1. i \in DOMAIN t /\ t[i].level > 0
    BY <1>1, <1>2
  <2>2. JustifiedAt(t, i, G, a)
    BY <2>1 DEF Justified
  <2>3. \A j \in 1..i : j \in DOMAIN s
    BY <1>1, Trails
  <2> QED
    BY <1>1, <2>1, <2>2, <2>3, JustifiedPrefix
<1> QED
  BY <1>2 DEF Justified, s

\* What is required of a literal at level 0, and of one that is assigned above it next.
FixedLit(l) ==
    /\ l # Act
    /\ l # -Act => Entails(formula, {l})
    /\ Searching => Entails(Given, {l})

NextLit(t, l, c, k) ==
    IF c = {}
    THEN (\A i \in DOMAIN t : t[i].level < k) /\ (k <= Len(As) => l = As[k])
    ELSE /\ l \in c /\ Act \notin c /\ Entails(Given, c)
         /\ \A m \in c \ {l} : \E i \in DOMAIN t : t[i].lit = -m

\* A trail keeps what is required of it when a literal is assigned.
LEMMA Extended ==
    ASSUME UNCHANGED <<formula, question>>, Searching' => Searching,
           NEW t \in Seq(Entry), Ordered(t), NEW l \in Lit, NEW c, c \subseteq Lit, NEW k \in Nat,
           \A i \in DOMAIN t : VarOf(t[i].lit) # VarOf(l) /\ t[i].level <= k,
           \A i \in DOMAIN t : t[i].level = 0 => FixedLit(t[i].lit),
           Searching => Justified(t, Given, As),
           k = 0 => FixedLit(l),
           Searching /\ k > 0 => NextLit(t, l, c, k),
           trail' = Assigned(t, l, c, k), high' = k
    PROVE  trail' \in Seq(Entry) /\ Levels' /\ Grounded' /\ Upper'
<1> DEFINE s == Assigned(t, l, c, k)
           n == Len(t) + 1
<1>1. Given' = Given /\ As' = As
  BY SameGiven
<1>2. /\ s \in Seq(Entry) /\ Ordered(s) /\ DOMAIN s = 1..n
      /\ \A i \in DOMAIN t : s[i] = t[i]
      /\ s[n] = [lit |-> l, reason |-> c, level |-> k]
  BY AppendOrdered
<1>3. trail' = s
  OBVIOUS
<1> HIDE DEF s
<1>4. s[n].lit = l /\ s[n].reason = c /\ s[n].level = k
  BY <1>2
<1>5. /\ Len(t) \in Nat /\ DOMAIN t = 1..Len(t) /\ n \in Nat
      /\ \A i \in DOMAIN t : t[i].level \in Nat
  BY Trails
<1>6. \A i \in DOMAIN s : i \in DOMAIN t \/ i = n
  BY <1>2, <1>5
<1>7. \A i \in 1..(n - 1) : i \in DOMAIN t
  BY <1>5
<1>8. \A i \in DOMAIN t : i \in 1..(n - 1) /\ i \in DOMAIN s
  BY <1>2, <1>5
<1> HIDE DEF n
<1>9. \A i \in DOMAIN s : s[i].level <= k
  BY <1>2, <1>4, <1>6
<1>10. Levels'
  BY <1>2, <1>3, <1>9 DEF Levels
<1>11. \A i \in DOMAIN s : s[i].level = 0 => FixedLit(s[i].lit)
  BY <1>2, <1>4, <1>6
<1>12. Grounded'
  BY <1>1, <1>3, <1>11 DEF Grounded, FixedLit
<1>13. ASSUME Searching, NEW i \in DOMAIN s, s[i].level > 0 PROVE JustifiedAt(s, i, Given, As)
  <2>1. CASE i \in DOMAIN t
    <3>1. JustifiedAt(t, i, Given, As)
      BY <1>2, <1>13, <2>1 DEF Justified
    <3>2. \A j \in 1..i : j \in DOMAIN t
      BY <1>5, <2>1
    <3> QED
      BY <1>2, <2>1, <3>1, <3>2, JustifiedPrefix
  <2>2. CASE i = n
    <3>1. NextLit(t, l, c, k)
      BY <1>4, <1>13, <2>2
    <3>2. CASE c = {}
      <4>1. \A j \in 1..(n - 1) : s[j].level < s[n].level
        BY <1>2, <1>4, <1>7, <3>1, <3>2 DEF NextLit
      <4> QED
        BY <1>4, <2>2, <3>1, <3>2, <4>1 DEF NextLit, JustifiedAt
    <3>3. CASE c # {}
      <4>1. \A m \in c \ {l} : \E j \in 1..(n - 1) : s[j].lit = -m
        BY <1>2, <1>8, <3>1, <3>3 DEF NextLit
      <4> QED
        BY <1>4, <2>2, <3>1, <3>3, <4>1 DEF NextLit, JustifiedAt
    <3> QED
      BY <3>2, <3>3
  <2> QED
    BY <1>6, <2>1, <2>2
<1>14. Upper'
  BY <1>1, <1>3, <1>13 DEF Upper, Justified
<1> QED
  BY <1>2, <1>3, <1>10, <1>12, <1>14

-----------------------------------------------------------------------------
(***************************************************************************)
(* Propagation.                                                            *)
(***************************************************************************)

\* Above level 0 nothing is propagated but for the running question.
LEMMA AboveSearching ==
    ASSUME TypeOK, Control, pc = "propagate", high > 0,
           walk # 0 \/ ~(propagated >= Len(trail))
    PROVE  Searching /\ then = "search" /\ ~Starting
<1>1. then \in {"idle", "start", "eq", "search"} /\ high # 0
  BY DEF TypeOK
<1>2. ~Starting /\ then # "idle" /\ then # "eq"
  BY <1>1 DEF Control
<1> QED
  BY <1>1, <1>2 DEF Searching, Starting

\* The step of propagate that assigns the literal of a unit clause.
LEMMA PropUnitKeeps == ASSUME IInv, PropUnit PROVE IInv'
<1> USE DEF IInv
<1>1. PICK c \in Clauses : \E l \in c : UnitOf(c, l) /\ trail' = Assigned(trail, l, c, high)
  BY DEF PropUnit
<1>2. PICK l \in c : UnitOf(c, l) /\ trail' = Assigned(trail, l, c, high)
  BY <1>1
<1>3. /\ pc = "propagate" /\ walk # 0
      /\ UNCHANGED <<user, formula, trans, lemmas, learnt, temporary, high, propagated, walk,
                     rep, question, restarts, conf, trivial_unsat, domain, fixed, queue, ans,
                     unsat_core, pc, then>>
  BY DEF PropUnit, Propagating, db, domains, simps, search, answers, history
<1>4. c \subseteq Lit \ {Act} /\ l \in Lit
  BY ClausesType
<1>5. trail \in Seq(Entry) /\ Ordered(trail) /\ high \in Nat
  BY DEF TypeOK, Levels
<1>6. \A i \in DOMAIN trail : VarOf(trail[i].lit) # VarOf(l) /\ trail[i].level <= high
  BY <1>2, <1>4, <1>5, UnassignedIs DEF UnitOf, Levels
<1>7. high > 0 => Searching /\ ~Starting
  BY <1>3, AboveSearching
<1>8. \A i \in DOMAIN trail : trail[i].level = 0 => FixedLit(trail[i].lit)
  BY DEF Grounded, FixedLit
<1>9. high = 0 => FixedLit(l)
  BY <1>2, UnitGround DEF FixedLit
<1>10. Entails(Given, c) \/ Stale
  <2>1. formula \subseteq Given
    BY DEF Given
  <2>2. c \in temporary \/ Entails(formula, c)
    BY DEF Clauses, Database
  <2> QED
    BY <2>1, <2>2, EntailsMore DEF Database
<1>11. Searching /\ high > 0 => NextLit(trail, l, c, high)
  <2>1. \A m \in c \ {l} : \E i \in DOMAIN trail : trail[i].lit = -m
    BY <1>2, FalsePos DEF UnitOf
  <2>2. Searching => ~Stale
    BY DEF Stale, Searching, Starting
  <2> QED
    BY <1>4, <1>10, <2>1, <2>2 DEF NextLit
<1>12. (Searching' <=> Searching) /\ (Stale' <=> Stale) /\ Given' = Given
  BY <1>3, SameGiven DEF Searching, Stale, Starting
<1>13. trail' \in Seq(Entry) /\ Levels' /\ Grounded' /\ Upper'
  <2>1. c \subseteq Lit
    BY <1>4
  <2>2. UNCHANGED <<formula, question>> /\ high' = high
    BY <1>3
  <2>3. Searching => Justified(trail, Given, As)
    BY DEF Upper
  <2> QED
    BY <1>2, <1>4, <1>5, <1>6, <1>8, <1>9, <1>11, <1>12, <2>1, <2>2, <2>3, Extended
<1>14. TypeOK'
  BY <1>3, <1>13 DEF TypeOK
<1>15. Control'
  BY <1>3, <1>7 DEF Control, Starting, Searching
<1>16. Database' /\ Represented'
  BY <1>3, <1>12 DEF Database, Represented
<1>17. Analysis' /\ CoreRight'
  BY <1>3, <1>12 DEF Analysis, CoreRight, Refutes
<1> QED
  BY <1>13, <1>14, <1>15, <1>16, <1>17

\* The step of propagate to the next literal's watch lists.
LEMMA PropWalkKeeps == ASSUME IInv, PropWalk PROVE IInv'
<1> USE DEF IInv
<1>1. /\ pc = "propagate" /\ propagated < Len(trail) /\ propagated' = propagated + 1
      /\ UNCHANGED <<user, formula, trans, lemmas, learnt, temporary, trail, high,
                     rep, question, restarts, conf, trivial_unsat, domain, fixed, queue, ans,
                     unsat_core, pc, then>>
  BY DEF PropWalk, Propagating, db, domains, simps, search, answers, history
<1>2. ~(propagated >= Len(trail)) /\ propagated' \in Nat
  BY <1>1, LenProperties DEF TypeOK
<1>3. high > 0 => Searching /\ ~Starting
  BY <1>1, <1>2, AboveSearching
<1>4. (Searching' <=> Searching) /\ (Stale' <=> Stale) /\ Given' = Given
  BY <1>1, SameGiven DEF Searching, Stale, Starting
<1>5. Levels' /\ Grounded' /\ Upper' /\ Database' /\ Represented'
  BY <1>1, <1>4, Quiet
<1>6. TypeOK'
  BY <1>1, <1>2 DEF TypeOK
<1>7. Control'
  BY <1>1, <1>3 DEF Control, Starting, Searching
<1>8. Analysis' /\ CoreRight'
  BY <1>1, <1>4 DEF Analysis, CoreRight, Refutes
<1> QED
  BY <1>5, <1>6, <1>7, <1>8

\* The end of propagation, where the call goes on.
LEMMA PropagatedKeeps == ASSUME IInv, Propagated PROVE IInv'
<1> USE DEF IInv
<1>1. /\ pc = "propagate" /\ propagated >= Len(trail) /\ walk' = 0 /\ pc' = then
      /\ UNCHANGED <<user, formula, trans, lemmas, learnt, temporary, trail, high, propagated,
                     rep, question, restarts, conf, trivial_unsat, domain, fixed, queue, ans,
                     unsat_core, then>>
  BY DEF Propagated, Propagating, db, assigns, domains, simps, search, answers, history
<1>2. then \in {"idle", "start", "eq", "search"}
  BY DEF TypeOK
<1>3. (Searching' <=> Searching) /\ (Stale' <=> Stale) /\ Given' = Given
  BY <1>1, <1>2, SameGiven DEF Searching, Stale, Starting
<1>4. Levels' /\ Grounded' /\ Upper' /\ Database' /\ Represented'
  BY <1>1, <1>3, Quiet
<1>5. TypeOK'
  BY <1>1, <1>2 DEF TypeOK
<1>6. Control'
  BY <1>1, <1>2, <1>3 DEF Control, Starting, Searching
<1>7. Analysis' /\ CoreRight'
  BY <1>1, <1>2, <1>3 DEF Analysis, CoreRight, Refutes
<1> QED
  BY <1>4, <1>5, <1>6, <1>7

\* Of a clause that is false, the literals at level 0 are false for good.
LEMMA AboveGroundIs ==
    ASSUME TypeOK, Levels, Grounded, NEW d, d \subseteq Lit \ {Act}, \A l \in d : False(l)
    PROVE  /\ AboveGround(d) \subseteq d
           /\ \A l \in d \ AboveGround(d) : Entails(Given, {-l})
           /\ \A l \in AboveGround(d) :
                  \E k \in DOMAIN trail : trail[k].lit = -l /\ trail[k].level > 0
<1>1. trail \in Seq(Entry) /\ Ordered(trail) /\ formula \subseteq Given
  BY DEF TypeOK, Levels, Given
<1>2. ASSUME NEW l \in d
      PROVE  \E k \in DOMAIN trail : /\ trail[k].lit = -l /\ LevelOf(l) = trail[k].level
                                     /\ trail[k].level \in Nat
  <2>1. PICK k \in DOMAIN trail : trail[k].lit = -l
    BY FalsePos
  <2>2. LevelOf(l) = trail[k].level
    BY <1>1, <2>1, FalseAt
  <2> QED
    BY <1>1, <2>1, <2>2, Trails
<1>3. ASSUME NEW l \in d \ AboveGround(d) PROVE Entails(Given, {-l})
  <2>1. PICK k \in DOMAIN trail : /\ trail[k].lit = -l /\ LevelOf(l) = trail[k].level
                                  /\ trail[k].level \in Nat
    BY <1>2
  <2>2. trail[k].level = 0
    BY <2>1 DEF AboveGround
  <2>3. Entails(formula, {-l})
    BY <2>1, <2>2, FalseGround
  <2> QED
    BY <1>1, <2>3, EntailsMore
<1>4. ASSUME NEW l \in AboveGround(d)
      PROVE  \E k \in DOMAIN trail : trail[k].lit = -l /\ trail[k].level > 0
  BY <1>2 DEF AboveGround
<1> QED
  BY <1>3, <1>4 DEF AboveGround

\* A conflict above level 0 is analyzed.
LEMMA ConflictAbove ==
    ASSUME TypeOK, Levels, Grounded, Database, ~Stale, NEW c \in Clauses, Falsified(c)
    PROVE  /\ AboveGround(c) \subseteq Lit \ {Act} /\ Entails(Given, AboveGround(c))
           /\ \A l \in AboveGround(c) :
                  \E k \in DOMAIN trail : trail[k].lit = -l /\ trail[k].level > 0
<1>1. c \subseteq Lit \ {Act} /\ c \subseteq Lit
  BY ClausesType
<1>2. Entails(Given, c)
  <2>1. formula \subseteq Given
    BY DEF Given
  <2>2. c \in temporary \/ Entails(formula, c)
    BY DEF Clauses, Database
  <2> QED
    BY <2>1, <2>2, EntailsMore DEF Database
<1> DEFINE d == AboveGround(c)
<1>3. /\ d \subseteq c
      /\ \A l \in c \ d : Entails(Given, {-l})
      /\ \A l \in d : \E k \in DOMAIN trail : trail[k].lit = -l /\ trail[k].level > 0
  BY <1>1, AboveGroundIs DEF Falsified
<1> HIDE DEF d
<1>4. Entails(Given, d)
  BY <1>1, <1>2, <1>3, LeftOut
<1> QED
  BY <1>1, <1>3, <1>4 DEF d

\* propagate has found a clause whose literals are all false.
LEMMA ConflictKeeps == ASSUME IInv, Conflict PROVE IInv'
<1> USE DEF IInv
<1>0. high \in Nat /\ (~(high > 0) <=> high = 0)
  BY DEF TypeOK
<1>1. PICK c \in Clauses :
         /\ Falsified(c)
         /\ \/ /\ then = "search" /\ high > 0 /\ pc' = "analyze" /\ conf' = AboveGround(c)
               /\ UNCHANGED <<trivial_unsat, ans, unsat_core>>
            \/ /\ then = "search" /\ ~(high > 0) /\ pc' = "idle" /\ ans' = "unsat"
               /\ unsat_core' = {} /\ UNCHANGED <<trivial_unsat, conf>>
            \/ /\ then = "start" /\ pc' = "idle" /\ ans' = "unsat" /\ unsat_core' = {}
               /\ trivial_unsat' = TRUE /\ UNCHANGED conf
            \/ /\ then \notin {"search", "start"} /\ pc' = then /\ trivial_unsat' = TRUE
               /\ UNCHANGED <<conf, ans, unsat_core>>
  BY <1>0, Zenon DEF Conflict, Refute, answers
<1>2. /\ pc = "propagate" /\ walk # 0 /\ walk' = 0
      /\ UNCHANGED <<user, formula, trans, lemmas, learnt, temporary, trail, high, propagated,
                     rep, question, restarts, domain, fixed, queue, then>>
  BY DEF Conflict, Propagating, db, assigns, domains, simps, history
<1>3. high > 0 => Searching /\ then = "search" /\ ~Starting
  BY <1>2, AboveSearching
<1>4. then \in {"idle", "start", "eq", "search"} /\ high \in Nat
  BY DEF TypeOK
<1>5. Given' = Given
  BY <1>2, SameGiven
<1>6. CASE then = "search" /\ high > 0 /\ pc' = "analyze"
  <2>1. /\ conf' = AboveGround(c) /\ UNCHANGED <<trivial_unsat, ans, unsat_core>>
    BY <1>1, <1>6
  <2>2. Searching /\ Searching' /\ ~Stale /\ ~Stale'
    BY <1>2, <1>6 DEF Searching, Stale, Starting
  <2>3. /\ conf' \subseteq Lit \ {Act} /\ Entails(Given, conf')
        /\ \A l \in conf' : \E k \in DOMAIN trail : trail[k].lit = -l /\ trail[k].level > 0
    BY <1>1, <2>1, <2>2, ConflictAbove
  <2>4. Levels' /\ Grounded' /\ Upper' /\ Database' /\ Represented'
    BY <1>2, <2>1, <2>2, Quiet
  <2>5. TypeOK'
    BY <1>2, <1>6, <2>1, <2>3 DEF TypeOK
  <2>6. ans = "asked"
    BY <2>2 DEF Control
  <2>7. Control'
    BY <1>2, <1>6, <2>1, <2>6 DEF Control, Starting, Searching
  <2>8. Analysis'
    BY <1>2, <1>5, <2>3 DEF Analysis
  <2>9. CoreRight'
    BY <2>1, <2>6 DEF CoreRight
  <2> QED
    BY <2>4, <2>5, <2>7, <2>8, <2>9
<1>7. CASE ~(then = "search" /\ high > 0)
  <2>1. high = 0
    BY <1>3, <1>4, <1>7
  <2>2. Entails(formula, {})
    BY <1>1, <2>1, ConflictGround
  <2>3. /\ \/ pc' = "idle" /\ ans' = "unsat" /\ unsat_core' = {}
           \/ then \in {"idle", "eq"} /\ pc' = then /\ UNCHANGED <<ans, unsat_core>>
        /\ UNCHANGED conf
    BY <1>1, <1>4, <1>7
  <2>4. ans = "asked" <=> then # "idle"
    BY <1>2, <1>4 DEF Control, Starting, Searching
  <2>5. Searching' => Searching
    BY <1>2, <2>3 DEF Searching
  <2>6. Levels' /\ Grounded' /\ Upper'
    BY <1>2, <2>5, SameTrail
  <2>7. TypeOK'
    BY <1>2, <2>3 DEF TypeOK
  <2>8. Control'
    <3>1. CASE pc' = "idle" /\ ans' = "unsat"
      BY <1>2, <2>1, <3>1 DEF Control, Starting, Searching
    <3>2. CASE then \in {"idle", "eq"} /\ pc' = then /\ UNCHANGED ans
      BY <1>2, <2>1, <2>4, <3>2 DEF Control, Starting, Searching
    <3> QED
      BY <2>3, <3>1, <3>2
  <2>9. Database'
    <3>1. \A d : Entails(Given, d)
      BY <2>2 DEF Entails, Holds, Given
    <3> QED
      BY <1>2, <1>5, <2>2, <3>1 DEF Database
  <2>10. Represented' /\ Analysis'
    BY <1>2, <2>3 DEF Represented, Analysis
  <2>11. CoreRight'
    <3>1. CASE unsat_core' = {}
      BY <1>2, <2>2, <3>1, EmptyCore
    <3>2. CASE UNCHANGED <<ans, unsat_core>>
      BY <1>2, <3>2 DEF CoreRight, Refutes
    <3> QED
      BY <2>3, <3>1, <3>2
  <2> QED
    BY <2>6, <2>7, <2>8, <2>9, <2>10, <2>11
<1> QED
  BY <1>1, <1>6, <1>7

-----------------------------------------------------------------------------
(***************************************************************************)
(* Analysis of a conflict.                                                 *)
(***************************************************************************)

\* Where the literals of the clause that is resolved were made false.
LEMMA ConfAt ==
    ASSUME TypeOK, Levels, Analysis, pc = "analyze", NEW l \in conf
    PROVE  \E k \in DOMAIN trail :
               /\ trail[k].lit = -l /\ trail[k].level > 0 /\ trail[k].level <= high
               /\ PosOf(-l) = k /\ LevelOf(l) = trail[k].level
               /\ l \in Top <=> trail[k].level = high
<1>1. trail \in Seq(Entry) /\ Ordered(trail) /\ high \in Nat /\ conf \subseteq Lit
  BY DEF TypeOK, Levels
<1>2. PICK k \in DOMAIN trail : trail[k].lit = -l /\ trail[k].level > 0
  BY DEF Analysis
<1>3. PosOf(-l) = k /\ LevelOf(l) = trail[k].level
  BY <1>1, <1>2, FalseAt
<1>4. trail[k].level <= high /\ trail[k].level \in Nat
  BY <1>1, Trails DEF Levels
<1>5. l \in Top <=> trail[k].level = high
  BY <1>1, <1>3, <1>4 DEF Top
<1> QED
  BY <1>2, <1>3, <1>4, <1>5

\* Of the literals of the highest level, Last was made false last.
LEMMA LastIs ==
    ASSUME TypeOK, Levels, Analysis, pc = "analyze", Top # {}
    PROVE  /\ Last \in Top
           /\ \E k \in DOMAIN trail :
                  /\ trail[k].lit = -Last /\ trail[k].level = high /\ PosOf(-Last) = k
                  /\ \A m \in Top \ {Last} :
                         \E j \in 1..(k - 1) : trail[j].lit = -m /\ trail[j].level = high
<1>1. trail \in Seq(Entry) /\ conf \subseteq Lit
  BY DEF TypeOK
<1>2. Len(trail) \in Nat /\ DOMAIN trail = 1..Len(trail)
  BY <1>1, Trails
<1>3. \A m \in Top : m \in conf /\ m \in Lit
  BY <1>1 DEF Top
<1>4. \A m \in Top : /\ PosOf(-m) \in DOMAIN trail /\ trail[PosOf(-m)].lit = -m
                     /\ trail[PosOf(-m)].level = high
  BY <1>3, ConfAt
<1> DEFINE f == [m \in Top |-> PosOf(-m)]
<1>5. f \in [Top -> Nat] /\ \A m \in Top : f[m] <= Len(trail)
  BY <1>2, <1>4
<1>6. \E l \in Top : \A m \in Top : f[m] <= f[l]
  <2> HIDE DEF f
  <2> QED
    BY <1>2, <1>5, GreatestValue
<1>7. Last \in Top /\ \A m \in Top : PosOf(-m) <= PosOf(-Last)
  BY <1>6 DEF Last
<1> HIDE DEF f
<1> DEFINE k == PosOf(-Last)
<1>8. k \in DOMAIN trail /\ trail[k].lit = -Last /\ trail[k].level = high
  BY <1>4, <1>7
<1>9. ASSUME NEW m \in Top \ {Last}
      PROVE  \E j \in 1..(k - 1) : trail[j].lit = -m /\ trail[j].level = high
  <2>1. -m # -Last
    BY <1>3, <1>7, LitType
  <2>2. PosOf(-m) \in DOMAIN trail /\ PosOf(-m) # k /\ PosOf(-m) <= k
    BY <1>4, <1>7, <1>8, <2>1
  <2>3. PosOf(-m) \in 1..(k - 1)
    BY <1>2, <1>8, <2>2
  <2> QED
    BY <1>4, <2>3
<1> QED
  BY <1>7, <1>8, <1>9

\* One of several literals of the highest level has a reason to be resolved with.
LEMMA LastReason ==
    ASSUME TypeOK, Control, Levels, Upper, Analysis, pc = "analyze", Cardinality(Top) > 1
    PROVE  LET r == trail[PosOf(-Last)].reason IN
           /\ Last \in Top /\ -Last \in r /\ r \subseteq Lit \ {Act} /\ Entails(Given, r)
           /\ Last \notin r
           /\ \A l \in r \ {-Last} : False(l)
<1>1. Top # {} /\ \E m \in Top : m # Last
  <2>1. Cardinality({}) = 0
    BY FS_EmptySet
  <2>2. Cardinality({Last}) = 1
    BY FS_Singleton
  <2>3. Top # {} /\ Top # {Last}
    BY <2>1, <2>2
  <2> QED
    BY <2>3
<1>2. Last \in Top /\ Last \in Lit
  BY <1>1, LastIs DEF TypeOK, Top
<1>3. PICK k \in DOMAIN trail :
         /\ trail[k].lit = -Last /\ trail[k].level = high /\ PosOf(-Last) = k
         /\ \A m \in Top \ {Last} :
                \E j \in 1..(k - 1) : trail[j].lit = -m /\ trail[j].level = high
  BY <1>1, LastIs
<1>4. trail \in Seq(Entry) /\ Ordered(trail) /\ high > 0 /\ high \in Nat
  BY DEF TypeOK, Levels, Control
<1>5. JustifiedAt(trail, k, Given, As)
  BY <1>3, <1>4 DEF Upper, Searching, Justified
<1>6. trail[k].reason # {}
  <2>1. PICK j \in 1..(k - 1) : trail[j].level = high
    BY <1>1, <1>3
  <2>2. ~(trail[j].level < trail[k].level)
    BY <1>3, <1>4, <2>1
  <2> QED
    BY <1>5, <2>2 DEF JustifiedAt
<1> DEFINE r == trail[k].reason
<1>7. /\ -Last \in r /\ Act \notin r /\ Entails(Given, r) /\ r \subseteq Lit
      /\ \A l \in r \ {-Last} : \E i \in 1..(k - 1) : trail[i].lit = -l
  BY <1>3, <1>4, <1>5, <1>6, Trails DEF JustifiedAt
<1>8. \A i \in 1..(k - 1) : i \in DOMAIN trail /\ i # k
  BY <1>4, Trails
<1> HIDE DEF r
<1>9. \A l \in r \ {-Last} : False(l)
  BY <1>7, <1>8 DEF False, LitsOf
<1>10. Last \notin r
  <2> SUFFICES ASSUME Last \in r PROVE FALSE
    OBVIOUS
  <2>1. Last # -Last
    BY <1>2, LitType
  <2>2. PICK i \in 1..(k - 1) : trail[i].lit = -Last
    BY <1>7, <2>1
  <2> QED
    BY <1>3, <1>4, <1>8, <2>2 DEF Ordered
<1> QED
  BY <1>2, <1>3, <1>7, <1>9, <1>10 DEF r

\* A resolution of the clause with the reason of its last literal.
LEMMA ResolveKeeps == ASSUME IInv, Resolve PROVE IInv'
<1> USE DEF IInv
<1> DEFINE r == trail[PosOf(-Last)].reason
           d == r \ {-Last}
           e == (conf \cup d) \ {Last}
           g == (conf \cup AboveGround(d)) \ {Last}
<1>1. /\ pc = "analyze" /\ Cardinality(Top) > 1 /\ conf' = g
      /\ UNCHANGED <<user, formula, trans, lemmas, learnt, temporary, trail, high, propagated,
                     walk, rep, question, restarts, trivial_unsat, domain, fixed, queue, ans,
                     unsat_core, pc, then>>
  BY DEF Resolve, db, assigns, domains, simps, answers, history
<1>2. /\ Last \in Top /\ -Last \in r /\ r \subseteq Lit \ {Act} /\ Entails(Given, r)
      /\ Last \notin r
      /\ \A l \in r \ {-Last} : False(l)
  BY <1>1, LastReason
<1>3. conf \subseteq Lit \ {Act} /\ Last \in conf /\ Entails(Given, conf)
  BY <1>1, <1>2 DEF TypeOK, Top, Analysis
<1> HIDE DEF r
<1>4. d \subseteq Lit \ {Act} /\ \A l \in d : False(l)
  BY <1>2
<1>5. Entails(Given, e)
  <2> SUFFICES ASSUME NEW m \in CircuitModels, \A c \in Given : Holds(c, m) PROVE Holds(e, m)
    BY DEF Entails
  <2>1. PICK x \in conf : x \in m
    BY <1>3 DEF Entails, Holds
  <2>2. PICK y \in r : y \in m
    BY <1>2 DEF Entails, Holds
  <2>3. CASE x # Last
    BY <2>1, <2>3 DEF Holds
  <2>4. CASE x = Last
    <3>1. -Last \notin m
      BY <1>3, <2>1, <2>4, AssignmentType DEF CircuitModels
    <3>2. y \in e
      BY <1>2, <2>2, <3>1
    <3> QED
      BY <2>2, <3>2 DEF Holds
  <2> QED
    BY <2>3, <2>4
<1> HIDE DEF d
<1>6. /\ AboveGround(d) \subseteq d
      /\ \A l \in d \ AboveGround(d) : Entails(Given, {-l})
      /\ \A l \in AboveGround(d) :
             \E k \in DOMAIN trail : trail[k].lit = -l /\ trail[k].level > 0
  BY <1>4, AboveGroundIs
<1>7. Entails(Given, g)
  <2>1. e \subseteq Lit
    BY <1>3, <1>4
  <2>2. \A l \in e \ g : Entails(Given, {-l})
    BY <1>6
  <2> HIDE DEF e, g
  <2> QED
    BY <1>5, <2>1, <2>2, LeftOut
<1>8. g \subseteq Lit \ {Act}
  BY <1>3, <1>4, <1>6
<1>9. \A l \in g : \E k \in DOMAIN trail : trail[k].lit = -l /\ trail[k].level > 0
  BY <1>1, <1>6 DEF Analysis
<1> HIDE DEF e, g
<1>10. (Searching' <=> Searching) /\ (Stale' <=> Stale) /\ Given' = Given
  BY <1>1, SameGiven DEF Searching, Stale, Starting
<1>11. Levels' /\ Grounded' /\ Upper' /\ Database' /\ Represented'
  BY <1>1, <1>10, Quiet
<1>12. TypeOK'
  BY <1>1, <1>8 DEF TypeOK
<1>13. Control'
  BY <1>1 DEF Control, Starting, Searching
<1>14. Analysis'
  BY <1>1, <1>7, <1>9, <1>10 DEF Analysis
<1>15. CoreRight'
  BY <1>1 DEF CoreRight, Refutes
<1> QED
  BY <1>11, <1>12, <1>13, <1>14, <1>15

\* A monotone function on the subsets of a set has a fixed point.
LEMMA FixedPoint ==
    ASSUME NEW D, NEW B \in [SUBSET D -> SUBSET D],
           \A X, Y \in SUBSET D : X \subseteq Y => B[X] \subseteq B[Y]
    PROVE  \E L \in SUBSET D : B[L] = L
<1> DEFINE L == {i \in D : \A X \in SUBSET D : B[X] \subseteq X => i \in X}
<1>1. L \in SUBSET D
  OBVIOUS
<1>2. \A X \in SUBSET D : B[X] \subseteq X => L \subseteq X
  OBVIOUS
<1>3. \A i \in D : (\A X \in SUBSET D : B[X] \subseteq X => i \in X) => i \in L
  OBVIOUS
<1> HIDE DEF L
<1>4. \A X \in SUBSET D : B[X] \subseteq X => B[L] \subseteq X
  BY <1>1, <1>2
<1>5. B[L] \subseteq L
  BY <1>1, <1>3, <1>4
<1>6. B[B[L]] \subseteq B[L]
  BY <1>1, <1>5
<1>7. L \subseteq B[L]
  BY <1>1, <1>2, <1>6
<1> QED
  BY <1>1, <1>5, <1>7

\* What minimal_learnt's recursion finds: the literals that go.
Goes == CHOOSE goes : goes = [i \in {j \in DOMAIN trail : trail[j].level > 0} |->
            /\ trail[i].reason # {}
            /\ \A l \in trail[i].reason \ {trail[i].lit} :
                   LevelOf(l) = 0 \/ l \in conf \ Top \/ goes[PosOf(-l)]]

\* Above level 0, a literal with a reason had the reason's other literals falsified before.
LEMMA ReasonAt ==
    ASSUME TypeOK, Levels, Upper, Searching,
           NEW i \in DOMAIN trail, trail[i].level > 0, trail[i].reason # {}
    PROVE  /\ Entails(Given, trail[i].reason) /\ trail[i].reason \subseteq Lit
           /\ \A l \in trail[i].reason \ {trail[i].lit} :
                  \E k \in DOMAIN trail : /\ k < i /\ trail[k].lit = -l /\ PosOf(-l) = k
                                          /\ LevelOf(l) = trail[k].level
<1>1. trail \in Seq(Entry) /\ Ordered(trail)
  BY DEF TypeOK, Levels
<1>2. JustifiedAt(trail, i, Given, As)
  BY DEF Upper, Justified
<1>3. /\ Entails(Given, trail[i].reason) /\ trail[i].reason \subseteq Lit
      /\ \A l \in trail[i].reason \ {trail[i].lit} : \E k \in 1..(i - 1) : trail[k].lit = -l
  BY <1>1, <1>2, Trails DEF JustifiedAt
<1>4. \A k \in 1..(i - 1) : k \in DOMAIN trail /\ k < i
  BY <1>1, Trails
<1>5. ASSUME NEW l \in trail[i].reason \ {trail[i].lit}
      PROVE  \E k \in DOMAIN trail : /\ k < i /\ trail[k].lit = -l /\ PosOf(-l) = k
                                     /\ LevelOf(l) = trail[k].level
  <2>1. PICK k \in 1..(i - 1) : trail[k].lit = -l
    BY <1>3
  <2>2. k \in DOMAIN trail /\ k < i /\ l \in Lit
    BY <1>3, <1>4
  <2>3. PosOf(-l) = k /\ LevelOf(l) = trail[k].level
    BY <1>1, <2>1, <2>2, FalseAt
  <2> QED
    BY <2>1, <2>2, <2>3
<1> QED
  BY <1>3, <1>5

\* The recursion is well defined: it only asks about what was assigned before.
LEMMA GoesIs ==
    ASSUME TypeOK, Levels, Upper, Searching
    PROVE  \A i \in DOMAIN trail : trail[i].level > 0 =>
               (Goes[i] <=>
                   /\ trail[i].reason # {}
                   /\ \A l \in trail[i].reason \ {trail[i].lit} :
                          LevelOf(l) = 0 \/ l \in conf \ Top \/ Goes[PosOf(-l)])
<1> DEFINE D == {j \in DOMAIN trail : trail[j].level > 0}
           Stays(l) == LevelOf(l) = 0 \/ l \in conf \ Top
           Of(i) == trail[i].reason \ {trail[i].lit}
           F(f) == [i \in D |-> /\ trail[i].reason # {}
                                /\ \A l \in Of(i) : Stays(l) \/ f[PosOf(-l)]]
           B == [X \in SUBSET D |-> {i \in D : /\ trail[i].reason # {}
                                               /\ \A l \in Of(i) : Stays(l) \/ PosOf(-l) \in X}]
<1>1. ASSUME NEW i \in D, trail[i].reason # {}, NEW l \in Of(i), ~Stays(l)
      PROVE  PosOf(-l) \in D
  <2>1. PICK k \in DOMAIN trail : /\ k < i /\ trail[k].lit = -l /\ PosOf(-l) = k
                                  /\ LevelOf(l) = trail[k].level
    BY <1>1, ReasonAt
  <2>2. trail[k].level \in Nat /\ trail[k].level # 0
    BY <1>1, <2>1, Trails DEF TypeOK
  <2> QED
    BY <2>1, <2>2
<1>2. \A f : \A i \in D : F(f)[i] <=> /\ trail[i].reason # {}
                                      /\ \A l \in Of(i) : Stays(l) \/ f[PosOf(-l)]
  OBVIOUS
<1>3. B \in [SUBSET D -> SUBSET D]
  OBVIOUS
<1>4. \A X, Y \in SUBSET D : X \subseteq Y => B[X] \subseteq B[Y]
  OBVIOUS
<1>5. PICK L \in SUBSET D : B[L] = L
  <2> HIDE DEF B, D
  <2> QED
    BY <1>3, <1>4, FixedPoint
<1> DEFINE f == [i \in D |-> i \in L]
<1>6. f = F(f)
  <2>1. ASSUME NEW i \in D PROVE f[i] = F(f)[i]
    <3>1. i \in L <=> /\ trail[i].reason # {}
                      /\ \A l \in Of(i) : Stays(l) \/ PosOf(-l) \in L
      BY <1>5
    <3>2. ASSUME trail[i].reason # {}, NEW l \in Of(i)
          PROVE  Stays(l) \/ PosOf(-l) \in L <=> Stays(l) \/ f[PosOf(-l)]
      <4>1. Stays(l) \/ PosOf(-l) \in D
        BY <1>1, <3>2
      <4> HIDE DEF D, Stays
      <4> QED
        BY <4>1
    <3> HIDE DEF Stays, Of, D
    <3>3. i \in L <=> /\ trail[i].reason # {}
                      /\ \A l \in Of(i) : Stays(l) \/ f[PosOf(-l)]
      <4> HIDE DEF f
      <4> QED
        BY <3>1, <3>2
    <3> DEFINE R == /\ trail[i].reason # {}
                    /\ \A l \in Of(i) : Stays(l) \/ f[PosOf(-l)]
    <3>4. f[i] = (i \in L) /\ F(f)[i] = R
      OBVIOUS
    <3>5. (i \in L <=> R) /\ R \in BOOLEAN /\ (i \in L) \in BOOLEAN
      BY <3>3
    <3> HIDE DEF F, f, R
    <3>6. (i \in L) = R
      BY <3>5
    <3> QED
      BY <3>4, <3>6
  <2> HIDE DEF D, Stays, Of
  <2> QED
    BY <2>1
<1>7. Goes = F(Goes)
  <2>1. Goes = CHOOSE g : g = F(g)
    BY DEF Goes
  <2> HIDE DEF F, f
  <2> QED
    BY <1>6, <2>1
<1> HIDE DEF F
<1>8. \A i \in D : Goes[i] <=> /\ trail[i].reason # {}
                               /\ \A l \in Of(i) : Stays(l) \/ Goes[PosOf(-l)]
  BY <1>2, <1>7
<1> QED
  BY <1>8

\* The clause that is learnt follows from the one that was resolved.
LEMMA MinimalIs ==
    ASSUME TypeOK, Levels, Grounded, Upper, Analysis, pc = "analyze"
    PROVE  /\ Top \subseteq Minimal /\ Minimal \subseteq conf
           /\ Entails(Given, Minimal)
<1>1. /\ trail \in Seq(Entry) /\ Ordered(trail) /\ DOMAIN trail \subseteq Nat
      /\ conf \subseteq Lit /\ Entails(Given, conf) /\ Searching
  BY Trails DEF TypeOK, Levels, Analysis, Searching
<1>2. Minimal = Top \cup {l \in conf \ Top : ~Goes[PosOf(-l)]}
  BY DEF Minimal, Goes
<1>3. Top \subseteq Minimal /\ Minimal \subseteq conf
  BY <1>2 DEF Top
<1>4. \A l \in conf : l \in Minimal \/ Goes[PosOf(-l)]
  BY <1>2
<1>5. ASSUME NEW m \in CircuitModels, \A c \in Given : Holds(c, m) PROVE Holds(Minimal, m)
  <2> SUFFICES ASSUME ~Holds(Minimal, m) PROVE FALSE
    OBVIOUS
  <2> DEFINE W == {i \in DOMAIN trail : trail[i].level > 0 /\ Goes[i] /\ trail[i].lit \notin m}
  <2>1. \A l \in Minimal : l \notin m
    BY DEF Holds
  <2>2. \A l \in Lit : l \in m => -l \notin m
    BY AssignmentType DEF CircuitModels
  <2>3. ASSUME W # {} PROVE FALSE
    <3>1. W \subseteq Nat
      BY <1>1
    <3> HIDE DEF W
    <3>2. PICK i \in W : \A j \in W : i <= j
      BY <2>3, <3>1, LeastNumber
    <3> USE DEF W
    <3>3. i \in DOMAIN trail /\ trail[i].level > 0 /\ Goes[i] /\ trail[i].lit \notin m
      OBVIOUS
    <3>4. /\ trail[i].reason # {}
          /\ \A l \in trail[i].reason \ {trail[i].lit} :
                 LevelOf(l) = 0 \/ l \in conf \ Top \/ Goes[PosOf(-l)]
      BY <1>1, <3>3, GoesIs
    <3>5. /\ Entails(Given, trail[i].reason) /\ trail[i].reason \subseteq Lit
          /\ \A l \in trail[i].reason \ {trail[i].lit} :
                 \E k \in DOMAIN trail : /\ k < i /\ trail[k].lit = -l /\ PosOf(-l) = k
                                         /\ LevelOf(l) = trail[k].level
      BY <1>1, <3>3, <3>4, ReasonAt
    <3>6. PICK y \in trail[i].reason : y \in m
      BY <1>5, <3>5 DEF Entails, Holds
    <3>7. PICK k \in DOMAIN trail : /\ k < i /\ trail[k].lit = -y /\ PosOf(-y) = k
                                    /\ LevelOf(y) = trail[k].level
      BY <3>3, <3>5, <3>6
    <3>8. LevelOf(y) = 0 \/ y \in conf \ Top \/ Goes[PosOf(-y)]
      BY <3>3, <3>4, <3>6
    <3>9. y \in Lit /\ -y \notin m /\ trail[k].level \in Nat
      BY <1>1, <2>2, <3>5, <3>6, Trails
    <3>10. CASE trail[k].level = 0
      <4>1. Entails(Given, {-y})
        BY <1>1, <3>7, <3>10 DEF Grounded
      <4> QED
        BY <1>5, <3>9, <4>1 DEF Entails, Holds
    <3>11. CASE trail[k].level # 0
      <4>1. Goes[k]
        BY <1>4, <2>1, <3>6, <3>7, <3>8, <3>11
      <4>2. trail[k].level > 0 /\ ~(i <= k)
        BY <1>1, <3>7, <3>9, <3>11
      <4>3. k \in W
        BY <3>7, <3>9, <4>1, <4>2
      <4> QED
        BY <3>2, <4>2, <4>3
    <3> QED
      BY <3>10, <3>11
  <2>4. PICK x \in conf : x \in m
    BY <1>1, <1>5 DEF Entails, Holds
  <2>5. PICK k \in DOMAIN trail : trail[k].lit = -x /\ trail[k].level > 0 /\ PosOf(-x) = k
    BY ConfAt
  <2>6. Goes[k]
    BY <1>4, <2>1, <2>4, <2>5
  <2>7. -x \notin m
    BY <1>1, <2>2, <2>4
  <2>8. k \in W
    BY <2>5, <2>6, <2>7
  <2> QED
    BY <2>3, <2>8
<1>6. Entails(Given, Minimal)
  BY <1>5 DEF Entails
<1> QED
  BY <1>3, <1>6

\* The level that is gone back to, the highest one of the other literals.
LEMMA MaxLevelIs ==
    ASSUME TypeOK, Control, Levels, Analysis, pc = "analyze", NEW c, c \subseteq conf \ Top
    PROVE  /\ MaxLevel(c) \in Nat /\ MaxLevel(c) < high
           /\ MaxLevel(c) = 0 <=> c = {}
           /\ \A l \in c :
                  \E k \in DOMAIN trail : trail[k].lit = -l /\ trail[k].level <= MaxLevel(c)
<1>1. high \in Nat /\ high > 0 /\ trail \in Seq(Entry)
  BY DEF TypeOK, Control
<1>2. ASSUME NEW l \in c
      PROVE  \E k \in DOMAIN trail : /\ trail[k].lit = -l /\ LevelOf(l) = trail[k].level
                                     /\ LevelOf(l) \in Nat /\ 0 < LevelOf(l) /\ LevelOf(l) < high
  <2>1. PICK k \in DOMAIN trail :
            /\ trail[k].lit = -l /\ trail[k].level > 0 /\ trail[k].level <= high
            /\ LevelOf(l) = trail[k].level
            /\ l \in Top <=> trail[k].level = high
    BY ConfAt
  <2>2. trail[k].level \in Nat /\ trail[k].level # high
    BY <1>1, <2>1, Trails
  <2> QED
    BY <1>1, <2>1, <2>2
<1>3. CASE c = {}
  BY <1>1, <1>3 DEF MaxLevel
<1>4. CASE c # {}
  <2> DEFINE f == [l \in c |-> LevelOf(l)]
  <2>1. f \in [c -> Nat] /\ \A l \in c : f[l] <= high
    BY <1>1, <1>2
  <2>2. \E x \in c : \A y \in c : f[y] <= f[x]
    <3> HIDE DEF f
    <3> QED
      BY <1>1, <1>4, <2>1, GreatestValue
  <2>3. \E l \in c : \A m \in c : LevelOf(m) <= LevelOf(l)
    BY <2>2
  <2> DEFINE x == CHOOSE l \in c : \A m \in c : LevelOf(m) <= LevelOf(l)
  <2>4. x \in c /\ \A m \in c : LevelOf(m) <= LevelOf(x)
    BY <2>3
  <2>5. MaxLevel(c) = LevelOf(x)
    BY <1>4 DEF MaxLevel
  <2> HIDE DEF x, f
  <2>6. LevelOf(x) \in Nat /\ 0 < LevelOf(x) /\ LevelOf(x) < high
    BY <1>2, <2>4
  <2>7. \A l \in c : \E k \in DOMAIN trail : trail[k].lit = -l /\ trail[k].level <= LevelOf(x)
    BY <1>2, <2>4
  <2> QED
    BY <1>4, <2>5, <2>6, <2>7
<1> QED
  BY <1>3, <1>4

\* What the steps that go back leave of the trail.
LEMMA BackTrail ==
    ASSUME TypeOK, Levels, Grounded, Upper, Searching, NEW k \in Nat
    PROVE  LET t == Upto(trail, k) IN
           /\ t \in Seq(Entry) /\ Ordered(t) /\ Len(t) <= PosInTrail(trail, k)
           /\ \A i \in DOMAIN t : i \in DOMAIN trail /\ t[i] = trail[i] /\ t[i].level <= k
           /\ \A i \in DOMAIN trail : trail[i].level <= k => i \in DOMAIN t
           /\ \A i \in DOMAIN t : t[i].level = 0 => FixedLit(t[i].lit)
           /\ Justified(t, Given, As)
           /\ PosInTrail(trail, k) \in Nat
<1> DEFINE t == Upto(trail, k)
<1>1. trail \in Seq(Entry) /\ Ordered(trail)
  BY DEF TypeOK, Levels
<1>2. /\ t \in Seq(Entry) /\ Len(t) = PosInTrail(trail, k)
      /\ \A i \in DOMAIN t : i \in DOMAIN trail /\ t[i] = trail[i] /\ trail[i].level <= k
      /\ \A i \in DOMAIN trail : trail[i].level <= k => i \in DOMAIN t
      /\ Ordered(t)
  BY <1>1, UptoIs
<1>3. Justified(t, Given, As)
  BY <1>1, JustifiedUpto DEF Upper
<1> HIDE DEF t
<1>4. \A i \in DOMAIN t : t[i].level = 0 => FixedLit(t[i].lit)
  BY <1>2 DEF Grounded, FixedLit
<1>5. Len(t) \in Nat
  BY <1>2, Trails
<1>6. PosInTrail(trail, k) \in Nat /\ Len(t) <= PosInTrail(trail, k)
  BY <1>2, <1>5
<1> QED
  BY <1>2, <1>3, <1>4, <1>6 DEF t

\* The search goes back, learns the clause and assigns the literal that it asserts.
LEMMA LearnKeeps == ASSUME IInv, Learn PROVE IInv'
<1> USE DEF IInv
<1> DEFINE c == Minimal
           b == MaxLevel(c \ Top)
           r == IF Cardinality(c) = 1 THEN {} ELSE c
           t == Upto(trail, b)
<1>1. /\ pc = "analyze" /\ Cardinality(Top) = 1 /\ pc' = "propagate" /\ conf' = {}
      /\ Back(b, Assigned(t, Last, r, b))
      /\ learnt' = IF Cardinality(c) > 1 /\ -Act \notin c THEN learnt \cup {c} ELSE learnt
      /\ temporary' = IF Cardinality(c) > 1 /\ -Act \in c THEN temporary \cup {c} ELSE temporary
      /\ UNCHANGED <<user, formula, trans, lemmas, walk, rep, question, restarts, trivial_unsat,
                     domain, fixed, ans, unsat_core, then>>
  BY DEF Learn, domains, simps, answers, history
<1>2. /\ high' = b /\ trail' = Assigned(t, Last, r, b)
      /\ propagated' = PosInTrail(trail, high') /\ queue' = queue \cup Popped(high')
  BY <1>1 DEF Back
<1>3. Searching /\ then = "search" /\ ans = "asked" /\ ~Stale
  BY <1>1 DEF Searching, Control, Stale, Starting
<1>4. Searching' /\ ~Stale'
  BY <1>1, <1>3 DEF Searching, Stale, Starting
<1>5. Given' = Given
  BY <1>1, SameGiven
<1>6. /\ Top \subseteq c /\ c \subseteq Lit \ {Act} /\ c \subseteq Lit /\ Entails(Given, c)
      /\ c \subseteq conf
  BY <1>1, MinimalIs DEF TypeOK
<1>7. Top = {Last}
  <2>1. Top \subseteq Lit
    BY <1>6
  <2>2. Top # {} /\ \A x, y \in Top : x = y
    BY <1>1, <2>1, ClauseFinite, FS_Singleton
  <2>3. Last \in Top
    BY <1>1, <2>2, LastIs
  <2> QED
    BY <2>2, <2>3
<1>8. PICK q \in DOMAIN trail : trail[q].lit = -Last /\ trail[q].level = high
  <2>1. Top # {}
    BY <1>7
  <2> QED
    BY <1>1, <2>1, LastIs
<1> HIDE DEF c
<1>9. Last \in c /\ Last \in Lit /\ Last # Act
  BY <1>6, <1>7
<1>10. /\ b \in Nat /\ b < high
       /\ b = 0 <=> c \ Top = {}
       /\ \A l \in c \ Top : \E k \in DOMAIN trail : trail[k].lit = -l /\ trail[k].level <= b
  <2>1. c \ Top \subseteq conf \ Top
    BY <1>6
  <2> QED
    BY <1>1, <2>1, MaxLevelIs
<1>11. Cardinality(c) = 1 <=> c = {Last}
  <2>1. IsFiniteSet(c) /\ Cardinality(c) \in Nat
    BY <1>6, ClauseFinite
  <2>2. Cardinality({Last}) = 1
    BY FS_Singleton
  <2> QED
    BY <1>9, <2>1, <2>2, FS_Singleton
<1>12. Cardinality(c) \in Nat
  BY <1>6, ClauseFinite
<1> HIDE DEF b
<1>13. /\ t \in Seq(Entry) /\ Ordered(t)
       /\ \A i \in DOMAIN t : i \in DOMAIN trail /\ t[i] = trail[i] /\ t[i].level <= b
       /\ \A i \in DOMAIN trail : trail[i].level <= b => i \in DOMAIN t
       /\ \A i \in DOMAIN t : t[i].level = 0 => FixedLit(t[i].lit)
       /\ Justified(t, Given, As)
       /\ PosInTrail(trail, b) \in Nat
  BY <1>3, <1>10, BackTrail
<1> HIDE DEF t
<1>14. \A i \in DOMAIN t : VarOf(t[i].lit) # VarOf(Last) /\ t[i].level <= b
  <2> SUFFICES ASSUME NEW i \in DOMAIN t PROVE VarOf(t[i].lit) # VarOf(Last)
    BY <1>13
  <2>1. i \in DOMAIN trail /\ t[i] = trail[i] /\ trail[i].level <= b /\ trail[i].level \in Nat
    BY <1>13, Trails DEF TypeOK
  <2>2. i # q
    BY <1>8, <1>10, <2>1 DEF TypeOK
  <2>3. VarOf(trail[i].lit) # VarOf(trail[q].lit)
    BY <1>8, <2>1, <2>2 DEF Levels, Ordered
  <2> QED
    BY <1>8, <1>9, <2>1, <2>3, SameVar
<1>15. b = 0 => FixedLit(Last)
  <2> SUFFICES ASSUME b = 0 PROVE FixedLit(Last)
    OBVIOUS
  <2>1. c = {Last}
    BY <1>7, <1>9, <1>10
  <2>2. Last # -Act => Entails(formula, {Last})
    <3>1. Last # -Act => {Last} \subseteq PlainLit
      BY <1>9 DEF PlainLit
    <3> QED
      BY <1>6, <2>1, <3>1, GuardedAside DEF TypeOK
  <2> QED
    BY <1>6, <1>9, <2>1, <2>2 DEF FixedLit
<1>16. b > 0 => NextLit(t, Last, r, b)
  <2> SUFFICES ASSUME b > 0 PROVE NextLit(t, Last, r, b)
    OBVIOUS
  <2>1. c \ Top # {}
    BY <1>10
  <2>2. r = c /\ c # {}
    BY <1>7, <1>9, <1>11, <2>1
  <2>3. \A m \in c \ {Last} : \E i \in DOMAIN t : t[i].lit = -m
    BY <1>7, <1>10, <1>13
  <2> QED
    BY <1>6, <1>9, <2>2, <2>3 DEF NextLit
<1>17. r \subseteq Lit
  BY <1>6
<1> HIDE DEF r
<1>18. trail' \in Seq(Entry) /\ Levels' /\ Grounded' /\ Upper'
  <2>1. UNCHANGED <<formula, question>>
    BY <1>1
  <2> QED
    BY <1>2, <1>3, <1>4, <1>9, <1>10, <1>13, <1>14, <1>15, <1>16, <1>17, <2>1, Extended
<1>19. -Act \notin c => c \subseteq PlainLit /\ Entails(formula, c)
  <2>1. -Act \notin c => c \subseteq PlainLit
    BY <1>6 DEF PlainLit
  <2> QED
    BY <1>6, <2>1, GuardedAside DEF TypeOK
<1>20. TypeOK'
  <2>1. propagated' \in Nat /\ high' \in Nat
    BY <1>2, <1>10, <1>13
  <2>2. queue' \subseteq Var
    BY <1>2, PoppedType DEF TypeOK
  <2>3. learnt' \subseteq SUBSET PlainLit
    BY <1>1, <1>19 DEF TypeOK
  <2>4. \A d \in temporary' : d \subseteq Lit \ {Act} /\ -Act \in d
    BY <1>1, <1>6 DEF TypeOK
  <2> QED
    BY <1>1, <1>18, <2>1, <2>2, <2>3, <2>4 DEF TypeOK
<1>21. Control'
  BY <1>1, <1>3, <1>4 DEF Control, Starting
<1>22. Database'
  <2>1. \A d \in learnt' : Entails(formula, d)
    BY <1>1, <1>19 DEF Database
  <2>2. \A d \in temporary' : Entails(Given, d)
    BY <1>1, <1>3, <1>6 DEF Database
  <2> QED
    BY <1>1, <1>5, <2>1, <2>2 DEF Database
<1>23. Represented' /\ Analysis' /\ CoreRight'
  BY <1>1, <1>3 DEF Represented, Analysis, CoreRight
<1> QED
  BY <1>18, <1>20, <1>21, <1>22, <1>23

-----------------------------------------------------------------------------
(***************************************************************************)
(* The search.                                                             *)
(***************************************************************************)

\* Going back without assigning anything.
LEMMA BackKeeps ==
    ASSUME TypeOK, Levels, Grounded, Upper, Searching, NEW k \in Nat,
           UNCHANGED <<formula, question>>, high' = k, trail' = Upto(trail, k)
    PROVE  trail' \in Seq(Entry) /\ Levels' /\ Grounded' /\ Upper'
<1> DEFINE t == Upto(trail, k)
<1>1. /\ t \in Seq(Entry) /\ Ordered(t)
      /\ \A i \in DOMAIN t : t[i].level <= k
      /\ \A i \in DOMAIN t : t[i].level = 0 => FixedLit(t[i].lit)
      /\ Justified(t, Given, As)
  BY BackTrail
<1>2. Given' = Given /\ As' = As /\ trail' = t
  BY SameGiven
<1> HIDE DEF t
<1>3. Levels'
  BY <1>1, <1>2 DEF Levels
<1>4. Grounded'
  BY <1>1, <1>2 DEF Grounded, FixedLit
<1>5. Upper'
  BY <1>1, <1>2 DEF Upper
<1> QED
  BY <1>1, <1>2, <1>3, <1>4, <1>5

\* search_with_restart goes back to the assumptions, and gives up at the limit.
LEMMA RestartKeeps == ASSUME IInv, Restart PROVE IInv'
<1> USE DEF IInv
<1>1. /\ pc = "search" /\ restarts' = restarts + 1
      /\ \/ pc' = "idle" /\ ans' = "unknown"
         \/ pc' = "propagate" /\ ans' = ans
      /\ UNCHANGED <<user, formula, trans, lemmas, learnt, temporary, walk, rep, question, conf,
                     trivial_unsat, domain, fixed, unsat_core, then>>
  BY DEF Restart, db, domains, simps, history
<1>2. \/ /\ Len(As) < high /\ high' = Len(As) /\ trail' = Upto(trail, Len(As))
         /\ propagated' = PosInTrail(trail, high') /\ queue' = queue \cup Popped(high')
      \/ UNCHANGED <<trail, high, propagated, queue>>
  BY DEF Restart, Back, assigns
<1>3. /\ Searching /\ then = "search" /\ ans = "asked" /\ ~Stale
      /\ walk = 0 /\ propagated >= Len(trail)
  BY <1>1 DEF Searching, Control, Stale, Starting
<1>4. ~Stale' /\ Given' = Given
  BY <1>1, <1>3, SameGiven DEF Stale, Starting
<1>5. Len(As) \in Nat
  <2>1. As \in Seq(Lit \ {-Act})
    BY AsType
  <2> QED
    BY <2>1, LenProperties
<1>6. /\ trail' \in Seq(Entry) /\ Levels' /\ Grounded' /\ Upper'
      /\ high' \in Nat /\ propagated' \in Nat /\ queue' \subseteq Var
      /\ propagated' >= Len(trail')
  <2>1. CASE high' = Len(As) /\ trail' = Upto(trail, Len(As))
             /\ propagated' = PosInTrail(trail, high') /\ queue' = queue \cup Popped(high')
    <3> DEFINE k == Len(As)
    <3>1. high' = k /\ trail' = Upto(trail, k) /\ k \in Nat /\ propagated' = PosInTrail(trail, k)
      BY <1>5, <2>1
    <3> HIDE DEF k
    <3>2. UNCHANGED <<formula, question>>
      BY <1>1
    <3>3. trail' \in Seq(Entry) /\ Levels' /\ Grounded' /\ Upper'
      BY <1>3, <3>1, <3>2, BackKeeps
    <3>4. Len(Upto(trail, k)) <= PosInTrail(trail, k) /\ PosInTrail(trail, k) \in Nat
      BY <1>3, <3>1, BackTrail
    <3>5. Len(trail') \in Nat
      BY <3>3, Trails
    <3>6. queue' \subseteq Var
      BY <2>1, PoppedType DEF TypeOK
    <3> QED
      BY <3>1, <3>3, <3>4, <3>5, <3>6
  <2>2. CASE UNCHANGED <<trail, high, propagated, queue>>
    <3>1. UNCHANGED <<trail, high, formula, question>>
      BY <1>1, <2>2
    <3>2. Levels' /\ Grounded' /\ Upper'
      BY <1>3, <3>1, SameTrail
    <3> QED
      BY <1>3, <2>2, <3>2 DEF TypeOK
  <2> QED
    BY <1>2, <2>1, <2>2
<1>7. TypeOK'
  BY <1>1, <1>6 DEF TypeOK
<1>8. Control'
  BY <1>1, <1>3, <1>6 DEF Control, Starting, Searching
<1>9. Database' /\ Represented'
  BY <1>1, <1>3, <1>4 DEF Database, Represented
<1>10. Analysis' /\ CoreRight'
  BY <1>1, <1>3 DEF Analysis, CoreRight
<1> QED
  BY <1>6, <1>7, <1>8, <1>9, <1>10

\* clean_learnt forgets learnt clauses.
LEMMA CleanLearntKeeps == ASSUME IInv, CleanLearnt PROVE IInv'
<1> USE DEF IInv
<1>1. /\ pc = "search" /\ pc' = "branch" /\ learnt' \subseteq learnt
      /\ UNCHANGED <<user, formula, trans, lemmas, temporary, trail, high, propagated, walk, rep,
                     question, restarts, conf, trivial_unsat, domain, fixed, queue, ans,
                     unsat_core, then>>
  BY CleanedType DEF CleanLearnt, assigns, domains, simps, search, answers, history
<1>2. Searching /\ Searching' /\ ~Stale /\ ~Stale' /\ Given' = Given
  BY <1>1, SameGiven DEF Searching, Stale, Starting
<1>3. Levels' /\ Grounded' /\ Upper'
  BY <1>1, <1>2, SameTrail
<1>4. TypeOK'
  BY <1>1 DEF TypeOK
<1>5. Control'
  BY <1>1, <1>2 DEF Control, Starting, Searching
<1>6. Database' /\ Represented'
  BY <1>1, <1>2 DEF Database, Represented
<1>7. Analysis' /\ CoreRight'
  BY <1>1, <1>2 DEF Analysis, CoreRight, Refutes
<1> QED
  BY <1>3, <1>4, <1>5, <1>6, <1>7

\* What every step of the search proper starts from.
LEMMA BranchIs ==
    ASSUME IInv, pc = "branch"
    PROVE  /\ Searching /\ then = "search" /\ ans = "asked" /\ ~Stale
           /\ walk = 0 /\ propagated >= Len(trail)
BY DEF IInv, Control, Searching, Stale, Starting

\* What an assumption is, and what it takes to assign it.
LEMMA AssumptionIs ==
    ASSUME TypeOK, NEW k \in Nat, k > 0, k <= Len(As)
    PROVE  /\ As[k] \in Lit \ {-Act}
           /\ As[k] = Act \/ As[k] \in {question.assump[j] : j \in DOMAIN question.assump}
<1>1. /\ As \in Seq(Lit \ {-Act})
      /\ \A i \in DOMAIN As :
             As[i] = Act \/ As[i] \in {question.assump[j] : j \in DOMAIN question.assump}
  BY AsType
<1>2. Len(As) \in Nat /\ DOMAIN As = 1..Len(As) /\ \A i \in 1..Len(As) : As[i] \in Lit \ {-Act}
  BY <1>1, LenProperties, ElementOfSeq
<1>3. k \in DOMAIN As
  BY <1>2
<1> QED
  BY <1>1, <1>2, <1>3

\* A level is opened with a literal that is assigned without a reason.
LEMMA OpenedKeeps ==
    ASSUME TypeOK, Levels, Grounded, Upper, Searching, Searching',
           UNCHANGED <<formula, question>>,
           NEW l \in Lit, Unassigned(VarOf(l)), high + 1 <= Len(As) => l = As[high + 1],
           trail' = Assigned(trail, l, {}, high + 1), high' = high + 1
    PROVE  trail' \in Seq(Entry) /\ Levels' /\ Grounded' /\ Upper'
<1> DEFINE c == {}
           k == high + 1
<1>1. trail \in Seq(Entry) /\ Ordered(trail) /\ high \in Nat
  BY DEF TypeOK, Levels
<1>2. k \in Nat /\ k > 0 /\ c \subseteq Lit /\ c = {}
  BY <1>1
<1>3. \A i \in DOMAIN trail : trail[i].level \in Nat /\ trail[i].level <= high
  BY <1>1, Trails DEF Levels
<1>4. \A i \in DOMAIN trail : trail[i].level <= k /\ trail[i].level < k
  BY <1>1, <1>3
<1>5. \A i \in DOMAIN trail : VarOf(trail[i].lit) # VarOf(l)
  BY <1>1, UnassignedIs
<1>6. \A i \in DOMAIN trail : trail[i].level = 0 => FixedLit(trail[i].lit)
  BY DEF Grounded, FixedLit
<1>7. trail' = Assigned(trail, l, c, k) /\ high' = k /\ (k <= Len(As) => l = As[k])
  OBVIOUS
<1> HIDE DEF c, k
<1>8. NextLit(trail, l, c, k)
  BY <1>2, <1>4, <1>7 DEF NextLit
<1>9. Justified(trail, Given, As) /\ k # 0
  BY <1>2 DEF Upper
<1>10. \A i \in DOMAIN trail : VarOf(trail[i].lit) # VarOf(l) /\ trail[i].level <= k
  BY <1>4, <1>5
<1> QED
  BY <1>1, <1>2, <1>6, <1>7, <1>8, <1>9, <1>10, Extended

\* The next assumption is true already.
LEMMA AssumeTrueKeeps == ASSUME IInv, AssumeTrue PROVE IInv'
<1> USE DEF IInv
<1>1. /\ pc = "branch" /\ high' = high + 1
      /\ queue' \in {queue, queue \cup {v \in domain : v \notin VarsOf(LitsOf(trail'))}}
      /\ UNCHANGED <<user, formula, trans, lemmas, learnt, temporary, trail, propagated, walk,
                     rep, question, restarts, conf, trivial_unsat, domain, fixed, ans,
                     unsat_core, pc, then>>
  BY DEF AssumeTrue, OpenLevel, db, domains, simps, search, answers, history
<1>2. /\ Searching /\ then = "search" /\ ans = "asked" /\ ~Stale
      /\ walk = 0 /\ propagated >= Len(trail)
  BY <1>1, BranchIs
<1>3. Searching' /\ ~Stale' /\ Given' = Given /\ As' = As
  BY <1>1, <1>2, SameGiven DEF Searching, Stale, Starting
<1>4. Levels'
  <2>1. \A i \in DOMAIN trail : trail[i].level \in Nat
    BY Trails DEF TypeOK
  <2>2. high \in Nat
    BY DEF TypeOK
  <2> QED
    BY <1>1, <2>1, <2>2 DEF Levels
<1>5. Grounded' /\ Upper'
  BY <1>1, <1>2, <1>3 DEF Grounded, Upper
<1>6. TypeOK'
  <2>1. high' \in Nat /\ queue' \subseteq Var
    BY <1>1 DEF TypeOK
  <2> QED
    BY <1>1, <2>1 DEF TypeOK
<1>7. Control'
  BY <1>1, <1>2, <1>3 DEF Control, Starting, Searching
<1>8. Database' /\ Represented'
  BY <1>1, <1>2, <1>3 DEF Database, Represented
<1>9. Analysis' /\ CoreRight'
  BY <1>1, <1>2 DEF Analysis, CoreRight
<1> QED
  BY <1>4, <1>5, <1>6, <1>7, <1>8, <1>9

\* The next assumption is assigned.
LEMMA AssumeKeeps == ASSUME IInv, Assume PROVE IInv'
<1> USE DEF IInv
<1>1. /\ pc = "branch" /\ pc' = "propagate" /\ high < Len(As) /\ high' = high + 1
      /\ Unassigned(VarOf(As[high + 1])) /\ trail' = Assigned(trail, As[high + 1], {}, high + 1)
      /\ queue' \in {queue, queue \cup {v \in domain : v \notin VarsOf(LitsOf(trail'))}}
      /\ UNCHANGED <<user, formula, trans, lemmas, learnt, temporary, propagated, walk,
                     rep, question, restarts, conf, trivial_unsat, domain, fixed, ans,
                     unsat_core, then>>
  BY DEF Assume, OpenLevel, NextAssumption, db, domains, simps, search, answers, history
<1>2. Searching /\ then = "search" /\ ans = "asked" /\ ~Stale
  BY <1>1, BranchIs
<1>3. Searching' /\ ~Stale' /\ Given' = Given
  BY <1>1, <1>2, SameGiven DEF Searching, Stale, Starting
<1>4. As[high + 1] \in Lit
  <2>1. Len(As) \in Nat /\ high \in Nat
    BY AsType, LenProperties DEF TypeOK
  <2>2. high + 1 \in Nat /\ high + 1 > 0 /\ high + 1 <= Len(As)
    BY <1>1, <2>1
  <2> QED
    BY <2>2, AssumptionIs
<1>5. trail' \in Seq(Entry) /\ Levels' /\ Grounded' /\ Upper'
  <2> DEFINE l == As[high + 1]
  <2>1. /\ l \in Lit /\ Unassigned(VarOf(l)) /\ l = As[high + 1]
        /\ trail' = Assigned(trail, l, {}, high + 1)
    BY <1>1, <1>4
  <2>2. UNCHANGED <<formula, question>> /\ high' = high + 1
    BY <1>1
  <2> HIDE DEF l
  <2> QED
    BY <1>2, <1>3, <2>1, <2>2, OpenedKeeps
<1>6. TypeOK'
  <2>1. high' \in Nat /\ queue' \subseteq Var
    BY <1>1 DEF TypeOK
  <2> QED
    BY <1>1, <1>5, <2>1 DEF TypeOK
<1>7. Control'
  BY <1>1, <1>2, <1>3 DEF Control, Starting, Searching
<1>8. Database' /\ Represented'
  BY <1>1, <1>2, <1>3 DEF Database, Represented
<1>9. Analysis' /\ CoreRight'
  BY <1>1, <1>2 DEF Analysis, CoreRight
<1> QED
  BY <1>5, <1>6, <1>7, <1>8, <1>9

\* A variable is decided.
LEMMA DecideKeeps == ASSUME IInv, Decide PROVE IInv'
<1> USE DEF IInv
<1>1. /\ pc = "branch" /\ pc' = "propagate" /\ high >= Len(As) /\ high' = high + 1
      /\ queue' \subseteq queue
      /\ UNCHANGED <<user, formula, trans, lemmas, learnt, temporary, propagated, walk,
                     rep, question, restarts, conf, trivial_unsat, domain, fixed, ans,
                     unsat_core, then>>
  BY DEF Decide, Undecided, db, domains, simps, search, answers, history
<1>2. PICK v \in Undecided : \E l \in {v, -v} : trail' = Assigned(trail, l, {}, high + 1)
  BY DEF Decide
<1>3. PICK l \in {v, -v} : trail' = Assigned(trail, l, {}, high + 1)
  BY <1>2
<1>4. Searching /\ then = "search" /\ ans = "asked" /\ ~Stale
  BY <1>1, BranchIs
<1>5. Searching' /\ ~Stale' /\ Given' = Given
  BY <1>1, <1>4, SameGiven DEF Searching, Stale, Starting
<1>6. l \in Lit /\ Unassigned(VarOf(l))
  <2>1. v \in Var /\ Unassigned(v)
    BY DEF Undecided, TypeOK
  <2> QED
    BY <2>1, LitType
<1>7. trail' \in Seq(Entry) /\ Levels' /\ Grounded' /\ Upper'
  <2>1. UNCHANGED <<formula, question>> /\ high' = high + 1
    BY <1>1
  <2>2. high \in Nat /\ Len(As) \in Nat
    BY AsType, LenProperties DEF TypeOK
  <2>3. ~(high + 1 <= Len(As))
    BY <1>1, <2>2
  <2> QED
    BY <1>3, <1>4, <1>5, <1>6, <2>1, <2>3, OpenedKeeps
<1>8. TypeOK'
  <2>1. high' \in Nat /\ queue' \subseteq Var
    BY <1>1 DEF TypeOK
  <2> QED
    BY <1>1, <1>7, <2>1 DEF TypeOK
<1>9. Control'
  BY <1>1, <1>4, <1>5 DEF Control, Starting, Searching
<1>10. Database' /\ Represented'
  BY <1>1, <1>4, <1>5 DEF Database, Represented
<1>11. Analysis' /\ CoreRight'
  BY <1>1, <1>4 DEF Analysis, CoreRight
<1> QED
  BY <1>7, <1>8, <1>9, <1>10, <1>11

\* Nothing is left to decide.
LEMMA AnswerSatKeeps == ASSUME IInv, AnswerSat PROVE IInv'
<1> USE DEF IInv
<1>1. /\ pc = "branch" /\ pc' = "idle" /\ ans' = "sat" /\ queue' = {}
      /\ UNCHANGED <<user, formula, trans, lemmas, learnt, temporary, trail, high, propagated,
                     walk, rep, question, restarts, conf, trivial_unsat, domain, fixed,
                     unsat_core, then>>
  BY DEF AnswerSat, db, assigns, domains, simps, search, history
<1>2. /\ Searching /\ then = "search" /\ ans = "asked" /\ ~Stale
      /\ walk = 0 /\ propagated >= Len(trail)
  BY <1>1, BranchIs
<1>3. Levels' /\ Grounded' /\ Upper' /\ Database' /\ Represented'
  BY <1>1, <1>2, Quiet
<1>4. TypeOK'
  BY <1>1 DEF TypeOK
<1>5. Control'
  BY <1>1, <1>2 DEF Control, Starting, Searching
<1>6. Analysis' /\ CoreRight'
  BY <1>1 DEF Analysis, CoreRight
<1> QED
  BY <1>3, <1>4, <1>5, <1>6

\* What analyze_unsat_core visits for the assumption a that is false.
Seen(a) == CHOOSE seen : seen = [i \in DOMAIN trail |->
               /\ trail[i].level > 0
               /\ \/ trail[i].lit = -a
                  \/ \E j \in (i + 1)..Len(trail) : seen[j] /\ -trail[i].lit \in trail[j].reason]

\* The visit is well defined: it only asks about what was assigned after.
LEMMA SeenIs ==
    ASSUME trail \in Seq(Entry), NEW a
    PROVE  \A i \in DOMAIN trail :
               Seen(a)[i] <=>
                   /\ trail[i].level > 0
                   /\ \/ trail[i].lit = -a
                      \/ \E j \in (i + 1)..Len(trail) :
                             Seen(a)[j] /\ -trail[i].lit \in trail[j].reason
<1> DEFINE D == DOMAIN trail
           Starts(i) == trail[i].lit = -a
           Uses(i, j) == -trail[i].lit \in trail[j].reason
           Later(i) == (i + 1)..Len(trail)
           F(f) == [i \in D |-> /\ trail[i].level > 0
                                /\ Starts(i) \/ \E j \in Later(i) : f[j] /\ Uses(i, j)]
           B == [X \in SUBSET D |->
                    {i \in D : /\ trail[i].level > 0
                               /\ Starts(i) \/ \E j \in Later(i) : j \in X /\ Uses(i, j)}]
<1>1. \A i \in D : Later(i) \subseteq D
  BY Trails
<1>2. \A f : \A i \in D : F(f)[i] <=> /\ trail[i].level > 0
                                      /\ Starts(i) \/ \E j \in Later(i) : f[j] /\ Uses(i, j)
  OBVIOUS
<1> HIDE DEF D, Starts, Uses, Later
<1>3. B \in [SUBSET D -> SUBSET D]
  OBVIOUS
<1>4. \A X, Y \in SUBSET D : X \subseteq Y => B[X] \subseteq B[Y]
  OBVIOUS
<1>5. PICK L \in SUBSET D : B[L] = L
  <2> HIDE DEF B
  <2> QED
    BY <1>3, <1>4, FixedPoint
<1> DEFINE f == [i \in D |-> i \in L]
<1>6. f = F(f)
  <2>1. ASSUME NEW i \in D PROVE f[i] = F(f)[i]
    <3>1. i \in L <=> /\ trail[i].level > 0
                      /\ Starts(i) \/ \E j \in Later(i) : j \in L /\ Uses(i, j)
      BY <1>5
    <3>2. \A j \in Later(i) : j \in L <=> f[j]
      BY <1>1
    <3> DEFINE R == /\ trail[i].level > 0
                    /\ Starts(i) \/ \E j \in Later(i) : f[j] /\ Uses(i, j)
    <3>3. i \in L <=> R
      <4> HIDE DEF f
      <4> QED
        BY <3>1, <3>2
    <3>4. f[i] = (i \in L) /\ F(f)[i] = R
      OBVIOUS
    <3>5. R \in BOOLEAN /\ (i \in L) \in BOOLEAN
      BY <3>3
    <3> HIDE DEF F, f, R
    <3>6. (i \in L) = R
      BY <3>3, <3>5
    <3> QED
      BY <3>4, <3>6
  <2> QED
    BY <2>1
<1>7. Seen(a) = F(Seen(a))
  <2>1. Seen(a) = CHOOSE g : g = F(g)
    BY DEF Seen, D, Starts, Uses, Later
  <2> HIDE DEF F, f
  <2> QED
    BY <1>6, <2>1
<1> HIDE DEF F
<1>8. \A i \in D : Seen(a)[i] <=>
          /\ trail[i].level > 0
          /\ Starts(i) \/ \E j \in Later(i) : Seen(a)[j] /\ Uses(i, j)
  BY <1>2, <1>7
<1> QED
  BY <1>8 DEF D, Starts, Uses, Later

\* The core consists of assumptions, and of constrain_act.
LEMMA CoreIs ==
    ASSUME TypeOK, Levels, Upper, Searching, high < Len(As), NEW a \in Lit \ {-Act},
           a = Act \/ a \in {question.assump[j] : j \in DOMAIN question.assump}
    PROVE  /\ Core(a) = {a} \cup {trail[i].lit : i \in {j \in DOMAIN trail :
                                                         Seen(a)[j] /\ trail[j].reason = {}}}
           /\ Core(a) \subseteq Lit \ {-Act}
           /\ Core(a) \ {Act} \subseteq {question.assump[j] : j \in DOMAIN question.assump}
<1>1. Core(a) = {a} \cup {trail[i].lit : i \in {j \in DOMAIN trail :
                                                 Seen(a)[j] /\ trail[j].reason = {}}}
  BY DEF Core, Seen
<1>2. ASSUME NEW i \in DOMAIN trail, Seen(a)[i], trail[i].reason = {}
      PROVE  /\ trail[i].lit \in Lit \ {-Act}
             /\ \/ trail[i].lit = Act
                \/ trail[i].lit \in {question.assump[j] : j \in DOMAIN question.assump}
  <2>1. trail \in Seq(Entry) /\ high \in Nat /\ Len(As) \in Nat
    BY AsType, LenProperties DEF TypeOK
  <2>2. trail[i].level > 0
    BY <1>2, <2>1, SeenIs
  <2>3. JustifiedAt(trail, i, Given, As)
    BY <2>2 DEF Upper, Justified
  <2>4. trail[i].level \in Nat /\ trail[i].level <= Len(As)
    BY <2>1, Trails DEF Levels
  <2>5. trail[i].lit = As[trail[i].level]
    BY <1>2, <2>3, <2>4 DEF JustifiedAt
  <2> QED
    BY <2>2, <2>4, <2>5, AssumptionIs
<1>3. \A l \in Core(a) : /\ l \in Lit \ {-Act}
                         /\ l = Act \/ l \in {question.assump[j] : j \in DOMAIN question.assump}
  BY <1>1, <1>2
<1> QED
  BY <1>1, <1>3

\* The assumptions of the core cannot all be true.
LEMMA CoreFollows ==
    ASSUME TypeOK, Levels, Grounded, Upper, Searching, NEW a \in Lit, False(a),
           Core(a) = {a} \cup {trail[i].lit : i \in {j \in DOMAIN trail :
                                                      Seen(a)[j] /\ trail[j].reason = {}}},
           Core(a) \subseteq Lit
    PROVE  Entails(Given, Negated(Core(a)))
<1> SUFFICES ASSUME NEW m \in CircuitModels, \A c \in Given : Holds(c, m),
                    ~Holds(Negated(Core(a)), m)
             PROVE  FALSE
  BY DEF Entails
<1>1. /\ trail \in Seq(Entry) /\ Ordered(trail) /\ Len(trail) \in Nat
      /\ DOMAIN trail = 1..Len(trail)
      /\ \A i \in DOMAIN trail : i \in Nat /\ trail[i].lit \in Lit /\ trail[i].level \in Nat
  BY Trails DEF TypeOK, Levels
<1>2. \A l \in Lit : l \in m <=> -l \notin m
  BY AssignmentType DEF CircuitModels
<1>3. \A l \in Core(a) : l \in m
  BY <1>2 DEF Holds, Negated
<1>4. \A i \in DOMAIN trail : trail[i].level = 0 => trail[i].lit \in m
  <2> SUFFICES ASSUME NEW i \in DOMAIN trail, trail[i].level = 0 PROVE trail[i].lit \in m
    OBVIOUS
  <2>1. Entails(Given, {trail[i].lit})
    BY DEF Grounded
  <2> QED
    BY <2>1 DEF Entails, Holds
<1> DEFINE W == {i \in DOMAIN trail : Seen(a)[i] /\ trail[i].lit \notin m}
<1>5. ASSUME W # {} PROVE FALSE
  <2>1. W \subseteq Nat
    BY <1>1
  <2> HIDE DEF W
  <2>2. PICK i \in W : \A j \in W : i <= j
    BY <1>5, <2>1, LeastNumber
  <2> USE DEF W
  <2>3. i \in DOMAIN trail /\ Seen(a)[i] /\ trail[i].lit \notin m
    OBVIOUS
  <2>4. trail[i].level > 0
    BY <1>1, <2>3, SeenIs
  <2>5. trail[i].reason # {}
    BY <1>3, <2>3
  <2>6. /\ Entails(Given, trail[i].reason) /\ trail[i].reason \subseteq Lit
        /\ \A l \in trail[i].reason \ {trail[i].lit} :
               \E k \in DOMAIN trail : k < i /\ trail[k].lit = -l
    BY <2>3, <2>4, <2>5, ReasonAt
  <2>7. PICK y \in trail[i].reason : y \in m
    BY <2>6 DEF Entails, Holds
  <2>8. PICK k \in DOMAIN trail : k < i /\ trail[k].lit = -y
    BY <2>3, <2>6, <2>7
  <2>9. y \in Lit /\ -y \notin m /\ -(-y) = y
    BY <1>2, <2>6, <2>7, LitType
  <2>10. trail[k].level > 0
    BY <1>1, <1>4, <2>8, <2>9
  <2>11. i \in (k + 1)..Len(trail)
    BY <1>1, <2>3, <2>8
  <2>12. Seen(a)[k]
    <3>1. -trail[k].lit \in trail[i].reason
      BY <2>7, <2>8, <2>9
    <3> QED
      BY <1>1, <2>3, <2>10, <2>11, <3>1, SeenIs
  <2>13. k \in W
    BY <2>8, <2>9, <2>12
  <2>14. ~(i <= k)
    BY <1>1, <2>8
  <2> QED
    BY <2>2, <2>13, <2>14
<1>6. PICK p \in DOMAIN trail : trail[p].lit = -a
  BY FalsePos
<1>7. a \in m /\ -a \notin m
  BY <1>2, <1>3
<1>8. trail[p].level > 0
  BY <1>1, <1>4, <1>6, <1>7
<1>9. Seen(a)[p]
  BY <1>1, <1>6, <1>8, SeenIs
<1>10. p \in W
  BY <1>6, <1>7, <1>9
<1> QED
  BY <1>5, <1>10

\* The next assumption is false already.
LEMMA AssumeFalseKeeps == ASSUME IInv, AssumeFalse PROVE IInv'
<1> USE DEF IInv
<1> DEFINE a == As[high + 1]
<1>1. /\ pc = "branch" /\ pc' = "idle" /\ ans' = "unsat" /\ high < Len(As)
      /\ False(a) /\ unsat_core' = Core(a)
      /\ UNCHANGED <<user, formula, trans, lemmas, learnt, temporary, trail, high, propagated,
                     walk, rep, question, restarts, conf, trivial_unsat, domain, fixed, queue,
                     then>>
  BY DEF AssumeFalse, Refute, NextAssumption, db, assigns, domains, simps, search, history
<1>2. /\ Searching /\ then = "search" /\ ans = "asked" /\ ~Stale
      /\ walk = 0 /\ propagated >= Len(trail)
  BY <1>1, BranchIs
<1>3. Levels' /\ Grounded' /\ Upper' /\ Database' /\ Represented'
  BY <1>1, <1>2, Quiet
<1>4. TypeOK'
  BY <1>1 DEF TypeOK
<1>5. Control'
  BY <1>1, <1>2 DEF Control, Starting, Searching
<1>6. Analysis'
  BY <1>1 DEF Analysis
<1>7. /\ a \in Lit \ {-Act}
      /\ a = Act \/ a \in {question.assump[j] : j \in DOMAIN question.assump}
  <2>1. Len(As) \in Nat /\ high \in Nat
    BY AsType, LenProperties DEF TypeOK
  <2>2. high + 1 \in Nat /\ high + 1 > 0 /\ high + 1 <= Len(As)
    BY <1>1, <2>1
  <2> QED
    BY <2>2, AssumptionIs
<1> HIDE DEF a
<1>8. /\ Core(a) = {a} \cup {trail[i].lit : i \in {j \in DOMAIN trail :
                                                    Seen(a)[j] /\ trail[j].reason = {}}}
      /\ Core(a) \subseteq Lit \ {-Act}
      /\ Core(a) \ {Act} \subseteq {question.assump[j] : j \in DOMAIN question.assump}
  BY <1>1, <1>2, <1>7, CoreIs
<1>9. Entails(Given, Negated(Core(a)))
  <2>1. Core(a) \subseteq Lit
    BY <1>8
  <2> QED
    BY <1>1, <1>2, <1>7, <1>8, <2>1, CoreFollows
<1>10. Entails(formula \cup question.constraint, Negated(Core(a) \ {Act}))
  <2> DEFINE k == Core(a)
  <2>1. k \subseteq Lit \ {-Act} /\ Entails(Given, Negated(k))
    BY <1>8, <1>9
  <2> HIDE DEF k
  <2>2. Entails(formula \cup question.constraint, Negated(k \ {Act}))
    BY <2>1, QuestionType, CoreAside DEF TypeOK
  <2> QED
    BY <2>2 DEF k
<1>11. CoreRight'
  BY <1>1, <1>8, <1>10 DEF CoreRight, Refutes
<1> QED
  BY <1>3, <1>4, <1>5, <1>6, <1>11

-----------------------------------------------------------------------------
(***************************************************************************)
(* The theorems.                                                           *)
(***************************************************************************)

\* Every step keeps the invariant.
LEMMA StepKeeps == IInv /\ [Next]_vars => IInv'
<1> SUFFICES ASSUME IInv, [Next]_vars PROVE IInv'
  OBVIOUS
<1>1. CASE \E c \in Lemmas : AddClause(c)
  BY <1>1, AddClauseKeeps
<1>2. CASE \E d \in Domains : SetDomain(d)
  BY <1>2, SetDomainKeeps
<1>3. CASE UnsetDomain \/ \E v \in LeafVar : Flip(v)
  BY <1>3, QuietCallKeeps
<1>4. CASE \E e \in Candidates : AddEq(e[1], e[2])
  BY <1>4, AddEqKeeps
<1>5. CASE \E q \in Questions[user] : Solve(q)
  BY <1>5, SolveKeeps
<1>6. CASE Working
  <2>1. CASE TrivialUnsat \/ NewRound
    BY <2>1, TrivialUnsatKeeps, NewRoundKeeps
  <2>2. CASE Simplify \/ CleanEq \/ EqCleaned
    BY <2>2, SimplifyKeeps, CleanEqKeeps, EqCleanedKeeps
  <2>3. CASE Propagate
    BY <2>3, PropUnitKeeps, PropWalkKeeps, PropagatedKeeps, ConflictKeeps DEF Propagate
  <2>4. CASE Resolve \/ Learn
    BY <2>4, ResolveKeeps, LearnKeeps
  <2>5. CASE Restart \/ CleanLearnt
    BY <2>5, RestartKeeps, CleanLearntKeeps
  <2>6. CASE Branch
    BY <2>6, AssumeTrueKeeps, AssumeKeeps, AssumeFalseKeeps, DecideKeeps, AnswerSatKeeps
       DEF Branch
  <2> QED
    BY <1>6, <2>1, <2>2, <2>3, <2>4, <2>5, <2>6 DEF Working
<1>7. CASE UNCHANGED vars
  <2> USE DEF IInv
  <2>1. UNCHANGED <<user, formula, trans, lemmas, learnt, temporary, trail, high, propagated,
                    walk, rep, question, restarts, conf, trivial_unsat, domain, fixed, queue,
                    ans, unsat_core, pc, then>>
    BY <1>7 DEF vars, db, assigns, domains, simps, search, answers, history
  <2>2. Levels' /\ Grounded' /\ Upper' /\ Database' /\ Represented'
    BY <2>1, Quiet DEF Searching, Stale, Starting
  <2>3. TypeOK' /\ Control'
    BY <2>1 DEF TypeOK, Control, Starting, Searching
  <2>4. Given' = Given
    BY <2>1, SameGiven
  <2>5. Analysis' /\ CoreRight'
    BY <2>1, <2>4 DEF Analysis, CoreRight, Refutes
  <2> QED
    BY <2>2, <2>3, <2>5
<1> QED
  BY <1>1, <1>2, <1>3, <1>4, <1>5, <1>6, <1>7 DEF Next

\* The inductive invariant holds in every state that the solver reaches.
THEOREM Invariance == Spec => []IInv
BY Initially, StepKeeps, PTL DEF Spec

\* Nothing that outlives a question depends on it: the circuit's clauses as simplified, the
\* callers' clauses, what was learnt and the literals of level 0 follow from what the callers
\* added, and the clauses kept for the running question from its constraints as well.
THEOREM LearntFollow == Spec => []ClausesFollow
<1>1. IInv => ClausesFollow
  <2> SUFFICES ASSUME IInv PROVE ClausesFollow
    OBVIOUS
  <2> USE DEF IInv
  <2>1. \A c \in trans \cup lemmas \cup learnt : -Act \notin c /\ Entails(formula, c)
    BY DEF TypeOK, Database, PlainLit
  <2>2. RoundPrepared => \A c \in temporary : Entails(formula \cup Guarded, c)
    <3>1. RoundPrepared => ~Stale
      BY DEF RoundPrepared, Stale, Starting
    <3> QED
      BY <3>1 DEF Database, Given
  <2>3. pc = "analyze" => Entails(formula \cup Guarded, conf)
    BY DEF Analysis, Given
  <2>4. \A i \in DOMAIN trail :
            trail[i].level = 0 /\ trail[i].lit # -Act => Entails(formula, {trail[i].lit})
    BY DEF Grounded
  <2> QED
    BY <2>1, <2>2, <2>3, <2>4 DEF ClausesFollow
<1> QED
  BY <1>1, Invariance, PTL

\* What the contract says of clauses is what is said of them here.
LEMMA ContractRefuted ==
    ASSUME NEW F, NEW q, NEW k
    PROVE  Contract!Refuted(F, q, k) <=>
               /\ k \subseteq {q.assump[i] : i \in DOMAIN q.assump}
               /\ Entails(F \cup q.constraint, Negated(k))
BY DEF Contract!Refuted, Contract!Assumed, Contract!Entails, Contract!Negated,
       Contract!CircuitModels, Contract!Assignments, Contract!Circuit, Contract!Holds,
       Contract!Var, Entails, Negated, CircuitModels, Assignments, Circuit, Holds, Var

\* An unsatisfiable answer is right, whatever was learnt, simplified or restarted on the way: the
\* clauses added and the question's constraints refute the assumptions in its core.
THEOREM CoresRefute ==
    Spec => [](ans = "unsat" => Contract!Refuted(formula, question, unsat_core \ {Act}))
<1>1. IInv => (ans = "unsat" => Contract!Refuted(formula, question, unsat_core \ {Act}))
  <2> SUFFICES ASSUME IInv, ans = "unsat"
               PROVE  Contract!Refuted(formula, question, unsat_core \ {Act})
    OBVIOUS
  <2>1. Refutes(unsat_core)
    BY DEF IInv, CoreRight
  <2> DEFINE k == unsat_core \ {Act}
  <2>2. /\ k \subseteq {question.assump[i] : i \in DOMAIN question.assump}
        /\ Entails(formula \cup question.constraint, Negated(k))
    BY <2>1 DEF Refutes
  <2> HIDE DEF k
  <2>3. Contract!Refuted(formula, question, k)
    BY <2>2, ContractRefuted
  <2> QED
    BY <2>3 DEF k
<1> QED
  BY <1>1, Invariance, PTL

\* A satisfiable answer, or one of its values given up: whether the values suffice is not said.
ValuesGiven ==
    /\ AnswerSat \/ \E v \in LeafVar : Flip(v)
    /\ ans \in {"asked", "sat"} /\ ans' = "sat"
    /\ UNCHANGED <<user, formula, question, unsat_core>>

\* An answer with a core that is refuted is one that the contract allows.
LEMMA UnsatStep ==
    ASSUME CoreRight', ans = "asked", ans' = "unsat", UNCHANGED <<user, formula, question, model>>
    PROVE  Contract!Next
<1> DEFINE k == unsat_core' \ {Act}
<1>1. /\ k \subseteq {question.assump[i] : i \in DOMAIN question.assump}
      /\ Entails(formula \cup question.constraint, Negated(k))
  BY DEF CoreRight, Refutes
<1> HIDE DEF k
<1>2. Contract!Refuted(formula, question, k)
  BY <1>1, ContractRefuted
<1>3. Contract!AnswerUnsat
  BY <1>2 DEF Contract!AnswerUnsat, k
<1> QED
  BY <1>3 DEF Contract!Next

\* A step that changes nothing of what the contract is about.
LEMMA SilentStep ==
    ASSUME UNCHANGED <<user, formula, question, ans, unsat_core, model>>
    PROVE  UNCHANGED Contract!vars
BY DEF Contract!vars

\* A call between questions is one of the contract's.
LEMMA CallStep ==
    ASSUME IInv,
           \/ \E c \in Lemmas : AddClause(c)
           \/ \E d \in Domains : SetDomain(d)
           \/ UnsetDomain
           \/ \E e \in Candidates : AddEq(e[1], e[2])
           \/ \E v \in LeafVar : Flip(v)
           \/ \E q \in Questions[user] : Solve(q)
    PROVE  [Contract!Next \/ ValuesGiven]_(Contract!vars)
<1>1. CASE \E c \in Lemmas : AddClause(c)
  <2>1. PICK c \in Lemmas : AddClause(c)
    BY <1>1
  <2>2. /\ formula' = formula \cup {c} /\ ans' = "none" /\ unsat_core' = {} /\ model' = {}
        /\ UNCHANGED <<user, question>>
    BY <2>1 DEF AddClause, Call, Forgotten
  <2>3. (unsat_core \ {Act})' = {}
    BY <2>2
  <2>4. Contract!Add
    BY <2>2, <2>3 DEF Contract!Add
  <2> QED
    BY <2>4 DEF Contract!Next
<1>2. CASE \E d \in Domains : SetDomain(d)
  <2>1. /\ ans' = "none" /\ unsat_core' = {} /\ model' = {}
        /\ UNCHANGED <<user, formula, question>>
    BY <1>2 DEF SetDomain, Call, Forgotten
  <2>2. (unsat_core \ {Act})' = {}
    BY <2>1
  <2>3. Contract!Forget
    BY <2>1, <2>2 DEF Contract!Forget
  <2> QED
    BY <2>3 DEF Contract!Next
<1>3. CASE UnsetDomain \/ \E e \in Candidates : AddEq(e[1], e[2])
  <2>1. UNCHANGED <<user, formula, question, ans, unsat_core, model>>
    BY <1>3 DEF UnsetDomain, AddEq, Call, answers
  <2> QED
    BY <2>1, SilentStep
<1>4. CASE \E v \in LeafVar : Flip(v)
  <2>1. ans = "sat" /\ UNCHANGED <<user, formula, question, unsat_core, ans>>
    BY <1>4 DEF Flip, history
  <2> QED
    BY <1>4, <2>1 DEF ValuesGiven
<1>5. CASE \E q \in Questions[user] : Solve(q)
  <2>1. PICK q \in Questions[user] : Solve(q)
    BY <1>5
  <2>2. /\ pc = "idle" /\ ans' = "asked" /\ unsat_core' = {} /\ model' = {} /\ question' = q
        /\ UNCHANGED <<user, formula>>
    BY <2>1 DEF Solve, Call
  <2>3. ans # "asked"
    BY <2>2 DEF IInv, Control, Starting, Searching
  <2>4. q \in UNION {Questions[u] : u \in Users}
    BY DEF IInv, TypeOK
  <2>5. (unsat_core \ {Act})' = {}
    BY <2>2
  <2>6. Contract!Ask
    BY <2>2, <2>3, <2>4, <2>5 DEF Contract!Ask
  <2> QED
    BY <2>6 DEF Contract!Next
<1> QED
  BY <1>1, <1>2, <1>3, <1>4, <1>5

\* A step of a running call is silent, or answers the question.
LEMMA WorkingStep ==
    ASSUME IInv, IInv', Working
    PROVE  [Contract!Next \/ ValuesGiven]_(Contract!vars)
<1>0. CoreRight'
  BY DEF IInv
<1>1. CASE TrivialUnsat \/ AssumeFalse
  <2>1. ans' = "unsat" /\ UNCHANGED <<user, formula, question, model>>
    BY <1>1 DEF TrivialUnsat, AssumeFalse, Refute, history
  <2>2. ans = "asked"
    BY <1>1 DEF TrivialUnsat, AssumeFalse, IInv, Control, Starting, Searching
  <2> QED
    BY <1>0, <2>1, <2>2, UnsatStep
<1>2. CASE NewRound
  <2>1. /\ UNCHANGED <<user, formula, question, model>>
        /\ ans' = "unsat" \/ UNCHANGED <<ans, unsat_core>>
    BY <1>2 DEF NewRound, Refute, answers, history
  <2>2. ans = "asked"
    BY <1>2 DEF NewRound, IInv, Control, Starting
  <2> QED
    BY <1>0, <2>1, <2>2, UnsatStep, SilentStep
<1>3. CASE Conflict
  <2>1. /\ UNCHANGED <<user, formula, question, model>>
        /\ \/ ans' = "unsat" /\ then \in {"search", "start"}
           \/ UNCHANGED <<ans, unsat_core>>
    BY <1>3, Zenon DEF Conflict, Refute, answers, history
  <2>2. then \in {"search", "start"} => ans = "asked"
    BY <1>3 DEF Conflict, Propagating, IInv, Control, Starting, Searching
  <2> QED
    BY <1>0, <2>1, <2>2, UnsatStep, SilentStep
<1>4. CASE Restart
  <2>1. /\ UNCHANGED <<user, formula, question, model, unsat_core>>
        /\ restarts' = restarts + 1
        /\ \/ restarts' = question.limit /\ ans' = "unknown"
           \/ UNCHANGED ans
    BY <1>4 DEF Restart, history
  <2>2. ans = "asked"
    BY <1>4 DEF Restart, IInv, Control, Searching
  <2>3. restarts + 1 > 0
    BY DEF IInv, TypeOK
  <2>4. CASE ans' = "unknown" /\ restarts' = question.limit
    <3>1. Contract!GiveUp
      BY <2>1, <2>2, <2>3, <2>4 DEF Contract!GiveUp
    <3> QED
      BY <3>1 DEF Contract!Next
  <2> QED
    BY <2>1, <2>4, SilentStep
<1>5. CASE AnswerSat
  <2>1. ans' = "sat" /\ UNCHANGED <<user, formula, question, unsat_core>>
    BY <1>5 DEF AnswerSat, history
  <2>2. ans = "asked"
    BY <1>5 DEF AnswerSat, IInv, Control, Searching
  <2> QED
    BY <1>5, <2>1, <2>2 DEF ValuesGiven
<1>6. CASE Simplify \/ CleanEq \/ EqCleaned \/ PropUnit \/ PropWalk \/ Propagated
  <2>1. UNCHANGED <<user, formula, question, ans, unsat_core, model>>
    BY <1>6 DEF Simplify, CleanEq, EqCleaned, PropUnit, PropWalk, Propagated, answers, history
  <2> QED
    BY <2>1, SilentStep
<1>7. CASE Resolve \/ Learn \/ CleanLearnt \/ AssumeTrue \/ Assume \/ Decide
  <2>1. UNCHANGED <<user, formula, question, ans, unsat_core, model>>
    BY <1>7 DEF Resolve, Learn, CleanLearnt, AssumeTrue, Assume, Decide, answers, history
  <2> QED
    BY <2>1, SilentStep
<1> QED
  BY <1>1, <1>2, <1>3, <1>4, <1>5, <1>6, <1>7 DEF Working, Propagate, Branch

\* The solver is the one that the engines rely on: clauses accumulate, a question is asked when
\* none is open, an unsatisfiable answer has a core that is refuted, and an answer is given up
\* only at a question's limit; that the values of a satisfiable answer suffice is shown below.
THEOREM ContractButValues ==
    Spec => Contract!Init /\ [][Contract!Next \/ ValuesGiven]_(Contract!vars)
<1>1. Init => Contract!Init
  <2> SUFFICES ASSUME Init PROVE Contract!Init
    OBVIOUS
  <2>1. /\ user \in Users /\ question \in Questions[user] /\ formula = {} /\ ans = "none"
        /\ unsat_core = {} /\ model = {}
    BY DEF Init
  <2>2. unsat_core \ {Act} = {} /\ (user = "ic3") \in BOOLEAN
    BY <2>1
  <2>3. question \in UNION {Questions[u] : u \in Users}
    BY <2>1
  <2> QED
    BY <2>1, <2>2, <2>3 DEF Contract!Init
<1>2. IInv /\ IInv' /\ [Next]_vars => [Contract!Next \/ ValuesGiven]_(Contract!vars)
  <2> SUFFICES ASSUME IInv, IInv', [Next]_vars
               PROVE  [Contract!Next \/ ValuesGiven]_(Contract!vars)
    OBVIOUS
  <2>1. CASE Next
    BY <2>1, CallStep, WorkingStep DEF Next
  <2>2. CASE UNCHANGED vars
    <3>1. UNCHANGED <<user, formula, question, ans, unsat_core, model>>
      BY <2>2 DEF vars, answers, history
    <3> QED
      BY <3>1, SilentStep
  <2> QED
    BY <2>1, <2>2
<1> QED
  BY <1>1, <1>2, Invariance, PTL DEF Spec

-----------------------------------------------------------------------------
(***************************************************************************)
(* Nothing is lost.  The other half of the invariant: unless a literal was *)
(* overlooked, what is assigned at level 0 was walked up to `propagated`,  *)
(* a clause of which all literals but one were found false there is        *)
(* satisfied, and what was taken out of the database is said by the rest.  *)
(***************************************************************************)

\* The clauses that outlive a question.
Lasting == trans \cup lemmas \cup learnt

Walks ==
    /\ visited \subseteq LitsOf(trail)
    /\ walk # 0 => pc = "propagate" /\ propagated <= Len(trail) /\ walk \in visited
    /\ pc = "propagate" /\ then = "start" /\ trivial_unsat => walk = 0
    /\ pc \in {"start", "simplify"} => ~trivial_unsat /\ propagated >= Len(trail)
    /\ pc = "eq" /\ ~trivial_unsat => propagated >= Len(trail)

\* The literals at level 0 that `propagated` has passed were walked.
Reached ==
    \A i \in DOMAIN trail :
        trail[i].level = 0 /\ (i <= propagated \/ high > 0) => trail[i].lit \in visited

\* A clause is satisfied at level 0, or two of its literals were not found false there.
Open(c) ==
    \/ c \cap LitsUpto(0) # {}
    \/ \E k, l \in c : k # l /\ {-k, -l} \cap visited \cap LitsUpto(0) = {}

\* The literal that is being walked makes the difference, as long as its list is not finished.
Walking(c) == high = 0 /\ walk # 0 /\ -walk \in c

\* A question was refuted at level 0: the clause is false, and will be found so again.
Contradicted ==
    /\ high = 0
    /\ \E c \in Lasting : /\ Negated(c) \subseteq LitsUpto(0)
                          /\ Walking(c) \/ \E l \in c : -l \notin visited

Watched == Contradicted \/ \A c \in Lasting : Open(c) \/ Walking(c)

Determined ==
    \A m \in Assignments :
        /\ \A c \in trans \cup lemmas : Holds(c, m)
        /\ GroundLits \subseteq m
        /\ \A v \in Var : (v \in m) = (RepOf(v) \in m)
        => \A c \in Circuit \cup formula : Holds(c, m)

\* A representative represents itself; FrTs adds no clauses.
Merged ==
    /\ rep[Act] = Act
    /\ \A v \in Var : rep[VarOf(rep[v])] = VarOf(rep[v])
    /\ user = "frts" => formula = {}

Complete ==
    /\ Walks /\ Merged
    /\ ~overlooked => Reached
    /\ ~overlooked /\ ~trivial_unsat => Watched /\ Determined

\* The literals of level 0 of a trail.
ZeroLits(t) == {t[i].lit : i \in {j \in DOMAIN t : t[j].level <= 0}}

\* Assigning a literal adds it to its level.
LEMMA ZeroAssigned ==
    ASSUME NEW t \in Seq(Entry), NEW l \in Lit, NEW c, NEW k \in Nat,
           NEW s, s = Assigned(t, l, c, k)
    PROVE  /\ Len(s) = Len(t) + 1 /\ DOMAIN s = 1..(Len(t) + 1)
           /\ s[Len(t) + 1].lit = l /\ s[Len(t) + 1].level = k
           /\ \A i \in DOMAIN t : i \in DOMAIN s /\ i < Len(t) + 1 /\ s[i] = t[i]
           /\ \A i \in DOMAIN s : i = Len(t) + 1 \/ i \in DOMAIN t
           /\ k = 0 => ZeroLits(s) = ZeroLits(t) \cup {l}
           /\ k # 0 => ZeroLits(s) = ZeroLits(t)
           /\ LitsOf(s) = LitsOf(t) \cup {l}
<1> DEFINE e == [lit |-> l, reason |-> c, level |-> k]
<1>1. Len(t) \in Nat /\ DOMAIN t = 1..Len(t)
  BY Trails
<1>2. /\ Len(s) = Len(t) + 1 /\ DOMAIN s = 1..(Len(t) + 1)
      /\ s[Len(t) + 1] = e
      /\ \A i \in 1..Len(t) : s[i] = t[i]
  BY <1>1 DEF Assigned
<1>3. \A i \in DOMAIN t : i \in DOMAIN s /\ i < Len(t) + 1 /\ s[i] = t[i]
  BY <1>1, <1>2
<1>4. \A i \in DOMAIN s : i = Len(t) + 1 \/ i \in DOMAIN t
  BY <1>1, <1>2
<1>5. Len(t) + 1 \in DOMAIN s /\ e.lit = l /\ e.level = k /\ (k <= 0 <=> k = 0)
  BY <1>1, <1>2
<1> HIDE DEF e
<1>6. k = 0 => ZeroLits(s) = ZeroLits(t) \cup {l}
  BY <1>2, <1>3, <1>4, <1>5 DEF ZeroLits
<1>7. k # 0 => ZeroLits(s) = ZeroLits(t)
  BY <1>2, <1>3, <1>4, <1>5 DEF ZeroLits
<1>8. LitsOf(s) = LitsOf(t) \cup {l}
  BY <1>2, <1>3, <1>4, <1>5 DEF LitsOf
<1> QED
  BY <1>2, <1>3, <1>4, <1>5, <1>6, <1>7, <1>8

\* A literal assigned at level 0 is one more of level 0.
LEMMA ZeroUnit ==
    ASSUME NEW t \in Seq(Entry), NEW l \in Lit
    PROVE  /\ ZeroLits(Assigned(t, l, {}, 0)) = ZeroLits(t) \cup {l}
           /\ LitsOf(Assigned(t, l, {}, 0)) = LitsOf(t) \cup {l}
<1> DEFINE s == Assigned(t, l, {}, 0)
<1>1. s = Assigned(t, l, {}, 0) /\ 0 \in Nat
  OBVIOUS
<1> HIDE DEF s
<1>2. ZeroLits(s) = ZeroLits(t) \cup {l} /\ LitsOf(s) = LitsOf(t) \cup {l}
  BY <1>1, ZeroAssigned
<1> QED
  BY <1>1, <1>2

\* Going back keeps the literals of level 0.
LEMMA ZeroUpto ==
    ASSUME NEW t \in Seq(Entry), Ordered(t), NEW k \in Nat
    PROVE  /\ ZeroLits(Upto(t, k)) = ZeroLits(t)
           /\ LitsOf(Upto(t, k)) = {t[i].lit : i \in {j \in DOMAIN t : t[j].level <= k}}
<1> DEFINE s == Upto(t, k)
<1>1. /\ \A i \in DOMAIN s : i \in DOMAIN t /\ s[i] = t[i] /\ t[i].level <= k
      /\ \A i \in DOMAIN t : t[i].level <= k => i \in DOMAIN s
  BY UptoIs
<1>2. \A i \in DOMAIN t : t[i].level <= 0 => t[i].level <= k
  BY Trails
<1> HIDE DEF s
<1>3. ZeroLits(s) = ZeroLits(t)
  BY <1>1, <1>2 DEF ZeroLits
<1>4. LitsOf(s) = {t[i].lit : i \in {j \in DOMAIN t : t[j].level <= k}}
  BY <1>1 DEF LitsOf
<1> QED
  BY <1>3, <1>4 DEF s

\* The level-0 trail without constrain_act, and what the trail is at level 0.
LEMMA ZeroGround ==
    ASSUME trail \in Seq(Entry), Ordered(trail)
    PROVE  /\ LitsUpto(0) = ZeroLits(trail)
           /\ GroundLits = LitsUpto(0) \ {Act, -Act}
           /\ ZeroLits(Ground) = GroundLits /\ LitsOf(Ground) = GroundLits
           /\ Len(Ground) <= PosInTrail(trail, 0)
<1>1. LitsUpto(0) = ZeroLits(trail)
  BY DEF LitsUpto, ZeroLits
<1>2. /\ \A i \in DOMAIN Ground : /\ Ground[i].level = 0 /\ Ground[i].lit \notin {Act, -Act}
                                  /\ \E j \in DOMAIN trail : Ground[i] = trail[j]
      /\ Len(Ground) <= PosInTrail(trail, 0)
      /\ \A j \in DOMAIN trail :
             trail[j].level <= 0 /\ trail[j].lit \notin {Act, -Act} =>
                 \E i \in DOMAIN Ground : Ground[i] = trail[j]
  BY GroundIs
<1>3. LitsOf(Ground) = ZeroLits(Ground)
  BY <1>2 DEF LitsOf, ZeroLits
<1>4. LitsOf(Ground) = GroundLits
  <2>1. ASSUME NEW i \in DOMAIN Ground PROVE Ground[i].lit \in GroundLits
    <3>1. PICK j \in DOMAIN trail : Ground[i] = trail[j]
      BY <1>2
    <3>2. trail[j].level <= 0 /\ trail[j].lit \notin {Act, -Act}
      BY <1>2, <3>1
    <3> QED
      BY <3>1, <3>2 DEF GroundLits, LitsUpto
  <2>2. ASSUME NEW l \in GroundLits PROVE \E i \in DOMAIN Ground : Ground[i].lit = l
    <3>1. PICK j \in DOMAIN trail : trail[j].lit = l /\ trail[j].level <= 0
      BY DEF GroundLits, LitsUpto
    <3>2. PICK i \in DOMAIN Ground : Ground[i] = trail[j]
      BY <1>2, <3>1 DEF GroundLits
    <3> QED
      BY <3>1, <3>2
  <2> QED
    BY <2>1, <2>2 DEF LitsOf
<1>5. GroundLits = LitsUpto(0) \ {Act, -Act}
  BY DEF GroundLits
<1> QED
  BY <1>1, <1>2, <1>3, <1>4, <1>5

\* At level 0 the trail has nothing else; what is assigned has one sign, and never is the literal
\* of constrain_act.
LEMMA ZeroTrail ==
    ASSUME TypeOK, Levels, Grounded
    PROVE  /\ high = 0 => LitsUpto(0) = LitsOf(trail)
           /\ LitsUpto(0) \subseteq LitsOf(trail) /\ LitsOf(trail) \subseteq Lit
           /\ \A l \in Lit : l \in LitsOf(trail) => -l \notin LitsOf(trail)
           /\ Act \notin LitsUpto(0)
           /\ \A l \in LitsUpto(0) : l \notin GroundLits => l = -Act
<1>1. \A i \in DOMAIN trail : /\ trail[i].lit \in Lit /\ trail[i].level \in Nat
                              /\ trail[i].level <= high
  BY Trails DEF TypeOK, Levels
<1>2. high = 0 => LitsUpto(0) = LitsOf(trail)
  BY <1>1 DEF LitsUpto, LitsOf
<1>3. LitsUpto(0) \subseteq LitsOf(trail) /\ LitsOf(trail) \subseteq Lit
  BY <1>1 DEF LitsUpto, LitsOf
<1>4. ASSUME NEW l \in Lit, l \in LitsOf(trail) PROVE -l \notin LitsOf(trail)
  <2>1. PICK k \in DOMAIN trail : trail[k].lit = l
    BY <1>4 DEF LitsOf
  <2>2. -l \in Lit /\ -(-l) = l
    BY LitType
  <2>3. ~True(-l)
    BY <2>1, <2>2, FalseAt DEF TypeOK, Levels
  <2> QED
    BY <2>3 DEF True
<1>5. Act \notin LitsUpto(0)
  <2>1. \A i \in DOMAIN trail : trail[i].level <= 0 => trail[i].level = 0
    BY <1>1
  <2> QED
    BY <2>1 DEF LitsUpto, Grounded
<1>6. \A l \in LitsUpto(0) : l \notin GroundLits => l = -Act
  BY <1>5 DEF GroundLits
<1> QED
  BY <1>2, <1>3, <1>4, <1>5, <1>6

\* Once level 0 was walked to its end no clause is contradicted, and all are open.
LEMMA AllOpen ==
    ASSUME TypeOK, Levels, Walks, Reached, Watched,
           high > 0 \/ (propagated >= Len(trail) /\ walk = 0)
    PROVE  LitsUpto(0) \subseteq visited /\ \A c \in Lasting : Open(c)
<1>1. \A i \in DOMAIN trail : i <= Len(trail) /\ i \in Nat /\ trail[i].level \in Nat
  BY Trails DEF TypeOK
<1>2. LitsUpto(0) \subseteq visited
  <2>1. ASSUME NEW i \in DOMAIN trail, trail[i].level <= 0 PROVE trail[i].lit \in visited
    <3>1. trail[i].level = 0
      BY <1>1, <2>1
    <3>2. i <= propagated \/ high > 0
      BY <1>1, Trails DEF TypeOK
    <3> QED
      BY <3>1, <3>2 DEF Reached
  <2> QED
    BY <2>1 DEF LitsUpto
<1>3. \A c : ~Walking(c)
  BY DEF Walking, TypeOK
<1>4. ~Contradicted
  BY <1>2, <1>3 DEF Contradicted, Negated, TypeOK
<1> QED
  BY <1>2, <1>3, <1>4 DEF Watched

\* Clauses that are open stay so when level 0 loses no literal that they know.
LEMMA StayOpen ==
    ASSUME TypeOK, \A c \in Lasting : Open(c),
           GroundLits \subseteq LitsUpto(0)',
           visited' \cap LitsUpto(0)' \subseteq visited \cap LitsUpto(0),
           \A c \in Lasting' : c \in Lasting \/ Open(c)'
    PROVE  Watched'
<1> SUFFICES ASSUME NEW c \in Lasting PROVE Open(c)'
  BY DEF Watched
<1>1. c \subseteq PlainLit
  BY DEF TypeOK, Lasting
<1>2. CASE c \cap LitsUpto(0) # {}
  <2>1. c \cap GroundLits # {}
    BY <1>1, <1>2, PlainIsLit DEF GroundLits
  <2> QED
    BY <2>1 DEF Open
<1>3. CASE \E k, l \in c : k # l /\ {-k, -l} \cap visited \cap LitsUpto(0) = {}
  <2>1. \E k, l \in c : k # l /\ {-k, -l} \cap visited' \cap LitsUpto(0)' = {}
    BY <1>3
  <2> QED
    BY <2>1 DEF Open
<1> QED
  BY <1>2, <1>3 DEF Open

\* The database determines what it did.
LEMMA StaysDetermined ==
    ASSUME Determined, UNCHANGED <<trans, lemmas, rep, formula>>, GroundLits \subseteq GroundLits'
    PROVE  Determined'
BY DEF Determined, RepOf


\* Nothing was skipped: what `propagated` has passed at level 0 was walked.
LEMMA NoneSkipped ==
    ASSUME overlooked' = (overlooked \/ Skipped'), ~overlooked', high' = 0
    PROVE  Reached'
<1>1. ~Skipped'
  BY Zenon
<1> QED
  BY <1>1 DEF Skipped, Reached
-----------------------------------------------------------------------------
(***************************************************************************)
(* Nothing is lost: the beginning and the calls between questions.         *)
(***************************************************************************)

\* Two literals make more than one.
LEMMA TwoMany ==
    ASSUME NEW c, c \subseteq Lit
    PROVE  Cardinality(c) > 1 <=> \E k, l \in c : k # l
<1>1. IsFiniteSet(c) /\ Cardinality(c) \in Nat
  BY ClauseFinite
<1>2. ASSUME Cardinality(c) > 1 PROVE \E k, l \in c : k # l
  <2>1. PICK k \in c : TRUE
    BY <1>2, FS_EmptySet
  <2>2. c # {k}
    BY <1>2, FS_Singleton
  <2> QED
    BY <2>1, <2>2
<1>3. ASSUME NEW k \in c, NEW l \in c, k # l PROVE Cardinality(c) > 1
  <2>1. Cardinality(c) # 0
    BY <1>1, FS_EmptySet
  <2>2. Cardinality(c) # 1
    BY <1>1, <1>3, FS_Singleton
  <2> QED
    BY <1>1, <2>1, <2>2
<1> QED
  BY <1>2, <1>3

\* In the beginning the constants are assigned, and the other clauses have two literals.
LEMMA CompleteInit == Init => Complete
<1> SUFFICES ASSUME Init PROVE Complete
  OBVIOUS
<1>1. IInv
  BY Initially
<1>2. trail \in Seq(Entry) /\ high = 0 /\ walk = 0 /\ pc = "idle" /\ propagated = Len(trail)
  BY <1>1 DEF Init, IInv, TypeOK
<1>3. LitsOf(trail) = Constants /\ visited = LitsOf(trail)
  BY DEF Init
<1>4. LitsUpto(0) = Constants
  BY <1>1, <1>2, <1>3, ZeroTrail DEF IInv
<1>5. Walks
  BY <1>2, <1>3 DEF Walks
<1>6. Merged
  <2>1. \A v \in Var : rep[v] = v /\ VarOf(v) = v
    BY LitType DEF Init
  <2> QED
    BY <2>1, ActType DEF Merged, Init
<1>7. Reached
  BY <1>3 DEF Reached, LitsOf
<1>8. PICK known \in [Circuit -> SUBSET Constants] :
          /\ \A c \in trans : \E d \in Circuit : c = Reduced(d, known[d])
          /\ \A d \in Circuit : ~Satisfied(d, known[d]) /\ Cardinality(Reduced(d, known[d])) > 1 =>
                 Reduced(d, known[d]) \in trans
  BY DEF Init
<1>9. ASSUME NEW d \in Circuit, NEW u \in SUBSET Constants, d \cap Constants = {}
      PROVE  \E k, l \in Reduced(d, u) : k # l /\ -k \notin Constants /\ -l \notin Constants
  <2>1. PICK m \in CircuitModels : TRUE
    BY CircuitAssumption
  <2>2. PICK k \in d : k \in m
    BY <2>1 DEF CircuitModels, Holds
  <2>3. -k \notin Constants
    <3>1. -k \notin m
      BY <2>1, <2>2, CircuitPlain, AssignmentType, PlainIsLit DEF CircuitModels
    <3> QED
      BY <2>1, <3>1, ConstantsAre
  <2>4. PICK l \in d : l # k /\ -l \notin Constants
    <3> SUFFICES ASSUME \A l \in d : l = k \/ -l \in Constants PROVE FALSE
      OBVIOUS
    <3>1. Negated(d \ {k}) \subseteq Constants
      BY DEF Negated
    <3> QED
      BY <1>9, <3>1, ConstantsAre
  <2> QED
    BY <2>3, <2>4 DEF Reduced
<1>10. Watched
  <2> SUFFICES ASSUME NEW c \in Lasting PROVE Open(c)
    BY DEF Watched
  <2>1. PICK d \in Circuit : c = Reduced(d, known[d])
    BY <1>8 DEF Init, Lasting
  <2>2. known[d] \in SUBSET Constants
    OBVIOUS
  <2>3. CASE d \cap Constants = {}
    BY <1>4, <1>9, <2>1, <2>2, <2>3 DEF Open
  <2>4. CASE d \cap Constants # {}
    <3>1. PICK l \in d : l \in Constants
      BY <2>4
    <3>2. PICK m \in CircuitModels : TRUE
      BY CircuitAssumption
    <3>3. -l \notin m
      BY <3>1, <3>2, ConstantsAre, AssignmentType, PlainIsLit DEF CircuitModels
    <3>4. -l \notin known[d]
      BY <2>2, <3>2, <3>3, ConstantsAre
    <3> QED
      BY <1>4, <2>1, <3>1, <3>4 DEF Open, Reduced
  <2> QED
    BY <2>3, <2>4
<1>11. Determined
  <2> SUFFICES ASSUME NEW m \in Assignments, \A c \in trans : Holds(c, m), GroundLits \subseteq m,
                      NEW c \in Circuit
               PROVE  Holds(c, m)
    BY DEF Init, Determined
  <2>1. c \subseteq PlainLit /\ c \subseteq Lit
    BY CircuitPlain, PlainIsLit
  <2>2. Constants \subseteq m
    <3>1. Constants \subseteq GroundLits
      BY <1>4, ConstantsAre, PlainIsLit DEF GroundLits
    <3> QED
      BY <3>1
  <2>3. CASE \E l \in c : -l \in c
    BY <2>1, <2>3, AssignmentType DEF Holds
  <2>4. CASE c \cap Constants # {}
    BY <2>2, <2>4 DEF Holds
  <2>5. CASE c \cap Constants = {} /\ ~\E l \in c : -l \in c
    <3> DEFINE r == Reduced(c, known[c])
    <3>1. known[c] \in SUBSET Constants
      OBVIOUS
    <3>2. PICK k, l \in r : k # l
      BY <1>9, <2>5, <3>1
    <3>3. r \subseteq c /\ r \subseteq Lit
      BY <2>1 DEF Reduced
    <3>4. ~Satisfied(c, known[c])
      BY <2>5, <3>1 DEF Satisfied
    <3> HIDE DEF r
    <3>5. Cardinality(r) > 1
      BY <3>2, <3>3, TwoMany
    <3>6. r \in trans
      BY <1>8, <3>4, <3>5 DEF r
    <3> QED
      BY <3>3, <3>6 DEF Holds
  <2> QED
    BY <2>3, <2>4, <2>5
<1> QED
  BY <1>5, <1>6, <1>7, <1>10, <1>11 DEF Complete

\* A step that leaves clauses and trail alone.
LEMMA QuietComplete ==
    ASSUME Complete, Walks', user' = user,
           UNCHANGED <<trans, lemmas, learnt, trail, high, propagated, visited, walk, rep,
                       trivial_unsat, formula, overlooked>>
    PROVE  Complete'
<1>1. Merged' /\ (Reached => Reached')
  BY DEF Complete, Merged, Reached
<1>2. LitsUpto(0)' = LitsUpto(0) /\ GroundLits' = GroundLits /\ Lasting' = Lasting
  BY DEF LitsUpto, GroundLits, Lasting
<1>3. Watched => Watched'
  BY <1>2 DEF Watched, Contradicted, Walking, Open
<1>4. Determined => Determined'
  BY <1>2, StaysDetermined
<1> QED
  BY <1>1, <1>3, <1>4 DEF Complete

\* The calls that change neither.
LEMMA QuietCallComplete ==
    ASSUME Complete,
           UnsetDomain \/ (\E v \in LeafVar : Flip(v)) \/ (\E q \in Questions[user] : Solve(q))
    PROVE  Complete'
<1>1. /\ pc = "idle"
      /\ UNCHANGED <<trans, lemmas, learnt, trail, high, propagated, visited, walk, rep,
                     trivial_unsat, formula, overlooked, user>>
      /\ pc' \in {"idle", "propagate"}
  BY DEF UnsetDomain, Flip, Solve, Call, db, assigns, simps, history
<1>2. Walks'
  BY <1>1 DEF Walks, Complete
<1> QED
  BY <1>1, <1>2, QuietComplete


\* add_eq: the representative of two classes that are merged represents itself, and what was
\* represented before is represented still.
LEMMA AddEqComplete ==
    ASSUME IInv, Complete, NEW e \in Candidates, AddEq(e[1], e[2])
    PROVE  Complete'
<1> DEFINE x == e[1]
           y == e[2]
           xp == RepOf(x)
           yp == RepOf(y)
           to == IF VarOf(xp) > VarOf(yp) THEN yp ELSE xp
           from == IF VarOf(xp) > VarOf(yp) THEN xp ELSE yp
<1>1. /\ pc = "idle" /\ pc' = "idle" /\ user = "frts" /\ ans = "unsat"
      /\ question.constraint = Differ(x, y)
      /\ UNCHANGED <<trans, lemmas, learnt, trail, high, propagated, visited, walk, user,
                     trivial_unsat, formula, overlooked>>
      /\ rep' = [v \in Var |-> IF rep[v] = from THEN to
                               ELSE IF rep[v] = -from THEN -to ELSE rep[v]]
      /\ x \in PlainLit /\ y \in PlainLit
  BY InputAssumption DEF AddEq, Call, db, assigns, answers, simps
<1> HIDE DEF x, y
<1>2. TypeOK /\ Represented /\ CoreRight /\ Merged /\ formula = {}
  BY <1>1 DEF IInv, Complete, Merged
<1>3. xp \in PlainLit /\ yp \in PlainLit
  BY <1>1, <1>2, RepOfFollows
<1>4. xp # -yp
  <2>1. PICK m \in CircuitModels : TRUE
    BY CircuitAssumption
  <2>2. xp \in m <=> yp \in m
    BY <1>1, <1>2, RepOfFollows, SameValue
  <2>3. yp \in m <=> -yp \notin m
    BY <1>3, PlainIsLit, AssignmentType DEF CircuitModels
  <2> QED
    BY <2>2, <2>3
<1>5. rep[VarOf(xp)] = VarOf(xp) /\ rep[VarOf(yp)] = VarOf(yp)
  <2>1. ASSUME NEW l \in PlainLit PROVE rep[VarOf(RepOf(l))] = VarOf(RepOf(l))
    <3>1. l \in Lit /\ l \in Int /\ l # 0 /\ VarOf(l) \in Var
      BY LitType, PlainIsLit
    <3>2. rep[VarOf(l)] \in Lit
      BY <1>2, <3>1 DEF TypeOK
    <3>3. RepOf(l) = rep[VarOf(l)] \/ RepOf(l) = -rep[VarOf(l)]
      BY <3>1 DEF RepOf, VarOf
    <3>4. VarOf(RepOf(l)) = VarOf(rep[VarOf(l)])
      BY <3>2, <3>3, SameVar
    <3> QED
      BY <1>2, <3>1, <3>4 DEF Merged
  <2> QED
    BY <1>1, <2>1
<1> HIDE DEF xp, yp
<1>6. /\ to \in PlainLit /\ from \in PlainLit /\ to \in Lit /\ from \in Lit
      /\ -to \in Lit /\ -from \in Lit /\ -(-to) = to /\ -(-from) = from
      /\ rep[VarOf(to)] = VarOf(to) /\ rep[VarOf(from)] = VarOf(from)
      /\ VarOf(to) \in Var /\ VarOf(from) \in Var
  BY <1>3, <1>5, LitType, PlainIsLit
<1>7. to = from \/ VarOf(to) # VarOf(from)
  <2>1. to # -from
    BY <1>3, <1>4, <1>6, LitType, PlainIsLit
  <2> QED
    BY <1>6, <2>1, SameVar
<1> HIDE DEF to, from
<1>8. ASSUME NEW v \in Var
      PROVE  /\ rep'[v] = IF rep[v] = from THEN to ELSE IF rep[v] = -from THEN -to ELSE rep[v]
             /\ rep[v] \in Lit
  BY <1>1, <1>2 DEF TypeOK
<1>9. ASSUME NEW v \in Var PROVE rep'[VarOf(rep'[v])] = VarOf(rep'[v])
  <2>1. CASE to = from
    <3>1. \A u \in Var : rep'[u] = rep[u]
      BY <1>8, <2>1
    <3>2. VarOf(rep[v]) \in Var
      BY <1>8, LitType
    <3> QED
      BY <1>2, <3>1, <3>2 DEF Merged
  <2>2. CASE VarOf(to) # VarOf(from)
    <3>1. \A l \in Lit : VarOf(l) # VarOf(from) => l # from /\ l # -from
      BY <1>6, SameVar
    <3>2. CASE rep[v] = from \/ rep[v] = -from
      <4>1. VarOf(rep'[v]) = VarOf(to)
        BY <1>6, <1>8, <3>2, SameVar
      <4>2. VarOf(to) \in Lit /\ VarOf(VarOf(to)) = VarOf(to)
        BY <1>6, LitType
      <4>3. rep'[VarOf(to)] = rep[VarOf(to)]
        BY <1>6, <1>8, <2>2, <3>1, <4>2
      <4> QED
        BY <1>6, <4>1, <4>3
    <3>3. CASE ~(rep[v] = from \/ rep[v] = -from)
      <4>1. rep'[v] = rep[v] /\ VarOf(rep[v]) \in Var /\ rep[VarOf(rep[v])] = VarOf(rep[v])
        BY <1>2, <1>8, <3>3, LitType DEF Merged
      <4>2. VarOf(rep[v]) # VarOf(from)
        BY <1>6, <1>8, <3>3, SameVar
      <4>3. VarOf(rep[v]) \in Lit /\ VarOf(VarOf(rep[v])) = VarOf(rep[v])
        BY <4>1, LitType
      <4>4. rep'[VarOf(rep[v])] = rep[VarOf(rep[v])]
        BY <1>8, <3>1, <4>1, <4>2, <4>3
      <4> QED
        BY <4>1, <4>4
    <3> QED
      BY <3>2, <3>3
  <2> QED
    BY <1>7, <2>1, <2>2
<1>10. Merged'
  <2>1. Act \in Var /\ rep[Act] = Act /\ Act # from /\ Act # -from
    BY <1>2, <1>6, ActType, PlainType, PlainIsLit DEF Merged
  <2>2. rep'[Act] = Act
    BY <1>8, <2>1
  <2> QED
    BY <1>1, <1>2, <1>9, <2>2 DEF Merged
<1>11. ASSUME Determined PROVE Determined'
  <2>1. GroundLits' = GroundLits
    BY <1>1 DEF GroundLits, LitsUpto
  <2>2. ASSUME NEW m \in Assignments, \A v \in Var : (v \in m) = (rep'[v] \in m), NEW v \in Var
        PROVE  (v \in m) = (rep[v] \in m)
    <3>1. \A l \in Lit : l \in m <=> -l \notin m
      BY <2>2, AssignmentType
    <3>2. from \in m <=> to \in m
      <4> DEFINE f == VarOf(from)
      <4>1. f \in Var /\ rep[f] = f /\ (f = from \/ f = -from)
        BY <1>6 DEF VarOf
      <4>2. rep'[f] = IF f = from THEN to ELSE -to
        BY <1>8, <4>1
      <4>3. f \in m <=> rep'[f] \in m
        BY <2>2, <4>1
      <4> HIDE DEF f
      <4> QED
        BY <1>6, <3>1, <4>1, <4>2, <4>3
    <3>3. v \in m <=> rep'[v] \in m
      BY <2>2
    <3> QED
      BY <1>6, <1>8, <3>1, <3>2, <3>3
  <2>3. ASSUME NEW v \in Var PROVE RepOf(v) = rep[v] /\ RepOf(v)' = rep'[v]
    BY LitType DEF RepOf
  <2> QED
    BY <1>1, <1>11, <2>1, <2>2, <2>3 DEF Determined
<1>12. Reached => Reached'
  BY <1>1 DEF Reached
<1>13. Watched => Watched'
  BY <1>1 DEF Watched, Contradicted, Walking, Open, LitsUpto, Lasting
<1>14. Walks'
  BY <1>1 DEF Walks, Complete
<1> QED
  BY <1>1, <1>10, <1>11, <1>12, <1>13, <1>14 DEF Complete


-----------------------------------------------------------------------------
(***************************************************************************)
(* Nothing is lost: going back to level 0 between two questions.           *)
(***************************************************************************)

\* backtrack(0) and clean_temporary, with what the caller assigns at level 0 afterwards: clauses
\* that were open stay open, and a contradicted one stays contradicted.
LEMMA GroundWatched ==
    ASSUME TypeOK, Levels, Watched, walk = 0, walk' = 0, TypeOK', Levels',
           visited' = visited \cap GroundLits, high' = 0, GroundLits \subseteq LitsUpto(0)',
           Lasting \subseteq Lasting' \/ ~Contradicted,
           \A c \in Lasting' : c \in Lasting \/ Open(c)'
    PROVE  Watched'
<1>1. \A c \in Lasting : c \subseteq PlainLit
  BY DEF TypeOK, Lasting
<1>2. \A c : ~Walking(c) /\ ~Walking(c)'
  BY DEF Walking
<1>3. CASE Contradicted
  <2>1. PICK c \in Lasting : Negated(c) \subseteq LitsUpto(0) /\ \E l \in c : -l \notin visited
    BY <1>2, <1>3 DEF Contradicted
  <2>2. Negated(c) \subseteq GroundLits
    <3>1. \A l \in c : -l # Act /\ -l # -Act
      <4>1. \A l \in c : l \in Lit /\ -l \in PlainLit
        BY <1>1, PlainIsLit, PlainType
      <4> QED
        BY <4>1, PlainIsLit
    <3> QED
      BY <2>1, <3>1 DEF GroundLits, Negated
  <2>3. c \in Lasting' /\ Negated(c) \subseteq LitsUpto(0)' /\ \E l \in c : -l \notin visited'
    BY <1>3, <2>1, <2>2
  <2> QED
    BY <2>3 DEF Contradicted, Watched
<1>4. CASE ~Contradicted
  <2>1. \A c \in Lasting : Open(c)
    BY <1>2, <1>4 DEF Watched
  <2>2. visited' \cap LitsUpto(0)' \subseteq visited \cap LitsUpto(0)
    BY DEF GroundLits
  <2> QED
    BY <2>1, <2>2, StayOpen
<1> QED
  BY <1>3, <1>4

\* add_clause keeps what the clause says, as a clause or as a literal.
LEMMA AddClauseComplete ==
    ASSUME IInv, IInv', Complete, NEW c \in Lemmas, AddClause(c)
    PROVE  Complete'
<1> DEFINE u == GroundLits
           r == Reduced(c, u)
<1>1. /\ pc = "idle" /\ formula' = formula \cup {c} /\ high' = 0 /\ user = "ic3"
      /\ visited' = visited \cap u /\ c \subseteq PlainLit
      /\ UNCHANGED <<user, trans, learnt, walk, rep>>
      /\ overlooked' = (overlooked \/ Skipped')
      /\ lemmas \subseteq lemmas' /\ lemmas' \subseteq lemmas \cup {r}
  BY InputAssumption DEF AddClause, Call, ToGround, simps
<1>2. /\ TypeOK /\ Levels /\ Grounded /\ TypeOK' /\ Levels' /\ Grounded'
      /\ walk = 0 /\ walk' = 0 /\ Walks
  BY <1>1 DEF IInv, Complete, Walks
<1>3. ZeroLits(Ground) = u /\ LitsOf(Ground) = u /\ Ground \in Seq(Entry) /\ u \subseteq LitsUpto(0)
  BY <1>2, ZeroGround, GroundIs DEF TypeOK, Levels
<1> HIDE DEF u
<1>4. \/ Satisfied(c, u) /\ trail' = Ground /\ UNCHANGED <<lemmas, trivial_unsat, pc, then>>
      \/ /\ ~Satisfied(c, u) /\ trivial_unsat' = (trivial_unsat \/ r = {})
         /\ \/ /\ Cardinality(r) = 1 /\ pc' = "propagate" /\ then' = "idle"
               /\ \E l \in r : trail' = Assigned(Ground, l, {}, 0)
            \/ Cardinality(r) # 1 /\ trail' = Ground /\ pc' = "idle"
         /\ Cardinality(r) > 1 => lemmas' = lemmas \cup {r}
         /\ ~(Cardinality(r) > 1) => lemmas' = lemmas
  BY DEF AddClause, AddReduced, u
<1>5. r \subseteq c /\ \A l \in r : -l \notin u /\ l \in Lit
  BY <1>1, PlainIsLit DEF Reduced
<1>6. IsFiniteSet(r) /\ Cardinality(r) \in Nat
  BY <1>5, ClauseFinite
<1> HIDE DEF r
<1>7. /\ u \subseteq ZeroLits(trail') /\ u \subseteq LitsOf(trail')
      /\ ~Satisfied(c, u) /\ Cardinality(r) = 1 => r \subseteq ZeroLits(trail')
  <2>1. CASE trail' = Ground /\ ~(~Satisfied(c, u) /\ Cardinality(r) = 1)
    BY <1>3, <2>1
  <2>2. CASE ~Satisfied(c, u) /\ Cardinality(r) = 1
    <3>1. PICK l \in r : trail' = Assigned(Ground, l, {}, 0)
      BY <1>4, <2>2
    <3>2. r = {l}
      BY <1>6, <2>2, <3>1, FS_Singleton
    <3>3. /\ ZeroLits(Assigned(Ground, l, {}, 0)) = ZeroLits(Ground) \cup {l}
          /\ LitsOf(Assigned(Ground, l, {}, 0)) = LitsOf(Ground) \cup {l}
      BY <1>3, <1>5, ZeroUnit
    <3> QED
      BY <1>3, <3>1, <3>2, <3>3
  <2> QED
    BY <1>4, <2>1, <2>2
<1>8. LitsUpto(0)' = ZeroLits(trail')
  BY DEF LitsUpto, ZeroLits
<1>9. u \subseteq GroundLits'
  <2>1. Act \notin u /\ -Act \notin u
    BY DEF u, GroundLits
  <2> QED
    BY <1>7, <1>8, <2>1 DEF GroundLits
<1>10. Walks'
  <2>1. visited' \subseteq LitsOf(trail)'
    BY <1>1, <1>7
  <2>2. pc' = "idle" \/ (pc' = "propagate" /\ then' = "idle")
    BY <1>1, <1>4
  <2> QED
    BY <1>2, <2>1, <2>2 DEF Walks
<1>11. Merged'
  BY <1>1 DEF Complete, Merged
<1>12. ASSUME ~overlooked' PROVE Reached'
  BY <1>1, <1>12, NoneSkipped
<1>13. ASSUME ~overlooked', ~trivial_unsat' PROVE Watched'
  <2>1. Watched
    BY <1>1, <1>4, <1>13 DEF Complete
  <2>2. ASSUME NEW d \in Lasting', d \notin Lasting PROVE Open(d)'
    <3>1. d = r /\ ~Satisfied(c, u) /\ Cardinality(r) > 1
      BY <1>1, <1>4, <2>2 DEF Lasting
    <3>2. PICK k \in r : TRUE
      BY <3>1, FS_EmptySet
    <3>3. PICK l \in r : l # k
      BY <3>1, <3>2, FS_Singleton
    <3>4. {-k, -l} \cap visited' \cap LitsUpto(0)' = {}
      BY <1>1, <1>5
    <3> QED
      BY <3>1, <3>3, <3>4 DEF Open
  <2>3. Lasting \subseteq Lasting'
    BY <1>1 DEF Lasting
  <2> QED
    BY <1>1, <1>2, <1>7, <1>8, <2>1, <2>2, <2>3, GroundWatched DEF u
<1>14. ASSUME ~overlooked', ~trivial_unsat' PROVE Determined'
  <2>1. Determined
    BY <1>1, <1>4, <1>14 DEF Complete
  <2> SUFFICES ASSUME NEW m \in Assignments, \A d \in trans' \cup lemmas' : Holds(d, m),
                      GroundLits' \subseteq m, \A v \in Var : (v \in m) = (RepOf(v)' \in m)
               PROVE  \A d \in Circuit \cup formula' : Holds(d, m)
    BY DEF Determined
  <2>2. \A v \in Var : RepOf(v)' = RepOf(v)
    BY <1>1 DEF RepOf
  <2>3. \A d \in Circuit \cup formula : Holds(d, m)
    BY <1>1, <1>9, <2>1, <2>2 DEF Determined, u
  <2>4. Holds(c, m)
    <3>1. CASE c \cap u # {}
      BY <1>9, <3>1 DEF Holds
    <3>2. CASE \E l \in c : -l \in c
      BY <1>1, <3>2, PlainIsLit, AssignmentType DEF Holds
    <3>3. CASE ~Satisfied(c, u) /\ Cardinality(r) > 1
      BY <1>4, <1>5, <3>3 DEF Holds
    <3>4. CASE ~Satisfied(c, u) /\ Cardinality(r) = 1
      <4>1. r \subseteq GroundLits'
        BY <1>1, <1>5, <1>7, <1>8, <3>4, PlainIsLit DEF GroundLits
      <4>2. r # {}
        BY <3>4, FS_EmptySet
      <4> QED
        BY <1>5, <4>1, <4>2 DEF Holds
    <3>5. CASE ~Satisfied(c, u) /\ Cardinality(r) = 0
      BY <1>4, <1>6, <1>14, <3>5, FS_EmptySet
    <3>6. Cardinality(r) > 1 \/ Cardinality(r) = 1 \/ Cardinality(r) = 0
      BY <1>6
    <3> QED
      BY <3>1, <3>2, <3>3, <3>4, <3>5, <3>6 DEF Satisfied
  <2> QED
    BY <1>1, <2>3, <2>4
<1> QED
  BY <1>10, <1>11, <1>12, <1>13, <1>14 DEF Complete

\* set_domain cleans up after the last question.
LEMMA SetDomainComplete ==
    ASSUME IInv, IInv', Complete, NEW d \in Domains, SetDomain(d)
    PROVE  Complete'
<1>1. /\ pc = "idle" /\ pc' = "idle" /\ high' = 0 /\ trail' = Ground
      /\ visited' = visited \cap GroundLits
      /\ UNCHANGED <<user, formula, trans, lemmas, learnt, rep, trivial_unsat, walk>>
      /\ overlooked' = (overlooked \/ Skipped')
  BY DEF SetDomain, Call, ToGround, simps, db
<1>2. /\ TypeOK /\ Levels /\ TypeOK' /\ Levels' /\ walk = 0 /\ walk' = 0
  BY <1>1 DEF IInv, Complete, Walks
<1>3. /\ LitsUpto(0)' = GroundLits /\ LitsOf(trail)' = GroundLits
      /\ Act \notin GroundLits /\ -Act \notin GroundLits
  <2>1. /\ ZeroLits(Ground) = GroundLits /\ LitsOf(Ground) = GroundLits
        /\ GroundLits = LitsUpto(0) \ {Act, -Act}
    BY <1>2, ZeroGround DEF TypeOK, Levels
  <2>2. LitsUpto(0)' = ZeroLits(trail')
    BY DEF LitsUpto, ZeroLits
  <2> QED
    BY <1>1, <2>1, <2>2
<1>4. GroundLits' = GroundLits
  BY <1>3 DEF GroundLits
<1>5. Walks' /\ Merged'
  BY <1>1, <1>2, <1>3 DEF Walks, Complete, Merged
<1>6. ~overlooked' => Reached'
  BY <1>1, NoneSkipped
<1>7. Lasting' = Lasting
  BY <1>1 DEF Lasting
<1>8. Watched => Watched'
  BY <1>1, <1>2, <1>3, <1>7, GroundWatched
<1>9. Determined => Determined'
  BY <1>1, <1>4, StaysDetermined
<1> QED
  BY <1>1, <1>5, <1>6, <1>8, <1>9 DEF Complete

\* new_round does as well; it starts where all of level 0 is propagated.
LEMMA NewRoundComplete == ASSUME IInv, IInv', Complete, NewRound PROVE Complete'
<1>1. /\ pc = "start" /\ pc' \in {"idle", "simplify"} /\ high' = 0 /\ trail' = Ground
      /\ propagated' = IF high = 0 THEN propagated ELSE PosInTrail(trail, 0)
      /\ visited' = visited \cap GroundLits
      /\ UNCHANGED <<user, formula, trans, lemmas, rep, trivial_unsat, walk, overlooked>>
  BY DEF NewRound, ToGround, simps, history, Refute
<1>2. learnt' \subseteq learnt
  BY CleanedType DEF NewRound
<1>3. /\ TypeOK /\ Levels /\ TypeOK' /\ Levels' /\ walk = 0 /\ walk' = 0
      /\ ~trivial_unsat /\ propagated >= Len(trail) /\ Walks
  BY <1>1 DEF IInv, Complete, Walks
<1>4. /\ LitsUpto(0)' = GroundLits /\ LitsOf(trail)' = GroundLits
      /\ Act \notin GroundLits /\ -Act \notin GroundLits /\ GroundLits \subseteq LitsUpto(0)
      /\ Len(Ground) <= PosInTrail(trail, 0)
  <2>1. /\ ZeroLits(Ground) = GroundLits /\ LitsOf(Ground) = GroundLits
        /\ GroundLits = LitsUpto(0) \ {Act, -Act} /\ Len(Ground) <= PosInTrail(trail, 0)
    BY <1>3, ZeroGround DEF TypeOK, Levels
  <2>2. LitsUpto(0)' = ZeroLits(trail')
    BY DEF LitsUpto, ZeroLits
  <2> QED
    BY <1>1, <2>1, <2>2
<1>5. GroundLits' = GroundLits
  BY <1>4 DEF GroundLits
<1>6. propagated' >= Len(trail')
  <2>1. PosInTrail(trail, 0) \in 0..Len(trail) /\ Len(trail) \in Nat
    BY <1>3, PosInTrailIs, Trails DEF TypeOK, Levels
  <2>2. Len(Ground) \in Nat
    BY <1>1, <1>3, Trails DEF TypeOK
  <2> QED
    BY <1>1, <1>3, <1>4, <2>1, <2>2 DEF TypeOK
<1>7. Walks' /\ Merged'
  BY <1>1, <1>3, <1>4, <1>6 DEF Walks, Complete, Merged
<1>8. ASSUME ~overlooked PROVE Reached' /\ Watched' /\ Determined'
  <2>1. Reached /\ Watched /\ Determined
    BY <1>3, <1>8 DEF Complete
  <2>2. LitsUpto(0) \subseteq visited /\ \A c \in Lasting : Open(c)
    BY <1>3, <2>1, AllOpen
  <2>3. Reached'
    <3>1. \A i \in DOMAIN trail' : trail'[i].lit \in GroundLits
      BY <1>4 DEF LitsOf
    <3> QED
      BY <1>1, <1>4, <2>2, <3>1 DEF Reached
  <2>4. Lasting' \subseteq Lasting
    BY <1>1, <1>2 DEF Lasting
  <2>5. visited' \cap LitsUpto(0)' \subseteq visited \cap LitsUpto(0)
    BY <1>1, <1>4
  <2>6. Watched'
    BY <1>3, <1>4, <2>2, <2>4, <2>5, StayOpen
  <2>7. Determined'
    BY <1>1, <1>5, <2>1, StaysDetermined
  <2> QED
    BY <2>3, <2>6, <2>7
<1> QED
  BY <1>1, <1>3, <1>7, <1>8 DEF Complete

\* Steps of the search that change neither clauses nor assignments.
LEMMA QuietStepComplete ==
    ASSUME Complete, TrivialUnsat \/ EqCleaned \/ Resolve \/ AssumeFalse \/ AnswerSat
    PROVE  Complete'
<1>1. UNCHANGED <<user, trans, lemmas, learnt, trail, high, propagated, visited, walk, rep,
                  trivial_unsat, formula, overlooked>>
  BY DEF TrivialUnsat, EqCleaned, Resolve, AssumeFalse, AnswerSat, Refute, db, assigns, simps,
         history
<1>2. \/ pc = "propagate" /\ then = "start" /\ trivial_unsat /\ pc' = "idle"
      \/ pc = "eq" /\ then' = "search" /\ pc' = "propagate"
      \/ pc = "analyze" /\ pc' = pc
      \/ pc = "branch" /\ pc' = "idle"
  BY DEF TrivialUnsat, EqCleaned, Resolve, AssumeFalse, AnswerSat, Refute
<1>3. Walks'
  BY <1>1, <1>2 DEF Complete, Walks
<1> QED
  BY <1>1, <1>3, QuietComplete

-----------------------------------------------------------------------------
(***************************************************************************)
(* Nothing is lost: simplification.                                        *)
(***************************************************************************)

\* What is open where all was walked has two literals that are not false, and is watched.
LEMMA OpenWatchable ==
    ASSUME TypeOK, Levels, Grounded, high = 0, LitsUpto(0) \subseteq visited,
           NEW c \in Lasting, Open(c), Live(c)
    PROVE  Watchable(c) /\ Unwalked(c) = {}
<1>1. LitsUpto(0) = LitsOf(trail) /\ c \subseteq Lit
  BY ZeroTrail, PlainIsLit DEF TypeOK, Lasting
<1>2. PICK k, l \in c : k # l /\ {-k, -l} \cap visited \cap LitsUpto(0) = {}
  BY <1>1 DEF Open, Live
<1>3. k \in Reduced(c, LitsOf(trail)) /\ l \in Reduced(c, LitsOf(trail))
  BY <1>1, <1>2 DEF Reduced
<1>4. Reduced(c, LitsOf(trail)) \subseteq Lit
  BY <1>1 DEF Reduced
<1>5. Watchable(c)
  BY <1>2, <1>3, <1>4, TwoMany DEF Watchable
<1>6. Unwalked(c) = {}
  BY <1>1 DEF Unwalked, False
<1> QED
  BY <1>5, <1>6

\* simplify_satisfied_clauses drops satisfied clauses only.
LEMMA SimplifyComplete == ASSUME IInv, IInv', Complete, Simplify PROVE Complete'
<1> DEFINE u == LitsOf(trail)
<1>1. /\ pc = "simplify" /\ \/ pc' = "eq"
                            \/ pc' = "propagate" /\ then' = "search"
      /\ UNCHANGED <<user, formula, trail, high, propagated, visited, walk, rep, trivial_unsat,
                     overlooked>>
  BY DEF Simplify, assigns, history
<1>2. /\ TypeOK /\ Levels /\ Grounded /\ high = 0 /\ walk = 0 /\ walk' = 0
      /\ ~trivial_unsat /\ propagated >= Len(trail) /\ Walks
  BY <1>1 DEF IInv, Control, Complete, Walks
<1>3. Walks' /\ Merged'
  BY <1>1, <1>2 DEF Walks, Complete, Merged
<1>4. ASSUME ~overlooked PROVE Reached' /\ Watched' /\ Determined'
  <2>1. Reached /\ Watched /\ Determined
    BY <1>2, <1>4 DEF Complete
  <2>2. LitsUpto(0) \subseteq visited /\ \A c \in Lasting : Open(c)
    BY <1>2, <2>1, AllOpen
  <2>3. Reached'
    BY <1>1, <2>1 DEF Reached
  <2>4. LitsUpto(0) = u /\ LitsUpto(0)' = LitsUpto(0) /\ GroundLits' = GroundLits
    BY <1>1, <1>2, ZeroTrail DEF LitsUpto, GroundLits
  <2>5. \/ UNCHANGED <<trans, lemmas, learnt>>
        \/ \E dropped \in SUBSET {c \in Lasting : Live(c) /\ Watchable(c) /\ Unwalked(c) # {}} :
               /\ lemmas' = Simplified(lemmas, dropped)
               /\ learnt' = Simplified(learnt, dropped)
               /\ trans' = Simplified(trans, dropped)
    BY DEF Simplify, SimplifySatisfied, Lasting, db
  <2>6. CASE UNCHANGED <<trans, lemmas, learnt>>
    <3>1. Lasting' = Lasting
      BY <2>6 DEF Lasting
    <3>2. Watched'
      BY <1>1, <2>1, <2>4, <3>1 DEF Watched, Contradicted, Walking, Open
    <3>3. Determined'
      BY <1>1, <2>1, <2>4, <2>6, StaysDetermined
    <3> QED
      BY <2>3, <3>2, <3>3
  <2>7. ASSUME NEW dropped \in SUBSET {c \in Lasting : Live(c) /\ Watchable(c) /\ Unwalked(c) # {}},
               lemmas' = Simplified(lemmas, dropped), learnt' = Simplified(learnt, dropped),
               trans' = Simplified(trans, dropped)
        PROVE  Watched' /\ Determined'
    <3>1. \A c \in Lasting : c \subseteq PlainLit /\ c \subseteq Lit
      BY <1>2, PlainIsLit DEF TypeOK, Lasting
    <3>2. ASSUME NEW r \in Lasting' PROVE Open(r)'
      <4>1. PICK c \in Lasting : Watchable(c) /\ r = Reduced(c, u)
        BY <2>7 DEF Lasting, Simplified
      <4>2. r \subseteq Lit /\ Cardinality(r) > 1 /\ \A l \in r : -l \notin u
        BY <3>1, <4>1 DEF Watchable, Reduced
      <4>3. PICK k, l \in r : k # l
        BY <4>2, TwoMany
      <4>4. {-k, -l} \cap visited' \cap LitsUpto(0)' = {}
        BY <2>4, <4>2
      <4> QED
        BY <4>3, <4>4 DEF Open
    <3>3. Watched'
      BY <3>2 DEF Watched
    <3>4. ASSUME NEW m \in Assignments, GroundLits \subseteq m,
                 NEW s \in {trans, lemmas}, \A c \in Simplified(s, dropped) : Holds(c, m),
                 NEW c \in s
          PROVE  Holds(c, m)
      <4>1. c \in Lasting
        BY DEF Lasting
      <4>2. CASE ~Live(c)
        <5>1. PICK l \in c : l \in u
          BY <4>2 DEF Live
        <5>2. l \in GroundLits
          BY <2>4, <3>1, <4>1, <5>1, PlainIsLit DEF GroundLits
        <5> QED
          BY <3>4, <5>2 DEF Holds
      <4>3. CASE Live(c)
        <5>1. Watchable(c) /\ Unwalked(c) = {}
          BY <1>2, <2>2, <4>1, <4>3, OpenWatchable
        <5>2. Reduced(c, u) \in Simplified(s, dropped)
          BY <4>3, <5>1 DEF Simplified
        <5>3. Reduced(c, u) \subseteq c
          BY DEF Reduced
        <5> QED
          BY <3>4, <5>2, <5>3 DEF Holds
      <4> QED
        BY <4>2, <4>3
    <3>5. Determined'
      <4> SUFFICES ASSUME NEW m \in Assignments, \A c \in trans' \cup lemmas' : Holds(c, m),
                          GroundLits' \subseteq m, \A v \in Var : (v \in m) = (RepOf(v)' \in m)
                   PROVE  \A c \in Circuit \cup formula' : Holds(c, m)
        BY DEF Determined
      <4>1. \A v \in Var : RepOf(v)' = RepOf(v)
        BY <1>1 DEF RepOf
      <4>2. \A c \in trans : Holds(c, m)
        BY <2>4, <2>7, <3>4
      <4>3. \A c \in lemmas : Holds(c, m)
        BY <2>4, <2>7, <3>4
      <4> QED
        BY <1>1, <2>1, <2>4, <4>1, <4>2, <4>3 DEF Determined
    <3> QED
      BY <3>3, <3>5
  <2> QED
    BY <2>3, <2>5, <2>6, <2>7
<1> QED
  BY <1>1, <1>3, <1>4 DEF Complete

\* In an assignment that agrees with the equivalences a clause holds if it holds rewritten.
LEMMA RewrittenHolds ==
    ASSUME TypeOK, NEW m \in Assignments, \A v \in Var : (v \in m) = (RepOf(v) \in m),
           NEW c, c \subseteq Lit, Holds(Rewritten(c), m)
    PROVE  Holds(c, m)
<1>1. \A l \in Lit : l \in m <=> -l \notin m
  BY AssignmentType
<1>2. ASSUME NEW l \in Lit, RepOf(l) \in m PROVE l \in m
  <2>1. CASE l > 0
    BY <1>2, <2>1, LitType DEF VarOf
  <2>2. CASE ~(l > 0)
    <3> DEFINE v == -l
    <3>1. v \in Var /\ l = -v /\ l \in Int
      BY <2>2, LitType DEF VarOf
    <3>2. RepOf(l) = -rep[v] /\ RepOf(v) = rep[v] /\ rep[v] \in Lit
      BY <2>2, <3>1, LitType DEF RepOf, TypeOK
    <3>3. rep[v] \notin m
      BY <1>1, <1>2, <3>2
    <3>4. v \notin m /\ v \in Lit
      BY <3>1, <3>2, <3>3, LitType
    <3> QED
      BY <1>1, <3>1, <3>4
  <2> QED
    BY <2>1, <2>2
<1>3. PICK l \in c : RepOf(l) \in m
  BY DEF Holds, Rewritten
<1> QED
  BY <1>2, <1>3 DEF Holds

\* clean_eq keeps what the rewritten clause says, as a clause or as a literal.
LEMMA CleanEqComplete == ASSUME IInv, IInv', Complete, CleanEq PROVE Complete'
<1> DEFINE u == LitsOf(trail)
<1>1. PICK c \in Lasting :
        LET d == Rewritten(c)
            r == Reduced(d, u)
            In(s) == IF c \in s
                     THEN (s \ {c}) \cup (IF Satisfied(d, u) \/ Cardinality(r) < 2 THEN {} ELSE {r})
                     ELSE s
        IN  /\ pc = "eq"
            /\ trans' = In(trans) /\ lemmas' = In(lemmas) /\ learnt' = In(learnt)
            /\ UNCHANGED <<high, propagated, visited, walk, rep, user, formula>>
            /\ IF Satisfied(d, u)
               THEN UNCHANGED <<trail, trivial_unsat, pc, then>>
               ELSE AddReduced(trail, r, "eq")
            /\ overlooked' = (overlooked \/ Skipped')
  BY DEF CleanEq, Lasting, simps
<1> DEFINE d == Rewritten(c)
           r == Reduced(d, u)
<1>2. /\ pc = "eq" /\ overlooked' = (overlooked \/ Skipped')
      /\ UNCHANGED <<high, propagated, visited, walk, rep, user, formula>>
  BY <1>1
<1>3. /\ TypeOK /\ TypeOK' /\ Levels /\ Grounded /\ Represented /\ Database
      /\ high = 0 /\ walk = 0 /\ walk' = 0
      /\ (~trivial_unsat => propagated >= Len(trail)) /\ visited \subseteq u /\ trail \in Seq(Entry)
  BY <1>2 DEF IInv, Control, Complete, Walks, TypeOK
<1>4. \/ Satisfied(d, u) /\ UNCHANGED <<trail, trivial_unsat, pc, then>>
      \/ /\ ~Satisfied(d, u) /\ trivial_unsat' = (trivial_unsat \/ r = {})
         /\ \/ /\ Cardinality(r) = 1 /\ pc' = "propagate" /\ then' = "eq"
               /\ \E l \in r : trail' = Assigned(trail, l, {}, 0)
            \/ Cardinality(r) # 1 /\ trail' = trail /\ pc' = "eq"
  BY <1>1 DEF AddReduced
<1> DEFINE Small == Satisfied(d, u) \/ Cardinality(r) < 2
<1>5. /\ \A e \in Lasting' : e \in Lasting \/ (e = r /\ ~Small)
      /\ \A e \in trans \cup lemmas : e # c => e \in trans' \cup lemmas'
      /\ c \in trans \cup lemmas /\ ~Small => r \in trans' \cup lemmas'
  <2> DEFINE In(s) == IF c \in s THEN (s \ {c}) \cup (IF Small THEN {} ELSE {r}) ELSE s
  <2>1. trans' = In(trans) /\ lemmas' = In(lemmas) /\ learnt' = In(learnt)
    BY <1>1
  <2>2. ASSUME NEW s PROVE /\ \A e \in In(s) : e \in s \/ (e = r /\ ~Small)
                           /\ \A e \in s : e # c => e \in In(s)
                           /\ c \in s /\ ~Small => r \in In(s)
    <3> HIDE DEF Small, r, d
    <3> QED
      OBVIOUS
  <2> HIDE DEF In, Small, r, d
  <2>3. Lasting' = In(trans) \cup In(lemmas) \cup In(learnt)
    BY <2>1 DEF Lasting
  <2> QED
    BY <2>1, <2>2, <2>3 DEF Lasting
<1>6. d \subseteq PlainLit /\ d \subseteq Lit /\ c \subseteq Lit
  <2>1. c \subseteq PlainLit /\ Entails(formula, c)
    BY <1>3 DEF TypeOK, Database, Lasting
  <2> QED
    BY <1>3, <2>1, RewrittenFollows, PlainIsLit
<1> HIDE DEF d
<1>7. r \subseteq d /\ r \subseteq Lit /\ \A l \in r : -l \notin u
  BY <1>6 DEF Reduced
<1>8. IsFiniteSet(r) /\ Cardinality(r) \in Nat
  BY <1>7, ClauseFinite
<1> HIDE DEF r
<1>9. /\ LitsUpto(0) = u /\ LitsUpto(0)' = ZeroLits(trail') /\ ZeroLits(trail) = u
  BY <1>3, ZeroTrail DEF LitsUpto, ZeroLits
<1>10. /\ u \subseteq ZeroLits(trail') /\ u \subseteq LitsOf(trail')
       /\ ~Satisfied(d, u) /\ Cardinality(r) = 1 => r \subseteq ZeroLits(trail')
  <2>1. CASE trail' = trail /\ ~(~Satisfied(d, u) /\ Cardinality(r) = 1)
    BY <1>9, <2>1
  <2>2. CASE ~Satisfied(d, u) /\ Cardinality(r) = 1
    <3>1. PICK l \in r : trail' = Assigned(trail, l, {}, 0)
      BY <1>4, <2>2
    <3>2. r = {l}
      BY <1>8, <2>2, <3>1, FS_Singleton
    <3>3. ZeroLits(trail') = ZeroLits(trail) \cup {l} /\ LitsOf(trail') = LitsOf(trail) \cup {l}
      BY <1>3, <1>7, <3>1, ZeroUnit
    <3> QED
      BY <1>9, <3>2, <3>3
  <2> QED
    BY <1>4, <2>1, <2>2
<1>11. GroundLits \subseteq GroundLits' /\ GroundLits \subseteq LitsUpto(0)'
  BY <1>9, <1>10 DEF GroundLits
<1>12. Walks'
  <2>1. visited' \subseteq LitsOf(trail)'
    BY <1>2, <1>3, <1>10
  <2>2. pc' = "eq" \/ (pc' = "propagate" /\ then' = "eq")
    BY <1>2, <1>4
  <2>3. pc' = "eq" /\ ~trivial_unsat' => propagated' >= Len(trail')
    <3>1. pc' = "eq" => trail' = trail
      BY <1>4
    <3>2. ~trivial_unsat' => ~trivial_unsat
      BY <1>4
    <3> QED
      BY <1>2, <1>3, <3>1, <3>2
  <2> QED
    BY <1>3, <2>1, <2>2, <2>3 DEF Walks
<1>13. Merged'
  BY <1>2 DEF Complete, Merged
<1>14. ASSUME ~overlooked' PROVE Reached'
  BY <1>2, <1>3, <1>14, NoneSkipped
<1>15. ASSUME ~overlooked', ~trivial_unsat' PROVE Watched' /\ Determined'
  <2>1. ~overlooked /\ ~trivial_unsat
    <3>1. ~overlooked
      BY <1>2, <1>15, Zenon
    <3>2. ~trivial_unsat
      BY <1>4, <1>15
    <3> QED
      BY <3>1, <3>2
  <2>2. Reached /\ Watched /\ Determined /\ Walks
    BY <2>1 DEF Complete
  <2>3. \A e \in Lasting : Open(e)
    BY <1>3, <2>1, <2>2, AllOpen
  <2>4. visited' \cap LitsUpto(0)' \subseteq visited \cap LitsUpto(0)
    BY <1>2, <1>3, <1>9
  <2>5. ASSUME NEW e \in Lasting', e \notin Lasting PROVE Open(e)'
    <3>1. e = r /\ Cardinality(r) > 1
      BY <1>5, <1>8, <2>5
    <3>2. PICK k, l \in e : k # l
      BY <1>7, <3>1, TwoMany
    <3>3. {-k, -l} \cap visited' \cap LitsUpto(0)' = {}
      BY <1>7, <1>9, <2>4, <3>1
    <3> QED
      BY <3>2, <3>3 DEF Open
  <2>6. \A e \in Lasting' : e \in Lasting \/ Open(e)'
    BY <2>5
  <2>7. Watched'
    BY <1>3, <1>11, <2>3, <2>4, <2>6, StayOpen
  <2>8. Determined'
    <3> SUFFICES ASSUME NEW m \in Assignments, \A e \in trans' \cup lemmas' : Holds(e, m),
                        GroundLits' \subseteq m, \A v \in Var : (v \in m) = (RepOf(v)' \in m)
                 PROVE  \A e \in Circuit \cup formula' : Holds(e, m)
      BY DEF Determined
    <3>1. \A v \in Var : RepOf(v)' = RepOf(v)
      BY <1>2 DEF RepOf
    <3>2. ASSUME c \in trans \cup lemmas PROVE Holds(d, m)
      <4>1. CASE d \cap u # {}
        <5>1. PICK l \in d : l \in u
          BY <4>1
        <5>2. l \in GroundLits
          BY <1>6, <1>9, <5>1, PlainIsLit DEF GroundLits
        <5> QED
          BY <1>11, <5>2 DEF Holds
      <4>2. CASE \E l \in d : -l \in d
        BY <1>6, <4>2, AssignmentType DEF Holds
      <4>3. CASE ~Small
        BY <1>5, <1>7, <3>2, <4>3 DEF Holds
      <4>4. CASE ~Satisfied(d, u) /\ Cardinality(r) = 1
        <5>1. r \subseteq GroundLits'
          BY <1>6, <1>7, <1>9, <1>10, <4>4, PlainIsLit DEF GroundLits
        <5>2. r # {}
          BY <4>4, FS_EmptySet
        <5> QED
          BY <1>7, <5>1, <5>2 DEF Holds
      <4>5. CASE ~Satisfied(d, u) /\ Cardinality(r) = 0
        BY <1>4, <1>8, <1>15, <4>5, FS_EmptySet
      <4>6. ~(Cardinality(r) < 2) \/ Cardinality(r) = 1 \/ Cardinality(r) = 0
        BY <1>8
      <4> QED
        BY <4>1, <4>2, <4>3, <4>4, <4>5, <4>6 DEF Satisfied
    <3>3. c \in trans \cup lemmas => Holds(c, m)
      BY <1>3, <1>6, <3>1, <3>2, RewrittenHolds DEF d
    <3>4. \A e \in trans \cup lemmas : Holds(e, m)
      BY <1>5, <3>3
    <3>5. GroundLits \subseteq m
      BY <1>11
    <3> QED
      BY <1>2, <2>2, <3>1, <3>4, <3>5 DEF Determined
  <2> QED
    BY <2>7, <2>8
<1> QED
  BY <1>12, <1>13, <1>14, <1>15 DEF Complete

-----------------------------------------------------------------------------
(***************************************************************************)
(* Nothing is lost: propagation.                                           *)
(***************************************************************************)

\* At level 0 a literal's list is only finished when no clause in it is false, but for its other
\* watch, and none has one unassigned literal left.
LEMMA NothingPending ==
    ASSUME high = 0, ~Pending, walk # 0, NEW c \in Clauses, Walked(c)
    PROVE  /\ Falsified(c) => ~(Cardinality(Unwalked(c)) <= 1)
           /\ Unwalked(c) = {} => \A l \in c : ~UnitOf(c, l)
<1>1. ~Passable(c)
  BY DEF Passable
<1> QED
  BY <1>1 DEF Pending

\* Then the clauses of the literal are open without it.
LEMMA SettledOpen ==
    ASSUME TypeOK, Levels, Grounded, Walks, high = 0, ~Pending,
           NEW c \in Lasting, Open(c) \/ Walking(c)
    PROVE  Open(c)
<1> SUFFICES ASSUME Walking(c), ~Open(c) PROVE FALSE
  OBVIOUS
<1>1. walk # 0 /\ Walked(c) /\ c \in Clauses
  BY DEF Walking, Walked, Lasting, Clauses
<1>2. /\ LitsUpto(0) = LitsOf(trail) /\ visited \subseteq LitsOf(trail) /\ c \subseteq Lit
      /\ \A l \in Lit : l \in LitsOf(trail) => -l \notin LitsOf(trail)
  BY ZeroTrail, PlainIsLit DEF Walks, TypeOK, Lasting
<1>3. c \cap LitsOf(trail) = {} /\ \A k, l \in c : k # l => -k \in visited \/ -l \in visited
  BY <1>2 DEF Open
<1>4. \A l \in c : -l \in visited => False(l)
  BY <1>2 DEF False
<1>5. CASE \A l \in c : -l \in visited
  <2>1. Falsified(c) /\ Unwalked(c) = {}
    BY <1>4, <1>5 DEF Falsified, Unwalked
  <2>2. Cardinality(Unwalked(c)) <= 1
    BY <2>1, FS_EmptySet
  <2> QED
    BY <1>1, <2>1, <2>2, NothingPending
<1>6. ASSUME NEW k \in c, -k \notin visited PROVE FALSE
  <2>1. \A l \in c \ {k} : -l \in visited /\ False(l)
    BY <1>3, <1>4, <1>6
  <2>2. CASE False(k)
    <3>1. Falsified(c) /\ Unwalked(c) = {k}
      BY <1>6, <2>1, <2>2 DEF Falsified, Unwalked
    <3>2. Cardinality(Unwalked(c)) <= 1
      BY <3>1, FS_Singleton
    <3> QED
      BY <1>1, <3>1, <3>2, NothingPending
  <2>3. CASE ~False(k)
    <3>1. ~True(k)
      BY <1>3 DEF True
    <3>2. Unassigned(VarOf(k))
      <4>1. k \in Lit /\ k \in Int /\ -(-k) = k
        BY <1>2, LitType
      <4> QED
        BY <2>3, <3>1, <4>1 DEF Unassigned, True, False, VarOf
    <3>3. UnitOf(c, k)
      BY <2>1, <3>2 DEF UnitOf, InDomain
    <3>4. Unwalked(c) = {}
      BY <2>1, <2>3 DEF Unwalked
    <3> QED
      BY <1>1, <3>3, <3>4, NothingPending
  <2> QED
    BY <2>2, <2>3
<1> QED
  BY <1>5, <1>6

\* A contradicted clause has a literal that is still to be walked.
LEMMA SettledContradiction ==
    ASSUME TypeOK, Levels, Grounded, ~Pending, Contradicted
    PROVE  \E c \in Lasting : Negated(c) \subseteq LitsUpto(0) /\ \E l \in c : -l \notin visited
<1>1. PICK c \in Lasting : /\ Negated(c) \subseteq LitsUpto(0)
                           /\ Walking(c) \/ \E l \in c : -l \notin visited
  BY DEF Contradicted
<1>2. CASE Walking(c)
  <2>1. high = 0 /\ walk # 0 /\ Walked(c) /\ c \in Clauses
    BY <1>2 DEF Walking, Walked, Lasting, Clauses
  <2>2. Falsified(c)
    BY <1>1, <2>1, ZeroTrail DEF Falsified, False, Negated
  <2>3. ~(Cardinality(Unwalked(c)) <= 1)
    BY <2>1, <2>2, NothingPending
  <2>4. Unwalked(c) # {}
    BY <2>3, FS_EmptySet
  <2>5. \E l \in c : -l \notin visited
    BY <2>4 DEF Unwalked
  <2> QED
    BY <1>1, <2>5
<1> QED
  BY <1>1, <1>2

\* What is watched stays so while level 0 grows by literals whose lists were not walked.
LEMMA WatchedGrows ==
    ASSUME Watched, UNCHANGED <<high, visited, walk, trans, lemmas, learnt>>,
           LitsUpto(0) \subseteq LitsUpto(0)',
           visited \cap LitsUpto(0)' \subseteq visited \cap LitsUpto(0)
    PROVE  Watched'
<1>1. Lasting' = Lasting /\ \A c : Walking(c)' <=> Walking(c)
  BY DEF Lasting, Walking
<1>2. CASE Contradicted
  BY <1>1, <1>2 DEF Contradicted, Watched
<1>3. CASE \A c \in Lasting : Open(c) \/ Walking(c)
  <2>1. ASSUME NEW c \in Lasting, Open(c) PROVE Open(c)'
    <3>1. c \cap LitsUpto(0) # {} => c \cap LitsUpto(0)' # {}
      OBVIOUS
    <3>2. ASSUME NEW k \in c, NEW l \in c, k # l, {-k, -l} \cap visited \cap LitsUpto(0) = {}
          PROVE  {-k, -l} \cap visited' \cap LitsUpto(0)' = {}
      BY <3>2
    <3> QED
      BY <2>1, <3>1, <3>2 DEF Open
  <2> QED
    BY <1>1, <1>3, <2>1 DEF Watched
<1> QED
  BY <1>2, <1>3 DEF Watched

\* A literal that is assigned is not walked yet; no list is finished before it is.
LEMMA PropUnitComplete == ASSUME IInv, IInv', Complete, PropUnit PROVE Complete'
<1>1. PICK c \in Clauses : \E l \in c : UnitOf(c, l) /\ trail' = Assigned(trail, l, c, high)
  BY DEF PropUnit
<1>2. PICK l \in c : UnitOf(c, l) /\ trail' = Assigned(trail, l, c, high)
  BY <1>1
<1>3. /\ pc = "propagate" /\ walk # 0 /\ ~(then = "start" /\ trivial_unsat)
      /\ UNCHANGED <<user, formula, trans, lemmas, learnt, high, propagated, visited, walk,
                     rep, trivial_unsat, pc, then, overlooked>>
  BY DEF PropUnit, Propagating, db, simps, history
<1>4. /\ TypeOK /\ Levels /\ Grounded /\ Walks /\ trail \in Seq(Entry) /\ high \in Nat
      /\ propagated \in Nat /\ Len(trail) \in Nat /\ propagated <= Len(trail)
      /\ visited \subseteq LitsOf(trail)
  BY <1>3, LenProperties DEF IInv, Complete, Walks, TypeOK
<1>5. l \in Lit /\ l \notin LitsOf(trail)
  <2>1. l \in Lit /\ Unassigned(VarOf(l))
    BY <1>2, <1>4, ClausesType DEF UnitOf
  <2>2. \A i \in DOMAIN trail : trail[i].lit # l
    BY <1>4, <2>1, UnassignedIs
  <2> QED
    BY <2>1, <2>2 DEF LitsOf
<1>6. /\ Len(trail') = Len(trail) + 1
      /\ trail'[Len(trail) + 1].level = high
      /\ \A i \in DOMAIN trail : trail'[i] = trail[i]
      /\ \A i \in DOMAIN trail' : i = Len(trail) + 1 \/ i \in DOMAIN trail
      /\ high = 0 => ZeroLits(trail') = ZeroLits(trail) \cup {l}
      /\ high # 0 => ZeroLits(trail') = ZeroLits(trail)
      /\ LitsOf(trail') = LitsOf(trail) \cup {l}
  BY <1>2, <1>4, <1>5, ZeroAssigned
<1>7. LitsUpto(0) = ZeroLits(trail) /\ LitsUpto(0)' = ZeroLits(trail')
  BY DEF LitsUpto, ZeroLits
<1>8. /\ LitsUpto(0) \subseteq LitsUpto(0)'
      /\ visited \cap LitsUpto(0)' \subseteq visited \cap LitsUpto(0)
  BY <1>4, <1>5, <1>6, <1>7
<1>9. GroundLits \subseteq GroundLits'
  BY <1>8 DEF GroundLits
<1>10. Walks'
  <2>1. visited' \subseteq LitsOf(trail')
    BY <1>3, <1>4, <1>6
  <2>2. propagated' <= Len(trail')
    BY <1>3, <1>4, <1>6
  <2> QED
    BY <1>3, <1>4, <2>1, <2>2 DEF Walks
<1>11. Merged'
  BY <1>3 DEF Complete, Merged
<1>12. Reached => Reached'
  <2> SUFFICES ASSUME Reached, NEW i \in DOMAIN trail', trail'[i].level = 0,
                      i <= propagated \/ high > 0
               PROVE  trail'[i].lit \in visited
    BY <1>3 DEF Reached
  <2>1. i # Len(trail) + 1
    BY <1>4, <1>6
  <2> QED
    BY <1>6, <2>1 DEF Reached
<1>13. Watched => Watched'
  BY <1>3, <1>8, WatchedGrows
<1>14. Determined => Determined'
  BY <1>3, <1>9, StaysDetermined
<1> QED
  BY <1>3, <1>10, <1>11, <1>12, <1>13, <1>14 DEF Complete

\* When a list is finished its clauses are open; the next one makes the difference from now on.
LEMMA PropWalkComplete == ASSUME IInv, IInv', Complete, PropWalk PROVE Complete'
<1> DEFINE n == propagated + 1
<1>1. /\ pc = "propagate" /\ ~(then = "start" /\ trivial_unsat) /\ ~Pending
      /\ propagated < Len(trail) /\ propagated' = n
      /\ walk' = trail[n].lit /\ visited' = visited \cup {walk'}
      /\ UNCHANGED <<user, formula, trans, lemmas, learnt, trail, high,
                     rep, trivial_unsat, pc, then, overlooked>>
  BY DEF PropWalk, Propagating, db, simps, history
<1>2. /\ TypeOK /\ Levels /\ Grounded /\ Walks /\ trail \in Seq(Entry)
      /\ propagated \in Nat /\ Len(trail) \in Nat /\ DOMAIN trail = 1..Len(trail)
      /\ visited \subseteq LitsOf(trail)
  BY Trails DEF IInv, Complete, Walks, TypeOK
<1>3. n \in DOMAIN trail /\ n <= Len(trail) /\ n \in Nat
  BY <1>1, <1>2
<1>4. walk' \in LitsOf(trail) /\ walk' \in Lit /\ walk' # 0 /\ -(-walk') = walk'
  <2>1. trail[n].lit \in LitsOf(trail)
    BY <1>3 DEF LitsOf
  <2>2. trail[n].lit \in Lit
    BY <1>2, <1>3, Trails
  <2> QED
    BY <1>1, <2>1, <2>2, LitType
<1>5. Walks' /\ Merged'
  BY <1>1, <1>2, <1>3, <1>4 DEF Walks, Complete, Merged
<1>6. LitsUpto(0)' = LitsUpto(0) /\ GroundLits' = GroundLits /\ Lasting' = Lasting
  BY <1>1 DEF LitsUpto, GroundLits, Lasting
<1>7. ASSUME Reached PROVE Reached'
  <2> SUFFICES ASSUME NEW i \in DOMAIN trail, trail[i].level = 0, i <= n \/ high > 0
               PROVE  trail[i].lit \in visited'
    BY <1>1 DEF Reached
  <2>1. i <= propagated \/ high > 0 \/ i = n
    BY <1>2, <1>3
  <2> QED
    BY <1>1, <1>7, <2>1 DEF Reached
<1>8. ASSUME Reached, Watched PROVE Watched'
  <2>1. CASE high > 0
    <3>1. LitsUpto(0) \subseteq visited /\ \A c \in Lasting : Open(c)
      BY <1>2, <1>8, <2>1, AllOpen
    <3>2. visited' \cap LitsUpto(0)' \subseteq visited \cap LitsUpto(0)
      BY <1>6, <3>1
    <3>3. GroundLits \subseteq LitsUpto(0)'
      BY <1>6 DEF GroundLits
    <3> QED
      BY <1>2, <1>6, <3>1, <3>2, <3>3, StayOpen
  <2>2. CASE high = 0 /\ Contradicted
    <3>1. PICK c \in Lasting :
              Negated(c) \subseteq LitsUpto(0) /\ \E l \in c : -l \notin visited
      BY <1>1, <1>2, <2>2, SettledContradiction
    <3>2. PICK l \in c : -l \notin visited
      BY <3>1
    <3>3. c \subseteq Lit
      BY <1>2, PlainIsLit DEF TypeOK, Lasting
    <3>4. -l \notin visited' \/ -walk' \in c
      <4>1. -(-l) = l
        BY <3>3, LitType
      <4> QED
        BY <1>1, <3>2, <4>1
    <3>5. Walking(c)' \/ \E k \in c : -k \notin visited'
      BY <1>1, <1>4, <2>2, <3>4 DEF Walking
    <3> QED
      BY <1>1, <1>6, <2>2, <3>1, <3>5 DEF Watched, Contradicted
  <2>3. CASE high = 0 /\ ~Contradicted
    <3>1. ASSUME NEW c \in Lasting PROVE Open(c)' \/ Walking(c)'
      <4>1. Open(c)
        BY <1>1, <1>2, <1>8, <2>3, SettledOpen DEF Watched
      <4>2. CASE c \cap LitsUpto(0) # {}
        BY <1>6, <4>2 DEF Open
      <4>3. CASE \E k, l \in c : k # l /\ {-k, -l} \cap visited \cap LitsUpto(0) = {}
        <5>1. PICK k, l \in c : k # l /\ {-k, -l} \cap visited \cap LitsUpto(0) = {}
          BY <4>3
        <5>2. c \subseteq Lit
          BY <1>2, PlainIsLit DEF TypeOK, Lasting
        <5>3. -(-k) = k /\ -(-l) = l
          BY <5>2, LitType
        <5>4. CASE walk' \in {-k, -l}
          <6>1. -walk' \in c
            BY <5>3, <5>4
          <6> QED
            BY <1>1, <1>4, <2>3, <6>1 DEF Walking
        <5>5. CASE walk' \notin {-k, -l}
          <6>1. {-k, -l} \cap visited' \cap LitsUpto(0)' = {}
            BY <1>1, <1>6, <5>1, <5>5
          <6> QED
            BY <5>1, <6>1 DEF Open
        <5> QED
          BY <5>4, <5>5
      <4> QED
        BY <4>1, <4>2, <4>3 DEF Open
    <3> QED
      BY <1>6, <3>1 DEF Watched
  <2>4. high > 0 \/ high = 0
    BY <1>2 DEF TypeOK
  <2> QED
    BY <2>1, <2>2, <2>3, <2>4
<1>9. Determined => Determined'
  BY <1>1, <1>6, StaysDetermined
<1> QED
  BY <1>1, <1>5, <1>7, <1>8, <1>9 DEF Complete

\* Propagation ends without a conflict.
LEMMA PropagatedComplete == ASSUME IInv, IInv', Complete, Propagated PROVE Complete'
<1>1. /\ pc = "propagate" /\ ~(then = "start" /\ trivial_unsat) /\ ~Pending
      /\ propagated >= Len(trail) /\ walk' = 0 /\ pc' = then
      /\ UNCHANGED <<user, formula, trans, lemmas, learnt, trail, high, propagated, visited,
                     rep, trivial_unsat, then, overlooked>>
  BY DEF Propagated, Propagating, db, assigns, simps, history
<1>2. /\ TypeOK /\ Levels /\ Grounded /\ Walks /\ visited \subseteq LitsOf(trail)
      /\ then \in {"idle", "start", "eq", "search"}
  BY DEF IInv, Complete, Walks, TypeOK
<1>3. Walks' /\ Merged'
  BY <1>1, <1>2 DEF Walks, Complete, Merged
<1>4. LitsUpto(0)' = LitsUpto(0) /\ GroundLits' = GroundLits /\ Lasting' = Lasting
  BY <1>1 DEF LitsUpto, GroundLits, Lasting
<1>5. Reached => Reached'
  BY <1>1 DEF Reached
<1>6. \A c : Open(c)' <=> Open(c)
  BY <1>1, <1>4 DEF Open
<1>7. ASSUME Reached, Watched PROVE Watched'
  <2>1. CASE high > 0
    <3>1. \A c \in Lasting : Open(c)
      BY <1>2, <1>7, <2>1, AllOpen
    <3> QED
      BY <1>4, <1>6, <3>1 DEF Watched
  <2>2. CASE high = 0 /\ Contradicted
    <3>1. \E c \in Lasting : Negated(c) \subseteq LitsUpto(0) /\ \E l \in c : -l \notin visited
      BY <1>1, <1>2, <2>2, SettledContradiction
    <3> QED
      BY <1>1, <1>4, <2>2, <3>1 DEF Watched, Contradicted
  <2>3. CASE high = 0 /\ ~Contradicted
    <3>1. \A c \in Lasting : Open(c)
      BY <1>1, <1>2, <1>7, <2>3, SettledOpen DEF Watched
    <3> QED
      BY <1>4, <1>6, <3>1 DEF Watched
  <2>4. high > 0 \/ high = 0
    BY <1>2 DEF TypeOK
  <2> QED
    BY <2>1, <2>2, <2>3, <2>4
<1>8. Determined => Determined'
  BY <1>1, <1>4, StaysDetermined
<1> QED
  BY <1>1, <1>3, <1>5, <1>7, <1>8 DEF Complete

\* A conflict at level 0 leaves the clause behind, false, and one of its literals unwalked.
LEMMA ConflictComplete == ASSUME IInv, IInv', Complete, Conflict PROVE Complete'
<1>0. TypeOK /\ Levels /\ Grounded /\ Control /\ Walks /\ high \in Nat /\ (~(high > 0) <=> high = 0)
  BY DEF IInv, Complete, TypeOK
<1>1. PICK c \in Clauses :
         /\ Falsified(c)
         /\ then = "search" /\ high = 0 => Unwalked(c) # {}
         /\ \/ /\ then = "search" /\ high > 0 /\ pc' = "analyze" /\ UNCHANGED trivial_unsat
            \/ /\ then = "search" /\ ~(high > 0) /\ pc' = "idle" /\ UNCHANGED trivial_unsat
            \/ /\ then = "start" /\ pc' = "idle" /\ trivial_unsat' = TRUE
            \/ /\ then \notin {"search", "start"} /\ pc' = then /\ trivial_unsat' = TRUE
  BY <1>0, Zenon DEF Conflict, Refute
<1>2. /\ pc = "propagate" /\ walk # 0 /\ walk' = 0
      /\ UNCHANGED <<user, formula, trans, lemmas, learnt, trail, high, propagated, visited,
                     rep, then, overlooked>>
  BY DEF Conflict, Propagating, db, assigns, simps, history
<1>3. Walks'
  <2>1. pc' \in {"analyze", "idle"} \/ (pc' \in {"idle", "eq"} /\ trivial_unsat')
    BY <1>0, <1>1 DEF TypeOK
  <2> QED
    BY <1>0, <1>2, <2>1 DEF Walks
<1>4. Merged' /\ (Reached => Reached')
  BY <1>2 DEF Complete, Merged, Reached
<1>5. LitsUpto(0)' = LitsUpto(0) /\ GroundLits' = GroundLits /\ Lasting' = Lasting
  BY <1>2 DEF LitsUpto, GroundLits, Lasting
<1>6. Determined => Determined'
  BY <1>2, <1>5, StaysDetermined
<1>7. CASE then = "search" /\ high > 0 /\ UNCHANGED trivial_unsat
  <2>1. ASSUME Reached, Watched PROVE Watched'
    <3>1. \A e \in Lasting : Open(e)
      BY <1>0, <1>7, <2>1, AllOpen
    <3>2. \A e : Open(e)' <=> Open(e)
      BY <1>2, <1>5 DEF Open
    <3> QED
      BY <1>5, <3>1, <3>2 DEF Watched
  <2> QED
    BY <1>2, <1>3, <1>4, <1>6, <1>7, <2>1 DEF Complete
<1>8. CASE then = "search" /\ high = 0 /\ UNCHANGED trivial_unsat
  <2>1. LitsUpto(0) = LitsOf(trail) /\ Act \notin LitsUpto(0)
    BY <1>0, <1>8, ZeroTrail
  <2>2. c \notin temporary
    <3> SUFFICES ASSUME c \in temporary PROVE FALSE
      OBVIOUS
    <3>1. -Act \in c /\ -(-Act) = Act
      BY <1>0, ActType, LitType DEF TypeOK
    <3> QED
      BY <1>1, <2>1, <3>1 DEF Falsified, False
  <2>3. c \in Lasting
    BY <2>2 DEF Lasting, Clauses
  <2>4. Negated(c) \subseteq LitsUpto(0) /\ \E l \in c : -l \notin visited
    BY <1>1, <1>8, <2>1 DEF Falsified, False, Negated, Unwalked
  <2>5. Watched'
    BY <1>2, <1>5, <1>8, <2>3, <2>4 DEF Watched, Contradicted
  <2> QED
    BY <1>2, <1>3, <1>4, <1>6, <1>8, <2>5 DEF Complete
<1>9. CASE trivial_unsat' = TRUE
  BY <1>2, <1>3, <1>4, <1>9 DEF Complete
<1> QED
  BY <1>0, <1>1, <1>7, <1>8, <1>9

-----------------------------------------------------------------------------
(***************************************************************************)
(* Nothing is lost: learning, restarts and decisions.                      *)
(***************************************************************************)

\* Going back to level k, with at most one literal that is assigned there: level 0 stays walked.
LEMMA BackWalked ==
    ASSUME TypeOK, Levels, Reached, high > 0, NEW k \in Nat, high' = k,
           propagated' = PosInTrail(trail, k), visited' = visited \cap LitsUpto(k),
           \A i \in DOMAIN trail' :
               \/ i \in DOMAIN Upto(trail, k) /\ trail'[i] = Upto(trail, k)[i]
               \/ i = Len(Upto(trail, k)) + 1 /\ trail'[i].level = k,
           ZeroLits(trail) \subseteq ZeroLits(trail'),
           k # 0 => ZeroLits(trail') = ZeroLits(trail)
    PROVE  /\ Reached'
           /\ GroundLits \subseteq LitsUpto(0)' /\ GroundLits \subseteq GroundLits'
           /\ visited' \cap LitsUpto(0)' \subseteq visited \cap LitsUpto(0)
<1> DEFINE t == Upto(trail, k)
<1>1. /\ trail \in Seq(Entry) /\ \A i \in DOMAIN trail : trail[i].level \in Nat
      /\ Len(t) = PosInTrail(trail, k) /\ Len(t) \in Nat
      /\ \A i \in DOMAIN t : i \in DOMAIN trail /\ t[i] = trail[i]
  BY UptoIs, Trails DEF TypeOK, Levels
<1>2. \A i \in DOMAIN trail' : \/ i \in DOMAIN t /\ trail'[i] = t[i]
                               \/ i = Len(t) + 1 /\ trail'[i].level = k
  OBVIOUS
<1> HIDE DEF t
<1>3. /\ LitsUpto(0) = ZeroLits(trail) /\ LitsUpto(0)' = ZeroLits(trail')
      /\ LitsUpto(0) \subseteq LitsUpto(k)
  <2>1. \A i \in DOMAIN trail : trail[i].level <= 0 => trail[i].level <= k
    BY <1>1
  <2> QED
    BY <2>1 DEF LitsUpto, ZeroLits
<1>4. Reached'
  <2> SUFFICES ASSUME NEW i \in DOMAIN trail', trail'[i].level = 0, i <= propagated' \/ high' > 0
               PROVE  trail'[i].lit \in visited'
    BY DEF Reached
  <2>1. ~(i = Len(t) + 1 /\ trail'[i].level = k)
    BY <1>1
  <2>2. i \in DOMAIN trail /\ trail'[i] = trail[i]
    BY <1>1, <1>2, <2>1
  <2>3. trail[i].lit \in visited
    BY <2>2 DEF Reached
  <2>4. trail[i].lit \in LitsUpto(0)
    <3>1. trail[i].level <= 0
      BY <2>2
    <3> QED
      BY <2>2, <3>1 DEF LitsUpto
  <2> QED
    BY <1>3, <2>2, <2>3, <2>4
<1>5. GroundLits \subseteq LitsUpto(0)' /\ GroundLits \subseteq GroundLits'
  BY <1>3 DEF GroundLits
<1>6. visited' \cap LitsUpto(0)' \subseteq visited \cap LitsUpto(0)
  <2>1. CASE k = 0
    BY <2>1
  <2>2. CASE k # 0
    BY <1>3, <2>2
  <2> QED
    BY <2>1, <2>2
<1> QED
  BY <1>4, <1>5, <1>6

\* A learnt clause has literals that are not of level 0.
LEMMA LearnComplete == ASSUME IInv, IInv', Complete, Learn PROVE Complete'
<1> DEFINE c == Minimal
           b == MaxLevel(c \ Top)
           r == IF Cardinality(c) = 1 THEN {} ELSE c
           t == Upto(trail, b)
<1>1. /\ pc = "analyze" /\ pc' = "propagate" /\ Cardinality(Top) = 1
      /\ high' = b /\ trail' = Assigned(t, Last, r, b)
      /\ propagated' = PosInTrail(trail, b) /\ visited' = visited \cap LitsUpto(b)
      /\ learnt' = IF Cardinality(c) > 1 /\ -Act \notin c THEN learnt \cup {c} ELSE learnt
      /\ UNCHANGED <<user, formula, trans, lemmas, walk, rep, trivial_unsat, then, overlooked>>
  BY DEF Learn, Back, simps, history
<1>2. /\ TypeOK /\ TypeOK' /\ Levels /\ Levels' /\ Control /\ Analysis /\ Walks
      /\ Grounded /\ Upper
      /\ high \in Nat /\ high > 0 /\ walk = 0 /\ walk' = 0 /\ then = "search"
  BY <1>1 DEF IInv, Complete, Walks, Control, TypeOK
<1>3. c \subseteq conf /\ Top \subseteq c /\ conf \subseteq Lit
  BY <1>1, <1>2, MinimalIs DEF TypeOK
<1> HIDE DEF c
<1>4. b \in Nat
  BY <1>1, <1>2, <1>3, MaxLevelIs
<1>5. Last \in Lit
  <2>1. Top # {}
    BY <1>1, FS_EmptySet
  <2>2. Last \in Top
    BY <1>1, <1>2, <2>1, LastIs
  <2> QED
    BY <1>3, <2>2
<1> HIDE DEF b, r
<1>6. /\ t \in Seq(Entry) /\ ZeroLits(t) = ZeroLits(trail) /\ LitsOf(t) = LitsUpto(b)
  <2>1. LitsUpto(b) = {trail[i].lit : i \in {j \in DOMAIN trail : trail[j].level <= b}}
    BY DEF LitsUpto
  <2> QED
    BY <1>2, <1>4, <2>1, UptoIs, ZeroUpto DEF TypeOK, Levels
<1>7. /\ trail'[Len(t) + 1].level = b
      /\ \A i \in DOMAIN t : trail'[i] = t[i]
      /\ \A i \in DOMAIN trail' : i = Len(t) + 1 \/ i \in DOMAIN t
      /\ b = 0 => ZeroLits(trail') = ZeroLits(t) \cup {Last}
      /\ b # 0 => ZeroLits(trail') = ZeroLits(t)
      /\ LitsOf(trail') = LitsOf(t) \cup {Last}
  <2> HIDE DEF t
  <2> QED
    BY <1>1, <1>4, <1>5, <1>6, ZeroAssigned
<1>8. \A i \in DOMAIN trail' : \/ i \in DOMAIN t /\ trail'[i] = t[i]
                               \/ i = Len(t) + 1 /\ trail'[i].level = b
  BY <1>7
<1>9. ZeroLits(trail) \subseteq ZeroLits(trail') /\ (b # 0 => ZeroLits(trail') = ZeroLits(trail))
  BY <1>6, <1>7
<1>10. Reached => /\ Reached'
                  /\ GroundLits \subseteq LitsUpto(0)' /\ GroundLits \subseteq GroundLits'
                  /\ visited' \cap LitsUpto(0)' \subseteq visited \cap LitsUpto(0)
  BY <1>1, <1>2, <1>4, <1>8, <1>9, BackWalked
<1>11. Walks' /\ Merged'
  <2>1. visited' \subseteq LitsOf(trail')
    BY <1>1, <1>6, <1>7
  <2> QED
    BY <1>1, <1>2, <2>1 DEF Walks, Complete, Merged
<1>12. ASSUME Reached, Watched PROVE Watched'
  <2>1. \A e \in Lasting : Open(e)
    BY <1>2, <1>12, AllOpen
  <2>2. ASSUME NEW l \in conf PROVE -l \notin LitsUpto(0)
    <3> SUFFICES ASSUME -l \in LitsUpto(0) PROVE FALSE
      OBVIOUS
    <3>1. PICK k \in DOMAIN trail : trail[k].lit = -l /\ trail[k].level > 0
      BY <1>1, <1>2 DEF Analysis
    <3>2. PICK j \in DOMAIN trail : trail[j].lit = -l /\ trail[j].level <= 0
      BY DEF LitsUpto
    <3>3. l \in Lit /\ trail \in Seq(Entry) /\ Ordered(trail)
      BY <1>2, <1>3 DEF TypeOK, Levels
    <3>4. PosOf(-l) = k /\ PosOf(-l) = j
      BY <3>1, <3>2, <3>3, FalseAt
    <3>5. trail[k].level \in Nat
      BY <3>3, Trails
    <3> QED
      BY <3>1, <3>2, <3>4, <3>5
  <2>3. ASSUME NEW e \in Lasting', e \notin Lasting PROVE Open(e)'
    <3>1. e = c /\ Cardinality(c) > 1
      BY <1>1, <2>3 DEF Lasting
    <3>2. PICK k, l \in e : k # l
      BY <1>3, <3>1, TwoMany
    <3>3. -k \notin LitsUpto(0) /\ -l \notin LitsUpto(0)
      BY <1>3, <2>2, <3>1
    <3>4. {-k, -l} \cap visited' \cap LitsUpto(0)' = {}
      BY <1>10, <1>12, <3>3
    <3> QED
      BY <3>2, <3>4 DEF Open
  <2> QED
    BY <1>2, <1>10, <1>12, <2>1, <2>3, StayOpen
<1>13. Reached /\ Determined => Determined'
  BY <1>1, <1>10, StaysDetermined
<1> QED
  BY <1>1, <1>10, <1>11, <1>12, <1>13 DEF Complete

\* A restart goes back to the assumptions, or stays where it is.
LEMMA RestartComplete == ASSUME IInv, IInv', Complete, Restart PROVE Complete'
<1> DEFINE k == Len(As)
<1>1. /\ pc = "search" /\ pc' \in {"idle", "propagate"}
      /\ UNCHANGED <<user, formula, trans, lemmas, learnt, walk, rep, trivial_unsat, then,
                     overlooked>>
  BY DEF Restart, db, simps, history
<1>2. /\ TypeOK /\ Levels /\ Walks /\ walk = 0 /\ walk' = 0 /\ then = "search"
      /\ k \in Nat
  BY <1>1, AsType, LenProperties DEF IInv, Complete, Walks, Control
<1> HIDE DEF k
<1>3. \/ /\ high > k /\ high' = k /\ trail' = Upto(trail, k)
         /\ propagated' = PosInTrail(trail, k) /\ visited' = visited \cap LitsUpto(k)
      \/ UNCHANGED <<trail, high, propagated, visited>>
  BY DEF Restart, Back, assigns, k
<1>4. CASE UNCHANGED <<trail, high, propagated, visited>>
  <2>1. Walks'
    BY <1>1, <1>2, <1>4 DEF Walks
  <2> QED
    BY <1>1, <1>4, <2>1, QuietComplete
<1>5. CASE /\ high > k /\ high' = k /\ trail' = Upto(trail, k)
           /\ propagated' = PosInTrail(trail, k) /\ visited' = visited \cap LitsUpto(k)
  <2>1. high > 0
    BY <1>2, <1>5 DEF TypeOK
  <2>2. ZeroLits(trail') = ZeroLits(trail) /\ LitsOf(trail') = LitsUpto(k)
    <3>1. LitsUpto(k) = {trail[i].lit : i \in {j \in DOMAIN trail : trail[j].level <= k}}
      BY DEF LitsUpto
    <3> QED
      BY <1>2, <1>5, <3>1, ZeroUpto DEF TypeOK, Levels
  <2>3. Reached => /\ Reached'
                   /\ GroundLits \subseteq LitsUpto(0)' /\ GroundLits \subseteq GroundLits'
                   /\ visited' \cap LitsUpto(0)' \subseteq visited \cap LitsUpto(0)
    BY <1>2, <1>5, <2>1, <2>2, BackWalked
  <2>4. Walks' /\ Merged'
    BY <1>1, <1>2, <1>5, <2>2 DEF Walks, Complete, Merged
  <2>5. ASSUME Reached, Watched PROVE Watched'
    <3>1. \A e \in Lasting : Open(e)
      BY <1>2, <2>1, <2>5, AllOpen
    <3>2. Lasting' = Lasting
      BY <1>1 DEF Lasting
    <3> QED
      BY <1>2, <2>3, <2>5, <3>1, <3>2, StayOpen
  <2>6. Reached /\ Determined => Determined'
    BY <1>1, <2>3, StaysDetermined
  <2> QED
    BY <1>1, <2>3, <2>4, <2>5, <2>6 DEF Complete
<1> QED
  BY <1>3, <1>4, <1>5

\* Where all is propagated, a new level or fewer learnt clauses change nothing at level 0.
LEMMA SettledComplete ==
    ASSUME IInv, Complete, walk = 0, propagated >= Len(trail), Walks',
           UNCHANGED <<user, formula, trans, lemmas, visited, walk, rep, trivial_unsat,
                       overlooked>>,
           learnt' \subseteq learnt,
           \A i \in DOMAIN trail' :
               trail'[i].level = 0 => i \in DOMAIN trail /\ trail'[i] = trail[i],
           ZeroLits(trail') = ZeroLits(trail)
    PROVE  Complete'
<1>1. TypeOK /\ Levels
  BY DEF IInv
<1>2. /\ LitsUpto(0) = ZeroLits(trail) /\ LitsUpto(0)' = LitsUpto(0) /\ GroundLits' = GroundLits
      /\ GroundLits \subseteq LitsUpto(0)
  BY DEF LitsUpto, ZeroLits, GroundLits
<1>3. Merged'
  BY DEF Complete, Merged
<1>4. ASSUME Reached PROVE Reached'
  <2>1. \A i \in DOMAIN trail : i <= propagated
    BY <1>1, Trails DEF TypeOK
  <2> QED
    BY <1>4, <2>1 DEF Reached
<1>5. ASSUME Reached, Watched PROVE Watched'
  <2>1. \A e \in Lasting : Open(e)
    BY <1>1, <1>5, AllOpen DEF Complete
  <2>2. Lasting' \subseteq Lasting
    BY DEF Lasting
  <2> QED
    BY <1>1, <1>2, <2>1, <2>2, StayOpen
<1>6. Determined => Determined'
  BY <1>2, StaysDetermined
<1> QED
  BY <1>3, <1>4, <1>5, <1>6 DEF Complete

\* clean_learnt takes learnt clauses only.
LEMMA CleanLearntComplete == ASSUME IInv, Complete, CleanLearnt PROVE Complete'
<1>1. /\ pc = "search" /\ pc' = "branch" /\ learnt' \subseteq learnt
      /\ UNCHANGED <<user, formula, trans, lemmas, trail, high, propagated, visited, walk, rep,
                     trivial_unsat, then, overlooked>>
  BY CleanedType DEF CleanLearnt, assigns, simps, history
<1>2. walk = 0 /\ propagated >= Len(trail)
  BY <1>1 DEF IInv, Control
<1>3. Walks'
  BY <1>1, <1>2 DEF Complete, Walks
<1> QED
  BY <1>1, <1>2, <1>3, SettledComplete

\* An assumption or a decision opens a level above 0.
LEMMA BranchComplete == ASSUME IInv, Complete, AssumeTrue \/ Assume \/ Decide PROVE Complete'
<1>1. /\ pc = "branch" /\ pc' \in {"branch", "propagate"} /\ high' = high + 1
      /\ UNCHANGED <<user, formula, trans, lemmas, learnt, propagated, visited, walk, rep,
                     trivial_unsat, then, overlooked>>
  BY DEF AssumeTrue, Assume, Decide, OpenLevel, db, simps, history
<1>2. /\ walk = 0 /\ propagated >= Len(trail) /\ then = "search"
      /\ trail \in Seq(Entry) /\ high \in Nat /\ Walks /\ high + 1 \in Nat /\ high + 1 # 0
  BY <1>1, BranchIs DEF IInv, TypeOK, Complete
<1>3. trail' = trail \/ \E l \in Lit : trail' = Assigned(trail, l, {}, high + 1)
  <2>1. CASE AssumeTrue
    BY <2>1 DEF AssumeTrue
  <2>2. CASE Assume
    <3>1. high < Len(As) /\ trail' = Assigned(trail, As[high + 1], {}, high + 1)
      BY <2>2 DEF Assume, NextAssumption
    <3>2. Len(As) \in Nat
      BY AsType, LenProperties DEF IInv
    <3>3. As[high + 1] \in Lit
      BY <1>2, <3>1, <3>2, AssumptionIs DEF IInv
    <3> QED
      BY <3>1, <3>3
  <2>3. CASE Decide
    <3>1. PICK v \in Undecided : \E l \in {v, -v} : trail' = Assigned(trail, l, {}, high + 1)
      BY <2>3 DEF Decide
    <3>2. v \in Lit /\ -v \in Lit
      BY LitType DEF Undecided, IInv, TypeOK
    <3> QED
      BY <3>1, <3>2
  <2> QED
    BY <2>1, <2>2, <2>3
<1>4. CASE trail' = trail
  <2>1. Walks'
    BY <1>1, <1>2, <1>4 DEF Walks
  <2> QED
    BY <1>1, <1>2, <1>4, <2>1, SettledComplete
<1>5. ASSUME NEW l \in Lit, trail' = Assigned(trail, l, {}, high + 1) PROVE Complete'
  <2> DEFINE k == high + 1
             e == {}
  <2>1. k \in Nat /\ k # 0 /\ trail' = Assigned(trail, l, e, k)
    BY <1>2, <1>5
  <2> HIDE DEF k, e
  <2>2. /\ trail'[Len(trail) + 1].level = k
        /\ \A i \in DOMAIN trail : trail'[i] = trail[i]
        /\ \A i \in DOMAIN trail' : i = Len(trail) + 1 \/ i \in DOMAIN trail
        /\ ZeroLits(trail') = ZeroLits(trail) /\ LitsOf(trail') = LitsOf(trail) \cup {l}
    BY <1>2, <2>1, ZeroAssigned
  <2>3. \A i \in DOMAIN trail' : trail'[i].level = 0 => i \in DOMAIN trail /\ trail'[i] = trail[i]
    BY <2>1, <2>2
  <2>4. Walks'
    <3>1. visited' \subseteq LitsOf(trail')
      BY <1>1, <1>2, <2>2 DEF Walks
    <3> QED
      BY <1>1, <1>2, <3>1 DEF Walks
  <2> QED
    BY <1>1, <1>2, <2>2, <2>3, <2>4, SettledComplete
<1> QED
  BY <1>3, <1>4, <1>5

\* Every step keeps it.
LEMMA StepComplete == IInv /\ IInv' /\ Complete /\ [Next]_vars => Complete'
<1> SUFFICES ASSUME IInv, IInv', Complete, [Next]_vars PROVE Complete'
  OBVIOUS
<1>1. CASE \E c \in Lemmas : AddClause(c)
  BY <1>1, AddClauseComplete
<1>2. CASE \E d \in Domains : SetDomain(d)
  BY <1>2, SetDomainComplete
<1>3. CASE \/ UnsetDomain
           \/ \E v \in LeafVar : Flip(v)
           \/ \E q \in Questions[user] : Solve(q)
  BY <1>3, QuietCallComplete
<1>4. CASE \E e \in Candidates : AddEq(e[1], e[2])
  BY <1>4, AddEqComplete
<1>5. CASE TrivialUnsat \/ EqCleaned \/ Resolve \/ AssumeFalse \/ AnswerSat
  BY <1>5, QuietStepComplete
<1>6. CASE NewRound \/ Simplify \/ CleanEq
  BY <1>6, NewRoundComplete, SimplifyComplete, CleanEqComplete
<1>7. CASE Propagate
  BY <1>7, PropUnitComplete, PropWalkComplete, PropagatedComplete, ConflictComplete DEF Propagate
<1>8. CASE Learn \/ Restart \/ CleanLearnt
  BY <1>8, LearnComplete, RestartComplete, CleanLearntComplete
<1>9. CASE AssumeTrue \/ Assume \/ Decide
  BY <1>9, BranchComplete
<1>10. CASE UNCHANGED vars
  <2>1. /\ UNCHANGED <<user, trans, lemmas, learnt, trail, high, propagated, visited, walk, rep,
                       trivial_unsat, formula, overlooked, pc, then>>
    BY <1>10 DEF vars, db, assigns, simps, history
  <2>2. Walks'
    BY <2>1 DEF Complete, Walks
  <2> QED
    BY <2>1, <2>2, QuietComplete
<1> QED
  BY <1>1, <1>2, <1>3, <1>4, <1>5, <1>6, <1>7, <1>8, <1>9, <1>10 DEF Next, Working, Branch

\* Both halves of the invariant.
THEOREM NothingLost == Spec => [](IInv /\ Complete)
<1>1. Init => IInv /\ Complete
  BY Initially, CompleteInit
<1>2. IInv /\ Complete /\ [Next]_vars => (IInv /\ Complete)'
  BY StepKeeps, StepComplete
<1> QED
  BY <1>1, <1>2, PTL DEF Spec

\* simplify_satisfied_clauses finds two unassigned literals in every clause that is not satisfied,
\* unless a literal was overlooked.
THEOREM UnitsFound == Spec => []UnitsPropagated
<1>1. IInv /\ Complete => UnitsPropagated
  <2> SUFFICES ASSUME IInv, Complete, pc = "simplify", ~overlooked,
                      NEW c \in trans \cup lemmas \cup learnt, Live(c)
               PROVE  Watchable(c)
    BY DEF UnitsPropagated
  <2>1. TypeOK /\ Levels /\ Grounded /\ Control
    BY DEF IInv
  <2>2. high = 0 /\ ~trivial_unsat /\ propagated >= Len(trail) /\ walk = 0
    BY <2>1 DEF Complete, Walks, Control
  <2>3. Walks /\ Reached /\ Watched
    BY <2>2 DEF Complete
  <2>4. LitsUpto(0) \subseteq visited /\ \A d \in Lasting : Open(d)
    BY <2>1, <2>2, <2>3, AllOpen
  <2>5. c \in Lasting /\ Open(c)
    BY <2>4 DEF Lasting
  <2> QED
    BY <2>1, <2>2, <2>4, <2>5, OpenWatchable
<1> QED
  BY <1>1, NothingLost, PTL

\* Between the calls the clauses of the database, the literals of level 0 and the representatives
\* say all that the callers added, unless a literal was overlooked.
THEOREM DatabaseSays == Spec => []DatabaseComplete
<1>1. IInv /\ Complete => DatabaseComplete
  <2> SUFFICES ASSUME IInv, Complete, pc = "idle", ~trivial_unsat, ~overlooked,
                      NEW m \in Assignments,
                      \A c \in trans \cup lemmas : Holds(c, m),
                      LitsUpto(0) \ {-Act} \subseteq m,
                      \A v \in Var : (v \in m) = (RepOf(v) \in m)
               PROVE  \A c \in Circuit \cup formula : Holds(c, m)
    BY Zenon DEF DatabaseComplete
  <2>1. Determined
    BY DEF Complete
  <2>2. Act \notin LitsUpto(0)
    BY ZeroTrail DEF IInv
  <2>3. GroundLits \subseteq m
    BY <2>2 DEF GroundLits
  <2> QED
    BY <2>1, <2>3 DEF Determined
<1> QED
  BY <1>1, NothingLost, PTL

-----------------------------------------------------------------------------
(***************************************************************************)
(* The values of satisfiable answers.  The solver only looks at a domain   *)
(* of variables; the rest of the invariant says why that is enough.        *)
(***************************************************************************)

\* What the recursion of get_coi reaches from s.
Reaching(s, stop) == CHOOSE reached : reached = [v \in Var |->
    \/ v \in s \cup stop
    \/ \E u \in (v + 1)..NumVar : reached[u] /\ u \notin stop /\ v \in Dep(u)]

\* The recursion is well defined: it only asks about later variables.
LEMMA ReachingIs ==
    ASSUME NEW s, NEW stop
    PROVE  \A v \in Var :
               Reaching(s, stop)[v] <=>
                   \/ v \in s \cup stop
                   \/ \E u \in (v + 1)..NumVar :
                          Reaching(s, stop)[u] /\ u \notin stop /\ v \in Dep(u)
<1> DEFINE Starts(v) == v \in s \cup stop
           Uses(v, u) == u \notin stop /\ v \in Dep(u)
           Later(v) == (v + 1)..NumVar
           F(f) == [v \in Var |-> Starts(v) \/ \E u \in Later(v) : f[u] /\ Uses(v, u)]
           B == [X \in SUBSET Var |->
                    {v \in Var : Starts(v) \/ \E u \in Later(v) : u \in X /\ Uses(v, u)}]
<1>1. \A v \in Var : Later(v) \subseteq Var
  BY NumVarAssumption DEF Var
<1>2. \A f : \A v \in Var : F(f)[v] <=> Starts(v) \/ \E u \in Later(v) : f[u] /\ Uses(v, u)
  OBVIOUS
<1> HIDE DEF Starts, Uses, Later
<1>3. B \in [SUBSET Var -> SUBSET Var]
  OBVIOUS
<1>4. \A X, Y \in SUBSET Var : X \subseteq Y => B[X] \subseteq B[Y]
  OBVIOUS
<1>5. PICK L \in SUBSET Var : B[L] = L
  <2> HIDE DEF B
  <2> QED
    BY <1>3, <1>4, FixedPoint
<1> DEFINE f == [v \in Var |-> v \in L]
<1>6. f = F(f)
  <2>1. ASSUME NEW v \in Var PROVE f[v] = F(f)[v]
    <3>1. v \in L <=> Starts(v) \/ \E u \in Later(v) : u \in L /\ Uses(v, u)
      BY <1>5
    <3>2. \A u \in Later(v) : u \in L <=> f[u]
      BY <1>1
    <3> DEFINE R == Starts(v) \/ \E u \in Later(v) : f[u] /\ Uses(v, u)
    <3>3. v \in L <=> R
      <4> HIDE DEF f
      <4> QED
        BY <3>1, <3>2
    <3>4. f[v] = (v \in L) /\ F(f)[v] = R
      OBVIOUS
    <3>5. R \in BOOLEAN /\ (v \in L) \in BOOLEAN
      BY <3>3
    <3> HIDE DEF F, f, R
    <3>6. (v \in L) = R
      BY <3>3, <3>5
    <3> QED
      BY <3>4, <3>6
  <2> QED
    BY <2>1
<1>7. Reaching(s, stop) = F(Reaching(s, stop))
  <2>1. Reaching(s, stop) = CHOOSE g : g = F(g)
    <3> DEFINE G(g) == [v \in Var |->
                 \/ v \in s \cup stop
                 \/ \E u \in (v + 1)..NumVar : g[u] /\ u \notin stop /\ v \in Dep(u)]
    <3>1. ASSUME NEW g PROVE F(g) = G(g)
      BY DEF Starts, Uses, Later
    <3>2. Reaching(s, stop) = CHOOSE g : g = G(g)
      BY DEF Reaching
    <3> HIDE DEF F, G
    <3> QED
      BY <3>1, <3>2
  <2> HIDE DEF F, f
  <2> QED
    BY <1>6, <2>1
<1> HIDE DEF F
<1>8. \A v \in Var : Reaching(s, stop)[v] <=>
          Starts(v) \/ \E u \in Later(v) : Reaching(s, stop)[u] /\ Uses(v, u)
  BY <1>2, <1>7
<1> QED
  BY <1>8 DEF Starts, Uses, Later

\* A variable's dependencies come before it.
LEMMA DepType ==
    ASSUME NEW v \in Var
    PROVE  Dep(v) \subseteq Var /\ \A u \in Dep(v) : u < v
<1> SUFFICES ASSUME NEW u \in Dep(v) PROVE u \in Var /\ u < v
  OBVIOUS
<1>1. PICK c \in Def[v] : u \in VarsOf(c) /\ u # v
  BY DEF Dep
<1>2. u <= v /\ c \subseteq Lit
  BY <1>1, DefAssumption
<1>3. u \in Var
  BY <1>1, <1>2, LitType DEF VarsOf
<1> QED
  BY <1>1, <1>2, <1>3, NumVarAssumption DEF Var

\* The closure contains what it starts from, and the dependencies of what it does not stop at.
LEMMA ClosureIs ==
    ASSUME NEW s, NEW stop
    PROVE  /\ Closure(s, stop) \subseteq Var
           /\ (s \cup stop) \cap Var \subseteq Closure(s, stop)
           /\ \A v \in Closure(s, stop) : v \in stop \/ Dep(v) \subseteq Closure(s, stop)
<1>1. Closure(s, stop) = {v \in Var : Reaching(s, stop)[v]}
  BY DEF Closure, Reaching
<1>2. \A v \in Var : v \in s \cup stop => Reaching(s, stop)[v]
  BY ReachingIs
<1>3. ASSUME NEW v \in Closure(s, stop), v \notin stop, NEW u \in Dep(v)
      PROVE  u \in Closure(s, stop)
  <2>1. v \in Var /\ Reaching(s, stop)[v]
    BY <1>1, <1>3
  <2>2. u \in Var /\ v \in (u + 1)..NumVar
    BY <1>3, <2>1, DepType, NumVarAssumption DEF Var
  <2>3. Reaching(s, stop)[u]
    BY <1>3, <2>1, <2>2, ReachingIs
  <2> QED
    BY <1>1, <2>2, <2>3
<1> QED
  BY <1>1, <1>2, <1>3

\* The variables of S whose values the constants and, gate by gate, other variables of S explain.
Rooted(S) ==
    UNION {X \in SUBSET S : \A v \in X : v \in VarsOf(Constants) \/ Dep(v) \subseteq X}

\* Rooted sets are closed under dependencies.
LEMMA RootedIs ==
    ASSUME NEW S
    PROVE  /\ Rooted(S) \subseteq S
           /\ \A v \in Rooted(S) : v \in VarsOf(Constants) \/ Dep(v) \subseteq Rooted(S)
BY DEF Rooted

\* A closed set is rooted.
LEMMA RootedHas ==
    ASSUME NEW S, NEW X, X \subseteq S, \A v \in X : v \in VarsOf(Constants) \/ Dep(v) \subseteq X
    PROVE  X \subseteq Rooted(S)
BY DEF Rooted

\* In a larger set more is rooted.
LEMMA RootedMore ==
    ASSUME NEW S, NEW T, S \subseteq T
    PROVE  Rooted(S) \subseteq Rooted(T)
BY RootedIs, RootedHas

\* What a closure adds to a set that is rooted but for what it stops at, is rooted.
LEMMA RootedClosure ==
    ASSUME NEW s, NEW stop, NEW R, NEW S,
           \A v \in R : v \in VarsOf(Constants) \/ Dep(v) \subseteq R,
           stop \subseteq R, R \cup Closure(s, stop) \subseteq S
    PROVE  R \cup Closure(s, stop) \subseteq Rooted(S)
<1> DEFINE X == R \cup Closure(s, stop)
<1>1. ASSUME NEW v \in X PROVE v \in VarsOf(Constants) \/ Dep(v) \subseteq X
  BY ClosureIs
<1>2. X \subseteq S
  OBVIOUS
<1> HIDE DEF X
<1>3. X \subseteq Rooted(S)
  BY <1>1, <1>2, RootedHas
<1> QED
  BY <1>3 DEF X

\* Only FrTs merges variables, and nothing is searched for once the clauses are contradictory.
Plain ==
    /\ \A v \in Var : rep[v] = v
    /\ then # "eq"
    /\ pc = "start" \/ Searching \/ ans = "sat" => ~trivial_unsat

\* The circuit's constants are assigned at level 0.
Anchored == Constants \subseteq GroundLits

\* The variables on which the clauses and the running question depend.
Needed == Rooted(fixed \cup VarsOf(GroundLits))
Seated == Rooted(domain \cup VarsOf(GroundLits))

\* What the domain keeps between questions, and the lemmas, need nothing outside it.
Sealed ==
    /\ fixed \subseteq domain \cup VarsOf(GroundLits)
    /\ fixed \subseteq Needed /\ VarsOf(UNION lemmas) \subseteq Needed
    /\ domain \subseteq Seated

\* Every added clause is a consequence of those that are kept and of level-0 literals on needed
\* variables.
Covered ==
    ~overlooked /\ ~trivial_unsat =>
        \A b \in CircuitModels :
            /\ \A c \in lemmas : Holds(c, b)
            /\ \A l \in GroundLits : VarOf(l) \in Needed => l \in b
            => \A c \in formula : Holds(c, b)

\* A clause is satisfied at level 0, or s has what is left of it.
Kept(c, s) == Satisfied(c, GroundLits) \/ \E r \in s : r \subseteq c

CircuitKept == ~overlooked /\ ~trivial_unsat => \A c \in Circuit : Kept(c, trans)
ConstraintsKept == Searching \/ ans = "sat" => \A c \in Guarded : Kept(c, temporary)

\* What the search assigns lies in the domain, and so does what was asked.
Asked == VarsOf(UNION question.constraint) \cup VarsOf({As[i] : i \in DOMAIN As})
Inside ==
    /\ \A i \in DOMAIN trail : trail[i].level > 0 => VarOf(trail[i].lit) \in domain
    /\ temporary_domain \/ Searching => Act \in domain /\ queue \subseteq domain
    /\ (ans = "asked" /\ temporary_domain) \/ Searching \/ ans = "sat" => Asked \subseteq domain

\* decide() will pop every variable of the domain that has no value.
Queued ==
    /\ temporary_domain \/ (Searching /\ prepared) =>
           \A v \in domain \ {Act} : v \in queue \/ ~Unassigned(v)
    /\ Searching /\ ~temporary_domain /\ ~prepared => high < Len(As)

\* The assumptions of the levels opened so far are true there.
AssumedTrue == Searching => \A i \in 1..Len(As) : i <= high => As[i] \in LitsUpto(i)

\* The levels below the highest one are propagated, and the literal being walked is not there.
Behind ==
    /\ \A i \in DOMAIN trail : trail[i].level < high => i <= propagated
    /\ walk # 0 /\ high > 0 => \E i \in DOMAIN trail : trail[i].lit = walk /\ trail[i].level = high

\* A clause whose literals are all walked is false because of the literal being walked, or it is
\* what the conflict is about.
Found ==
    ~overlooked /\ Searching =>
        \A c \in Clauses :
            Negated(c) \subseteq visited =>
                \/ walk # 0 /\ -walk \in c
                \/ pc = "analyze" /\ ~(Negated(c) \subseteq LitsUpto(high - 1))

\* The values of a satisfiable answer satisfy every clause, but for those that have a literal
\* without a value outside the domain.
Valued ==
    ~overlooked /\ ~Skipped /\ ans = "sat" =>
        /\ model \subseteq LitsOf(trail) /\ GroundLits \subseteq model
        /\ question.constraint # {} => Act \in model
        /\ \A c \in Clauses : \/ c \cap model # {}
                              \/ \E l \in c : VarOf(l) \notin domain /\ Unassigned(VarOf(l))
                              \/ -Act \in c /\ question.constraint = {}

\* What makes IC3's satisfiable answers right.
Exact ==
    user = "ic3" =>
        /\ Plain /\ Anchored /\ Sealed /\ Covered /\ CircuitKept /\ ConstraintsKept
        /\ Inside /\ Queued /\ AssumedTrue /\ Behind /\ Found /\ Valued

\* The level-0 literals, by the trail.
LEMMA GroundZero ==
    /\ GroundLits = ZeroLits(trail) \ {Act, -Act}
    /\ GroundLits' = ZeroLits(trail') \ {Act, -Act}
BY DEF GroundLits, LitsUpto, ZeroLits

\* With no variable merged, no clause is rewritten.
LEMMA NoRewriting ==
    ASSUME TypeOK, \A v \in Var : rep[v] = v
    PROVE  ~CleanEq
<1> SUFFICES ASSUME NEW c \in trans \cup lemmas \cup learnt PROVE Rewritten(c) = c
  BY DEF CleanEq
<1>1. c \subseteq Lit
  BY PlainIsLit DEF TypeOK
<1>2. ASSUME NEW l \in c PROVE RepOf(l) = l
  <2>1. l \in Lit /\ (l \in Var \/ (-l \in Var /\ -(-l) = l))
    BY <1>1, LitType DEF Lit
  <2>2. CASE l \in Var
    BY <2>2, LitType DEF RepOf
  <2>3. CASE -l \in Var
    <3>1. ~(l > 0) /\ rep[-l] = -l
      BY <2>1, <2>3, LitType
    <3>2. RepOf(l) = -rep[-l]
      BY <3>1 DEF RepOf
    <3>3. -(-l) = l
      BY <2>1, LitType
    <3> QED
      BY <3>1, <3>2, <3>3, Zenon
  <2> QED
    BY <2>1, <2>2, <2>3
<1>3. Rewritten(c) = {l : l \in c}
  BY <1>2 DEF Rewritten
<1> QED
  BY <1>3

\* IC3's solver does not merge variables.
LEMMA StepIs ==
    ASSUME TypeOK, Plain, user = "ic3", Next
    PROVE  \/ \E c \in Lemmas : AddClause(c)
           \/ \E d \in Domains : SetDomain(d)
           \/ UnsetDomain
           \/ \E v \in LeafVar : Flip(v)
           \/ \E q \in Questions[user] : Solve(q)
           \/ TrivialUnsat \/ NewRound \/ Simplify \/ EqCleaned
           \/ PropUnit \/ PropWalk \/ Propagated \/ Conflict \/ Resolve \/ Learn \/ Restart
           \/ CleanLearnt \/ AssumeTrue \/ Assume \/ AssumeFalse \/ Decide \/ AnswerSat
<1>1. ~CleanEq
  BY NoRewriting DEF Plain
<1>2. ASSUME NEW e \in Candidates PROVE ~AddEq(e[1], e[2])
  BY DEF AddEq
<1> QED
  BY <1>1, <1>2 DEF Next, Working, Propagate, Branch

\* What the calls between questions and new_round do to the trail: it is back at level 0.
Grounds ==
    /\ high' = 0 /\ visited' = visited \cap GroundLits
    /\ GroundLits \subseteq GroundLits'
    /\ \A i \in DOMAIN trail' : trail'[i].level = 0

\* What propagation and decisions do: the trail grows at the highest level.
GoesOn ==
    /\ high' \in {high, high + 1} /\ (high' = high + 1 => pc = "branch")
    /\ Len(trail) \in Nat /\ Len(trail') \in {Len(trail), Len(trail) + 1}
    /\ \A i \in DOMAIN trail : i \in DOMAIN trail' /\ trail'[i] = trail[i]
    /\ \A i \in DOMAIN trail' :
           i \in DOMAIN trail \/ (i = Len(trail) + 1 /\ trail'[i].level = high')
    /\ pc = "branch" => UNCHANGED <<propagated, visited>>

\* What conflicts and restarts do: the trail goes back to a level, where a literal may follow
\* whose variable was assigned above level 0.
GoesBack(k) ==
    /\ k \in Nat /\ k <= high /\ high' = k
    /\ propagated' = PosInTrail(trail, k)
    /\ visited' = visited \cap LitsUpto(k)
    /\ queue' = queue \cup Popped(k)
    /\ \A i \in DOMAIN trail : trail[i].level <= k => i \in DOMAIN trail' /\ trail'[i] = trail[i]
    /\ \A i \in DOMAIN trail' :
           \/ i \in DOMAIN trail /\ trail'[i] = trail[i] /\ trail[i].level <= k
           \/ /\ trail'[i].level = k
              /\ \E j \in DOMAIN trail : /\ trail[j].level > 0
                                         /\ VarOf(trail[j].lit) = VarOf(trail'[i].lit)

-----------------------------------------------------------------------------
(***************************************************************************)
(* What the steps do to the trail and to the literals of level 0.          *)
(***************************************************************************)

\* add_clause takes the trail back to level 0, and assigns what is left of a unit.
LEMMA AddClauseGrounds ==
    ASSUME TypeOK, Levels, Levels', TypeOK', NEW c \in Lemmas, AddClause(c)
    PROVE  /\ Grounds
           /\ LET r == Reduced(c, GroundLits) IN
              ~Satisfied(c, GroundLits) /\ Cardinality(r) = 1 => r \subseteq GroundLits'
<1> DEFINE u == GroundLits
           r == Reduced(c, u)
<1>1. high' = 0 /\ visited' = visited \cap u /\ c \subseteq PlainLit
  BY InputAssumption DEF AddClause, ToGround
<1>2. ZeroLits(Ground) = u /\ Ground \in Seq(Entry)
  BY ZeroGround, GroundIs DEF TypeOK, Levels
<1>3. Act \notin u /\ -Act \notin u
  BY DEF GroundLits
<1> HIDE DEF u
<1>4. \/ trail' = Ground /\ (Satisfied(c, u) \/ Cardinality(r) # 1)
      \/ Cardinality(r) = 1 /\ \E l \in r : trail' = Assigned(Ground, l, {}, 0)
  BY DEF AddClause, AddReduced, u
<1>5. r \subseteq PlainLit
  BY <1>1 DEF Reduced
<1> HIDE DEF r
<1>6. /\ u \subseteq ZeroLits(trail')
      /\ ~Satisfied(c, u) /\ Cardinality(r) = 1 => r \subseteq ZeroLits(trail')
  <2>1. CASE trail' = Ground /\ (Satisfied(c, u) \/ Cardinality(r) # 1)
    BY <1>2, <2>1
  <2>2. CASE Cardinality(r) = 1 /\ \E l \in r : trail' = Assigned(Ground, l, {}, 0)
    <3>1. PICK l \in r : trail' = Assigned(Ground, l, {}, 0)
      BY <2>2
    <3>2. r = {l} /\ l \in Lit
      <4>1. r \subseteq Lit
        BY <1>5, PlainIsLit
      <4>2. IsFiniteSet(r)
        BY <4>1, ClauseFinite
      <4> QED
        BY <2>2, <3>1, <4>1, <4>2, FS_Singleton
    <3>3. ZeroLits(Assigned(Ground, l, {}, 0)) = ZeroLits(Ground) \cup {l}
      BY <1>2, <3>2, ZeroUnit
    <3> QED
      BY <1>2, <3>1, <3>2, <3>3
  <2> QED
    BY <1>4, <2>1, <2>2
<1>7. \A i \in DOMAIN trail' : trail'[i].level = 0
  BY <1>1, Trails DEF TypeOK, Levels
<1>8. /\ u \subseteq GroundLits'
      /\ ~Satisfied(c, u) /\ Cardinality(r) = 1 => r \subseteq GroundLits'
  BY <1>3, <1>5, <1>6, GroundZero, PlainIsLit
<1> QED
  BY <1>1, <1>7, <1>8 DEF Grounds, u, r

\* set_domain and new_round take the trail back to level 0.
LEMMA ToGroundGrounds ==
    ASSUME TypeOK, Levels, Levels', TypeOK', trail' = Ground, ToGround
    PROVE  Grounds /\ GroundLits' = GroundLits
<1>1. high' = 0 /\ visited' = visited \cap GroundLits
  BY DEF ToGround
<1>2. ZeroLits(Ground) = GroundLits /\ Act \notin GroundLits /\ -Act \notin GroundLits
  BY ZeroGround DEF TypeOK, Levels, GroundLits
<1>3. GroundLits' = GroundLits
  BY <1>2, GroundZero
<1>4. \A i \in DOMAIN trail' : trail'[i].level = 0
  BY <1>1, Trails DEF TypeOK, Levels
<1> QED
  BY <1>1, <1>3, <1>4 DEF Grounds

\* A literal assigned at the highest level, the last one or a new one, makes the trail grow.
LEMMA AssignedGoesOn ==
    ASSUME TypeOK, NEW l \in Lit, NEW c, trail' = Assigned(trail, l, c, high'),
           high' = high \/ (high' = high + 1 /\ pc = "branch"),
           pc = "branch" => UNCHANGED <<propagated, visited>>
    PROVE  /\ GoesOn
           /\ Len(trail) + 1 \in DOMAIN trail' /\ trail'[Len(trail) + 1].lit = l
           /\ trail'[Len(trail) + 1].level = high'
<1>1. trail \in Seq(Entry) /\ high' \in Nat /\ Len(trail) \in Nat
  BY Trails DEF TypeOK
<1>2. /\ Len(trail') = Len(trail) + 1 /\ DOMAIN trail' = 1..(Len(trail) + 1)
      /\ trail'[Len(trail) + 1].lit = l /\ trail'[Len(trail) + 1].level = high'
      /\ \A i \in DOMAIN trail : i \in DOMAIN trail' /\ trail'[i] = trail[i]
      /\ \A i \in DOMAIN trail' : i = Len(trail) + 1 \/ i \in DOMAIN trail
  BY <1>1, ZeroAssigned
<1>3. Len(trail) + 1 \in DOMAIN trail'
  BY <1>1, <1>2
<1>4. high' \in {high, high + 1} /\ (high' = high + 1 => pc = "branch")
  BY DEF TypeOK
<1> QED
  BY <1>1, <1>2, <1>3, <1>4 DEF GoesOn

\* A step that leaves the trail alone goes on.
LEMMA SameGoesOn ==
    ASSUME TypeOK, UNCHANGED <<trail, high>>, pc = "branch" => UNCHANGED <<propagated, visited>>
    PROVE  GoesOn
<1>1. Len(trail) \in Nat /\ high \in Nat
  BY Trails DEF TypeOK
<1>2. high # high + 1
  BY <1>1
<1> QED
  BY <1>1, <1>2 DEF GoesOn

\* Propagation and the assumptions and decisions go on.
LEMMA GrowsOn ==
    ASSUME IInv, PropUnit \/ AssumeTrue \/ Assume \/ Decide
    PROVE  GoesOn
<1>0. TypeOK
  BY DEF IInv
<1>1. CASE PropUnit
  <2>0. PICK c \in Clauses : \E l \in c : UnitOf(c, l) /\ trail' = Assigned(trail, l, c, high)
    BY <1>1 DEF PropUnit
  <2>1. PICK l \in c : UnitOf(c, l) /\ trail' = Assigned(trail, l, c, high)
    BY <2>0
  <2>2. high' = high /\ pc = "propagate" /\ l \in Lit
    BY <1>0, <1>1, <2>1, ClausesType DEF PropUnit, Propagating
  <2> QED
    BY <1>0, <2>1, <2>2, AssignedGoesOn
<1>2. CASE AssumeTrue
  <2>1. /\ pc = "branch" /\ high' = high + 1 /\ UNCHANGED <<trail, propagated, visited>>
        /\ Len(trail) \in Nat /\ high \in Nat
    BY <1>0, <1>2, Trails DEF AssumeTrue, OpenLevel, TypeOK
  <2> QED
    BY <2>1 DEF GoesOn
<1>3. CASE Assume
  <2>1. /\ pc = "branch" /\ high' = high + 1 /\ UNCHANGED <<propagated, visited>>
        /\ trail' = Assigned(trail, As[high + 1], {}, high + 1) /\ high < Len(As)
    BY <1>3 DEF Assume, OpenLevel, NextAssumption
  <2>2. high + 1 \in Nat /\ high + 1 > 0 /\ high + 1 <= Len(As)
    <3>1. high \in Nat /\ Len(As) \in Nat
      BY <1>0, AsType, LenProperties DEF TypeOK
    <3> QED
      BY <2>1, <3>1
  <2>3. As[high + 1] \in Lit
    BY <1>0, <2>2, AssumptionIs
  <2> QED
    BY <1>0, <2>1, <2>3, AssignedGoesOn
<1>4. CASE Decide
  <2>0. PICK v \in Undecided : \E l \in {v, -v} : trail' = Assigned(trail, l, {}, high + 1)
    BY <1>4 DEF Decide
  <2>1. PICK l \in {v, -v} : trail' = Assigned(trail, l, {}, high + 1)
    BY <2>0
  <2>2. l \in Lit /\ pc = "branch" /\ high' = high + 1 /\ UNCHANGED <<propagated, visited>>
    <3>1. v \in Var
      BY <1>0 DEF Undecided, TypeOK
    <3> QED
      BY <1>4, <3>1, LitType DEF Decide
  <2> QED
    BY <1>0, <2>1, <2>2, AssignedGoesOn
<1> QED
  BY <1>1, <1>2, <1>3, <1>4

\* The part of the trail that is kept, followed by nothing or by one literal.
LEMMA UptoGoesBack ==
    ASSUME TypeOK, Levels, NEW k \in Nat, k <= high, high' = k,
           propagated' = PosInTrail(trail, k), visited' = visited \cap LitsUpto(k),
           queue' = queue \cup Popped(k), trail' = Upto(trail, k)
    PROVE  GoesBack(k)
<1>1. trail \in Seq(Entry) /\ Ordered(trail)
  BY DEF TypeOK, Levels
<1>2. /\ \A i \in DOMAIN trail' : i \in DOMAIN trail /\ trail'[i] = trail[i] /\ trail[i].level <= k
      /\ \A i \in DOMAIN trail : trail[i].level <= k => i \in DOMAIN trail'
  BY <1>1, UptoIs
<1> QED
  BY <1>2 DEF GoesBack

\* A learnt clause takes the trail back below the highest level, where it assigns a literal.
LEMMA LearnGoesBack ==
    ASSUME IInv, Learn
    PROVE  \E k \in Nat : k < high /\ GoesBack(k)
<1> DEFINE c == Minimal
           b == MaxLevel(c \ Top)
           r == IF Cardinality(c) = 1 THEN {} ELSE c
           t == Upto(trail, b)
<1>1. /\ pc = "analyze" /\ Cardinality(Top) = 1
      /\ high' = b /\ trail' = Assigned(t, Last, r, b)
      /\ propagated' = PosInTrail(trail, b) /\ visited' = visited \cap LitsUpto(b)
      /\ queue' = queue \cup Popped(b)
  BY DEF Learn, Back
<1>2. /\ TypeOK /\ Levels /\ Control /\ Analysis /\ Grounded /\ Upper
      /\ high \in Nat /\ high > 0 /\ trail \in Seq(Entry) /\ Ordered(trail)
  BY <1>1 DEF IInv, Control, TypeOK, Levels
<1>3. c \subseteq conf /\ Top \subseteq c /\ conf \subseteq Lit
  BY <1>1, <1>2, MinimalIs DEF TypeOK
<1> HIDE DEF c
<1>4. b \in Nat /\ b < high
  BY <1>1, <1>2, <1>3, MaxLevelIs
<1>5. /\ Last \in Lit
      /\ \E k \in DOMAIN trail : trail[k].lit = -Last /\ trail[k].level = high
  <2>1. Top # {}
    BY <1>1, FS_EmptySet
  <2> QED
    BY <1>1, <1>2, <1>3, <2>1, LastIs
<1> HIDE DEF b, r
<1>6. /\ t \in Seq(Entry)
      /\ \A i \in DOMAIN t : i \in DOMAIN trail /\ t[i] = trail[i] /\ trail[i].level <= b
      /\ \A i \in DOMAIN trail : trail[i].level <= b => i \in DOMAIN t
  BY <1>2, <1>4, UptoIs
<1>7. /\ trail'[Len(t) + 1].lit = Last /\ trail'[Len(t) + 1].level = b
      /\ \A i \in DOMAIN t : i \in DOMAIN trail' /\ trail'[i] = t[i]
      /\ \A i \in DOMAIN trail' : i = Len(t) + 1 \/ i \in DOMAIN t
  <2> HIDE DEF t
  <2> QED
    BY <1>1, <1>4, <1>5, <1>6, ZeroAssigned
<1> HIDE DEF t
<1>8. \E j \in DOMAIN trail : trail[j].level > 0 /\ VarOf(trail[j].lit) = VarOf(Last)
  BY <1>2, <1>5, SameVar
<1>9. \A i \in DOMAIN trail' :
          \/ i \in DOMAIN trail /\ trail'[i] = trail[i] /\ trail[i].level <= b
          \/ /\ trail'[i].level = b
             /\ \E j \in DOMAIN trail : /\ trail[j].level > 0
                                        /\ VarOf(trail[j].lit) = VarOf(trail'[i].lit)
  BY <1>6, <1>7, <1>8
<1>10. \A i \in DOMAIN trail : trail[i].level <= b => i \in DOMAIN trail' /\ trail'[i] = trail[i]
  BY <1>6, <1>7
<1>11. b <= high
  BY <1>2, <1>4
<1>12. GoesBack(b)
  BY <1>1, <1>4, <1>9, <1>10, <1>11 DEF GoesBack
<1> QED
  BY <1>4, <1>12

\* A restart goes back to the assumptions, or leaves the trail alone.
LEMMA RestartGoesBack ==
    ASSUME IInv, Restart
    PROVE  \/ Len(As) \in Nat /\ Len(As) < high /\ GoesBack(Len(As))
           \/ UNCHANGED <<trail, high, propagated, visited, queue>>
<1>1. TypeOK /\ Levels /\ high \in Nat /\ Len(As) \in Nat
  BY AsType, LenProperties DEF IInv, TypeOK
<1>2. CASE high > Len(As)
  <2>1. Back(Len(As), Upto(trail, Len(As)))
    BY <1>2 DEF Restart
  <2>2. Len(As) <= high /\ Len(As) < high
    BY <1>1, <1>2
  <2>3. GoesBack(Len(As))
    BY <1>1, <2>1, <2>2, UptoGoesBack DEF Back
  <2> QED
    BY <1>1, <2>2, <2>3
<1>3. CASE ~(high > Len(As))
  BY <1>3 DEF Restart, assigns
<1> QED
  BY <1>2, <1>3

\* Literals stay assigned at level 0.
LEMMA GroundStays ==
    ASSUME TypeOK, TypeOK', Levels', GoesOn \/ \E k \in Nat : GoesBack(k)
    PROVE  GroundLits \subseteq GroundLits'
<1>1. ASSUME NEW i \in DOMAIN trail, trail[i].level = 0
      PROVE  i \in DOMAIN trail' /\ trail'[i] = trail[i]
  BY <1>1 DEF GoesOn, GoesBack
<1>2. ASSUME NEW i \in DOMAIN trail, trail[i].level <= 0
      PROVE  trail[i].lit \in ZeroLits(trail')
  <2>1. trail[i].level = 0
    BY <1>2, Trails DEF TypeOK
  <2>2. i \in DOMAIN trail' /\ trail'[i] = trail[i]
    BY <1>1, <2>1
  <2> QED
    BY <1>2, <2>2 DEF ZeroLits
<1>3. ZeroLits(trail) \subseteq ZeroLits(trail')
  BY <1>2 DEF ZeroLits
<1> QED
  BY <1>3, GroundZero

\* Steps that change neither the trail nor its levels.
Still ==
    \/ UnsetDomain \/ (\E v \in LeafVar : Flip(v)) \/ (\E q \in Questions[user] : Solve(q))
    \/ TrivialUnsat \/ Simplify \/ EqCleaned \/ PropWalk \/ Propagated \/ Conflict \/ Resolve
    \/ CleanLearnt \/ AssumeFalse \/ AnswerSat

\* They leave alone what is assigned, and what of it is propagated unless they propagate.
LEMMA StillIs ==
    ASSUME TypeOK, Still
    PROVE  /\ GoesOn
           /\ UNCHANGED <<trail, high, user, formula, overlooked, fixed, domain>>
           /\ PropWalk \/ UNCHANGED <<propagated, visited>>
<1>1. /\ UNCHANGED <<trail, high, user, formula, overlooked, fixed, domain>>
      /\ PropWalk \/ UNCHANGED <<propagated, visited>>
  <2>1. CASE UnsetDomain \/ (\E v \in LeafVar : Flip(v)) \/ (\E q \in Questions[user] : Solve(q))
    BY <2>1 DEF UnsetDomain, Flip, Solve, Call, assigns, domains, history
  <2>2. CASE TrivialUnsat \/ Simplify \/ EqCleaned \/ PropWalk \/ Propagated
    BY <2>2 DEF TrivialUnsat, Simplify, EqCleaned, PropWalk, Propagated, assigns, domains, history
  <2>3. CASE Conflict \/ Resolve \/ CleanLearnt \/ AssumeFalse \/ AnswerSat
    BY <2>3 DEF Conflict, Resolve, CleanLearnt, AssumeFalse, AnswerSat, assigns, domains, history
  <2> QED
    BY <2>1, <2>2, <2>3 DEF Still
<1>2. PropWalk => pc # "branch"
  BY DEF PropWalk, Propagating
<1>3. pc = "branch" => UNCHANGED <<propagated, visited>>
  BY <1>1, <1>2
<1> QED
  BY <1>1, <1>3, SameGoesOn

\* What a step does to the trail.
LEMMA TrailStep ==
    ASSUME IInv, IInv', Plain, user = "ic3", Next
    PROVE  \/ Grounds /\ \/ \E c \in Lemmas : AddClause(c)
                         \/ GroundLits' = GroundLits /\ \/ \E d \in Domains : SetDomain(d)
                                                        \/ NewRound
           \/ GoesOn /\ (Still \/ PropUnit \/ AssumeTrue \/ Assume \/ Decide \/ Restart)
           \/ (\E k \in Nat : k < high /\ GoesBack(k)) /\ (Learn \/ Restart)
<1>1. TypeOK /\ TypeOK' /\ Levels /\ Levels'
  BY DEF IInv
<1>2. CASE \E c \in Lemmas : AddClause(c)
  BY <1>1, <1>2, AddClauseGrounds
<1>3. CASE (\E d \in Domains : SetDomain(d)) \/ NewRound
  <2>1. trail' = Ground /\ ToGround
    BY <1>3 DEF SetDomain, NewRound
  <2> QED
    BY <1>1, <1>3, <2>1, ToGroundGrounds
<1>4. CASE Still
  BY <1>1, <1>4, StillIs
<1>5. CASE PropUnit \/ AssumeTrue \/ Assume \/ Decide
  BY <1>5, GrowsOn
<1>6. CASE Learn
  BY <1>6, LearnGoesBack
<1>7. CASE Restart
  <2>1. CASE UNCHANGED <<trail, high, propagated, visited, queue>>
    BY <1>1, <1>7, <2>1, SameGoesOn
  <2>2. CASE Len(As) \in Nat /\ Len(As) < high /\ GoesBack(Len(As))
    BY <1>7, <2>2
  <2> QED
    BY <1>7, <2>1, <2>2, RestartGoesBack
<1>8. \/ \E c \in Lemmas : AddClause(c)
      \/ (\E d \in Domains : SetDomain(d)) \/ NewRound
      \/ Still
      \/ PropUnit \/ AssumeTrue \/ Assume \/ Decide
      \/ Learn
      \/ Restart
  BY <1>1, StepIs DEF Still
<1> QED
  BY <1>2, <1>3, <1>4, <1>5, <1>6, <1>7, <1>8

\* No step takes a literal off level 0, but for constrain_act's.
LEMMA GroundGrows ==
    ASSUME IInv, IInv', Plain, user = "ic3", Next
    PROVE  GroundLits \subseteq GroundLits'
<1>1. TypeOK /\ TypeOK' /\ Levels'
  BY DEF IInv
<1> QED
  BY <1>1, TrailStep, GroundStays DEF Grounds

\* Every step keeps the constants on the trail.
LEMMA AnchoredKeeps ==
    ASSUME IInv, IInv', Plain, Anchored, user = "ic3", Next
    PROVE  Anchored'
BY GroundGrows DEF Anchored

\* More is satisfied when more is assigned.
LEMMA KeptStays ==
    ASSUME GroundLits \subseteq GroundLits', NEW c, NEW s, NEW t, s \subseteq t, Kept(c, s)
    PROVE  Satisfied(c, GroundLits') \/ \E r \in t : r \subseteq c
BY DEF Kept, Satisfied

\* IC3's solver keeps its variables apart.
LEMMA PlainKeeps ==
    ASSUME IInv, IInv', Plain, user = "ic3", Next
    PROVE  Plain'
<1>1. TypeOK /\ Control
  BY DEF IInv
<1>2. CASE \E c \in Lemmas : AddClause(c)
  <2>1. /\ pc = "idle" /\ ans' = "none" /\ UNCHANGED rep
        /\ \/ pc' = "propagate" /\ then' = "idle"
           \/ pc' = "idle" /\ UNCHANGED then
    <3>1. PICK c \in Lemmas : AddClause(c)
      BY <1>2
    <3>2. \/ pc' = "propagate" /\ then' = "idle"
          \/ pc' = "idle" /\ UNCHANGED then
      BY <3>1 DEF AddClause, AddReduced, Call
    <3> QED
      BY <3>1, <3>2 DEF AddClause, Call, Forgotten, simps
  <2> QED
    BY <2>1 DEF Plain, Searching
<1>3. CASE (\E d \in Domains : SetDomain(d)) \/ UnsetDomain \/ \E v \in LeafVar : Flip(v)
  <2>1. /\ pc' = pc /\ ans' \in {ans, "none"} /\ UNCHANGED <<rep, then, trivial_unsat>>
    BY <1>3 DEF SetDomain, UnsetDomain, Flip, Forgotten, simps, answers
  <2> QED
    BY <2>1 DEF Plain, Searching
<1>4. CASE \E q \in Questions[user] : Solve(q)
  <2>1. pc' = "propagate" /\ then' = "start" /\ ans' = "asked" /\ UNCHANGED rep
    BY <1>4 DEF Solve
  <2> QED
    BY <2>1 DEF Plain, Searching
<1>5. CASE TrivialUnsat \/ AssumeFalse
  <2>1. pc' = "idle" /\ ans' = "unsat" /\ UNCHANGED <<rep, then>>
    BY <1>5 DEF TrivialUnsat, AssumeFalse, Refute, simps
  <2> QED
    BY <2>1 DEF Plain, Searching
<1>6. CASE NewRound
  <2>1. pc = "start" /\ UNCHANGED <<rep, then, trivial_unsat>>
    BY <1>6 DEF NewRound, simps
  <2> QED
    BY <2>1 DEF Plain
<1>7. CASE Simplify \/ EqCleaned
  <2>1. /\ Searching /\ UNCHANGED <<rep, trivial_unsat>> /\ then' \in {then, "search"}
    BY <1>7 DEF Simplify, EqCleaned, simps, Searching
  <2> QED
    BY <2>1 DEF Plain
<1>8. CASE PropUnit \/ PropWalk
  <2>1. UNCHANGED <<pc, then, ans, rep, trivial_unsat>>
    BY <1>8 DEF PropUnit, PropWalk, simps, answers
  <2> QED
    BY <2>1 DEF Plain, Searching
<1>9. CASE Propagated
  <2>1. /\ pc = "propagate" /\ ~(then = "start" /\ trivial_unsat) /\ pc' = then
        /\ UNCHANGED <<then, ans, rep, trivial_unsat>>
    BY <1>9 DEF Propagated, Propagating, simps, answers
  <2> QED
    BY <1>1, <2>1 DEF Plain, Searching, TypeOK
<1>10. CASE Conflict
  <2>1. /\ pc = "propagate" /\ UNCHANGED <<then, rep>>
        /\ \/ then = "search" /\ UNCHANGED trivial_unsat
           \/ pc' = "idle" /\ ans' = "unsat"
           \/ /\ ~(then = "search" /\ high > 0) /\ ~(then = "search" /\ high = 0)
              /\ ~(then = "start") /\ pc' = then /\ UNCHANGED ans
    BY <1>10, Zenon DEF Conflict, Propagating, Refute, simps, answers
  <2>2. then = "idle" => ans = "none"
    BY <1>1, <2>1 DEF Control
  <2>3. then \in {"idle", "start", "eq", "search"} /\ (high > 0 \/ high = 0)
    BY <1>1 DEF TypeOK
  <2> QED
    BY <2>1, <2>2, <2>3 DEF Plain, Searching
<1>11. CASE Resolve \/ Learn \/ CleanLearnt \/ AssumeTrue \/ Assume \/ Decide \/ AnswerSat
  <2>1. Searching /\ UNCHANGED <<then, rep, trivial_unsat>>
    BY <1>11 DEF Resolve, Learn, CleanLearnt, AssumeTrue, Assume, Decide, AnswerSat, Searching,
                 simps
  <2> QED
    BY <2>1 DEF Plain
<1>12. CASE Restart
  <2>1. Searching /\ UNCHANGED <<then, rep, trivial_unsat>>
    BY <1>12 DEF Restart, Searching, simps
  <2> QED
    BY <2>1 DEF Plain
<1> QED
  BY <1>1, <1>2, <1>3, <1>4, <1>5, <1>6, <1>7, <1>8, <1>9, <1>10, <1>11, <1>12, StepIs

-----------------------------------------------------------------------------
(***************************************************************************)
(* What the steps do to the clauses: those of the circuit are kept.        *)
(***************************************************************************)

\* Only add_clause and simplify change the clauses of the database that were not learnt, and only
\* the calls and new_round change the domain.
LEMMA DatabaseStep ==
    ASSUME TypeOK, Plain, user = "ic3", Next
    PROVE  /\ (~overlooked' => ~overlooked) /\ (~trivial_unsat' => ~trivial_unsat)
           /\ \/ (\E c \in Lemmas : AddClause(c)) \/ Simplify
              \/ UNCHANGED <<trans, lemmas, formula>>
           /\ \/ (\E c \in Lemmas : AddClause(c)) \/ (\E d \in Domains : SetDomain(d)) \/ NewRound
              \/ UNCHANGED <<fixed, domain>>
<1>1. CASE \E c \in Lemmas : AddClause(c)
  <2>1. PICK c \in Lemmas : AddClause(c)
    BY <1>1
  <2>2. overlooked' = (overlooked \/ Skipped')
    BY <2>1 DEF AddClause
  <2>3. ~overlooked' => ~overlooked
    BY <2>2, Zenon
  <2>4. \/ UNCHANGED trivial_unsat
        \/ trivial_unsat' = (trivial_unsat \/ Reduced(c, GroundLits) = {})
    BY <2>1 DEF AddClause, AddReduced
  <2>5. ~trivial_unsat' => ~trivial_unsat
    BY <2>4, Zenon
  <2> QED
    BY <1>1, <2>3, <2>5
<1>2. CASE \E d \in Domains : SetDomain(d)
  <2>1. /\ overlooked' = (overlooked \/ Skipped')
        /\ UNCHANGED <<trivial_unsat, trans, lemmas, formula>>
    BY <1>2, Zenon DEF SetDomain, db
  <2>2. ~overlooked' => ~overlooked
    BY <2>1, Zenon
  <2> QED
    BY <1>2, <2>1, <2>2
<1>3. CASE UnsetDomain \/ (\E v \in LeafVar : Flip(v)) \/ (\E q \in Questions[user] : Solve(q))
  <2>1. UNCHANGED <<trivial_unsat, overlooked, trans, lemmas, formula, fixed, domain>>
    BY <1>3 DEF UnsetDomain, Flip, Solve, Call, db, domains, history
  <2> QED
    BY <2>1
<1>4. CASE TrivialUnsat \/ EqCleaned \/ PropUnit \/ PropWalk \/ Propagated
  <2>1. UNCHANGED <<trivial_unsat, overlooked, trans, lemmas, formula, fixed, domain>>
    BY <1>4 DEF TrivialUnsat, EqCleaned, PropUnit, PropWalk, Propagated, db, domains, history
  <2> QED
    BY <2>1
<1>5. CASE NewRound
  <2>1. UNCHANGED <<trivial_unsat, overlooked, trans, lemmas, formula>>
    BY <1>5 DEF NewRound, history
  <2> QED
    BY <1>5, <2>1
<1>6. CASE Simplify
  BY <1>6 DEF Simplify, domains, history
<1>7. CASE Conflict
  <2>1. UNCHANGED <<trans, lemmas, formula, fixed, domain, overlooked>>
    BY <1>7, Zenon DEF Conflict, db, domains, history
  <2>2. trivial_unsat' = TRUE \/ UNCHANGED trivial_unsat
    BY <1>7, Zenon DEF Conflict
  <2> QED
    BY <2>1, <2>2
<1>8. CASE Resolve \/ Learn \/ Restart \/ CleanLearnt
  <2>1. UNCHANGED <<trivial_unsat, overlooked, trans, lemmas, formula, fixed, domain>>
    <3>1. CASE Restart
      BY <3>1 DEF Restart, db, domains, history
    <3>2. CASE Resolve \/ Learn \/ CleanLearnt
      BY <3>2 DEF Resolve, Learn, CleanLearnt, db, domains, history
    <3> QED
      BY <1>8, <3>1, <3>2
  <2> QED
    BY <2>1
<1>9. CASE AssumeTrue \/ Assume \/ AssumeFalse \/ Decide \/ AnswerSat
  <2>1. UNCHANGED <<trivial_unsat, overlooked, trans, lemmas, formula, fixed, domain>>
    BY <1>9 DEF AssumeTrue, Assume, AssumeFalse, Decide, AnswerSat, db, domains, history
  <2> QED
    BY <2>1
<1> QED
  BY <1>1, <1>2, <1>3, <1>4, <1>5, <1>6, <1>7, <1>8, <1>9, StepIs

\* Simplification leaves of every clause what matters, unless the clause is satisfied.
LEMMA SimplifyLeaves ==
    ASSUME IInv, Complete, Simplify
    PROVE  /\ GroundLits' = GroundLits /\ UNCHANGED <<formula, fixed, domain>>
           /\ \A r \in lemmas' : \E c \in lemmas : r \subseteq c
           /\ ~overlooked => \A c \in trans : \/ c \cap GroundLits # {}
                                              \/ \E r \in trans' : r \subseteq c
           /\ ~overlooked => \A c \in lemmas : \/ c \cap GroundLits # {}
                                               \/ \E r \in lemmas' : r \subseteq c
<1> DEFINE u == LitsOf(trail)
<1>1. pc = "simplify" /\ UNCHANGED <<trail, formula, fixed, domain>>
  BY DEF Simplify, assigns, history, domains
<1>2. GroundLits' = GroundLits
  BY <1>1, GroundZero
<1>3. /\ TypeOK /\ Levels /\ Grounded /\ high = 0 /\ walk = 0
      /\ ~trivial_unsat /\ propagated >= Len(trail) /\ Walks
  BY <1>1 DEF IInv, Control, Complete, Walks
<1>4. \/ UNCHANGED <<trans, lemmas>>
      \/ \E dropped \in SUBSET {c \in Lasting : Live(c) /\ Watchable(c) /\ Unwalked(c) # {}} :
             lemmas' = Simplified(lemmas, dropped) /\ trans' = Simplified(trans, dropped)
  BY DEF Simplify, SimplifySatisfied, Lasting, db
<1>5. CASE UNCHANGED <<trans, lemmas>>
  BY <1>1, <1>2, <1>5
<1>6. ASSUME NEW dropped \in SUBSET {c \in Lasting : Live(c) /\ Watchable(c) /\ Unwalked(c) # {}},
             lemmas' = Simplified(lemmas, dropped), trans' = Simplified(trans, dropped)
      PROVE  /\ \A r \in lemmas' : \E c \in lemmas : r \subseteq c
             /\ ~overlooked => \A s \in {trans, lemmas} : \A c \in s :
                    \/ c \cap GroundLits # {}
                    \/ \E r \in Simplified(s, dropped) : r \subseteq c
  <2>1. \A c : Reduced(c, u) \subseteq c
    BY DEF Reduced
  <2>2. \A r \in lemmas' : \E c \in lemmas : r \subseteq c
    BY <1>6, <2>1 DEF Simplified
  <2>3. ASSUME ~overlooked, NEW s \in {trans, lemmas}, NEW c \in s
        PROVE  \/ c \cap GroundLits # {}
               \/ \E r \in Simplified(s, dropped) : r \subseteq c
    <3>1. Reached /\ Watched
      BY <1>3, <2>3 DEF Complete
    <3>2. LitsUpto(0) \subseteq visited /\ \A d \in Lasting : Open(d)
      BY <1>3, <3>1, AllOpen
    <3>3. LitsUpto(0) = u
      BY <1>3, ZeroTrail
    <3>4. c \in Lasting /\ c \subseteq Lit \ {Act, -Act}
      BY <1>3, <2>3, PlainIsLit DEF TypeOK, Lasting
    <3>5. CASE ~Live(c)
      BY <3>3, <3>4, <3>5 DEF Live, GroundLits
    <3>6. CASE Live(c)
      <4>1. Watchable(c) /\ Unwalked(c) = {}
        BY <1>3, <3>2, <3>4, <3>6, OpenWatchable
      <4>2. Reduced(c, u) \in Simplified(s, dropped)
        BY <2>3, <3>6, <4>1 DEF Simplified
      <4> QED
        BY <2>1, <4>2
    <3> QED
      BY <3>5, <3>6
  <2> QED
    BY <2>2, <2>3
<1> QED
  BY <1>1, <1>2, <1>4, <1>5, <1>6

\* Every step keeps what the circuit's clauses say.
LEMMA CircuitKeeps ==
    ASSUME IInv, IInv', Complete, Plain, CircuitKept, user = "ic3", Next
    PROVE  CircuitKept'
<1>1. GroundLits \subseteq GroundLits'
  BY GroundGrows
<1> SUFFICES ASSUME ~overlooked', ~trivial_unsat', NEW c \in Circuit
             PROVE  Satisfied(c, GroundLits') \/ \E r \in trans' : r \subseteq c
  BY DEF CircuitKept, Kept
<1>2. TypeOK /\ ~overlooked /\ ~trivial_unsat /\ Kept(c, trans)
  BY DatabaseStep DEF IInv, CircuitKept
<1>3. CASE UNCHANGED trans
  BY <1>1, <1>2, <1>3, KeptStays
<1>4. CASE \E d \in Lemmas : AddClause(d)
  BY <1>3, <1>4 DEF AddClause
<1>5. CASE Simplify
  <2>1. CASE Satisfied(c, GroundLits)
    BY <1>1, <2>1 DEF Satisfied
  <2>2. ASSUME NEW r \in trans, r \subseteq c
        PROVE  Satisfied(c, GroundLits') \/ \E s \in trans' : s \subseteq c
    <3>1. r \cap GroundLits # {} \/ \E s \in trans' : s \subseteq r
      BY <1>2, <1>5, SimplifyLeaves
    <3> QED
      BY <1>1, <2>2, <3>1 DEF Satisfied
  <2> QED
    BY <1>2, <2>1, <2>2 DEF Kept
<1> QED
  BY <1>2, <1>3, <1>4, <1>5, DatabaseStep

-----------------------------------------------------------------------------
(***************************************************************************)
(* The domain between questions: what is fixed is closed under             *)
(* dependencies, and the added clauses are a consequence of the lemmas and *)
(* of the level-0 literals that are needed.                                *)
(***************************************************************************)

\* The variables of level-0 literals are variables.
LEMMA GroundVars ==
    ASSUME TypeOK, Levels
    PROVE  /\ GroundLits \subseteq PlainLit /\ VarsOf(GroundLits) \subseteq Var
           /\ \A v \in Var : v \in GroundLits \/ -v \in GroundLits => v \in VarsOf(GroundLits)
<1>1. GroundLits \subseteq PlainLit
  <2>1. ASSUME NEW l \in GroundLits PROVE l \in PlainLit
    <3>1. PICK i \in DOMAIN trail : trail[i].lit = l /\ l \notin {Act, -Act}
      BY DEF GroundLits, LitsUpto
    <3>2. l \in Lit
      BY <3>1, Trails DEF TypeOK
    <3> QED
      BY <3>1, <3>2 DEF PlainLit
  <2> QED
    BY <2>1
<1>2. VarsOf(GroundLits) \subseteq Var
  BY <1>1, PlainIsLit, LitType DEF VarsOf
<1>3. ASSUME NEW v \in Var, v \in GroundLits \/ -v \in GroundLits PROVE v \in VarsOf(GroundLits)
  BY <1>3, LitType DEF VarsOf
<1> QED
  BY <1>1, <1>2, <1>3

\* More variables are needed when the ground grows.
LEMMA NeededGrows ==
    ASSUME GroundLits \subseteq GroundLits'
    PROVE  /\ VarsOf(GroundLits) \subseteq VarsOf(GroundLits')
           /\ fixed \subseteq fixed' \cup VarsOf(GroundLits') => Needed \subseteq Needed'
           /\ domain \subseteq domain' \cup VarsOf(GroundLits') => Seated \subseteq Seated'
<1>1. VarsOf(GroundLits) \subseteq VarsOf(GroundLits')
  BY DEF VarsOf
<1>2. ASSUME fixed \subseteq fixed' \cup VarsOf(GroundLits') PROVE Needed \subseteq Needed'
  <2>1. fixed \cup VarsOf(GroundLits) \subseteq fixed' \cup VarsOf(GroundLits')
    BY <1>1, <1>2
  <2> QED
    BY <2>1, RootedMore DEF Needed
<1>3. ASSUME domain \subseteq domain' \cup VarsOf(GroundLits') PROVE Seated \subseteq Seated'
  <2>1. domain \cup VarsOf(GroundLits) \subseteq domain' \cup VarsOf(GroundLits')
    BY <1>1, <1>3
  <2> QED
    BY <2>1, RootedMore DEF Seated
<1> QED
  BY <1>1, <1>2, <1>3

\* add_clause makes the variables of the clause needed, and their dependencies.
LEMMA AddClauseSealed ==
    ASSUME TypeOK, Levels, TypeOK', Levels', Sealed, NEW c \in Lemmas, AddClause(c)
    PROVE  /\ Sealed' /\ Needed \subseteq Needed'
           /\ ~Satisfied(c, GroundLits) => VarsOf(Reduced(c, GroundLits)) \subseteq Needed'
<1> DEFINE u == GroundLits
           new == {v \in VarsOf(c) : v \notin u /\ -v \notin u}
           r == Reduced(c, u)
           N == Closure(new, fixed \ new)
<1>1. /\ fixed' = fixed \cup N /\ domain' = fixed' /\ c \subseteq PlainLit
      /\ lemmas' \subseteq lemmas \cup {r} /\ (Satisfied(c, u) => lemmas' = lemmas)
  BY InputAssumption DEF AddClause
<1>2. u \subseteq GroundLits'
  BY AddClauseGrounds DEF Grounds
<1> HIDE DEF u
<1>3. N \subseteq Var /\ new \subseteq N
  <2>1. new \subseteq Var
    BY <1>1, PlainIsLit, LitType DEF VarsOf
  <2> QED
    BY <2>1, ClosureIs
<1>4. Needed \subseteq fixed \cup VarsOf(u)
  BY RootedIs DEF Needed, u
<1>5. \A v \in Needed : v \in VarsOf(Constants) \/ Dep(v) \subseteq Needed
  BY RootedIs DEF Needed
<1>6. VarsOf(u) \subseteq VarsOf(GroundLits')
  BY <1>2 DEF VarsOf
<1>7. Needed \cup N \subseteq Needed'
  <2> DEFINE S == fixed' \cup VarsOf(GroundLits')
  <2>1. Needed \cup N \subseteq S
    BY <1>1, <1>4, <1>6
  <2>2. fixed \ new \subseteq Needed
    BY DEF Sealed
  <2> HIDE DEF new
  <2>3. Needed \cup N \subseteq Rooted(S)
    <3> HIDE DEF S
    <3> QED
      BY <1>5, <2>1, <2>2, RootedClosure
  <2> QED
    BY <2>3 DEF Needed
<1>8. ASSUME ~Satisfied(c, u) PROVE VarsOf(r) \subseteq Needed'
  <2>1. ASSUME NEW l \in r PROVE VarOf(l) \in new
    <3>1. l \in c /\ l \notin u /\ -l \notin u /\ l \in Lit
      BY <1>1, <1>8, PlainIsLit DEF Reduced, Satisfied
    <3>2. VarOf(l) = l \/ (VarOf(l) = -l /\ -VarOf(l) = l)
      BY <3>1, LitType DEF VarOf
    <3>3. VarOf(l) \in VarsOf(c)
      BY <3>1 DEF VarsOf
    <3> QED
      BY <3>1, <3>2, <3>3
  <2> QED
    BY <1>3, <1>7, <2>1 DEF VarsOf
<1>9. fixed' \subseteq Needed' /\ VarsOf(UNION lemmas') \subseteq Needed'
  <2>1. fixed' \subseteq Needed'
    BY <1>1, <1>7 DEF Sealed
  <2>2. ASSUME NEW d \in lemmas', NEW l \in d PROVE VarOf(l) \in Needed'
    <3>1. CASE d \in lemmas
      BY <1>7, <2>2, <3>1 DEF Sealed, VarsOf
    <3>2. CASE d \notin lemmas
      BY <1>1, <1>8, <2>2, <3>2 DEF VarsOf
    <3> QED
      BY <3>1, <3>2
  <2> QED
    BY <2>1, <2>2 DEF VarsOf
<1>10. Seated' = Needed'
  BY <1>1 DEF Seated, Needed
<1> QED
  BY <1>1, <1>7, <1>8, <1>9, <1>10 DEF Sealed, u

\* A domain that is the closure of some variables and of the needed ones is closed.
LEMMA DomainSealed ==
    ASSUME TypeOK, Levels, Sealed, GroundLits' = GroundLits, NEW s,
           NEW gone, gone \subseteq VarsOf(GroundLits), fixed' = fixed \ gone,
           domain' = (Closure(s, fixed) \ gone) \cup {Act}, lemmas' = lemmas
    PROVE  Sealed' /\ Needed' = Needed
<1> DEFINE g == VarsOf(GroundLits)
           N == Closure(s, fixed)
           R == Needed \cup {Act}
           S == domain' \cup g
<1>1. fixed \subseteq N
  BY ClosureIs DEF TypeOK
<1>2. VarsOf(GroundLits') = g /\ fixed' \cup g = fixed \cup g
  OBVIOUS
<1>3. Needed' = Needed
  BY <1>2 DEF Needed
<1>4. fixed' \subseteq domain'
  BY <1>1
<1>5. /\ Needed \subseteq fixed \cup g
      /\ \A v \in Needed : v \in VarsOf(Constants) \/ Dep(v) \subseteq Needed
  BY RootedIs DEF Needed
<1>6. Dep(Act) = {}
  BY ActAssumption DEF Dep
<1>7. \A v \in R : v \in VarsOf(Constants) \/ Dep(v) \subseteq R
  BY <1>5, <1>6
<1>8. fixed \subseteq R
  BY DEF Sealed
<1>9. R \cup N \subseteq S
  BY <1>1, <1>5
<1>10. R \cup N \subseteq Rooted(S)
  <2> HIDE DEF R, S, N
  <2>1. R \cup Closure(s, fixed) \subseteq S
    BY <1>9 DEF N
  <2> QED
    BY <1>7, <1>8, <2>1, RootedClosure DEF N
<1>11. Seated' = Rooted(S)
  BY <1>2 DEF Seated
<1>12. domain' \subseteq Seated'
  BY <1>10, <1>11
<1> QED
  BY <1>2, <1>3, <1>4, <1>12 DEF Sealed

\* With the domain as it is, what is sealed stays so.
LEMMA SameSealed ==
    ASSUME Sealed, GroundLits \subseteq GroundLits', UNCHANGED <<fixed, domain>>,
           \A r \in lemmas' : \E c \in lemmas : r \subseteq c
    PROVE  Sealed' /\ Needed \subseteq Needed'
<1>1. /\ VarsOf(GroundLits) \subseteq VarsOf(GroundLits')
      /\ Needed \subseteq Needed' /\ Seated \subseteq Seated'
  BY NeededGrows
<1>2. VarsOf(UNION lemmas') \subseteq VarsOf(UNION lemmas)
  BY DEF VarsOf
<1> QED
  BY <1>1, <1>2 DEF Sealed

\* Every step keeps what is fixed and what is seated closed under dependencies.
LEMMA SealedKeeps ==
    ASSUME IInv, IInv', Complete, Plain, Sealed, user = "ic3", Next
    PROVE  Sealed' /\ Needed \subseteq Needed'
<1>1. TypeOK /\ Levels /\ TypeOK' /\ Levels' /\ GroundLits \subseteq GroundLits'
  BY GroundGrows DEF IInv
<1>2. CASE \E c \in Lemmas : AddClause(c)
  BY <1>1, <1>2, AddClauseSealed
<1>3. CASE \E d \in Domains : SetDomain(d)
  <2>1. PICK d \in Domains : SetDomain(d)
    BY <1>3
  <2> DEFINE gone == {v \in fixed : v \in GroundLits \/ -v \in GroundLits}
  <2>2. /\ trail' = Ground /\ ToGround /\ fixed' = fixed \ gone /\ lemmas' = lemmas
        /\ domain' = (Closure(d, fixed) \ gone) \cup {Act}
    BY <2>1 DEF SetDomain, db
  <2>3. gone \subseteq VarsOf(GroundLits)
    BY <1>1, GroundVars DEF TypeOK
  <2>4. GroundLits' = GroundLits
    BY <1>1, <2>2, ToGroundGrounds
  <2> HIDE DEF gone
  <2> QED
    BY <1>1, <2>2, <2>3, <2>4, DomainSealed
<1>4. CASE NewRound
  <2> DEFINE asked == {VarOf(As[i]) : i \in DOMAIN As} \cup VarsOf(UNION question.constraint)
             s == asked \ {Act}
  <2>1. /\ trail' = Ground /\ ToGround /\ lemmas' = lemmas /\ fixed' = fixed
        /\ UNCHANGED domain \/ domain' = Closure(s, fixed) \cup {Act}
    BY <1>4 DEF NewRound
  <2>2. GroundLits' = GroundLits
    BY <1>1, <2>1, ToGroundGrounds
  <2>3. CASE UNCHANGED domain
    BY <1>1, <2>1, <2>3, SameSealed
  <2>4. CASE domain' = Closure(s, fixed) \cup {Act}
    <3> DEFINE none == {}
    <3>1. domain' = (Closure(s, fixed) \ none) \cup {Act} /\ fixed' = fixed \ none
      BY <2>1, <2>4
    <3>2. none \subseteq VarsOf(GroundLits)
      OBVIOUS
    <3> HIDE DEF s, none
    <3> QED
      BY <1>1, <2>1, <2>2, <3>1, <3>2, DomainSealed
  <2> QED
    BY <2>1, <2>3, <2>4
<1>5. CASE Simplify
  BY <1>1, <1>5, SimplifyLeaves, SameSealed
<1>6. CASE UNCHANGED <<lemmas, fixed, domain>>
  BY <1>1, <1>6, SameSealed
<1> QED
  BY <1>1, <1>2, <1>3, <1>4, <1>5, <1>6, DatabaseStep

\* A unit that is assigned, or a clause that is kept, covers the clause that was added.
LEMMA AddClauseCovered ==
    ASSUME IInv, IInv', Plain, Sealed, Covered, user = "ic3", NEW c \in Lemmas, AddClause(c), Next
    PROVE  Covered'
<1> DEFINE u == GroundLits
           r == Reduced(c, u)
<1>1. TypeOK /\ Levels /\ Grounded /\ TypeOK' /\ Levels' /\ c \subseteq PlainLit
  BY InputAssumption DEF IInv
<1> SUFFICES ASSUME ~overlooked', ~trivial_unsat', NEW b \in CircuitModels,
                    \A d \in lemmas' : Holds(d, b),
                    \A l \in GroundLits' : VarOf(l) \in Needed' => l \in b
             PROVE  \A d \in formula' : Holds(d, b)
  BY DEF Covered
<1>2. ~overlooked /\ ~trivial_unsat
  BY <1>1, DatabaseStep
<1>3. /\ formula' = formula \cup {c} /\ lemmas \subseteq lemmas'
      /\ ~Satisfied(c, u) => /\ trivial_unsat' = (trivial_unsat \/ r = {})
                             /\ Cardinality(r) > 1 => r \in lemmas'
  BY DEF AddClause, AddReduced
<1>4. /\ u \subseteq GroundLits' /\ Needed \subseteq Needed'
      /\ ~Satisfied(c, u) /\ Cardinality(r) = 1 => r \subseteq GroundLits'
      /\ ~Satisfied(c, u) => VarsOf(r) \subseteq Needed'
  BY <1>1, AddClauseGrounds, AddClauseSealed DEF Grounds
<1>5. \A d \in formula : Holds(d, b)
  <2>1. \A l \in u : VarOf(l) \in Needed => l \in b
    BY <1>4
  <2> QED
    BY <1>2, <1>3, <2>1 DEF Covered
<1>6. u \subseteq b
  BY <1>1, <1>5, GroundLitsFollow DEF Entails, Holds
<1>7. b \in Assignments /\ b \subseteq Lit /\ c \subseteq Lit
  BY <1>1, AssignmentType, PlainIsLit DEF CircuitModels
<1>8. r \subseteq c /\ IsFiniteSet(r) /\ Cardinality(r) \in Nat
  <2>1. r \subseteq c
    BY DEF Reduced
  <2> QED
    BY <1>7, <2>1, ClauseFinite
<1> HIDE DEF u, r
<1>9. Holds(c, b)
  <2>1. CASE c \cap u # {}
    BY <1>6, <2>1 DEF Holds
  <2>2. CASE \E l \in c : -l \in c
    BY <1>7, <2>2, AssignmentType DEF Holds
  <2>3. CASE ~Satisfied(c, u) /\ Cardinality(r) > 1
    BY <1>3, <1>8, <2>3 DEF Holds
  <2>4. CASE ~Satisfied(c, u) /\ Cardinality(r) = 1
    <3>1. PICK l \in r : TRUE
      BY <2>4, FS_EmptySet
    <3>2. VarOf(l) \in Needed' /\ l \in GroundLits'
      BY <1>4, <2>4, <3>1 DEF VarsOf
    <3> QED
      BY <1>8, <3>1, <3>2 DEF Holds
  <2>5. CASE ~Satisfied(c, u) /\ Cardinality(r) = 0
    <3>1. r = {}
      BY <1>8, <2>5, FS_EmptySet
    <3>2. trivial_unsat'
      BY <1>3, <2>5, <3>1, Zenon
    <3> QED
      BY <3>2
  <2>6. Cardinality(r) > 1 \/ Cardinality(r) = 1 \/ Cardinality(r) = 0
    BY <1>8
  <2> QED
    BY <2>1, <2>2, <2>3, <2>4, <2>5, <2>6 DEF Satisfied
<1> QED
  BY <1>3, <1>5, <1>9

\* Every step keeps the added clauses covered.
LEMMA CoveredKeeps ==
    ASSUME IInv, IInv', Complete, Plain, Sealed, Covered, user = "ic3", Next
    PROVE  Covered'
<1>1. CASE \E c \in Lemmas : AddClause(c)
  BY <1>1, AddClauseCovered
<1>2. CASE ~(\E c \in Lemmas : AddClause(c))
  <2>1. TypeOK /\ GroundLits \subseteq GroundLits' /\ Needed \subseteq Needed'
    BY GroundGrows, SealedKeeps DEF IInv
  <2> SUFFICES ASSUME ~overlooked', ~trivial_unsat', NEW b \in CircuitModels,
                      \A d \in lemmas' : Holds(d, b),
                      \A l \in GroundLits' : VarOf(l) \in Needed' => l \in b
               PROVE  \A d \in formula' : Holds(d, b)
    BY DEF Covered
  <2>2. /\ ~overlooked /\ ~trivial_unsat /\ formula' = formula
        /\ Simplify \/ lemmas' = lemmas
    BY <1>2, <2>1, DatabaseStep, SimplifyLeaves
  <2>3. \A l \in GroundLits : VarOf(l) \in Needed => l \in b
    BY <2>1
  <2>4. ASSUME NEW c \in lemmas PROVE Holds(c, b)
    <3>1. CASE lemmas' = lemmas
      BY <3>1
    <3>2. CASE Simplify
      <4>1. c \cap GroundLits # {} \/ \E r \in lemmas' : r \subseteq c
        BY <2>2, <3>2, SimplifyLeaves
      <4>2. ASSUME NEW l \in c \cap GroundLits PROVE l \in b
        <5>1. VarOf(l) \in Needed
          BY DEF Sealed, VarsOf
        <5> QED
          BY <2>3, <5>1
      <4> QED
        BY <4>1, <4>2 DEF Holds
    <3> QED
      BY <2>2, <3>1, <3>2
  <2> QED
    BY <2>2, <2>3, <2>4 DEF Covered
<1> QED
  BY <1>1, <1>2

-----------------------------------------------------------------------------
(***************************************************************************)
(* A question: its constraints are kept as temporary clauses, and the      *)
(* search stays in the domain, which has what was asked.                   *)
(***************************************************************************)

\* Every step of a search keeps what the question's constraints say.
LEMMA ConstraintsKeep ==
    ASSUME IInv, IInv', Complete, Plain, ConstraintsKept, user = "ic3", Next
    PROVE  ConstraintsKept'
<1>1. TypeOK /\ TypeOK' /\ Levels /\ Levels' /\ Control /\ GroundLits \subseteq GroundLits'
  BY GroundGrows DEF IInv
<1> SUFFICES ASSUME Searching' \/ ans' = "sat", NEW c \in Guarded'
             PROVE  Satisfied(c, GroundLits') \/ \E r \in temporary' : r \subseteq c
  BY DEF ConstraintsKept, Kept
<1>2. ASSUME Searching \/ ans = "sat", question' = question, temporary \subseteq temporary'
      PROVE  Satisfied(c, GroundLits') \/ \E r \in temporary' : r \subseteq c
  <2>1. c \in Guarded
    BY <1>2 DEF Guarded
  <2>2. Kept(c, temporary)
    BY <1>2, <2>1 DEF ConstraintsKept
  <2> QED
    BY <1>1, <1>2, <2>2, KeptStays
<1>3. CASE \E d \in Lemmas : AddClause(d)
  <2>1. PICK d \in Lemmas : AddClause(d)
    BY <1>3
  <2>2. (pc' = "idle" /\ UNCHANGED then) \/ (pc' = "propagate" /\ then' = "idle")
    BY <2>1 DEF AddClause, AddReduced, Call
  <2>3. ans' = "none"
    BY <2>1 DEF AddClause, Forgotten
  <2> QED
    BY <2>2, <2>3 DEF Searching
<1>4. CASE \E d \in Domains : SetDomain(d)
  <2>1. ans' = "none" /\ pc' = "idle"
    BY <1>4 DEF SetDomain, Call, Forgotten
  <2> QED
    BY <2>1 DEF Searching
<1>5. CASE (\E q \in Questions[user] : Solve(q)) \/ TrivialUnsat \/ AssumeFalse
  <2>1. \/ pc' = "propagate" /\ then' = "start" /\ ans' = "asked"
        \/ pc' = "idle" /\ ans' = "unsat"
    BY <1>5 DEF Solve, TrivialUnsat, AssumeFalse, Refute
  <2> QED
    BY <2>1 DEF Searching
<1>6. CASE NewRound
  <2> DEFINE u == GroundLits
             reduced == {Reduced(d, u) : d \in {e \in Guarded : ~Satisfied(e, u)}}
  <2>1. question' = question /\ trail' = Ground /\ ToGround
    BY <1>6 DEF NewRound
  <2>2. temporary' = reduced \/ (pc' = "idle" /\ ans' = "unsat")
    BY <1>6 DEF NewRound, Refute, Guarded
  <2>3. temporary' = reduced
    BY <2>2 DEF Searching
  <2>4. u = GroundLits' /\ c \in Guarded
    BY <1>1, <2>1, ToGroundGrounds DEF Guarded
  <2>5. Reduced(c, u) \subseteq c
    BY DEF Reduced
  <2> QED
    BY <2>3, <2>4, <2>5
<1>7. CASE UnsetDomain \/ \E v \in LeafVar : Flip(v)
  <2>1. UNCHANGED <<pc, then, ans, question, temporary>>
    BY <1>7 DEF UnsetDomain, Flip, answers
  <2> QED
    BY <1>2, <2>1 DEF Searching
<1>8. CASE Simplify \/ EqCleaned \/ PropUnit \/ PropWalk \/ Propagated
  <2>1. /\ UNCHANGED <<ans, question, temporary>>
        /\ \/ pc \in {"simplify", "eq"}
           \/ pc = "propagate" /\ UNCHANGED then /\ pc' \in {pc, then}
    BY <1>8 DEF Simplify, EqCleaned, PropUnit, PropWalk, Propagated, Propagating, answers
  <2> QED
    BY <1>1, <1>2, <2>1 DEF Searching, Control, Starting, TypeOK
<1>9. CASE Conflict
  <2>1. /\ UNCHANGED <<then, question, temporary>> /\ pc = "propagate"
        /\ then = "search" \/ (pc' = "idle" /\ ans' = "unsat") \/ (pc' = then /\ UNCHANGED ans)
    BY <1>9, Zenon DEF Conflict, Propagating, Refute, answers
  <2> QED
    BY <1>1, <1>2, <2>1 DEF Searching, Control, Starting, TypeOK, Plain
<1>10. CASE Resolve \/ Learn \/ CleanLearnt
  <2>1. Searching /\ UNCHANGED question /\ temporary \subseteq temporary'
    BY <1>10 DEF Resolve, Learn, CleanLearnt, Searching
  <2> QED
    BY <1>2, <2>1
<1>11. CASE Restart
  <2>1. Searching /\ UNCHANGED question /\ temporary \subseteq temporary'
    BY <1>11 DEF Restart, Searching
  <2> QED
    BY <1>2, <2>1
<1>12. CASE AssumeTrue \/ Assume \/ Decide \/ AnswerSat
  <2>1. Searching /\ UNCHANGED question /\ temporary \subseteq temporary'
    BY <1>12 DEF AssumeTrue, Assume, Decide, AnswerSat, Searching
  <2> QED
    BY <1>2, <2>1
<1> QED
  BY <1>1, <1>3, <1>4, <1>5, <1>6, <1>7, <1>8, <1>9, <1>10, <1>11, <1>12, StepIs

\* Only new_round begins a search, and only a search ends with a satisfiable answer; a question
\* stays what it is until the next one.
LEMMA RoundStep ==
    ASSUME TypeOK, Control, Plain, user = "ic3", Next
    PROVE  /\ Searching' => NewRound \/ (Searching /\ UNCHANGED question)
           /\ ans' = "sat" => \/ AnswerSat
                              \/ /\ ans = "sat" /\ UNCHANGED question
                                 /\ UnsetDomain \/ \E v \in LeafVar : Flip(v)
           /\ ans' = "asked" => \/ \E q \in Questions[user] : Solve(q)
                                \/ ans = "asked" /\ UNCHANGED <<question, temporary_domain>>
<1>1. CASE \E d \in Lemmas : AddClause(d)
  <2>1. PICK d \in Lemmas : AddClause(d)
    BY <1>1
  <2>2. (pc' = "idle" /\ UNCHANGED then) \/ (pc' = "propagate" /\ then' = "idle")
    BY <2>1 DEF AddClause, AddReduced, Call
  <2>3. ans' = "none"
    BY <2>1 DEF AddClause, Forgotten
  <2> QED
    BY <2>2, <2>3 DEF Searching
<1>2. CASE \E d \in Domains : SetDomain(d)
  <2>1. ans' = "none" /\ pc' = "idle"
    BY <1>2 DEF SetDomain, Call, Forgotten
  <2> QED
    BY <2>1 DEF Searching
<1>3. CASE \E q \in Questions[user] : Solve(q)
  <2>1. pc' = "propagate" /\ then' = "start" /\ ans' = "asked"
    BY <1>3 DEF Solve
  <2> QED
    BY <1>3, <2>1 DEF Searching
<1>4. CASE TrivialUnsat \/ AssumeFalse
  <2>1. pc' = "idle" /\ ans' = "unsat"
    BY <1>4 DEF TrivialUnsat, AssumeFalse, Refute
  <2> QED
    BY <2>1 DEF Searching
<1>5. CASE NewRound
  <2>1. /\ pc = "start" /\ UNCHANGED <<question, temporary_domain>>
        /\ (pc' = "idle" /\ ans' = "unsat") \/ UNCHANGED ans
    BY <1>5 DEF NewRound, Refute, answers
  <2>2. ans = "asked"
    BY <2>1 DEF Control, Starting
  <2> QED
    BY <1>5, <2>1, <2>2 DEF Searching
<1>6. CASE UnsetDomain \/ \E v \in LeafVar : Flip(v)
  <2>1. UNCHANGED <<pc, then, ans, question>> /\ pc = "idle"
    BY <1>6 DEF UnsetDomain, Flip, answers, Call
  <2>2. ans # "asked" /\ ~Searching
    BY <2>1 DEF Searching, Control, Starting
  <2> QED
    BY <1>6, <2>1, <2>2 DEF Searching
<1>7. CASE Simplify \/ EqCleaned \/ PropUnit \/ PropWalk \/ Propagated
  <2>1. /\ UNCHANGED <<ans, question, temporary_domain>>
        /\ \/ pc \in {"simplify", "eq"}
           \/ pc = "propagate" /\ UNCHANGED then /\ pc' \in {pc, then}
    BY <1>7 DEF Simplify, EqCleaned, PropUnit, PropWalk, Propagated, Propagating, answers, domains
  <2>2. ans # "sat"
    BY <2>1 DEF Control, Starting, Searching, TypeOK
  <2>3. Searching' => Searching
    BY <2>1 DEF Searching, TypeOK
  <2> QED
    BY <2>1, <2>2, <2>3
<1>8. CASE Conflict
  <2>1. /\ UNCHANGED <<then, question, temporary_domain>> /\ pc = "propagate"
        /\ \/ then = "search" /\ UNCHANGED ans
           \/ (pc' = "idle" /\ ans' = "unsat") \/ (pc' = then /\ UNCHANGED ans)
    BY <1>8, Zenon DEF Conflict, Propagating, Refute, answers, domains
  <2>2. ans # "sat"
    BY <2>1 DEF Control, Starting, Searching, TypeOK
  <2>3. Searching' => Searching
    BY <2>1 DEF Searching, TypeOK
  <2> QED
    BY <2>1, <2>2, <2>3
<1>9. CASE Resolve \/ Learn \/ CleanLearnt \/ Restart \/ AssumeTrue \/ Assume \/ Decide
  <2>1. Searching /\ UNCHANGED <<question, temporary_domain>> /\ ans' \in {ans, "unknown"}
    <3>1. CASE Restart
      BY <3>1 DEF Restart, Searching, domains
    <3>2. CASE Resolve \/ Learn \/ CleanLearnt
      BY <3>2 DEF Resolve, Learn, CleanLearnt, Searching, answers, domains
    <3>3. CASE AssumeTrue \/ Assume \/ Decide
      BY <3>3 DEF AssumeTrue, Assume, Decide, Searching, answers, domains
    <3> QED
      BY <1>9, <3>1, <3>2, <3>3
  <2>2. ans = "asked"
    BY <2>1 DEF Control
  <2> QED
    BY <2>1, <2>2
<1>10. CASE AnswerSat
  <2>1. pc = "branch" /\ UNCHANGED question /\ pc' = "idle" /\ ans' = "sat"
    BY <1>10 DEF AnswerSat
  <2> QED
    BY <1>10, <2>1 DEF Searching
<1> QED
  BY <1>1, <1>2, <1>3, <1>4, <1>5, <1>6, <1>7, <1>8, <1>9, <1>10, StepIs

\* The variables of a question.
LEMMA AskedType ==
    ASSUME TypeOK
    PROVE  /\ Asked \subseteq Var
           /\ Asked = {VarOf(As[i]) : i \in DOMAIN As} \cup VarsOf(UNION question.constraint)
           /\ \A i \in DOMAIN As : VarOf(As[i]) \in Asked
<1>1. \A i \in DOMAIN As : As[i] \in Lit
  BY AsType, LenProperties, ElementOfSeq
<1>2. \A c \in question.constraint : c \subseteq Lit
  BY QuestionType, PlainIsLit DEF TypeOK
<1>3. VarsOf({As[i] : i \in DOMAIN As}) = {VarOf(As[i]) : i \in DOMAIN As}
  BY DEF VarsOf
<1>4. \A v \in VarsOf(UNION question.constraint) : v \in Var
  BY <1>2, LitType DEF VarsOf
<1> QED
  BY <1>1, <1>3, <1>4, LitType DEF Asked

\* The calls that may change the domain, and new_round, go to level 0.
LEMMA CallGrounds ==
    ASSUME IInv, IInv',
           \/ (\E c \in Lemmas : AddClause(c)) \/ (\E d \in Domains : SetDomain(d)) \/ NewRound
    PROVE  Grounds
<1>1. TypeOK /\ TypeOK' /\ Levels /\ Levels'
  BY DEF IInv
<1>2. CASE \E c \in Lemmas : AddClause(c)
  BY <1>1, <1>2, AddClauseGrounds
<1>3. CASE (\E d \in Domains : SetDomain(d)) \/ NewRound
  <2>1. trail' = Ground /\ ToGround
    BY <1>3 DEF SetDomain, NewRound
  <2> QED
    BY <1>1, <2>1, ToGroundGrounds
<1> QED
  BY <1>2, <1>3

\* What is popped above level 0 lies in the domain.
LEMMA PoppedInside ==
    ASSUME TypeOK, Inside, NEW k \in Nat
    PROVE  Popped(k) \subseteq domain
<1>1. ASSUME NEW i \in DOMAIN trail, trail[i].level > k PROVE VarOf(trail[i].lit) \in domain
  <2>1. trail[i].level > 0
    BY <1>1, Trails DEF TypeOK
  <2> QED
    BY <2>1 DEF Inside
<1> QED
  BY <1>1 DEF Popped

\* The calls and new_round leave nothing above level 0.
LEMMA InsideTrail ==
    ASSUME IInv, IInv', Plain, Inside, user = "ic3", Next
    PROVE  \A i \in DOMAIN trail' : trail'[i].level > 0 => VarOf(trail'[i].lit) \in domain'
<1> SUFFICES ASSUME NEW i \in DOMAIN trail', trail'[i].level > 0
             PROVE  VarOf(trail'[i].lit) \in domain'
  OBVIOUS
<1>1. TypeOK /\ trail'[i].level \in Nat
  BY Trails DEF IInv, TypeOK
<1>2. CASE Grounds
  BY <1>1, <1>2 DEF Grounds
<1>3. CASE ~Grounds
  <2>1. UNCHANGED domain
    BY <1>1, <1>3, DatabaseStep, CallGrounds
  <2>2. CASE i \in DOMAIN trail /\ trail'[i] = trail[i]
    BY <2>1, <2>2 DEF Inside
  <2>3. ASSUME NEW k \in Nat, GoesBack(k) PROVE VarOf(trail'[i].lit) \in domain
    <3>1. \E j \in DOMAIN trail : trail[j].level > 0 /\ VarOf(trail[j].lit) = VarOf(trail'[i].lit)
      BY <2>3 DEF GoesBack
    <3> QED
      BY <3>1 DEF Inside
  <2>4. CASE UNCHANGED trail
    BY <2>2, <2>4
  <2>5. CASE PropUnit
    <3>1. PICK c \in Clauses : \E l \in c : UnitOf(c, l) /\ trail' = Assigned(trail, l, c, high)
      BY <2>5 DEF PropUnit
    <3>2. PICK l \in c : UnitOf(c, l) /\ trail' = Assigned(trail, l, c, high)
      BY <3>1
    <3>3. l \in Lit /\ high \in Nat /\ trail \in Seq(Entry)
      BY <1>1, <3>1, ClausesType DEF TypeOK
    <3>4. /\ trail'[Len(trail) + 1].lit = l /\ trail'[Len(trail) + 1].level = high
          /\ \A j \in DOMAIN trail : trail'[j] = trail[j]
          /\ i = Len(trail) + 1 \/ i \in DOMAIN trail
      BY <3>2, <3>3, ZeroAssigned
    <3>5. CASE i = Len(trail) + 1
      <4>1. high # 0
        BY <3>4, <3>5
      <4> QED
        BY <2>1, <3>2, <3>4, <3>5, <4>1 DEF UnitOf, InDomain
    <3> QED
      BY <2>2, <3>4, <3>5
  <2>6. CASE Assume
    <3>1. /\ pc = "branch" /\ trail' = Assigned(trail, As[high + 1], {}, high + 1) /\ high < Len(As)
      BY <2>6 DEF Assume, NextAssumption
    <3>2. high + 1 \in Nat /\ high + 1 \in DOMAIN As /\ high + 1 <= Len(As) /\ high + 1 > 0
      <4>1. high \in Nat /\ Len(As) \in Nat /\ DOMAIN As = 1..Len(As)
        BY <1>1, AsType, LenProperties DEF TypeOK
      <4> QED
        BY <3>1, <4>1
    <3>3. As[high + 1] \in Lit /\ trail \in Seq(Entry)
      BY <1>1, <3>2, AssumptionIs DEF TypeOK
    <3>4. /\ trail'[Len(trail) + 1].lit = As[high + 1]
          /\ \A j \in DOMAIN trail : trail'[j] = trail[j]
          /\ i = Len(trail) + 1 \/ i \in DOMAIN trail
      BY <3>1, <3>2, <3>3, ZeroAssigned
    <3>5. VarOf(As[high + 1]) \in domain
      <4>1. VarOf(As[high + 1]) \in Asked
        BY <1>1, <3>2, AskedType
      <4> QED
        BY <3>1, <4>1 DEF Inside, Searching
    <3> QED
      BY <2>1, <2>2, <3>4, <3>5
  <2>7. CASE Decide
    <3>1. PICK v \in Undecided : \E l \in {v, -v} : trail' = Assigned(trail, l, {}, high + 1)
      BY <2>7 DEF Decide
    <3>2. PICK l \in {v, -v} : trail' = Assigned(trail, l, {}, high + 1)
      BY <3>1
    <3>3. v \in queue /\ v \in Var /\ l \in Lit /\ VarOf(l) = v /\ trail \in Seq(Entry)
          /\ high + 1 \in Nat
      <4>1. v \in queue /\ queue \subseteq Var /\ high \in Nat /\ trail \in Seq(Entry)
        BY <1>1, <3>1 DEF Undecided, TypeOK
      <4> QED
        BY <3>2, <4>1, LitType
    <3>4. /\ trail'[Len(trail) + 1].lit = l
          /\ \A j \in DOMAIN trail : trail'[j] = trail[j]
          /\ i = Len(trail) + 1 \/ i \in DOMAIN trail
      BY <3>2, <3>3, ZeroAssigned
    <3>5. v \in domain
      <4>1. Searching
        BY <2>7 DEF Decide, Searching
      <4> QED
        BY <3>3, <4>1 DEF Inside
    <3> QED
      BY <2>1, <2>2, <3>3, <3>4, <3>5
  <2>8. CASE AssumeTrue
    BY <2>4, <2>8 DEF AssumeTrue
  <2>9. CASE Still
    BY <1>1, <2>4, <2>9, StillIs
  <2>10. CASE GoesOn /\ Restart
    <3>1. CASE UNCHANGED trail
      BY <2>4, <3>1
    <3>2. CASE Len(As) \in Nat /\ GoesBack(Len(As))
      BY <2>1, <2>3, <3>2
    <3> QED
      BY <2>10, <3>1, <3>2, RestartGoesBack
  <2>11. CASE \E k \in Nat : GoesBack(k)
    BY <2>1, <2>3, <2>11
  <2> QED
    BY <1>3, <2>5, <2>6, <2>7, <2>8, <2>9, <2>10, <2>11, TrailStep
<1> QED
  BY <1>2, <1>3

\* Variables to decide come from the domain.
LEMMA InsideQueue ==
    ASSUME IInv, IInv', Plain, Inside, user = "ic3", Next, temporary_domain' \/ Searching'
    PROVE  Act \in domain' /\ queue' \subseteq domain'
<1>1. TypeOK /\ Control /\ TypeOK'
  BY DEF IInv
<1>2. CASE \E c \in Lemmas : AddClause(c)
  <2>1. PICK c \in Lemmas : AddClause(c)
    BY <1>2
  <2>2. (pc' = "idle" /\ UNCHANGED then) \/ (pc' = "propagate" /\ then' = "idle")
    BY <2>1 DEF AddClause, AddReduced, Call
  <2>3. ~temporary_domain /\ UNCHANGED temporary_domain
    BY <2>1 DEF AddClause
  <2> QED
    BY <2>2, <2>3, Zenon DEF Searching
<1>3. CASE \E d \in Domains : SetDomain(d)
  BY <1>3 DEF SetDomain
<1>4. CASE UnsetDomain
  BY <1>4 DEF UnsetDomain, Call, Searching
<1>5. CASE NewRound
  <2>1. /\ UNCHANGED temporary_domain
        /\ \/ temporary_domain /\ queue' = queue \cup Popped(0) /\ UNCHANGED domain
           \/ ~temporary_domain /\ pc' = "idle"
           \/ ~temporary_domain /\ queue' = {} /\ Act \in domain'
    BY <1>5 DEF NewRound, Refute
  <2>2. Popped(0) \subseteq domain
    BY <1>1, PoppedInside
  <2> QED
    BY <2>1, <2>2 DEF Inside, Searching
<1>6. ASSUME UNCHANGED domain, temporary_domain \/ Searching, NEW X, X \subseteq domain,
             queue' \subseteq queue \cup X
      PROVE  Act \in domain' /\ queue' \subseteq domain'
  BY <1>6 DEF Inside
<1>7. CASE UNCHANGED <<domain, temporary_domain, queue>> /\ (Searching' => Searching)
  BY <1>6, <1>7
<1>8. CASE (\E v \in LeafVar : Flip(v)) \/ (\E q \in Questions[user] : Solve(q))
  <2>1. UNCHANGED <<domain, temporary_domain, queue>> /\ (Searching' => Searching)
    BY <1>8 DEF Flip, Solve, Searching, domains
  <2> QED
    BY <1>7, <2>1
<1>9. CASE TrivialUnsat \/ Simplify \/ EqCleaned \/ PropUnit \/ PropWalk \/ Propagated \/ Conflict
  <2>1. UNCHANGED <<domain, temporary_domain, queue>>
    BY <1>9, Zenon DEF TrivialUnsat, Simplify, EqCleaned, PropUnit, PropWalk, Propagated, Conflict,
                       domains
  <2>2. pc # "start"
    BY <1>9, Zenon DEF TrivialUnsat, Simplify, EqCleaned, PropUnit, PropWalk, Propagated, Conflict,
                       Propagating
  <2>3. ~NewRound
    BY <2>2 DEF NewRound
  <2> QED
    BY <1>1, <1>7, <2>1, <2>3, RoundStep
<1>10. CASE Resolve \/ CleanLearnt \/ AssumeFalse
  <2>1. UNCHANGED <<domain, temporary_domain, queue>> /\ Searching
    BY <1>10 DEF Resolve, CleanLearnt, AssumeFalse, domains, Searching
  <2> QED
    BY <1>7, <2>1
<1>11. CASE Learn \/ Restart
  <2>1. Searching /\ UNCHANGED <<domain, temporary_domain>>
    BY <1>11 DEF Learn, Restart, domains, Searching
  <2>2. \/ UNCHANGED queue
        \/ \E k \in Nat : queue' = queue \cup Popped(k)
    BY <1>11, LearnGoesBack, RestartGoesBack DEF GoesBack
  <2> QED
    BY <1>1, <1>6, <1>7, <2>1, <2>2, PoppedInside
<1>12. CASE AssumeTrue \/ Assume \/ Decide \/ AnswerSat
  <2>1. Searching /\ UNCHANGED <<domain, temporary_domain>>
    BY <1>12 DEF AssumeTrue, Assume, Decide, AnswerSat, domains, Searching
  <2>2. queue' \subseteq queue \cup domain
    BY <1>12 DEF AssumeTrue, Assume, Decide, AnswerSat, OpenLevel, Undecided
  <2> QED
    BY <1>6, <2>1, <2>2
<1> QED
  BY <1>1, <1>2, <1>3, <1>4, <1>5, <1>8, <1>9, <1>10, <1>11, <1>12, StepIs

\* A question's assumptions are its own ones and constrain_act.
LEMMA GuardedAssumptions ==
    ASSUME NEW a \in Seq(PlainLit), NEW k, NEW s, s = (IF k = {} THEN a ELSE <<Act>> \o a),
           NEW i \in DOMAIN s
    PROVE  s[i] = Act \/ s[i] \in {a[j] : j \in DOMAIN a}
<1>1. CASE k = {}
  BY <1>1
<1>2. CASE k # {}
  <2>1. a \in Seq(PlainLit \cup {Act}) /\ s = <<Act>> \o a
    BY <1>2
  <2>2. /\ Len(a) \in Nat /\ DOMAIN a = 1..Len(a) /\ DOMAIN s = 1..(1 + Len(a))
        /\ s[1] = Act /\ \A j \in 1..Len(a) : s[j + 1] = a[j]
    BY <2>1, InFront
  <2>3. CASE i = 1
    BY <2>2, <2>3
  <2>4. CASE i # 1
    <3>1. i - 1 \in 1..Len(a) /\ (i - 1) + 1 = i
      BY <2>2, <2>4
    <3>2. s[i] = a[i - 1]
      BY <2>2, <3>1
    <3> QED
      BY <2>2, <3>1, <3>2
  <2> QED
    BY <2>3, <2>4
<1> QED
  BY <1>1, <1>2

\* The domain contains the variables of the question.
LEMMA InsideAsked ==
    ASSUME IInv, IInv', Plain, Inside, user = "ic3", Next,
           (ans' = "asked" /\ temporary_domain') \/ Searching' \/ ans' = "sat"
    PROVE  Asked' \subseteq domain'
<1>1. TypeOK /\ Control /\ TypeOK' /\ Control'
  BY DEF IInv
<1>2. CASE \E q \in Questions[user] : Solve(q)
  <2>1. PICK q \in Questions[user] : Solve(q)
    BY <1>2
  <2>2. /\ question' = q /\ UNCHANGED <<domain, temporary_domain>>
        /\ temporary_domain =>
               VarsOf(UNION q.constraint) \cup {VarOf(q.assump[i]) : i \in DOMAIN q.assump}
                   \subseteq domain
        /\ pc' = "propagate" /\ then' = "start" /\ ans' = "asked"
    BY <2>1 DEF Solve, domains
  <2>3. temporary_domain
    BY <2>2 DEF Searching
  <2>4. Act \in domain /\ VarOf(Act) = Act
    BY <2>3, ActType, LitType DEF Inside
  <2> DEFINE s == IF q.constraint = {} THEN q.assump ELSE <<Act>> \o q.assump
  <2>5. ASSUME NEW i \in DOMAIN s PROVE VarOf(s[i]) \in domain
    <3>1. s[i] = Act \/ s[i] \in {q.assump[j] : j \in DOMAIN q.assump}
      <4>1. q.assump \in Seq(PlainLit)
        BY <1>1, InputAssumption DEF TypeOK
      <4> QED
        BY <4>1, GuardedAssumptions
    <3> QED
      BY <2>2, <2>3, <2>4, <3>1
  <2> HIDE DEF s
  <2>6. Asked' = {VarOf(s[i]) : i \in DOMAIN s} \cup VarsOf(UNION q.constraint)
    <3>1. As' = s
      BY <2>2 DEF As, s
    <3> QED
      BY <2>2, <3>1 DEF Asked, VarsOf
  <2> QED
    BY <2>2, <2>3, <2>5, <2>6
<1>3. CASE NewRound
  <2> DEFINE asked == {VarOf(As[i]) : i \in DOMAIN As} \cup VarsOf(UNION question.constraint)
  <2>1. /\ UNCHANGED <<question, temporary_domain>> /\ pc = "start"
        /\ \/ pc' = "idle" /\ ans' = "unsat"
           \/ temporary_domain /\ UNCHANGED <<domain, ans>>
           \/ ~temporary_domain /\ domain' = Closure(asked \ {Act}, fixed) \cup {Act}
    BY <1>3 DEF NewRound, Refute, answers
  <2>2. Asked' = asked /\ Asked = asked /\ asked \subseteq Var
    <3>1. Asked = asked /\ asked \subseteq Var
      BY <1>1, AskedType
    <3>2. Asked' = Asked
      BY <2>1 DEF Asked, As
    <3> QED
      BY <3>1, <3>2
  <2> HIDE DEF asked
  <2>3. CASE temporary_domain /\ UNCHANGED <<domain, ans>>
    <3>1. ans = "asked"
      BY <1>1, <2>1 DEF Control, Starting
    <3> QED
      BY <2>2, <2>3, <3>1 DEF Inside
  <2>4. CASE ~temporary_domain /\ domain' = Closure(asked \ {Act}, fixed) \cup {Act}
    BY <2>2, <2>4, ClosureIs
  <2> QED
    BY <2>1, <2>3, <2>4 DEF Searching
<1>4. CASE ~NewRound /\ ~(\E q \in Questions[user] : Solve(q))
  <2>1. AnswerSat => Searching /\ UNCHANGED question
    BY DEF AnswerSat, Searching
  <2>2. /\ UNCHANGED question
        /\ \/ Searching \/ ans = "sat" \/ AnswerSat
           \/ ans = "asked" /\ temporary_domain
    BY <1>1, <1>4, <2>1, RoundStep
  <2>3. Asked' = Asked
    BY <2>2 DEF Asked, As
  <2>4. UNCHANGED domain
    <3>1. ASSUME (\E c \in Lemmas : AddClause(c)) \/ \E d \in Domains : SetDomain(d) PROVE FALSE
      <4>1. ans' = "none"
        BY <3>1 DEF AddClause, SetDomain, Forgotten
      <4>2. ~Searching'
        BY <1>1, <4>1 DEF Control
      <4> QED
        BY <4>1, <4>2
    <3> QED
      BY <1>1, <1>4, <3>1, DatabaseStep
  <2> QED
    BY <2>1, <2>2, <2>3, <2>4 DEF Inside
<1> QED
  BY <1>2, <1>3, <1>4

\* The search stays inside the domain.
LEMMA InsideKeeps ==
    ASSUME IInv, IInv', Plain, Inside, user = "ic3", Next
    PROVE  Inside'
BY InsideTrail, InsideQueue, InsideAsked DEF Inside

-----------------------------------------------------------------------------
(***************************************************************************)
(* The queue of decisions: a variable of the domain has a value or is in   *)
(* it.                                                                     *)
(***************************************************************************)

\* What is assigned, by the trail.
LEMMA AssignedIs ==
    ASSUME NEW t \in Seq(Entry), NEW v \in Var
    PROVE  v \in LitsOf(t) \/ -v \in LitsOf(t) <=> \E i \in DOMAIN t : VarOf(t[i].lit) = v
<1>1. \A i \in DOMAIN t : t[i].lit \in Lit
  BY Trails
<1>2. v \in Lit /\ -v \in Lit /\ VarOf(v) = v /\ VarOf(-v) = v
  BY LitType
<1>3. ASSUME NEW i \in DOMAIN t, VarOf(t[i].lit) = v PROVE t[i].lit = v \/ t[i].lit = -v
  BY <1>1, <1>2, <1>3, SameVar
<1> QED
  BY <1>2, <1>3 DEF LitsOf

\* Without a value are the variables that do not occur in the trail, before a step and after it.
LEMMA ValueIs ==
    ASSUME TypeOK, TypeOK', NEW v \in Var
    PROVE  /\ ~Unassigned(v) <=> \E i \in DOMAIN trail : VarOf(trail[i].lit) = v
           /\ ~Unassigned(v)' <=> \E i \in DOMAIN trail' : VarOf(trail'[i].lit) = v
<1>1. trail \in Seq(Entry) /\ trail' \in Seq(Entry)
  BY DEF TypeOK
<1>2. ~Unassigned(v) <=> v \in LitsOf(trail) \/ -v \in LitsOf(trail)
  BY DEF Unassigned, True, False
<1>3. ~Unassigned(v)' <=> v \in LitsOf(trail') \/ -v \in LitsOf(trail')
  BY DEF Unassigned, True, False
<1> QED
  BY <1>1, <1>2, <1>3, AssignedIs

\* Where the trail goes on, what has a value keeps it.
LEMMA ValueStays ==
    ASSUME TypeOK, TypeOK', GoesOn, NEW v \in Var, ~Unassigned(v)
    PROVE  ~Unassigned(v)'
<1>1. PICK i \in DOMAIN trail : VarOf(trail[i].lit) = v
  BY ValueIs
<1>2. i \in DOMAIN trail' /\ trail'[i] = trail[i]
  BY DEF GoesOn
<1> QED
  BY <1>1, <1>2, ValueIs

\* Where it goes back, what loses its value is to be decided again.
LEMMA ValueBack ==
    ASSUME TypeOK, TypeOK', NEW k \in Nat, GoesBack(k), NEW v \in Var, ~Unassigned(v)
    PROVE  v \in queue' \/ ~Unassigned(v)'
<1>1. PICK i \in DOMAIN trail : VarOf(trail[i].lit) = v
  BY ValueIs
<1>2. trail[i].level \in Nat
  BY Trails DEF TypeOK
<1>3. CASE trail[i].level <= k
  BY <1>1, <1>3, ValueIs DEF GoesBack
<1>4. CASE trail[i].level > k
  BY <1>1, <1>4 DEF GoesBack, Popped
<1> QED
  BY <1>2, <1>3, <1>4

\* Every variable of the domain is to be decided or has a value.
LEMMA QueuedDomain ==
    ASSUME IInv, IInv', Plain, Inside, Queued, user = "ic3", Next,
           temporary_domain' \/ (Searching' /\ prepared'), NEW v \in domain' \ {Act}
    PROVE  v \in queue' \/ ~Unassigned(v)'
<1>1. TypeOK /\ Control /\ TypeOK' /\ Levels /\ Levels' /\ v \in Var
  BY DEF IInv, TypeOK
<1>2. CASE \E c \in Lemmas : AddClause(c)
  <2>1. PICK c \in Lemmas : AddClause(c)
    BY <1>2
  <2>2. (pc' = "idle" /\ UNCHANGED then) \/ (pc' = "propagate" /\ then' = "idle")
    BY <2>1 DEF AddClause, AddReduced, Call
  <2>3. ~temporary_domain /\ UNCHANGED temporary_domain
    BY <2>1 DEF AddClause
  <2> QED
    BY <2>2, <2>3, Zenon DEF Searching
<1>3. CASE \E d \in Domains : SetDomain(d)
  BY <1>3 DEF SetDomain
<1>4. CASE UnsetDomain
  BY <1>4 DEF UnsetDomain, Call, Searching
<1>5. ASSUME UNCHANGED domain, temporary_domain \/ (Searching /\ prepared), GoesOn,
             v \in queue => v \in queue' \/ ~Unassigned(v)'
      PROVE  v \in queue' \/ ~Unassigned(v)'
  BY <1>1, <1>5, ValueStays DEF Queued
<1>6. CASE NewRound
  <2>1. /\ UNCHANGED temporary_domain /\ prepared' = FALSE /\ trail' = Ground /\ ToGround
        /\ \/ temporary_domain /\ queue' = queue \cup Popped(0) /\ UNCHANGED domain
           \/ ~temporary_domain
    BY <1>6 DEF NewRound
  <2>2. v \in queue \/ ~Unassigned(v)
    BY <2>1 DEF Queued
  <2>3. ASSUME NEW i \in DOMAIN trail, VarOf(trail[i].lit) = v
        PROVE  v \in queue' \/ ~Unassigned(v)'
    <3>1. trail[i].level \in Nat /\ trail[i].lit \in Lit
      BY <1>1, Trails DEF TypeOK
    <3>2. CASE trail[i].level > 0
      BY <2>1, <2>3, <3>2 DEF Popped
    <3>3. CASE trail[i].level <= 0
      <4>1. trail[i].lit \notin {Act, -Act}
        BY <2>3, <3>1, SameVar, ActType, LitType
      <4>2. trail[i].lit \in GroundLits
        BY <3>3, <4>1 DEF GroundLits, LitsUpto
      <4>3. GroundLits' = GroundLits
        BY <1>1, <2>1, ToGroundGrounds
      <4>4. \E j \in DOMAIN trail' : trail'[j].lit = trail[i].lit
        BY <4>2, <4>3 DEF GroundLits, LitsUpto
      <4> QED
        BY <1>1, <2>3, <4>4, ValueIs
    <3> QED
      BY <3>1, <3>2, <3>3
  <2> QED
    BY <1>1, <2>1, <2>2, <2>3, ValueIs
<1>7. CASE (\E u \in LeafVar : Flip(u)) \/ (\E q \in Questions[user] : Solve(q))
  <2>1. UNCHANGED <<domain, temporary_domain, queue>> /\ ~Searching'
    BY <1>7 DEF Flip, Solve, Searching, domains
  <2>2. GoesOn
    BY <1>1, <1>7, StillIs DEF Still
  <2> QED
    BY <1>5, <2>1, <2>2
<1>8. CASE TrivialUnsat \/ Simplify \/ EqCleaned \/ PropUnit \/ PropWalk \/ Propagated \/ Conflict
  <2>1. UNCHANGED <<domain, temporary_domain, queue, prepared>>
    BY <1>8, Zenon DEF TrivialUnsat, Simplify, EqCleaned, PropUnit, PropWalk, Propagated, Conflict,
                       domains
  <2>2. pc # "start"
    BY <1>8, Zenon DEF TrivialUnsat, Simplify, EqCleaned, PropUnit, PropWalk, Propagated, Conflict,
                       Propagating
  <2>3. ~NewRound
    BY <2>2 DEF NewRound
  <2>4. GoesOn
    BY <1>1, <1>8, StillIs, GrowsOn DEF Still
  <2> QED
    BY <1>1, <1>5, <2>1, <2>3, <2>4, RoundStep
<1>9. CASE Resolve \/ CleanLearnt \/ AssumeFalse
  <2>1. UNCHANGED <<domain, temporary_domain, queue, prepared>> /\ Searching
    BY <1>9 DEF Resolve, CleanLearnt, AssumeFalse, domains, Searching
  <2>2. GoesOn
    BY <1>1, <1>9, StillIs DEF Still
  <2> QED
    BY <1>5, <2>1, <2>2
<1>10. CASE Learn \/ Restart
  <2>1. Searching /\ UNCHANGED <<domain, temporary_domain, prepared>>
    BY <1>10 DEF Learn, Restart, domains, Searching
  <2>2. v \in queue \/ ~Unassigned(v)
    BY <2>1 DEF Queued
  <2>3. ASSUME NEW k \in Nat, GoesBack(k) PROVE v \in queue' \/ ~Unassigned(v)'
    <3>1. queue \subseteq queue'
      BY <2>3 DEF GoesBack
    <3> QED
      BY <1>1, <2>2, <2>3, <3>1, ValueBack
  <2>4. CASE UNCHANGED <<trail, queue>>
    BY <2>2, <2>4 DEF Unassigned, True, False
  <2> QED
    BY <1>10, <2>3, <2>4, LearnGoesBack, RestartGoesBack
<1>11. CASE AssumeTrue \/ Assume
  <2>1. /\ Searching /\ UNCHANGED <<domain, temporary_domain>>
        /\ \/ UNCHANGED <<prepared, queue>>
           \/ queue' = queue \cup {u \in domain : u \notin VarsOf(LitsOf(trail'))}
    BY <1>11 DEF AssumeTrue, Assume, domains, Searching, OpenLevel
  <2>2. CASE UNCHANGED <<prepared, queue>>
    BY <1>5, <1>11, <2>1, <2>2, GrowsOn
  <2>3. CASE queue' = queue \cup {u \in domain : u \notin VarsOf(LitsOf(trail'))}
    <3>1. v \in queue' \/ v \in VarsOf(LitsOf(trail'))
      BY <2>1, <2>3
    <3>2. ASSUME v \in VarsOf(LitsOf(trail'))
          PROVE  \E i \in DOMAIN trail' : VarOf(trail'[i].lit) = v
      BY <3>2 DEF VarsOf, LitsOf
    <3> QED
      BY <1>1, <3>1, <3>2, ValueIs
  <2> QED
    BY <2>1, <2>2, <2>3
<1>12. CASE Decide
  <2>1. PICK u \in Undecided : /\ \E l \in {u, -u} : trail' = Assigned(trail, l, {}, high + 1)
                               /\ queue' = Undecided \ {u}
    BY <1>12 DEF Decide
  <2>2. PICK l \in {u, -u} : trail' = Assigned(trail, l, {}, high + 1)
    BY <2>1
  <2>3. Searching /\ UNCHANGED <<domain, temporary_domain, prepared>>
    BY <1>12 DEF Decide, Searching, domains
  <2>4. u \in Var /\ l \in Lit /\ VarOf(l) = u /\ trail \in Seq(Entry) /\ high + 1 \in Nat
    <3>1. u \in queue /\ queue \subseteq Var /\ high \in Nat /\ trail \in Seq(Entry)
      BY <1>1, <2>1 DEF Undecided, TypeOK
    <3> QED
      BY <2>2, <3>1, LitType
  <2>5. trail'[Len(trail) + 1].lit = l /\ Len(trail) + 1 \in DOMAIN trail'
    <3>1. Len(trail) \in Nat
      BY <2>4, Trails
    <3>2. trail'[Len(trail) + 1].lit = l /\ DOMAIN trail' = 1..(Len(trail) + 1)
      BY <2>2, <2>4, ZeroAssigned
    <3> QED
      BY <3>1, <3>2
  <2>6. ~Unassigned(u)'
    BY <1>1, <2>4, <2>5, ValueIs
  <2>7. ASSUME v \in queue, Unassigned(v), v # u PROVE v \in queue'
    BY <2>1, <2>7 DEF Undecided
  <2>8. ~Unassigned(v) => ~Unassigned(v)'
    BY <1>1, <1>12, GrowsOn, ValueStays
  <2> QED
    BY <1>5, <1>12, <2>3, <2>6, <2>7, <2>8, GrowsOn
<1>13. CASE AnswerSat
  <2>1. Searching /\ UNCHANGED <<domain, temporary_domain, prepared, trail>> /\ Undecided = {}
    BY <1>13 DEF AnswerSat, Searching, domains, assigns
  <2>2. v \in queue \/ ~Unassigned(v)
    BY <2>1 DEF Queued
  <2>3. ~Unassigned(v)
    BY <2>1, <2>2 DEF Undecided
  <2> QED
    BY <2>1, <2>3 DEF Unassigned, True, False
<1> QED
  BY <1>1, <1>2, <1>3, <1>4, <1>6, <1>7, <1>8, <1>9, <1>10, <1>11, <1>12, <1>13, StepIs

\* A question of IC3's has an assumption, be it constrain_act.
LEMMA SomeAssumption ==
    ASSUME TypeOK, user = "ic3"
    PROVE  Len(As) \in Nat /\ Len(As) > 0
<1>1. /\ question.assump \in Seq(PlainLit) /\ Len(question.assump) \in Nat
      /\ question.assump # <<>> \/ question.constraint # {}
  BY QuestionType, InputAssumption, LenProperties DEF TypeOK
<1>2. CASE question.constraint = {}
  <2>1. As = question.assump
    BY <1>2 DEF As
  <2>2. Len(question.assump) # 0
    BY <1>1, <1>2, EmptySeq
  <2> QED
    BY <1>1, <2>1, <2>2
<1>3. CASE question.constraint # {}
  <2> DEFINE q == question.assump
  <2>1. q \in Seq(PlainLit \cup {Act}) /\ As = <<Act>> \o q
    BY <1>1, <1>3 DEF As
  <2> HIDE DEF q
  <2>2. Len(As) = 1 + Len(q)
    BY <2>1, InFront
  <2> QED
    BY <1>1, <2>2 DEF q
<1> QED
  BY <1>2, <1>3

\* Before the last assumption has its level nothing is decided.
LEMMA QueuedLevel ==
    ASSUME IInv, IInv', Plain, Queued, user = "ic3", Next,
           Searching', ~temporary_domain', ~prepared'
    PROVE  high' < Len(As')
<1>1. TypeOK /\ Control /\ TypeOK' /\ Control' /\ high \in Nat /\ Len(As) \in Nat
  BY AsType, LenProperties DEF IInv, TypeOK
<1>2. CASE NewRound
  <2>1. UNCHANGED question /\ high' = 0
    BY <1>2 DEF NewRound, ToGround
  <2>2. As' = As
    BY <2>1 DEF As
  <2> QED
    BY <1>1, <2>1, <2>2, SomeAssumption
<1>3. CASE ~NewRound
  <2>1. Searching /\ UNCHANGED question
    BY <1>1, <1>3, RoundStep
  <2>2. As' = As
    BY <2>1 DEF As
  <2>3. UNCHANGED temporary_domain
    <3>1. ans = "asked" /\ ans' = "asked"
      BY <1>1, <2>1 DEF Control
    <3>2. ASSUME NEW q \in Questions[user], Solve(q) PROVE FALSE
      BY <3>2 DEF Solve, Searching
    <3> QED
      BY <1>1, <3>1, <3>2, RoundStep
  <2>4. CASE UNCHANGED <<high, prepared>>
    BY <2>1, <2>2, <2>3, <2>4 DEF Queued
  <2>5. CASE (\E c \in Lemmas : AddClause(c)) \/ (\E d \in Domains : SetDomain(d)) \/ UnsetDomain
             \/ (\E v \in LeafVar : Flip(v)) \/ (\E q \in Questions[user] : Solve(q))
    <3>1. pc = "idle"
      BY <2>5 DEF AddClause, SetDomain, UnsetDomain, Flip, Solve, Call
    <3> QED
      BY <2>1, <3>1 DEF Searching
  <2>6. CASE TrivialUnsat \/ Simplify \/ EqCleaned \/ PropUnit \/ PropWalk \/ Propagated \/ Conflict
    <3>1. UNCHANGED <<high, prepared>>
      BY <2>6, Zenon DEF TrivialUnsat, Simplify, EqCleaned, PropUnit, PropWalk, Propagated,
                         Conflict, assigns
    <3> QED
      BY <2>4, <3>1
  <2>7. CASE Resolve \/ CleanLearnt \/ AssumeFalse \/ AnswerSat
    <3>1. UNCHANGED <<high, prepared>>
      BY <2>7 DEF Resolve, CleanLearnt, AssumeFalse, AnswerSat, assigns
    <3> QED
      BY <2>4, <3>1
  <2>8. CASE Learn \/ Restart
    <3>1. UNCHANGED prepared /\ high' <= high
      <4>1. UNCHANGED high \/ \E k \in Nat : GoesBack(k)
        BY <2>8, LearnGoesBack, RestartGoesBack
      <4> QED
        BY <1>1, <2>8, <4>1 DEF Learn, Restart, GoesBack
    <3>2. high < Len(As) /\ high' \in Nat
      BY <1>1, <2>1, <2>3, <3>1 DEF Queued, TypeOK
    <3> QED
      BY <1>1, <2>2, <3>1, <3>2
  <2>9. CASE AssumeTrue \/ Assume
    <3>1. /\ high' = high + 1 /\ high < Len(As)
          /\ (high + 1 = Len(As) /\ ~prepared /\ ~temporary_domain) => prepared' = TRUE
          /\ (high + 1 = Len(As) /\ ~prepared /\ ~temporary_domain) \/ UNCHANGED prepared
      BY <2>9 DEF AssumeTrue, Assume, OpenLevel
    <3>2. high + 1 # Len(As)
      BY <2>3, <3>1
    <3> QED
      BY <1>1, <2>2, <3>1, <3>2
  <2>10. CASE Decide
    <3>1. UNCHANGED prepared /\ high >= Len(As)
      BY <2>10 DEF Decide
    <3>2. high < Len(As)
      BY <2>1, <2>3, <3>1 DEF Queued
    <3> QED
      BY <1>1, <3>1, <3>2
  <2> QED
    BY <1>1, <1>3, <2>5, <2>6, <2>7, <2>8, <2>9, <2>10, StepIs
<1> QED
  BY <1>2, <1>3

\* What is to be decided is not forgotten.
LEMMA QueuedKeeps ==
    ASSUME IInv, IInv', Plain, Inside, Queued, user = "ic3", Next
    PROVE  Queued'
BY QueuedDomain, QueuedLevel DEF Queued

-----------------------------------------------------------------------------
(***************************************************************************)
(* The levels: assumptions come first and are true there, and what lies    *)
(* below the highest level is propagated.                                  *)
(***************************************************************************)

\* As long as nothing is gone back to, levels keep their literals.
LEMMA LevelsGoOn ==
    ASSUME GoesOn, NEW k
    PROVE  LitsUpto(k) \subseteq LitsUpto(k)'
<1>1. ASSUME NEW i \in DOMAIN trail, trail[i].level <= k
      PROVE  \E j \in DOMAIN trail' : trail'[j].level <= k /\ trail'[j].lit = trail[i].lit
  BY <1>1 DEF GoesOn
<1> QED
  BY <1>1 DEF LitsUpto

\* The levels up to the one that is gone back to keep theirs.
LEMMA LevelsGoBack ==
    ASSUME TypeOK, NEW k \in Nat, GoesBack(k), NEW j \in Nat, j <= k
    PROVE  LitsUpto(j) \subseteq LitsUpto(j)'
<1>1. ASSUME NEW i \in DOMAIN trail, trail[i].level <= j
      PROVE  i \in DOMAIN trail' /\ trail'[i] = trail[i]
  <2>1. trail[i].level \in Nat
    BY Trails DEF TypeOK
  <2>2. trail[i].level <= k
    BY <1>1, <2>1
  <2> QED
    BY <2>2 DEF GoesBack
<1> QED
  BY <1>1 DEF LitsUpto

\* Each assumption is true at its level.
LEMMA AssumedTrueKeeps ==
    ASSUME IInv, IInv', Plain, AssumedTrue, user = "ic3", Next
    PROVE  AssumedTrue'
<1>1. TypeOK /\ Control /\ TypeOK' /\ high \in Nat /\ high' \in Nat /\ Len(As) \in Nat
  BY AsType, LenProperties DEF IInv, TypeOK
<1> SUFFICES ASSUME Searching', NEW i \in 1..Len(As'), i <= high'
             PROVE  As'[i] \in LitsUpto(i)'
  BY DEF AssumedTrue
<1>2. CASE NewRound
  <2>1. high' = 0 /\ UNCHANGED question
    BY <1>2 DEF NewRound, ToGround
  <2>2. As' = As
    BY <2>1 DEF As
  <2>3. i \in 1..Len(As)
    BY <2>2
  <2> QED
    BY <1>1, <2>1, <2>3
<1>3. CASE ~NewRound
  <2>1. Searching /\ UNCHANGED question
    BY <1>1, <1>3, RoundStep
  <2>2. As' = As /\ i \in 1..Len(As) /\ i \in Nat
    BY <1>1, <2>1 DEF As
  <2>3. i <= high => As[i] \in LitsUpto(i)
    BY <2>1, <2>2 DEF AssumedTrue
  <2>4. CASE Grounds
    BY <1>1, <2>2, <2>4 DEF Grounds
  <2>5. ASSUME NEW k \in Nat, GoesBack(k) PROVE As[i] \in LitsUpto(i)'
    <3>1. high' = k /\ k <= high
      BY <2>5 DEF GoesBack
    <3>2. i <= high
      BY <1>1, <2>2, <3>1
    <3>3. i \in Nat /\ i <= k
      BY <2>2, <3>1
    <3>4. LitsUpto(i) \subseteq LitsUpto(i)'
      BY <1>1, <2>5, <3>3, LevelsGoBack
    <3> QED
      BY <2>2, <2>3, <3>2, <3>4
  <2>6. CASE GoesOn /\ i <= high
    BY <2>2, <2>3, <2>6, LevelsGoOn
  <2>7. CASE GoesOn /\ ~(i <= high)
    <3>1. high' = high + 1 /\ pc = "branch" /\ i = high + 1
      BY <1>1, <2>2, <2>7 DEF GoesOn
    <3>2. high < Len(As)
      BY <1>1, <2>2, <3>1
    <3>3. (~Restart /\ ~PropUnit /\ ~Still) \/ UNCHANGED high
      <4>1. Still => UNCHANGED high
        BY <1>1, StillIs
      <4> QED
        BY <3>1, <4>1 DEF Restart, PropUnit, Propagating
    <3>4. AssumeTrue \/ Assume
      <4>1. ~Decide
        BY <1>1, <3>2 DEF Decide
      <4>2. high' # high /\ high' # 0
        BY <1>1, <3>1
      <4>3. ~(\E k \in Nat : k < high /\ GoesBack(k))
        BY <1>1, <3>1 DEF GoesBack
      <4> QED
        BY <3>3, <4>1, <4>2, <4>3, TrailStep DEF Grounds
    <3>5. CASE AssumeTrue
      <4>1. True(As[i]) /\ UNCHANGED trail
        BY <3>1, <3>5 DEF AssumeTrue, NextAssumption
      <4>2. PICK j \in DOMAIN trail : trail[j].lit = As[i]
        BY <4>1 DEF True, LitsOf
      <4>3. trail[j].level <= high /\ trail[j].level \in Nat
        BY <1>1, Trails DEF IInv, Levels, TypeOK
      <4>4. trail'[j].level <= i
        BY <1>1, <3>1, <4>1, <4>3
      <4> QED
        BY <2>2, <4>1, <4>2, <4>4 DEF LitsUpto
    <3>6. CASE Assume
      <4>1. trail' = Assigned(trail, As[i], {}, i)
        BY <3>1, <3>6 DEF Assume, NextAssumption
      <4>2. As[i] \in Lit /\ trail \in Seq(Entry) /\ Len(trail) \in Nat
        <5>1. i > 0 /\ i <= Len(As)
          BY <1>1, <2>2
        <5> QED
          BY <1>1, <2>2, <5>1, AssumptionIs, Trails DEF TypeOK
      <4>3. /\ DOMAIN trail' = 1..(Len(trail) + 1)
            /\ trail'[Len(trail) + 1].lit = As[i] /\ trail'[Len(trail) + 1].level = i
        BY <2>2, <4>1, <4>2, ZeroAssigned
      <4>4. Len(trail) + 1 \in DOMAIN trail' /\ trail'[Len(trail) + 1].level <= i
        BY <2>2, <4>2, <4>3
      <4> QED
        BY <2>2, <4>3, <4>4 DEF LitsUpto
    <3> QED
      BY <2>2, <3>4, <3>5, <3>6
  <2> QED
    BY <2>2, <2>4, <2>5, <2>6, <2>7, TrailStep
<1> QED
  BY <1>2, <1>3

\* Only propagation goes on to another literal.
LEMMA WalkStep ==
    ASSUME TypeOK, Plain, user = "ic3", Next
    PROVE  walk' = walk \/ walk' = 0 \/ PropWalk
<1>1. CASE \/ (\E c \in Lemmas : AddClause(c)) \/ (\E d \in Domains : SetDomain(d)) \/ UnsetDomain
           \/ (\E v \in LeafVar : Flip(v)) \/ (\E q \in Questions[user] : Solve(q))
  BY <1>1 DEF AddClause, SetDomain, UnsetDomain, Flip, Solve
<1>2. CASE TrivialUnsat \/ NewRound \/ Simplify \/ EqCleaned \/ PropUnit \/ PropWalk \/ Propagated
  BY <1>2 DEF TrivialUnsat, NewRound, Simplify, EqCleaned, PropUnit, Propagated
<1>3. CASE Conflict
  BY <1>3, Zenon DEF Conflict
<1>4. CASE Resolve \/ Learn \/ Restart \/ CleanLearnt
  BY <1>4 DEF Resolve, Learn, Restart, CleanLearnt
<1>5. CASE AssumeTrue \/ Assume \/ AssumeFalse \/ Decide \/ AnswerSat
  BY <1>5 DEF AssumeTrue, Assume, AssumeFalse, Decide, AnswerSat
<1> QED
  BY <1>1, <1>2, <1>3, <1>4, <1>5, StepIs

\* Propagation finishes a level before the next one is opened.
LEMMA BehindKeeps ==
    ASSUME IInv, IInv', Complete, Plain, Behind, user = "ic3", Next
    PROVE  Behind'
<1>1. /\ TypeOK /\ Control /\ Levels /\ TypeOK' /\ Levels' /\ Walks
      /\ trail \in Seq(Entry) /\ trail' \in Seq(Entry) /\ high \in Nat /\ high' \in Nat
      /\ propagated \in Nat /\ propagated' \in Nat
  BY DEF IInv, Complete, TypeOK
<1>2. /\ \A i \in DOMAIN trail : trail[i].level \in Nat /\ i \in Nat /\ i <= Len(trail)
      /\ \A i \in DOMAIN trail' : trail'[i].level \in Nat /\ i \in Nat
      /\ Len(trail) \in Nat /\ DOMAIN trail = 1..Len(trail)
  BY <1>1, Trails
<1>3. CASE Grounds
  <2>1. high' = 0 /\ \A i \in DOMAIN trail' : ~(trail'[i].level < 0)
    BY <1>2, <1>3 DEF Grounds
  <2> QED
    BY <2>1 DEF Behind
<1>4. CASE GoesOn /\ UNCHANGED high /\ propagated <= propagated'
  <2>1. ASSUME NEW i \in DOMAIN trail', trail'[i].level < high' PROVE i <= propagated'
    <3>1. i \in DOMAIN trail /\ trail'[i] = trail[i]
      BY <1>1, <1>2, <1>4, <2>1 DEF GoesOn
    <3>2. i <= propagated
      BY <1>4, <2>1, <3>1 DEF Behind
    <3> QED
      BY <1>1, <1>2, <1>4, <3>1, <3>2
  <2>2. ASSUME walk' # 0, high' > 0
        PROVE  \E i \in DOMAIN trail' : trail'[i].lit = walk' /\ trail'[i].level = high'
    <3>1. CASE walk' = walk
      <4>1. PICK i \in DOMAIN trail : trail[i].lit = walk /\ trail[i].level = high
        BY <1>4, <2>2, <3>1 DEF Behind
      <4> QED
        BY <1>4, <3>1, <4>1 DEF GoesOn
    <3>2. CASE PropWalk
      <4>1. propagated < Len(trail) /\ walk' = trail[propagated + 1].lit /\ UNCHANGED trail
        BY <3>2 DEF PropWalk
      <4>2. propagated + 1 \in DOMAIN trail /\ ~(propagated + 1 <= propagated)
        BY <1>1, <1>2, <4>1
      <4>3. trail[propagated + 1].level <= high /\ ~(trail[propagated + 1].level < high)
        BY <1>1, <4>2 DEF Behind, Levels
      <4>4. trail[propagated + 1].level = high
        BY <1>1, <1>2, <4>2, <4>3
      <4> QED
        BY <1>4, <4>1, <4>2, <4>4
    <3> QED
      BY <1>1, <2>2, <3>1, <3>2, WalkStep
  <2> QED
    BY <2>1, <2>2 DEF Behind
<1>5. CASE AssumeTrue \/ Assume \/ Decide
  <2>1. pc = "branch" /\ UNCHANGED <<walk, propagated>> /\ high' = high + 1 /\ GoesOn
    BY <1>5, GrowsOn DEF AssumeTrue, Assume, Decide, OpenLevel
  <2>2. walk = 0 /\ propagated >= Len(trail)
    BY <2>1, BranchIs
  <2>3. ASSUME NEW i \in DOMAIN trail', trail'[i].level < high' PROVE i <= propagated'
    <3>1. i \in DOMAIN trail
      BY <1>1, <1>2, <2>1, <2>3 DEF GoesOn
    <3> QED
      BY <1>1, <1>2, <2>1, <2>2, <3>1
  <2> QED
    BY <2>1, <2>2, <2>3 DEF Behind
<1>6. CASE (\E k \in Nat : GoesBack(k)) /\ (Learn \/ Restart)
  <2>1. PICK k \in Nat : GoesBack(k)
    BY <1>6
  <2>2. walk = 0 /\ UNCHANGED walk
    BY <1>1, <1>6 DEF Learn, Restart, Walks
  <2>3. high' = k /\ propagated' = PosInTrail(trail, k)
    BY <2>1 DEF GoesBack
  <2>4. ASSUME NEW i \in DOMAIN trail', trail'[i].level < high' PROVE i <= propagated'
    <3>1. i \in DOMAIN trail /\ trail[i].level <= k
      BY <1>1, <1>2, <2>1, <2>3, <2>4 DEF GoesBack
    <3> QED
      BY <1>1, <2>3, <3>1, PosInTrailIs DEF Levels
  <2> QED
    BY <2>2, <2>4 DEF Behind
<1>7. CASE GoesOn /\ (Still \/ PropUnit \/ Restart)
  <2>1. CASE PropUnit
    BY <1>1, <1>4, <1>7, <2>1 DEF PropUnit
  <2>2. CASE Still
    <3>1. UNCHANGED high /\ (PropWalk \/ UNCHANGED propagated)
      BY <1>1, <2>2, StillIs
    <3>2. propagated <= propagated'
      BY <1>1, <3>1 DEF PropWalk
    <3> QED
      BY <1>4, <1>7, <3>1, <3>2
  <2>3. CASE Restart
    <3>1. CASE UNCHANGED <<trail, high, propagated, visited, queue>>
      BY <1>1, <1>4, <1>7, <3>1
    <3>2. CASE Len(As) \in Nat /\ GoesBack(Len(As))
      BY <1>6, <2>3, <3>2
    <3> QED
      BY <2>3, <3>1, <3>2, RestartGoesBack
  <2> QED
    BY <1>7, <2>1, <2>2, <2>3
<1> QED
  BY <1>3, <1>5, <1>6, <1>7, TrailStep

-----------------------------------------------------------------------------
(***************************************************************************)
(* No conflict is missed: once all literals of a clause have been walked   *)
(* as false, the search has noticed.                                       *)
(***************************************************************************)

\* No clause is found false by what is walked already, when there are no more clauses and no more
\* literals are walked.
LEMMA FoundStays ==
    ASSUME Found, Searching, overlooked' = overlooked, pc # "analyze", walk' = walk,
           Clauses' \subseteq Clauses, visited' \subseteq visited
    PROVE  Found'
BY DEF Found

\* new_round leaves every clause with two literals that are not false, or with a true one.
LEMMA NewRoundFound ==
    ASSUME IInv, IInv', Complete, Complete', Plain, NewRound, Searching', ~overlooked
    PROVE  Found'
<1>1. /\ TypeOK /\ Levels /\ Walks /\ TypeOK' /\ Levels' /\ Walks' /\ Reached
  BY DEF IInv, Complete
<1>2. /\ pc = "start" /\ trail' = Ground /\ ToGround /\ UNCHANGED <<trans, lemmas>>
  BY DEF NewRound
<1>3. ~trivial_unsat /\ propagated >= Len(trail) /\ walk = 0
  BY <1>1, <1>2 DEF Walks
<1>4. Watched
  BY <1>3 DEF Complete
<1>5. \A c \in Lasting : Open(c)
  BY <1>1, <1>3, <1>4, AllOpen
<1>6. /\ learnt' \subseteq learnt
      /\ \A c \in temporary' : -Act \in c
      /\ visited' = visited \cap GroundLits
  <2>1. pc' # "idle"
    BY DEF Searching
  <2>2. learnt' \in Cleaned(TRUE, Ground)
    BY <2>1 DEF NewRound, Refute
  <2>3. learnt' \subseteq learnt
    BY <2>2, CleanedType
  <2> QED
    BY <1>1, <1>2, <2>3 DEF ToGround, TypeOK
<1>7. GroundLits' = GroundLits /\ GroundLits \subseteq LitsUpto(0)
  BY <1>1, <1>2, ToGroundGrounds DEF GroundLits
<1>8. ASSUME NEW c \in Clauses', Negated(c) \subseteq visited' PROVE FALSE
  <2>1. CASE c \in temporary'
    <3>1. -(-Act) = Act
      BY ActType
    <3>2. Act \in Negated(c)
      BY <1>6, <2>1, <3>1 DEF Negated
    <3> QED
      BY <1>6, <1>8, <3>2 DEF GroundLits
  <2>2. CASE c \in Lasting
    <3>1. c \subseteq Lit
      BY <1>1, <2>2, PlainIsLit DEF TypeOK, Lasting
    <3>2. \A l \in c : -l \in visited \cap LitsUpto(0)
      BY <1>6, <1>7, <1>8 DEF Negated
    <3>3. PICK l \in c : l \in LitsUpto(0)
      BY <1>5, <2>2, <3>2 DEF Open
    <3>4. PICK i \in DOMAIN trail : trail[i].lit = l
      BY <3>3 DEF LitsUpto
    <3>5. PICK j \in DOMAIN trail : trail[j].lit = -l
      BY <3>2, <3>3 DEF LitsUpto
    <3>6. l \in Lit /\ trail \in Seq(Entry)
      BY <1>1, <3>1 DEF TypeOK
    <3>7. VarOf(trail[i].lit) = VarOf(trail[j].lit)
      BY <3>4, <3>5, <3>6, SameVar
    <3>8. i = j
      BY <1>1, <3>7 DEF Levels, Ordered
    <3> QED
      BY <3>4, <3>5, <3>6, <3>8, LitType
  <2> QED
    BY <1>2, <1>6, <2>1, <2>2 DEF Clauses, Lasting
<1> QED
  BY <1>8 DEF Found

\* simplify leaves of a clause only literals that are not false.
LEMMA SimplifyFound ==
    ASSUME IInv, Complete, Found, Simplify, ~overlooked
    PROVE  Found'
<1>1. /\ TypeOK /\ Walks /\ pc = "simplify" /\ walk = 0 /\ Searching
      /\ UNCHANGED <<temporary, trail, visited, walk, overlooked>>
  BY DEF IInv, Complete, Simplify, Walks, Searching, assigns, history
<1>2. CASE UNCHANGED db
  <2>1. Clauses' = Clauses
    BY <1>1, <1>2 DEF Clauses, db
  <2> QED
    BY <1>1, <2>1, FoundStays
<1>3. CASE ~UNCHANGED db
  <2>1. PICK dropped : /\ lemmas' = Simplified(lemmas, dropped)
                       /\ learnt' = Simplified(learnt, dropped)
                       /\ trans' = Simplified(trans, dropped)
    BY <1>3 DEF Simplify, SimplifySatisfied, db
  <2>2. ASSUME NEW s, s \subseteq SUBSET PlainLit, NEW c \in Simplified(s, dropped),
               Negated(c) \subseteq visited
        PROVE  FALSE
    <3>1. PICK d \in s : Watchable(d) /\ c = Reduced(d, LitsOf(trail))
      BY DEF Simplified
    <3>2. c # {}
      BY <3>1, FS_EmptySet DEF Watchable
    <3>3. PICK l \in c : -l \notin LitsOf(trail)
      BY <3>1, <3>2 DEF Reduced
    <3> QED
      BY <1>1, <2>2, <3>3 DEF Negated, Walks
  <2>3. ASSUME NEW c \in Clauses', Negated(c) \subseteq visited' PROVE FALSE
    <3>1. CASE c \in temporary
      BY <1>1, <2>3, <3>1 DEF Found, Clauses
    <3>2. CASE c \notin temporary
      BY <1>1, <2>1, <2>2, <2>3, <3>2 DEF Clauses, TypeOK
    <3> QED
      BY <3>1, <3>2
  <2> QED
    BY <2>3 DEF Found
<1> QED
  BY <1>2, <1>3

\* A clause whose literals are all walked is false.
LEMMA WalkedFalse ==
    ASSUME Walks, NEW c, Negated(c) \subseteq visited
    PROVE  Falsified(c) /\ Unwalked(c) = {}
<1>1. \A l \in c : -l \in visited /\ -l \in LitsOf(trail)
  BY DEF Negated, Walks
<1> QED
  BY <1>1 DEF Falsified, Unwalked, False

\* The list of a literal is left once no clause of it is false.
LEMMA WalkFound ==
    ASSUME IInv, Complete, Found, Searching, PropWalk \/ Propagated, ~overlooked
    PROVE  Found'
<1>1. /\ TypeOK /\ Walks /\ pc = "propagate" /\ ~Pending
      /\ UNCHANGED <<trans, lemmas, learnt, temporary, trail>>
  BY DEF IInv, Complete, PropWalk, Propagated, Propagating, db, assigns
<1>2. ASSUME NEW c \in Clauses, Negated(c) \subseteq visited PROVE FALSE
  <2>1. walk # 0 /\ Walked(c)
    BY <1>1, <1>2 DEF Found, Walked
  <2>2. Falsified(c) /\ Unwalked(c) = {}
    BY <1>1, <1>2, WalkedFalse
  <2>3. Cardinality(Unwalked(c)) <= (IF Passable(c) THEN 0 ELSE 1)
    BY <2>2, FS_EmptySet
  <2> QED
    BY <1>1, <2>1, <2>2, <2>3 DEF Pending
<1>3. Clauses' = Clauses
  BY <1>1 DEF Clauses
<1>4. CASE Propagated
  <2>1. visited' = visited
    BY <1>4 DEF Propagated, assigns
  <2> QED
    BY <1>2, <1>3, <2>1 DEF Found
<1>5. CASE PropWalk
  <2>1. /\ propagated < Len(trail) /\ walk' = trail[propagated + 1].lit
        /\ visited' = visited \cup {walk'}
    BY <1>5 DEF PropWalk
  <2>2. walk' \in Lit
    <3>1. propagated + 1 \in DOMAIN trail
      BY <1>1, <2>1, Trails DEF TypeOK
    <3> QED
      BY <1>1, <2>1, <3>1, Trails DEF TypeOK
  <2>3. ASSUME NEW c \in Clauses, Negated(c) \subseteq visited' PROVE -walk' \in c
    <3>1. c \subseteq Lit
      BY <1>1, ClausesType
    <3>2. PICK l \in c : -l = walk'
      BY <1>2, <2>1, <2>3 DEF Negated
    <3>3. -(-l) = l
      BY <3>1, LitType
    <3> QED
      BY <3>2, <3>3
  <2> QED
    BY <1>3, <2>2, <2>3, LitType DEF Found
<1> QED
  BY <1>4, <1>5

\* A clause that is false when a conflict is analysed became so at the highest level.
LEMMA ConflictFound ==
    ASSUME IInv, Complete, Plain, Found, Behind, Searching, Searching', Conflict, ~overlooked
    PROVE  Found'
<1>1. /\ TypeOK /\ Control /\ Levels /\ Walks /\ pc = "propagate"
      /\ UNCHANGED <<trans, lemmas, learnt, temporary, trail, visited, high, then>>
  BY DEF IInv, Complete, Conflict, Propagating, db, assigns
<1>2. then = "search" /\ high > 0 /\ pc' = "analyze" /\ walk # 0
  <2>1. then = "search"
    BY <1>1 DEF Searching, Plain
  <2>2. walk # 0 /\ (high > 0 \/ high = 0)
    <3>1. walk # 0
      BY DEF Conflict
    <3>2. high > 0 \/ high = 0
      BY <1>1 DEF TypeOK
    <3> QED
      BY <3>1, <3>2
  <2>3. \/ high > 0 /\ pc' = "analyze"
        \/ pc' = "idle"
    BY <2>1, <2>2, Zenon DEF Conflict, Refute
  <2> QED
    BY <2>1, <2>2, <2>3 DEF Searching, Conflict
<1>3. PICK i \in DOMAIN trail : trail[i].lit = walk /\ trail[i].level = high
  BY <1>2 DEF Behind
<1>4. walk \notin LitsUpto(high - 1)
  <2>1. ASSUME NEW j \in DOMAIN trail, trail[j].lit = walk, trail[j].level <= high - 1 PROVE FALSE
    <3>1. i = j
      BY <1>1, <1>3, <2>1 DEF Levels, Ordered
    <3>2. high \in Nat
      BY <1>1 DEF TypeOK
    <3> QED
      BY <1>3, <2>1, <3>1, <3>2
  <2> QED
    BY <2>1 DEF LitsUpto
<1>5. ASSUME NEW c \in Clauses', Negated(c) \subseteq visited'
      PROVE  ~(Negated(c) \subseteq LitsUpto(high - 1))
  <2>1. c \in Clauses
    BY <1>1 DEF Clauses
  <2>2. -walk \in c
    BY <1>1, <1>5, <2>1 DEF Found
  <2>3. -(-walk) = walk
    BY <1>1, <1>3, Trails, LitType DEF TypeOK
  <2>4. walk \in Negated(c)
    BY <2>2, <2>3 DEF Negated
  <2> QED
    BY <1>4, <2>4
<1>6. LitsUpto(high - 1)' = LitsUpto(high - 1)
  BY <1>1 DEF LitsUpto
<1> QED
  BY <1>2, <1>5, <1>6 DEF Found

\* A learnt clause sends the search back to where none is.
LEMMA LearnFound ==
    ASSUME IInv, Complete, Found, Learn, ~overlooked
    PROVE  Found'
<1>1. /\ TypeOK /\ Control /\ Levels /\ Analysis /\ Grounded /\ Upper /\ Walks
      /\ pc = "analyze" /\ Searching /\ high \in Nat /\ trail \in Seq(Entry)
  BY DEF IInv, Complete, Learn, Searching, TypeOK
<1>2. PICK k \in Nat : k < high /\ GoesBack(k)
  BY LearnGoesBack
<1>3. walk = 0
  BY <1>1 DEF Walks
<1>4. visited' = visited \cap LitsUpto(k)
  BY <1>2 DEF GoesBack
<1>5. LitsUpto(k) \subseteq LitsUpto(high - 1)
  <2>1. k <= high - 1
    BY <1>1, <1>2
  <2>2. \A i \in DOMAIN trail : trail[i].level <= k => trail[i].level <= high - 1
    <3>1. \A i \in DOMAIN trail : trail[i].level \in Nat
      BY <1>1, Trails
    <3> QED
      BY <1>1, <2>1, <3>1
  <2> QED
    BY <2>2 DEF LitsUpto
<1>6. Clauses' \subseteq Clauses \cup {Minimal}
  BY DEF Learn, Clauses
<1>7. ASSUME NEW c \in Clauses, Negated(c) \subseteq visited' PROVE FALSE
  <2>1. Negated(c) \subseteq visited /\ Negated(c) \subseteq LitsUpto(high - 1)
    BY <1>4, <1>5, <1>7
  <2> QED
    BY <1>1, <1>3, <1>7, <2>1 DEF Found
<1>8. ~(Negated(Minimal) \subseteq visited')
  <2>1. Last \in Top /\ \E j \in DOMAIN trail : trail[j].lit = -Last /\ trail[j].level = high
    <3>1. Top # {}
      BY FS_EmptySet DEF Learn
    <3> QED
      BY <1>1, <3>1, LastIs
  <2>2. PICK j \in DOMAIN trail : trail[j].lit = -Last /\ trail[j].level = high
    BY <2>1
  <2>3. -Last \notin LitsUpto(k)
    <3>1. ASSUME NEW i \in DOMAIN trail, trail[i].lit = -Last, trail[i].level <= k PROVE FALSE
      <4>1. i = j
        BY <1>1, <2>2, <3>1 DEF Levels, Ordered
      <4> QED
        BY <1>1, <1>2, <2>2, <3>1, <4>1
    <3> QED
      BY <3>1 DEF LitsUpto
  <2>4. -Last \in Negated(Minimal)
    <3>1. Last \in Minimal
      BY <1>1, <2>1, MinimalIs
    <3> QED
      BY <3>1 DEF Negated
  <2> QED
    BY <1>4, <2>3, <2>4
<1> QED
  BY <1>6, <1>7, <1>8 DEF Found

\* Propagation finds every clause that is false, as long as no literal was overlooked.
LEMMA FoundKeeps ==
    ASSUME IInv, IInv', Complete, Complete', Plain, Behind, Found, user = "ic3", Next
    PROVE  Found'
<1> SUFFICES ASSUME Searching', ~overlooked' PROVE Found'
  BY DEF Found
<1>1. TypeOK /\ Control /\ Walks /\ ~overlooked
  BY DatabaseStep DEF IInv, Complete
<1>2. CASE NewRound
  BY <1>1, <1>2, NewRoundFound
<1>3. CASE ~NewRound
  <2>1. Searching
    BY <1>1, <1>3, RoundStep
  <2>2. CASE \/ (\E c \in Lemmas : AddClause(c)) \/ (\E d \in Domains : SetDomain(d))
             \/ UnsetDomain \/ (\E v \in LeafVar : Flip(v)) \/ (\E q \in Questions[user] : Solve(q))
    <3>1. pc = "idle"
      BY <2>2 DEF AddClause, SetDomain, UnsetDomain, Flip, Solve, Call
    <3> QED
      BY <2>1, <3>1 DEF Searching
  <2>3. CASE TrivialUnsat \/ AssumeFalse \/ AnswerSat
    <3>1. pc' = "idle"
      BY <2>3 DEF TrivialUnsat, AssumeFalse, AnswerSat, Refute
    <3> QED
      BY <3>1 DEF Searching
  <2>4. CASE Simplify
    BY <1>1, <2>4, SimplifyFound
  <2>5. CASE PropWalk \/ Propagated
    BY <1>1, <2>1, <2>5, WalkFound
  <2>6. CASE Conflict
    BY <1>1, <2>1, <2>6, ConflictFound
  <2>7. CASE Learn
    BY <1>1, <2>7, LearnFound
  <2>8. CASE EqCleaned \/ PropUnit
    <3>1. /\ pc # "analyze" /\ walk' = walk
          /\ UNCHANGED <<trans, lemmas, learnt, temporary, visited, overlooked>>
      BY <2>8 DEF EqCleaned, PropUnit, Propagating, db, assigns, history
    <3> QED
      BY <1>1, <2>1, <3>1, FoundStays DEF Clauses
  <2>9. CASE Resolve
    <3>1. /\ walk' = walk /\ pc' = pc /\ UNCHANGED <<trail, high>>
          /\ UNCHANGED <<trans, lemmas, learnt, temporary, visited, overlooked>>
      BY <2>9 DEF Resolve, db, assigns, history
    <3>2. Clauses' = Clauses /\ LitsUpto(high - 1)' = LitsUpto(high - 1)
      BY <3>1 DEF Clauses, LitsUpto
    <3> QED
      BY <1>1, <2>1, <3>1, <3>2 DEF Found
  <2>10. CASE CleanLearnt
    <3>1. /\ pc # "analyze" /\ walk' = walk /\ learnt' \subseteq learnt
          /\ UNCHANGED <<trans, lemmas, temporary, visited, overlooked>>
      BY <2>10, CleanedType DEF CleanLearnt, assigns, history
    <3>2. Clauses' \subseteq Clauses
      BY <3>1 DEF Clauses
    <3> QED
      BY <1>1, <2>1, <3>1, <3>2, FoundStays
  <2>11. CASE Restart
    <3>1. /\ pc # "analyze" /\ walk' = walk
          /\ UNCHANGED <<trans, lemmas, learnt, temporary, overlooked>>
      BY <2>11 DEF Restart, db, history
    <3>2. visited' \subseteq visited
      BY <2>11, RestartGoesBack DEF GoesBack
    <3> QED
      BY <1>1, <2>1, <3>1, <3>2, FoundStays DEF Clauses
  <2>12. CASE AssumeTrue \/ Assume \/ Decide
    <3>1. /\ pc # "analyze" /\ walk' = walk
          /\ UNCHANGED <<trans, lemmas, learnt, temporary, visited, overlooked>>
      BY <2>12 DEF AssumeTrue, Assume, Decide, db, history
    <3> QED
      BY <1>1, <2>1, <3>1, FoundStays DEF Clauses
  <2> QED
    BY <1>1, <1>3, <2>2, <2>3, <2>4, <2>5, <2>6, <2>7, <2>8, <2>9, <2>10, <2>11, <2>12, StepIs
<1> QED
  BY <1>2, <1>3

-----------------------------------------------------------------------------
(***************************************************************************)
(* The values of an answer, and those that flip_to_none leaves of them,    *)
(* satisfy the clauses.                                                    *)
(***************************************************************************)

\* The first assumption of a question with constraints is constrain_act.
LEMMA ActFirst ==
    ASSUME TypeOK, question.constraint # {}
    PROVE  Len(As) \in Nat /\ 1 <= Len(As) /\ As[1] = Act
<1> DEFINE q == question.assump
<1>1. q \in Seq(PlainLit \cup {Act}) /\ As = <<Act>> \o q
  BY QuestionType DEF As
<1> HIDE DEF q
<1>2. Len(q) \in Nat /\ Len(As) = 1 + Len(q) /\ As[1] = Act
  BY <1>1, InFront
<1> QED
  BY <1>2

\* The answer is given when no variable of the domain is left without a value.
LEMMA AnswerSatValued ==
    ASSUME IInv, Complete, Found, Queued, AssumedTrue, AnswerSat, ~overlooked, ~Skipped
    PROVE  Valued'
<1>1. /\ TypeOK /\ Levels /\ Walks /\ Searching /\ walk = 0 /\ propagated >= Len(trail)
      /\ pc = "branch" /\ high >= Len(As) /\ Undecided = {}
      /\ trail \in Seq(Entry) /\ high \in Nat /\ propagated \in Nat
  BY BranchIs DEF IInv, Complete, AnswerSat, TypeOK
<1>2. /\ UNCHANGED <<trans, lemmas, learnt, temporary, trail, domain, question>>
      /\ model' = LitsOf(trail)
  BY DEF AnswerSat, db, assigns, domains
<1>3. LitsOf(trail) \subseteq visited
  <2>1. ASSUME NEW i \in DOMAIN trail PROVE trail[i].lit \in visited
    <3>1. i <= propagated
      BY <1>1, Trails
    <3> QED
      BY <3>1 DEF Skipped
  <2> QED
    BY <2>1 DEF LitsOf
<1>4. ASSUME question.constraint # {} PROVE Act \in LitsOf(trail)
  <2>1. Len(As) \in Nat /\ 1 <= Len(As) /\ As[1] = Act
    BY <1>1, <1>4, ActFirst
  <2>2. 1 \in 1..Len(As) /\ 1 <= high
    BY <1>1, <2>1
  <2>3. Act \in LitsUpto(1)
    BY <1>1, <2>1, <2>2 DEF AssumedTrue
  <2> QED
    BY <2>3 DEF LitsUpto, LitsOf
<1>5. \A v \in domain \ {Act} : ~Unassigned(v)
  <2>1. temporary_domain \/ prepared
    <3>1. Len(As) \in Nat
      BY <1>1, AsType, LenProperties
    <3> QED
      BY <1>1, <3>1 DEF Queued
  <2> QED
    BY <1>1, <2>1 DEF Queued, Undecided
<1>6. ASSUME NEW c \in Clauses, c \cap LitsOf(trail) = {}
      PROVE  \/ \E l \in c : VarOf(l) \notin domain /\ Unassigned(VarOf(l))
             \/ -Act \in c /\ question.constraint = {}
  <2>1. ~(Negated(c) \subseteq visited)
    BY <1>1, <1>6 DEF Found
  <2>2. PICK l \in c : -l \notin LitsOf(trail)
    BY <1>3, <2>1 DEF Negated
  <2>3. l \in Lit /\ l # Act /\ l \notin LitsOf(trail) /\ -(-l) = l
    <3>1. c \subseteq Lit \ {Act}
      BY <1>1, PlainIsLit DEF Clauses, TypeOK
    <3> QED
      BY <1>6, <2>2, <3>1, LitType
  <2>4. Unassigned(VarOf(l))
    <3>1. VarOf(l) = l \/ (VarOf(l) = -l /\ -VarOf(l) = l)
      BY <2>3, LitType DEF VarOf
    <3> QED
      BY <2>2, <2>3, <3>1 DEF Unassigned, True, False
  <2>5. VarOf(l) \notin domain \/ VarOf(l) = Act
    BY <1>5, <2>4
  <2>6. VarOf(l) = Act => l = -Act
    BY <2>3, SameVar, ActType, LitType
  <2>7. l = -Act => question.constraint = {}
    <3>1. -(-Act) = Act
      BY ActType
    <3> QED
      BY <1>4, <2>2, <3>1
  <2> QED
    BY <2>4, <2>5, <2>6, <2>7
<1>7. GroundLits \subseteq LitsOf(trail)
  BY DEF GroundLits, LitsUpto, LitsOf
<1>8. Clauses' = Clauses /\ GroundLits' = GroundLits /\ \A v : Unassigned(v)' <=> Unassigned(v)
  BY <1>2, GroundZero DEF Clauses, Unassigned, True, False
<1> QED
  BY <1>2, <1>4, <1>6, <1>7, <1>8 DEF Valued

\* A value is given up only where every clause is satisfied without it.
LEMMA FlipValued ==
    ASSUME TypeOK, Levels, Valued, NEW v \in LeafVar, Flip(v), ~overlooked, ~Skipped
    PROVE  Valued'
<1>1. /\ ans = "sat"
      /\ UNCHANGED <<trans, lemmas, learnt, temporary, trail, domain, question>>
  BY DEF Flip, db, assigns, domains
<1>2. PICK l \in model : /\ VarOf(l) = v /\ LevelOf(l) > 0
                         /\ \A c \in Clauses : l \in c =>
                                \E m \in c \ {l} :
                                    \/ m \in model
                                    \/ VarOf(m) \notin domain /\ Unassigned(VarOf(m))
                         /\ model' = model \ {l}
  BY DEF Flip
<1>3. /\ model \subseteq LitsOf(trail) /\ GroundLits \subseteq model
      /\ question.constraint # {} => Act \in model
      /\ \A c \in Clauses : \/ c \cap model # {}
                            \/ \E m \in c : VarOf(m) \notin domain /\ Unassigned(VarOf(m))
                            \/ -Act \in c /\ question.constraint = {}
  BY <1>1 DEF Valued
<1>4. l # Act
  BY <1>2, ActType, LitType DEF LeafVar
<1>5. l \notin GroundLits
  <2>1. ASSUME l \in GroundLits PROVE FALSE
    <3>1. PICK i \in DOMAIN trail : trail[i].lit = l /\ trail[i].level <= 0
      BY <2>1 DEF GroundLits, LitsUpto
    <3>2. trail \in Seq(Entry) /\ l \in Lit /\ -l \in Lit /\ -(-l) = l
      <4>1. trail \in Seq(Entry)
        BY DEF TypeOK
      <4> QED
        BY <3>1, <4>1, Trails, LitType
    <3>3. True(l)
      BY <3>1 DEF True, LitsOf
    <3>4. PosOf(l) = i
      BY <3>1, <3>2, FalseAt DEF Levels
    <3> QED
      BY <1>2, <3>1, <3>2, <3>3, <3>4, Trails DEF LevelOf
  <2> QED
    BY <2>1
<1>6. \A c \in Clauses : \/ c \cap model' # {}
                         \/ \E m \in c : VarOf(m) \notin domain /\ Unassigned(VarOf(m))
                         \/ -Act \in c /\ question.constraint = {}
  <2>1. ASSUME NEW c \in Clauses, c \cap model # {}
        PROVE  \/ c \cap model' # {}
               \/ \E m \in c : VarOf(m) \notin domain /\ Unassigned(VarOf(m))
    <3>1. CASE l \in c
      <4>1. PICK m \in c \ {l} : \/ m \in model
                                 \/ VarOf(m) \notin domain /\ Unassigned(VarOf(m))
        BY <1>2, <3>1
      <4> QED
        BY <1>2, <4>1
    <3>2. CASE l \notin c
      BY <1>2, <2>1, <3>2
    <3> QED
      BY <3>1, <3>2
  <2> QED
    BY <1>3, <2>1
<1>7. Clauses' = Clauses /\ GroundLits' = GroundLits /\ \A u : Unassigned(u)' <=> Unassigned(u)
  BY <1>1, GroundZero DEF Clauses, Unassigned, True, False
<1>8. /\ model' \subseteq LitsOf(trail) /\ GroundLits \subseteq model'
      /\ question.constraint # {} => Act \in model'
  BY <1>2, <1>3, <1>4, <1>5
<1> QED
  BY <1>1, <1>6, <1>7, <1>8 DEF Valued

\* The values of an answer satisfy what the solver knows.
LEMMA ValuedKeeps ==
    ASSUME IInv, IInv', Complete, Plain, Found, Queued, AssumedTrue, Valued, user = "ic3", Next
    PROVE  Valued'
<1> SUFFICES ASSUME ~overlooked', ~Skipped', ans' = "sat" PROVE Valued'
  BY DEF Valued
<1>1. TypeOK /\ Control /\ Levels /\ ~overlooked
  BY DatabaseStep DEF IInv
<1>2. CASE AnswerSat
  <2>1. ~Skipped
    <3>1. UNCHANGED <<trail, propagated, visited>>
      BY <1>2 DEF AnswerSat, assigns
    <3> QED
      BY <3>1 DEF Skipped
  <2> QED
    BY <1>1, <1>2, <2>1, AnswerSatValued
<1>3. CASE UnsetDomain /\ ans = "sat"
  <2>1. UNCHANGED <<trans, lemmas, learnt, temporary, trail, propagated, visited, domain, question,
                    model>>
    BY <1>3 DEF UnsetDomain, db, assigns, answers
  <2>2. Clauses' = Clauses /\ GroundLits' = GroundLits /\ \A u : Unassigned(u)' <=> Unassigned(u)
    BY <2>1, GroundZero DEF Clauses, Unassigned, True, False
  <2>3. ~Skipped
    BY <2>1 DEF Skipped
  <2> QED
    BY <1>1, <1>3, <2>1, <2>2, <2>3 DEF Valued
<1>4. CASE \E v \in LeafVar : Flip(v)
  <2>1. PICK v \in LeafVar : Flip(v)
    BY <1>4
  <2>2. ~Skipped
    <3>1. UNCHANGED <<trail, propagated, visited>>
      BY <2>1 DEF Flip, assigns
    <3> QED
      BY <3>1 DEF Skipped
  <2> QED
    BY <1>1, <2>1, <2>2, FlipValued
<1> QED
  BY <1>1, <1>2, <1>3, <1>4, RoundStep

-----------------------------------------------------------------------------
(***************************************************************************)
(* The whole invariant.                                                    *)
(***************************************************************************)

\* In the beginning every clause of the circuit is there but for constants.
LEMMA ExactInit == Init => Exact
<1> SUFFICES ASSUME Init PROVE Exact
  OBVIOUS
<1>1. IInv
  BY Initially
<1>2. trail \in Seq(Entry) /\ high = 0 /\ walk = 0 /\ pc = "idle" /\ then = "idle" /\ ans = "none"
  BY <1>1 DEF Init, IInv, TypeOK
<1>3. LitsUpto(0) = Constants
  BY <1>1, <1>2, ZeroTrail DEF IInv, Init
<1>4. GroundLits = Constants
  BY <1>3, ConstantsAre, PlainIsLit DEF GroundLits
<1>5. ~Searching
  BY <1>2 DEF Searching
<1>6. \A i \in DOMAIN trail : trail[i].level = 0
  BY <1>1, <1>2, Trails DEF IInv, Levels
<1>7. Plain
  BY <1>2, <1>5 DEF Plain, Init
<1>8. Sealed
  <2>1. /\ fixed = UNION {VarsOf(c) : c \in {d \in Circuit : Cardinality(d) = 1}}
        /\ domain = fixed /\ lemmas = {}
    BY DEF Init
  <2>2. ASSUME NEW c \in Circuit, Cardinality(c) = 1 PROVE VarsOf(c) \subseteq VarsOf(Constants)
    <3>1. c \subseteq Lit
      BY CircuitPlain, PlainIsLit
    <3>2. PICK l : c = {l}
      BY <2>2, <3>1, ClauseFinite, FS_Singleton
    <3>3. Negated(c \ {l}) = {}
      BY <3>2 DEF Negated
    <3>4. l \in Constants
      BY <3>2, <3>3, ConstantsAre
    <3> QED
      BY <3>2, <3>4 DEF VarsOf
  <2>3. fixed \subseteq VarsOf(Constants)
    BY <2>1, <2>2
  <2>4. fixed \subseteq Rooted(fixed \cup VarsOf(GroundLits))
    <3>1. \A v \in fixed : v \in VarsOf(Constants) \/ Dep(v) \subseteq fixed
      BY <2>3
    <3>2. fixed \subseteq fixed \cup VarsOf(GroundLits)
      OBVIOUS
    <3> QED
      BY <3>1, <3>2, RootedHas
  <2> QED
    BY <2>1, <2>4 DEF Sealed, Needed, Seated, VarsOf
<1>9. Covered
  BY DEF Covered, Init
<1>10. CircuitKept
  <2>1. PICK known \in [Circuit -> SUBSET Constants] :
            \A d \in Circuit : ~Satisfied(d, known[d]) /\ Cardinality(Reduced(d, known[d])) > 1 =>
                Reduced(d, known[d]) \in trans
    BY DEF Init
  <2>2. ASSUME NEW c \in Circuit PROVE Kept(c, trans)
    <3> DEFINE r == Reduced(c, known[c])
    <3>1. known[c] \subseteq Constants /\ r \subseteq c /\ c \subseteq Lit
      BY CircuitPlain, PlainIsLit DEF Reduced
    <3>2. CASE Satisfied(c, Constants)
      BY <1>4, <3>2 DEF Kept
    <3>3. CASE ~Satisfied(c, Constants)
      <4>1. ~Satisfied(c, known[c]) /\ c \cap Constants = {}
        BY <3>1, <3>3 DEF Satisfied
      <4>2. PICK m \in CircuitModels : TRUE
        BY CircuitAssumption
      <4>3. PICK k \in c : k \in m
        BY <4>2 DEF CircuitModels, Holds
      <4>4. -k \notin Constants
        <5>1. -k \notin m
          BY <3>1, <4>2, <4>3, AssignmentType DEF CircuitModels
        <5> QED
          BY <4>2, <5>1, ConstantsAre
      <4>5. PICK l \in c : l # k /\ -l \notin Constants
        <5> SUFFICES ASSUME \A l \in c : l = k \/ -l \in Constants PROVE FALSE
          OBVIOUS
        <5>1. Negated(c \ {k}) \subseteq Constants
          BY DEF Negated
        <5> QED
          BY <4>1, <5>1, ConstantsAre
      <4>6. k \in r /\ l \in r
        BY <3>1, <4>4, <4>5 DEF Reduced
      <4> HIDE DEF r
      <4>7. Cardinality(r) > 1
        <5>1. r \subseteq Lit
          BY <3>1
        <5> QED
          BY <4>5, <4>6, <5>1, TwoMany
      <4>8. r \in trans
        BY <2>1, <4>1, <4>7 DEF r
      <4> QED
        BY <3>1, <4>8 DEF Kept
    <3> QED
      BY <3>2, <3>3
  <2> QED
    BY <2>2 DEF CircuitKept
<1>11. Inside
  BY <1>2, <1>5, <1>6 DEF Inside, Init
<1>12. Behind
  BY <1>2, <1>6 DEF Behind
<1>13. Anchored /\ ConstraintsKept /\ Queued /\ AssumedTrue /\ Found /\ Valued
  BY <1>2, <1>4, <1>5
     DEF Init, Anchored, ConstraintsKept, Queued, AssumedTrue, Found, Valued
<1> QED
  BY <1>7, <1>8, <1>9, <1>10, <1>11, <1>12, <1>13 DEF Exact

\* A solver has one user.
LEMMA UserStays == ASSUME Next PROVE user' = user
<1>1. CASE (\E c \in Lemmas : AddClause(c)) \/ (\E d \in Domains : SetDomain(d)) \/ UnsetDomain
  BY <1>1 DEF AddClause, SetDomain, UnsetDomain, Call
<1>2. CASE \/ \E e \in Candidates : AddEq(e[1], e[2])
           \/ \E v \in LeafVar : Flip(v)
           \/ \E q \in Questions[user] : Solve(q)
  BY <1>2 DEF AddEq, Flip, Solve, Call, history
<1>3. CASE TrivialUnsat \/ NewRound \/ Simplify \/ CleanEq \/ EqCleaned
  BY <1>3 DEF TrivialUnsat, NewRound, Simplify, CleanEq, EqCleaned, history
<1>4. CASE PropUnit \/ PropWalk \/ Propagated \/ Conflict
  <2>1. CASE Conflict
    BY <2>1, Zenon DEF Conflict, history
  <2> QED
    BY <1>4, <2>1 DEF PropUnit, PropWalk, Propagated, history
<1>5. CASE Resolve \/ Learn \/ Restart \/ CleanLearnt
  BY <1>5 DEF Resolve, Learn, Restart, CleanLearnt, history
<1>6. CASE AssumeTrue \/ Assume \/ AssumeFalse \/ Decide \/ AnswerSat
  BY <1>6 DEF AssumeTrue, Assume, AssumeFalse, Decide, AnswerSat, history
<1> QED
  BY <1>1, <1>2, <1>3, <1>4, <1>5, <1>6 DEF Next, Working, Propagate, Branch

\* Stuttering leaves everything as it is.
LEMMA SameExact == ASSUME Exact, UNCHANGED vars PROVE Exact'
<1>1. /\ UNCHANGED <<user, trans, lemmas, learnt, temporary, trail, high, propagated, visited>>
      /\ UNCHANGED <<walk, domain, fixed, temporary_domain, queue, prepared, rep>>
      /\ UNCHANGED <<trivial_unsat, question, conf, model, ans, pc, then, formula, overlooked>>
  BY DEF vars, db, assigns, domains, simps, search, answers, history
<1>2. /\ (\A v : Unassigned(v)' <=> Unassigned(v)) /\ As' = As /\ Searching' = Searching
      /\ (\A k : LitsUpto(k)' = LitsUpto(k)) /\ GroundLits' = GroundLits /\ Skipped' = Skipped
      /\ Clauses' = Clauses /\ Guarded' = Guarded
  BY <1>1 DEF Unassigned, True, False, As, Searching, LitsUpto, GroundLits, Skipped, Clauses,
              Guarded
<1>3. Needed' = Needed /\ Seated' = Seated /\ Asked' = Asked
  BY <1>1, <1>2 DEF Needed, Seated, Asked
<1>4. (Plain /\ Anchored /\ Sealed /\ Covered) => (Plain' /\ Anchored' /\ Sealed' /\ Covered')
  BY <1>1, <1>2, <1>3 DEF Plain, Anchored, Sealed, Covered
<1>5. (CircuitKept /\ ConstraintsKept) => (CircuitKept' /\ ConstraintsKept')
  BY <1>1, <1>2 DEF CircuitKept, ConstraintsKept, Kept
<1>6. (Inside /\ Queued /\ AssumedTrue) => (Inside' /\ Queued' /\ AssumedTrue')
  BY <1>1, <1>2, <1>3 DEF Inside, Queued, AssumedTrue
<1>7. (Behind /\ Found /\ Valued) => (Behind' /\ Found' /\ Valued')
  BY <1>1, <1>2 DEF Behind, Found, Valued
<1> QED
  BY <1>1, <1>4, <1>5, <1>6, <1>7 DEF Exact

\* Every step keeps it.
LEMMA StepExact == IInv /\ IInv' /\ Complete /\ Complete' /\ Exact /\ [Next]_vars => Exact'
<1> SUFFICES ASSUME IInv, IInv', Complete, Complete', Exact, [Next]_vars PROVE Exact'
  OBVIOUS
<1>1. CASE UNCHANGED vars
  BY <1>1, SameExact
<1>2. CASE Next /\ user' = "ic3"
  <2>1. Next /\ user = "ic3"
    BY <1>2, UserStays
  <2>2. /\ Plain /\ Anchored /\ Sealed /\ Covered /\ CircuitKept /\ ConstraintsKept
        /\ Inside /\ Queued /\ AssumedTrue /\ Behind /\ Found /\ Valued
    BY <2>1 DEF Exact
  <2>3. Plain' /\ Anchored' /\ Sealed' /\ Covered' /\ CircuitKept' /\ ConstraintsKept'
    BY <2>1, <2>2, PlainKeeps, AnchoredKeeps, SealedKeeps, CoveredKeeps, CircuitKeeps,
       ConstraintsKeep
  <2>4. Inside' /\ Queued' /\ AssumedTrue' /\ Behind' /\ Found' /\ Valued'
    BY <2>1, <2>2, InsideKeeps, QueuedKeeps, AssumedTrueKeeps, BehindKeeps, FoundKeeps, ValuedKeeps
  <2> QED
    BY <2>3, <2>4 DEF Exact
<1>3. CASE user' # "ic3"
  BY <1>3 DEF Exact
<1> QED
  BY <1>1, <1>2, <1>3

\* All three parts of the invariant.
THEOREM ExactlyKept == Spec => [](IInv /\ Complete /\ Exact)
<1>1. Init => IInv /\ Complete /\ Exact
  BY Initially, CompleteInit, ExactInit
<1>2. IInv /\ Complete /\ Exact /\ [Next]_vars => (IInv /\ Complete /\ Exact)'
  BY StepKeeps, StepComplete, StepExact
<1> QED
  BY <1>1, <1>2, PTL DEF Spec

-----------------------------------------------------------------------------
(***************************************************************************)
(* From the leaves the circuit computes the values of an answer, gate by   *)
(* gate: the least seated variable on which a model differed would have    *)
(* its gate's clauses satisfied by both values.                            *)
(***************************************************************************)

\* An assignment may have any value for a variable.
LEMMA FlippedAssignment ==
    ASSUME NEW m \in Assignments, NEW l \in Lit
    PROVE  (m \ {-l}) \cup {l} \in Assignments
<1> DEFINE w == VarOf(l)
           n == (m \ {-l}) \cup {l}
<1>1. PICK f \in [Var -> BOOLEAN] : m = {IF f[v] THEN v ELSE -v : v \in Var}
  BY DEF Assignments
<1>2. w \in Var /\ (l = w \/ l = -w) /\ -l \in Lit /\ w # -w
  BY LitType DEF VarOf
<1> DEFINE g == [f EXCEPT ![w] = (l = w)]
           k == {IF g[v] THEN v ELSE -v : v \in Var}
<1>3. g \in [Var -> BOOLEAN] /\ g[w] = (l = w) /\ \A v \in Var \ {w} : g[v] = f[v]
  BY <1>1, <1>2
<1> HIDE DEF g
<1>4. ASSUME NEW v \in Var, v # w
      PROVE  v # l /\ v # -l /\ -v # l /\ -v # -l
  BY <1>2, <1>4, LitType DEF VarOf
<1>5. (IF g[w] THEN w ELSE -w) = l
  <2>1. CASE l = w
    BY <1>3, <2>1
  <2>2. CASE l = -w
    BY <1>2, <1>3, <2>2
  <2> QED
    BY <1>2, <2>1, <2>2
<1>6. (IF f[w] THEN w ELSE -w) \in {l, -l}
  BY <1>2, LitType
<1>7. ASSUME NEW x \in k PROVE x \in n
  <2>1. PICK v \in Var : x = IF g[v] THEN v ELSE -v
    OBVIOUS
  <2>2. CASE v = w
    BY <1>5, <2>1, <2>2
  <2>3. CASE v # w
    <3>1. x = (IF f[v] THEN v ELSE -v) /\ x # -l
      BY <1>3, <1>4, <2>1, <2>3
    <3> QED
      BY <1>1, <3>1
  <2> QED
    BY <2>2, <2>3
<1>8. ASSUME NEW x \in n PROVE x \in k
  <2>1. CASE x = l
    BY <1>2, <1>5, <2>1
  <2>2. CASE x # l
    <3>1. x \in m /\ x # -l
      BY <2>2
    <3>2. PICK v \in Var : x = IF f[v] THEN v ELSE -v
      BY <1>1, <3>1
    <3>3. v # w
      BY <1>6, <2>2, <3>1, <3>2
    <3>4. x = IF g[v] THEN v ELSE -v
      BY <1>3, <3>2, <3>3
    <3> QED
      BY <3>4
  <2> QED
    BY <2>1, <2>2
<1> HIDE DEF n, k
<1>9. n = k
  BY <1>7, <1>8
<1>10. k \in Assignments
  BY <1>3, Zenon DEF Assignments, k
<1> QED
  BY <1>9, <1>10 DEF n

\* The clauses of a gate leave it one value.
LEMMA OneValue ==
    ASSUME NEW v \in Var, v \notin Leaf, NEW m \in CircuitModels, NEW l \in {v, -v},
           \A c \in Def[v] : Holds(c, (m \ {-l}) \cup {l})
    PROVE  l \in m
<1> SUFFICES ASSUME l \notin m PROVE FALSE
  OBVIOUS
<1>1. /\ m \in Assignments /\ m \subseteq Lit /\ l \in Lit /\ -l \in m /\ -(-v) = v
      /\ v # -v /\ v \in Var \ Leaf
  BY LitType, AssignmentType DEF CircuitModels
<1>2. \A c \in Def[v] : Holds(c, m)
  BY DEF CircuitModels, Circuit
<1>3. CASE l = -v
  <2>1. v \in m /\ \A c \in Def[v] : Holds(c, (m \ {v}) \cup {-v})
    BY <1>1, <1>3
  <2> QED
    BY <1>1, <1>2, <2>1, GateAssumption
<1>4. CASE l = v
  <2> DEFINE n == (m \ {-v}) \cup {v}
  <2>1. n \in Assignments
    <3>1. v \in Lit
      BY LitType
    <3> QED
      BY <1>1, <3>1, FlippedAssignment
  <2>2. v \in n /\ \A c \in Def[v] : Holds(c, n)
    BY <1>4
  <2>3. (n \ {v}) \cup {-v} = m
    BY <1>1, <1>4
  <2> HIDE DEF n
  <2> QED
    BY <1>1, <1>2, <2>1, <2>2, <2>3, GateAssumption
<1> QED
  BY <1>3, <1>4

\* What a satisfiable answer rests on.
Answered ==
    /\ IInv /\ Plain /\ Anchored /\ Sealed /\ Covered /\ CircuitKept /\ ConstraintsKept /\ Inside
    /\ Valued /\ ans = "sat" /\ ~overlooked /\ ~Skipped

\* Where what is seated has a value, the clauses that stay are satisfied.
LEMMA SeatedClause ==
    ASSUME Answered, NEW r \in trans \cup lemmas, \A l \in r : VarOf(l) \in Seated \/ l \in model
                                                        \/ ~Unassigned(VarOf(l))
    PROVE  r \cap model # {}
<1>1. TypeOK /\ Levels /\ r \in Clauses
  BY DEF Answered, IInv, Clauses
<1>2. r \subseteq PlainLit
  BY <1>1 DEF TypeOK
<1>3. \/ r \cap model # {}
      \/ \E l \in r : VarOf(l) \notin domain /\ Unassigned(VarOf(l))
      \/ -Act \in r /\ question.constraint = {}
  BY <1>1 DEF Answered, Valued
<1>4. -Act \notin r
  BY <1>2, PlainIsLit
<1>5. ASSUME NEW l \in r, VarOf(l) \notin domain, Unassigned(VarOf(l)), l \notin model PROVE FALSE
  <2>1. VarOf(l) \in Seated
    BY <1>5
  <2>2. VarOf(l) \in VarsOf(GroundLits)
    BY <1>5, <2>1, RootedIs DEF Seated
  <2>3. PICK k \in GroundLits : VarOf(k) = VarOf(l)
    BY <2>2 DEF VarsOf
  <2>4. k \in LitsOf(trail) /\ k \in Lit
    BY <1>1, <2>3, GroundVars, PlainIsLit DEF GroundLits, LitsUpto, LitsOf
  <2>5. k = VarOf(k) \/ k = -VarOf(k)
    BY <2>4, LitType DEF VarOf
  <2> QED
    BY <1>5, <2>3, <2>4, <2>5 DEF Unassigned, True, False
<1>6. CASE \E l \in r : VarOf(l) \notin domain /\ Unassigned(VarOf(l))
  <2>1. PICK l \in r : VarOf(l) \notin domain /\ Unassigned(VarOf(l))
    BY <1>6
  <2>2. l \in model
    BY <1>5, <2>1
  <2> QED
    BY <2>2
<1> QED
  BY <1>3, <1>4, <1>6

\* Two values of a variable are the same.
LEMMA OneLiteral ==
    ASSUME TypeOK, Levels, NEW k \in LitsOf(trail), NEW l \in LitsOf(trail), VarOf(k) = VarOf(l)
    PROVE  k = l
<1>1. PICK i \in DOMAIN trail : trail[i].lit = k
  BY DEF LitsOf
<1>2. PICK j \in DOMAIN trail : trail[j].lit = l
  BY DEF LitsOf
<1>3. i = j
  BY <1>1, <1>2 DEF Levels, Ordered
<1> QED
  BY <1>1, <1>2, <1>3

\* The circuit computes the values of the variables that are seated, one after the other.
LEMMA SeatedValues ==
    ASSUME Answered, NEW b \in CircuitModels, \A l \in model : VarOf(l) \in Leaf => l \in b
    PROVE  \A l \in model : VarOf(l) \in Seated => l \in b
<1>1. /\ TypeOK /\ Levels /\ trail \in Seq(Entry) /\ ~trivial_unsat
      /\ model \subseteq LitsOf(trail) /\ GroundLits \subseteq model
  BY DEF Answered, IInv, TypeOK, Plain, Valued
<1>2. /\ b \in Assignments /\ b \subseteq Lit /\ \A l \in Lit : l \in b <=> -l \notin b
  BY AssignmentType DEF CircuitModels
<1>3. \A l \in model : l \in Lit
  BY <1>1, Trails DEF LitsOf
<1> DEFINE Bad == {v \in Seated \cap Var : \E l \in model : VarOf(l) = v /\ l \notin b}
<1> SUFFICES ASSUME Bad # {} PROVE FALSE
  <2>1. ASSUME NEW l \in model, VarOf(l) \in Seated, l \notin b PROVE VarOf(l) \in Bad
    BY <1>3, <2>1, LitType
  <2> QED
    BY <2>1
<1>4. PICK v \in Bad : \A u \in Bad : v <= u
  <2>1. Bad \subseteq Nat
    BY LitType
  <2> HIDE DEF Bad
  <2> QED
    BY <2>1, LeastNumber
<1>5. PICK l \in model : VarOf(l) = v /\ l \notin b
  OBVIOUS
<1>6. v \in Var /\ v \in Seated /\ l \in Lit /\ -l \in b /\ l \in {v, -v}
  <2>1. v \in Var /\ v \in Seated /\ l \in Lit
    BY <1>3, <1>5
  <2> QED
    BY <1>2, <1>5, <2>1, LitType DEF VarOf
<1>7. \A k \in model : VarOf(k) \in Seated /\ VarOf(k) < v => k \in b
  <2>1. ASSUME NEW k \in model, VarOf(k) \in Seated, VarOf(k) < v, k \notin b PROVE FALSE
    <3>1. VarOf(k) \in Bad
      BY <1>3, <2>1, LitType
    <3>2. v <= VarOf(k) /\ VarOf(k) \in Nat /\ v \in Nat
      BY <1>4, <1>6, <3>1, LitType
    <3> QED
      BY <2>1, <3>2
  <2> QED
    BY <2>1
<1> HIDE DEF Bad
<1>8. v \notin VarsOf(Constants)
  <2>1. ASSUME v \in VarsOf(Constants) PROVE FALSE
    <3>1. PICK k \in Constants : VarOf(k) = v
      BY <2>1 DEF VarsOf
    <3>2. k \in model
      BY <1>1, <3>1 DEF Answered, Anchored
    <3>3. k = l
      BY <1>1, <1>5, <3>1, <3>2, OneLiteral
    <3> QED
      BY <1>5, <3>1, <3>3, ConstantsAre
  <2> QED
    BY <2>1
<1>9. v \notin Leaf
  BY <1>5
<1>10. Dep(v) \subseteq Seated
  BY <1>6, <1>8, RootedIs DEF Seated
<1> DEFINE n == (b \ {-l}) \cup {l}
<1>11. ASSUME NEW c \in Def[v] PROVE Holds(c, n)
  <2>1. c \in Circuit /\ c \subseteq PlainLit /\ c \subseteq Lit
    <3>1. c \in Circuit
      BY <1>6 DEF Circuit
    <3> QED
      BY <3>1, CircuitPlain, PlainIsLit
  <2>2. ASSUME NEW k \in c PROVE VarOf(k) = v \/ (VarOf(k) \in Seated /\ VarOf(k) < v)
    <3>1. VarOf(k) # v => VarOf(k) \in Dep(v)
      BY DEF Dep, VarsOf
    <3> QED
      BY <1>6, <1>10, <3>1, DepType
  <2>3. ASSUME NEW k \in c, k \in model PROVE k \in n
    <3>1. CASE VarOf(k) = v
      BY <1>1, <1>5, <2>3, <3>1, OneLiteral
    <3>2. CASE VarOf(k) # v
      <4>1. k \in b
        BY <1>7, <2>2, <2>3, <3>2
      <4>2. k # -l
        BY <1>5, <1>6, <3>2, SameVar
      <4> QED
        BY <4>1, <4>2
    <3> QED
      BY <3>1, <3>2
  <2>4. CASE c \cap GroundLits # {}
    BY <1>1, <2>3, <2>4 DEF Holds
  <2>5. CASE \E k \in c : -k \in c
    <3>1. PICK k \in c : -k \in c
      BY <2>5
    <3>2. n \in Assignments
      BY <1>2, <1>6, FlippedAssignment
    <3>3. k \in n \/ -k \in n
      BY <2>1, <3>1, <3>2, AssignmentType
    <3> QED
      BY <3>1, <3>3 DEF Holds
  <2>6. ASSUME NEW r \in trans, r \subseteq c PROVE Holds(c, n)
    <3>1. ~Unassigned(v)
      BY <1>1, <1>5, <1>6 DEF Unassigned, True, False
    <3>2. \A k \in r : VarOf(k) \in Seated \/ k \in model \/ ~Unassigned(VarOf(k))
      BY <2>2, <2>6, <3>1
    <3>3. r \cap model # {}
      BY <3>2, SeatedClause
    <3> QED
      BY <2>3, <2>6, <3>3 DEF Holds
  <2>7. Kept(c, trans)
    BY <1>1, <2>1 DEF Answered, CircuitKept
  <2> QED
    BY <2>4, <2>5, <2>6, <2>7 DEF Kept, Satisfied
<1> QED
  BY <1>5, <1>6, <1>9, <1>11, OneValue

\* The added clauses hold where the circuit computes what is needed.
LEMMA FormulaValues ==
    ASSUME Answered, NEW b \in CircuitModels, \A l \in model : VarOf(l) \in Seated => l \in b
    PROVE  (\A c \in formula : Holds(c, b)) /\ GroundLits \subseteq b
<1>1. /\ TypeOK /\ Levels /\ Grounded /\ ~trivial_unsat /\ GroundLits \subseteq model
      /\ ~overlooked
  BY DEF Answered, IInv, Plain, Valued
<1>2. Needed \subseteq Seated
  <2>1. fixed \cup VarsOf(GroundLits) \subseteq domain \cup VarsOf(GroundLits)
    BY DEF Answered, Sealed
  <2> QED
    BY <2>1, RootedMore DEF Needed, Seated
<1>3. ASSUME NEW c \in lemmas PROVE Holds(c, b)
  <2>1. \A l \in c : VarOf(l) \in Seated
    BY <1>2 DEF Answered, Sealed, VarsOf
  <2>2. c \cap model # {}
    BY <2>1, SeatedClause
  <2> QED
    BY <2>1, <2>2 DEF Holds
<1>4. \A l \in GroundLits : VarOf(l) \in Needed => l \in b
  BY <1>1, <1>2
<1>5. \A c \in formula : Holds(c, b)
  BY <1>1, <1>3, <1>4 DEF Answered, Covered
<1>6. GroundLits \subseteq b
  BY <1>1, <1>5, GroundLitsFollow DEF Entails, Holds
<1> QED
  BY <1>5, <1>6

\* The circuit computes all values, and they satisfy the question's constraints.
LEMMA AllValues ==
    ASSUME Answered, NEW b \in CircuitModels, \A l \in model : VarOf(l) \in Leaf => l \in b
    PROVE  /\ model \subseteq b
           /\ \A c \in formula \cup question.constraint : Holds(c, b)
<1>1. /\ TypeOK /\ Levels /\ trail \in Seq(Entry) /\ model \subseteq LitsOf(trail)
      /\ question.constraint # {} => Act \in model
  BY DEF Answered, IInv, TypeOK, Valued
<1>2. /\ \A l \in model : VarOf(l) \in Seated => l \in b
      /\ \A c \in formula : Holds(c, b)
      /\ GroundLits \subseteq b
  BY SeatedValues, FormulaValues
<1>3. ASSUME NEW l \in model PROVE l \in b
  <2>1. PICK i \in DOMAIN trail : trail[i].lit = l
    BY <1>1 DEF LitsOf
  <2>2. l \in Lit /\ trail[i].level \in Nat
    BY <1>1, <2>1, Trails
  <2>3. CASE VarOf(l) = Act
    BY <2>3, ActType, ActAssumption DEF Leaf
  <2>4. CASE VarOf(l) # Act /\ trail[i].level = 0
    <3>1. l \in GroundLits
      <4>1. trail[i].level <= 0 /\ l \notin {Act, -Act}
        BY <2>2, <2>4, SameVar
      <4> QED
        BY <2>1, <4>1 DEF GroundLits, LitsUpto
    <3> QED
      BY <1>2, <3>1
  <2>5. CASE trail[i].level > 0
    BY <1>2, <2>1, <2>5 DEF Answered, Inside, Sealed
  <2> QED
    BY <2>2, <2>3, <2>4, <2>5
<1>4. ASSUME NEW d \in question.constraint PROVE Holds(d, b)
  <2> DEFINE c == d \cup {-Act}
  <2>1. d \subseteq PlainLit /\ c \in Guarded /\ c \subseteq Lit \ {Act} /\ d \subseteq Lit
    <3>1. c \in Guarded
      BY DEF Guarded
    <3>2. d \subseteq PlainLit
      BY <1>1, QuestionType
    <3> QED
      BY <1>1, <3>1, <3>2, GuardedType, PlainIsLit
  <2>2. Act \in model /\ -Act \notin model /\ -(-Act) = Act
    <3>1. Act \in model
      BY <1>1
    <3>2. -Act # Act /\ VarOf(-Act) = VarOf(Act) /\ -(-Act) = Act
      BY ActType, LitType
    <3> QED
      BY <1>1, <3>1, <3>2, OneLiteral
  <2>3. ASSUME NEW k \in c, k \in b, k \in model \cup GroundLits PROVE Holds(d, b)
    <3>1. k # -Act
      BY <2>2, <2>3 DEF GroundLits
    <3> QED
      BY <2>3, <3>1 DEF Holds
  <2>4. Kept(c, temporary)
    BY <2>1 DEF Answered, ConstraintsKept
  <2>5. CASE c \cap GroundLits # {}
    BY <1>2, <2>3, <2>5
  <2>6. CASE \E k \in c : -k \in c
    <3>1. PICK k \in c : -k \in c
      BY <2>6
    <3>2. k \in d /\ -k \in d
      <4>1. k # -Act
        BY <2>1, <2>2, <3>1
      <4>2. -k # -Act
        <5>1. -(-k) = k
          BY <2>1, <3>1, LitType
        <5> QED
          BY <2>1, <2>2, <3>1, <5>1
      <4> QED
        BY <3>1, <4>1, <4>2
    <3> QED
      BY <2>1, <3>2, AssignmentType DEF Holds, CircuitModels
  <2>7. ASSUME NEW r \in temporary, r \subseteq c PROVE Holds(d, b)
    <3>1. \/ r \cap model # {}
          \/ \E l \in r : VarOf(l) \notin domain /\ Unassigned(VarOf(l))
          \/ -Act \in r /\ question.constraint = {}
      BY <2>7 DEF Answered, Valued, Clauses
    <3>2. ASSUME NEW l \in r, VarOf(l) \notin domain, Unassigned(VarOf(l)) PROVE FALSE
      <4>1. CASE l \in d
        <5>1. VarOf(l) \in Asked
          BY <4>1 DEF Asked, VarsOf
        <5> QED
          BY <3>2, <5>1 DEF Answered, Inside
      <4>2. CASE l = -Act
        <5>1. VarOf(l) = Act
          BY <4>2, ActType, LitType
        <5> QED
          BY <1>1, <2>2, <3>2, <5>1 DEF Unassigned, True, False
      <4> QED
        BY <2>7, <4>1, <4>2
    <3>3. PICK k \in r : k \in model
      BY <3>1, <3>2
    <3> QED
      BY <1>3, <2>3, <2>7, <3>3
  <2> QED
    BY <2>4, <2>5, <2>6, <2>7 DEF Kept, Satisfied
<1> QED
  BY <1>2, <1>3, <1>4

-----------------------------------------------------------------------------
(***************************************************************************)
(* The contract, with the values.                                          *)
(***************************************************************************)

\* What the contract says of values is what is said of them here.
LEMMA ContractSufficient ==
    ASSUME NEW F, NEW q, NEW m,
           \A b \in CircuitModels : (\A l \in m : VarOf(l) \in Leaf => l \in b) =>
               m \subseteq b /\ \A c \in F \cup q.constraint : Holds(c, b)
    PROVE  Contract!Sufficient(F, q, m)
BY DEF Contract!Sufficient, Contract!CircuitModels, Contract!Assignments, Contract!Circuit,
       Contract!Holds, Contract!Leaf, Contract!VarOf, Contract!Var, CircuitModels, Assignments,
       Circuit, Holds, Leaf, VarOf, Var

\* The values of a satisfiable answer suffice.
ValuesSuffice ==
    user = "ic3" /\ ans = "sat" /\ ~overlooked /\ ~Skipped =>
        Contract!Sufficient(formula, question, model)

\* The invariant gives them what the contract asks.
LEMMA ValuesDo == IInv /\ Exact => ValuesSuffice
<1> SUFFICES ASSUME IInv, Exact, user = "ic3", ans = "sat", ~overlooked, ~Skipped
             PROVE  Contract!Sufficient(formula, question, model)
  BY DEF ValuesSuffice
<1>1. Answered
  BY DEF Answered, Exact
<1>2. ASSUME NEW b \in CircuitModels, \A l \in model : VarOf(l) \in Leaf => l \in b
      PROVE  model \subseteq b /\ \A c \in formula \cup question.constraint : Holds(c, b)
  BY <1>1, <1>2, AllValues
<1> QED
  BY <1>2, ContractSufficient

\* The question's assumptions are among the values.
LEMMA AssumptionsHold ==
    ASSUME IInv, Exact, user = "ic3", AnswerSat
    PROVE  Contract!Assumed(question) \subseteq model'
<1>1. /\ pc = "branch" /\ high >= Len(As) /\ high \in Nat /\ model' = LitsOf(trail)
      /\ question.assump \in Seq(PlainLit)
  BY QuestionType DEF AnswerSat, IInv, TypeOK
<1>2. \A i \in 1..Len(As) : i <= high => As[i] \in LitsUpto(i)
  BY <1>1 DEF Exact, AssumedTrue, Searching
<1>3. Len(As) \in Nat /\ \A j \in DOMAIN question.assump :
          \E i \in 1..Len(As) : As[i] = question.assump[j]
  <2>1. CASE question.constraint = {}
    BY <1>1, <2>1 DEF As
  <2>2. CASE question.constraint # {}
    <3> DEFINE s == question.assump
    <3>1. s \in Seq(PlainLit \cup {Act}) /\ As = <<Act>> \o s
      BY <1>1, <2>2 DEF As
    <3> HIDE DEF s
    <3>2. /\ Len(s) \in Nat /\ DOMAIN s = 1..Len(s) /\ Len(As) = 1 + Len(s)
          /\ \A j \in 1..Len(s) : As[j + 1] = s[j]
      BY <3>1, InFront
    <3>3. ASSUME NEW j \in DOMAIN s PROVE \E i \in 1..Len(As) : As[i] = s[j]
      <4>1. j + 1 \in 1..Len(As) /\ As[j + 1] = s[j]
        BY <3>2
      <4> QED
        BY <4>1
    <3> QED
      BY <3>2, <3>3 DEF s
  <2> QED
    BY <2>1, <2>2
<1>4. ASSUME NEW j \in DOMAIN question.assump PROVE question.assump[j] \in LitsOf(trail)
  <2>1. PICK i \in 1..Len(As) : As[i] = question.assump[j]
    BY <1>3
  <2>2. i <= high
    BY <1>1, <1>3
  <2>3. As[i] \in LitsUpto(i)
    BY <1>2, <2>2
  <2> QED
    BY <2>1, <2>3 DEF LitsUpto, LitsOf
<1> QED
  BY <1>1, <1>4 DEF Contract!Assumed

\* A satisfiable answer, or one of its values given up, is one that the contract allows.
LEMMA SatStep ==
    ASSUME IInv, Exact, ValuesSuffice', ValuesGiven
    PROVE  Contract!Next \/ ((overlooked \/ Skipped) /\ ans' = "sat")
<1>1. /\ ans \in {"asked", "sat"} /\ ans' = "sat"
      /\ UNCHANGED <<user, formula, question, unsat_core, trail, visited, propagated, overlooked>>
  BY DEF ValuesGiven, AnswerSat, Flip, assigns, history
<1>2. Skipped' = Skipped
  BY <1>1 DEF Skipped
<1>3. CASE overlooked \/ Skipped
  BY <1>1, <1>3
<1>4. CASE ~overlooked /\ ~Skipped
  <2>1. user = "ic3" => Contract!Sufficient(formula, question, model')
    BY <1>1, <1>2, <1>4 DEF ValuesSuffice
  <2>2. CASE AnswerSat
    <3>1. ans = "asked"
      BY <2>2 DEF AnswerSat, IInv, Control, Searching
    <3>2. user = "ic3" => Contract!Assumed(question) \subseteq model'
      BY <2>2, AssumptionsHold
    <3>3. Contract!AnswerSat
      BY <1>1, <2>1, <3>1, <3>2 DEF Contract!AnswerSat
    <3> QED
      BY <3>3 DEF Contract!Next
  <2>3. CASE \E v \in LeafVar : Flip(v)
    <3>1. user = "ic3" /\ ans = "sat" /\ model' \subseteq model
      BY <2>3 DEF Flip
    <3>2. Contract!Shrink
      BY <1>1, <2>1, <3>1 DEF Contract!Shrink
    <3> QED
      BY <3>2 DEF Contract!Next
  <2> QED
    BY <2>2, <2>3 DEF ValuesGiven
<1> QED
  BY <1>3, <1>4

\* The solver is the one that the engines rely on, its satisfiable answers included: their values
\* have the assumptions, and with the leaves among them the circuit computes the others and
\* satisfies what was added and asked, whatever the leaves without a value are; only once a
\* literal was overlooked, or while the trail holds one that was skipped, may an answer say
\* satisfiable wrongly.
THEOREM ContractHolds == Spec => ContractKept
<1>1. Spec => Contract!Init /\ [][Contract!Next \/ ValuesGiven]_(Contract!vars)
  BY ContractButValues
<1>2. IInv /\ Complete /\ Exact => IInv /\ Exact /\ ValuesSuffice
  BY ValuesDo
<1>3. /\ IInv /\ Exact /\ ValuesSuffice'
      /\ [Contract!Next \/ ValuesGiven]_(Contract!vars)
      => [Contract!Next \/ ((overlooked \/ Skipped) /\ ans' = "sat")]_(Contract!vars)
  BY SatStep
<1> QED
  BY <1>1, <1>2, <1>3, ExactlyKept, PTL DEF ContractKept
=============================================================================
