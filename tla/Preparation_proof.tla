-------------------------- MODULE Preparation_proof --------------------------
(***************************************************************************)
(* Proofs about Preparation, for every set of manifests, every policy and  *)
(* every tree of files, and any sequence of requests and listings: the     *)
(* cache of the restriction service changes no answer, what clients are    *)
(* told about models is sound, a request only goes to a permitted model,   *)
(* and what it sends there is what that model takes, whole and in bounds.  *)
(*                                                                         *)
(* Models rest on two facts.  A name that a catalog leads to leads to      *)
(* itself (ResolveFacts), because manifests that load give no name twice.  *)
(* And the service only ever learns such names, from entries of the        *)
(* allowlist that lead to them (Taught), so that it allows what it allowed *)
(* at first.                                                               *)
(*                                                                         *)
(* Prompts are made by functions defined by recursion: folds over          *)
(* sequences, and walks of directories.  That such a function exists is    *)
(* proved once for each way of recurring (Recursion, LeastSolution); its   *)
(* equations follow, and what it computes is shown place by place (Climb). *)
(* The arithmetic of allowances is FilesLeaveRoom.                         *)
(***************************************************************************)
EXTENDS Preparation, FiniteSetTheorems, SequenceTheorems, WellFoundedInduction, NaturalsInduction, TLAPS

-----------------------------------------------------------------------------
(* Places. *)

LEMMA LeastPlace ==
    ASSUME NEW S \in SUBSET Nat, S # {}
    PROVE  Min(S) \in S /\ \A i \in S : Min(S) <= i
<1> DEFINE R == OpToRel(<, Nat)
<1>1. IsWellFoundedOn(R, Nat)
  BY NatLessThanWellFounded
<1>2. PICK m \in S : \A i \in S : <<i, m>> \notin R
  BY <1>1, WFMin
<1>3. \A i \in S : ~(i < m)
  BY <1>2 DEF OpToRel
<1>4. \A i \in S : m <= i
  BY <1>3
<1> QED  BY <1>4 DEF Min

\* What FirstOf finds is one of the providers it was given.
LEMMA FirstIsOne ==
    ASSUME NEW S
    PROVE  /\ FirstOf(S) = None \/ FirstOf(S) \in S \cap ProviderSet
           /\ (\E p \in ProviderSet : p \in S) => FirstOf(S) # None
<1> DEFINE places == {i \in DOMAIN Priority : Priority[i] \in S}
<1>1. places \in SUBSET Nat /\ \A i \in DOMAIN Priority : Priority[i] \in ProviderSet
  BY PolicyAssumption DEF ProviderSet, ToSet
<1>2. CASE places = {}
  BY <1>2 DEF FirstOf, ProviderSet, ToSet
<1>3. CASE places # {}
  <2>1. Min(places) \in places
    BY <1>1, <1>3, LeastPlace
  <2>2. FirstOf(S) = Priority[Min(places)]
    BY <1>3 DEF FirstOf
  <2>3. FirstOf(S) \in S \cap ProviderSet
    BY <1>1, <2>1, <2>2
  <2> QED  BY <2>3, PolicyAssumption
<1> QED  BY <1>2, <1>3

LEMMA LastPlace ==
    ASSUME NEW n \in Nat, NEW S \in SUBSET (1 .. n), S # {}
    PROVE  Max(S) \in S /\ \A i \in S : i <= Max(S)
<1> DEFINE D == {n - i : i \in S}
<1>1. \A i \in S : i \in 1 .. n /\ n - i \in Nat
  OBVIOUS
<1>2. D \in SUBSET Nat /\ D # {}
  BY <1>1
<1>3. Min(D) \in D /\ \A d \in D : Min(D) <= d
  BY <1>2, LeastPlace
<1>4. PICK m \in S : Min(D) = n - m
  BY <1>3
<1>5. \A i \in S : Min(D) <= n - i
  BY <1>3
<1> HIDE DEF D
<1>6. \A i \in S : m >= i
  BY <1>1, <1>4, <1>5
<1> QED  BY <1>1, <1>6 DEF Max

LEMMA LastOf ==
    ASSUME NEW n \in Nat, NEW S \in SUBSET (0..n), S # {}
    PROVE  Max(S) \in S /\ \A i \in S : i <= Max(S)
<1> DEFINE T == {i + 1 : i \in S}
<1>1. CASE S = {0}
  <2>1. \E x \in S : \A y \in S : x >= y
    BY <1>1
  <2>2. \A x \in S : x = 0
    BY <1>1
  <2> QED  BY <2>1, <2>2 DEF Max
<1>2. CASE S # {0}
  <2> DEFINE P == S \ {0}
  <2>1. P # {} /\ P \in SUBSET (1..n)
    BY <1>2
  <2>2. Max(P) \in P /\ \A i \in P : i <= Max(P)
    BY <2>1, LastPlace
  <2>3. Max(P) \in S /\ \A i \in S : i <= Max(P)
    <3>1. Max(P) \in S /\ Max(P) \in 1..n
      BY <2>1, <2>2
    <3>2. \A i \in S : i = 0 \/ i \in P
      OBVIOUS
    <3> HIDE DEF P
    <3> QED  BY <2>2, <3>1, <3>2
  <2>4. \E x \in S : \A y \in S : x >= y
    BY <2>3
  <2> HIDE DEF P
  <2>5. Max(S) \in S /\ \A y \in S : Max(S) >= y
    BY <2>4 DEF Max
  <2> QED  BY <2>5
<1> QED  BY <1>1, <1>2

LEMMA Climb ==
    ASSUME NEW n \in Nat, NEW P, 0 \in P, \A i \in 1..n : i - 1 \in P => i \in P
    PROVE  0..n \subseteq P
<1> DEFINE bad == {i \in 0..n : i \notin P}
<1>1. SUFFICES ASSUME bad # {} PROVE FALSE
  OBVIOUS
<1>2. bad \in SUBSET Nat
  OBVIOUS
<1>3. PICK m \in bad : \A i \in bad : m <= i
  BY <1>1, <1>2, LeastPlace
<1>4. m \in 1..n /\ m - 1 \in 0..n
  BY <1>3
<1>5. m - 1 \notin bad
  BY <1>3, <1>4
<1> QED  BY <1>3, <1>4, <1>5

-----------------------------------------------------------------------------
(* What is folded, by its places. *)

\* A step function makes a sequence of values.
Steps(g, n, B) == \A i \in 1..n : \A x \in B : g[i][x] \in B

Reaches(f, g, n, b) == f[0] = b /\ \A i \in 1..n : f[i] = g[i][f[i - 1]]

LEMMA Recursion ==
    ASSUME NEW B, NEW n \in Nat, NEW b \in B, NEW g, Steps(g, n, B)
    PROVE  \E f \in [0..n -> B] : Reaches(f, g, n, b)
<1>0. \A i \in 1..n : \A x \in B : g[i][x] \in B
  BY DEF Steps
<1> DEFINE Made(m) == \E f \in [0..m -> B] : f[0] = b /\ \A i \in 1..m : f[i] = g[i][f[i - 1]]
           P == {m \in 0..n : Made(m)}
<1>1. 0 \in P
  <2> DEFINE h == [i \in 0..0 |-> b]
  <2>1. h \in [0..0 -> B] /\ h[0] = b
    OBVIOUS
  <2>2. \A i \in 1..0 : FALSE
    OBVIOUS
  <2> HIDE DEF h
  <2>3. Made(0)
    BY <2>1, <2>2
  <2> QED  BY <2>3
<1>2. ASSUME NEW m \in 1..n, m - 1 \in P PROVE m \in P
  <2>1. PICK f \in [0..m - 1 -> B] : f[0] = b /\ \A i \in 1..m - 1 : f[i] = g[i][f[i - 1]]
    BY <1>2
  <2> DEFINE h == [i \in 0..m |-> IF i = m THEN g[m][f[m - 1]] ELSE f[i]]
  <2>2. m - 1 \in 0..m - 1 /\ f[m - 1] \in B /\ g[m][f[m - 1]] \in B
    BY <1>0
  <2>3. h \in [0..m -> B]
    BY <2>2
  <2>4. \A i \in 0..m - 1 : h[i] = f[i]
    OBVIOUS
  <2>5. h[m] = g[m][h[m - 1]]
    BY <2>2, <2>4
  <2> HIDE DEF h
  <2>6. h[0] = b
    BY <2>1, <2>4
  <2>7. ASSUME NEW i \in 1..m - 1 PROVE h[i] = g[i][h[i - 1]]
    <3>1. h[i] = f[i] /\ h[i - 1] = f[i - 1]
      BY <2>4
    <3> QED  BY <2>1, <3>1
  <2>8. \A i \in 1..m : h[i] = g[i][h[i - 1]]
    BY <2>5, <2>7
  <2>9. Made(m)
    BY <2>3, <2>6, <2>8
  <2> QED  BY <2>9
<1> HIDE DEF P
<1>3. n \in P
  BY <1>1, <1>2, Climb
<1> QED  BY <1>3 DEF P, Reaches

TotalCourse(f, s, n) == f[0] = 0 /\ \A i \in 1..n : f[i] = f[i - 1] + s[i]

LEMMA TotalUnfolds ==
    ASSUME NEW s, NEW n \in Nat, n = Len(s), \A i \in 1..n : s[i] \in Nat
    PROVE  \E f \in [0..n -> Nat] : Total(s) = f[n] /\ TotalCourse(f, s, n)
<1> DEFINE step(x, i) == x + s[i]
           B == Nat
           g == [i \in 1..n |-> [x \in B |-> step(x, i)]]
           Is(f) == f = [i \in 0..n |-> IF i = 0 THEN 0 ELSE step(f[i - 1], i)]
           it == CHOOSE f : Is(f)
<1>1. \A i \in 1..n : \A x \in B : step(x, i) \in B
  OBVIOUS
<1>2. Total(s) = it[n]
  BY DEF Total, Folded
<1>3. 0 \in B
  OBVIOUS
<1>4. ASSUME NEW f, f \in [0..n -> B], f[0] = 0, \A i \in 1..n : f[i] = step(f[i - 1], i)
      PROVE  TotalCourse(f, s, n)
  BY <1>4, Zenon DEF TotalCourse
<1> HIDE DEF step, B
<1>5. \A i \in 1..n : \A x \in B : g[i][x] = step(x, i)
  OBVIOUS
<1> HIDE DEF g
<1>6. Steps(g, n, B)
  BY <1>1, <1>5 DEF Steps
<1>7. PICK f \in [0..n -> B] : Reaches(f, g, n, 0)
  BY <1>3, <1>6, Recursion, Zenon
<1>8. \A i \in 0..n : f[i] = IF i = 0 THEN 0 ELSE step(f[i - 1], i)
  <2>1. f[0] = 0 /\ \A i \in 1..n : f[i] = g[i][f[i - 1]]
    BY <1>7, Zenon DEF Reaches
  <2>2. \A i \in 0..n : i = 0 \/ (i \in 1..n /\ i - 1 \in 0..n)
    OBVIOUS
  <2> QED  BY <1>5, <2>1, <2>2, Zenon
<1>9. Is(it)
  <2>1. f = [i \in 0..n |-> f[i]]
    OBVIOUS
  <2>2. Is(f)
    BY <1>8, <2>1, Zenon
  <2> HIDE DEF Is
  <2> QED  BY <2>2
<1> HIDE DEF it
<1>10. it = [i \in 0..n |-> it[i]] /\ \A i \in 0..n : it[i] = IF i = 0 THEN 0 ELSE step(it[i - 1], i)
  BY <1>9, Zenon
<1> HIDE DEF Is
<1>11. it[0] = 0 /\ \A i \in 1..n : it[i] = step(it[i - 1], i)
  BY <1>10
<1>12. \A i \in 0..n : it[i] \in B
  <2> DEFINE P == {i \in 0..n : it[i] \in B}
  <2>1. 0 \in P
    BY <1>3, <1>11
  <2>2. ASSUME NEW i \in 1..n, i - 1 \in P PROVE i \in P
    <3>1. it[i - 1] \in B
      BY <2>2
    <3>2. it[i] \in B
      BY <1>1, <1>11, <3>1
    <3> QED  BY <3>2
  <2> HIDE DEF P
  <2>3. 0..n \subseteq P
    BY <2>1, <2>2, Climb
  <2> QED  BY <2>3 DEF P
<1>13. it \in [0..n -> B]
  BY <1>10, <1>12
<1>14. TotalCourse(it, s, n)
  BY <1>4, <1>11, <1>13
<1> QED  BY <1>2, <1>13, <1>14 DEF B

DistinctCourse(f, s, n) ==
    f[0] = << >> /\ \A i \in 1..n : f[i] = IF Contains(f[i - 1], s[i]) THEN f[i - 1] ELSE Append(f[i - 1], s[i])

LEMMA DistinctUnfolds ==
    ASSUME NEW S, NEW s, NEW n \in Nat, n = Len(s), \A i \in 1..n : s[i] \in S
    PROVE  \E f \in [0..n -> Seq(S)] : Distinct(s) = f[n] /\ DistinctCourse(f, s, n)
<1> DEFINE step(x, i) == IF Contains(x, s[i]) THEN x ELSE Append(x, s[i])
           B == Seq(S)
           g == [i \in 1..n |-> [x \in B |-> step(x, i)]]
           Is(f) == f = [i \in 0..n |-> IF i = 0 THEN << >> ELSE step(f[i - 1], i)]
           it == CHOOSE f : Is(f)
<1>1. \A i \in 1..n : \A x \in B : step(x, i) \in B
  OBVIOUS
<1>2. Distinct(s) = it[n]
  BY DEF Distinct, Folded
<1>3. << >> \in B
  OBVIOUS
<1>4. ASSUME NEW f, f \in [0..n -> B], f[0] = << >>, \A i \in 1..n : f[i] = step(f[i - 1], i)
      PROVE  DistinctCourse(f, s, n)
  BY <1>4, Zenon DEF DistinctCourse
<1> HIDE DEF step, B
<1>5. \A i \in 1..n : \A x \in B : g[i][x] = step(x, i)
  OBVIOUS
<1> HIDE DEF g
<1>6. Steps(g, n, B)
  BY <1>1, <1>5 DEF Steps
<1>7. PICK f \in [0..n -> B] : Reaches(f, g, n, << >>)
  BY <1>3, <1>6, Recursion, Zenon
<1>8. \A i \in 0..n : f[i] = IF i = 0 THEN << >> ELSE step(f[i - 1], i)
  <2>1. f[0] = << >> /\ \A i \in 1..n : f[i] = g[i][f[i - 1]]
    BY <1>7, Zenon DEF Reaches
  <2>2. \A i \in 0..n : i = 0 \/ (i \in 1..n /\ i - 1 \in 0..n)
    OBVIOUS
  <2> QED  BY <1>5, <2>1, <2>2, Zenon
<1>9. Is(it)
  <2>1. f = [i \in 0..n |-> f[i]]
    OBVIOUS
  <2>2. Is(f)
    BY <1>8, <2>1, Zenon
  <2> HIDE DEF Is
  <2> QED  BY <2>2
<1> HIDE DEF it
<1>10. it = [i \in 0..n |-> it[i]] /\ \A i \in 0..n : it[i] = IF i = 0 THEN << >> ELSE step(it[i - 1], i)
  BY <1>9, Zenon
<1> HIDE DEF Is
<1>11. it[0] = << >> /\ \A i \in 1..n : it[i] = step(it[i - 1], i)
  BY <1>10
<1>12. \A i \in 0..n : it[i] \in B
  <2> DEFINE P == {i \in 0..n : it[i] \in B}
  <2>1. 0 \in P
    BY <1>3, <1>11
  <2>2. ASSUME NEW i \in 1..n, i - 1 \in P PROVE i \in P
    <3>1. it[i - 1] \in B
      BY <2>2
    <3>2. it[i] \in B
      BY <1>1, <1>11, <3>1
    <3> QED  BY <3>2
  <2> HIDE DEF P
  <2>3. 0..n \subseteq P
    BY <2>1, <2>2, Climb
  <2> QED  BY <2>3 DEF P
<1>13. it \in [0..n -> B]
  BY <1>10, <1>12
<1>14. DistinctCourse(it, s, n)
  BY <1>4, <1>11, <1>13
<1> QED  BY <1>2, <1>13, <1>14 DEF B

AmongCourse(f, s, n, T) ==
    f[0] = << >> /\ \A i \in 1..n : f[i] = IF s[i] \in T THEN Append(f[i - 1], s[i]) ELSE f[i - 1]

LEMMA AmongUnfolds ==
    ASSUME NEW S, NEW s, NEW n \in Nat, n = Len(s), \A i \in 1..n : s[i] \in S, NEW T
    PROVE  \E f \in [0..n -> Seq(S)] : Among(s, T) = f[n] /\ AmongCourse(f, s, n, T)
<1> DEFINE step(x, i) == IF s[i] \in T THEN Append(x, s[i]) ELSE x
           B == Seq(S)
           g == [i \in 1..n |-> [x \in B |-> step(x, i)]]
           Is(f) == f = [i \in 0..n |-> IF i = 0 THEN << >> ELSE step(f[i - 1], i)]
           it == CHOOSE f : Is(f)
<1>1. \A i \in 1..n : \A x \in B : step(x, i) \in B
  OBVIOUS
<1>2. Among(s, T) = it[n]
  BY DEF Among, Folded
<1>3. << >> \in B
  OBVIOUS
<1>4. ASSUME NEW f, f \in [0..n -> B], f[0] = << >>, \A i \in 1..n : f[i] = step(f[i - 1], i)
      PROVE  AmongCourse(f, s, n, T)
  BY <1>4, Zenon DEF AmongCourse
<1> HIDE DEF step, B
<1>5. \A i \in 1..n : \A x \in B : g[i][x] = step(x, i)
  OBVIOUS
<1> HIDE DEF g
<1>6. Steps(g, n, B)
  BY <1>1, <1>5 DEF Steps
<1>7. PICK f \in [0..n -> B] : Reaches(f, g, n, << >>)
  BY <1>3, <1>6, Recursion, Zenon
<1>8. \A i \in 0..n : f[i] = IF i = 0 THEN << >> ELSE step(f[i - 1], i)
  <2>1. f[0] = << >> /\ \A i \in 1..n : f[i] = g[i][f[i - 1]]
    BY <1>7, Zenon DEF Reaches
  <2>2. \A i \in 0..n : i = 0 \/ (i \in 1..n /\ i - 1 \in 0..n)
    OBVIOUS
  <2> QED  BY <1>5, <2>1, <2>2, Zenon
<1>9. Is(it)
  <2>1. f = [i \in 0..n |-> f[i]]
    OBVIOUS
  <2>2. Is(f)
    BY <1>8, <2>1, Zenon
  <2> HIDE DEF Is
  <2> QED  BY <2>2
<1> HIDE DEF it
<1>10. it = [i \in 0..n |-> it[i]] /\ \A i \in 0..n : it[i] = IF i = 0 THEN << >> ELSE step(it[i - 1], i)
  BY <1>9, Zenon
<1> HIDE DEF Is
<1>11. it[0] = << >> /\ \A i \in 1..n : it[i] = step(it[i - 1], i)
  BY <1>10
<1>12. \A i \in 0..n : it[i] \in B
  <2> DEFINE P == {i \in 0..n : it[i] \in B}
  <2>1. 0 \in P
    BY <1>3, <1>11
  <2>2. ASSUME NEW i \in 1..n, i - 1 \in P PROVE i \in P
    <3>1. it[i - 1] \in B
      BY <2>2
    <3>2. it[i] \in B
      BY <1>1, <1>11, <3>1
    <3> QED  BY <3>2
  <2> HIDE DEF P
  <2>3. 0..n \subseteq P
    BY <2>1, <2>2, Climb
  <2> QED  BY <2>3 DEF P
<1>13. it \in [0..n -> B]
  BY <1>10, <1>12
<1>14. AmongCourse(it, s, n, T)
  BY <1>4, <1>11, <1>13
<1> QED  BY <1>2, <1>13, <1>14 DEF B

TakenCourse(f, s, n, limit) ==
    f[0] = << >> /\ \A i \in 1..n :
        f[i] = IF Spent(f[i - 1]) + Cost(f[i - 1], s[i]) <= limit THEN Append(f[i - 1], s[i]) ELSE f[i - 1]

LEMMA TakenUnfolds ==
    ASSUME NEW S, NEW s, NEW n \in Nat, n = Len(s), \A i \in 1..n : s[i] \in S, NEW limit
    PROVE  \E f \in [0..n -> Seq(S)] : Taken(s, limit) = f[n] /\ TakenCourse(f, s, n, limit)
<1> DEFINE step(x, i) == IF Spent(x) + Cost(x, s[i]) <= limit THEN Append(x, s[i]) ELSE x
           B == Seq(S)
           g == [i \in 1..n |-> [x \in B |-> step(x, i)]]
           Is(f) == f = [i \in 0..n |-> IF i = 0 THEN << >> ELSE step(f[i - 1], i)]
           it == CHOOSE f : Is(f)
<1>1. \A i \in 1..n : \A x \in B : step(x, i) \in B
  OBVIOUS
<1>2. Taken(s, limit) = it[n]
  BY DEF Taken, Folded
<1>3. << >> \in B
  OBVIOUS
<1>4. ASSUME NEW f, f \in [0..n -> B], f[0] = << >>, \A i \in 1..n : f[i] = step(f[i - 1], i)
      PROVE  TakenCourse(f, s, n, limit)
  BY <1>4, Zenon DEF TakenCourse
<1> HIDE DEF step, B
<1>5. \A i \in 1..n : \A x \in B : g[i][x] = step(x, i)
  OBVIOUS
<1> HIDE DEF g
<1>6. Steps(g, n, B)
  BY <1>1, <1>5 DEF Steps
<1>7. PICK f \in [0..n -> B] : Reaches(f, g, n, << >>)
  BY <1>3, <1>6, Recursion, Zenon
<1>8. \A i \in 0..n : f[i] = IF i = 0 THEN << >> ELSE step(f[i - 1], i)
  <2>1. f[0] = << >> /\ \A i \in 1..n : f[i] = g[i][f[i - 1]]
    BY <1>7, Zenon DEF Reaches
  <2>2. \A i \in 0..n : i = 0 \/ (i \in 1..n /\ i - 1 \in 0..n)
    OBVIOUS
  <2> QED  BY <1>5, <2>1, <2>2, Zenon
<1>9. Is(it)
  <2>1. f = [i \in 0..n |-> f[i]]
    OBVIOUS
  <2>2. Is(f)
    BY <1>8, <2>1, Zenon
  <2> HIDE DEF Is
  <2> QED  BY <2>2
<1> HIDE DEF it
<1>10. it = [i \in 0..n |-> it[i]] /\ \A i \in 0..n : it[i] = IF i = 0 THEN << >> ELSE step(it[i - 1], i)
  BY <1>9, Zenon
<1> HIDE DEF Is
<1>11. it[0] = << >> /\ \A i \in 1..n : it[i] = step(it[i - 1], i)
  BY <1>10
<1>12. \A i \in 0..n : it[i] \in B
  <2> DEFINE P == {i \in 0..n : it[i] \in B}
  <2>1. 0 \in P
    BY <1>3, <1>11
  <2>2. ASSUME NEW i \in 1..n, i - 1 \in P PROVE i \in P
    <3>1. it[i - 1] \in B
      BY <2>2
    <3>2. it[i] \in B
      BY <1>1, <1>11, <3>1
    <3> QED  BY <3>2
  <2> HIDE DEF P
  <2>3. 0..n \subseteq P
    BY <2>1, <2>2, Climb
  <2> QED  BY <2>3 DEF P
<1>13. it \in [0..n -> B]
  BY <1>10, <1>12
<1>14. TakenCourse(it, s, n, limit)
  BY <1>4, <1>11, <1>13
<1> QED  BY <1>2, <1>13, <1>14 DEF B

FlattenCourse(f, s, n) == f[0] = << >> /\ \A i \in 1..n : f[i] = f[i - 1] \o s[i]

LEMMA FlattenUnfolds ==
    ASSUME NEW S, NEW n \in Nat, NEW s, s = [i \in 1..n |-> s[i]], \A i \in 1..n : s[i] \in Seq(S)
    PROVE  \E f \in [0..n -> Seq(S)] : FlattenSeq(s) = f[n] /\ FlattenCourse(f, s, n)
<1> DEFINE step(x, i) == x \o s[i]
           B == Seq(S)
           g == [i \in 1..n |-> [x \in B |-> step(x, i)]]
           Is(f) == f = [i \in 1..n |-> IF i = 1 THEN s[i] ELSE step(f[i - 1], i)]
           flat == CHOOSE f : Is(f)
           it == [i \in 0..n |-> IF i = 0 THEN << >> ELSE flat[i]]
<1>1. \A i \in 1..n : \A x \in B : step(x, i) \in B
  OBVIOUS
<1>2. \A i \in 1..n : s[i] \in B /\ step(<< >>, i) = s[i]
  OBVIOUS
<1>3. Len(s) = n
  OBVIOUS
<1>4. CASE n = 0
  <2>1. FlattenSeq(s) = << >>
    BY <1>3, <1>4 DEF FlattenSeq
  <2> DEFINE f == [i \in 0..n |-> << >>]
  <2>2. f \in [0..n -> Seq(S)] /\ f[n] = << >> /\ f[0] = << >>
    BY <1>4
  <2>3. FlattenCourse(f, s, n)
    BY <1>4, <2>2 DEF FlattenCourse
  <2> HIDE DEF f
  <2> QED  BY <2>1, <2>2, <2>3
<1>5. CASE n # 0
  <2>1. FlattenSeq(s) = flat[n]
    BY <1>3, <1>5 DEF FlattenSeq
  <2>2. << >> \in B
    OBVIOUS
  <2>3. ASSUME NEW f, f \in [0..n -> B], f[0] = << >>, \A i \in 1..n : f[i] = step(f[i - 1], i)
        PROVE  FlattenCourse(f, s, n)
    BY <2>3, Zenon DEF FlattenCourse
  <2> HIDE DEF step, B, it
  <2>4. \A i \in 1..n : \A x \in B : g[i][x] = step(x, i)
    OBVIOUS
  <2> HIDE DEF g
  <2>5. Steps(g, n, B)
    BY <1>1, <2>4 DEF Steps
  <2>6. PICK f \in [0..n -> B] : Reaches(f, g, n, << >>)
    BY <2>2, <2>5, Recursion, Zenon
  <2> DEFINE h == [i \in 1..n |-> f[i]]
  <2>7. \A i \in 1..n : h[i] = IF i = 1 THEN s[i] ELSE step(h[i - 1], i)
    <3>1. f[0] = << >> /\ \A i \in 1..n : f[i] = g[i][f[i - 1]]
      BY <2>6, Zenon DEF Reaches
    <3>2. \A i \in 1..n : i - 1 \in 0..n /\ (i # 1 => i - 1 \in 1..n) /\ (i = 1 => i - 1 = 0)
      OBVIOUS
    <3>3. \A i \in 1..n : f[i] = step(f[i - 1], i)
      BY <2>4, <3>1, <3>2, Zenon
    <3>4. ASSUME NEW i \in 1..n PROVE h[i] = IF i = 1 THEN s[i] ELSE step(h[i - 1], i)
      <4>1. CASE i = 1
        BY <1>2, <3>1, <3>2, <3>3, <4>1
      <4>2. CASE i # 1
        BY <3>2, <3>3, <4>2
      <4> QED  BY <4>1, <4>2
    <3> QED  BY <3>4
  <2>8. Is(flat)
    <3>1. h = [i \in 1..n |-> h[i]]
      OBVIOUS
    <3> HIDE DEF h
    <3>2. Is(h)
      BY <2>7, <3>1, Zenon
    <3> HIDE DEF Is
    <3> QED  BY <3>2
  <2> HIDE DEF flat
  <2>9. \A i \in 1..n : flat[i] = IF i = 1 THEN s[i] ELSE step(flat[i - 1], i)
    BY <2>8, Zenon
  <2> HIDE DEF Is
  <2>10. it[0] = << >> /\ \A i \in 1..n : it[i] = step(it[i - 1], i)
    <3>1. it[0] = << >> /\ \A i \in 1..n : it[i] = flat[i]
      BY DEF it
    <3>2. ASSUME NEW i \in 1..n PROVE it[i] = step(it[i - 1], i)
      <4>1. CASE i = 1
        <5>1. i - 1 = 0
          BY <4>1
        <5> QED  BY <1>2, <2>9, <3>1, <4>1, <5>1
      <4>2. CASE i # 1
        <5>1. i - 1 \in 1..n
          BY <4>2
        <5> QED  BY <2>9, <3>1, <4>2, <5>1
      <4> QED  BY <4>1, <4>2
    <3> QED  BY <3>1, <3>2
  <2>11. \A i \in 0..n : it[i] \in B
    <3> DEFINE P == {i \in 0..n : it[i] \in B}
    <3>1. 0 \in P
      BY <2>2, <2>10
    <3>2. ASSUME NEW i \in 1..n, i - 1 \in P PROVE i \in P
      <4>1. it[i - 1] \in B
        BY <3>2
      <4>2. it[i] \in B
        BY <1>1, <2>10, <4>1
      <4> QED  BY <4>2
    <3> HIDE DEF P
    <3>3. 0..n \subseteq P
      BY <3>1, <3>2, Climb
    <3> QED  BY <3>3 DEF P
  <2>12. it = [i \in 0..n |-> it[i]] /\ it[n] = flat[n]
    BY <1>5 DEF it
  <2>13. it \in [0..n -> B]
    BY <2>11, <2>12
  <2>14. FlattenCourse(it, s, n)
    BY <2>3, <2>10, <2>13
  <2> QED  BY <2>1, <2>12, <2>13, <2>14 DEF B
<1> QED  BY <1>4, <1>5

-----------------------------------------------------------------------------
(* What sequences hold. *)

LEMMA EmptySet == ToSet(<< >>) = {}
BY DEF ToSet

LEMMA ToSetFacts ==
    ASSUME NEW S, NEW s \in Seq(S)
    PROVE  ToSet(s) \subseteq S /\ \A x : Contains(s, x) <=> x \in ToSet(s)
BY DEF ToSet, Contains

LEMMA AppendSet ==
    ASSUME NEW S, NEW s \in Seq(S), NEW x \in S
    PROVE  Append(s, x) \in Seq(S) /\ ToSet(Append(s, x)) = ToSet(s) \cup {x}
<1> DEFINE t == Append(s, x)
<1>1. t \in Seq(S) /\ Len(t) = Len(s) + 1 /\ t[Len(s) + 1] = x /\ \A i \in 1..Len(s) : t[i] = s[i]
  OBVIOUS
<1>2. Len(s) \in Nat /\ DOMAIN t = 1..Len(t) /\ DOMAIN s = 1..Len(s)
  BY <1>1
<1> HIDE DEF t
<1>3. ToSet(t) \subseteq ToSet(s) \cup {x}
  BY <1>1, <1>2 DEF ToSet
<1>4. ToSet(s) \cup {x} \subseteq ToSet(t)
  BY <1>1, <1>2 DEF ToSet
<1> QED  BY <1>1, <1>3, <1>4 DEF t

LEMMA ConcatSet ==
    ASSUME NEW S, NEW s \in Seq(S), NEW t \in Seq(S)
    PROVE  s \o t \in Seq(S) /\ ToSet(s \o t) = ToSet(s) \cup ToSet(t)
<1> DEFINE u == s \o t
           m == Len(s)
           n == Len(t)
<1>1. u \in Seq(S) /\ Len(u) = m + n /\ (\A i \in 1..m : u[i] = s[i]) /\ (\A i \in 1..n : u[m + i] = t[i])
  OBVIOUS
<1>2. m \in Nat /\ n \in Nat /\ DOMAIN u = 1..m + n /\ DOMAIN s = 1..m /\ DOMAIN t = 1..n
  BY <1>1
<1> HIDE DEF u, m, n
<1>3. ToSet(u) \subseteq ToSet(s) \cup ToSet(t)
  <2>1. SUFFICES ASSUME NEW i \in 1..m + n PROVE u[i] \in ToSet(s) \cup ToSet(t)
    BY <1>2 DEF ToSet
  <2>2. CASE i \in 1..m
    BY <1>1, <1>2, <2>2 DEF ToSet
  <2>3. CASE i \notin 1..m
    <3>1. i - m \in 1..n /\ m + (i - m) = i
      BY <1>2, <2>3
    <3>2. u[i] = t[i - m]
      BY <1>1, <3>1
    <3> QED  BY <1>2, <3>1, <3>2 DEF ToSet
  <2> QED  BY <2>2, <2>3
<1>4. ToSet(s) \subseteq ToSet(u)
  BY <1>1, <1>2 DEF ToSet
<1>5. ToSet(t) \subseteq ToSet(u)
  <2>1. \A i \in 1..n : m + i \in 1..m + n
    BY <1>2
  <2> QED  BY <1>1, <1>2, <2>1 DEF ToSet
<1> QED  BY <1>1, <1>3, <1>4, <1>5 DEF u

\* The items of s up to a place.
UpTo(s, i) == {s[j] : j \in 1..i}

LEMMA UpToFacts ==
    ASSUME NEW s, NEW n \in Nat
    PROVE  UpTo(s, 0) = {} /\ \A i \in 1..n : UpTo(s, i) = UpTo(s, i - 1) \cup {s[i]}
<1>1. UpTo(s, 0) = {}
  BY DEF UpTo
<1>2. ASSUME NEW i \in 1..n PROVE UpTo(s, i) = UpTo(s, i - 1) \cup {s[i]}
  <2>1. 1..i = (1..i - 1) \cup {i}
    OBVIOUS
  <2> QED  BY <2>1, Zenon DEF UpTo
<1> QED  BY <1>1, <1>2

LEMMA TotalIsNat ==
    ASSUME NEW s, NEW n \in Nat, n = Len(s), \A i \in 1..n : s[i] \in Nat
    PROVE  Total(s) \in Nat
<1>1. PICK f \in [0..n -> Nat] : Total(s) = f[n]
  BY TotalUnfolds, Zenon
<1>2. n \in 0..n
  OBVIOUS
<1> QED  BY <1>1, <1>2, Zenon

\* t is s with one more number.
OneMore(t, s, n) ==
    /\ n = Len(s) /\ n + 1 = Len(t)
    /\ \A i \in 1..n : t[i] = s[i]
    /\ \A i \in 1..(n + 1) : t[i] \in Nat

LEMMA TotalGrows ==
    ASSUME NEW s, NEW t, NEW n \in Nat, OneMore(t, s, n)
    PROVE  Total(s) \in Nat /\ Total(t) = Total(s) + t[n + 1]
<1>0. /\ n = Len(s) /\ n + 1 = Len(t)
      /\ \A i \in 1..n : t[i] = s[i]
      /\ \A i \in 1..(n + 1) : t[i] \in Nat
  BY DEF OneMore
<1>1. \A i \in 1..n : s[i] \in Nat
  BY <1>0
<1>2. PICK f \in [0..n -> Nat] : Total(s) = f[n] /\ TotalCourse(f, s, n)
  BY <1>0, <1>1, TotalUnfolds, Zenon
<1>3. n + 1 \in Nat
  OBVIOUS
<1>4. PICK h \in [0..n + 1 -> Nat] : Total(t) = h[n + 1] /\ TotalCourse(h, t, n + 1)
  BY <1>0, <1>3, TotalUnfolds, Zenon
<1>5. f[0] = h[0]
  BY <1>2, <1>4 DEF TotalCourse
<1> DEFINE P == {i \in 0..n : f[i] = h[i]}
<1>6. 0 \in P
  BY <1>5
<1>7. ASSUME NEW i \in 1..n, i - 1 \in P PROVE i \in P
  <2>1. f[i] = f[i - 1] + s[i]
    BY <1>2 DEF TotalCourse
  <2>2. h[i] = h[i - 1] + t[i]
    BY <1>4 DEF TotalCourse
  <2>3. f[i - 1] = h[i - 1] /\ t[i] = s[i]
    BY <1>0, <1>7
  <2> QED  BY <2>1, <2>2, <2>3
<1> HIDE DEF P
<1>8. 0..n \subseteq P
  BY <1>6, <1>7, Climb
<1>9. f[n] = h[n]
  BY <1>8 DEF P
<1>10. h[n + 1] = h[n] + t[n + 1]
  <2>1. n + 1 \in 1..n + 1 /\ (n + 1) - 1 = n
    OBVIOUS
  <2> QED  BY <1>4, <2>1, Zenon DEF TotalCourse
<1>11. f[n] \in Nat
  OBVIOUS
<1> QED  BY <1>2, <1>4, <1>9, <1>10, <1>11

LEMMA DistinctFacts ==
    ASSUME NEW S, NEW s \in Seq(S)
    PROVE  Distinct(s) \in Seq(S) /\ ToSet(Distinct(s)) = ToSet(s)
<1> DEFINE n == Len(s)
<1>1. n \in Nat /\ n = Len(s) /\ DOMAIN s = 1..n /\ \A i \in 1..n : s[i] \in S
  OBVIOUS
<1> HIDE DEF n
<1>2. PICK f \in [0..n -> Seq(S)] : Distinct(s) = f[n] /\ DistinctCourse(f, s, n)
  BY <1>1, DistinctUnfolds, Zenon
<1> DEFINE P == {i \in 0..n : ToSet(f[i]) = UpTo(s, i)}
<1>3. 0 \in P
  <2>1. ToSet(f[0]) = {} /\ UpTo(s, 0) = {}
    BY <1>1, <1>2, EmptySet, UpToFacts, Zenon DEF DistinctCourse
  <2> QED  BY <1>1, <2>1
<1>4. ASSUME NEW i \in 1..n, i - 1 \in P PROVE i \in P
  <2>1. f[i] = IF Contains(f[i - 1], s[i]) THEN f[i - 1] ELSE Append(f[i - 1], s[i])
    BY <1>2, Zenon DEF DistinctCourse
  <2>2. i \in 0..n /\ i - 1 \in 0..n /\ s[i] \in S
    BY <1>1
  <2>3. f[i - 1] \in Seq(S) /\ ToSet(f[i - 1]) = UpTo(s, i - 1)
    BY <1>4, <2>2, Zenon
  <2>4. ToSet(f[i]) = ToSet(f[i - 1]) \cup {s[i]}
    <3>1. CASE Contains(f[i - 1], s[i])
      <4>1. s[i] \in ToSet(f[i - 1])
        BY <2>3, <3>1, ToSetFacts, Zenon
      <4> QED  BY <2>1, <3>1, <4>1
    <3>2. CASE ~Contains(f[i - 1], s[i])
      <4>1. f[i] = Append(f[i - 1], s[i])
        BY <2>1, <3>2, Zenon
      <4> QED  BY <2>2, <2>3, <4>1, AppendSet
    <3> QED  BY <3>1, <3>2
  <2>5. UpTo(s, i) = UpTo(s, i - 1) \cup {s[i]}
    BY <1>1, UpToFacts, Zenon
  <2> QED  BY <2>2, <2>3, <2>4, <2>5, Zenon
<1> HIDE DEF P
<1>5. 0..n \subseteq P
  BY <1>1, <1>3, <1>4, Climb
<1>6. n \in 0..n
  BY <1>1
<1>7. ToSet(f[n]) = UpTo(s, n) /\ f[n] \in Seq(S)
  BY <1>5, <1>6, Zenon DEF P
<1>8. UpTo(s, n) = ToSet(s)
  BY <1>1, Zenon DEF UpTo, ToSet
<1> QED  BY <1>2, <1>7, <1>8, Zenon

LEMMA AmongFacts ==
    ASSUME NEW S, NEW s \in Seq(S), NEW T
    PROVE  Among(s, T) \in Seq(S) /\ ToSet(Among(s, T)) = ToSet(s) \cap T
<1> DEFINE n == Len(s)
<1>1. n \in Nat /\ n = Len(s) /\ DOMAIN s = 1..n /\ \A i \in 1..n : s[i] \in S
  OBVIOUS
<1> HIDE DEF n
<1>2. PICK f \in [0..n -> Seq(S)] : Among(s, T) = f[n] /\ AmongCourse(f, s, n, T)
  BY <1>1, AmongUnfolds, Zenon
<1> DEFINE P == {i \in 0..n : ToSet(f[i]) = UpTo(s, i) \cap T}
<1>3. 0 \in P
  <2>1. ToSet(f[0]) = {} /\ UpTo(s, 0) = {}
    BY <1>1, <1>2, EmptySet, UpToFacts, Zenon DEF AmongCourse
  <2> QED  BY <1>1, <2>1
<1>4. ASSUME NEW i \in 1..n, i - 1 \in P PROVE i \in P
  <2>1. f[i] = IF s[i] \in T THEN Append(f[i - 1], s[i]) ELSE f[i - 1]
    BY <1>2, Zenon DEF AmongCourse
  <2>2. i \in 0..n /\ i - 1 \in 0..n /\ s[i] \in S
    BY <1>1
  <2>3. f[i - 1] \in Seq(S) /\ ToSet(f[i - 1]) = UpTo(s, i - 1) \cap T
    BY <1>4, <2>2, Zenon
  <2>4. UpTo(s, i) = UpTo(s, i - 1) \cup {s[i]}
    BY <1>1, UpToFacts, Zenon
  <2>5. ToSet(f[i]) = UpTo(s, i) \cap T
    <3>1. CASE s[i] \in T
      <4>1. ToSet(f[i]) = ToSet(f[i - 1]) \cup {s[i]}
        <5>1. f[i] = Append(f[i - 1], s[i])
          BY <2>1, <3>1, Zenon
        <5> QED  BY <2>2, <2>3, <5>1, AppendSet
      <4> QED  BY <2>3, <2>4, <3>1, <4>1
    <3>2. CASE s[i] \notin T
      <4>1. f[i] = f[i - 1]
        BY <2>1, <3>2, Zenon
      <4> QED  BY <2>3, <2>4, <3>2, <4>1
    <3> QED  BY <3>1, <3>2
  <2> QED  BY <2>2, <2>5, Zenon
<1> HIDE DEF P
<1>5. 0..n \subseteq P
  BY <1>1, <1>3, <1>4, Climb
<1>6. n \in 0..n
  BY <1>1
<1>7. ToSet(f[n]) = UpTo(s, n) \cap T /\ f[n] \in Seq(S)
  BY <1>5, <1>6, Zenon DEF P
<1>8. UpTo(s, n) = ToSet(s)
  BY <1>1, Zenon DEF UpTo, ToSet
<1> QED  BY <1>2, <1>7, <1>8, Zenon

LEMMA FlattenFacts ==
    ASSUME NEW S, NEW n \in Nat, NEW s, s = [i \in 1..n |-> s[i]], \A i \in 1..n : s[i] \in Seq(S)
    PROVE  FlattenSeq(s) \in Seq(S) /\ ToSet(FlattenSeq(s)) = UNION {ToSet(s[i]) : i \in 1..n}
<1>1. PICK f \in [0..n -> Seq(S)] : FlattenSeq(s) = f[n] /\ FlattenCourse(f, s, n)
  BY FlattenUnfolds, Zenon
<1> DEFINE joined(i) == UNION {ToSet(s[j]) : j \in 1..i}
           P == {i \in 0..n : ToSet(f[i]) = joined(i)}
<1>2. joined(0) = {}
  OBVIOUS
<1>3. ASSUME NEW i \in 1..n PROVE joined(i) = joined(i - 1) \cup ToSet(s[i])
  <2>1. 1..i = (1..i - 1) \cup {i}
    OBVIOUS
  <2> QED  BY <2>1, Zenon
<1> HIDE DEF joined
<1>4. 0 \in P
  <2>1. f[0] = << >>
    BY <1>1, Zenon DEF FlattenCourse
  <2>2. 0 \in 0..n
    OBVIOUS
  <2> QED  BY <1>2, <2>1, <2>2, EmptySet, Zenon
<1>5. ASSUME NEW i \in 1..n, i - 1 \in P PROVE i \in P
  <2>1. f[i] = f[i - 1] \o s[i]
    BY <1>1, Zenon DEF FlattenCourse
  <2>2. i \in 0..n /\ i - 1 \in 0..n
    OBVIOUS
  <2>3. f[i - 1] \in Seq(S) /\ ToSet(f[i - 1]) = joined(i - 1) /\ s[i] \in Seq(S)
    BY <1>5, <2>2, Zenon
  <2>4. ToSet(f[i]) = ToSet(f[i - 1]) \cup ToSet(s[i])
    BY <2>1, <2>3, ConcatSet
  <2> QED  BY <1>3, <2>2, <2>3, <2>4, Zenon
<1> HIDE DEF P
<1>6. 0..n \subseteq P
  BY <1>4, <1>5, Climb
<1>7. n \in 0..n
  OBVIOUS
<1>8. ToSet(f[n]) = joined(n) /\ f[n] \in Seq(S)
  BY <1>6, <1>7, Zenon DEF P
<1> QED  BY <1>1, <1>8, Zenon DEF joined

-----------------------------------------------------------------------------
(* Catalogs. *)

LEMMA NamesFacts ==
    ASSUME NEW entries, NamesAreUnambiguous(entries), NEW e \in ToSet(entries), NEW n \in Keys(e)
    PROVE  n \in DOMAIN NamesOf(entries) /\ NamesOf(entries)[n] = e.name
<1> DEFINE f == CHOOSE x \in ToSet(entries) : n \in Keys(x)
<1>1. f \in ToSet(entries) /\ n \in Keys(f)
  OBVIOUS
<1>2. f = e
  BY <1>1 DEF NamesAreUnambiguous, ToSet
<1>3. n \in UNION {Keys(x) : x \in ToSet(entries)}
  OBVIOUS
<1> QED  BY <1>2, <1>3 DEF NamesOf

LEMMA NamesDomain ==
    ASSUME NEW entries
    PROVE  \A n \in DOMAIN NamesOf(entries) : \E e \in ToSet(entries) : n \in Keys(e)
BY DEF NamesOf

\* What a name leads to leads to itself, in the names of models and of deployments.
LEMMA ResolveFacts ==
    ASSUME Starts, NEW p \in ProviderSet
    PROVE  /\ \A n \in DOMAIN Catalog[p] : ResolveIn(p, n) = Catalog[p][n]
           /\ \A n : ResolveIn(p, n) # None => ResolveIn(p, n) \in Canonicals(p) /\ n \in Names
           /\ \A c \in Canonicals(p) : c \in DOMAIN Catalog[p] /\ Catalog[p][c] = c /\ c \in Names
<1> DEFINE entries == Entries(p, Manifest[p])
<1>1. p \in DOMAIN Manifest /\ Loads(p, Manifest[p])
  BY PolicyAssumption DEF Starts
<1>2. NamesAreUnambiguous(entries) /\ (p \in Deployers => DeploymentsAreUnambiguous(entries))
  BY <1>1 DEF Loads
<1>3. Catalog[p] = NamesOf(entries)
  BY <1>1 DEF Catalog
<1> HIDE DEF entries
<1>4. \A c \in Canonicals(p) : \E e \in ToSet(entries) : c = e.name
  <2> SUFFICES ASSUME NEW n \in DOMAIN NamesOf(entries)
               PROVE  \E e \in ToSet(entries) : NamesOf(entries)[n] = e.name
    BY <1>3 DEF Canonicals
  <2> QED  BY NamesDomain, NamesFacts, <1>2
<1>5. \A c \in Canonicals(p) : c \in DOMAIN Catalog[p] /\ Catalog[p][c] = c
  <2> SUFFICES ASSUME NEW e \in ToSet(entries)
               PROVE  e.name \in DOMAIN Catalog[p] /\ Catalog[p][e.name] = e.name
    BY <1>4
  <2> QED  BY <1>2, <1>3, NamesFacts DEF Keys
<1>6. \A c \in Canonicals(p) : c \in Names
  BY <1>5, PolicyAssumption
<1>7. \A d \in DOMAIN Deployed[p] :
         /\ Deployed[p][d] \in Canonicals(p)
         /\ d \in DOMAIN Catalog[p] => Deployed[p][d] = Catalog[p][d]
  <2> SUFFICES ASSUME NEW d \in DOMAIN Deployed[p]
               PROVE  /\ Deployed[p][d] \in Canonicals(p)
                      /\ d \in DOMAIN Catalog[p] => Deployed[p][d] = Catalog[p][d]
    OBVIOUS
  <2>1. p \in Deployers /\ d \in {e.deployment : e \in ToSet(entries)}
    BY <1>1 DEF Deployed, entries
  <2> DEFINE f == CHOOSE e \in ToSet(entries) : e.deployment = d
  <2>2. f \in ToSet(entries) /\ f.deployment = d
    BY <2>1
  <2>3. Deployed[p][d] = f.name
    BY <1>1, <2>1 DEF Deployed, entries
  <2>4. f.name \in DOMAIN Catalog[p] /\ Catalog[p][f.name] = f.name
    BY <1>2, <1>3, <2>2, NamesFacts DEF Keys
  <2>5. d \in DOMAIN NamesOf(entries) => NamesOf(entries)[d] = f.name
    BY <1>2, <2>1, <2>2 DEF DeploymentsAreUnambiguous, ToSet
  <2> QED  BY <1>3, <2>3, <2>4, <2>5 DEF Canonicals
<1>8. \A n \in DOMAIN Catalog[p] : ResolveIn(p, n) = Catalog[p][n]
  BY <1>7 DEF ResolveIn
<1>9. \A n : ResolveIn(p, n) # None => ResolveIn(p, n) \in Canonicals(p) /\ n \in Names
  BY <1>7, PolicyAssumption DEF ResolveIn, Canonicals
<1> QED  BY <1>5, <1>6, <1>8, <1>9

LEMMA CanonicalFacts ==
    ASSUME Starts, NEW p \in ProviderSet, NEW n
    PROVE  /\ CanonicalAt(p, CanonicalAt(p, n)) = CanonicalAt(p, n)
           /\ n \in Names => CanonicalAt(p, n) \in Names
           /\ \A c \in Canonicals(p) : ResolveIn(p, c) = c /\ c # None
BY ResolveFacts, PolicyAssumption DEF CanonicalAt

-----------------------------------------------------------------------------
(* What the service learns. *)

\* An allowlist and what was learned from it.
Taught(allow, known) ==
    /\ allow \in [ProviderSet -> SUBSET Names]
    /\ known \in [ProviderSet -> SUBSET Names]
    /\ \A p \in ProviderSet :
          /\ allow[p] \subseteq known[p]
          /\ \A c \in known[p] \ allow[p] : \E m \in allow[p] : ResolveIn(p, m) = c

LEMMA LearnKeeps ==
    ASSUME Starts, NEW allow, NEW known, Taught(allow, known),
           NEW queries, \A q \in queries : q[2] # None
    PROVE  Taught(allow, Learn(known, queries))
<1> DEFINE next == Learn(known, queries)
<1>1. DOMAIN known = ProviderSet
  BY DEF Taught
<1>2. ASSUME NEW p \in ProviderSet
      PROVE  /\ next[p] \in SUBSET Names /\ allow[p] \subseteq next[p]
             /\ \A c \in next[p] \ allow[p] : \E m \in allow[p] : ResolveIn(p, m) = c
  <2>1. next[p] = known[p] \cup {c \in {ResolveIn(p, entry) : entry \in known[p]} : <<p, c>> \in queries}
    BY <1>1 DEF Learn
  <2>2. allow[p] \subseteq known[p] /\ known[p] \in SUBSET Names
    BY DEF Taught
  <2>3. ASSUME NEW c \in next[p], c \notin known[p]
        PROVE  c \in Names /\ \E m \in allow[p] : ResolveIn(p, m) = c
    <3>1. PICK entry \in known[p] : ResolveIn(p, entry) = c
      BY <2>1, <2>3
    <3>2. <<p, c>> \in queries
      BY <2>1, <2>3
    <3>3. c # None
      BY <3>2
    <3>4. c \in Canonicals(p) /\ c \in Names
      BY <3>1, <3>3, ResolveFacts
    <3>5. CASE entry \in allow[p]
      BY <3>1, <3>4, <3>5
    <3>6. CASE entry \notin allow[p]
      <4>1. PICK m \in allow[p] : ResolveIn(p, m) = entry
        BY <3>6 DEF Taught
      <4>2. entry # None
        BY <2>2, PolicyAssumption
      <4>3. ResolveIn(p, entry) = entry
        BY <4>1, <4>2, ResolveFacts, CanonicalFacts
      <4> QED  BY <2>3, <3>1, <4>3
    <3> QED  BY <3>5, <3>6
  <2> QED
    BY <2>1, <2>2, <2>3 DEF Taught
<1>3. DOMAIN next = ProviderSet /\ next = [p \in ProviderSet |-> next[p]]
  BY <1>1 DEF Learn
<1> HIDE DEF next
<1>4. next \in [ProviderSet -> SUBSET Names]
  BY <1>2, <1>3
<1>5. Taught(allow, next)
  BY <1>2, <1>4 DEF Taught
<1> QED  BY <1>5 DEF next

\* The service allows what the configuration allows.
LEMMA AllowlistIsStable ==
    ASSUME Starts, NEW allow, NEW known, Taught(allow, known), NEW p \in ProviderSet
    PROVE  /\ known[p] = {} <=> allow[p] = {}
           /\ \A canonical, original :
                 IsAllowlisted(known, p, canonical, original) <=> IsAllowlisted(allow, p, canonical, original)
<1>1. allow[p] \subseteq known[p] /\ allow[p] \in SUBSET Names
  BY DEF Taught
<1>2. \A c \in known[p] \ allow[p] : \E m \in allow[p] : ResolveIn(p, m) = c
  BY DEF Taught
<1>3. \A c \in known[p] : c # None
  BY PolicyAssumption DEF Taught
<1>4. \A c \in known[p] \ allow[p] : ResolveIn(p, c) = c
  BY <1>2, <1>3, ResolveFacts, CanonicalFacts
<1>5. known[p] = {} <=> allow[p] = {}
  BY <1>1, <1>2
<1>6. ASSUME NEW canonical, NEW original, IsAllowlisted(known, p, canonical, original)
      PROVE  IsAllowlisted(allow, p, canonical, original)
  <2>1. CASE known[p] = {}
    BY <1>5, <2>1 DEF IsAllowlisted
  <2>2. CASE {canonical, original} \cap known[p] # {}
    BY <1>2, <2>2 DEF IsAllowlisted
  <2>3. CASE \E entry \in known[p] : ResolveIn(p, entry) \in {canonical, original}
    BY <1>2, <1>4, <2>3 DEF IsAllowlisted
  <2> QED  BY <1>6, <2>1, <2>2, <2>3 DEF IsAllowlisted
<1>7. ASSUME NEW canonical, NEW original, IsAllowlisted(allow, p, canonical, original)
      PROVE  IsAllowlisted(known, p, canonical, original)
  BY <1>1, <1>5, <1>7 DEF IsAllowlisted
<1> QED  BY <1>5, <1>6, <1>7

LEMMA PolicyStable ==
    ASSUME Starts, NEW pol, NEW known, Taught(pol.allow, known), NEW p \in ProviderSet
    PROVE  /\ HasRestrictions(pol, known, p) <=> HasRestrictions(pol, pol.allow, p)
           /\ \A c, n : IsAllowed(pol, known, p, c, n) <=> IsAllowed(pol, pol.allow, p, c, n)
           /\ \A n : Validates(pol, known, p, n) <=> Validates(pol, pol.allow, p, n)
<1>1. HasRestrictions(pol, known, p) <=> HasRestrictions(pol, pol.allow, p)
  BY AllowlistIsStable DEF HasRestrictions
<1>2. \A c, n : IsAllowed(pol, known, p, c, n) <=> IsAllowed(pol, pol.allow, p, c, n)
  BY AllowlistIsStable DEF IsAllowed
<1>3. \A n : Validates(pol, known, p, n) <=> Validates(pol, pol.allow, p, n)
  BY <1>2 DEF Validates, EnsureModelAllowed
<1> QED  BY <1>1, <1>2, <1>3

LEMMA IdentityFacts ==
    ASSUME Starts, NEW n \in Names \cup {None}
    PROVE  /\ CatalogIdentity(n) = IdentityAt(FirstOf({p \in ProviderSet : ResolveIn(p, n) # None}), n)
           /\ CatalogIdentity(n) = NoIdentity
                \/ /\ CatalogIdentity(n).provider \in ProviderSet
                   /\ ResolveIn(CatalogIdentity(n).provider, n) # None
                   /\ CatalogIdentity(n).model = ResolveIn(CatalogIdentity(n).provider, n)
                   /\ n \in Names
                   /\ CatalogIdentity(n) = [provider |-> CatalogIdentity(n).provider,
                                            model |-> CatalogIdentity(n).model]
           /\ (\E p \in ProviderSet : ResolveIn(p, n) # None) => CatalogIdentity(n) # NoIdentity
<1> DEFINE S == {p \in ProviderSet : ResolveIn(p, n) # None}
<1>1. CatalogIdentity(n) = IdentityAt(FirstOf(S), n)
  BY DEF CatalogIdentity, CatalogIdentities
<1>2. /\ FirstOf(S) = None \/ FirstOf(S) \in S
      /\ (\E p \in ProviderSet : p \in S) => FirstOf(S) # None
  BY FirstIsOne
<1>3. CASE FirstOf(S) = None
  BY <1>1, <1>2, <1>3 DEF IdentityAt
<1>4. CASE FirstOf(S) \in S
  <2>1. FirstOf(S) # None /\ FirstOf(S) \in ProviderSet
    BY <1>4, PolicyAssumption
  <2>2. CatalogIdentity(n) = [provider |-> FirstOf(S), model |-> CanonicalAt(FirstOf(S), n)]
    BY <1>1, <2>1 DEF IdentityAt
  <2>3. CanonicalAt(FirstOf(S), n) = ResolveIn(FirstOf(S), n)
    BY <1>4 DEF CanonicalAt
  <2>4. CatalogIdentity(n) # NoIdentity
    BY <2>1, <2>2 DEF NoIdentity
  <2>5. n \in Names
    BY <1>4, <2>1, ResolveFacts
  <2>6. /\ CatalogIdentity(n).provider = FirstOf(S) /\ CatalogIdentity(n).model = CanonicalAt(FirstOf(S), n)
        /\ CatalogIdentity(n) = [provider |-> CatalogIdentity(n).provider,
                                 model |-> CatalogIdentity(n).model]
    BY <2>2
  <2>7. ResolveIn(FirstOf(S), n) # None
    BY <1>4
  <2> QED  BY <1>1, <2>1, <2>3, <2>4, <2>5, <2>6, <2>7
<1> QED  BY <1>2, <1>3, <1>4

LEMMA RoutedStable ==
    ASSUME Starts, NEW pol, NEW known, Taught(pol.allow, known)
    PROVE  /\ \A n \in Names : IfServed(pol, known, CatalogIdentity(n)) = IfServed(pol, pol.allow, CatalogIdentity(n))
           /\ \A n \in Names : Identity(pol, known, n) = Identity(pol, pol.allow, n)
           /\ \A n \in Names : Routed(pol, known, n) = Routed(pol, pol.allow, n)
<1>1. ASSUME NEW id, id = NoIdentity \/ id.provider \in ProviderSet
      PROVE  IfServed(pol, known, id) = IfServed(pol, pol.allow, id)
  <2>1. CASE id = NoIdentity
    BY <2>1 DEF IfServed
  <2>2. CASE id.provider \in ProviderSet
    <3>1. Validates(pol, known, id.provider, id.model) <=> Validates(pol, pol.allow, id.provider, id.model)
      BY <2>2, PolicyStable
    <3> QED  BY <3>1 DEF IfServed
  <2> QED  BY <1>1, <2>1, <2>2
<1>2. ASSUME NEW n \in Names
      PROVE  {p \in ProviderSet : Validates(pol, known, p, n)} = {p \in ProviderSet : Validates(pol, pol.allow, p, n)}
  BY PolicyStable
<1>3. ASSUME NEW n \in Names
      PROVE  Identity(pol, known, n) = Identity(pol, pol.allow, n)
  BY <1>2 DEF Identity
<1>4. ASSUME NEW n \in Names
      PROVE  /\ CatalogIdentity(n) = NoIdentity \/ CatalogIdentity(n).provider \in ProviderSet
             /\ Identity(pol, known, n) = NoIdentity \/ Identity(pol, known, n).provider \in ProviderSet
  <2>1. CatalogIdentity(n) = NoIdentity \/ CatalogIdentity(n).provider \in ProviderSet
    BY IdentityFacts
  <2> DEFINE S == {p \in ProviderSet : Validates(pol, known, p, n)}
  <2>2. FirstOf(S) = None \/ FirstOf(S) \in ProviderSet
    BY FirstIsOne
  <2>3. IdentityAt(FirstOf(S), n) = NoIdentity \/ IdentityAt(FirstOf(S), n).provider \in ProviderSet
    BY <2>2 DEF IdentityAt
  <2> QED  BY <2>1, <2>3 DEF Identity
<1> QED  BY <1>1, <1>3, <1>4 DEF Routed

-----------------------------------------------------------------------------
(* A listing asks about every model: what is known then is closed under resolution. *)

LEMMA LearnedFacts ==
    ASSUME Starts, NEW allow, NEW known, Taught(allow, known)
    PROVE  /\ Learned(known) = Learned(allow)
           /\ Taught(allow, Learned(known))
           /\ \A p \in ProviderSet : \A e \in Learned(known)[p] :
                 ResolveIn(p, e) # None => ResolveIn(p, e) \in Learned(known)[p]
<1>1. \A p \in ProviderSet : \A c : <<p, c>> \in AllQueries <=> c \in Canonicals(p)
  BY DEF AllQueries
<1>2. \A q \in AllQueries : q[2] # None
  BY CanonicalFacts DEF AllQueries
<1>3. Taught(allow, allow)
  BY DEF Taught
<1>4. ASSUME NEW some, Taught(allow, some), NEW p \in ProviderSet
      PROVE  Learned(some)[p] = some[p] \cup {c \in {ResolveIn(p, e) : e \in some[p]} : c \in Canonicals(p)}
  <2>1. DOMAIN some = ProviderSet
    BY <1>4 DEF Taught
  <2> QED  BY <1>1, <2>1 DEF Learned, Learn
<1>5. ASSUME NEW p \in ProviderSet
      PROVE  Learned(known)[p] = Learned(allow)[p]
  <2>1. allow[p] \subseteq known[p] /\ allow[p] \in SUBSET Names /\ known[p] \in SUBSET Names
    BY DEF Taught
  <2>2. ASSUME NEW c \in known[p], c \notin allow[p]
        PROVE  ResolveIn(p, c) = c /\ c \in Canonicals(p) /\ \E m \in allow[p] : ResolveIn(p, m) = c
    <3>1. PICK m \in allow[p] : ResolveIn(p, m) = c
      BY <2>2 DEF Taught
    <3>2. c # None
      BY <2>1, PolicyAssumption
    <3> QED  BY <3>1, <3>2, ResolveFacts, CanonicalFacts
  <2>3. Learned(known)[p] = known[p] \cup {c \in {ResolveIn(p, e) : e \in known[p]} : c \in Canonicals(p)}
    BY <1>4
  <2>4. Learned(allow)[p] = allow[p] \cup {c \in {ResolveIn(p, e) : e \in allow[p]} : c \in Canonicals(p)}
    BY <1>3, <1>4
  <2>5. \A c \in Learned(known)[p] : c \in Learned(allow)[p]
    BY <2>2, <2>3, <2>4
  <2>6. \A c \in Learned(allow)[p] : c \in Learned(known)[p]
    BY <2>1, <2>3, <2>4
  <2> QED  BY <2>5, <2>6
<1>6. /\ Learned(known) = [p \in ProviderSet |-> Learned(known)[p]]
      /\ Learned(allow) = [p \in ProviderSet |-> Learned(allow)[p]]
  BY DEF Taught, Learned, Learn
<1>7. Learned(known) = Learned(allow)
  BY <1>5, <1>6
<1>8. Taught(allow, Learned(known))
  BY <1>2, LearnKeeps DEF Learned
<1>9. ASSUME NEW p \in ProviderSet, NEW e \in Learned(known)[p], ResolveIn(p, e) # None
      PROVE  ResolveIn(p, e) \in Learned(known)[p]
  <2>1. Learned(known)[p] = known[p] \cup {c \in {ResolveIn(p, n) : n \in known[p]} : c \in Canonicals(p)}
    BY <1>4
  <2>2. ResolveIn(p, e) \in Canonicals(p)
    BY <1>9, ResolveFacts
  <2>3. CASE e \in known[p]
    BY <2>1, <2>2, <2>3
  <2>4. CASE e \in Canonicals(p)
    BY <1>9, <2>4, CanonicalFacts
  <2> QED  BY <1>9, <2>1, <2>3, <2>4
<1> QED  BY <1>7, <1>8, <1>9

LEMMA PreferenceStable ==
    ASSUME Starts, NEW pol, NEW known, Taught(pol.allow, known), pol.preferred \in Seq(Names)
    PROVE  Preference(pol, known) = Preference(pol, pol.allow)
<1>1. \A i \in DOMAIN pol.preferred : pol.preferred[i] \in Names
  OBVIOUS
<1>2. {i \in DOMAIN pol.preferred :
          IsReached(pol, IfServed(pol, known, CatalogIdentity(pol.preferred[i])))}
      = {i \in DOMAIN pol.preferred :
          IsReached(pol, IfServed(pol, pol.allow, CatalogIdentity(pol.preferred[i])))}
  BY <1>1, RoutedStable
<1> QED  BY <1>2 DEF Preference

\* What was learned decides nothing.
LEMMA AdviceStable ==
    ASSUME Starts, NEW pol, NEW known, Taught(pol.allow, known), pol.preferred \in Seq(Names)
    PROVE  /\ Available(pol, known) = Available(pol, pol.allow)
           /\ \A category : Fallbacks(pol, known, category) = Fallbacks(pol, pol.allow, category)
           /\ Summarised(pol, Learned(known)) = Summarised(pol, Learned(pol.allow))
           /\ Routes(pol, known) = Routes(pol, pol.allow)
<1>1. Learned(known) = Learned(pol.allow)
  BY LearnedFacts
<1>2. Preference(pol, known) = Preference(pol, pol.allow)
  BY PreferenceStable
<1>3. Available(pol, known) = Available(pol, pol.allow)
  BY <1>1 DEF Available
<1>4. \A category : Fallbacks(pol, known, category) = Fallbacks(pol, pol.allow, category)
  BY <1>1, <1>2 DEF Fallbacks
<1>5. Summarised(pol, Learned(known)) = Summarised(pol, Learned(pol.allow))
  BY <1>1
<1>6. Routes(pol, known) = Routes(pol, pol.allow)
  BY RoutedStable DEF Routes
<1> QED  BY <1>3, <1>4, <1>5, <1>6

-----------------------------------------------------------------------------
(* Where a name leads. *)

LEMMA ServedFacts ==
    ASSUME Starts, NEW pol, NEW known, Taught(pol.allow, known), NEW n \in Names,
           NEW id, id = Routed(pol, known, n), id # NoIdentity
    PROVE  /\ id.provider \in ProviderSet
           /\ id.model = CanonicalAt(id.provider, n)
           /\ id = [provider |-> id.provider, model |-> id.model]
           /\ id.model \in Names
           /\ Validates(pol, known, id.provider, id.model)
           /\ Supports(id.provider, n)
           /\ CatalogIdentity(n) # NoIdentity => ResolveIn(id.provider, n) # None
<1>1. id = Identity(pol, known, n) /\ Validates(pol, known, id.provider, id.model)
  BY DEF Routed, IfServed
<1>2. CASE CatalogIdentity(n) # NoIdentity \/ n \in Tagged
  <2>1. id = CatalogIdentity(n)
    BY <1>1, <1>2 DEF Identity
  <2> DEFINE S == {p \in ProviderSet : ResolveIn(p, n) # None}
  <2>2. id = IdentityAt(FirstOf(S), n)
    BY <2>1, IdentityFacts
  <2>3. FirstOf(S) # None
    BY <2>2 DEF IdentityAt
  <2>4. FirstOf(S) \in S
    BY <2>3, FirstIsOne
  <2>5. id = [provider |-> FirstOf(S), model |-> CanonicalAt(FirstOf(S), n)]
    BY <2>2, <2>3 DEF IdentityAt
  <2> QED  BY <1>1, <2>4, <2>5, CanonicalFacts DEF Supports
<1>3. CASE ~(CatalogIdentity(n) # NoIdentity \/ n \in Tagged)
  <2> DEFINE S == {p \in ProviderSet : Validates(pol, known, p, n)}
  <2>2. id = IdentityAt(FirstOf(S), n)
    BY <1>1, <1>3 DEF Identity
  <2>3. FirstOf(S) # None
    BY <2>2 DEF IdentityAt
  <2>4. FirstOf(S) \in S
    BY <2>3, FirstIsOne
  <2>5. id = [provider |-> FirstOf(S), model |-> CanonicalAt(FirstOf(S), n)]
    BY <2>2, <2>3 DEF IdentityAt
  <2>6. Supports(FirstOf(S), n)
    BY <2>4 DEF Validates
  <2> QED  BY <1>1, <1>3, <2>4, <2>5, <2>6, CanonicalFacts
<1> QED  BY <1>2, <1>3

\* A name that is served leads to a permitted model.
LEMMA ServedIsPermitted ==
    ASSUME Starts, Taught(policy.allow, st), NEW n \in Names, Routed(policy, st, n) # NoIdentity
    PROVE  Permitted(Routed(policy, st, n).provider, Routed(policy, st, n).model)
<1> DEFINE id == Routed(policy, st, n)
           p == id.provider
           m == id.model
<1>1. /\ p \in ProviderSet /\ m = CanonicalAt(p, n) /\ m \in Names
      /\ Validates(policy, st, p, m)
  BY ServedFacts
<1> HIDE DEF p, m, id
<1>2. CanonicalAt(p, m) = m /\ m # None
  BY <1>1, CanonicalFacts, PolicyAssumption
<1>3. IsAllowed(policy, policy.allow, p, m, m)
  BY <1>1, <1>2, PolicyStable DEF Validates, EnsureModelAllowed
<1>4. policy.allow[p] = {} \/ \E e \in policy.allow[p] : CanonicalAt(p, e) = m
  <2>1. CASE policy.allow[p] = {}
    BY <2>1
  <2>2. CASE {m} \cap policy.allow[p] # {}
    BY <1>2, <2>2
  <2>3. CASE \E e \in policy.allow[p] : ResolveIn(p, e) = m
    BY <1>2, <2>3 DEF CanonicalAt
  <2> QED  BY <1>3, <2>1, <2>2, <2>3 DEF IsAllowed, IsAllowlisted
<1>5. ~\E d \in policy.disabled : d[1] \in {None, p} /\ CanonicalAt(p, d[2]) = m
  <2>1. \A x : CanonicalAt(p, x) = IF ResolveIn(p, x) = None THEN x ELSE ResolveIn(p, x)
    BY DEF CanonicalAt
  <2>2. ~IsDisabled(policy, p, m)
    BY <1>3 DEF IsAllowed
  <2> QED  BY <1>2, <2>1, <2>2 DEF IsDisabled
<1>6. Permitted(p, m)
  BY <1>4, <1>5 DEF Permitted
<1> QED  BY <1>6 DEF p, m, id

-----------------------------------------------------------------------------
(* What is advertised. *)

\* What the listing shows are names.
LEMMA AvailableFacts ==
    ASSUME Starts, NEW pol, NEW known, Taught(pol.allow, known),
           NEW n \in AvailableAfter(pol, known)
    PROVE  /\ n \in Names
           /\ Routed(pol, known, n) # NoIdentity
           /\ IsDiscoverable(pol, Routed(pol, known, n).provider, Routed(pol, known, n).model)
           /\ \E p \in ProviderSet : n \in Displayed(pol, known, p)
<1>1. /\ n \in UNION {Displayed(pol, known, p) : p \in ProviderSet}
      /\ IsReached(pol, Routed(pol, known, n))
  BY DEF AvailableAfter
<1>2. PICK p \in ProviderSet : n \in Displayed(pol, known, p)
  BY <1>1
<1>3. n \in known[p] \/ n \in DOMAIN Catalog[p]
  BY <1>2 DEF Displayed, Listed
<1>4. n \in Names
  BY <1>3, PolicyAssumption DEF Taught
<1> QED  BY <1>1, <1>2, <1>4 DEF IsReached

\* A listed name that is served where it is listed is advertised.
LEMMA ListedIsAvailable ==
    ASSUME Starts, NEW pol, NEW known, Taught(pol.allow, known),
           \A q \in ProviderSet : \A e \in known[q] : ResolveIn(q, e) # None => ResolveIn(q, e) \in known[q],
           NEW p \in ProviderSet, NEW n \in Listed(pol, known, p),
           IsAllowed(pol, known, p, n, n), Routed(pol, known, n).provider = p
    PROVE  n \in AvailableAfter(pol, known)
<1>1. /\ n \in DOMAIN Catalog[p] /\ n \in Names
      /\ IsAllowed(pol, known, p, Catalog[p][n], Catalog[p][n])
      /\ IsDiscoverable(pol, p, Catalog[p][n])
  BY PolicyAssumption DEF Listed
<1> DEFINE c == Catalog[p][n]
           id == Routed(pol, known, n)
<1>2. ResolveIn(p, n) = c /\ c \in Canonicals(p) /\ c # None /\ CanonicalAt(p, n) = c
  BY <1>1, ResolveFacts, CanonicalFacts DEF CanonicalAt, Canonicals
<1>3. id # NoIdentity
  BY PolicyAssumption DEF NoIdentity
<1>4. id.provider = p /\ id.model = c /\ Validates(pol, known, p, c)
  BY <1>1, <1>2, <1>3, ServedFacts
<1>5. IsReached(pol, id)
  BY <1>1, <1>3, <1>4 DEF IsReached
<1>6. CASE \E e \in known[p] : Validates(pol, known, p, e)
  <2>1. n \in known[p]
    <3>1. CASE n \in known[p]
      BY <3>1
    <3>2. CASE \E e \in known[p] : ResolveIn(p, e) = n
      BY <1>1, <3>2, PolicyAssumption
    <3> QED  BY <1>6, <3>1, <3>2 DEF IsAllowed, IsAllowlisted
  <2>2. IsAllowed(pol, known, p, c, n)
    BY <1>1, <2>1 DEF IsAllowed, IsAllowlisted
  <2>3. \/ pol.allow[p] = {}
        \/ {c, n} \cap pol.allow[p] # {}
        \/ \E e \in pol.allow[p] : ResolveIn(p, e) = c
    <3>1. CASE n \in pol.allow[p]
      BY <3>1
    <3>2. CASE n \notin pol.allow[p]
      <4>1. PICK m \in pol.allow[p] : ResolveIn(p, m) = n
        BY <2>1, <3>2 DEF Taught
      <4>2. n \in Canonicals(p)
        BY <1>1, <4>1, ResolveFacts, PolicyAssumption
      <4>3. c = n
        BY <1>2, <4>2, CanonicalFacts
      <4> QED  BY <4>1, <4>3
    <3> QED  BY <3>1, <3>2
  <2>4. Validates(pol, known, p, n)
    BY <1>2, <2>2, <2>3 DEF Validates, Supports, EnsureModelAllowed
  <2>5. n \in Displayed(pol, known, p)
    BY <1>6, <2>1, <2>4 DEF Displayed
  <2> QED  BY <1>5, <2>5 DEF AvailableAfter
<1>7. CASE ~\E e \in known[p] : Validates(pol, known, p, e)
  BY <1>5, <1>7 DEF Displayed, AvailableAfter
<1> QED  BY <1>6, <1>7

\* A model of a catalog that a call by its name reaches is advertised by it.
LEMMA ReachedIsAvailable ==
    ASSUME Starts, NEW pol, NEW known, Taught(pol.allow, known),
           \A q \in ProviderSet : \A e \in known[q] : ResolveIn(q, e) # None => ResolveIn(q, e) \in known[q],
           NEW p \in ProviderSet, NEW m \in Canonicals(p),
           Routed(pol, known, m) = [provider |-> p, model |-> m], IsDiscoverable(pol, p, m)
    PROVE  m \in AvailableAfter(pol, known)
<1>1. m \in Names /\ m \in DOMAIN Catalog[p] /\ Catalog[p][m] = m
  BY ResolveFacts
<1>2. Routed(pol, known, m) # NoIdentity /\ CanonicalAt(p, m) = m
  BY <1>1, PolicyAssumption, CanonicalFacts DEF NoIdentity, CanonicalAt
<1>3. Validates(pol, known, p, m)
  BY <1>1, <1>2, ServedFacts
<1>4. IsAllowed(pol, known, p, m, m)
  BY <1>2, <1>3 DEF Validates, EnsureModelAllowed
<1>5. m \in Listed(pol, known, p)
  BY <1>1, <1>4 DEF Listed
<1> QED  BY <1>4, <1>5, ListedIsAvailable

-----------------------------------------------------------------------------
(* What auto mode chooses. *)

LEMMA ChoiceIsEligible ==
    ASSUME NEW eligible, NEW category
    PROVE  \A n \in FirstChoice(eligible, category) : \E p \in ProviderSet : n \in eligible[p]
<1> DEFINE having == {p \in ProviderSet : eligible[p] # {}}
           chooser == FirstOf(having \cap ({Gemini} \cup DOMAIN Ranking))
<1>1. \A tiers, some : FirstTier(tiers, some) \subseteq some
  BY DEF FirstTier
<1>2. CASE chooser # None
  <2>1. chooser \in ProviderSet
    BY <1>2, FirstIsOne
  <2>2. FirstChoice(eligible, category) = Preferred(chooser, category, eligible[chooser])
    BY <1>2 DEF FirstChoice
  <2>3. Preferred(chooser, category, eligible[chooser]) \subseteq eligible[chooser]
    BY <1>1 DEF Preferred
  <2> QED  BY <2>1, <2>2, <2>3
<1>3. CASE chooser = None /\ having # {}
  <2>1. FirstOf(having) \in ProviderSet
    BY <1>3, FirstIsOne
  <2>2. FirstChoice(eligible, category) = eligible[FirstOf(having)]
    BY <1>3 DEF FirstChoice
  <2> QED  BY <2>1, <2>2
<1>4. CASE chooser = None /\ having = {}
  BY <1>4 DEF FirstChoice
<1> QED  BY <1>2, <1>3, <1>4

LEMMA FallbacksAreAvailable ==
    ASSUME Starts, NEW pol, NEW known, Taught(pol.allow, known), pol.preferred \in Seq(Names),
           NEW category
    PROVE  Fallbacks(pol, known, category) \subseteq Available(pol, known) \cup ToSet(pol.preferred)
<1> DEFINE L == Learned(known)
<1>1. /\ Taught(pol.allow, L)
      /\ \A q \in ProviderSet : \A e \in L[q] : ResolveIn(q, e) # None => ResolveIn(q, e) \in L[q]
  BY LearnedFacts
<1>2. Available(pol, known) = AvailableAfter(pol, L)
  BY DEF Available
<1> HIDE DEF L
<1>3. CASE Preference(pol, known) # None
  <2> DEFINE usable == {i \in DOMAIN pol.preferred :
                 IsReached(pol, IfServed(pol, known, CatalogIdentity(pol.preferred[i])))}
  <2>1. usable # {} /\ Preference(pol, known) = pol.preferred[Min(usable)]
    BY <1>3 DEF Preference
  <2>2. usable \in SUBSET Nat
    OBVIOUS
  <2>3. Min(usable) \in usable
    BY <2>1, <2>2, LeastPlace
  <2> DEFINE i == Min(usable)
             a == pol.preferred[i]
             id == CatalogIdentity(a)
  <2>4. i \in DOMAIN pol.preferred /\ IsReached(pol, IfServed(pol, known, id))
    BY <2>3
  <2> HIDE DEF usable, i
  <2>5. a \in Names /\ a \in ToSet(pol.preferred)
    BY <2>4 DEF ToSet
  <2>6. id # NoIdentity /\ Validates(pol, known, id.provider, id.model)
        /\ IsDiscoverable(pol, id.provider, id.model)
    BY <2>4 DEF IsReached, IfServed
  <2>7. Fallbacks(pol, known, category) = {PreferredName(a)}
    BY <1>3, <2>1 DEF Fallbacks, FallbacksAmong, i
  <2>8. CASE CatalogIdentity(id.model) # id
    BY <2>5, <2>7, <2>8 DEF PreferredName
  <2>9. CASE CatalogIdentity(id.model) = id
    <3> DEFINE p == id.provider
               m == id.model
    <3>1. p \in ProviderSet /\ ResolveIn(p, a) # None /\ m = ResolveIn(p, a)
      BY <2>5, <2>6, IdentityFacts
    <3>2. m \in Canonicals(p) /\ m \in Names
      BY <3>1, ResolveFacts
    <3>3. id = [provider |-> p, model |-> m]
      BY <2>5, <2>6, IdentityFacts
    <3>4. Identity(pol, L, m) = id
      BY <2>6, <2>9 DEF Identity
    <3>5. Validates(pol, L, p, m)
      BY <1>1, <2>6, <3>1, PolicyStable
    <3>6. Routed(pol, L, m) = id
      BY <2>6, <3>4, <3>5 DEF Routed, IfServed
    <3> HIDE DEF p, m
    <3>7. m \in AvailableAfter(pol, L)
      BY <1>1, <2>6, <3>1, <3>2, <3>3, <3>6, ReachedIsAvailable DEF p, m
    <3>8. PreferredName(a) = m
      BY <2>9 DEF PreferredName, m
    <3> QED  BY <1>2, <2>7, <3>7, <3>8
  <2> QED  BY <2>8, <2>9
<1>4. CASE Preference(pol, known) = None
  <2> DEFINE eligible == EligibleAfter(pol, L)
  <2>1. Fallbacks(pol, known, category) = FirstChoice(eligible, category)
    BY <1>4 DEF Fallbacks, FallbacksAmong, L
  <2>2. ASSUME NEW p \in ProviderSet, NEW n \in eligible[p]
        PROVE  n \in AvailableAfter(pol, L)
    <3>1. n \in Listed(pol, L, p) /\ IsAllowed(pol, L, p, n, n) /\ Routed(pol, L, n).provider = p
      BY DEF EligibleAfter
    <3> QED  BY <1>1, <3>1, ListedIsAvailable
  <2> HIDE DEF eligible
  <2> QED  BY <1>2, <2>1, <2>2, ChoiceIsEligible
<1> QED  BY <1>3, <1>4

-----------------------------------------------------------------------------
(* What clients are told. *)

LEMMA ListingIsServed ==
    ASSUME Starts, Taught(policy.allow, st), NEW L, L = Learned(st)
    PROVE  ListsWhatIsServed(Listing(policy, L), Available(policy, st), Routes(policy, L))
<1> DEFINE available == AvailableAfter(policy, L)
           served == Routes(policy, L)
           listing == Listing(policy, L)
           mine == ServedBy(available, served)
<1>1. /\ Taught(policy.allow, L)
      /\ \A q \in ProviderSet : \A e \in L[q] : ResolveIn(q, e) # None => ResolveIn(q, e) \in L[q]
  BY LearnedFacts
<1>2. Available(policy, st) = available
  BY DEF Available
<1>3. \A n \in Names : served[n] = Routed(policy, L, n)
  BY DEF Routes
<1>4. \A n \in available : n \in Names
  BY <1>1, AvailableFacts
<1>5. \A p \in ProviderSet : mine[p] = {n \in available : Routed(policy, L, n).provider = p}
  BY <1>3, <1>4 DEF ServedBy
<1>6. \A p \in ProviderSet :
          /\ p \in Restricted(policy, L) => listing[p] = mine[p]
          /\ p \in AcceptsAny \ Restricted(policy, L) => listing[p] = mine[p] \cap Listed(policy, L, p)
          /\ p \notin AcceptsAny \cup Restricted(policy, L) =>
                 listing[p] = {n \in mine[p] : CanonicalAt(p, n) \in mine[p]}
  BY DEF Listing, ListingFrom, AllListed
<1> HIDE DEF available, served, listing, mine
<1>7. ASSUME NEW p \in ProviderSet, NEW n \in listing[p]
      PROVE  served[n].provider = p /\ Permitted(p, served[n].model)
  <2>1. n \in mine[p]
    BY <1>6
  <2>2. n \in available /\ n \in Names /\ Routed(policy, L, n).provider = p
    BY <1>4, <1>5, <2>1
  <2>3. Routed(policy, L, n) # NoIdentity
    BY <1>1, <2>2, AvailableFacts DEF available
  <2>4. Routed(policy, L, n) = Routed(policy, st, n)
    BY <1>1, <2>2, RoutedStable
  <2> QED  BY <1>3, <2>2, <2>3, <2>4, ServedIsPermitted
<1>8. ASSUME NEW n \in available, \A p \in ProviderSet : n \notin listing[p]
      PROVE  served[n].model # n /\ served[served[n].model] # served[n]
  <2> DEFINE id == Routed(policy, L, n)
             p == id.provider
             m == id.model
  <2>1. /\ n \in Names /\ id # NoIdentity /\ IsDiscoverable(policy, p, m)
        /\ \E q \in ProviderSet : n \in Displayed(policy, L, q)
    BY <1>1, AvailableFacts DEF available
  <2>2. /\ p \in ProviderSet /\ m = CanonicalAt(p, n) /\ m \in Names
        /\ id = [provider |-> p, model |-> m]
        /\ Validates(policy, L, p, m) /\ Supports(p, n)
        /\ CatalogIdentity(n) # NoIdentity => ResolveIn(p, n) # None
    BY <1>1, <2>1, ServedFacts
  <2> HIDE DEF id, p, m
  <2>3. n \in mine[p]
    BY <1>5, <2>2 DEF p, id
  <2>4. p \notin Restricted(policy, L)
    BY <1>6, <1>8, <2>2, <2>3
  <2>5. L[p] = {}
    BY <2>2, <2>4 DEF Restricted, HasRestrictions
  <2>6. IsAllowed(policy, L, p, m, m)
    BY <1>1, <2>2, CanonicalFacts DEF Validates, EnsureModelAllowed
  <2>7. CASE p \in AcceptsAny
    <3>1. ResolveIn(p, n) # None
      <4>1. PICK q \in ProviderSet : n \in Displayed(policy, L, q)
        BY <2>1
      <4>2. n \in DOMAIN Catalog[q] \/ (n \in L[q] /\ Validates(policy, L, q, n))
        BY <4>1 DEF Displayed, Listed
      <4>3. CASE ResolveIn(q, n) # None
        BY <2>1, <2>2, <4>3, IdentityFacts
      <4>4. CASE n \in DOMAIN Catalog[q]
        BY <4>3, <4>4, ResolveFacts, CanonicalFacts DEF Canonicals
      <4>5. CASE ResolveIn(q, n) = None /\ n \in L[q] /\ Validates(policy, L, q, n)
        BY <2>5, <2>7, <4>5, PolicyAssumption DEF Validates, Supports
      <4> QED  BY <4>2, <4>3, <4>4, <4>5
    <3>2. n \in DOMAIN Catalog[p]
      <4>1. p \in DOMAIN Manifest /\ p \notin Deployers
        BY <2>2, <2>7, PolicyAssumption
      <4>2. DOMAIN Deployed[p] = {}
        BY <4>1 DEF Deployed
      <4> QED  BY <3>1, <4>2 DEF ResolveIn
    <3>3. m = Catalog[p][n]
      BY <2>2, <3>1, <3>2, ResolveFacts DEF CanonicalAt
    <3>4. n \in Listed(policy, L, p)
      BY <2>1, <2>2, <2>4, <2>6, <3>2, <3>3 DEF Listed, Restricted, p, m
    <3> QED  BY <1>6, <1>8, <2>2, <2>3, <2>4, <2>7, <3>4
  <2>8. CASE p \notin AcceptsAny
    <3>1. m \notin mine[p]
      BY <1>6, <1>8, <2>2, <2>3, <2>4, <2>8
    <3>2. m # n
      BY <2>3, <3>1
    <3>3. m \in Canonicals(p)
      BY <2>2, <2>8, ResolveFacts DEF Supports, CanonicalAt
    <3>4. Routed(policy, L, m) # id
      <4>1. SUFFICES ASSUME Routed(policy, L, m) = [provider |-> p, model |-> m] PROVE FALSE
        BY <2>2
      <4>2. m \in available
        BY <1>1, <2>1, <2>2, <3>3, <4>1, ReachedIsAvailable DEF available, p, m
      <4>3. m \in mine[p]
        BY <1>5, <2>2, <4>1, <4>2
      <4> QED  BY <3>1, <4>3
    <3> QED  BY <1>3, <2>1, <2>2, <3>2, <3>4 DEF id, m
  <2> QED  BY <2>7, <2>8
<1>9. ListsWhatIsServed(listing, available, served)
  BY <1>7, <1>8 DEF ListsWhatIsServed
<1> QED  BY <1>2, <1>9 DEF listing, available, served

\* An allowlist that was asked about every model names each model that it allows.
LEMMA SummaryIsWhole ==
    ASSUME Starts, NEW pol, NEW L, Taught(pol.allow, L),
           \A q \in ProviderSet : \A e \in L[q] : ResolveIn(q, e) # None => ResolveIn(q, e) \in L[q]
    PROVE  Summarised(pol, L) = {Routed(pol, L, n).model : n \in AvailableAfter(pol, L)}
<1> DEFINE available == AvailableAfter(pol, L)
           routes == Routes(pol, L)
<1>1. \A n \in available : n \in Names /\ Routed(pol, L, n) # NoIdentity
  BY AvailableFacts
<1>2. \A n \in available : routes[n] = Routed(pol, L, n)
  BY <1>1 DEF Routes
<1>3. ASSUME NEW n \in available
      PROVE  L[routes[n].provider] = {} \/ {n, routes[n].model} \cap L[routes[n].provider] # {}
  <2> DEFINE id == Routed(pol, L, n)
             p == id.provider
             m == id.model
  <2>1. p \in ProviderSet /\ m = CanonicalAt(p, n) /\ m \in Names /\ Validates(pol, L, p, m)
    BY <1>1, ServedFacts
  <2> HIDE DEF id, p, m
  <2>2. CanonicalAt(p, m) = m /\ m # None
    BY <2>1, CanonicalFacts, PolicyAssumption
  <2>3. IsAllowlisted(L, p, m, m)
    BY <2>1, <2>2 DEF Validates, EnsureModelAllowed, IsAllowed
  <2>4. L[p] = {} \/ m \in L[p]
    BY <2>1, <2>2, <2>3 DEF IsAllowlisted
  <2> QED  BY <1>2, <2>4 DEF p, m, id
<1> HIDE DEF available, routes
<1>4. {m \in available : LET id == routes[m] IN
          L[id.provider] = {} \/ {m, id.model} \cap L[id.provider] # {}} = available
  BY <1>3
<1>5. Summarised(pol, L) = {routes[n].model : n \in available}
  BY <1>4 DEF Summarised, SummarisedOf, available, routes
<1> QED  BY <1>2, <1>5 DEF available

LEMMA AdviceSound ==
    ASSUME Starts, Taught(policy.allow, st), policy.preferred \in Seq(Names)
    PROVE  AdviceIsSound
<1> DEFINE L == Learned(st)
<1>1. /\ Taught(policy.allow, L)
      /\ \A q \in ProviderSet : \A e \in L[q] : ResolveIn(q, e) # None => ResolveIn(q, e) \in L[q]
  BY LearnedFacts
<1>2. ListsWhatIsServed(Listing(policy, L), Available(policy, st), Routes(policy, L))
  BY ListingIsServed
<1>3. Summarised(policy, L) = {Routed(policy, L, n).model : n \in Available(policy, st)}
  BY <1>1, SummaryIsWhole DEF Available
<1>4. \A category \in Categories :
         Fallbacks(policy, st, category) \subseteq Available(policy, st) \cup ToSet(policy.preferred)
  BY FallbacksAreAvailable
<1>5. ASSUME ~IsEffectiveAutoMode(policy, st)
      PROVE  Routed(policy, st, Parsed(policy, st, policy.default)) # NoIdentity
  <2>1. Routed(policy, st, policy.default) # NoIdentity
    BY <1>5 DEF IsEffectiveAutoMode
  <2>2. policy.default \notin Tagged \/ CatalogIdentity(policy.default) # NoIdentity
    BY <2>1 DEF Routed, IfServed, Identity
  <2> QED  BY <2>1, <2>2 DEF Parsed
<1> QED  BY <1>2, <1>3, <1>4, <1>5 DEF AdviceIsSound

-----------------------------------------------------------------------------
(* Provider calls. *)

LEMMA HintedFacts ==
    ASSUME NEW hint
    PROVE  Hinted(hint) \in SUBSET Nat /\ Hinted(hint) # {}
<1>1. CASE hint = "fixed"
  BY <1>1 DEF Hinted
<1>2. CASE hint = "discrete"
  <2>1. Hinted(hint) = {0, 3, 7, 10, 15, 20}
    BY <1>2 DEF Hinted
  <2> QED  BY <2>1
<1>3. CASE hint # "fixed" /\ hint # "discrete"
  <2>1. Hinted(hint) = 0..20
    BY <1>3 DEF Hinted
  <2> QED  BY <2>1
<1> QED  BY <1>1, <1>2, <1>3

\* The nearest accepted temperature exists.
LEMMA CorrectedIsAccepted ==
    ASSUME NEW accepted \in SUBSET Nat, accepted # {}, NEW t \in Nat
    PROVE  Corrected(accepted, t) \in accepted
<1> DEFINE distance(x) == IF x > t THEN x - t ELSE t - x
           D == {distance(x) : x \in accepted}
           Best(x) == \A y \in accepted : distance(x) < distance(y) \/ (distance(x) = distance(y) /\ x <= y)
<1>1. \A x \in accepted : distance(x) \in Nat
  OBVIOUS
<1> HIDE DEF distance
<1>2. D \in SUBSET Nat /\ D # {}
  BY <1>1
<1>3. Min(D) \in D /\ \A d \in D : Min(D) <= d
  BY <1>2, LeastPlace
<1> DEFINE A == {x \in accepted : distance(x) = Min(D)}
<1>4. A \in SUBSET Nat /\ A # {}
  BY <1>3
<1>5. Min(A) \in A /\ \A x \in A : Min(A) <= x
  BY <1>4, LeastPlace
<1>6. Best(Min(A))
  <2> SUFFICES ASSUME NEW y \in accepted
               PROVE  distance(Min(A)) < distance(y) \/ (distance(Min(A)) = distance(y) /\ Min(A) <= y)
    OBVIOUS
  <2>1. distance(Min(A)) = Min(D) /\ distance(y) \in D /\ distance(y) \in Nat /\ Min(D) \in Nat
    BY <1>1, <1>2, <1>3, <1>5
  <2>2. Min(D) <= distance(y)
    BY <1>3, <2>1
  <2>3. CASE distance(y) = Min(D)
    <3>1. y \in A
      BY <2>3
    <3>2. Min(A) <= y
      BY <1>5, <3>1
    <3> QED  BY <2>1, <2>3, <3>2
  <2>4. CASE distance(y) # Min(D)
    BY <2>1, <2>2, <2>4
  <2> QED  BY <2>3, <2>4
<1>7. Min(A) \in accepted
  BY <1>5
<1>8. Corrected(accepted, t) = CHOOSE x \in accepted : Best(x)
  BY DEF Corrected, distance
<1> HIDE DEF Best, A
<1> QED  BY <1>6, <1>7, <1>8

\* What the catalogs say of a model.
LEMMA CapabilitiesFacts ==
    ASSUME Starts, NEW p \in ProviderSet, NEW canonical
    PROVE  LET c == CapabilitiesOf(p, canonical) IN
           /\ c.window \in Nat /\ c.ceiling \in Nat /\ c.budget \in Nat
           /\ c.temperatures \in SUBSET Nat /\ c.temperatures # {}
<1> DEFINE entries == Entries(p, Manifest[p])
<1>1. p \in DOMAIN Manifest /\ Loads(p, Manifest[p])
  BY PolicyAssumption DEF Starts
<1>2. CASE canonical \in DOMAIN Known[p]
  <2>1. canonical \in Canonicals(p)
    BY <1>1, <1>2 DEF Known, Canonicals
  <2>2. PICK n \in DOMAIN NamesOf(entries) : NamesOf(entries)[n] = canonical
    BY <1>1, <2>1 DEF Canonicals, Catalog
  <2>3. NamesAreUnambiguous(entries) /\ \A e \in ToSet(entries) : IsEntry(e)
    BY <1>1 DEF Loads
  <2>4. \E e \in ToSet(entries) : e.name = canonical
    BY <2>2, <2>3, NamesDomain, NamesFacts
  <2> DEFINE e == CHOOSE x \in ToSet(entries) : x.name = canonical
  <2>5. e \in ToSet(entries)
    BY <2>4
  <2>6. CapabilitiesOf(p, canonical) = Capabilities(p, e)
    BY <1>1, <1>2, <2>1 DEF CapabilitiesOf, Known, Canonicals
  <2>7. IsEntry(e)
    BY <2>3, <2>5
  <2> HIDE DEF e, entries
  <2>8. e.window \in Nat /\ e.ceiling \in Nat /\ e.budget \in Nat
    BY <2>7 DEF IsEntry
  <2> DEFINE c == Capabilities(p, e)
  <2>9. /\ c.window = e.window /\ c.ceiling = e.ceiling /\ c.budget = e.budget
        /\ c.temperatures = Hinted(e.hint)
    BY DEF Capabilities
  <2> HIDE DEF c
  <2> QED  BY <2>6, <2>8, <2>9, HintedFacts DEF c
<1>3. CASE canonical \notin DOMAIN Known[p]
  <2>1. CapabilitiesOf(p, canonical) = GenericCapabilities
    BY <1>3 DEF CapabilitiesOf
  <2>2. /\ GenericCapabilities.window = 32768 /\ GenericCapabilities.ceiling = 32768
        /\ GenericCapabilities.budget = 0 /\ GenericCapabilities.temperatures = 0..20
    BY DEF GenericCapabilities
  <2> QED  BY <2>1, <2>2
<1> QED  BY <1>2, <1>3

\* Every model of a provider with deployments has one, by which it is found.
LEMMA WireNameFacts ==
    ASSUME Starts, NEW p \in ProviderSet, NEW canonical, CanonicalAt(p, canonical) = canonical,
           Supports(p, canonical)
    PROVE  CanonicalAt(p, WireName(p, canonical)) = canonical
<1> DEFINE entries == Entries(p, Manifest[p])
<1>1. CASE p \notin Deployers
  BY <1>1 DEF WireName
<1>2. CASE p \in Deployers
  <2>1. p \in DOMAIN Manifest /\ Loads(p, Manifest[p])
    BY PolicyAssumption DEF Starts
  <2>2. ResolveIn(p, canonical) = canonical /\ canonical # None
    BY <1>2, PolicyAssumption DEF Supports, CanonicalAt
  <2>3. canonical \in Canonicals(p)
    BY <2>2, ResolveFacts
  <2>4. NamesAreUnambiguous(entries) /\ DeploymentsAreUnambiguous(entries)
    BY <1>2, <2>1 DEF Loads
  <2>5. PICK n \in DOMAIN NamesOf(entries) : NamesOf(entries)[n] = canonical
    BY <2>1, <2>3 DEF Canonicals, Catalog
  <2>6. PICK e \in ToSet(entries) : e.name = canonical
    BY <2>4, <2>5, NamesDomain, NamesFacts
  <2> DEFINE d == e.deployment
             f == CHOOSE x \in ToSet(entries) : x.deployment = d
  <2>7. f \in ToSet(entries) /\ f.deployment = d
    OBVIOUS
  <2>8. f = e
    BY <2>4, <2>7 DEF DeploymentsAreUnambiguous, ToSet
  <2>9. d \in DOMAIN Deployed[p] /\ Deployed[p][d] = f.name
    BY <1>2, <2>1 DEF Deployed
  <2>10. \E x \in DOMAIN Deployed[p] : Deployed[p][x] = canonical
    BY <2>6, <2>8, <2>9
  <2> DEFINE w == WireName(p, canonical)
  <2>11. w \in DOMAIN Deployed[p] /\ Deployed[p][w] = canonical
    BY <1>2, <2>10 DEF WireName
  <2> HIDE DEF w
  <2>12. ResolveIn(p, w) = canonical
    <3> DEFINE g == CHOOSE x \in ToSet(entries) : x.deployment = w
    <3>1. w \in {x.deployment : x \in ToSet(entries)}
      BY <1>2, <2>1, <2>11 DEF Deployed
    <3>2. g \in ToSet(entries) /\ g.deployment = w
      BY <3>1
    <3>3. Deployed[p][w] = g.name
      BY <1>2, <2>1, <3>1 DEF Deployed
    <3>4. w \in DOMAIN NamesOf(entries) => NamesOf(entries)[w] = g.name
      BY <2>4, <3>2 DEF DeploymentsAreUnambiguous, ToSet
    <3>5. Catalog[p] = NamesOf(entries)
      BY <2>1 DEF Catalog
    <3> QED  BY <2>11, <3>3, <3>4, <3>5 DEF ResolveIn
  <2> QED  BY <2>2, <2>12 DEF CanonicalAt, w
<1> QED  BY <1>1, <1>2

LEMMA LevelFacts ==
    /\ DOMAIN Levels = 1..4
    /\ \A l \in ToSet(Levels) : Rank(l) \in 1..4 /\ Levels[Rank(l)] = l
<1>1. DOMAIN Levels = 1..4
  BY DEF Levels
<1>2. ASSUME NEW l \in ToSet(Levels)
      PROVE  Rank(l) \in 1..4 /\ Levels[Rank(l)] = l
  <2>1. \E i \in DOMAIN Levels : Levels[i] = l
    BY DEF ToSet
  <2> HIDE DEF Levels
  <2> QED  BY <1>1, <2>1 DEF Rank
<1> QED  BY <1>1, <1>2

LEMMA ThinkingLevelFacts ==
    ASSUME NEW c, NEW mode, c.levels # {}, c.levels \subseteq ToSet(Levels)
    PROVE  ThinkingLevel(c, mode) \in c.levels
<1> DEFINE desired == Rank(IF mode = "max" THEN "high" ELSE mode)
           ranks == {Rank(l) : l \in c.levels}
           lower == {r \in ranks : r <= desired}
<1>1. ranks # {} /\ ranks \in SUBSET (1..4) /\ \A r \in ranks : Levels[r] \in c.levels
  BY LevelFacts
<1>2. ThinkingLevel(c, mode) = Levels[IF lower # {} THEN Max(lower) ELSE Min(ranks)]
  BY DEF ThinkingLevel
<1> HIDE DEF ranks, desired
<1>3. CASE lower # {}
  <2>1. Max(lower) \in lower
    BY <1>1, <1>3, LastPlace
  <2> QED  BY <1>1, <1>2, <1>3, <2>1
<1>4. CASE lower = {}
  <2>1. ranks \in SUBSET Nat
    BY <1>1
  <2>2. Min(ranks) \in ranks
    BY <1>1, <2>1, LeastPlace
  <2> QED  BY <1>1, <1>2, <1>4, <2>2
<1> QED  BY <1>3, <1>4

LEMMA ThinkingBudgetFacts ==
    ASSUME NEW c, c.budget \in Nat, NEW mode \in DOMAIN Permille
    PROVE  ThinkingBudget(c, mode) \in 0..c.budget
<1> DEFINE b == c.budget
<1>1. Permille[mode] \in 0..1000
  <2>1. mode \in {"minimal", "low", "medium", "high", "max"}
    BY DEF Permille
  <2>2. /\ Permille["minimal"] = 5 /\ Permille["low"] = 80 /\ Permille["medium"] = 330
        /\ Permille["high"] = 670 /\ Permille["max"] = 1000
    BY DEF Permille
  <2> HIDE DEF Permille
  <2> QED  BY <2>1, <2>2
<1>2. ASSUME NEW k \in 0..1000 PROVE (b * k) \div 1000 \in 0..b
  <2>1. b * k \in Nat /\ b * k <= b * 1000
    <3>1. b \in Nat /\ k \in Nat /\ 1000 - k \in Nat
      OBVIOUS
    <3>2. b * (1000 - k) \in Nat
      BY <3>1
    <3> HIDE DEF b
    <3>3. b * 1000 = b * k + b * (1000 - k)
      BY <3>1
    <3> QED  BY <3>1, <3>2, <3>3
  <2> DEFINE m == b * k
  <2> HIDE DEF m
  <2>2. m \in Nat /\ m <= b * 1000
    BY <2>1 DEF m
  <2>3. m \div 1000 \in 0..b
    BY <2>2
  <2> QED  BY <2>3 DEF m
<1>3. ThinkingBudget(c, mode) = (b * Permille[mode]) \div 1000
  BY DEF ThinkingBudget
<1> HIDE DEF b, Permille
<1>4. ASSUME NEW k, k = Permille[mode] PROVE (b * k) \div 1000 \in 0..b
  <2>1. k \in 0..1000
    BY <1>1, <1>4
  <2> QED  BY <1>2, <2>1
<1> QED  BY <1>3, <1>4 DEF b

\* What a provider sends of a request, or why it refuses.
LEMMA ProviderCallFacts ==
    ASSUME NEW p, NEW c, NEW ask,
           c.budget \in Nat, ask.thinking \in DOMAIN Permille,
           ask.temperature \in c.temperatures, ask.temperature \in Nat, c.temperatures \in SUBSET Nat,
           IsFiniteSet(ask.images), c.window \in Nat, Allocation(c).content \in Int,
           ask.limit = c.window - Allocation(c).content
    PROVE  LET sent == ProviderCall(Dialect[p], c, ask) IN
           /\ sent.outcome = "sent" =>
                /\ sent.temperature \subseteq c.temperatures
                /\ \A control \in sent.thinking :
                       \/ control[1] = "level" /\ control[2] \in c.levels
                       \/ control[1] = "budget" /\ control[2] \in 1..c.budget
                /\ sent.images # {} => c.vision
                /\ sent.images \in {ask.images, {}}
                /\ sent.limit = c.window - Allocation(c).content
           /\ sent.outcome # "sent" => ~IsCallable(Dialect[p], c)
<1> DEFINE d == Dialect[p]
           chat == ChatRequest(c, ask)
<1>1. SeenImages(c, ask) \in {ask.images, {}} /\ (SeenImages(c, ask) # {} => c.vision)
  BY DEF SeenImages
<1>2. ResponseLimit(c, ask.limit) = c.window - Allocation(c).content
  BY DEF ResponseLimit, Least
<1>3. EffectiveTemperature(c, ask.temperature) \subseteq c.temperatures
  BY CorrectedIsAccepted DEF EffectiveTemperature
<1>4. /\ chat.outcome = "sent" /\ chat.temperature = EffectiveTemperature(c, ask.temperature)
      /\ chat.thinking = {} /\ chat.images = SeenImages(c, ask)
      /\ chat.limit = ResponseLimit(c, ask.limit)
  BY DEF ChatRequest
<1>5. Refusal.outcome = "refused"
  BY DEF Refusal
<1>6. CASE d = "gemini"
  <2> DEFINE sent == GeminiRequest(c, ask)
             refused == \/ c.field \notin {None, "max_output_tokens"}
                        \/ ~ThinkingIsKnown(c, ask.thinking)
  <2>1. ProviderCall(d, c, ask) = sent
    BY <1>6 DEF ProviderCall
  <2>2. CASE refused
    <3>1. sent = Refusal
      BY <2>2 DEF GeminiRequest
    <3>2. ~IsCallable(d, c)
      BY <1>6, <2>2 DEF IsCallable, ThinkingIsKnown
    <3> QED  BY <1>5, <2>1, <3>1, <3>2
  <2>3. CASE ~refused
    <3>1. /\ sent.outcome = "sent" /\ sent.temperature = {ask.temperature}
          /\ sent.thinking = Thinking(c, ask.thinking) /\ sent.images = SeenImages(c, ask)
          /\ sent.limit = ResponseLimit(c, ask.limit)
      BY <2>3 DEF GeminiRequest
    <3>2. ThinkingIsKnown(c, ask.thinking)
      BY <2>3
    <3>3. ASSUME NEW control \in Thinking(c, ask.thinking)
          PROVE  \/ control[1] = "level" /\ control[2] \in c.levels
                 \/ control[1] = "budget" /\ control[2] \in 1..c.budget
      <4>1. c.thinks
        BY <3>3 DEF Thinking
      <4>2. CASE c.control = "thinking_level"
        <5>1. c.levels # {} /\ c.levels \subseteq ToSet(Levels)
          BY <3>2, <4>1, <4>2 DEF ThinkingIsKnown
        <5>2. control = <<"level", ThinkingLevel(c, ask.thinking)>>
          BY <3>3, <4>1, <4>2 DEF Thinking
        <5> QED  BY <5>1, <5>2, ThinkingLevelFacts
      <4>3. CASE c.control # "thinking_level"
        <5>1. ThinkingBudget(c, ask.thinking) > 0
          BY <3>2, <4>1, <4>3 DEF ThinkingIsKnown
        <5>2. ThinkingBudget(c, ask.thinking) \in 0..c.budget
          BY ThinkingBudgetFacts
        <5>3. ThinkingBudget(c, ask.thinking) \in 1..c.budget
          BY <5>1, <5>2
        <5>4. control = <<"budget", ThinkingBudget(c, ask.thinking)>>
          BY <3>3, <4>1, <4>3 DEF Thinking
        <5> QED  BY <5>3, <5>4
      <4> QED  BY <4>2, <4>3
    <3> HIDE DEF sent
    <3> QED  BY <1>1, <1>2, <2>1, <3>1, <3>3
  <2> QED  BY <2>2, <2>3
<1>7. CASE d = "dial"
  <2> DEFINE sent == DialRequest(c, ask)
  <2>1. ProviderCall(d, c, ask) = sent
    BY <1>7 DEF ProviderCall
  <2>2. CASE c.responses \/ OutputField(c) = None
    <3>1. sent = Refusal
      BY <2>2 DEF DialRequest
    <3>2. ~IsCallable(d, c)
      BY <1>7, <2>2 DEF IsCallable
    <3> QED  BY <1>5, <2>1, <3>1, <3>2
  <2>3. CASE ~(c.responses \/ OutputField(c) = None)
    <3>1. sent = [chat EXCEPT !.endpoint = "deployment",
                              !.temperature = IF c.samples THEN {ask.temperature} ELSE {}]
      BY <2>3 DEF DialRequest
    <3>2. {"outcome", "endpoint", "temperature", "thinking", "images", "limit"} \subseteq DOMAIN chat
      BY DEF ChatRequest
    <3> HIDE DEF chat, sent
    <3>3. /\ sent.outcome = "sent" /\ sent.temperature \subseteq {ask.temperature}
          /\ sent.thinking = {} /\ sent.images = SeenImages(c, ask)
          /\ sent.limit = ResponseLimit(c, ask.limit)
      BY <1>4, <3>1, <3>2
    <3> QED  BY <1>1, <1>2, <2>1, <3>3
  <2> QED  BY <2>2, <2>3
<1>8. CASE d # "gemini" /\ d # "dial"
  <2> DEFINE sent == CompatibleRequest(c, ask, d)
  <2>1. ProviderCall(d, c, ask) = sent
    BY <1>8 DEF ProviderCall
  <2>2. CASE OutputField(c) = None
    <3>1. sent = Refusal
      BY <2>2 DEF CompatibleRequest
    <3>2. ~IsCallable(d, c)
      BY <1>8, <2>2 DEF IsCallable
    <3> QED  BY <1>5, <2>1, <3>1, <3>2
  <2>3. CASE OutputField(c) # None
    <3>1. sent = chat
             \/ sent = [chat EXCEPT !.endpoint = "responses", !.temperature = {},
                                    !.stored = d \notin {"openrouter", "opencode"}]
      BY <2>3 DEF CompatibleRequest, ResponsesRequest
    <3>2. {"outcome", "endpoint", "temperature", "thinking", "images", "limit", "stored"} \subseteq DOMAIN chat
      BY DEF ChatRequest
    <3> HIDE DEF chat, sent
    <3>3. /\ sent.outcome = "sent" /\ sent.temperature \subseteq c.temperatures
          /\ sent.thinking = {} /\ sent.images = SeenImages(c, ask)
          /\ sent.limit = ResponseLimit(c, ask.limit)
      BY <1>3, <1>4, <3>1, <3>2
    <3> QED  BY <1>1, <1>2, <2>1, <3>3
  <2> QED  BY <2>2, <2>3
<1> QED  BY <1>6, <1>7, <1>8

-----------------------------------------------------------------------------
(* From paths to files. *)

LEMMA PathFacts ==
    /\ \A p \in Paths : CanonicalPath[p] \in Paths /\ Resolved[p] \in Paths
    /\ \A p \in Paths : Kind[p] # "missing" => CanonicalPath[p] \in DOMAIN Tree /\ p \in DOMAIN Tree
    /\ \A p \in Paths : FileTokens[p] \in Nat
    /\ \A p \in Paths : CanonicalPath[p] \in DOMAIN Tree => Tree[CanonicalPath[p]].tokens \in Nat
<1>1. ASSUME NEW p \in Paths PROVE CanonicalPath[p] \in Paths
  BY FileAssumption DEF CanonicalPath
<1>2. ASSUME NEW p \in Paths, Kind[p] # "missing" PROVE CanonicalPath[p] \in DOMAIN Tree
  BY <1>2 DEF Kind
<1>3. ASSUME NEW p \in Paths, CanonicalPath[p] \in DOMAIN Tree PROVE p \in DOMAIN Tree
  BY <1>3 DEF CanonicalPath
<1>4. ASSUME NEW p \in Paths, CanonicalPath[p] \in DOMAIN Tree PROVE Tree[CanonicalPath[p]].tokens \in Nat
  BY <1>4, FileAssumption
<1>5. ASSUME NEW p \in Paths PROVE FileTokens[p] \in Nat
  <2>1. CASE p \in Readable
    <3>1. Kind[p] = "file"
      BY <2>1 DEF Readable
    <3>2. Tree[CanonicalPath[p]].tokens \in Nat
      BY <1>2, <1>4, <3>1
    <3>3. FileTokens[p] = Tree[CanonicalPath[p]].tokens + MarkTokens
      BY <2>1 DEF FileTokens
    <3> QED  BY <3>2, <3>3, FileAssumption
  <2>2. CASE p \notin Readable
    BY <2>2, FileAssumption DEF FileTokens
  <2> QED  BY <2>1, <2>2
<1>6. \A p \in Paths : Resolved[p] \in Paths
  BY <1>1 DEF Resolved
<1> QED  BY <1>1, <1>2, <1>3, <1>4, <1>5, <1>6

LEMMA OrderedFacts ==
    ASSUME NEW S
    PROVE  Ordered(S) \in Seq(Paths) /\ ToSet(Ordered(S)) = Paths \cap S
BY FileAssumption, AmongFacts DEF Ordered, Paths

LEMMA ExpansionFacts ==
    ASSUME NEW p \in Paths
    PROVE  Expansion[p] \in Seq(Paths)
<1>1. ExpandPath(p) \in Seq(Paths)
  <2> DEFINE c == CanonicalPath[p]
  <2>1. ExpandPath(p) \in {<< >>, <<c>>, Ordered(Walk[c])}
    BY DEF ExpandPath
  <2>2. c \in Paths
    BY PathFacts
  <2>3. <<c>> \in Seq(Paths) /\ << >> \in Seq(Paths)
    BY <2>2
  <2>4. Ordered(Walk[c]) \in Seq(Paths)
    BY OrderedFacts
  <2> QED  BY <2>1, <2>3, <2>4
<1>2. Expansion[p] \in {ExpandPath(p), <<p>>}
  BY DEF Expansion
<1>3. <<p>> \in Seq(Paths)
  OBVIOUS
<1> QED  BY <1>1, <1>2, <1>3

\* The paths a list of paths stands for.
LEMMA ExpandedFacts ==
    ASSUME NEW paths \in Seq(Paths)
    PROVE  /\ Expanded(paths) \in Seq(Paths)
           /\ ToSet(Expanded(paths)) = UNION {ToSet(Expansion[p]) : p \in ToSet(paths)}
<1> DEFINE n == Len(paths)
           s == [i \in DOMAIN paths |-> Expansion[paths[i]]]
<1>1. n \in Nat /\ DOMAIN paths = 1..n /\ \A i \in 1..n : paths[i] \in Paths
  OBVIOUS
<1>2. /\ s = [i \in 1..n |-> s[i]] /\ \A i \in 1..n : s[i] = Expansion[paths[i]]
  BY <1>1
<1>3. Expanded(paths) = FlattenSeq(s)
  BY DEF Expanded
<1> HIDE DEF s, n
<1>4. \A i \in 1..n : s[i] \in Seq(Paths)
  BY <1>1, <1>2, ExpansionFacts
<1>5. FlattenSeq(s) \in Seq(Paths) /\ ToSet(FlattenSeq(s)) = UNION {ToSet(s[i]) : i \in 1..n}
  BY <1>1, <1>2, <1>4, FlattenFacts
<1>6. UNION {ToSet(s[i]) : i \in 1..n} = UNION {ToSet(Expansion[p]) : p \in ToSet(paths)}
  <2>1. {ToSet(s[i]) : i \in 1..n} = {ToSet(Expansion[p]) : p \in {paths[i] : i \in 1..n}}
    BY <1>2
  <2>2. ToSet(paths) = {paths[i] : i \in 1..n}
    BY <1>1 DEF ToSet
  <2> QED  BY <2>1, <2>2
<1> QED  BY <1>3, <1>5, <1>6

LEMMA InputsFacts ==
    ASSUME NEW paths \in Seq(Paths)
    PROVE  /\ ExpandFileInputs(paths) \in Seq(Paths)
           /\ ToSet(ExpandFileInputs(paths)) = {Resolved[p] : p \in ToSet(Expanded(paths))}
<1> DEFINE found == Expanded(paths)
           s == [i \in DOMAIN found |-> Resolved[found[i]]]
<1>1. found \in Seq(Paths)
  BY ExpandedFacts
<1>2. ExpandFileInputs(paths) = Distinct(s)
  BY DEF ExpandFileInputs
<1> HIDE DEF found
<1>3. s \in Seq(Paths)
  <2>1. DOMAIN found = 1..Len(found) /\ Len(found) \in Nat /\ \A i \in 1..Len(found) : found[i] \in Paths
    BY <1>1
  <2>2. \A i \in 1..Len(found) : Resolved[found[i]] \in Paths
    BY <2>1, PathFacts
  <2> HIDE DEF s
  <2>3. s = [i \in 1..Len(found) |-> Resolved[found[i]]]
    BY <2>1 DEF s
  <2> QED  BY <2>1, <2>2, <2>3
<1>4. ToSet(s) = {Resolved[p] : p \in ToSet(found)}
  BY DEF ToSet
<1> HIDE DEF s
<1>5. Distinct(s) \in Seq(Paths) /\ ToSet(Distinct(s)) = ToSet(s)
  BY <1>3, DistinctFacts
<1> QED  BY <1>2, <1>4, <1>5 DEF found

\* What is left of a request's files when prompt.txt is taken out.
LEMMA OtherFacts ==
    ASSUME NEW files \in Seq(Paths)
    PROVE  OtherFiles(files) \in Seq(Paths) /\ ToSet(OtherFiles(files)) \subseteq ToSet(files)
<1> DEFINE others == Among(files, Paths \ PromptNamed)
<1>1. others \in Seq(Paths) /\ ToSet(others) \subseteq ToSet(files)
  BY AmongFacts
<1>2. OtherFiles(files) \in {others, files}
  BY DEF OtherFiles
<1> HIDE DEF others
<1> QED  BY <1>1, <1>2

LEMMA AdmissionFacts ==
    ASSUME NEW files \in Seq(Paths), NEW input \in Nat
    PROVE  /\ AdmittedFiles(files) \in Seq(Paths)
           /\ ToSet(AdmittedFiles(files)) = ToSet(Expanded(OtherFiles(files)))
           /\ AdmittedInput(files, input) \in Nat
<1>1. /\ AdmittedFiles(files) \in Seq(Paths)
      /\ ToSet(AdmittedFiles(files)) = ToSet(Expanded(OtherFiles(files)))
  <2>1. Expanded(OtherFiles(files)) \in Seq(Paths)
    BY OtherFacts, ExpandedFacts
  <2> QED  BY <2>1, DistinctFacts DEF AdmittedFiles
<1>2. PromptText(files) \subseteq Nat
  <2> DEFINE prompts == Among(files, PromptNamed)
             last == Last(prompts)
  <2>1. prompts \in Seq(Paths)
    BY AmongFacts
  <2>2. CASE prompts = << >> \/ last \in Rejected \/ Kind[last] = "unreadable"
    BY <2>2 DEF PromptText
  <2>3. CASE ~(prompts = << >> \/ last \in Rejected \/ Kind[last] = "unreadable")
    <3>1. PromptText(files) = {IF last \in Readable THEN Tree[CanonicalPath[last]].tokens ELSE DiagnosticTokens}
      BY <2>3 DEF PromptText
    <3> HIDE DEF prompts
    <3>2. last \in Paths
      BY <2>1, <2>3 DEF Last
    <3> HIDE DEF last
    <3>3. last \in Readable => Tree[CanonicalPath[last]].tokens \in Nat
      <4>1. last \in Readable => Kind[last] # "missing"
        BY DEF Readable
      <4> QED  BY <3>2, <4>1, PathFacts
    <3> QED  BY <3>1, <3>3, FileAssumption
  <2> QED  BY <2>2, <2>3
<1>3. AdmittedInput(files, input) \in Nat
  <2>1. CASE PromptText(files) = {}
    BY <2>1 DEF AdmittedInput
  <2>2. CASE PromptText(files) # {}
    BY <1>2, <2>2 DEF AdmittedInput
  <2> QED  BY <2>1, <2>2
<1> QED  BY <1>1, <1>3

\* What is read is a canonical path.
LEMMA ReadableFacts ==
    ASSUME NEW p \in Paths, p \in Readable
    PROVE  LET c == CanonicalPath[p] IN
           /\ c \in Paths /\ c \in Readable /\ CanonicalPath[c] = c /\ Resolved[p] = c /\ Resolved[c] = c
           /\ p \in DOMAIN Tree /\ p \notin Directories /\ c \notin Directories
<1> DEFINE c == CanonicalPath[p]
<1>1. Kind[p] = "file" /\ p \notin Rejected
  BY DEF Readable
<1>2. c \in Paths /\ c \in DOMAIN Tree /\ p \in DOMAIN Tree
  BY <1>1, PathFacts
<1>3. c = Tree[p].to
  BY <1>2 DEF CanonicalPath
<1>4. Tree[c].to = c
  BY <1>2, <1>3, FileAssumption
<1>5. CanonicalPath[c] = c
  BY <1>2, <1>4 DEF CanonicalPath
<1>6. Kind[c] = Kind[p]
  BY <1>2, <1>5 DEF Kind
<1>7. c \notin Rejected
  BY <1>1, <1>2, <1>5 DEF Rejected
<1> HIDE DEF c
<1>8. c \in Readable
  BY <1>1, <1>2, <1>6, <1>7 DEF Readable
<1>9. Resolved[p] = CanonicalPath[p] /\ Resolved[c] = CanonicalPath[c]
  BY <1>1, <1>2, <1>7 DEF Resolved
<1>10. p \notin Directories /\ c \notin Directories
  BY <1>1, <1>6 DEF Directories
<1> QED  BY <1>2, <1>5, <1>8, <1>9, <1>10 DEF c

\* A file stands for itself.
LEMMA FileExpands ==
    ASSUME NEW p \in Paths, p \in Readable
    PROVE  \E q \in ToSet(Expansion[p]) : q \in {p, CanonicalPath[p]}
<1> DEFINE c == CanonicalPath[p]
<1>1. p \notin Rejected /\ Kind[p] # "missing" /\ p \notin Directories
  BY ReadableFacts DEF Readable
<1>2. ExpandPath(p) = IF c \in Own THEN << >> ELSE <<c>>
  BY <1>1 DEF ExpandPath
<1>3. Expansion[p] = IF ExpandPath(p) = << >> THEN <<p>> ELSE ExpandPath(p)
  BY DEF Expansion
<1>4. <<c>> # << >>
  OBVIOUS
<1>5. Expansion[p] = <<p>> \/ Expansion[p] = <<c>>
  BY <1>2, <1>3, <1>4
<1>6. ToSet(<<p>>) = {p} /\ ToSet(<<c>>) = {c}
  BY DEF ToSet
<1> HIDE DEF c
<1>7. ToSet(Expansion[p]) \in {{p}, {c}}
  BY <1>5, <1>6
<1> QED  BY <1>7 DEF c

-----------------------------------------------------------------------------
(* Directories. *)

\* A set-valued function of its own values at other places exists: the least one.
Solves(f, D, own, next) == f = [d \in D |-> own[d] \cup UNION {f[s] : s \in next[d]}]

Within(D, U, own, next) == \A d \in D : own[d] \subseteq U /\ next[d] \subseteq D

LEMMA LeastSolution ==
    ASSUME NEW D, NEW U, NEW own, NEW next, Within(D, U, own, next)
    PROVE  \E f : Solves(f, D, own, next)
<1>0. \A d \in D : own[d] \subseteq U /\ next[d] \subseteq D
  BY DEF Within
<1> DEFINE F(h) == [d \in D |-> own[d] \cup UNION {h[s] : s \in next[d]}]
           Pre == {h \in [D -> SUBSET U] : \A d \in D : F(h)[d] \subseteq h[d]}
           L == [d \in D |-> {x \in U : \A h \in Pre : x \in h[d]}]
<1>1. \A h : \A d \in D : F(h)[d] = own[d] \cup UNION {h[s] : s \in next[d]}
  OBVIOUS
<1>2. \A h \in [D -> SUBSET U] : F(h) \in [D -> SUBSET U]
  <2> SUFFICES ASSUME NEW h \in [D -> SUBSET U], NEW d \in D PROVE F(h)[d] \in SUBSET U
    OBVIOUS
  <2> QED  BY <1>0, <1>1
<1>3. L \in [D -> SUBSET U] /\ \A d \in D : L[d] = {x \in U : \A h \in Pre : x \in h[d]}
  OBVIOUS
<1> HIDE DEF F
<1>4. \A h \in Pre : h \in [D -> SUBSET U] /\ \A d \in D : F(h)[d] \subseteq h[d]
  OBVIOUS
<1>5. ASSUME NEW h, h \in [D -> SUBSET U], \A d \in D : F(h)[d] \subseteq h[d] PROVE h \in Pre
  BY <1>5
<1> HIDE DEF Pre, L
<1>6. ASSUME NEW d \in D, NEW x \in F(L)[d] PROVE x \in L[d]
  <2>1. x \in U
    BY <1>2, <1>3, <1>6
  <2>2. ASSUME NEW h \in Pre PROVE x \in h[d]
    <3>1. CASE x \in own[d]
      BY <1>1, <1>4, <3>1
    <3>2. CASE x \notin own[d]
      <4>1. PICK s \in next[d] : x \in L[s]
        BY <1>1, <1>6, <3>2
      <4>2. s \in D
        BY <1>0
      <4>3. x \in h[s]
        BY <1>3, <4>1, <4>2
      <4>4. x \in F(h)[d]
        BY <1>1, <4>3
      <4> QED  BY <1>4, <4>4
    <3> QED  BY <3>1, <3>2
  <2> QED  BY <1>3, <2>1, <2>2
<1>7. F(L) \in Pre
  <2>1. F(L) \in [D -> SUBSET U]
    BY <1>2, <1>3
  <2>2. ASSUME NEW d \in D PROVE F(F(L))[d] \subseteq F(L)[d]
    <3>1. F(F(L))[d] = own[d] \cup UNION {F(L)[s] : s \in next[d]}
      BY <1>1
    <3>2. F(L)[d] = own[d] \cup UNION {L[s] : s \in next[d]}
      BY <1>1
    <3>3. \A s \in next[d] : F(L)[s] \subseteq L[s]
      BY <1>0, <1>6
    <3> QED  BY <3>1, <3>2, <3>3
  <2> QED  BY <1>5, <2>1, <2>2
<1>8. ASSUME NEW d \in D PROVE L[d] = F(L)[d]
  <2>1. L[d] \subseteq F(L)[d]
    BY <1>3, <1>7
  <2> QED  BY <1>6, <2>1
<1>9. L = [d \in D |-> F(L)[d]]
  <2>1. L = [d \in D |-> L[d]]
    BY <1>3
  <2> QED  BY <1>8, <2>1, Zenon
<1>10. L = [d \in D |-> own[d] \cup UNION {L[s] : s \in next[d]}]
  BY <1>1, <1>9, Zenon
<1> QED  BY <1>10 DEF Solves

LEMMA WalkUnfolds ==
    \A d \in Directories :
        Walk[d] = {p \in Inside(d) \ Directories : Tree[p].code} \cup UNION {Walk[s] : s \in Descends(d)}
<1> DEFINE own == [d \in Directories |-> {p \in Inside(d) \ Directories : Tree[p].code}]
           next == [d \in Directories |-> Descends(d)]
           Is(f) == f = [d \in Directories |->
                       {p \in Inside(d) \ Directories : Tree[p].code} \cup UNION {f[s] : s \in Descends(d)}]
<1>1. \A d \in Directories : own[d] \subseteq DOMAIN Tree /\ next[d] \subseteq Directories
  BY DEF Inside, Descends
<1>2. PICK f : Solves(f, Directories, own, next)
  <2> HIDE DEF own, next
  <2>1. Within(Directories, DOMAIN Tree, own, next)
    BY <1>1 DEF Within
  <2> QED  BY <2>1, LeastSolution
<1>3. Is(f)
  BY <1>2, Zenon DEF Solves
<1>4. Walk = CHOOSE g : Is(g)
  BY DEF Walk
<1>5. Is(Walk)
  <2> HIDE DEF Is
  <2> QED  BY <1>3, <1>4
<1> QED  BY <1>5, Zenon

LEMMA AboveUnfolds ==
    \A p \in DOMAIN Tree :
        Above[p] = IF Tree[p].skipped \/ Tree[p].in = p THEN {} ELSE {Tree[p].in} \cup Above[Tree[p].in]
<1> DEFINE top(p) == Tree[p].skipped \/ Tree[p].in = p
           own == [p \in DOMAIN Tree |-> IF top(p) THEN {} ELSE {Tree[p].in}]
           next == [p \in DOMAIN Tree |-> IF top(p) THEN {} ELSE {Tree[p].in}]
           Is(f) == f = [p \in DOMAIN Tree |-> IF top(p) THEN {} ELSE {Tree[p].in} \cup f[Tree[p].in]]
<1>1. \A p \in DOMAIN Tree : own[p] \subseteq DOMAIN Tree /\ next[p] \subseteq DOMAIN Tree
  BY FileAssumption
<1>2. PICK f : Solves(f, DOMAIN Tree, own, next)
  <2> HIDE DEF own, next
  <2>1. Within(DOMAIN Tree, DOMAIN Tree, own, next)
    BY <1>1 DEF Within
  <2> QED  BY <2>1, LeastSolution
<1>3. \A p \in DOMAIN Tree :
         own[p] \cup UNION {f[s] : s \in next[p]} = IF top(p) THEN {} ELSE {Tree[p].in} \cup f[Tree[p].in]
  <2> SUFFICES ASSUME NEW p \in DOMAIN Tree
               PROVE  own[p] \cup UNION {f[s] : s \in next[p]}
                        = IF top(p) THEN {} ELSE {Tree[p].in} \cup f[Tree[p].in]
    OBVIOUS
  <2>1. own[p] = IF top(p) THEN {} ELSE {Tree[p].in}
    OBVIOUS
  <2>2. next[p] = IF top(p) THEN {} ELSE {Tree[p].in}
    OBVIOUS
  <2> HIDE DEF own, next, top
  <2>3. CASE top(p)
    BY <2>1, <2>2, <2>3
  <2>4. CASE ~top(p)
    BY <2>1, <2>2, <2>4
  <2> QED  BY <2>3, <2>4
<1> HIDE DEF own, next
<1>4. Is(f)
  BY <1>2, <1>3, Zenon DEF Solves
<1>5. Above = CHOOSE g : Is(g)
  BY DEF Above
<1>6. Is(Above)
  <2> HIDE DEF Is
  <2> QED  BY <1>4, <1>5
<1> QED  BY <1>6, Zenon

\* A walk comes to what lies below a directory, unless the server's own lies between.
LEMMA WalkComesDown ==
    ASSUME NEW x \in DOMAIN Tree, Above[x] \cap Own = {}, NEW d \in Above[x]
    PROVE  /\ d \in Directories /\ CanonicalPath[d] = d /\ d \notin Own
           /\ x \in Directories /\ CanonicalPath[x] = x /\ x \notin Own => Walk[x] \subseteq Walk[d]
           /\ x \notin Directories /\ Tree[x].code => x \in Walk[d]
<1> DEFINE Claim(y) ==
              Above[y] \cap Own = {} =>
              \A e \in Above[y] :
                 /\ e \in Directories /\ CanonicalPath[e] = e /\ e \notin Own
                 /\ y \in Directories /\ CanonicalPath[y] = y /\ y \notin Own => Walk[y] \subseteq Walk[e]
                 /\ y \notin Directories /\ Tree[y].code => y \in Walk[e]
           bad == {i \in DOMAIN PathOrder : PathOrder[i] \in DOMAIN Tree /\ ~Claim(PathOrder[i])}
<1>1. \A y \in DOMAIN Tree : \E i \in DOMAIN PathOrder : PathOrder[i] = y
  BY FileAssumption DEF Paths, ToSet
<1>2. DOMAIN PathOrder \subseteq Nat
  BY FileAssumption
<1>3. ASSUME NEW y \in DOMAIN Tree,
             Tree[y].in # y => Claim(Tree[y].in)
      PROVE  Claim(y)
  <2> DEFINE q == Tree[y].in
  <2> SUFFICES ASSUME Above[y] \cap Own = {}, NEW e \in Above[y]
               PROVE  /\ e \in Directories /\ CanonicalPath[e] = e /\ e \notin Own
                      /\ y \in Directories /\ CanonicalPath[y] = y /\ y \notin Own => Walk[y] \subseteq Walk[e]
                      /\ y \notin Directories /\ Tree[y].code => y \in Walk[e]
    OBVIOUS
  <2>1. ~Tree[y].skipped /\ q # y /\ Above[y] = {q} \cup Above[q]
    BY AboveUnfolds
  <2>2. q \in DOMAIN Tree /\ Tree[q].kind = "directory" /\ Tree[q].to = q /\ q \in Paths
    BY <2>1, FileAssumption
  <2>3. CanonicalPath[q] = q /\ q \in Directories /\ q \notin Own
    BY <2>1, <2>2 DEF CanonicalPath, Kind, Directories
  <2>4. y \in Inside(q)
    BY <2>1 DEF Inside
  <2>5. y \in Directories /\ CanonicalPath[y] = y /\ y \notin Own => Walk[y] \subseteq Walk[q]
    <3>1. ASSUME y \in Directories, CanonicalPath[y] = y, y \notin Own PROVE y \in Descends(q)
      BY <2>4, <3>1 DEF Descends
    <3> QED  BY <2>3, <3>1, WalkUnfolds
  <2>6. y \notin Directories /\ Tree[y].code => y \in Walk[q]
    BY <2>3, <2>4, WalkUnfolds
  <2>7. CASE e = q
    BY <2>3, <2>5, <2>6, <2>7
  <2>8. CASE e # q
    <3>1. e \in Above[q] /\ Above[q] \cap Own = {} /\ Claim(q)
      BY <1>3, <2>1, <2>8
    <3>2. e \in Directories /\ CanonicalPath[e] = e /\ e \notin Own /\ Walk[q] \subseteq Walk[e]
      BY <2>3, <3>1
    <3> QED  BY <2>5, <2>6, <3>2
  <2> QED  BY <2>7, <2>8
<1> HIDE DEF Claim
<1>4. bad = {}
  <2> SUFFICES ASSUME bad # {} PROVE FALSE
    OBVIOUS
  <2>1. PICK m \in bad : \A i \in bad : m <= i
    BY <1>2, LeastPlace
  <2> DEFINE y == PathOrder[m]
             q == Tree[y].in
  <2>2. y \in DOMAIN Tree /\ ~Claim(y) /\ m \in DOMAIN PathOrder
    OBVIOUS
  <2>3. q # y /\ ~Claim(q)
    BY <1>3, <2>2
  <2>4. q \in DOMAIN Tree
    BY <2>2, FileAssumption
  <2>5. PICK j \in DOMAIN PathOrder : PathOrder[j] = q
    BY <1>1, <2>4
  <2>6. j \in bad
    BY <2>3, <2>4, <2>5
  <2>7. j <= m
    BY <2>2, <2>5, FileAssumption
  <2>8. j = m
    BY <1>2, <2>1, <2>2, <2>6, <2>7
  <2> QED  BY <2>3, <2>5, <2>8
<1>5. Claim(x)
  BY <1>1, <1>4
<1> QED  BY <1>5 DEF Claim

-----------------------------------------------------------------------------
(* What is asked for. *)

\* What files mean is read, if all of what admission makes of them is.
LEMMA MeantIsAsked ==
    ASSUME NEW files \in Seq(Paths), NEW admitted \in Seq(Paths), ToSet(admitted) = ToSet(Expanded(files))
    PROVE  Meant(files) \subseteq ToSet(ExpandFileInputs(admitted)) \cap Readable
<1> SUFFICES ASSUME NEW f \in ToSet(files), NEW g \in MeantBy[f]
             PROVE  g \in ToSet(ExpandFileInputs(admitted)) \cap Readable
  BY DEF Meant
<1>1. f \in Paths
  BY ToSetFacts
<1>2. PICK p \in Readable :
         /\ g = CanonicalPath[p]
         /\ p = f \/ (Tree[p].code /\ Above[p] \cap Own = {} /\ f \notin Rejected /\ CanonicalPath[f] \in Above[p])
  BY <1>1 DEF MeantBy
<1>3. p \in Paths
  BY <1>2 DEF Readable
<1>4. /\ g \in Paths /\ g \in Readable /\ CanonicalPath[g] = g /\ Resolved[p] = g /\ Resolved[g] = g
      /\ p \in DOMAIN Tree /\ p \notin Directories
  BY <1>2, <1>3, ReadableFacts
<1>5. \E q \in ToSet(Expanded(files)) : q \in {p, g}
  <2>1. CASE p = f
    <3>1. PICK q \in ToSet(Expansion[p]) : q \in {p, g}
      BY <1>2, <1>3, FileExpands
    <3> QED  BY <2>1, <3>1, ExpandedFacts
  <2>2. CASE p # f
    <3> DEFINE d == CanonicalPath[f]
    <3>1. /\ Tree[p].code /\ Above[p] \cap Own = {} /\ f \notin Rejected /\ d \in Above[p]
      BY <1>2, <2>2
    <3>2. d \in Directories /\ CanonicalPath[d] = d /\ d \notin Own /\ p \in Walk[d]
      BY <1>4, <3>1, WalkComesDown
    <3>3. Kind[f] = Kind[d]
      <4>1. d \in Paths
        BY <3>2 DEF Directories
      <4> QED  BY <1>1, <3>2, <4>1 DEF Kind
    <3>4. f \in Directories /\ Kind[f] # "missing"
      BY <1>1, <3>2, <3>3 DEF Directories
    <3>5. ExpandPath(f) = Ordered(Walk[d])
      BY <3>1, <3>2, <3>4 DEF ExpandPath
    <3>6. p \in ToSet(Ordered(Walk[d]))
      BY <1>3, <3>2, OrderedFacts
    <3>7. Ordered(Walk[d]) # << >>
      BY <3>6, EmptySet
    <3>8. Expansion[f] = Ordered(Walk[d])
      BY <1>1, <3>5, <3>7 DEF Expansion
    <3>9. p \in ToSet(Expansion[f])
      BY <3>6, <3>8
    <3> QED  BY <3>9, ExpandedFacts
  <2> QED  BY <2>1, <2>2
<1>6. PICK q \in ToSet(admitted) : q \in {p, g}
  BY <1>5
<1>7. q \in Paths /\ q \in Readable /\ CanonicalPath[q] = g
  BY <1>2, <1>3, <1>4, <1>6
<1>8. PICK o \in ToSet(Expansion[q]) : o \in {q, g}
  BY <1>7, FileExpands
<1>9. o \in ToSet(Expanded(admitted))
  BY <1>6, <1>8, ExpandedFacts
<1>10. Resolved[o] = g
  BY <1>4, <1>6, <1>8
<1>11. g \in ToSet(ExpandFileInputs(admitted))
  BY <1>9, <1>10, InputsFacts
<1> QED  BY <1>4, <1>11

LEMMA ExpansionGrows ==
    ASSUME NEW some \in Seq(Paths), NEW all \in Seq(Paths), ToSet(some) \subseteq ToSet(all)
    PROVE  ToSet(ExpandFileInputs(some)) \subseteq ToSet(ExpandFileInputs(all))
<1>1. ToSet(Expanded(some)) \subseteq ToSet(Expanded(all))
  BY ExpandedFacts
<1> QED  BY <1>1, InputsFacts

\* What is read of a list is canonical.
LEMMA InputsAreCanonical ==
    ASSUME NEW paths \in Seq(Paths), NEW f \in ToSet(ExpandFileInputs(paths)) \cap Readable
    PROVE  CanonicalPath[f] = f
<1>1. ToSet(Expanded(paths)) \subseteq Paths
  BY ExpandedFacts, ToSetFacts
<1>2. PICK p \in Paths : f = Resolved[p]
  BY <1>1, InputsFacts
<1>3. f \in Paths /\ f \notin Rejected
  BY DEF Readable
<1>4. f = CanonicalPath[p]
  BY <1>2, <1>3 DEF Resolved
<1>5. f \in DOMAIN Tree
  BY <1>3, ReadableFacts
<1>6. p \in DOMAIN Tree /\ f = Tree[p].to
  BY <1>4, <1>5 DEF CanonicalPath
<1>7. Tree[f].to = f
  BY <1>5, <1>6, FileAssumption
<1> QED  BY <1>3, <1>5, <1>7 DEF CanonicalPath

-----------------------------------------------------------------------------
(* What the reader takes. *)

LEMMA SpentIsNat ==
    ASSUME NEW chosen \in Seq(Paths)
    PROVE  Spent(chosen) \in Nat
<1> DEFINE n == Len(chosen)
           s == [i \in DOMAIN chosen |-> FileTokens[chosen[i]]]
<1>1. n \in Nat /\ DOMAIN chosen = 1..n /\ \A i \in 1..n : chosen[i] \in Paths
  OBVIOUS
<1>2. n = Len(s) /\ \A i \in 1..n : s[i] \in Nat
  BY <1>1, PathFacts
<1>3. Spent(chosen) = Total(s) + Separator * Most(0, n - 1)
  BY DEF Spent
<1> HIDE DEF s, n
<1>4. Total(s) \in Nat
  BY <1>1, <1>2, TotalIsNat
<1>5. Separator * Most(0, n - 1) \in Nat
  BY <1>1 DEF Separator, Most
<1> QED  BY <1>3, <1>4, <1>5

LEMMA SpentGrows ==
    ASSUME NEW chosen \in Seq(Paths), NEW f \in Paths
    PROVE  Spent(Append(chosen, f)) = Spent(chosen) + Cost(chosen, f)
<1> DEFINE n == Len(chosen)
           more == Append(chosen, f)
           s == [i \in DOMAIN chosen |-> FileTokens[chosen[i]]]
           t == [i \in DOMAIN more |-> FileTokens[more[i]]]
<1>1. /\ n \in Nat /\ DOMAIN chosen = 1..n /\ \A i \in 1..n : chosen[i] \in Paths
      /\ DOMAIN more = 1..(n + 1) /\ Len(more) = n + 1 /\ more[n + 1] = f
      /\ \A i \in 1..n : more[i] = chosen[i]
      /\ (chosen = << >>) <=> (n = 0)
  OBVIOUS
<1>2. Spent(more) = Total(t) + Separator * Most(0, Len(more) - 1)
  BY DEF Spent
<1>3. Spent(chosen) = Total(s) + Separator * Most(0, n - 1)
  BY DEF Spent
<1> HIDE DEF more
<1>4. OneMore(t, s, n) /\ t[n + 1] = FileTokens[f]
  <2>1. n = Len(s) /\ n + 1 = Len(t)
    BY <1>1
  <2>2. \A i \in 1..n + 1 : i \in 1..n \/ i = n + 1
    BY <1>1
  <2>3. \A i \in 1..n : t[i] = s[i] /\ s[i] \in Nat
    BY <1>1, PathFacts
  <2>4. n + 1 \in 1..(n + 1)
    BY <1>1
  <2>5. t[n + 1] = FileTokens[f] /\ t[n + 1] \in Nat
    BY <1>1, <2>4, PathFacts
  <2> HIDE DEF s, t, n
  <2> QED  BY <2>1, <2>2, <2>3, <2>5 DEF OneMore
<1> HIDE DEF s, t, n
<1>5. Total(s) \in Nat /\ Total(t) = Total(s) + t[n + 1]
  BY <1>1, <1>4, TotalGrows
<1>6. FileTokens[f] \in Nat
  BY PathFacts
<1>7. Cost(chosen, f) = FileTokens[f] + (IF n = 0 THEN 0 ELSE 2)
  BY <1>1 DEF Cost, Separator
<1>8. /\ Spent(more) = Total(s) + FileTokens[f] + 2 * n
      /\ n # 0 => Spent(chosen) = Total(s) + 2 * (n - 1)
      /\ n = 0 => Spent(chosen) = Total(s)
  BY <1>1, <1>2, <1>3, <1>4, <1>5, <1>6 DEF Separator, Most
<1>9. Spent(more) = Spent(chosen) + Cost(chosen, f)
  BY <1>1, <1>5, <1>6, <1>7, <1>8
<1> QED  BY <1>9 DEF more

LEMMA NothingSpent == Spent(<< >>) = 0
<1> DEFINE s == [i \in DOMAIN << >> |-> FileTokens[<< >>[i]]]
<1>1. Spent(<< >>) = Total(s) + Separator * Most(0, 0 - 1)
  BY DEF Spent
<1>2. 0 = Len(s) /\ \A i \in 1..0 : s[i] \in Nat
  OBVIOUS
<1> HIDE DEF s
<1>3. 0 \in Nat
  OBVIOUS
<1>4. PICK f \in [0..0 -> Nat] : Total(s) = f[0] /\ TotalCourse(f, s, 0)
  BY <1>2, <1>3, TotalUnfolds, Zenon
<1>5. Total(s) = 0
  BY <1>4 DEF TotalCourse
<1> QED  BY <1>1, <1>5 DEF Separator, Most

\* The files taken fit; all are if all fit.
LEMMA TakenFacts ==
    ASSUME NEW files \in Seq(Paths), NEW limit \in Nat
    PROVE  /\ Taken(files, limit) \in Seq(ToSet(files)) /\ Taken(files, limit) \in Seq(Paths)
           /\ Spent(Taken(files, limit)) <= limit
           /\ Spent(files) <= limit => Taken(files, limit) = files
<1> DEFINE n == Len(files)
           S == ToSet(files)
<1>1. n \in Nat /\ n = Len(files) /\ \A i \in 1..n : files[i] \in S
  BY DEF ToSet
<1>2. S \subseteq Paths
  BY ToSetFacts
<1> DEFINE first(i) == SubSeq(files, 1, i)
<1>3. /\ first(0) = << >> /\ first(n) = files
      /\ \A i \in 0..n : first(i) \in Seq(Paths)
      /\ \A i \in 1..n : first(i) = Append(first(i - 1), files[i])
  OBVIOUS
<1> HIDE DEF n, S, first
<1>4. PICK f \in [0..n -> Seq(S)] : Taken(files, limit) = f[n] /\ TakenCourse(f, files, n, limit)
  BY <1>1, TakenUnfolds, Zenon
<1>5. \A i \in 0..n : f[i] \in Seq(S) /\ f[i] \in Seq(Paths)
  BY <1>2
<1>6. /\ f[0] = << >>
      /\ \A i \in 1..n : f[i] = IF Spent(f[i - 1]) + Cost(f[i - 1], files[i]) <= limit
                                THEN Append(f[i - 1], files[i]) ELSE f[i - 1]
  BY <1>4 DEF TakenCourse
<1>7. \A i \in 1..n : i - 1 \in 0..n /\ i \in 0..n /\ files[i] \in Paths
  BY <1>1, <1>2
<1>8. \A i \in 0..n : Spent(f[i]) <= limit
  <2> DEFINE P == {i \in 0..n : Spent(f[i]) <= limit}
  <2>1. 0 \in P
    BY <1>1, <1>6, NothingSpent
  <2>2. ASSUME NEW i \in 1..n, i - 1 \in P PROVE i \in P
    <3>1. CASE Spent(f[i - 1]) + Cost(f[i - 1], files[i]) <= limit
      <4>1. f[i] = Append(f[i - 1], files[i])
        BY <1>6, <3>1
      <4>2. Spent(f[i]) = Spent(f[i - 1]) + Cost(f[i - 1], files[i])
        BY <1>5, <1>7, <4>1, SpentGrows
      <4> QED  BY <1>7, <3>1, <4>2
    <3>2. CASE ~(Spent(f[i - 1]) + Cost(f[i - 1], files[i]) <= limit)
      <4>1. f[i] = f[i - 1]
        BY <1>6, <3>2
      <4> QED  BY <1>7, <2>2, <4>1
    <3> QED  BY <3>1, <3>2
  <2> HIDE DEF P
  <2>3. 0..n \subseteq P
    BY <1>1, <2>1, <2>2, Climb
  <2> QED  BY <2>3 DEF P
<1>9. \A i \in 0..n : Spent(first(i)) \in Nat
  BY <1>3, SpentIsNat
<1>10. \A i \in 1..n : Spent(first(i)) = Spent(first(i - 1)) + Cost(first(i - 1), files[i])
  BY <1>3, <1>7, SpentGrows
<1>11. \A i \in 1..n : Cost(first(i - 1), files[i]) \in Nat
  <2> SUFFICES ASSUME NEW i \in 1..n PROVE Cost(first(i - 1), files[i]) \in Nat
    OBVIOUS
  <2>1. FileTokens[files[i]] \in Nat
    BY <1>7, PathFacts
  <2> QED  BY <2>1 DEF Cost, Separator
<1>12. \A i \in 0..n : \A j \in 0..i : Spent(first(j)) <= Spent(first(i))
  <2> DEFINE P == {i \in 0..n : \A j \in 0..i : Spent(first(j)) <= Spent(first(i))}
  <2>1. 0 \in P
    BY <1>1, <1>9
  <2>2. ASSUME NEW i \in 1..n, i - 1 \in P PROVE i \in P
    <3>1. Spent(first(i - 1)) <= Spent(first(i))
      BY <1>7, <1>9, <1>10, <1>11
    <3>2. ASSUME NEW j \in 0..i PROVE Spent(first(j)) <= Spent(first(i))
      <4>1. j = i \/ j \in 0..(i - 1)
        BY <1>1
      <4>2. j \in 0..n /\ i - 1 \in 0..n /\ i \in 0..n
        BY <1>1
      <4>3. j \in 0..(i - 1) => Spent(first(j)) <= Spent(first(i - 1))
        BY <2>2
      <4> QED  BY <1>9, <3>1, <4>1, <4>2, <4>3
    <3> QED  BY <1>7, <3>2
  <2> HIDE DEF P
  <2>3. 0..n \subseteq P
    BY <1>1, <2>1, <2>2, Climb
  <2> QED  BY <2>3 DEF P
<1>13. ASSUME Spent(files) <= limit PROVE f[n] = files
  <2>1. \A i \in 0..n : Spent(first(i)) <= limit
    <3> SUFFICES ASSUME NEW i \in 0..n PROVE Spent(first(i)) <= limit
      OBVIOUS
    <3>1. n \in 0..n /\ i \in 0..n
      BY <1>1
    <3>2. Spent(first(i)) <= Spent(files)
      BY <1>3, <1>12, <3>1
    <3> QED  BY <1>3, <1>9, <1>13, <3>1, <3>2
  <2> DEFINE P == {i \in 0..n : f[i] = first(i)}
  <2>2. 0 \in P
    BY <1>1, <1>3, <1>6
  <2>3. ASSUME NEW i \in 1..n, i - 1 \in P PROVE i \in P
    <3>1. f[i - 1] = first(i - 1)
      BY <2>3
    <3>2. Spent(f[i - 1]) + Cost(f[i - 1], files[i]) <= limit
      BY <1>7, <1>10, <2>1, <3>1
    <3>3. f[i] = first(i)
      BY <1>3, <1>6, <3>1, <3>2
    <3> QED  BY <1>7, <3>3
  <2> HIDE DEF P
  <2>4. 0..n \subseteq P
    BY <1>1, <2>2, <2>3, Climb
  <2> QED  BY <1>1, <1>3, <2>4 DEF P
<1>14. n \in 0..n
  BY <1>1
<1> QED  BY <1>4, <1>5, <1>8, <1>13, <1>14 DEF S

\* What is kept of files fits, note included, and is everything unless the files are too large.
LEMMA KeptFacts ==
    ASSUME NEW files \in Seq(Paths), NEW limit \in Nat
    PROVE  LET report == ReadEach(files, limit) IN
           /\ report.tokens \in 0..limit
           /\ report.included \subseteq ToSet(files) \cap Readable
           /\ ToSet(files) \cap Readable \subseteq report.included \cup report.omitted
           /\ ~TooLarge(report, limit) => report.included = ToSet(files) \cap Readable
<1> DEFINE all == Taken(files, limit)
           fits == {k \in 0..Len(all) : k = 0 \/ Spent(SubSeq(all, 1, k)) + Separator + OmissionNote <= limit}
           kept == Kept(files, limit)
           S == ToSet(files)
           report == ReadEach(files, limit)
<1>1. /\ all \in Seq(S) /\ all \in Seq(Paths) /\ Spent(all) <= limit
      /\ Spent(files) <= limit => all = files
  BY TakenFacts
<1>2. kept = IF Len(all) = Len(files) THEN all ELSE SubSeq(all, 1, Max(fits))
  BY DEF Kept, Trimmed
<1>3. S \subseteq Paths
  BY ToSetFacts
<1> HIDE DEF all, kept, S
<1>4. Len(all) \in Nat /\ fits \in SUBSET (0..Len(all)) /\ 0 \in fits
  BY <1>1
<1>5. \A k \in fits : k = 0 \/ Spent(SubSeq(all, 1, k)) + Separator + OmissionNote <= limit
  OBVIOUS
<1> HIDE DEF fits
<1>6. Max(fits) \in fits /\ Max(fits) \in 0..Len(all)
  BY <1>4, LastOf
<1> DEFINE m == Max(fits)
           cut == SubSeq(all, 1, m)
<1> HIDE DEF m
<1>7. cut \in Seq(S) /\ cut \in Seq(Paths) /\ Len(cut) \in Nat /\ (m = 0 => cut = << >>)
  BY <1>1, <1>3, <1>6 DEF m
<1>8. Spent(cut) <= limit
  <2>1. Spent(cut) \in Nat
    BY <1>7, SpentIsNat
  <2>2. m = 0 \/ Spent(cut) + Separator + OmissionNote <= limit
    BY <1>5, <1>6 DEF m
  <2> HIDE DEF cut
  <2>3. CASE m = 0
    BY <1>7, <2>3, NothingSpent
  <2> QED  BY <2>1, <2>2, <2>3 DEF Separator, OmissionNote
<1>9. kept \in Seq(S) /\ kept \in Seq(Paths) /\ Spent(kept) <= limit
  BY <1>1, <1>2, <1>7, <1>8 DEF m
<1>10. Spent(kept) \in Nat /\ ToSet(kept) \subseteq S
  BY <1>9, SpentIsNat, ToSetFacts
<1> HIDE DEF cut
<1>11. /\ report.included = ToSet(kept) \cap Readable
       /\ report.omitted = (S \cap Readable) \ ToSet(kept)
       /\ report.required = Spent(files)
  BY DEF ReadEach, Report, kept, S
<1>12. report.tokens \in 0..limit
  <2> DEFINE note == Len(kept) < Len(files)
                       /\ Spent(kept) + OmissionNote + (IF kept = << >> THEN 0 ELSE Separator) <= limit
  <2>1. report.tokens = Spent(kept) + (IF note THEN OmissionNote ELSE 0)
    BY DEF ReadEach, Report, kept
  <2>2. note => Spent(kept) + OmissionNote + (IF kept = << >> THEN 0 ELSE Separator) <= limit
    OBVIOUS
  <2> HIDE DEF note, report
  <2> QED  BY <1>9, <1>10, <2>1, <2>2 DEF OmissionNote, Separator
<1>13. ASSUME ~TooLarge(report, limit) PROVE report.included = S \cap Readable
  <2>1. Spent(files) <= limit
    <3>1. Spent(files) \in Nat
      BY SpentIsNat
    <3> HIDE DEF report
    <3> QED  BY <1>11, <1>13, <3>1 DEF TooLarge
  <2>2. kept = files
    BY <1>1, <1>2, <2>1
  <2> QED  BY <1>11, <2>2 DEF S
<1> HIDE DEF report
<1>14. report.included \subseteq S \cap Readable /\ S \cap Readable \subseteq report.included \cup report.omitted
  BY <1>10, <1>11
<1> QED  BY <1>12, <1>13, <1>14 DEF S, report

-----------------------------------------------------------------------------
(* Conversations and their allowances. *)

\* A turn, as far as prompts are about it.
IsTurn(t) ==
    /\ DOMAIN t = {"role", "files", "images", "tokens", "model"}
    /\ t.files \in Seq(Paths) /\ t.tokens \in Nat /\ IsFiniteSet(t.images)

AreTurns(ts) ==
    /\ Len(ts) \in Nat /\ DOMAIN ts = 1..Len(ts)
    /\ \A i \in 1..Len(ts) : IsTurn(ts[i])

LEMMA ImagesFacts ==
    ASSUME NEW ts, AreTurns(ts)
    PROVE  IsFiniteSet(ConversationImages(ts)) /\ Cardinality(ConversationImages(ts)) \in Nat
<1>1. IsFiniteSet(1..Len(ts))
  BY FS_Interval DEF AreTurns
<1>2. IsFiniteSet({ts[i].images : i \in 1..Len(ts)})
  <2> DEFINE S == 1..Len(ts)
             T == {ts[i].images : i \in S}
             f == [i \in S |-> ts[i].images]
  <2>1. f \in Surjection(S, T)
    BY DEF Surjection
  <2> HIDE DEF f, S, T
  <2>2. IsFiniteSet(T)
    BY <1>1, <2>1, FS_Surjection DEF S
  <2> QED  BY <2>2 DEF S, T
<1>3. \A x \in {ts[i].images : i \in 1..Len(ts)} : IsFiniteSet(x)
  BY DEF AreTurns, IsTurn
<1>4. IsFiniteSet(UNION {ts[i].images : i \in 1..Len(ts)})
  BY <1>2, <1>3, FS_UNION
<1> QED  BY <1>4, FS_CardinalityType DEF ConversationImages, AreTurns

LEMMA ConversationFilesFacts ==
    ASSUME NEW ts, AreTurns(ts)
    PROVE  ConversationFiles(ts) \in Seq(Paths)
<1> DEFINE n == Len(ts)
           s == [i \in DOMAIN ts |-> Reverse(ts)[i].files]
<1>1. n \in Nat /\ DOMAIN ts = 1..n
  BY DEF AreTurns
<1>2. \A i \in 1..n : s[i] \in Seq(Paths)
  <2>1. \A i \in 1..n : n - i + 1 \in 1..n /\ s[i] = ts[n - i + 1].files
    BY <1>1 DEF Reverse
  <2> QED  BY <2>1 DEF AreTurns, IsTurn
<1>3. s = [i \in 1..n |-> s[i]]
  BY <1>1
<1>4. ConversationFiles(ts) = Distinct(FlattenSeq(s))
  BY DEF ConversationFiles
<1> HIDE DEF s, n
<1>5. FlattenSeq(s) \in Seq(Paths)
  BY <1>1, <1>2, <1>3, FlattenFacts
<1> QED  BY <1>4, <1>5, DistinctFacts

\* A conversation's files are those of its turns.
LEMMA ConversationSet ==
    ASSUME NEW ts, AreTurns(ts)
    PROVE  ToSet(ConversationFiles(ts)) = UNION {ToSet(ts[i].files) : i \in 1..Len(ts)}
<1> DEFINE n == Len(ts)
           s == [i \in DOMAIN ts |-> Reverse(ts)[i].files]
<1>1. n \in Nat /\ DOMAIN ts = 1..n
  BY DEF AreTurns
<1>2. \A i \in 1..n : n - i + 1 \in 1..n /\ s[i] = ts[n - i + 1].files
  BY <1>1 DEF Reverse
<1>3. \A i \in 1..n : s[i] \in Seq(Paths)
  BY <1>2 DEF AreTurns, IsTurn
<1>4. s = [i \in 1..n |-> s[i]]
  BY <1>1
<1>5. ConversationFiles(ts) = Distinct(FlattenSeq(s))
  BY DEF ConversationFiles
<1> HIDE DEF s
<1>6. FlattenSeq(s) \in Seq(Paths) /\ ToSet(FlattenSeq(s)) = UNION {ToSet(s[i]) : i \in 1..n}
  BY <1>1, <1>3, <1>4, FlattenFacts
<1>7. ToSet(ConversationFiles(ts)) = UNION {ToSet(s[i]) : i \in 1..n}
  BY <1>5, <1>6, DistinctFacts
<1>8. {s[i] : i \in 1..n} = {ts[i].files : i \in 1..n}
  <2>1. \A i \in 1..n : n - i + 1 \in 1..n /\ n - (n - i + 1) + 1 = i
    BY <1>1
  <2> HIDE DEF n
  <2>2. \A i \in 1..n : s[n - i + 1] = ts[i].files
    BY <1>2, <2>1
  <2> QED  BY <1>2, <2>1, <2>2
<1>9. {ToSet(s[i]) : i \in 1..n} = {ToSet(ts[i].files) : i \in 1..n}
  <2>1. {ToSet(s[i]) : i \in 1..n} = {ToSet(x) : x \in {s[i] : i \in 1..n}}
    OBVIOUS
  <2>2. {ToSet(ts[i].files) : i \in 1..n} = {ToSet(x) : x \in {ts[i].files : i \in 1..n}}
    OBVIOUS
  <2> QED  BY <1>8, <2>1, <2>2
<1> QED  BY <1>7, <1>9

LEMMA AllocationFacts ==
    ASSUME NEW c, c.window \in Nat, c.ceiling \in Nat
    PROVE  /\ Allocation(c).content \in 0..c.window
           /\ Allocation(c).files \in Nat /\ Allocation(c).history \in Nat
<1> DEFINE w == c.window
           share == IF w >= 300000 THEN 2 ELSE 4
           response == Least((w * share) \div 10, c.ceiling)
           content == w - response
<1>1. (w * share) \div 10 \in 0..w
  OBVIOUS
<1>2. response \in 0..w
  BY <1>1 DEF Least
<1> HIDE DEF response
<1>3. content \in 0..w
  BY <1>2
<1>4. /\ Allocation(c).content = content
      /\ Allocation(c).files = (content * (IF w >= 300000 THEN 4 ELSE 3)) \div 10
      /\ Allocation(c).history = (content * (IF w >= 300000 THEN 4 ELSE 5)) \div 10
  BY DEF Allocation, response
<1> HIDE DEF content, w
<1>5. /\ (content * (IF w >= 300000 THEN 4 ELSE 3)) \div 10 \in Nat
      /\ (content * (IF w >= 300000 THEN 4 ELSE 5)) \div 10 \in Nat
  BY <1>3
<1> QED  BY <1>3, <1>4, <1>5 DEF w

LEMMA BlankedFacts ==
    ASSUME NEW ts, AreTurns(ts), Len(ts) # 0
    PROVE  AreTurns(Blanked(ts)) /\ Len(Blanked(ts)) = Len(ts)
<1> DEFINE n == Len(ts)
           b == Blanked(ts)
<1>1. n \in Nat \ {0} /\ DOMAIN ts = 1..n /\ \A i \in 1..n : IsTurn(ts[i])
  BY DEF AreTurns
<1>2. b = [i \in 1..n |-> IF i = n THEN [ts[i] EXCEPT !.tokens = 10] ELSE ts[i]]
  BY <1>1 DEF Blanked
<1> HIDE DEF b, n
<1>3. Len(b) = n /\ DOMAIN b = 1..n
  BY <1>1, <1>2
<1>4. ASSUME NEW i \in 1..n PROVE IsTurn(b[i])
  <2>1. CASE i = n
    <3>1. b[i] = [ts[i] EXCEPT !.tokens = 10]
      BY <1>2, <2>1
    <3> QED  BY <1>1, <3>1 DEF IsTurn
  <2>2. CASE i # n
    BY <1>1, <1>2, <2>2
  <2> QED  BY <2>1, <2>2
<1> QED  BY <1>1, <1>3, <1>4 DEF AreTurns, b, n

\* What a history holds of turns, newest first.
RecentTokens(ts, m) == Total([i \in 1..m |-> Reverse(ts)[i].tokens])

LEMMA RecentFacts ==
    ASSUME NEW ts, AreTurns(ts)
    PROVE  /\ \A m \in 0..Len(ts) : RecentTokens(ts, m) \in Nat
           /\ \A m \in 0..Len(ts) : \A l \in 0..m : RecentTokens(ts, l) <= RecentTokens(ts, m)
<1> DEFINE n == Len(ts)
           old(i) == Reverse(ts)[i].tokens
           first(m) == [i \in 1..m |-> old(i)]
           sum(m) == RecentTokens(ts, m)
<1>1. n \in Nat /\ \A i \in 1..n : old(i) \in Nat
  <2>1. n \in Nat /\ \A i \in 1..n : n - i + 1 \in 1..n /\ Reverse(ts)[i] = ts[n - i + 1]
    BY DEF AreTurns, Reverse
  <2> QED  BY <2>1 DEF AreTurns, IsTurn
<1>2. \A m : sum(m) = Total(first(m))
  BY DEF RecentTokens
<1> HIDE DEF n, old, sum
<1>3. ASSUME NEW m \in 1..n PROVE sum(m - 1) \in Nat /\ sum(m) = sum(m - 1) + old(m)
  <2> DEFINE l == m - 1
             s == first(l)
             t == first(l + 1)
  <2>1. l \in Nat /\ l + 1 = m /\ l + 1 \in 1..n
    BY <1>1
  <2>2. \A i \in 1..(l + 1) : old(i) \in Nat
    BY <1>1, <2>1
  <2> HIDE DEF l
  <2>3. OneMore(t, s, l) /\ t[l + 1] = old(l + 1)
    BY <2>1, <2>2 DEF OneMore
  <2> HIDE DEF s, t
  <2>4. Total(s) \in Nat /\ Total(t) = Total(s) + t[l + 1]
    BY <2>1, <2>3, TotalGrows
  <2>5. sum(l) = Total(s) /\ sum(l + 1) = Total(t)
    BY <1>2 DEF s, t
  <2>6. sum(l) \in Nat /\ sum(l + 1) = sum(l) + old(l + 1)
    BY <2>3, <2>4, <2>5
  <2> QED  BY <2>1, <2>6 DEF l
<1>4. sum(0) \in Nat
  <2> DEFINE s == first(0)
  <2>1. 0 \in Nat /\ 0 = Len(s) /\ \A i \in 1..0 : s[i] \in Nat
    OBVIOUS
  <2> HIDE DEF s
  <2>2. Total(s) \in Nat
    BY <2>1, TotalIsNat
  <2> QED  BY <1>2, <2>2 DEF s
<1>5. \A m \in 0..n : sum(m) \in Nat
  <2> SUFFICES ASSUME NEW m \in 0..n PROVE sum(m) \in Nat
    OBVIOUS
  <2>1. CASE m = 0
    BY <1>4, <2>1
  <2>2. CASE m # 0
    BY <1>1, <1>3, <2>2
  <2> QED  BY <2>1, <2>2
<1>6. \A m \in 0..n : \A l \in 0..m : sum(l) <= sum(m)
  <2> DEFINE P == {m \in 0..n : \A l \in 0..m : sum(l) <= sum(m)}
  <2>1. 0 \in P
    BY <1>1, <1>5
  <2>2. ASSUME NEW m \in 1..n, m - 1 \in P PROVE m \in P
    <3>1. sum(m - 1) <= sum(m) /\ m \in 0..n /\ m - 1 \in 0..n
      BY <1>1, <1>3
    <3>2. ASSUME NEW l \in 0..m PROVE sum(l) <= sum(m)
      <4>1. (l = m \/ l \in 0..(m - 1)) /\ l \in 0..n
        BY <1>1
      <4>2. l \in 0..(m - 1) => sum(l) <= sum(m - 1)
        BY <2>2
      <4> QED  BY <1>5, <3>1, <4>1, <4>2
    <3> QED  BY <3>1, <3>2
  <2> HIDE DEF P
  <2>3. 0..n \subseteq P
    BY <1>1, <2>1, <2>2, Climb
  <2> QED  BY <2>3 DEF P
<1> QED  BY <1>5, <1>6 DEF n, sum

ShownCandidates(ts, c, k) ==
    {0} \cup {m \in 1..Len(ts) : FrameTokens + k + RecentTokens(ts, m) <= Allocation(c).history}

LEMMA HistoryForm ==
    ASSUME NEW ts, NEW c, NEW k
    PROVE  /\ TurnsShown(ts, c, k) = Max(ShownCandidates(ts, c, k))
           /\ HistoryTokens(ts, c, k)
                = FrameTokens + k + ClosingTokens + RecentTokens(ts, TurnsShown(ts, c, k))
<1>1. TurnsShown(ts, c, k) = Max(ShownCandidates(ts, c, k))
  BY DEF TurnsShown, ShownCandidates, RecentTokens
<1>2. HistoryTokens(ts, c, k)
                = FrameTokens + k + ClosingTokens + RecentTokens(ts, TurnsShown(ts, c, k))
  BY DEF HistoryTokens, RecentTokens
<1> QED  BY <1>1, <1>2

\* Files take room from turns, and never more than they need.
LEMMA HistoryGrows ==
    ASSUME NEW ts, AreTurns(ts), NEW c, Allocation(c).history \in Int, NEW k \in Nat
    PROVE  /\ HistoryTokens(ts, c, k) \in Nat /\ HistoryTokens(ts, c, 0) \in Nat
           /\ HistoryTokens(ts, c, k) <= k + HistoryTokens(ts, c, 0)
<1> DEFINE n == Len(ts)
           a == ShownCandidates(ts, c, k)
           b == ShownCandidates(ts, c, 0)
           sum(m) == RecentTokens(ts, m)
<1>1. n \in Nat
  BY DEF AreTurns
<1>2. /\ \A m \in 0..n : sum(m) \in Nat
      /\ \A m \in 0..n : \A l \in 0..m : sum(l) <= sum(m)
  BY RecentFacts
<1> HIDE DEF sum
<1>3. a \in SUBSET (0..n) /\ b \in SUBSET (0..n) /\ 0 \in a /\ 0 \in b
  BY <1>1 DEF ShownCandidates
<1>4. a \subseteq b
  <2> SUFFICES ASSUME NEW m \in a, m # 0 PROVE m \in b
    BY <1>3
  <2>1. m \in 1..n /\ FrameTokens + k + sum(m) <= Allocation(c).history
    BY DEF ShownCandidates, sum
  <2>2. m \in 0..n
    BY <1>1, <2>1
  <2>3. FrameTokens + 0 + sum(m) <= Allocation(c).history
    BY <1>2, <2>1, <2>2, ContextAssumption
  <2> QED  BY <2>1, <2>3 DEF ShownCandidates, sum
<1> HIDE DEF a, b
<1>5. /\ Max(a) \in a /\ Max(a) \in 0..n /\ Max(b) \in 0..n
      /\ \A i \in b : i <= Max(b)
  <2> HIDE DEF n
  <2> QED  BY <1>1, <1>3, LastOf
<1>6. Max(a) \in 0..Max(b)
  BY <1>4, <1>5
<1>7. sum(Max(a)) <= sum(Max(b)) /\ sum(Max(a)) \in Nat /\ sum(Max(b)) \in Nat
  BY <1>2, <1>5, <1>6
<1>8. /\ HistoryTokens(ts, c, k) = FrameTokens + k + ClosingTokens + sum(Max(a))
      /\ HistoryTokens(ts, c, 0) = FrameTokens + 0 + ClosingTokens + sum(Max(b))
  BY HistoryForm DEF a, b, sum
<1>9. FrameTokens \in Nat /\ ClosingTokens \in Nat
  BY ContextAssumption
<1> QED  BY <1>7, <1>8, <1>9

\* A history is about the tokens of turns.
LEMMA HistoryDepends ==
    ASSUME NEW s, AreTurns(s), NEW t, AreTurns(t), Len(s) = Len(t),
           \A i \in 1..Len(s) : s[i].tokens = t[i].tokens,
           NEW c, NEW k
    PROVE  HistoryTokens(s, c, k) = HistoryTokens(t, c, k)
<1> DEFINE n == Len(s)
<1>1. n \in Nat /\ n = Len(t)
  BY DEF AreTurns
<1>2. \A i \in 1..n : Reverse(s)[i].tokens = Reverse(t)[i].tokens
  <2>1. \A i \in 1..n : n - i + 1 \in 1..n /\ Reverse(s)[i] = s[n - i + 1] /\ Reverse(t)[i] = t[n - i + 1]
    BY <1>1 DEF AreTurns, Reverse
  <2> QED  BY <2>1
<1>3. ASSUME NEW m \in 0..n PROVE RecentTokens(s, m) = RecentTokens(t, m)
  <2>1. \A i \in 1..m : i \in 1..n
    BY <1>1
  <2>2. [i \in 1..m |-> Reverse(s)[i].tokens] = [i \in 1..m |-> Reverse(t)[i].tokens]
    BY <1>2, <2>1
  <2> QED  BY <2>2 DEF RecentTokens
<1> HIDE DEF n
<1>4. ShownCandidates(s, c, k) = ShownCandidates(t, c, k)
  <2>1. \A m \in 1..n : m \in 0..n
    BY <1>1
  <2> QED  BY <1>1, <1>3, <2>1 DEF ShownCandidates, n
<1>5. TurnsShown(s, c, k) = TurnsShown(t, c, k)
  BY <1>4, HistoryForm
<1>6. TurnsShown(s, c, k) \in 0..n
  <2> DEFINE a == ShownCandidates(s, c, k)
  <2>1. a \in SUBSET (0..n) /\ a # {}
    BY <1>1 DEF ShownCandidates, n
  <2> HIDE DEF a
  <2>2. Max(a) \in a
    BY <1>1, <2>1, LastOf
  <2> QED  BY <2>1, <2>2, HistoryForm DEF a
<1>7. RecentTokens(s, TurnsShown(s, c, k)) = RecentTokens(t, TurnsShown(t, c, k))
  BY <1>3, <1>5, <1>6
<1> QED  BY <1>7, HistoryForm

\* A file allowance leaves room for everything it was calculated from, with the margin of the
\* final check.
LEMMA FilesLeaveRoom ==
    ASSUME NEW c, c.window \in Nat, c.ceiling \in Nat, NEW rest \in Nat, NEW images \in Nat
    PROVE  LET limit == FileLimit(c, Most(0, Allocation(c).content - rest - ImageTokens * images)) IN
           /\ limit \in Nat
           /\ limit # 0 => \A text \in Nat : text <= rest + Reserve + limit => Fits(c, text, images)
<1> DEFINE content == Allocation(c).content
           files == Allocation(c).files
           remaining == Most(0, content - rest - ImageTokens * images)
           room == ((content - 64) * 10) \div 11
           left == Most(0, room - (content - Least(remaining, content)))
           limit == FileLimit(c, remaining)
<1>1. content \in Nat /\ files \in Nat
  BY AllocationFacts
<1>2. limit = Most(0, Least(files, left) - Reserve)
  BY DEF FileLimit
<1> HIDE DEF content, files, limit
<1>3. room \in Int /\ 11 * room <= 10 * (content - 64)
  BY <1>1
<1> HIDE DEF room
<1>4. room <= content
  BY <1>1, <1>3
<1>5. /\ remaining \in Nat /\ remaining <= content
      /\ remaining = 0 \/ remaining = content - rest - 8192 * images
  BY <1>1 DEF Most, ImageTokens
<1> HIDE DEF remaining
<1>6. Least(remaining, content) = remaining
  BY <1>1, <1>5 DEF Least
<1>7. left \in Nat /\ (left = 0 \/ left = room - (content - remaining))
  BY <1>1, <1>3, <1>5, <1>6 DEF Most
<1> HIDE DEF left
<1>8. limit \in Nat /\ (limit = 0 \/ limit <= left - 1000)
  BY <1>1, <1>2, <1>7 DEF Most, Least, Reserve
<1>9. ASSUME limit # 0, NEW text \in Nat, text <= rest + Reserve + limit
      PROVE  Fits(c, text, images)
  <2>1. limit <= room - (content - remaining) - 1000 /\ left # 0
    BY <1>7, <1>8, <1>9
  <2>2. remaining # 0
    BY <1>1, <1>3, <1>4, <1>7, <1>8, <2>1
  <2>3. text <= room - 8192 * images
    BY <1>1, <1>3, <1>5, <1>8, <1>9, <2>1, <2>2 DEF Reserve
  <2>4. text * 11 <= 10 * (content - 64) - 90112 * images
    BY <1>1, <1>3, <2>3
  <2>5. (text * 11 + 9) \div 10 <= content - 64 - 8192 * images
    <3> DEFINE e == (text * 11 + 9) \div 10
    <3>1. e \in Int /\ 10 * e <= text * 11 + 9
      OBVIOUS
    <3> HIDE DEF e
    <3>2. 10 * e <= 10 * (content - 64) - 90112 * images + 9
      BY <1>1, <2>4, <3>1
    <3>3. 10 * e <= 10 * (content - 64 - 8192 * images) + 9
      BY <1>1, <3>1, <3>2
    <3>4. e <= content - 64 - 8192 * images
      BY <1>1, <3>1, <3>3
    <3> QED  BY <3>4 DEF e
  <2>6. Estimate(text, images) <= content
    <3> DEFINE e == (text * 11 + 9) \div 10
    <3>1. e \in Int
      OBVIOUS
    <3>2. Estimate(text, images) = e + 64 + 8192 * images /\ e <= content - 64 - 8192 * images
      BY <2>5 DEF Estimate, ImageTokens
    <3> HIDE DEF e
    <3> QED  BY <1>1, <3>1, <3>2
  <2> QED  BY <2>6 DEF Fits, content
<1> QED  BY <1>8, <1>9 DEF limit, remaining, content

WithoutFiles(ts) == [i \in DOMAIN ts |-> [ts[i] EXCEPT !.files = << >>]]

LEMMA BareFacts ==
    ASSUME NEW ts, AreTurns(ts), Len(ts) # 0
    PROVE  LET bare == WithoutFiles(ts) IN
           /\ AreTurns(bare) /\ Len(bare) = Len(ts)
           /\ ConversationImages(bare) = ConversationImages(ts)
           /\ ConversationFiles(bare) = << >>
           /\ \A c, k : HistoryTokens(Blanked(bare), c, k) = HistoryTokens(Blanked(ts), c, k)
<1> DEFINE n == Len(ts)
           bare == WithoutFiles(ts)
<1>1. n \in Nat \ {0} /\ DOMAIN ts = 1..n /\ \A i \in 1..n : IsTurn(ts[i])
  BY DEF AreTurns
<1>2. bare = [i \in 1..n |-> [ts[i] EXCEPT !.files = << >>]]
  BY <1>1 DEF WithoutFiles
<1> HIDE DEF bare, n
<1>3. Len(bare) = n /\ DOMAIN bare = 1..n
  BY <1>1, <1>2
<1>4. ASSUME NEW i \in 1..n
      PROVE  /\ IsTurn(bare[i]) /\ bare[i].files = << >>
             /\ bare[i].images = ts[i].images /\ bare[i].tokens = ts[i].tokens
  <2> DEFINE t == ts[i]
             u == bare[i]
  <2>1. u = [t EXCEPT !.files = << >>] /\ IsTurn(t)
    BY <1>1, <1>2
  <2> HIDE DEF t, u
  <2>2. << >> \in Seq(Paths)
    OBVIOUS
  <2>3. /\ DOMAIN u = DOMAIN t /\ u.files = << >>
        /\ u.images = t.images /\ u.tokens = t.tokens
    BY <2>1 DEF IsTurn
  <2> QED  BY <2>1, <2>2, <2>3 DEF IsTurn, t, u
<1>5. AreTurns(bare) /\ Len(bare) = Len(ts)
  BY <1>1, <1>3, <1>4 DEF AreTurns, n
<1>6. ConversationImages(bare) = ConversationImages(ts)
  BY <1>1, <1>3, <1>4 DEF ConversationImages
<1>7. ConversationFiles(bare) = << >>
  <2>1. \A i \in 1..n : ToSet(bare[i].files) = {}
    BY <1>4, EmptySet
  <2>2. ToSet(ConversationFiles(bare)) \subseteq UNION {ToSet(bare[i].files) : i \in 1..n}
    BY <1>1, <1>3, <1>5, ConversationSet
  <2>3. ToSet(ConversationFiles(bare)) = {}
    BY <2>1, <2>2
  <2> DEFINE s == ConversationFiles(bare)
  <2>4. s \in Seq(Paths)
    BY <1>5, ConversationFilesFacts
  <2> HIDE DEF s
  <2>5. ASSUME s # << >> PROVE FALSE
    <3>1. 1 \in DOMAIN s
      BY <2>4, <2>5
    <3> QED  BY <2>3, <3>1 DEF ToSet, s
  <2> QED  BY <2>5 DEF s
<1>8. ASSUME NEW c, NEW k PROVE HistoryTokens(Blanked(bare), c, k) = HistoryTokens(Blanked(ts), c, k)
  <2> DEFINE a == Blanked(bare)
             b == Blanked(ts)
  <2>1. AreTurns(a) /\ Len(a) = n /\ AreTurns(b) /\ Len(b) = n
    BY <1>1, <1>5, BlankedFacts DEF n
  <2>2. /\ a = [bare EXCEPT ![n].tokens = 10]
        /\ b = [ts EXCEPT ![n].tokens = 10]
    BY <1>3 DEF Blanked, n
  <2> HIDE DEF a, b
  <2>3. ASSUME NEW i \in 1..n PROVE a[i].tokens = b[i].tokens
    <3>1. CASE i = n
      <4>1. a[i] = [bare[i] EXCEPT !.tokens = 10] /\ b[i] = [ts[i] EXCEPT !.tokens = 10]
        BY <1>1, <1>3, <2>2, <3>1
      <4> QED  BY <1>1, <1>4, <4>1 DEF IsTurn
    <3>2. CASE i # n
      BY <1>1, <1>3, <1>4, <2>2, <3>2
    <3> QED  BY <3>1, <3>2
  <2>4. Len(a) = Len(b) /\ \A i \in 1..Len(a) : a[i].tokens = b[i].tokens
    BY <2>1, <2>3
  <2>5. HistoryTokens(a, c, k) = HistoryTokens(b, c, k)
    BY <2>1, <2>4, HistoryDepends
  <2> QED  BY <2>5 DEF a, b
<1> QED  BY <1>5, <1>6, <1>7, <1>8 DEF bare

-----------------------------------------------------------------------------
(* Plans. *)

\* A plan that is sent fits and holds what is asked for now, each file once; one that is too
\* large is so without files.
IsSound(plan, ts, requested, input, c) ==
    /\ {"outcome", "report", "limit", "text", "shown"} = DOMAIN plan
    /\ plan.text \in Nat
    /\ plan.outcome = "sent" =>
          /\ Fits(c, plan.text, Cardinality(ConversationImages(ts)))
          /\ ToSet(ExpandFileInputs(requested)) \cap Readable \subseteq plan.report.included
    /\ \A f \in plan.report.included : CanonicalPath[f] = f
    /\ plan.outcome = "too_large" => Plan(WithoutFiles(ts), << >>, input, c).outcome = "too_large"

LEMMA PlanFacts ==
    ASSUME NEW ts, AreTurns(ts), Len(ts) # 0, NEW requested \in Seq(Paths),
           requested = ts[Len(ts)].files,
           NEW input \in Nat, NEW c, c.window \in Nat, c.ceiling \in Nat
    PROVE  IsSound(Plan(ts, requested, input, c), ts, requested, input, c)
<1> DEFINE followUp == Len(ts) > 1
           files == IF followUp THEN ConversationFiles(ts) ELSE requested
           images == Cardinality(ConversationImages(ts))
           history == HistoryTokens(Blanked(ts), c, 0)
           rest == history + input + SystemTokens
           limit == FileLimit(c, Remaining(ts, input, c))
           report == IF files = << >> THEN NoFiles ELSE ReadFiles(files, limit)
           plan == Plan(ts, requested, input, c)
           asked == ToSet(ExpandFileInputs(requested))
           found == ToSet(ExpandFileInputs(files))
           bare == WithoutFiles(ts)
           unfiled == Plan(bare, << >>, input, c)
<1>1. files \in Seq(Paths)
  BY ConversationFilesFacts
<1>2. ToSet(requested) \subseteq ToSet(files)
  <2>1. CASE followUp
    <3>1. Len(ts) \in 1..Len(ts)
      BY DEF AreTurns
    <3>2. ToSet(ConversationFiles(ts)) = UNION {ToSet(ts[i].files) : i \in 1..Len(ts)}
      BY ConversationSet
    <3> QED  BY <2>1, <3>1, <3>2
  <2>2. CASE ~followUp
    BY <2>2
  <2> QED  BY <2>1, <2>2
<1>3. AreTurns(Blanked(ts)) /\ Len(Blanked(ts)) = Len(ts)
  BY BlankedFacts
<1>4. history \in Nat /\ images \in Nat
  <2>1. Allocation(c).history \in Int
    BY AllocationFacts
  <2> QED  BY <1>3, <2>1, HistoryGrows, ImagesFacts
<1>5. rest \in Nat
  BY <1>4, ContextAssumption
<1>6. Remaining(ts, input, c) = Most(0, Allocation(c).content - rest - ImageTokens * images)
  <2>1. Allocation(c).content \in Int
    BY AllocationFacts
  <2> DEFINE content == Allocation(c).content
  <2>2. Remaining(ts, input, c) = Most(0, content - history - input - SystemTokens - ImageTokens * images)
    BY DEF Remaining
  <2> HIDE DEF content, history, images
  <2>3. content - history - input - SystemTokens = content - rest
    BY <1>4, <2>1, ContextAssumption DEF content
  <2> QED  BY <2>2, <2>3 DEF content
<1>7. /\ limit \in Nat
      /\ limit # 0 => \A text \in Nat : text <= rest + Reserve + limit => Fits(c, text, images)
  <2> HIDE DEF rest, images
  <2> QED  BY <1>4, <1>5, <1>6, FilesLeaveRoom
<1>8. plan = PlanWith(ts, requested, input, c, limit, report)
  BY DEF Plan
<1> HIDE DEF files, limit
<1>9. /\ report.tokens \in 0..limit
      /\ report.included \subseteq found \cap Readable
      /\ found \cap Readable \subseteq report.included \cup report.omitted
      /\ ~TooLarge(report, limit) => report.included = found \cap Readable
  <2>1. CASE files = << >>
    <3>1. found = {}
      <4>1. ToSet(files) = {}
        BY <2>1, EmptySet
      <4>2. ToSet(Expanded(files)) = {}
        BY <1>1, <4>1, ExpandedFacts
      <4> QED  BY <1>1, <4>2, InputsFacts
    <3>2. report = NoFiles
      BY <2>1
    <3> QED  BY <1>7, <3>1, <3>2 DEF NoFiles
  <2>2. CASE files # << >>
    <3>1. ExpandFileInputs(files) \in Seq(Paths)
      BY <1>1, InputsFacts
    <3>2. report = ReadEach(ExpandFileInputs(files), limit)
      BY <2>2 DEF ReadFiles
    <3> DEFINE s == ExpandFileInputs(files)
    <3> HIDE DEF s, report
    <3>3. LET r == ReadEach(s, limit) IN
           /\ r.tokens \in 0..limit
           /\ r.included \subseteq ToSet(s) \cap Readable
           /\ ToSet(s) \cap Readable \subseteq r.included \cup r.omitted
           /\ ~TooLarge(r, limit) => r.included = ToSet(s) \cap Readable
      BY <1>7, <3>1, KeptFacts DEF s
    <3> QED  BY <3>2, <3>3 DEF s
  <2> QED  BY <2>1, <2>2
<1>10. asked \subseteq found
  BY <1>1, <1>2, ExpansionGrows
<1> HIDE DEF report, history, rest, images, found
<1> DEFINE text == input + SystemTokens + FollowUpTokens
                    + (IF followUp THEN HistoryTokens(Blanked(ts), c, report.tokens) ELSE report.tokens)
           refused == TooLarge(report, limit) /\ (followUp => report.omitted \cap asked # {})
<1>11. /\ plan.report = report /\ plan.text = text
       /\ DOMAIN plan = {"outcome", "report", "limit", "text", "shown"}
       /\ plan.outcome = IF ~c.verified THEN "unverified"
                    ELSE IF refused THEN "code_too_large"
                    ELSE IF ImagesRefused(ts, c) THEN "images"
                    ELSE IF ~Fits(c, text, images) THEN "too_large"
                    ELSE "sent"
  BY <1>8 DEF PlanWith, images
<1> HIDE DEF plan
<1>12. ASSUME plan.outcome = "sent" PROVE asked \cap Readable \subseteq report.included
  <2>1. ~refused
    BY <1>11, <1>12
  <2>2. CASE ~TooLarge(report, limit)
    BY <1>9, <1>10, <2>2
  <2>3. CASE TooLarge(report, limit)
    <3>1. report.omitted \cap asked = {}
      BY <2>1, <2>3
    <3> HIDE DEF asked
    <3> QED  BY <1>9, <1>10, <3>1
  <2> QED  BY <2>2, <2>3
<1>13. \A f \in report.included : CanonicalPath[f] = f
  <2>1. \A f \in found \cap Readable : CanonicalPath[f] = f
    BY <1>1, InputsAreCanonical DEF found
  <2> QED  BY <1>9, <2>1
<1>14. /\ HistoryTokens(Blanked(ts), c, report.tokens) \in Nat
       /\ HistoryTokens(Blanked(ts), c, report.tokens) <= report.tokens + history
  <2>1. Allocation(c).history \in Int
    BY AllocationFacts
  <2>2. report.tokens \in Nat
    BY <1>7, <1>9
  <2> QED  BY <1>3, <2>1, <2>2, HistoryGrows DEF history
<1>15. text \in Nat
  <2>1. report.tokens \in Nat /\ SystemTokens \in Nat /\ FollowUpTokens \in Nat
    BY <1>7, <1>9, ContextAssumption
  <2> QED  BY <1>14, <2>1
<1>16. ASSUME plan.outcome = "too_large" PROVE unfiled.outcome = "too_large"
  <2> DEFINE bareText == input + SystemTokens + FollowUpTokens + (IF followUp THEN history ELSE 0)
  <2>1. /\ AreTurns(bare) /\ Len(bare) = Len(ts)
        /\ ConversationImages(bare) = ConversationImages(ts)
        /\ ConversationFiles(bare) = << >>
        /\ \A k : HistoryTokens(Blanked(bare), c, k) = HistoryTokens(Blanked(ts), c, k)
    BY BareFacts
  <2>2. Remaining(bare, input, c) = Remaining(ts, input, c)
    BY <2>1 DEF Remaining
  <2> HIDE DEF bare
  <2>3. unfiled = PlanWith(bare, << >>, input, c, limit, NoFiles)
    BY <2>1, <2>2 DEF Plan, limit
  <2>4. ~TooLarge(NoFiles, limit)
    BY <1>7 DEF TooLarge, NoFiles
  <2>5. ImagesRefused(bare, c) = ImagesRefused(ts, c)
    BY <2>1 DEF ImagesRefused
  <2>6. unfiled.outcome = IF ~c.verified THEN "unverified"
                    ELSE IF ImagesRefused(ts, c) THEN "images"
                    ELSE IF ~Fits(c, bareText, images) THEN "too_large"
                    ELSE "sent"
    <3>1. NoFiles.tokens = 0
      BY DEF NoFiles
    <3>2. Cardinality(ConversationImages(bare)) = images
      BY <2>1 DEF images
    <3> QED  BY <2>1, <2>3, <2>4, <2>5, <3>1, <3>2 DEF PlanWith, history
  <2>7. c.verified /\ ~ImagesRefused(ts, c) /\ ~Fits(c, text, images)
    BY <1>11, <1>16
  <2> DEFINE h == HistoryTokens(Blanked(ts), c, report.tokens)
             k == report.tokens
  <2>8. CASE limit = 0
    <3>1. k = 0
      BY <1>9, <2>8
    <3>2. text = bareText
      BY <3>1 DEF history
    <3> QED  BY <2>6, <2>7, <3>2
  <2>9. CASE limit # 0
    <3>1. text \in Nat /\ text <= rest + Reserve + limit
      <4>1. /\ k \in 0..limit /\ limit \in Nat /\ h \in Nat /\ h <= k + history /\ history \in Nat
            /\ text = input + SystemTokens + FollowUpTokens + (IF followUp THEN h ELSE k)
            /\ rest = history + input + SystemTokens
        BY <1>4, <1>7, <1>9, <1>14 DEF rest
      <4>2. SystemTokens \in Nat /\ FollowUpTokens \in Nat /\ FollowUpTokens <= Reserve /\ Reserve \in Nat
        BY ContextAssumption DEF Reserve
      <4> HIDE DEF text, h, k
      <4> QED  BY <4>1, <4>2
    <3>2. Fits(c, text, images)
      BY <1>7, <2>9, <3>1
    <3> QED  BY <2>7, <3>2
  <2> QED  BY <2>8, <2>9
<1>17. plan.outcome = "sent" => Fits(c, text, images)
  BY <1>11
<1> HIDE DEF text
<1> QED  BY <1>11, <1>12, <1>13, <1>15, <1>16, <1>17 DEF plan, images, IsSound

-----------------------------------------------------------------------------
(* The states of a server that prepares requests. *)

\* The turns that requests and replies leave.
TurnRecords ==
    {Turn("user", r.files, r.images, r.input, None) : r \in {Admitted(request) : request \in Requests}}
      \cup {Turn("assistant", << >>, {}, tokens, name) : tokens \in ReplyTokens, name \in Names}

TypeOK ==
    /\ Starts
    /\ policy \in Policies
    /\ Taught(policy.allow, st)
    /\ turns \in Seq(TurnRecords)

\* What was prepared keeps to the configuration, whatever is learned meanwhile.
PreparedIsPermitted ==
    prepared # Idle =>
        /\ {"identity", "wish", "name", "plan", "retried"} \subseteq DOMAIN prepared
        /\ prepared.name \in Names
        /\ Permitted(prepared.identity.provider, prepared.identity.model)
        /\ prepared.wish = AutoMode =>
               prepared.name \in Available(policy, policy.allow) \cup ToSet(policy.preferred)
        /\ prepared.wish \notin {AutoMode, prepared.name} => prepared.wish \in Stances

IInv == TypeOK /\ PreparedIsPermitted

LEMMA PolicyFacts ==
    ASSUME policy \in Policies
    PROVE  /\ policy.allow \in [ProviderSet -> SUBSET Names]
           /\ policy.preferred \in Seq(Names)
           /\ policy.default \in Names \cup {AutoMode}
BY PreparationAssumption

LEMMA InitIInv ==
    ASSUME Init
    PROVE  IInv
<1>1. Taught(policy.allow, st)
  BY PolicyFacts DEF Init, Taught
<1>2. turns \in Seq(TurnRecords)
  BY DEF Init
<1> QED  BY <1>1, <1>2 DEF Init, IInv, TypeOK, PreparedIsPermitted

\* What a request asks for is a name or a choice.
LEMMA WantedFacts ==
    ASSUME TypeOK, NEW request, request.model \in Names \cup {AutoMode, None}
    PROVE  Wanted(request) \in Names \cup {AutoMode}
<1> DEFINE replies == {i \in DOMAIN turns : turns[i].role = "assistant"}
<1>1. CASE request.model # None
  BY <1>1 DEF Wanted
<1>2. CASE request.model = None /\ replies = {}
  BY <1>2, PolicyFacts DEF Wanted, TypeOK
<1>3. CASE request.model = None /\ replies # {}
  <2>1. Len(turns) \in Nat /\ replies \in SUBSET (1 .. Len(turns))
    BY DEF TypeOK
  <2>2. Max(replies) \in replies
    BY <1>3, <2>1, LastPlace
  <2>3. Wanted(request) = turns[Max(replies)].model
    BY <1>3 DEF Wanted
  <2>4. \A i \in replies : turns[i] \in TurnRecords /\ turns[i].role = "assistant"
    BY DEF TypeOK
  <2>5. \A t \in TurnRecords : t.role = "assistant" => t.model \in Names
    BY DEF TurnRecords, Turn
  <2> QED  BY <2>2, <2>3, <2>4, <2>5
<1> QED  BY <1>1, <1>2, <1>3

\* A name that a request may end up as.
LEMMA CandidateFacts ==
    ASSUME TypeOK, NEW request, request.model \in Names \cup {AutoMode, None},
           NEW name \in Candidates(request), name # None
    PROVE  /\ name \in Names
           /\ Wanted(request) = AutoMode =>
                  name \in Available(policy, policy.allow) \cup ToSet(policy.preferred)
           /\ Wanted(request) \notin {AutoMode, name} => Wanted(request) \in Stances
<1>1. Wanted(request) \in Names \cup {AutoMode}
  BY WantedFacts
<1>2. CASE Wanted(request) = AutoMode
  <2>1. name \in Fallbacks(policy, st, request.category)
    BY <1>2 DEF Candidates
  <2>2. name \in Available(policy, st) \cup ToSet(policy.preferred)
    BY <2>1, FallbacksAreAvailable, PolicyFacts DEF TypeOK
  <2>3. Available(policy, st) = Available(policy, policy.allow)
    BY AdviceStable, PolicyFacts DEF TypeOK
  <2>4. \A n \in Available(policy, st) : n \in Names
    BY LearnedFacts, AvailableFacts DEF Available, TypeOK
  <2>5. \A n \in ToSet(policy.preferred) : n \in Names
    BY PolicyFacts DEF TypeOK, ToSet
  <2> QED  BY <1>2, <2>2, <2>3, <2>4, <2>5
<1>3. CASE Wanted(request) \in Names
  <2>1. Wanted(request) # AutoMode
    BY <1>3, PreparationAssumption
  <2>2. name = Parsed(policy, st, Wanted(request))
    BY <2>1 DEF Candidates
  <2>3. name = Wanted(request) \/ (Wanted(request) \in Stances /\ name = Base(Wanted(request)))
    BY <2>2 DEF Parsed
  <2> QED  BY <1>3, <2>1, <2>3, PreparationAssumption
<1> QED  BY <1>1, <1>2, <1>3

\* Nothing that is asked leaves what a configuration teaches.
LEMMA AskedIsTaught ==
    ASSUME TypeOK, NEW request, NEW name, name \in Names \cup {None}
    PROVE  /\ Taught(policy.allow, Learn(st, Questions(request, name)))
           /\ Taught(policy.allow, Learn(st, AllQueries))
<1>1. \A q \in AllQueries : q[2] # None
  BY CanonicalFacts DEF AllQueries, TypeOK
<1>2. ASSUME name \in Names, Routed(policy, st, name) # NoIdentity
      PROVE  Routed(policy, st, name).model # None
  BY <1>2, ServedFacts, PolicyAssumption DEF TypeOK
<1>3. \A q \in Questions(request, name) : q[2] # None
  <2>1. CASE Wanted(request) = AutoMode \/ name = None
    BY <1>1, <2>1 DEF Questions
  <2>2. CASE ~(Wanted(request) = AutoMode \/ name = None) /\ Routed(policy, st, name) = NoIdentity
    BY <1>1, <2>2 DEF Questions
  <2>3. CASE ~(Wanted(request) = AutoMode \/ name = None) /\ Routed(policy, st, name) # NoIdentity
    <3>1. Questions(request, name) = {<<Routed(policy, st, name).provider, Routed(policy, st, name).model>>}
      BY <2>3 DEF Questions
    <3> QED  BY <1>2, <2>3, <3>1
  <2> QED  BY <2>1, <2>2, <2>3
<1> QED  BY <1>1, <1>3, LearnKeeps DEF TypeOK

LEMMA AdmittedFacts ==
    ASSUME NEW request \in Requests
    PROVE  Admitted(request).model = request.model /\ request.model \in Names \cup {AutoMode, None}
BY PreparationAssumption DEF Admitted

LEMMA PrepareIInv ==
    ASSUME IInv, NEW request \in Requests, Prepare(request)
    PROVE  IInv'
<1> DEFINE r == Admitted(request)
<1>1. r.model \in Names \cup {AutoMode, None}
  BY AdmittedFacts
<1>2. /\ policy' = policy
      /\ turns' = Append(turns, Turn("user", r.files, r.images, r.input, None))
  BY DEF Prepare
<1> DEFINE made(name, id, plan) ==
              [request |-> r, asked |-> request.files, wish |-> Wanted(r), name |-> name,
               identity |-> id, wire |-> WireName(id.provider, id.model),
               plan |-> plan, sent |-> SentFor(id, turns', r, plan), retried |-> FALSE]
<1>3. PICK name \in Candidates(r) \ {None} :
        \E id \in {Routed(policy, st, name)} \ {NoIdentity} :
           /\ st' = Learn(st, Questions(r, name))
           /\ \E plan \in {PlanFor(id, turns', r)} : prepared' = made(name, id, plan)
  BY DEF Prepare
<1> DEFINE id == Routed(policy, st, name)
<1>4. /\ id # NoIdentity /\ st' = Learn(st, Questions(r, name))
       /\ \E plan : prepared' = made(name, id, plan)
  BY <1>3
<1>5. PICK plan : prepared' = made(name, id, plan)
  BY <1>4
<1>6. /\ prepared'.wish = Wanted(r) /\ prepared'.name = name /\ prepared'.identity = id
      /\ {"identity", "wish", "name", "plan", "retried"} \subseteq DOMAIN prepared'
  BY <1>5
<1> HIDE DEF r, made, id
<1>7. /\ name \in Names
      /\ Wanted(r) = AutoMode => name \in Available(policy, policy.allow) \cup ToSet(policy.preferred)
      /\ Wanted(r) \notin {AutoMode, name} => Wanted(r) \in Stances
  BY <1>1, <1>3, CandidateFacts DEF IInv
<1>8. Permitted(id.provider, id.model)
  BY <1>4, <1>7, ServedIsPermitted DEF IInv, TypeOK, id
<1>9. Taught(policy.allow, st')
  BY <1>4, <1>7, AskedIsTaught DEF IInv
<1>10. turns' \in Seq(TurnRecords)
  <2>1. Turn("user", r.files, r.images, r.input, None) \in TurnRecords
    BY DEF TurnRecords, r
  <2> QED  BY <1>2, <2>1 DEF IInv, TypeOK
<1>11. TypeOK'
  BY <1>2, <1>9, <1>10 DEF IInv, TypeOK
<1>12. PreparedIsPermitted'
  <2>1. Permitted(prepared.identity.provider, prepared.identity.model)'
    BY <1>2, <1>6, <1>8 DEF Permitted
  <2> QED  BY <1>2, <1>6, <1>7, <2>1 DEF PreparedIsPermitted
<1> QED  BY <1>11, <1>12 DEF IInv

LEMMA NextIInv ==
    ASSUME IInv, [Next]_vars
    PROVE  IInv'
<1> USE DEF IInv
<1>1. ASSUME NEW request \in Requests, Refuse(request)
      PROVE  IInv'
  <2>1. PICK name \in IF Candidates(request) = {} THEN {None} ELSE Candidates(request) :
            st' = Learn(st, Questions(request, name))
    BY <1>1 DEF Refuse
  <2>2. request.model \in Names \cup {AutoMode, None}
    BY PreparationAssumption
  <2>3. name \in Names \cup {None}
    BY <2>1, <2>2, CandidateFacts
  <2>4. Taught(policy.allow, st')
    BY <2>1, <2>3, AskedIsTaught
  <2>5. UNCHANGED <<policy, turns, prepared>>
    BY <1>1 DEF Refuse
  <2> QED  BY <2>4, <2>5 DEF TypeOK, PreparedIsPermitted, Permitted
<1>2. ASSUME NEW request \in Requests, Prepare(request)
      PROVE  IInv'
  BY <1>2, PrepareIInv
<1>3. ASSUME NEW tokens \in ReplyTokens, Answer(tokens)
      PROVE  IInv'
  <2>1. /\ UNCHANGED <<policy, st>> /\ prepared' = Idle
        /\ turns' = Append(turns, Turn("assistant", << >>, {}, tokens, prepared.name))
        /\ prepared # Idle
    BY <1>3 DEF Answer, IsSent
  <2>2. Turn("assistant", << >>, {}, tokens, prepared.name) \in TurnRecords
    BY <2>1 DEF PreparedIsPermitted, TurnRecords
  <2>3. turns' \in Seq(TurnRecords)
    BY <2>1, <2>2 DEF TypeOK
  <2> QED  BY <2>1, <2>3 DEF TypeOK, PreparedIsPermitted
<1>4. ASSUME Clarify
      PROVE  IInv'
  <2> DEFINE text == prepared.plan.text + ClarificationTokens
  <2>1. UNCHANGED <<policy, st, turns>> /\ prepared # Idle
    BY <1>4 DEF Clarify, IsSent
  <2>2. prepared' = [prepared EXCEPT !.retried = TRUE, !.plan.text = text]
    BY <1>4 DEF Clarify
  <2>3. {"identity", "wish", "name", "plan", "retried"} \subseteq DOMAIN prepared
    BY <2>1 DEF PreparedIsPermitted
  <2>4. /\ DOMAIN prepared' = DOMAIN prepared
        /\ prepared'.identity = prepared.identity /\ prepared'.wish = prepared.wish
        /\ prepared'.name = prepared.name
    BY <2>2, <2>3
  <2> QED  BY <2>1, <2>4 DEF TypeOK, PreparedIsPermitted, Permitted
<1>5. ASSUME Fail
      PROVE  IInv'
  BY <1>5 DEF Fail, TypeOK, PreparedIsPermitted
<1>6. ASSUME ListModels
      PROVE  IInv'
  <2>1. Taught(policy.allow, st')
    BY <1>6, AskedIsTaught DEF ListModels
  <2> QED  BY <1>6, <2>1 DEF ListModels, TypeOK, PreparedIsPermitted, Permitted
<1>7. ASSUME UNCHANGED vars
      PROVE  IInv'
  BY <1>7 DEF vars, TypeOK, PreparedIsPermitted, Permitted
<1> QED
  BY <1>1, <1>2, <1>3, <1>4, <1>5, <1>6, <1>7 DEF Next

-----------------------------------------------------------------------------
(* What was prepared. *)

LEMMA TurnsFacts ==
    ASSUME turns \in Seq(TurnRecords)
    PROVE  AreTurns(turns)
<1>1. ASSUME NEW t \in TurnRecords PROVE IsTurn(t)
  <2>1. CASE \E request \in Requests :
               LET r == Admitted(request) IN t = Turn("user", r.files, r.images, r.input, None)
    <3>1. PICK request \in Requests :
               LET r == Admitted(request) IN t = Turn("user", r.files, r.images, r.input, None)
      BY <2>1
    <3> DEFINE r == Admitted(request)
    <3>2. /\ request.files \in Seq(Paths) /\ request.input \in Nat /\ IsFiniteSet(request.images)
          /\ DOMAIN request = {"model", "category", "files", "images", "input", "temperature", "thinking"}
      BY PreparationAssumption
    <3>3. /\ r.files = AdmittedFiles(request.files) /\ r.images = request.images
          /\ r.input = AdmittedInput(request.files, request.input)
      BY <3>2 DEF Admitted
    <3> HIDE DEF r
    <3>4. r.files \in Seq(Paths) /\ r.input \in Nat /\ IsFiniteSet(r.images)
      BY <3>2, <3>3, AdmissionFacts
    <3>5. /\ DOMAIN t = {"role", "files", "images", "tokens", "model"}
          /\ t.files = r.files /\ t.images = r.images /\ t.tokens = r.input
      BY <3>1 DEF Turn, r
    <3> QED  BY <3>4, <3>5 DEF IsTurn
  <2>2. CASE \E tokens \in ReplyTokens, name \in Names : t = Turn("assistant", << >>, {}, tokens, name)
    <3>1. PICK tokens \in ReplyTokens : \E name \in Names : t = Turn("assistant", << >>, {}, tokens, name)
      BY <2>2
    <3>2. /\ DOMAIN t = {"role", "files", "images", "tokens", "model"}
          /\ t.files = << >> /\ t.images = {} /\ t.tokens = tokens
      BY <3>1 DEF Turn
    <3>3. << >> \in Seq(Paths) /\ IsFiniteSet({}) /\ tokens \in Nat
      BY FS_EmptySet, PreparationAssumption
    <3> QED  BY <3>2, <3>3 DEF IsTurn
  <2> QED  BY <2>1, <2>2 DEF TurnRecords
<1>2. Len(turns) \in Nat /\ DOMAIN turns = 1..Len(turns) /\ \A i \in 1..Len(turns) : turns[i] \in TurnRecords
  OBVIOUS
<1> QED  BY <1>1, <1>2 DEF AreTurns

\* As SentIsAcceptable, with what a plea adds to and what FilesAreFitted is about.
SentFits(rec, ts) ==
    LET p == rec.identity.provider
        c == CapabilitiesOf(p, rec.identity.model)
        sent == rec.sent
    IN /\ {"asked", "request", "identity", "plan", "sent", "wire", "retried"} \subseteq DOMAIN rec
       /\ {"outcome", "report", "text"} \subseteq DOMAIN rec.plan
       /\ p \in ProviderSet
       /\ CanonicalAt(p, rec.wire) = rec.identity.model
       /\ sent.outcome = "sent" =>
            /\ sent.temperature \subseteq c.temperatures
            /\ \A control \in sent.thinking :
                   \/ control[1] = "level" /\ control[2] \in c.levels
                   \/ control[1] = "budget" /\ control[2] \in 1..c.budget
            /\ sent.images # {} => c.vision
            /\ sent.images \in {ConversationImages(ts), {}}
            /\ sent.limit = c.window - Allocation(c).content
            /\ rec.plan.text \in Nat
            /\ Fits(c, rec.plan.text, Cardinality(ConversationImages(ts)))
       /\ rec.plan.outcome = "sent" /\ sent.outcome # "sent" => ~IsCallable(Dialect[p], c)

SentInv == prepared # Idle => SentFits(prepared, turns) /\ FilesAreFitted

LEMMA SentIsAcceptableFollows ==
    ASSUME TypeOK, SentInv
    PROVE  SentIsAcceptable
<1> SUFFICES ASSUME prepared # Idle PROVE SentIsAcceptable
  BY DEF SentIsAcceptable
<1> DEFINE p == prepared.identity.provider
           c == CapabilitiesOf(p, prepared.identity.model)
           sent == prepared.sent
           images == ConversationImages(turns)
<1>1. SentFits(prepared, turns)
  BY DEF SentInv
<1>2. c.window \in Nat /\ c.ceiling \in Nat
  BY <1>1, CapabilitiesFacts DEF TypeOK, SentFits
<1>3. Allocation(c).content \in 0..c.window
  BY <1>2, AllocationFacts
<1>4. Cardinality(images) \in Nat /\ Cardinality({}) = 0
  BY ImagesFacts, TurnsFacts, FS_EmptySet DEF TypeOK
<1>5. ASSUME IsSent
      PROVE  Estimate(prepared.plan.text, Cardinality(sent.images)) + sent.limit <= c.window
  <2>1. /\ sent.images \in {images, {}} /\ sent.limit = c.window - Allocation(c).content
        /\ prepared.plan.text \in Nat /\ Fits(c, prepared.plan.text, Cardinality(images))
    BY <1>1, <1>5 DEF SentFits, IsSent
  <2> DEFINE text == prepared.plan.text
             k == Cardinality(sent.images)
             n == Cardinality(images)
             content == Allocation(c).content
             window == c.window
             limit == sent.limit
  <2>2. k \in Nat /\ n \in Nat /\ k <= n
    <3> HIDE DEF images
    <3>1. CASE sent.images = images
      BY <1>4, <3>1
    <3>2. CASE sent.images = {}
      BY <1>4, <3>2
    <3> QED  BY <2>1, <3>1, <3>2
  <2>3. Estimate(text, n) <= content
    BY <2>1 DEF Fits
  <2>4. text \in Nat /\ content \in Nat /\ window \in Nat /\ limit = window - content
    BY <1>2, <1>3, <2>1
  <2> HIDE DEF text, k, n, content, window, limit
  <2>5. Estimate(text, k) + limit <= window
    <3> DEFINE e == (text * 11 + 9) \div 10
    <3>1. e \in Nat
      BY <2>4
    <3>2. Estimate(text, k) = e + 64 + 8192 * k /\ Estimate(text, n) = e + 64 + 8192 * n
      BY DEF Estimate, ImageTokens
    <3> HIDE DEF e
    <3> QED  BY <2>2, <2>3, <2>4, <3>1, <3>2
  <2> QED  BY <2>5 DEF text, k, limit, window
<1>6. IsSent <=> sent.outcome = "sent"
  BY DEF IsSent
<1> HIDE DEF images
<1> QED  BY <1>1, <1>5, <1>6 DEF SentIsAcceptable, SentFits

\* Where a request is routed, the model is known by its canonical name.
LEMMA RoutedIsCanonical ==
    ASSUME TypeOK, NEW name \in Names, Routed(policy, st, name) # NoIdentity
    PROVE  LET id == Routed(policy, st, name) IN
           /\ id.provider \in ProviderSet
           /\ CanonicalAt(id.provider, id.model) = id.model
           /\ Supports(id.provider, id.model)
<1> DEFINE id == Routed(policy, st, name)
<1>1. id = Identity(policy, st, name) /\ Validates(policy, st, id.provider, id.model)
  BY DEF Routed, IfServed
<1>2. \/ id = CatalogIdentity(name)
      \/ id = IdentityAt(FirstOf({p \in ProviderSet : Validates(policy, st, p, name)}), name)
  BY <1>1 DEF Identity
<1>3. CASE id = CatalogIdentity(name)
  <2>1. id.provider \in ProviderSet /\ id.model = ResolveIn(id.provider, name) /\ id.model # None
    BY <1>3, IdentityFacts DEF TypeOK
  <2>2. id.model = CanonicalAt(id.provider, name)
    BY <2>1 DEF CanonicalAt
  <2> HIDE DEF id
  <2>3. CanonicalAt(id.provider, id.model) = id.model
    BY <2>1, <2>2, CanonicalFacts DEF TypeOK
  <2>4. Supports(id.provider, id.model)
    BY <1>1, Zenon DEF Validates
  <2> QED  BY <2>1, <2>3, <2>4 DEF id
<1>4. CASE id = IdentityAt(FirstOf({p \in ProviderSet : Validates(policy, st, p, name)}), name)
  <2> DEFINE q == FirstOf({p \in ProviderSet : Validates(policy, st, p, name)})
  <2>1. q # None
    BY <1>4 DEF IdentityAt
  <2>2. q \in ProviderSet
    BY <2>1, FirstIsOne
  <2>3. id = [provider |-> q, model |-> CanonicalAt(q, name)]
    BY <1>4, <2>1 DEF IdentityAt
  <2> HIDE DEF q, id
  <2>4. id.provider = q /\ id.model = CanonicalAt(q, name)
    BY <2>3
  <2>5. CanonicalAt(id.provider, id.model) = id.model
    BY <2>2, <2>4, CanonicalFacts DEF TypeOK
  <2>6. Supports(id.provider, id.model)
    BY <1>1, Zenon DEF Validates
  <2> QED  BY <2>2, <2>4, <2>5, <2>6 DEF id
<1> QED  BY <1>2, <1>3, <1>4

LEMMA PrepareSends ==
    ASSUME IInv, NEW request \in Requests, Prepare(request), TypeOK'
    PROVE  SentInv'
<1> DEFINE r == Admitted(request)
<1>1. r.model \in Names \cup {AutoMode, None}
  BY AdmittedFacts
<1> DEFINE made(name, id, plan) ==
              [request |-> r, asked |-> request.files, wish |-> Wanted(r), name |-> name,
               identity |-> id, wire |-> WireName(id.provider, id.model),
               plan |-> plan, sent |-> SentFor(id, turns', r, plan), retried |-> FALSE]
<1>2. PICK name \in Candidates(r) \ {None} :
        \E id \in {Routed(policy, st, name)} \ {NoIdentity} :
           \E plan \in {PlanFor(id, turns', r)} : prepared' = made(name, id, plan)
  BY DEF Prepare
<1> DEFINE id == Routed(policy, st, name)
           plan == PlanFor(id, turns', r)
           c == CapabilitiesOf(id.provider, id.model)
           ask == [temperature |-> ToolTemperature(c, r.temperature, DefaultTemperature),
                   thinking |-> r.thinking, images |-> ConversationImages(turns'),
                   limit |-> c.window - Allocation(c).content]
           sent == SentFor(id, turns', r, plan)
<1>3. id # NoIdentity /\ prepared' = made(name, id, plan)
  BY <1>2
<1>4. /\ prepared'.identity = id /\ prepared'.wire = WireName(id.provider, id.model)
      /\ prepared'.plan = plan /\ prepared'.sent = sent
      /\ prepared'.asked = request.files /\ prepared'.request = r
      /\ {"asked", "request", "identity", "plan", "sent", "wire", "retried"} \subseteq DOMAIN prepared'
  BY <1>3
<1>5. /\ request.files \in Seq(Paths) /\ r.files \in Seq(Paths) /\ r.input \in Nat
      /\ ToSet(r.files) = ToSet(Expanded(OtherFiles(request.files)))
      /\ r.temperature \in Nat \cup {None} /\ r.thinking \in DOMAIN Permille
  <2>1. /\ request.files \in Seq(Paths) /\ request.input \in Nat
        /\ DOMAIN request = {"model", "category", "files", "images", "input", "temperature", "thinking"}
        /\ request.temperature \in Nat \cup {None} /\ request.thinking \in DOMAIN Permille
    BY PreparationAssumption
  <2>2. /\ r.files = AdmittedFiles(request.files) /\ r.thinking = request.thinking
        /\ r.input = AdmittedInput(request.files, request.input) /\ r.temperature = request.temperature
    BY <2>1 DEF Admitted
  <2> HIDE DEF r
  <2> QED  BY <2>1, <2>2, AdmissionFacts
<1>6. turns' = Append(turns, Turn("user", r.files, r.images, r.input, None))
  BY DEF Prepare
<1> DEFINE ts == turns'
<1>7. AreTurns(ts) /\ Len(ts) # 0 /\ r.files = ts[Len(ts)].files
  <2>1. AreTurns(turns)'
    BY TurnsFacts, PTL DEF TypeOK
  <2> HIDE DEF r
  <2>2. /\ Len(turns') = Len(turns) + 1 /\ Len(turns) \in Nat
        /\ turns'[Len(turns')] = Turn("user", r.files, r.images, r.input, None)
    BY <1>6 DEF IInv, TypeOK
  <2> QED  BY <2>1, <2>2 DEF AreTurns, Turn
<1> HIDE DEF r, made
<1>8. name \in Names
  BY <1>1, <1>2, CandidateFacts DEF IInv
<1>9. /\ id.provider \in ProviderSet /\ CanonicalAt(id.provider, id.model) = id.model
      /\ Supports(id.provider, id.model)
  BY <1>3, <1>8, RoutedIsCanonical DEF IInv
<1>10. Starts
  BY DEF IInv, TypeOK
<1>11. CanonicalAt(id.provider, WireName(id.provider, id.model)) = id.model
  BY <1>9, <1>10, WireNameFacts
<1> HIDE DEF id
<1>12. /\ c.window \in Nat /\ c.ceiling \in Nat /\ c.budget \in Nat
       /\ c.temperatures \in SUBSET Nat /\ c.temperatures # {}
  BY <1>9, <1>10, CapabilitiesFacts
<1> HIDE DEF c
<1>13. plan = Plan(ts, r.files, r.input, c)
  BY DEF PlanFor, c
<1> HIDE DEF ts, plan
<1>14. /\ {"outcome", "report", "text"} \subseteq DOMAIN plan /\ plan.text \in Nat
       /\ plan.outcome = "sent" =>
             /\ Fits(c, plan.text, Cardinality(ConversationImages(ts)))
             /\ ToSet(ExpandFileInputs(r.files)) \cap Readable \subseteq plan.report.included
       /\ \A f \in plan.report.included : CanonicalPath[f] = f
       /\ plan.outcome = "too_large" => Plan(WithoutFiles(ts), << >>, r.input, c).outcome = "too_large"
  <2>1. IsSound(Plan(ts, r.files, r.input, c), ts, r.files, r.input, c)
    BY <1>5, <1>7, <1>12, PlanFacts
  <2> QED  BY <1>13, <2>1 DEF IsSound
<1>15. ToolTemperature(c, r.temperature, DefaultTemperature) \in c.temperatures
  <2>1. (IF r.temperature = None THEN DefaultTemperature ELSE r.temperature) \in Nat
    BY <1>5, PreparationAssumption
  <2> QED  BY <1>12, <2>1, CorrectedIsAccepted DEF ToolTemperature
<1>16. IsFiniteSet(ConversationImages(ts))
  BY <1>7, ImagesFacts
<1>17. Allocation(c).content \in Int
  BY <1>12, AllocationFacts
<1>18. /\ ask.temperature \in c.temperatures /\ ask.temperature \in Nat
       /\ ask.thinking \in DOMAIN Permille /\ IsFiniteSet(ask.images)
       /\ ask.images = ConversationImages(ts) /\ ask.limit = c.window - Allocation(c).content
  BY <1>5, <1>12, <1>15, <1>16 DEF ts
<1>19. sent = IF plan.outcome # "sent" THEN Refusal ELSE ProviderCall(Dialect[id.provider], c, ask)
  BY DEF SentFor, c
<1> HIDE DEF ask, plan, sent
<1>20. FilesAreFitted'
  <2>1. Meant(OtherFiles(request.files)) \subseteq ToSet(ExpandFileInputs(r.files)) \cap Readable
    BY <1>5, OtherFacts, MeantIsAsked
  <2>2. plan.outcome = "sent" => Meant(OtherFiles(request.files)) \subseteq plan.report.included
    BY <1>14, <2>1
  <2> QED  BY <1>4, <1>14, <2>2 DEF FilesAreFitted, WithoutFiles, ts, c
<1>21. CASE plan.outcome # "sent"
  <2>1. sent = Refusal
    BY <1>19, <1>21
  <2>2. sent.outcome # "sent"
    BY <2>1 DEF Refusal
  <2>3. SentFits(prepared', turns')
    BY <1>4, <1>9, <1>11, <1>14, <1>21, <2>2 DEF SentFits, ts
  <2> QED  BY <1>20, <2>3 DEF SentInv
<1>22. CASE plan.outcome = "sent"
  <2>1. sent = ProviderCall(Dialect[id.provider], c, ask)
    BY <1>19, <1>22
  <2>2. /\ sent.outcome = "sent" =>
              /\ sent.temperature \subseteq c.temperatures
              /\ \A control \in sent.thinking :
                     \/ control[1] = "level" /\ control[2] \in c.levels
                     \/ control[1] = "budget" /\ control[2] \in 1..c.budget
              /\ sent.images # {} => c.vision
              /\ sent.images \in {ask.images, {}}
              /\ sent.limit = c.window - Allocation(c).content
        /\ sent.outcome # "sent" => ~IsCallable(Dialect[id.provider], c)
    BY <1>12, <1>17, <1>18, <2>1, ProviderCallFacts
  <2>3. SentFits(prepared', turns')
    BY <1>4, <1>9, <1>11, <1>14, <1>18, <1>22, <2>2 DEF SentFits, c, ts
  <2> QED  BY <1>20, <2>3 DEF SentInv
<1> QED  BY <1>21, <1>22

LEMMA SentStep ==
    ASSUME IInv, SentInv, [Next]_vars, IInv'
    PROVE  SentInv'
<1>1. ASSUME NEW request \in Requests, Refuse(request)
      PROVE  SentInv'
  BY <1>1 DEF Refuse, SentInv, FilesAreFitted
<1>2. ASSUME NEW request \in Requests, Prepare(request)
      PROVE  SentInv'
  BY <1>2, PrepareSends DEF IInv
<1>3. ASSUME NEW tokens \in ReplyTokens, Answer(tokens)
      PROVE  SentInv'
  BY <1>3 DEF Answer, SentInv
<1>4. ASSUME Clarify
      PROVE  SentInv'
  <2> DEFINE text == prepared.plan.text + ClarificationTokens
             c == CapabilitiesOf(prepared.identity.provider, prepared.identity.model)
  <2>1. /\ prepared # Idle /\ prepared.sent.outcome = "sent" /\ turns' = turns
        /\ prepared' = [prepared EXCEPT !.retried = TRUE, !.plan.text = text]
        /\ Fits(c, text, Cardinality(ConversationImages(turns)))
    BY <1>4 DEF Clarify, IsSent
  <2>2. SentFits(prepared, turns) /\ FilesAreFitted
    BY <2>1 DEF SentInv
  <2>3. text \in Nat
    BY <2>1, <2>2, PreparationAssumption DEF SentFits
  <2> HIDE DEF text
  <2>4. /\ prepared'.identity = prepared.identity /\ prepared'.wire = prepared.wire
        /\ prepared'.sent = prepared.sent /\ prepared'.plan.text = text
        /\ prepared'.asked = prepared.asked /\ prepared'.request = prepared.request
        /\ {"asked", "request", "identity", "plan", "sent", "wire", "retried"} \subseteq DOMAIN prepared'
        /\ {"outcome", "report", "text"} \subseteq DOMAIN prepared'.plan
        /\ prepared'.plan.outcome = prepared.plan.outcome
        /\ prepared'.plan.report = prepared.plan.report
    BY <2>1, <2>2 DEF SentFits
  <2>5. SentFits(prepared', turns')
    BY <2>1, <2>2, <2>3, <2>4 DEF SentFits
  <2>6. FilesAreFitted'
    BY <2>1, <2>2, <2>4 DEF FilesAreFitted
  <2> QED  BY <2>5, <2>6 DEF SentInv
<1>5. ASSUME Fail
      PROVE  SentInv'
  BY <1>5 DEF Fail, SentInv
<1>6. ASSUME ListModels
      PROVE  SentInv'
  BY <1>6 DEF ListModels, SentInv, FilesAreFitted
<1>7. ASSUME UNCHANGED vars
      PROVE  SentInv'
  BY <1>7 DEF vars, SentInv, FilesAreFitted
<1> QED  BY <1>1, <1>2, <1>3, <1>4, <1>5, <1>6, <1>7 DEF Next

-----------------------------------------------------------------------------
(* Theorems. *)

\* Every state of a server keeps to its configuration: the restriction service only knows
\* what the allowlists name or stand for, and what was prepared is permitted.
THEOREM Invariance == Spec => []IInv
<1>1. IInv /\ [Next]_vars => IInv'
  BY NextIInv
<1> QED  BY <1>1, InitIInv, PTL DEF Spec

\* The cache of the restriction service changes no answer: where a name leads, what is
\* advertised, summarised and chosen is what the configuration alone says
\* (utils/model_restrictions.py).
THEOREM PolicyStability == Spec => []PolicyIsStable
<1>1. IInv => PolicyIsStable
  BY AdviceStable, PolicyFacts DEF IInv, TypeOK, PolicyIsStable
<1> QED  BY <1>1, Invariance, PTL

\* What clients are told of models can be called, summaries name exactly the models that
\* the advertised names stand for, and auto mode takes what is advertised or preferred
\* (tools/listmodels.py, tools/shared/base_tool.py, providers/registry.py).
THEOREM AdviceSoundness == Spec => []AdviceIsSound
<1>1. IInv => AdviceIsSound
  BY AdviceSound, PolicyFacts DEF IInv, TypeOK
<1> QED  BY <1>1, Invariance, PTL

\* Whatever a request asks for and whatever else the server was asked meanwhile, its call
\* goes to a model that the configuration permits (server.py, providers/registry.py).
THEOREM ChoiceIsPermitted == Spec => []ChosenIsPermitted
<1>1. IInv => ChosenIsPermitted
  <2>1. IInv => Available(policy, st) = Available(policy, policy.allow)
    BY AdviceStable, PolicyFacts DEF IInv, TypeOK
  <2> QED  BY <2>1 DEF IInv, PreparedIsPermitted, ChosenIsPermitted
<1> QED  BY <1>1, Invariance, PTL

\* What was prepared stays what was chosen, fitted and sent until the request ends, a retry
\* with a longer prompt included.
THEOREM SentInvariance == Spec => []SentInv
<1>1. Init => SentInv
  BY DEF Init, SentInv
<1>2. IInv /\ SentInv /\ [Next]_vars /\ IInv' => SentInv'
  BY SentStep
<1> QED  BY <1>1, <1>2, Invariance, PTL DEF Spec

\* What goes out is what the chosen model takes and, with the answer it reserves, fits its
\* window; a provider only refuses what its catalog says too little of (tools/simple/base.py,
\* utils/request_budget.py and the providers).
THEOREM SendingIsAcceptable == Spec => []SentIsAcceptable
<1>1. IInv /\ SentInv => SentIsAcceptable
  BY SentIsAcceptableFollows DEF IInv
<1> QED  BY <1>1, Invariance, SentInvariance, PTL

\* What is asked for now is in the prompt, once, however it is spelled and whatever else
\* competes with it; and files are fitted to what the rest leaves (utils/file_utils.py,
\* utils/file_budget.py, utils/conversation_context.py).
THEOREM FilesFit == Spec => []FilesAreFitted
<1>1. SentInv => FilesAreFitted
  BY DEF SentInv, FilesAreFitted
<1> QED  BY <1>1, SentInvariance, PTL
=============================================================================
