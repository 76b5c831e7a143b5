------------------------ MODULE TranscriptFile_proof ------------------------
(***************************************************************************)
(* Proofs about TranscriptFile, for any number of events and any limits of *)
(* the reader: what was stored can be read, the file implements AuditLog,  *)
(* and the bounded reader is honest.                                       *)
(*                                                                         *)
(* Records are sets of positions, so that two facts carry everything: a    *)
(* file that grows keeps its records and adds later ones (RecordsGrow),    *)
(* and the bytes of a file never go back to an earlier event (Sound).      *)
(* Facts one would show by induction are shown by a least counterexample.  *)
(***************************************************************************)
EXTENDS TranscriptFile, FiniteSetTheorems, SequenceTheorems, TLAPS

----------------------------------------------------------------------------
(* Numbers in order.                                                       *)

\* A set of numbers that is not empty has a least one.

LEMMA LeastNatural ==
    ASSUME NEW S \in SUBSET Nat, S # {}
    PROVE  \E m \in S : \A n \in S : m <= n
<1> DEFINE R == OpToRel(<, Nat)
<1>1. IsWellFoundedOn(R, Nat)
  BY NatLessThanWellFounded
<1>2. PICK m \in S : \A n \in S : <<n, m>> \notin R
  BY <1>1, WFMin
<1>3. \A n \in S : ~(n < m)
  BY <1>2 DEF OpToRel
<1> QED  BY <1>3

\* The place of a number in a set.
Below(S, i) == {j \in S : j < i}
Rank(S, i) == Cardinality(Below(S, i))

LEMMA RankGrows ==
    ASSUME NEW S \in SUBSET Nat, IsFiniteSet(S)
    PROVE  /\ Cardinality(S) \in Nat
           /\ \A i \in Nat : Rank(S, i) \in Nat
           /\ \A i \in S : Rank(S, i) < Cardinality(S)
           /\ \A i, j \in S : i < j => Rank(S, i) < Rank(S, j)
<1>0. \A i \in S : i \in Nat
  OBVIOUS
<1>1. \A i \in Nat : Below(S, i) \in SUBSET S /\ IsFiniteSet(Below(S, i))
  BY FS_Subset DEF Below
<1>2. Cardinality(S) \in Nat /\ \A i \in Nat : Rank(S, i) \in Nat
  BY <1>1, FS_CardinalityType DEF Rank
<1>3. ASSUME NEW i \in S
      PROVE  /\ IsFiniteSet(Below(S, i) \cup {i})
             /\ Cardinality(Below(S, i) \cup {i}) = Rank(S, i) + 1
  <2>1. i \notin Below(S, i) /\ i \in Nat
    BY DEF Below
  <2> QED  BY <1>1, <2>1, FS_AddElement DEF Rank
<1>4. ASSUME NEW i \in S  PROVE  Rank(S, i) < Cardinality(S)
  <2>1. Below(S, i) \cup {i} \in SUBSET S
    BY DEF Below
  <2>2. Cardinality(Below(S, i) \cup {i}) <= Cardinality(S)
    BY <2>1, FS_Subset
  <2> QED  BY <1>0, <1>2, <1>3, <2>2
<1>5. ASSUME NEW i \in S, NEW j \in S, i < j  PROVE  Rank(S, i) < Rank(S, j)
  <2>1. \A k \in Below(S, i) \cup {i} : k \in S /\ k < j
    BY <1>0, <1>5 DEF Below
  <2>2. Below(S, i) \cup {i} \in SUBSET Below(S, j)
    BY <2>1 DEF Below
  <2>3. Cardinality(Below(S, i) \cup {i}) <= Cardinality(Below(S, j))
    BY <1>0, <1>1, <2>2, FS_Subset
  <2>4. Rank(S, i) + 1 <= Rank(S, j)
    BY <1>3, <2>3 DEF Rank
  <2> QED  BY <1>0, <1>2, <2>4
<1> QED  BY <1>2, <1>4, <1>5

LEMMA InOrderLists ==
    ASSUME NEW S \in SUBSET Nat, IsFiniteSet(S)
    PROVE  /\ \A n \in 1 .. Cardinality(S) :
                  InOrder(S)[n] \in S /\ Rank(S, InOrder(S)[n]) = n - 1
           /\ \A i \in S : Rank(S, i) + 1 \in 1 .. Cardinality(S) /\ InOrder(S)[Rank(S, i) + 1] = i
<1> DEFINE N == Cardinality(S)
           place == [i \in S |-> Rank(S, i) + 1]
<1>1. /\ N \in Nat /\ \A i \in S : Rank(S, i) \in Nat /\ Rank(S, i) < N
      /\ \A i, j \in S : i < j => Rank(S, i) < Rank(S, j)
  BY RankGrows
<1>2. place \in [S -> 1 .. N]
  BY <1>1
<1>3. \A i, j \in S : i # j => place[i] # place[j]
  <2> SUFFICES ASSUME NEW i \in S, NEW j \in S, i < j  PROVE  place[i] # place[j]
    OBVIOUS
  <2> QED  BY <1>1
<1>4. place \in Injection(S, 1 .. N)
  BY <1>2, <1>3 DEF Injection, IsInjective
<1>5. IsFiniteSet(1 .. N) /\ Cardinality(1 .. N) = N
  BY <1>1, FS_Interval
<1>6. place \in Surjection(S, 1 .. N)
  BY <1>4, <1>5, FS_Injection
<1>7. \A n \in 1 .. N : \E i \in S : place[i] = n
  BY <1>6 DEF Surjection
<1>8. ASSUME NEW n \in 1 .. N
      PROVE  InOrder(S)[n] \in S /\ Rank(S, InOrder(S)[n]) = n - 1
  <2>1. PICK i \in S : place[i] = n
    BY <1>7
  <2>2. Rank(S, i) = n - 1
    BY <1>1, <2>1
  <2>3. InOrder(S)[n] = CHOOSE k \in S : Rank(S, k) = n - 1
    BY DEF InOrder, Rank, Below
  <2> QED  BY <2>2, <2>3
<1>9. ASSUME NEW i \in S
      PROVE  Rank(S, i) + 1 \in 1 .. N /\ InOrder(S)[Rank(S, i) + 1] = i
  <2> DEFINE n == Rank(S, i) + 1
             k == InOrder(S)[n]
  <2>1. n \in 1 .. N
    BY <1>1
  <2>2. k \in S /\ Rank(S, k) = n - 1
    BY <1>8, <2>1
  <2>3. place[k] = place[i]
    BY <1>1, <2>2
  <2> HIDE DEF place, k
  <2>4. k = i
    BY <1>3, <2>2, <2>3
  <2> QED  BY <2>1, <2>4 DEF k
<1> QED  BY <1>8, <1>9

LEMMA InOrderIncreases ==
    ASSUME NEW S \in SUBSET Nat, IsFiniteSet(S),
           NEW m \in 1 .. Cardinality(S), NEW n \in 1 .. Cardinality(S), m < n
    PROVE  InOrder(S)[m] < InOrder(S)[n]
<1> DEFINE i == InOrder(S)[m]
           j == InOrder(S)[n]
<1>1. /\ i \in S /\ Rank(S, i) = m - 1
      /\ j \in S /\ Rank(S, j) = n - 1
  BY InOrderLists
<1>2. Cardinality(S) \in Nat
  BY RankGrows
<1>3. ~(Rank(S, j) < Rank(S, i)) /\ i # j
  BY <1>1, <1>2
<1>4. i \in Nat /\ j \in Nat
  BY <1>1
<1> HIDE DEF i, j
<1>5. ~(j < i)
  BY <1>1, <1>3, RankGrows
<1>6. i < j
  BY <1>3, <1>4, <1>5
<1> QED  BY <1>6 DEF i, j

LEMMA InOrderJoins ==
    ASSUME NEW S \in SUBSET Nat, IsFiniteSet(S), NEW T \in SUBSET Nat, IsFiniteSet(T),
           \A i \in S, j \in T : i < j
    PROVE  /\ Cardinality(S \cup T) = Cardinality(S) + Cardinality(T)
           /\ \A n \in 1 .. Cardinality(S) : InOrder(S \cup T)[n] = InOrder(S)[n]
           /\ \A n \in 1 .. Cardinality(T) :
                  InOrder(S \cup T)[Cardinality(S) + n] = InOrder(T)[n]
<1> DEFINE U == S \cup T
<1>1. S \cap T = {}
  OBVIOUS
<1>2. /\ U \in SUBSET Nat /\ IsFiniteSet(U)
      /\ Cardinality(S) \in Nat /\ Cardinality(T) \in Nat
      /\ Cardinality(U) = Cardinality(S) + Cardinality(T)
  <2>1. Cardinality(S \cap T) = 0
    BY <1>1, FS_EmptySet
  <2>2. Cardinality(S) \in Nat /\ Cardinality(T) \in Nat
    BY FS_CardinalityType
  <2>3. IsFiniteSet(U) /\ Cardinality(U) = Cardinality(S) + Cardinality(T) - Cardinality(S \cap T)
    BY FS_Union
  <2> QED  BY <2>1, <2>2, <2>3
<1>3. ASSUME NEW i \in S  PROVE  Rank(U, i) = Rank(S, i)
  <2>1. Below(U, i) = Below(S, i)
    <3>1. \A j \in T : ~(j < i)
      OBVIOUS
    <3> QED  BY <3>1 DEF Below
  <2> QED  BY <2>1 DEF Rank
<1>4. ASSUME NEW j \in T  PROVE  Rank(U, j) = Cardinality(S) + Rank(T, j)
  <2>1. Below(U, j) = S \cup Below(T, j) /\ S \cap Below(T, j) = {}
    BY <1>1 DEF Below
  <2>2. IsFiniteSet(Below(T, j))
    BY FS_Subset DEF Below
  <2>3. Cardinality(S \cap Below(T, j)) = 0
    BY <2>1, FS_EmptySet
  <2>4. Cardinality(Below(T, j)) \in Nat
    BY <2>2, FS_CardinalityType
  <2>5. Cardinality(S \cup Below(T, j)) = Cardinality(S) + Cardinality(Below(T, j)) - Cardinality(S \cap Below(T, j))
    BY <2>2, FS_Union
  <2>6. Rank(U, j) = Cardinality(S \cup Below(T, j)) /\ Rank(T, j) = Cardinality(Below(T, j))
    BY <2>1 DEF Rank
  <2> QED  BY <1>2, <2>3, <2>4, <2>5, <2>6
<1>5. ASSUME NEW n \in 1 .. Cardinality(S)  PROVE  InOrder(U)[n] = InOrder(S)[n]
  <2> DEFINE i == InOrder(S)[n]
  <2>1. i \in S /\ Rank(S, i) = n - 1
    BY InOrderLists
  <2> HIDE DEF i
  <2>2. InOrder(U)[Rank(U, i) + 1] = i
    BY <1>2, <2>1, InOrderLists
  <2>3. Rank(U, i) + 1 = n
    BY <1>2, <1>3, <2>1
  <2> QED  BY <2>2, <2>3 DEF i
<1>6. ASSUME NEW n \in 1 .. Cardinality(T)
      PROVE  InOrder(U)[Cardinality(S) + n] = InOrder(T)[n]
  <2> DEFINE i == InOrder(T)[n]
  <2>1. i \in T /\ Rank(T, i) = n - 1
    BY InOrderLists
  <2> HIDE DEF i
  <2>2. InOrder(U)[Rank(U, i) + 1] = i
    BY <1>2, <2>1, InOrderLists
  <2>3. Rank(U, i) = Cardinality(S) + Rank(T, i)
    BY <1>4, <2>1
  <2>4. n \in Nat /\ Rank(U, i) + 1 = Cardinality(S) + n
    BY <1>2, <2>1, <2>3
  <2> QED  BY <2>2, <2>4 DEF i
<1> QED  BY <1>2, <1>5, <1>6

----------------------------------------------------------------------------
(* Lines and records, as sets of positions.                                *)

Bytestring == Seq(Nat \X Nat)

RecordsIn(f) == {i \in Lines(f) : IsRecord(f, i)}

\* h has f for a prefix.
Extends(h, f) == Len(f) <= Len(h) /\ \A i \in 1 .. Len(f) : h[i] = f[i]

LEMMA LinesAreFinite ==
    ASSUME NEW f \in Bytestring, NEW S \in SUBSET Lines(f)
    PROVE  S \in SUBSET Nat /\ IsFiniteSet(S) /\ Cardinality(S) \in Nat
<1>1. Len(f) \in Nat
  BY DEF Bytestring
<1>2. IsFiniteSet(0 .. Len(f)) /\ S \in SUBSET (0 .. Len(f))
  BY <1>1, FS_Interval DEF Lines
<1>3. IsFiniteSet(S) /\ Cardinality(S) \in Nat
  BY <1>2, FS_Subset, FS_CardinalityType
<1> QED  BY <1>2, <1>3

LEMMA RecordBytes ==
    ASSUME NEW f \in Bytestring, NEW i \in Nat
    PROVE  IsRecord(f, i) <=>
               /\ i + 3 <= Len(f)
               /\ \E e \in 1 .. MaxEvents :
                      f[i + 1] = Byte(e, 1) /\ f[i + 2] = Byte(e, 2) /\ f[i + 3] = NL
<1> SUFFICES ASSUME i + 3 <= Len(f), NEW e \in 1 .. MaxEvents
             PROVE  SubSeq(f, i + 1, i + 3) = Event(e) <=>
                        f[i + 1] = Byte(e, 1) /\ f[i + 2] = Byte(e, 2) /\ f[i + 3] = NL
  BY DEF IsRecord
<1> DEFINE s == SubSeq(f, i + 1, i + 3)
<1>1. /\ s \in Seq(Nat \X Nat) /\ Len(s) = 3
      /\ s[1] = f[i + 1] /\ s[2] = f[i + 2] /\ s[3] = f[i + 3]
  BY DEF Bytestring
<1>2. /\ Event(e) \in Seq(Nat \X Nat) /\ Len(Event(e)) = 3
      /\ Event(e)[1] = Byte(e, 1) /\ Event(e)[2] = Byte(e, 2) /\ Event(e)[3] = NL
  <2>1. Byte(e, 1) \in Nat \X Nat /\ Byte(e, 2) \in Nat \X Nat /\ NL \in Nat \X Nat
    BY DEF Byte, NL
  <2> QED  BY <2>1 DEF Event
<1> HIDE DEF s
<1>3. s = Event(e) <=> \A k \in 1 .. 3 : s[k] = Event(e)[k]
  <2>1. ASSUME \A k \in 1 .. 3 : s[k] = Event(e)[k]  PROVE  s = Event(e)
    BY <1>1, <1>2, <2>1, SeqEqual
  <2> QED  BY <2>1
<1> QED  BY <1>1, <1>2, <1>3 DEF s

LEMMA EventsAre ==
    ASSUME NEW f \in Bytestring, NEW i \in RecordsIn(f)
    PROVE  /\ i \in Nat /\ i + 3 <= Len(f) /\ EventOf(f, i) \in 1 .. MaxEvents
           /\ f[i + 1] = Byte(EventOf(f, i), 1) /\ f[i + 2] = Byte(EventOf(f, i), 2)
           /\ f[i + 3] = NL
<1>1. i \in Nat /\ IsRecord(f, i)
  BY DEF RecordsIn, Lines
<1>2. PICK e \in 1 .. MaxEvents :
          f[i + 1] = Byte(e, 1) /\ f[i + 2] = Byte(e, 2) /\ f[i + 3] = NL
  BY <1>1, RecordBytes
<1>3. EventOf(f, i) = e
  BY <1>2 DEF EventOf, Byte
<1> QED  BY <1>1, <1>2, <1>3, RecordBytes

\* What a prefix has for records the whole has too, with the same events.
LEMMA PrefixRecords ==
    ASSUME NEW f \in Bytestring, NEW h \in Bytestring, Extends(h, f)
    PROVE  /\ RecordsIn(f) \subseteq RecordsIn(h)
           /\ \A i \in RecordsIn(f) : EventOf(h, i) = EventOf(f, i)
           /\ \A i \in RecordsIn(h) : i + 3 <= Len(f) => i \in RecordsIn(f)
<1>1. Len(f) \in Nat /\ Len(h) \in Nat
  BY DEF Bytestring
<1>2. ASSUME NEW i \in Nat, i + 3 <= Len(f)
      PROVE  /\ i \in Lines(f) <=> i \in Lines(h)
             /\ IsRecord(f, i) <=> IsRecord(h, i)
             /\ EventOf(f, i) = EventOf(h, i)
  <2>1. /\ i \in 0 .. Len(f) /\ i \in 0 .. Len(h) /\ i < Len(f) /\ i < Len(h)
        /\ i # 0 => f[i] = h[i]
        /\ i + 3 <= Len(h)
        /\ f[i + 1] = h[i + 1] /\ f[i + 2] = h[i + 2] /\ f[i + 3] = h[i + 3]
    BY <1>1, <1>2 DEF Extends
  <2>2. i \in Lines(f) <=> i \in Lines(h)
    BY <2>1 DEF Lines
  <2>3. IsRecord(f, i) <=> IsRecord(h, i)
    BY <2>1, <1>2, RecordBytes
  <2> QED  BY <2>1, <2>2, <2>3 DEF EventOf
<1>3. \A i \in RecordsIn(f) : i \in Nat /\ i + 3 <= Len(f)
  BY EventsAre
<1>4. \A i \in RecordsIn(h) : i \in Nat
  BY EventsAre
<1> QED  BY <1>2, <1>3, <1>4 DEF RecordsIn

----------------------------------------------------------------------------
(* What is read is a sequence of events, and grows with the file.          *)

LEMMA EventsOfType ==
    ASSUME NEW f \in Bytestring, NEW S \in SUBSET RecordsIn(f)
    PROVE  /\ EventsOf(f, S) \in Seq(1 .. MaxEvents)
           /\ Len(EventsOf(f, S)) = Cardinality(S)
           /\ \A n \in 1 .. Cardinality(S) :
                  InOrder(S)[n] \in S /\ EventsOf(f, S)[n] = EventOf(f, InOrder(S)[n])
<1>1. S \in SUBSET Nat /\ IsFiniteSet(S) /\ Cardinality(S) \in Nat
  BY LinesAreFinite DEF RecordsIn
<1>2. \A n \in 1 .. Cardinality(S) : InOrder(S)[n] \in S
  BY <1>1, InOrderLists
<1>3. \A n \in 1 .. Cardinality(S) : EventOf(f, InOrder(S)[n]) \in 1 .. MaxEvents
  BY <1>2, EventsAre
<1> DEFINE n == Cardinality(S)
           e(k) == EventOf(f, InOrder(S)[k])
<1>4. n \in Nat /\ \A k \in 1 .. n : e(k) \in 1 .. MaxEvents
  BY <1>1, <1>3
<1>5. EventsOf(f, S) = [k \in 1 .. n |-> e(k)]
  BY DEF EventsOf
<1> HIDE DEF n, e
<1>6. EventsOf(f, S) \in Seq(1 .. MaxEvents)
  BY <1>4, <1>5, IsASeq
<1>7. Len(EventsOf(f, S)) = n /\ \A k \in 1 .. n : EventsOf(f, S)[k] = e(k)
  BY <1>4, <1>5
<1> QED  BY <1>2, <1>6, <1>7 DEF n, e

LEMMA EventsOfJoin ==
    ASSUME NEW f \in Bytestring, NEW S \in SUBSET RecordsIn(f), NEW T \in SUBSET RecordsIn(f),
           \A i \in S, j \in T : i < j
    PROVE  EventsOf(f, S \cup T) = EventsOf(f, S) \o EventsOf(f, T)
<1>1. /\ S \in SUBSET Nat /\ IsFiniteSet(S) /\ Cardinality(S) \in Nat
      /\ T \in SUBSET Nat /\ IsFiniteSet(T) /\ Cardinality(T) \in Nat
  BY LinesAreFinite DEF RecordsIn
<1>2. /\ Cardinality(S \cup T) = Cardinality(S) + Cardinality(T)
      /\ \A n \in 1 .. Cardinality(S) : InOrder(S \cup T)[n] = InOrder(S)[n]
      /\ \A n \in 1 .. Cardinality(T) :
             InOrder(S \cup T)[Cardinality(S) + n] = InOrder(T)[n]
  BY <1>1, InOrderJoins
<1> DEFINE u == EventsOf(f, S \cup T)
           s == EventsOf(f, S)
           t == EventsOf(f, T)
<1>3. /\ u \in Seq(1 .. MaxEvents) /\ Len(u) = Cardinality(S \cup T)
      /\ s \in Seq(1 .. MaxEvents) /\ Len(s) = Cardinality(S)
      /\ t \in Seq(1 .. MaxEvents) /\ Len(t) = Cardinality(T)
      /\ \A n \in 1 .. Cardinality(S \cup T) : u[n] = EventOf(f, InOrder(S \cup T)[n])
      /\ \A n \in 1 .. Cardinality(S) : s[n] = EventOf(f, InOrder(S)[n])
      /\ \A n \in 1 .. Cardinality(T) : t[n] = EventOf(f, InOrder(T)[n])
  <2>1. S \cup T \in SUBSET RecordsIn(f)
    OBVIOUS
  <2> QED  BY <2>1, EventsOfType
<1> HIDE DEF u, s, t
<1>4. /\ Len(u) = Len(s) + Len(t)
      /\ \A n \in 1 .. Len(s) : u[n] = s[n]
  <2>1. Len(u) = Len(s) + Len(t)
    BY <1>2, <1>3
  <2>2. \A n \in 1 .. Cardinality(S) : n \in 1 .. Cardinality(S \cup T)
    BY <1>1, <1>2
  <2> QED  BY <1>2, <1>3, <2>1, <2>2
<1>5. \A n \in 1 .. Len(t) : u[Len(s) + n] = t[n]
  <2> SUFFICES ASSUME NEW n \in 1 .. Cardinality(T)  PROVE  u[Cardinality(S) + n] = t[n]
    BY <1>3
  <2>1. Cardinality(S) + n \in 1 .. Cardinality(S \cup T)
    BY <1>1, <1>2
  <2> QED  BY <1>2, <1>3, <2>1
<1>6. /\ s \o t \in Seq(1 .. MaxEvents) /\ Len(s \o t) = Len(s) + Len(t)
      /\ \A n \in 1 .. Len(s) + Len(t) :
             (s \o t)[n] = IF n <= Len(s) THEN s[n] ELSE t[n - Len(s)]
  BY <1>3, ConcatProperties
<1>7. Len(s) \in Nat /\ Len(t) \in Nat
  BY <1>1, <1>3
<1>8. ASSUME NEW n \in 1 .. Len(u)  PROVE  u[n] = (s \o t)[n]
  <2>1. CASE n <= Len(s)
    BY <1>4, <1>6, <1>7, <2>1
  <2>2. CASE n > Len(s)
    <3>1. n - Len(s) \in 1 .. Len(t) /\ Len(s) + (n - Len(s)) = n
      BY <1>4, <1>7, <2>2
    <3>2. u[n] = t[n - Len(s)]
      BY <1>5, <3>1
    <3>3. (s \o t)[n] = t[n - Len(s)]
      BY <1>4, <1>6, <1>7, <2>2
    <3> QED  BY <3>2, <3>3
  <2>3. n <= Len(s) \/ n > Len(s)
    BY <1>4, <1>7
  <2> QED  BY ONLY <2>1, <2>2, <2>3
<1>9. u = s \o t
  BY <1>3, <1>4, <1>6, <1>8, SeqEqual
<1> QED  BY <1>9 DEF u, s, t

LEMMA EventsOfAgree ==
    ASSUME NEW f \in Bytestring, NEW h \in Bytestring,
           NEW S \in SUBSET RecordsIn(f), S \in SUBSET RecordsIn(h),
           \A i \in S : EventOf(f, i) = EventOf(h, i)
    PROVE  EventsOf(f, S) = EventsOf(h, S)
<1>1. \A n \in 1 .. Cardinality(S) : InOrder(S)[n] \in S
  BY EventsOfType
<1> QED  BY <1>1 DEF EventsOf

LEMMA RecordsGrow ==
    ASSUME NEW f \in Bytestring, NEW h \in Bytestring, Extends(h, f)
    PROVE  Records(h) = Records(f) \o EventsOf(h, RecordsIn(h) \ RecordsIn(f))
<1> DEFINE S == RecordsIn(f)
           T == RecordsIn(h) \ S
<1>1. /\ S \subseteq RecordsIn(h) /\ RecordsIn(h) = S \cup T
      /\ \A i \in S : EventOf(f, i) = EventOf(h, i)
  BY PrefixRecords
<1>2. \A i \in S, j \in T : i < j
  <2>1. \A i \in S : i \in Nat /\ i + 3 <= Len(f)
    BY EventsAre
  <2>2. \A j \in T : j \in Nat /\ ~(j + 3 <= Len(f))
    BY PrefixRecords, EventsAre
  <2>3. Len(f) \in Nat
    BY DEF Bytestring
  <2> QED  BY <2>1, <2>2, <2>3
<1>3. EventsOf(h, S \cup T) = EventsOf(h, S) \o EventsOf(h, T)
  BY <1>1, <1>2, EventsOfJoin
<1>4. EventsOf(h, S) = EventsOf(f, S)
  BY <1>1, EventsOfAgree
<1>5. Records(h) = EventsOf(h, S \cup T) /\ Records(f) = EventsOf(f, S)
  BY <1>1 DEF Records, RecordsIn
<1> QED  BY <1>3, <1>4, <1>5

----------------------------------------------------------------------------
(* The bytes of a file: of events up to m, each at most once, in order.    *)

Earlier(b, c) == b[1] < c[1] \/ (b[1] = c[1] /\ b[2] < c[2])

Sound(f, m) ==
    /\ f \in Bytestring
    /\ \A i \in 1 .. Len(f) : f[i] # NL => f[i][1] \in 1 .. m /\ f[i][2] \in {1, 2}
    /\ \A i, j \in 1 .. Len(f) : i < j /\ f[i] # NL /\ f[j] # NL => Earlier(f[i], f[j])
    /\ Len(f) > 0 => f[1] # NL

LEMMA EventsIncrease ==
    ASSUME NEW f, NEW m \in Nat, Sound(f, m), NEW S \in SUBSET RecordsIn(f)
    PROVE  Audit!Increasing(EventsOf(f, S))
<1> DEFINE s == EventsOf(f, S)
<1>1. /\ f \in Bytestring /\ Len(f) \in Nat /\ S \in SUBSET Nat /\ IsFiniteSet(S)
      /\ Cardinality(S) \in Nat
  <2>1. f \in Bytestring /\ Len(f) \in Nat
    BY DEF Sound, Bytestring
  <2>2. S \in SUBSET Lines(f)
    BY DEF RecordsIn
  <2> QED  BY <2>1, <2>2, LinesAreFinite
<1>2. /\ s \in Seq(1 .. MaxEvents) /\ Len(s) = Cardinality(S)
      /\ \A n \in 1 .. Cardinality(S) : InOrder(S)[n] \in S /\ s[n] = EventOf(f, InOrder(S)[n])
  BY <1>1, EventsOfType
<1> HIDE DEF s
<1>3. ASSUME NEW i \in S, NEW j \in S, i < j  PROVE  EventOf(f, i) < EventOf(f, j)
  <2>1. /\ i \in Nat /\ i + 3 <= Len(f) /\ EventOf(f, i) \in 1 .. MaxEvents
        /\ f[i + 1] = Byte(EventOf(f, i), 1)
    BY <1>1, EventsAre
  <2>2. /\ j \in Nat /\ j + 3 <= Len(f) /\ EventOf(f, j) \in 1 .. MaxEvents
        /\ f[j + 1] = Byte(EventOf(f, j), 1)
    BY <1>1, EventsAre
  <2>3. f[i + 1] # NL /\ f[j + 1] # NL
    BY <2>1, <2>2 DEF Byte, NL
  <2>4. i + 1 \in 1 .. Len(f) /\ j + 1 \in 1 .. Len(f) /\ i + 1 < j + 1
    BY <1>1, <1>3, <2>1, <2>2
  <2>5. Earlier(f[i + 1], f[j + 1])
    BY <2>3, <2>4 DEF Sound
  <2> QED  BY <2>1, <2>2, <2>5 DEF Earlier, Byte
<1>4. ASSUME NEW a \in DOMAIN s, NEW b \in DOMAIN s, a < b  PROVE  s[a] < s[b]
  <2>1. a \in 1 .. Cardinality(S) /\ b \in 1 .. Cardinality(S)
    BY <1>2
  <2>2. InOrder(S)[a] < InOrder(S)[b]
    BY <1>1, <1>4, <2>1, InOrderIncreases
  <2> QED  BY <1>2, <1>3, <2>1, <2>2
<1> QED  BY <1>4 DEF Audit!Increasing, s

\* There are no more increments than events.
LEMMA IncreasingIsShort ==
    ASSUME NEW s \in Seq(1 .. MaxEvents), Audit!Increasing(s), s # << >>
    PROVE  s \in Audit!Increments
<1>1. /\ Len(s) \in Nat /\ DOMAIN s = 1 .. Len(s) /\ s \in [1 .. Len(s) -> 1 .. MaxEvents]
      /\ MaxEvents \in Nat
  BY LimitsAssumption
<1>2. \A a, b \in 1 .. Len(s) : a # b => s[a] # s[b]
  <2> SUFFICES ASSUME NEW a \in 1 .. Len(s), NEW b \in 1 .. Len(s), a < b  PROVE  s[a] # s[b]
    BY <1>1
  <2>1. s[a] < s[b]
    BY <1>1 DEF Audit!Increasing
  <2> QED  BY <1>1, <2>1
<1>3. s \in Injection(1 .. Len(s), 1 .. MaxEvents)
  BY <1>1, <1>2 DEF Injection, IsInjective
<1>4. /\ IsFiniteSet(1 .. MaxEvents) /\ Cardinality(1 .. MaxEvents) = MaxEvents
      /\ Cardinality(1 .. Len(s)) = Len(s)
  <2>1. \A n \in Nat : IsFiniteSet(1 .. n) /\ Cardinality(1 .. n) = IF 1 > n THEN 0 ELSE n - 1 + 1
    BY FS_Interval
  <2>2. \A n \in Nat : Cardinality(1 .. n) = n
    BY <2>1
  <2> QED  BY <1>1, <2>1, <2>2
<1>5. Len(s) <= MaxEvents
  BY <1>3, <1>4, FS_Injection
<1>6. Len(s) \in 1 .. MaxEvents
  BY <1>1, <1>5, EmptySeq
<1>7. s \in {t \in [1 .. Len(s) -> 1 .. MaxEvents] : Audit!Increasing(t)}
  BY <1>1
<1> QED  BY <1>6, <1>7 DEF Audit!Increments

\* A file that grows, soundly, shows its readers what the audit log allows.
LEMMA GrowthExtends ==
    ASSUME NEW f \in Bytestring, NEW h, NEW m \in Nat, Sound(h, m), Extends(h, f)
    PROVE  \/ Records(h) = Records(f)
           \/ \E s \in Audit!Increments :
                  /\ s # << >> /\ Audit!Increasing(Records(f) \o s)
                  /\ Records(h) = Records(f) \o s
<1> DEFINE s == EventsOf(h, RecordsIn(h) \ RecordsIn(f))
<1>1. h \in Bytestring
  BY DEF Sound
<1>2. Records(h) = Records(f) \o s
  BY <1>1, RecordsGrow
<1>3. s \in Seq(1 .. MaxEvents) /\ Audit!Increasing(s)
  BY <1>1, EventsOfType, EventsIncrease
<1>4. Audit!Increasing(Records(h))
  BY EventsIncrease DEF Records, RecordsIn
<1>5. Records(f) \in Seq(1 .. MaxEvents)
  BY EventsOfType DEF Records, RecordsIn
<1> HIDE DEF s
<1>6. CASE s = << >>
  BY <1>2, <1>5, <1>6, ConcatEmptySeq
<1>7. CASE s # << >>
  BY <1>2, <1>3, <1>4, <1>7, IncreasingIsShort
<1> QED  BY <1>6, <1>7

----------------------------------------------------------------------------
(* One append.                                                             *)

\* What is to be written behind p.
Appendix(p, e) == (IF p = << >> \/ p[Len(p)] = NL THEN << >> ELSE <<NL>>) \o Event(e)

\* f is p and the part of the appendix that has been written; the rest is left.
Appended(p, e, f, rest) ==
    /\ Extends(f, p)
    /\ Len(f) + Len(rest) = Len(p) + Len(Appendix(p, e))
    /\ \A i \in 1 .. Len(Appendix(p, e)) :
           Len(p) + i <= Len(f) => f[Len(p) + i] = Appendix(p, e)[i]
    /\ \A i \in 1 .. Len(rest) : rest[i] = Appendix(p, e)[Len(f) - Len(p) + i]

Closed(p) == p = << >> \/ p[Len(p)] = NL

LEMMA AppendixIs ==
    ASSUME NEW p \in Bytestring, NEW e \in Nat
    PROVE  /\ Appendix(p, e) \in Bytestring
           /\ Closed(p) => /\ Len(Appendix(p, e)) = 3
                           /\ Appendix(p, e)[1] = Byte(e, 1)
                           /\ Appendix(p, e)[2] = Byte(e, 2)
                           /\ Appendix(p, e)[3] = NL
           /\ ~Closed(p) => /\ Len(Appendix(p, e)) = 4
                            /\ Appendix(p, e)[1] = NL
                            /\ Appendix(p, e)[2] = Byte(e, 1)
                            /\ Appendix(p, e)[3] = Byte(e, 2)
                            /\ Appendix(p, e)[4] = NL
<1>1. Byte(e, 1) \in Nat \X Nat /\ Byte(e, 2) \in Nat \X Nat /\ NL \in Nat \X Nat
  BY DEF Byte, NL
<1>2. /\ Event(e) \in Seq(Nat \X Nat) /\ Len(Event(e)) = 3
      /\ Event(e)[1] = Byte(e, 1) /\ Event(e)[2] = Byte(e, 2) /\ Event(e)[3] = NL
  BY <1>1 DEF Event
<1>3. CASE Closed(p)
  <2>1. Appendix(p, e) = Event(e)
    BY <1>2, <1>3, ConcatEmptySeq DEF Appendix, Closed
  <2> QED  BY <1>2, <1>3, <2>1 DEF Bytestring
<1>4. CASE ~Closed(p)
  <2> DEFINE gap == <<NL>>
             w == gap \o Event(e)
  <2>1. Appendix(p, e) = w
    BY <1>4 DEF Appendix, Closed
  <2>2. gap \in Seq(Nat \X Nat) /\ Len(gap) = 1 /\ gap[1] = NL
    BY <1>1
  <2> HIDE DEF gap
  <2>3. /\ w \in Seq(Nat \X Nat) /\ Len(w) = 4
        /\ \A i \in 1 .. 4 : w[i] = IF i <= 1 THEN gap[i] ELSE Event(e)[i - 1]
    <3>1. /\ w \in Seq(Nat \X Nat) /\ Len(w) = Len(gap) + Len(Event(e))
          /\ \A i \in 1 .. Len(gap) + Len(Event(e)) :
                 w[i] = IF i <= Len(gap) THEN gap[i] ELSE Event(e)[i - Len(gap)]
      BY <1>2, <2>2, ConcatProperties
    <3>2. Len(gap) = 1 /\ Len(Event(e)) = 3 /\ 1 + 3 = 4
      BY <1>2, <2>2
    <3> QED  BY <3>1, <3>2
  <2> HIDE DEF w
  <2>4. w[1] = gap[1] /\ w[2] = Event(e)[1] /\ w[3] = Event(e)[2] /\ w[4] = Event(e)[3]
    BY <2>3
  <2> QED  BY <1>2, <1>4, <2>1, <2>2, <2>3, <2>4 DEF Bytestring
<1> QED  BY <1>3, <1>4

LEMMA AppendedIsSound ==
    ASSUME NEW p, NEW e \in 1 .. MaxEvents, Sound(p, e - 1),
           NEW f \in Bytestring, NEW rest \in Bytestring, Appended(p, e, f, rest)
    PROVE  Sound(f, e)
<1> DEFINE w == Appendix(p, e)
           n == Len(p)
<1>1. /\ p \in Bytestring /\ n \in Nat /\ Len(f) \in Nat /\ Len(rest) \in Nat
      /\ e \in Nat /\ MaxEvents \in Nat
  BY LimitsAssumption DEF Sound, Bytestring
<1>2. w \in Bytestring /\ Len(w) \in {3, 4}
  BY <1>1, AppendixIs
<1>3. /\ n <= Len(f) /\ \A i \in 1 .. n : f[i] = p[i]
      /\ \A i \in 1 .. Len(w) : n + i <= Len(f) => f[n + i] = w[i]
      /\ Len(f) <= n + Len(w)
  BY <1>1, <1>2 DEF Appended, Extends
<1>4. \A i \in 1 .. Len(w) : w[i] # NL => w[i][1] = e /\ w[i][2] \in {1, 2}
  <2>1. Byte(e, 1)[1] = e /\ Byte(e, 1)[2] = 1 /\ Byte(e, 2)[1] = e /\ Byte(e, 2)[2] = 2
    BY DEF Byte
  <2>2. \A i \in 1 .. Len(w) : w[i] \in {NL, Byte(e, 1), Byte(e, 2)}
    <3>1. CASE Closed(p)
      <4>1. Len(w) = 3 /\ w[1] = Byte(e, 1) /\ w[2] = Byte(e, 2) /\ w[3] = NL
        BY <1>1, <3>1, AppendixIs
      <4> QED  BY <4>1
    <3>2. CASE ~Closed(p)
      <4>1. Len(w) = 4 /\ w[1] = NL /\ w[2] = Byte(e, 1) /\ w[3] = Byte(e, 2) /\ w[4] = NL
        BY <1>1, <3>2, AppendixIs
      <4> QED  BY <4>1
    <3> QED  BY <3>1, <3>2
  <2> QED  BY <2>1, <2>2
<1>5. \A i, j \in 1 .. Len(w) :
          i < j /\ w[i] # NL /\ w[j] # NL => Earlier(w[i], w[j])
  <2>1. Earlier(Byte(e, 1), Byte(e, 2))
    BY DEF Byte, Earlier
  <2>2. CASE Closed(p)
    <3>1. /\ Len(w) = 3 /\ w[1] = Byte(e, 1) /\ w[2] = Byte(e, 2) /\ w[3] = NL
      BY <1>1, <2>2, AppendixIs
    <3>2. \A i, j \in 1 .. 3 : i < j /\ j # 3 => i = 1 /\ j = 2
      OBVIOUS
    <3> QED  BY <2>1, <3>1, <3>2
  <2>3. CASE ~Closed(p)
    <3>1. /\ Len(w) = 4 /\ w[1] = NL /\ w[2] = Byte(e, 1) /\ w[3] = Byte(e, 2) /\ w[4] = NL
      BY <1>1, <2>3, AppendixIs
    <3>2. \A i, j \in 1 .. 4 : i < j /\ i # 1 /\ j # 4 => i = 2 /\ j = 3
      OBVIOUS
    <3> QED  BY <2>1, <3>1, <3>2
  <2> QED  BY <2>2, <2>3
<1>6. w[1] # NL \/ n > 0
  <2>1. CASE Closed(p)
    BY <1>1, <2>1, AppendixIs DEF Byte, NL
  <2>2. CASE ~Closed(p)
    BY <1>1, <2>2, EmptySeq DEF Closed, Bytestring
  <2> QED  BY <2>1, <2>2
<1> HIDE DEF w, n
<1>7. ASSUME NEW i \in 1 .. Len(f)
      PROVE  \/ i \in 1 .. n /\ f[i] = p[i]
             \/ i - n \in 1 .. Len(w) /\ f[i] = w[i - n]
  <2>1. CASE i <= n
    BY <1>1, <1>3, <2>1
  <2>2. CASE i > n
    <3>1. i - n \in 1 .. Len(w) /\ n + (i - n) = i
      BY <1>1, <1>2, <1>3, <2>2
    <3>2. f[n + (i - n)] = w[i - n]
      BY <1>1, <1>3, <3>1
    <3> QED  BY <3>1, <3>2
  <2> QED  BY <1>1, <2>1, <2>2
<1>8. ASSUME NEW i \in 1 .. n, p[i] # NL  PROVE  p[i][1] \in 1 .. (e - 1) /\ p[i][2] \in {1, 2}
  BY <1>8 DEF Sound, n
<1>9. ASSUME NEW i \in 1 .. Len(f), f[i] # NL  PROVE  f[i][1] \in 1 .. e /\ f[i][2] \in {1, 2}
  <2>1. CASE i \in 1 .. n /\ f[i] = p[i]
    BY <1>1, <1>8, <1>9, <2>1
  <2>2. CASE i - n \in 1 .. Len(w) /\ f[i] = w[i - n]
    BY <1>1, <1>4, <1>9, <2>2
  <2> QED  BY <1>7, <2>1, <2>2
<1>10. ASSUME NEW i \in 1 .. Len(f), NEW j \in 1 .. Len(f), i < j, f[i] # NL, f[j] # NL
       PROVE  Earlier(f[i], f[j])
  <2>1. CASE i \in 1 .. n /\ f[i] = p[i] /\ j \in 1 .. n /\ f[j] = p[j]
    BY <1>10, <2>1 DEF Sound, n
  <2>2. CASE i \in 1 .. n /\ f[i] = p[i] /\ j - n \in 1 .. Len(w) /\ f[j] = w[j - n]
    <3>1. f[i][1] \in 1 .. (e - 1) /\ f[j][1] = e
      BY <1>4, <1>8, <1>10, <2>2
    <3>2. f[i][1] < f[j][1]
      BY <1>1, <3>1
    <3> QED  BY <3>2 DEF Earlier
  <2>3. CASE i - n \in 1 .. Len(w) /\ f[i] = w[i - n] /\ j - n \in 1 .. Len(w) /\ f[j] = w[j - n]
    <3>1. i - n < j - n
      BY <1>1, <1>10
    <3> QED  BY <1>5, <1>10, <2>3, <3>1
  <2>4. ~(i - n \in 1 .. Len(w) /\ j \in 1 .. n)
    BY <1>1, <1>2, <1>10
  <2> QED  BY <1>7, <2>1, <2>2, <2>3, <2>4
<1>11. Len(f) > 0 => f[1] # NL
  <2>1. CASE n > 0
    <3>1. 1 \in 1 .. n /\ p[1] # NL
      BY <1>1, <2>1 DEF Sound, n
    <3> QED  BY <1>3, <3>1
  <2>2. CASE n = 0
    BY <1>1, <1>2, <1>3, <1>6, <2>2
  <2> QED  BY <1>1, <2>1, <2>2
<1> QED  BY <1>9, <1>10, <1>11 DEF Sound

LEMMA AppendedGrows ==
    ASSUME NEW p \in Bytestring, NEW e \in Nat, NEW f \in Bytestring, NEW rest \in Bytestring,
           Appended(p, e, f, rest), NEW n \in 1 .. Len(rest)
    PROVE  /\ f \o SubSeq(rest, 1, n) \in Bytestring
           /\ SubSeq(rest, n + 1, Len(rest)) \in Bytestring
           /\ Appended(p, e, f \o SubSeq(rest, 1, n), SubSeq(rest, n + 1, Len(rest)))
<1> DEFINE w == Appendix(p, e)
           part == SubSeq(rest, 1, n)
           left == SubSeq(rest, n + 1, Len(rest))
           g == f \o part
<1>1. w \in Bytestring
  BY AppendixIs
<1>2. /\ Len(f) \in Nat /\ Len(rest) \in Nat /\ Len(p) \in Nat /\ Len(w) \in Nat
      /\ n \in Nat /\ 1 <= n /\ n <= Len(rest)
  BY <1>1 DEF Bytestring
<1>3. /\ Len(p) <= Len(f) /\ \A i \in 1 .. Len(p) : f[i] = p[i]
      /\ Len(f) + Len(rest) = Len(p) + Len(w)
      /\ \A i \in 1 .. Len(w) : Len(p) + i <= Len(f) => f[Len(p) + i] = w[i]
      /\ \A i \in 1 .. Len(rest) : rest[i] = w[Len(f) - Len(p) + i]
  BY DEF Appended, Extends
<1>4. part \in Bytestring /\ Len(part) = n /\ \A i \in 1 .. n : part[i] = rest[i]
  BY <1>2 DEF Bytestring
<1>5. /\ left \in Bytestring /\ Len(left) = Len(rest) - n
      /\ \A i \in 1 .. Len(rest) - n : left[i] = rest[n + i]
  <2>1. \A i \in (n + 1) .. Len(rest) : rest[i] \in Nat \X Nat
    BY <1>2 DEF Bytestring
  <2>2. /\ left \in Seq(Nat \X Nat)
        /\ Len(left) = IF n + 1 <= Len(rest) THEN Len(rest) - (n + 1) + 1 ELSE 0
        /\ \A i \in 1 .. Len(rest) - (n + 1) + 1 : left[i] = rest[(n + 1) + i - 1]
    BY <1>2, <2>1, SubSeqProperties
  <2> HIDE DEF left
  <2>3. Len(rest) - (n + 1) + 1 = Len(rest) - n /\ \A i \in Int : (n + 1) + i - 1 = n + i
    BY <1>2
  <2>4. Len(left) = Len(rest) - n
    BY <1>2, <2>2
  <2>5. \A i \in 1 .. Len(rest) - n : left[i] = rest[n + i]
    <3> SUFFICES ASSUME NEW i \in 1 .. Len(rest) - n  PROVE  left[i] = rest[n + i]
      OBVIOUS
    <3>1. left[i] = rest[(n + 1) + i - 1]
      BY <2>2, <2>3
    <3>2. (n + 1) + i - 1 = n + i
      BY <1>2
    <3> QED  BY <3>1, <3>2
  <2> QED  BY <2>2, <2>4, <2>5 DEF Bytestring
<1> HIDE DEF w, part, left
<1>6. /\ g \in Seq(Nat \X Nat) /\ Len(g) = Len(f) + n
      /\ \A i \in 1 .. Len(f) + n : g[i] = IF i <= Len(f) THEN f[i] ELSE part[i - Len(f)]
  BY <1>4, ConcatProperties DEF Bytestring
<1> HIDE DEF g
<1>7. ASSUME NEW i \in 1 .. Len(f)  PROVE  g[i] = f[i]
  <2>1. i \in 1 .. Len(f) + n /\ i <= Len(f)
    BY <1>2
  <2> QED  BY <1>6, <2>1
<1>8. ASSUME NEW i \in 1 .. n  PROVE  g[Len(f) + i] = rest[i]
  <2>1. /\ Len(f) + i \in 1 .. Len(f) + n /\ ~(Len(f) + i <= Len(f))
        /\ (Len(f) + i) - Len(f) = i
    BY <1>2
  <2>2. g[Len(f) + i] = part[i]
    BY <1>6, <2>1
  <2> QED  BY <1>4, <2>2
<1>9. Extends(g, p)
  <2>1. \A i \in 1 .. Len(p) : i \in 1 .. Len(f)
    BY <1>2, <1>3
  <2>2. Len(p) <= Len(g)
    BY <1>2, <1>3, <1>6
  <2> QED  BY <1>3, <1>7, <2>1, <2>2 DEF Extends
<1>10. Len(f) + Len(rest) = Len(p) + Len(w) /\ Len(p) <= Len(f) /\ Len(g) = Len(f) + n
       /\ Len(g) + Len(left) = Len(p) + Len(w)
  <2>1. /\ Len(f) + Len(rest) = Len(p) + Len(w) /\ Len(p) <= Len(f)
        /\ Len(g) = Len(f) + n /\ Len(left) = Len(rest) - n
    BY <1>3, <1>5, <1>6
  <2> QED  BY <1>2, <2>1
<1>11. ASSUME NEW i \in 1 .. Len(w), Len(p) + i <= Len(g)  PROVE  g[Len(p) + i] = w[i]
  <2>1. CASE Len(p) + i <= Len(f)
    <3>1. Len(p) + i \in 1 .. Len(f)
      BY <1>2, <2>1
    <3> QED  BY <1>3, <1>7, <2>1, <3>1
  <2>2. CASE ~(Len(p) + i <= Len(f))
    <3> DEFINE k == Len(p) + i - Len(f)
    <3>1. /\ k \in 1 .. n /\ k \in 1 .. Len(rest) /\ Len(f) + k = Len(p) + i
          /\ Len(f) - Len(p) + k = i
      BY <1>2, <1>10, <1>11, <2>2
    <3> HIDE DEF k
    <3>2. g[Len(f) + k] = rest[k] /\ rest[k] = w[Len(f) - Len(p) + k]
      BY <1>3, <1>8, <3>1
    <3> QED  BY <3>1, <3>2
  <2> QED  BY <2>1, <2>2
<1>12. ASSUME NEW i \in 1 .. Len(left)  PROVE  left[i] = w[Len(g) - Len(p) + i]
  <2>1. /\ i \in 1 .. Len(rest) - n /\ n + i \in 1 .. Len(rest)
        /\ Len(f) - Len(p) + (n + i) = Len(g) - Len(p) + i
    BY <1>2, <1>5, <1>6
  <2>2. left[i] = rest[n + i] /\ rest[n + i] = w[Len(f) - Len(p) + (n + i)]
    BY <1>3, <1>5, <2>1
  <2> QED  BY <2>1, <2>2
<1>13. Appended(p, e, g, left)
  BY <1>9, <1>10, <1>11, <1>12 DEF Appended, w
<1> QED  BY <1>5, <1>6, <1>13 DEF g, part, left, Bytestring

LEMMA PrefixIs ==
    ASSUME NEW p \in Bytestring, NEW g \in Bytestring, Extends(g, p)
    PROVE  SubSeq(g, 1, Len(p)) = p
<1> DEFINE q == SubSeq(g, 1, Len(p))
<1>1. Len(p) \in Nat /\ Len(g) \in Nat
  BY DEF Bytestring
<1>2. Len(p) <= Len(g) /\ \A i \in 1 .. Len(p) : g[i] = p[i]
  BY DEF Extends
<1>3. q \in Seq(Nat \X Nat) /\ Len(q) = Len(p) /\ \A i \in 1 .. Len(p) : q[i] = g[i]
  BY <1>1, <1>2 DEF Bytestring
<1> HIDE DEF q
<1>4. \A i \in 1 .. Len(q) : q[i] = p[i]
  BY <1>2, <1>3
<1>5. q = p
  BY <1>3, <1>4, SeqEqual DEF Bytestring
<1> QED  BY <1>5 DEF q

LEMMA AppendedIsRecord ==
    ASSUME NEW p \in Bytestring, NEW e \in 1 .. MaxEvents,
           NEW f \in Bytestring, Appended(p, e, f, << >>)
    PROVE  \E i \in RecordsIn(f) : EventOf(f, i) = e
<1> DEFINE w == Appendix(p, e)
           n == Len(p)
<1>1. n \in Nat /\ Len(f) \in Nat /\ e \in Nat /\ Len(<< >>) = 0
  BY LimitsAssumption DEF Bytestring
<1>2. w \in Bytestring /\ Len(w) \in {3, 4}
  BY <1>1, AppendixIs
<1>3. /\ Len(f) = n + Len(w)
      /\ \A i \in 1 .. n : f[i] = p[i]
      /\ \A i \in 1 .. Len(w) : f[n + i] = w[i]
  BY <1>1, <1>2 DEF Appended, Extends
<1>4. ASSUME NEW i \in Nat, i < Len(f), i = 0 \/ f[i] = NL, i + 3 <= Len(f),
             f[i + 1] = Byte(e, 1), f[i + 2] = Byte(e, 2), f[i + 3] = NL
      PROVE  i \in RecordsIn(f) /\ EventOf(f, i) = e
  <2>1. i \in Lines(f)
    BY <1>1, <1>4 DEF Lines
  <2>2. IsRecord(f, i)
    BY <1>4, RecordBytes
  <2>3. EventOf(f, i) = e
    BY <1>4 DEF EventOf, Byte
  <2> QED  BY <2>1, <2>2, <2>3 DEF RecordsIn
<1>5. CASE Closed(p)
  <2>1. Len(w) = 3 /\ w[1] = Byte(e, 1) /\ w[2] = Byte(e, 2) /\ w[3] = NL
    BY <1>1, <1>5, AppendixIs
  <2>2. n = 0 \/ f[n] = NL
    <3>1. CASE p = << >>
      BY <1>1, <3>1
    <3>2. CASE p # << >> /\ p[n] = NL
      <4>1. n \in 1 .. n
        BY <1>1, <3>2, EmptySeq DEF Bytestring
      <4> QED  BY <1>3, <3>2, <4>1
    <3> QED  BY <1>5, <3>1, <3>2 DEF Closed
  <2> HIDE DEF w, n
  <2>3. f[n + 1] = Byte(e, 1) /\ f[n + 2] = Byte(e, 2) /\ f[n + 3] = NL /\ Len(f) = n + 3
    BY <1>3, <2>1
  <2>4. n \in RecordsIn(f) /\ EventOf(f, n) = e
    BY <1>1, <1>4, <2>2, <2>3
  <2> QED  BY <2>4
<1>6. CASE ~Closed(p)
  <2>1. Len(w) = 4 /\ w[1] = NL /\ w[2] = Byte(e, 1) /\ w[3] = Byte(e, 2) /\ w[4] = NL
    BY <1>1, <1>6, AppendixIs
  <2> HIDE DEF w, n
  <2>2. /\ f[n + 1] = NL /\ f[n + 2] = Byte(e, 1) /\ f[n + 3] = Byte(e, 2) /\ f[n + 4] = NL
        /\ Len(f) = n + 4
    BY <1>3, <2>1
  <2>3. n + 1 \in RecordsIn(f) /\ EventOf(f, n + 1) = e
    <3>1. /\ n + 1 \in Nat /\ n + 1 < Len(f) /\ (n + 1) + 3 <= Len(f)
          /\ (n + 1) + 1 = n + 2 /\ (n + 1) + 2 = n + 3 /\ (n + 1) + 3 = n + 4
      BY <1>1, <2>2
    <3> QED  BY <1>4, <2>2, <3>1
  <2> QED  BY <2>3
<1> QED  BY <1>5, <1>6

----------------------------------------------------------------------------
(* The file and its writer.                                                *)

\* What a reader can find once it has the lock, as bytes.
Before == IF writer.busy THEN SubSeq(file, 1, writer.size) ELSE Bytes(file)

Appending == [busy : {TRUE}, event : 1 .. MaxEvents, size : Nat, rest : Bytestring]

TypeOK ==
    /\ file \in Bytestring /\ old \in BOOLEAN /\ submitted \in 0 .. MaxEvents
    /\ writer = Idle \/ writer \in Appending

\* The append in progress has written a part behind a sound file, and knows the rest.
WriterFits ==
    writer.busy =>
        /\ writer.event = submitted /\ writer.size <= Len(file)
        /\ Sound(Before, submitted - 1)
        /\ Appended(Before, submitted, file, writer.rest)

StoredFits == \A e \in stored : \E i \in RecordsIn(Before) : EventOf(Before, i) = e

IInv ==
    /\ TypeOK /\ WriterFits /\ StoredFits
    /\ ~writer.busy => Sound(Bytes(file), submitted)

LEMMA WriterIs ==
    ASSUME TypeOK
    PROVE  /\ ~writer.busy => writer = Idle
           /\ writer.busy => /\ writer \in Appending /\ writer.event \in 1 .. MaxEvents
                             /\ writer.size \in Nat /\ writer.rest \in Bytestring
<1>1. CASE writer = Idle
  <2>1. writer.busy = FALSE
    BY <1>1 DEF Idle
  <2> QED  BY <1>1, <2>1
<1>2. CASE writer \in Appending
  <2>1. /\ writer.busy = TRUE /\ writer.event \in 1 .. MaxEvents
        /\ writer.size \in Nat /\ writer.rest \in Bytestring
    BY <1>2 DEF Appending
  <2> QED  BY <1>2, <2>1
<1> QED  BY <1>1, <1>2 DEF TypeOK

\* Bytes may tell a missing file from any sound one.
LEMMA SoundIsThere ==
    ASSUME NEW f, NEW m, Sound(f, m)
    PROVE  f # Absent /\ Bytes(f) = f
<1>1. Absent \in Seq(Nat \X Nat) /\ Len(Absent) = 2 /\ Absent[1] = NL
  <2>1. NL \in Nat \X Nat
    BY DEF NL
  <2> QED  BY <2>1 DEF Absent
<1>2. f # Absent
  BY <1>1 DEF Sound
<1> QED  BY <1>2 DEF Bytes

LEMMA SoundGrows ==
    ASSUME NEW f, NEW m \in Int, NEW n \in Int, m <= n, Sound(f, m)
    PROVE  Sound(f, n)
BY DEF Sound

\* The bytes of the append's beginning, and the whole file, while it goes on.
LEMMA WholeIsSound ==
    ASSUME IInv, writer.busy
    PROVE  /\ Before \in Bytestring /\ Len(Before) = writer.size /\ Extends(file, Before)
           /\ Sound(file, submitted) /\ Bytes(file) = file
<1>1. /\ writer \in Appending /\ writer.event \in 1 .. MaxEvents /\ writer.size \in Nat
      /\ writer.rest \in Bytestring /\ writer.event = submitted /\ writer.size <= Len(file)
      /\ file \in Bytestring /\ Len(file) \in Nat
  BY WriterIs DEF IInv, TypeOK, WriterFits, Bytestring
<1>2. Before = SubSeq(file, 1, writer.size)
  BY DEF Before
<1>3. Before \in Bytestring /\ Len(Before) = writer.size
  BY <1>1, <1>2 DEF Bytestring
<1>4. Sound(Before, submitted - 1) /\ Appended(Before, submitted, file, writer.rest)
  BY DEF IInv, WriterFits
<1>5. Sound(file, submitted)
  BY <1>1, <1>4, AppendedIsSound
<1> QED  BY <1>3, <1>4, <1>5, SoundIsThere DEF Appended

\* What has been stored stays readable while the file grows.
LEMMA StoredGrows ==
    ASSUME NEW f \in Bytestring, NEW h \in Bytestring, Extends(h, f),
           NEW e, \E i \in RecordsIn(f) : EventOf(f, i) = e
    PROVE  \E i \in RecordsIn(h) : EventOf(h, i) = e
BY PrefixRecords

LEMMA InitHolds == Init => IInv
<1> SUFFICES ASSUME Init  PROVE  IInv
  OBVIOUS
<1>1. NL \in Nat \X Nat
  BY DEF NL
<1>2. Absent \in Bytestring /\ Bytes(Absent) = << >>
  BY <1>1 DEF Absent, Bytestring, Bytes
<1>3. Sound(<< >>, 0)
  BY EmptySeq DEF Sound, Bytestring
<1>4. ~writer.busy /\ writer = Idle
  BY DEF Init, Idle
<1>5. TypeOK
  <2>1. submitted \in 0 .. MaxEvents
    BY LimitsAssumption DEF Init
  <2> QED  BY <1>2, <1>4, <2>1 DEF Init, TypeOK
<1> QED  BY <1>2, <1>3, <1>4, <1>5 DEF Init, IInv, WriterFits, StoredFits

\* Each step keeps the invariant, and takes nothing from what can be read but by
\* pruning.
Grows == Extends(Before', Before)

LEMMA OpenStep == IInv /\ Open => IInv' /\ Grows
<1> SUFFICES ASSUME IInv, Open  PROVE  IInv' /\ Grows
  OBVIOUS
<1> DEFINE p == Bytes(file)
           e == submitted + 1
<1>1. /\ ~writer.busy /\ submitted < MaxEvents /\ submitted' = e /\ file' = p
      /\ writer' = [busy |-> TRUE, event |-> e, size |-> Len(p), rest |-> Separator \o Event(e)]
      /\ old' = old /\ stored' = stored
  BY DEF Open
<1>2. /\ submitted \in Nat /\ submitted <= MaxEvents /\ e \in 1 .. MaxEvents /\ e \in Nat
      /\ e - 1 = submitted /\ old \in BOOLEAN
  BY <1>1, LimitsAssumption DEF IInv, TypeOK
<1>3. Before = p /\ Sound(p, submitted) /\ p \in Bytestring /\ Len(p) \in Nat
  BY <1>1 DEF Before, IInv, Sound, Bytestring
<1>4. Separator \o Event(e) = Appendix(p, e)
  <2>1. CASE p = << >>
    BY <2>1 DEF Separator, Appendix
  <2>2. CASE p # << >>
    <3>1. p = file
      BY <2>2 DEF Bytes
    <3> QED  BY <3>1 DEF Separator, Appendix
  <2> QED  BY <2>1, <2>2
<1> HIDE DEF p, e
<1>5. Appendix(p, e) \in Bytestring /\ Len(Appendix(p, e)) \in Nat
  BY <1>2, <1>3, AppendixIs DEF Bytestring
<1>6. /\ writer'.busy /\ writer'.event = e /\ writer'.size = Len(p)
      /\ writer'.rest = Appendix(p, e) /\ writer' \in Appending
  BY <1>1, <1>2, <1>3, <1>4, <1>5 DEF Appending
<1>7. Before' = p
  <2>1. SubSeq(p, 1, Len(p)) = p
    BY <1>3, SubSeqFull DEF Bytestring
  <2> QED  BY <1>1, <1>6, <2>1 DEF Before
<1>8. Appended(p, e, p, Appendix(p, e))
  BY <1>3, <1>5 DEF Appended, Extends
<1>9. TypeOK'
  BY <1>1, <1>2, <1>3, <1>6, LimitsAssumption DEF TypeOK
<1>10. WriterFits'
  <2>1. writer'.size <= Len(file')
    BY <1>1, <1>3, <1>6
  <2> QED  BY <1>1, <1>2, <1>3, <1>6, <1>7, <1>8, <2>1 DEF WriterFits
<1>11. StoredFits'
  BY <1>1, <1>3, <1>7 DEF IInv, StoredFits
<1> QED  BY <1>3, <1>6, <1>7, <1>9, <1>10, <1>11 DEF IInv, Grows, Extends

LEMMA WriteStep == \A n \in 1 .. 4 : IInv /\ Write(n) => IInv' /\ Grows
<1> SUFFICES ASSUME NEW n \in 1 .. 4, IInv, Write(n)  PROVE  IInv' /\ Grows
  OBVIOUS
<1> DEFINE p == Before
           e == submitted
           rest == writer.rest
           g == file \o SubSeq(rest, 1, n)
           left == SubSeq(rest, n + 1, Len(rest))
<1>1. /\ writer.busy /\ n <= Len(rest) /\ old' = FALSE /\ submitted' = e /\ stored' = stored
      /\ file' = g /\ writer' = [writer EXCEPT !.rest = left]
  BY DEF Write
<1>2. /\ writer \in Appending /\ writer.event = e /\ e \in 1 .. MaxEvents /\ e \in Nat
      /\ rest \in Bytestring /\ file \in Bytestring /\ writer.size \in Nat
      /\ Sound(p, e - 1) /\ Appended(p, e, file, rest)
  BY <1>1, WriterIs, LimitsAssumption DEF IInv, TypeOK, WriterFits
<1>3. p \in Bytestring /\ Len(p) = writer.size
  BY <1>1, WholeIsSound
<1>4. n \in 1 .. Len(rest)
  BY <1>1, <1>2 DEF Bytestring
<1> HIDE DEF p, e, rest
<1>5. g \in Bytestring /\ left \in Bytestring /\ Appended(p, e, g, left)
  <2>1. Appended(p, e, file, rest) /\ e \in Nat /\ rest \in Bytestring /\ file \in Bytestring
    BY <1>2
  <2> QED  BY <1>3, <1>4, <2>1, AppendedGrows
<1>6. /\ writer' \in Appending /\ writer'.busy /\ writer'.event = e
      /\ writer'.size = writer.size /\ writer'.rest = left
  BY <1>1, <1>2, <1>5 DEF Appending
<1> HIDE DEF g, left
<1>7. Before' = p
  <2>1. SubSeq(g, 1, Len(p)) = p
    BY <1>3, <1>5, PrefixIs DEF Appended
  <2> QED  BY <1>1, <1>3, <1>6, <2>1 DEF Before
<1>8. TypeOK'
  BY <1>1, <1>5, <1>6 DEF IInv, TypeOK, e
<1>9. WriterFits'
  <2>1. writer'.size <= Len(file')
    BY <1>1, <1>3, <1>5, <1>6 DEF Appended, Extends
  <2> QED  BY <1>1, <1>2, <1>5, <1>6, <1>7, <2>1 DEF WriterFits
<1>10. StoredFits'
  BY <1>1, <1>7 DEF IInv, StoredFits, p
<1>11. Extends(p, p)
  BY <1>3 DEF Extends, Bytestring
<1> QED  BY <1>6, <1>7, <1>8, <1>9, <1>10, <1>11 DEF IInv, Grows, p

\* The writer is gone, in whatever way, and leaves a sound file that has what
\* could be read before.
LEMMA WriterGone ==
    ASSUME IInv, writer' = Idle, file' \in Bytestring, old' \in BOOLEAN, submitted' = submitted,
           Before \in Bytestring, Sound(file', submitted), Extends(file', Before),
           \A e \in stored' : \/ e \in stored
                             \/ \E i \in RecordsIn(file') : EventOf(file', i) = e
    PROVE  IInv' /\ Grows
<1>1. ~writer'.busy
  BY DEF Idle
<1>2. Bytes(file') = file'
  BY SoundIsThere
<1>3. Before' = file'
  BY <1>1, <1>2 DEF Before
<1>4. TypeOK'
  BY DEF IInv, TypeOK
<1>5. StoredFits'
  <2> SUFFICES ASSUME NEW e \in stored'
               PROVE  \E i \in RecordsIn(file') : EventOf(file', i) = e
    BY <1>3 DEF StoredFits
  <2>1. CASE e \in stored
    <3>1. \E i \in RecordsIn(Before) : EventOf(Before, i) = e
      BY <2>1 DEF IInv, StoredFits
    <3> QED  BY <3>1, StoredGrows
  <2> QED  BY <2>1
<1> QED  BY <1>1, <1>2, <1>3, <1>4, <1>5 DEF IInv, WriterFits, Grows

LEMMA FinishStep == IInv /\ Finish => IInv' /\ Grows
<1> SUFFICES ASSUME IInv, Finish  PROVE  IInv' /\ Grows
  OBVIOUS
<1>1. /\ writer.busy /\ writer.rest = << >> /\ writer' = Idle /\ stored' = stored \cup {writer.event}
      /\ file' = file /\ old' = old /\ submitted' = submitted
  BY DEF Finish
<1>2. /\ Before \in Bytestring /\ Extends(file, Before) /\ Sound(file, submitted)
  BY <1>1, WholeIsSound
<1>3. /\ writer.event = submitted /\ submitted \in 1 .. MaxEvents /\ file \in Bytestring
      /\ old \in BOOLEAN /\ Appended(Before, submitted, file, << >>)
  BY <1>1, WriterIs DEF IInv, TypeOK, WriterFits
<1>4. \E i \in RecordsIn(file) : EventOf(file, i) = submitted
  BY <1>2, <1>3, AppendedIsRecord
<1> QED  BY <1>1, <1>2, <1>3, <1>4, WriterGone

LEMMA WriteFailsStep == IInv /\ WriteFails => IInv' /\ Grows
<1> SUFFICES ASSUME IInv, WriteFails  PROVE  IInv' /\ Grows
  OBVIOUS
<1>1. /\ writer.busy /\ writer' = Idle /\ file' = SubSeq(file, 1, writer.size)
      /\ old' = FALSE /\ submitted' = submitted /\ stored' = stored
  BY DEF WriteFails
<1>2. Before \in Bytestring /\ file' = Before
  BY <1>1, WholeIsSound DEF Before
<1>3. submitted \in Int /\ Sound(Before, submitted - 1)
  BY <1>1, LimitsAssumption DEF IInv, TypeOK, WriterFits
<1>4. Sound(Before, submitted)
  BY <1>3, SoundGrows
<1>5. Extends(Before, Before)
  BY <1>2 DEF Extends, Bytestring
<1> QED  BY <1>1, <1>2, <1>4, <1>5, WriterGone

LEMMA LeftAsItIsStep == IInv /\ (TruncationFails \/ Crash) => IInv' /\ Grows
<1> SUFFICES ASSUME IInv, TruncationFails \/ Crash  PROVE  IInv' /\ Grows
  OBVIOUS
<1>1. /\ writer.busy /\ writer' = Idle /\ file' = file
      /\ old' = old /\ submitted' = submitted /\ stored' = stored
  BY DEF TruncationFails, Crash
<1>2. Before \in Bytestring /\ Extends(file, Before) /\ Sound(file, submitted)
  BY <1>1, WholeIsSound
<1>3. file \in Bytestring /\ old \in BOOLEAN
  BY DEF IInv, TypeOK
<1> QED  BY <1>1, <1>2, <1>3, WriterGone

LEMMA PruneStep == IInv /\ Prune => IInv' /\ Before' = << >>
<1> SUFFICES ASSUME IInv, Prune  PROVE  IInv' /\ Before' = << >>
  OBVIOUS
<1>1. /\ ~writer.busy /\ file' = Absent /\ old' = FALSE /\ stored' = {}
      /\ writer' = writer /\ submitted' = submitted
  BY DEF Prune
<1>2. Absent \in Bytestring /\ Bytes(Absent) = << >>
  <2>1. NL \in Nat \X Nat
    BY DEF NL
  <2> QED  BY <2>1 DEF Absent, Bytestring, Bytes
<1>3. Sound(<< >>, submitted)
  BY EmptySeq DEF Sound, Bytestring
<1>4. Before' = << >>
  BY <1>1, <1>2 DEF Before
<1>5. TypeOK'
  BY <1>1, <1>2 DEF IInv, TypeOK
<1> QED  BY <1>1, <1>2, <1>3, <1>4, <1>5 DEF IInv, WriterFits, StoredFits

LEMMA AgeStep == IInv /\ Age => IInv' /\ Grows
<1> SUFFICES ASSUME IInv, Age  PROVE  IInv' /\ Grows
  OBVIOUS
<1>1. /\ ~writer.busy /\ old' = TRUE /\ file' = file /\ writer' = writer
      /\ submitted' = submitted /\ stored' = stored
  BY DEF Age
<1>2. Before' = Before /\ Before = Bytes(file)
  BY <1>1 DEF Before
<1>3. Extends(Before, Before)
  BY <1>1, <1>2 DEF Extends, IInv, Sound, Bytestring
<1>4. TypeOK'
  BY <1>1 DEF IInv, TypeOK
<1> QED  BY <1>1, <1>2, <1>3, <1>4 DEF IInv, WriterFits, StoredFits, Grows

LEMMA BeforeIsSound == IInv => Before \in Bytestring /\ Len(Before) \in Nat /\ Sound(Before, submitted)
<1> SUFFICES ASSUME IInv
             PROVE  Before \in Bytestring /\ Len(Before) \in Nat /\ Sound(Before, submitted)
  OBVIOUS
<1>1. submitted \in Int
  BY LimitsAssumption DEF IInv, TypeOK
<1>2. CASE writer.busy
  <2>1. Sound(Before, submitted - 1)
    BY <1>2 DEF IInv, WriterFits
  <2> QED  BY <1>1, <2>1, SoundGrows DEF Sound, Bytestring
<1>3. CASE ~writer.busy
  BY <1>3 DEF IInv, Before, Sound, Bytestring
<1> QED  BY <1>2, <1>3

LEMMA StutterStep == IInv /\ UNCHANGED vars => IInv' /\ Grows
<1> SUFFICES ASSUME IInv, UNCHANGED vars  PROVE  IInv' /\ Grows
  OBVIOUS
<1>1. Before' = Before
  BY DEF vars, Before
<1>2. Extends(Before, Before)
  BY BeforeIsSound DEF Extends
<1> QED  BY <1>1, <1>2 DEF vars, IInv, TypeOK, WriterFits, StoredFits, Grows

LEMMA StepKeeps == IInv /\ [Next]_vars => IInv' /\ (Grows \/ Before' = << >>)
BY OpenStep, WriteStep, FinishStep, WriteFailsStep, LeftAsItIsStep, PruneStep, AgeStep, StutterStep
   DEF Next

(* For any limits: what the file holds is sound, and its writer knows where*)
(* it is, whatever fails, crashes or is pruned (append_event).             *)
THEOREM Invariance == Spec => []IInv
<1>1. IInv /\ [Next]_vars => IInv'
  BY StepKeeps
<1> QED  BY InitHolds, <1>1, PTL DEF Spec

LEMMA ReadableIs == Readable = Records(Before)
BY DEF Readable, Before

\* Every record of a file is among what is read.
LEMMA RecordsAreRead ==
    ASSUME NEW f \in Bytestring, NEW i \in RecordsIn(f)
    PROVE  \E n \in DOMAIN Records(f) : Records(f)[n] = EventOf(f, i)
<1> DEFINE S == RecordsIn(f)
<1>1. S \in SUBSET Nat /\ IsFiniteSet(S)
  BY LinesAreFinite DEF RecordsIn
<1>2. Records(f) = EventsOf(f, S)
  BY DEF Records, RecordsIn
<1>3. /\ EventsOf(f, S) \in Seq(1 .. MaxEvents) /\ Len(EventsOf(f, S)) = Cardinality(S)
      /\ \A n \in 1 .. Cardinality(S) : EventsOf(f, S)[n] = EventOf(f, InOrder(S)[n])
  BY EventsOfType
<1>4. Rank(S, i) + 1 \in 1 .. Cardinality(S) /\ InOrder(S)[Rank(S, i) + 1] = i
  BY <1>1, InOrderLists
<1>5. Rank(S, i) + 1 \in DOMAIN EventsOf(f, S)
  BY <1>3, <1>4
<1> QED  BY <1>2, <1>3, <1>4, <1>5

(* An event whose append returned can be read until it is pruned, whatever *)
(* appends failed or crashed around it (append_event, read_thread).        *)
THEOREM StoredIsReadableHolds == Spec => []StoredIsReadable
<1>1. IInv => StoredIsReadable
  <2> SUFFICES ASSUME IInv, NEW e \in stored
               PROVE  \E n \in DOMAIN Records(Before) : Records(Before)[n] = e
    BY ReadableIs DEF StoredIsReadable
  <2>1. PICK i \in RecordsIn(Before) : EventOf(Before, i) = e
    BY DEF IInv, StoredFits
  <2> QED  BY <2>1, BeforeIsSound, RecordsAreRead
<1> QED  BY Invariance, <1>1, PTL

LEMMA NothingIsNothing == Records(<< >>) = << >>
<1>1. RecordsIn(<< >>) = {}
  BY DEF RecordsIn, Lines
<1>2. Cardinality({}) = 0
  BY FS_EmptySet
<1>3. 1 .. 0 = {}
  OBVIOUS
<1>4. Records(<< >>) = [n \in 1 .. 0 |-> EventOf(<< >>, InOrder({})[n])]
  BY <1>1, <1>2 DEF Records, RecordsIn, EventsOf
<1> QED  BY <1>3, <1>4

(* The file implements the audit log: crashes and failures lose events, but*)
(* never invent, join or reorder them, and only retention removes any.     *)
THEOREM ImplementsAuditLogHolds == Spec => ImplementsAuditLog
<1>1. Init => Audit!Init
  <2> SUFFICES ASSUME Init  PROVE  Readable = << >>
    BY DEF Audit!Init
  <2>1. Before = << >>
    BY DEF Init, Before, Idle, Bytes
  <2> QED  BY <2>1, ReadableIs, NothingIsNothing
<1>2. IInv /\ IInv' /\ [Next]_vars => [Audit!Next]_Readable
  <2> SUFFICES ASSUME IInv, IInv', [Next]_vars
               PROVE  Readable' = Readable \/ Audit!Next
    OBVIOUS
  <2>1. Readable = Records(Before) /\ Readable' = Records(Before')
    BY DEF Readable, Before
  <2>2. CASE Before' = << >>
    BY <2>1, <2>2, NothingIsNothing DEF Audit!Next, Audit!Retire
  <2>3. CASE Grows
    <3>1. Before \in Bytestring /\ submitted' \in Nat
      BY BeforeIsSound, LimitsAssumption DEF IInv, TypeOK
    <3>2. (Before \in Bytestring /\ Len(Before) \in Nat /\ Sound(Before, submitted))'
      BY BeforeIsSound, PTL
    <3>3. \/ Readable' = Readable
          \/ \E s \in Audit!Increments :
                 /\ s # << >> /\ Audit!Increasing(Readable \o s)
                 /\ Readable' = Readable \o s
      BY <2>1, <2>3, <3>1, <3>2, GrowthExtends DEF Grows
    <3> QED  BY <3>3 DEF Audit!Next, Audit!Extend
  <2> QED  BY <2>2, <2>3, StepKeeps
<1> QED  BY Invariance, <1>1, <1>2, PTL DEF Spec, ImplementsAuditLog, Audit!Spec

----------------------------------------------------------------------------
(* The bounded reader.                                                     *)

LEMMA ConcatStarts ==
    ASSUME NEW S, NEW s \in Seq(S), NEW t \in Seq(S)
    PROVE  IsPrefix(s, s \o t)
<1> DEFINE u == s \o t
<1>1. /\ u \in Seq(S) /\ Len(u) = Len(s) + Len(t) /\ Len(s) \in Nat /\ Len(t) \in Nat
      /\ \A i \in 1 .. Len(s) + Len(t) : u[i] = IF i <= Len(s) THEN s[i] ELSE t[i - Len(s)]
  BY ConcatProperties
<1> HIDE DEF u
<1>2. \A i \in 1 .. Len(s) : i \in 1 .. Len(s) + Len(t) /\ u[i] = s[i]
  BY <1>1
<1> DEFINE a == SubSeq(s, 1, Len(s))
           b == SubSeq(u, 1, Len(s))
<1>3. a \in Seq(S) /\ Len(a) = Len(s) /\ \A i \in 1 .. Len(s) : a[i] = s[i]
  BY <1>1
<1>4. b \in Seq(S) /\ Len(b) = Len(s) /\ \A i \in 1 .. Len(s) : b[i] = u[i]
  BY <1>1
<1> HIDE DEF a, b
<1>5. a = b
  <2>1. \A i \in 1 .. Len(a) : a[i] = b[i]
    BY <1>2, <1>3, <1>4
  <2> QED  BY <1>3, <1>4, <2>1, SeqEqual
<1>6. Len(s) <= Len(u)
  BY <1>1
<1> QED  BY <1>5, <1>6 DEF IsPrefix, a, b, u

LEMMA GreatestBelow ==
    ASSUME NEW S \in SUBSET Nat, NEW m \in Nat, Below(S, m) # {}
    PROVE  \E p \in S : p < m /\ \A j \in S : j < m => j <= p
<1> DEFINE D == {d \in Nat : m - d \in S /\ m - d < m}
<1>1. \A j \in S : j < m => m - j \in D
  <2> SUFFICES ASSUME NEW j \in S, j < m  PROVE  m - j \in D
    OBVIOUS
  <2>1. j \in Nat /\ m - j \in Nat /\ m - (m - j) = j
    OBVIOUS
  <2> QED  BY <2>1
<1>2. D # {} /\ D \in SUBSET Nat
  BY <1>1 DEF Below
<1>3. PICK d \in D : \A k \in D : d <= k
  BY <1>2, LeastNatural
<1>4. d \in Nat /\ m - d \in S /\ m - d < m
  OBVIOUS
<1> HIDE DEF D
<1>5. ASSUME NEW j \in S, j < m  PROVE  j <= m - d
  <2>1. d <= m - j
    BY <1>1, <1>3, <1>5
  <2>2. j \in Nat
    OBVIOUS
  <2> QED  BY <1>4, <2>1, <2>2
<1> QED  BY <1>4, <1>5

\* Where every line is a record the records fill the file.
LEMMA RecordsFill ==
    ASSUME NEW f \in Bytestring, Lines(f) \subseteq RecordsIn(f)
    PROVE  Len(f) = 3 * Cardinality(Lines(f))
<1> DEFINE L == Lines(f)
           E == Len(f)
<1>1. E \in Nat /\ L \in SUBSET Nat /\ IsFiniteSet(L) /\ \A i \in L : i < E
  BY LinesAreFinite DEF Bytestring, Lines
<1>2. ASSUME NEW i \in L
      PROVE  /\ i + 3 <= E /\ i + 1 \notin L /\ i + 2 \notin L
             /\ i + 3 < E => i + 3 \in L
  <2>1. /\ i \in Nat /\ i + 3 <= E /\ EventOf(f, i) \in 1 .. MaxEvents
        /\ f[i + 1] = Byte(EventOf(f, i), 1) /\ f[i + 2] = Byte(EventOf(f, i), 2)
        /\ f[i + 3] = NL
    BY EventsAre
  <2>2. f[i + 1] # NL /\ f[i + 2] # NL
    BY <2>1 DEF Byte, NL
  <2>3. i + 1 # 0 /\ i + 2 # 0
    BY <2>1
  <2>4. i + 3 < E => i + 3 \in 0 .. E
    BY <1>1, <2>1
  <2> QED  BY <2>1, <2>2, <2>3, <2>4 DEF Lines
<1>3. E > 0 => 0 \in L
  BY <1>1 DEF Lines
<1> HIDE DEF L, E
<1> DEFINE Wrong == {m \in Nat : m \in L \cup {E} /\ m # 3 * Rank(L, m)}
<1>4. \A m \in Nat : Rank(L, m) \in Nat
  BY <1>1, RankGrows
<1>5. ASSUME Wrong # {}  PROVE  FALSE
  <2>1. PICK m \in Wrong : \A k \in Wrong : m <= k
    BY <1>5, LeastNatural
  <2>2. m \in Nat /\ m \in L \cup {E} /\ m # 3 * Rank(L, m)
    OBVIOUS
  <2>3. CASE m = 0
    <3>1. Below(L, m) = {}
      <4>1. \A k \in L : ~(k < 0)
        BY <1>1
      <4> QED  BY <2>3, <4>1 DEF Below
    <3> QED  BY <2>2, <2>3, <3>1, FS_EmptySet DEF Rank
  <2>4. CASE m # 0
    <3>1. 0 \in L /\ 0 < m
      BY <1>1, <1>3, <2>2, <2>4
    <3>2. Below(L, m) # {}
      BY <3>1 DEF Below
    <3>3. PICK p \in L : p < m /\ \A k \in L : k < m => k <= p
      BY <1>1, <2>2, <3>2, GreatestBelow
    <3>4. p \in Nat /\ p \notin Wrong
      BY <1>1, <2>1, <2>2, <3>3
    <3>5. p = 3 * Rank(L, p)
      BY <3>4
    <3>6. m = p + 3
      <4>1. m >= p + 3
        <5>1. CASE m \in L
          <6>1. m # p + 1 /\ m # p + 2
            BY <1>2, <5>1
          <6> QED  BY <2>2, <3>3, <3>4, <6>1
        <5>2. CASE m = E
          BY <1>2, <5>2
        <5> QED  BY <2>2, <5>1, <5>2
      <4>2. ASSUME m > p + 3  PROVE  FALSE
        <5>1. p + 3 < E
          BY <1>1, <2>2, <3>4, <4>2
        <5>2. p + 3 \in L
          BY <1>2, <5>1
        <5>3. p + 3 <= p
          BY <3>3, <4>2, <5>2
        <5> QED  BY <3>4, <5>3
      <4> QED  BY <2>2, <3>4, <4>1, <4>2
    <3>7. Below(L, m) = Below(L, p) \cup {p}
      <4>1. \A k \in L : k < m <=> k < p \/ k = p
        BY <1>1, <2>2, <3>3, <3>4
      <4> QED  BY <3>3, <4>1 DEF Below
    <3>8. Rank(L, m) = Rank(L, p) + 1
      <4>1. Below(L, p) \in SUBSET L /\ p \notin Below(L, p)
        BY <3>4 DEF Below
      <4>2. IsFiniteSet(Below(L, p))
        BY <1>1, <4>1, FS_Subset
      <4>3. Cardinality(Below(L, p) \cup {p}) = Cardinality(Below(L, p)) + 1
        BY <4>1, <4>2, FS_AddElement
      <4> QED  BY <3>7, <4>3 DEF Rank
    <3>9. Rank(L, p) \in Nat
      BY <1>4, <3>4
    <3> QED  BY <2>2, <3>4, <3>5, <3>6, <3>8, <3>9
  <2> QED  BY <2>3, <2>4
<1>6. E = 3 * Rank(L, E)
  BY <1>1, <1>5
<1>7. Below(L, E) = L
  BY <1>1 DEF Below
<1> QED  BY <1>6, <1>7 DEF Rank, L, E

\* The three kinds of lines.
LEMMA LinesAreOfThreeKinds ==
    ASSUME NEW f \in Bytestring
    PROVE  LET R == RecordsIn(f)
               M == {i \in Lines(f) \ R : Ended(f, i)}
               I == {i \in Lines(f) : ~Ended(f, i)}
           IN  /\ Cardinality(R) \in Nat /\ Cardinality(M) \in Nat /\ Cardinality(I) \in Nat
               /\ Cardinality(R) + Cardinality(M) + Cardinality(I) = Cardinality(Lines(f))
               /\ Cardinality(M) = 0 /\ Cardinality(I) = 0 => Lines(f) \subseteq R
<1> DEFINE R == RecordsIn(f)
           M == {i \in Lines(f) \ R : Ended(f, i)}
           I == {i \in Lines(f) : ~Ended(f, i)}
<1>1. R \in SUBSET Lines(f) /\ M \in SUBSET Lines(f) /\ I \in SUBSET Lines(f)
  BY DEF RecordsIn
<1>2. \A i \in R : Ended(f, i)
  <2> SUFFICES ASSUME NEW i \in R  PROVE  Ended(f, i)
    OBVIOUS
  <2>1. i \in Nat /\ i + 3 <= Len(f) /\ f[i + 3] = NL
    BY EventsAre
  <2>2. i + 3 \in DOMAIN f /\ i < i + 3
    BY <2>1 DEF Bytestring
  <2> QED  BY <2>1, <2>2 DEF Ended
<1>3. Lines(f) = (R \cup M) \cup I /\ R \cap M = {} /\ (R \cup M) \cap I = {}
  BY <1>1, <1>2
<1>4. /\ IsFiniteSet(R) /\ IsFiniteSet(M) /\ IsFiniteSet(I)
      /\ Cardinality(R) \in Nat /\ Cardinality(M) \in Nat /\ Cardinality(I) \in Nat
  BY <1>1, LinesAreFinite
<1> HIDE DEF R, M, I
<1>5. Cardinality({}) = 0
  BY FS_EmptySet
<1>6. IsFiniteSet(R \cup M) /\ Cardinality(R \cup M) = Cardinality(R) + Cardinality(M)
  <2>1. /\ IsFiniteSet(R \cup M)
        /\ Cardinality(R \cup M) = Cardinality(R) + Cardinality(M) - Cardinality(R \cap M)
    BY <1>4, FS_Union
  <2>2. Cardinality(R \cap M) = 0
    BY <1>3, FS_EmptySet
  <2> QED  BY <1>4, <2>1, <2>2
<1>7. Cardinality((R \cup M) \cup I) = Cardinality(R \cup M) + Cardinality(I)
  BY <1>3, <1>4, <1>5, <1>6, FS_Union
<1>8. Cardinality(M) = 0 /\ Cardinality(I) = 0 => M = {} /\ I = {}
  BY <1>4, FS_EmptySet
<1>9. /\ Cardinality(R) + Cardinality(M) + Cardinality(I) = Cardinality(Lines(f))
      /\ Cardinality(M) = 0 /\ Cardinality(I) = 0 => Lines(f) \subseteq R
  BY <1>3, <1>4, <1>6, <1>7, <1>8
<1> QED  BY <1>4, <1>9 DEF R, M, I

(* For every file and all limits: a bounded read shows a prefix of the     *)
(* records, and says what it left out (read_thread).                       *)
LEMMA ReaderTells ==
    ASSUME NEW f \in Bytestring
    PROVE  LET r == ReadThread(f)
           IN  /\ IsPrefix(r.records, Records(f))
               /\ ~r.truncated =>
                    /\ r.records = Records(f)
                    /\ Len(r.records) + r.malformed + r.interrupted = Cardinality(Lines(f))
               /\ (r.malformed + r.interrupted = 0 /\ ~r.truncated) =>
                    Len(f) = 3 * Len(r.records)
<1> DEFINE limited == Len(f) > MaxReadBytes
           n == IF limited THEN MaxReadBytes ELSE Len(f)
           data == SubSeq(f, 1, n)
           X == Examined(data)
           valid == {i \in X : IsRecord(data, i)}
           M == {i \in X \ valid : Ended(data, i)}
           I == {i \in X : ~Ended(data, i)}
           r == ReadThread(f)
<1>1. /\ r.records = EventsOf(data, valid) /\ r.malformed = Cardinality(M)
      /\ r.interrupted = IF limited THEN 0 ELSE Cardinality(I)
      /\ r.truncated = (limited \/ Cardinality(Lines(data)) > MaxReadRecords)
  BY DEF ReadThread
<1>2. /\ Len(f) \in Nat /\ n \in Nat /\ n <= Len(f) /\ MaxReadBytes \in Nat /\ MaxReadRecords \in Nat
  BY LimitsAssumption DEF Bytestring
<1> HIDE DEF n
<1>3. data \in Bytestring /\ Len(data) = n /\ Extends(f, data)
  BY <1>2 DEF Bytestring, Extends
<1> HIDE DEF data, r
<1>4. /\ Lines(data) \in SUBSET Nat /\ IsFiniteSet(Lines(data)) /\ Cardinality(Lines(data)) \in Nat
      /\ X \in SUBSET Lines(data) /\ valid \in SUBSET RecordsIn(data)
      /\ \A i \in Lines(data) : i \in X <=> Rank(Lines(data), i) < MaxReadRecords
  BY <1>3, LinesAreFinite DEF Examined, RecordsIn, Rank, Below
<1>5. \A i \in valid : i \in X
  OBVIOUS
<1>6. \A i \in RecordsIn(data) : i \in X => i \in valid
  BY DEF RecordsIn
<1> HIDE DEF X, valid
<1>7. IsPrefix(r.records, Records(f))
  <2> DEFINE T == RecordsIn(f) \ valid
  <2>1. /\ RecordsIn(data) \subseteq RecordsIn(f)
        /\ \A i \in RecordsIn(data) : EventOf(f, i) = EventOf(data, i)
        /\ \A i \in RecordsIn(f) : i + 3 <= Len(data) => i \in RecordsIn(data)
    BY <1>3, PrefixRecords
  <2>2. ASSUME NEW i \in valid, NEW j \in T  PROVE  i < j
    <3>1. /\ i \in RecordsIn(data) /\ i \in Nat /\ i + 3 <= Len(data)
          /\ j \in RecordsIn(f) /\ j \in Nat
      BY <1>3, <1>4, EventsAre
    <3>2. CASE j \in RecordsIn(data)
      <4>1. i \in Lines(data) /\ j \in Lines(data) /\ i \in X /\ j \notin X
        BY <1>5, <1>6, <3>1, <3>2 DEF RecordsIn
      <4>2. Rank(Lines(data), i) < MaxReadRecords /\ ~(Rank(Lines(data), j) < MaxReadRecords)
        BY <1>4, <4>1
      <4>3. Rank(Lines(data), i) \in Nat /\ Rank(Lines(data), j) \in Nat
        BY <1>4, <3>1, RankGrows
      <4>4. ~(Rank(Lines(data), j) < Rank(Lines(data), i)) /\ i # j
        BY <1>2, <4>2, <4>3
      <4>5. ~(j < i)
        BY <1>4, <4>1, <4>4, RankGrows
      <4> QED  BY <3>1, <4>4, <4>5
    <3>3. CASE j \notin RecordsIn(data)
      <4>1. ~(j + 3 <= Len(data))
        BY <2>1, <3>1, <3>3
      <4> QED  BY <1>2, <1>3, <3>1, <4>1
    <3> QED  BY <3>2, <3>3
  <2>3. valid \in SUBSET RecordsIn(f) /\ T \in SUBSET RecordsIn(f) /\ RecordsIn(f) = valid \cup T
    BY <1>4, <2>1
  <2> HIDE DEF T
  <2>4. EventsOf(f, valid \cup T) = EventsOf(f, valid) \o EventsOf(f, T)
    BY <2>2, <2>3, EventsOfJoin
  <2>5. EventsOf(f, valid) = EventsOf(data, valid)
    BY <1>3, <1>4, <2>1, <2>3, EventsOfAgree
  <2>6. Records(f) = EventsOf(f, valid) \o EventsOf(f, T)
    BY <2>3, <2>4 DEF Records, RecordsIn
  <2>7. EventsOf(f, valid) \in Seq(1 .. MaxEvents) /\ EventsOf(f, T) \in Seq(1 .. MaxEvents)
    BY <2>3, EventsOfType
  <2>8. IsPrefix(EventsOf(f, valid), Records(f))
    BY <2>6, <2>7, ConcatStarts
  <2> QED  BY <1>1, <2>5, <2>8
<1>8. ASSUME ~r.truncated
      PROVE  data = f /\ X = Lines(f) /\ valid = RecordsIn(f) /\ r.records = Records(f) /\ ~limited
  <2>1. ~limited /\ ~(Cardinality(Lines(data)) > MaxReadRecords)
    BY <1>1, <1>8
  <2>2. data = f
    BY <2>1, SubSeqFull DEF data, n, Bytestring
  <2>3. \A i \in Lines(data) : Rank(Lines(data), i) \in Nat /\ Rank(Lines(data), i) < Cardinality(Lines(data))
    BY <1>4, RankGrows
  <2>4. \A i \in Lines(data) : i \in X
    BY <1>2, <1>4, <2>1, <2>3
  <2>5. valid = RecordsIn(data)
    BY <1>4, <1>6, <2>4 DEF RecordsIn
  <2>6. r.records = Records(f)
    BY <1>1, <2>2, <2>5 DEF Records, RecordsIn
  <2> QED  BY <1>4, <2>1, <2>2, <2>4, <2>5, <2>6
<1>9. ASSUME ~r.truncated
      PROVE  /\ Len(r.records) + r.malformed + r.interrupted = Cardinality(Lines(f))
             /\ r.malformed + r.interrupted = 0 => Len(f) = 3 * Len(r.records)
  <2> DEFINE Mf == {i \in Lines(f) \ RecordsIn(f) : Ended(f, i)}
             If == {i \in Lines(f) : ~Ended(f, i)}
  <2>1. r.malformed = Cardinality(Mf) /\ r.interrupted = Cardinality(If)
    BY <1>1, <1>8, <1>9
  <2>2. Len(r.records) = Cardinality(RecordsIn(f))
    BY <1>8, <1>9, EventsOfType DEF Records, RecordsIn
  <2> HIDE DEF Mf, If
  <2>3. /\ Cardinality(RecordsIn(f)) \in Nat /\ Cardinality(Mf) \in Nat /\ Cardinality(If) \in Nat
        /\ Cardinality(RecordsIn(f)) + Cardinality(Mf) + Cardinality(If) = Cardinality(Lines(f))
        /\ Cardinality(Mf) = 0 /\ Cardinality(If) = 0 => Lines(f) \subseteq RecordsIn(f)
    BY LinesAreOfThreeKinds DEF Mf, If
  <2>4. Len(r.records) + r.malformed + r.interrupted = Cardinality(Lines(f))
    BY <2>1, <2>2, <2>3
  <2>5. ASSUME r.malformed + r.interrupted = 0  PROVE  Len(f) = 3 * Len(r.records)
    <3>1. Cardinality(Mf) = 0 /\ Cardinality(If) = 0
      BY <2>1, <2>3, <2>5
    <3>2. Len(f) = 3 * Cardinality(Lines(f))
      BY <2>3, <3>1, RecordsFill
    <3>3. Cardinality(Lines(f)) = Cardinality(RecordsIn(f))
      BY <2>3, <3>1
    <3> QED  BY <2>2, <3>2, <3>3
  <2> QED  BY <2>4, <2>5
<1> QED  BY <1>7, <1>8, <1>9 DEF r

(* What read_thread tells of the transcript, at any moment, is so.         *)
THEOREM ReaderIsHonestHolds == Spec => []ReaderIsHonest
<1>1. IInv => ReaderIsHonest
  <2> SUFFICES ASSUME IInv, ~writer.busy
               PROVE  LET r == ReadThread(Bytes(file))
                      IN  /\ IsPrefix(r.records, Records(Bytes(file)))
                          /\ ~r.truncated =>
                               /\ r.records = Records(Bytes(file))
                               /\ Len(r.records) + r.malformed + r.interrupted = Cardinality(Lines(Bytes(file)))
                          /\ (r.malformed + r.interrupted = 0 /\ ~r.truncated) =>
                               Len(Bytes(file)) = 3 * Len(r.records)
    BY DEF ReaderIsHonest
  <2>1. Bytes(file) \in Bytestring
    BY DEF IInv, Sound
  <2> QED  BY <2>1, ReaderTells
<1> QED  BY Invariance, <1>1, PTL
=============================================================================
