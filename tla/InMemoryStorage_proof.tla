------------------------ MODULE InMemoryStorage_proof ------------------------
(***************************************************************************)
(* Proofs about InMemoryStorage, for every set of keys and users, every    *)
(* time to live and every bound on the clock: the types, that no update is *)
(* lost, that a swap revives no thread, that the store implements          *)
(* ExpiringStore, and that each version of a thread has one writer.        *)
(***************************************************************************)
EXTENDS InMemoryStorage, FiniteSetTheorems, TLAPS

\* Only one add_turn is between its get and its setex.
OneReader ==
    \A c, d \in User \ Swapper : pc[c] = "read" /\ pc[d] = "read" => c = d

\* What an add_turn has read is what the store still holds, unless it was removed.
ReaderIsCurrent ==
    \A c \in User \ Swapper :
        pc[c] = "read" =>
            /\ read[c] \in Seq(User)
            /\ store[key[c]] # None => store[key[c]].value = read[c]

\* Who has read has a key, and only keys that were created are stored.
KeysInv ==
    /\ \A c \in User : pc[c] = "read" => key[c] \in Key /\ key[c] \in used
    /\ \A k \in Key : store[k] # None => k \in used

IInv == TypeOK /\ OneReader /\ ReaderIsCurrent /\ KeysInv

-----------------------------------------------------------------------------
(* The operators. *)

\* Appending keeps a sequence as a prefix.
LEMMA AppendExtends ==
    ASSUME NEW S, NEW s \in Seq(S), NEW x \in S
    PROVE  Append(s, x) \in Seq(S) /\ IsPrefix(s, Append(s, x)) /\ IsPrefix(s, s)
<1>1. Append(s, x) \in Seq(S) /\ Len(Append(s, x)) = Len(s) + 1
  OBVIOUS
<1>2. SubSeq(s, 1, Len(s)) = SubSeq(Append(s, x), 1, Len(s))
  OBVIOUS
<1> QED
  BY <1>1, <1>2 DEF IsPrefix

\* Looking a key up yields a value or None, and purging only removes.
LEMMA LookupType ==
    ASSUME TypeOK, NEW k \in Key
    PROVE  /\ Lookup(k) \in Seq(User) \cup {None}
           /\ Lookup(k) # None => store[k] # None /\ store[k].value = Lookup(k)
           /\ Purged(k) \in [Key -> Entry \cup {None}]
           /\ \A j \in Key : Purged(k)[j] # None => Purged(k)[j] = store[j]
BY DEF TypeOK, Lookup, Purged, IsLive, Entry

\* Writing stores the value with its time to live, and touches no other key.
LEMMA SetExType ==
    ASSUME TypeOK, NEW k \in Key, NEW v \in Seq(User), SetEx(k, v)
    PROVE  /\ store' \in [Key -> Entry \cup {None}]
           /\ store'[k].value = v
           /\ \A j \in Key \ {k} : store'[j] = store[j]
<1>1. now + TTL \in Nat
  BY StorageAssumption DEF TypeOK
<1>2. [value |-> v, expires |-> now + TTL] \in Entry
  BY <1>1 DEF Entry
<1> QED
  BY <1>2 DEF SetEx, TypeOK

\* Sweeping only removes.
LEMMA CleanupType ==
    ASSUME TypeOK, Cleanup
    PROVE  /\ store' \in [Key -> Entry \cup {None}]
           /\ \A j \in Key : store'[j] # None => store'[j] = store[j]
BY DEF TypeOK, Cleanup

-----------------------------------------------------------------------------
(* The inductive invariant. *)

LEMMA InitIInv == Init => IInv
BY StorageAssumption DEF Init, IInv, TypeOK, OneReader, ReaderIsCurrent, KeysInv

\* A step that only removes entries keeps the invariant, whoever takes it.
LEMMA RemovalStep ==
    ASSUME IInv, UNCHANGED <<used, pc, key, read>>, now' \in 0 .. MaxTime,
           store' \in [Key -> Entry \cup {None}],
           \A j \in Key : store'[j] # None => store'[j] = store[j]
    PROVE  IInv'
<1>1. TypeOK'
  BY DEF IInv, TypeOK
<1>2. OneReader'
  BY DEF IInv, OneReader
<1>3. KeysInv'
  BY DEF IInv, KeysInv
<1>4. ReaderIsCurrent'
  BY DEF IInv, ReaderIsCurrent, KeysInv
<1> QED
  BY <1>1, <1>2, <1>3, <1>4 DEF IInv

\* A write of a user that is done thereby, while no other add_turn has read.
LEMMA WriteStep ==
    ASSUME IInv, NEW c \in User, NEW k \in Key, NEW v \in Seq(User), SetEx(k, v),
           k \in used', used \subseteq used', used' \subseteq Key,
           pc' = [pc EXCEPT ![c] = "saved"], UNCHANGED <<now, read>>,
           key' = [key EXCEPT ![c] = k],
           \A d \in User \ Swapper : pc[d] = "read" => d = c
    PROVE  IInv'
<1>1. /\ store' \in [Key -> Entry \cup {None}]
      /\ \A j \in Key \ {k} : store'[j] = store[j]
  BY SetExType DEF IInv
<1>2. TypeOK'
  BY <1>1 DEF IInv, TypeOK
<1>3. \A d \in User : pc'[d] = "read" => pc[d] = "read" /\ d # c /\ key'[d] = key[d]
  BY DEF IInv, TypeOK
<1>4. OneReader' /\ ReaderIsCurrent'
  BY <1>3 DEF OneReader, ReaderIsCurrent
<1>5. KeysInv'
  BY <1>1, <1>3 DEF IInv, KeysInv
<1> QED
  BY <1>2, <1>4, <1>5 DEF IInv

LEMMA GetStep ==
    ASSUME IInv, NEW c \in User, NEW k \in Key, Get(c, k)
    PROVE  IInv'
<1>1. /\ LoopIsFree /\ k \in used /\ read' = [read EXCEPT ![c] = Lookup(k)]
      /\ store' = Purged(k) /\ key' = [key EXCEPT ![c] = k] /\ UNCHANGED <<now, used>>
      /\ pc' = [pc EXCEPT ![c] = IF Lookup(k) = None THEN "lost" ELSE "read"]
  BY DEF Get
<1>2. /\ Lookup(k) \in Seq(User) \cup {None}
      /\ Lookup(k) # None => store[k] # None /\ store[k].value = Lookup(k)
      /\ store' \in [Key -> Entry \cup {None}]
      /\ \A j \in Key : store'[j] # None => store'[j] = store[j]
  BY <1>1, LookupType DEF IInv
<1>3. TypeOK'
  BY <1>1, <1>2 DEF IInv, TypeOK
<1>4. \A d \in User \ Swapper : pc'[d] = "read" => d = c
  BY <1>1 DEF IInv, TypeOK, LoopIsFree
<1>5. pc'[c] = "read" => Lookup(k) # None
  BY <1>1 DEF IInv, TypeOK
<1>6. key'[c] = k /\ read'[c] = Lookup(k)
  BY <1>1 DEF IInv, TypeOK
<1>7. OneReader' /\ ReaderIsCurrent'
  BY <1>2, <1>4, <1>5, <1>6 DEF OneReader, ReaderIsCurrent
<1>8. KeysInv'
  BY <1>1, <1>2 DEF IInv, TypeOK, KeysInv
<1> QED
  BY <1>3, <1>7, <1>8 DEF IInv

\* A swapper that starts a new key or loses its swap.
LEMMA SwapperStep ==
    ASSUME IInv, NEW c \in Swapper, NEW k \in Key, NEW p \in {"read", "lost"},
           pc' = [pc EXCEPT ![c] = p], key' = [key EXCEPT ![c] = k], UNCHANGED <<now, read>>,
           k \in used', used \subseteq used', used' \subseteq Key,
           store' \in [Key -> Entry \cup {None}],
           \A j \in Key : store'[j] # None => store'[j] = store[j]
    PROVE  IInv'
<1>1. TypeOK'
  BY StorageAssumption DEF IInv, TypeOK
<1>2. \A d \in User \ Swapper : pc'[d] = pc[d] /\ key'[d] = key[d]
  BY StorageAssumption DEF IInv, TypeOK
<1>3. OneReader'
  BY <1>2 DEF IInv, OneReader
<1>4. ReaderIsCurrent'
  BY <1>2 DEF IInv, ReaderIsCurrent, KeysInv
<1>5. KeysInv'
  BY DEF IInv, TypeOK, KeysInv
<1> QED
  BY <1>1, <1>3, <1>4, <1>5 DEF IInv

\* A swap writes one more name behind the snapshot.
LEMMA ExtendedType ==
    ASSUME TypeOK, NEW c \in User
    PROVE  Extended(c) \in Seq(User)
BY AppendExtends DEF TypeOK, Extended

LEMMA NextIInv == IInv /\ [Next]_storageVars => IInv'
<1> SUFFICES ASSUME IInv, [Next]_storageVars PROVE IInv'
  OBVIOUS
<1> USE StorageAssumption
<1>1. CASE Cleanup
  <2>1. UNCHANGED <<now, used, pc, key, read>>
    BY <1>1 DEF Cleanup
  <2> QED
    BY <1>1, <2>1, CleanupType, RemovalStep DEF IInv, TypeOK
<1>2. CASE Tick
  BY <1>2, RemovalStep DEF Tick, IInv, TypeOK
<1>3. ASSUME NEW c \in User, NEW k \in Key, Create(c, k) PROVE IInv'
  <2>1. <<c>> \in Seq(User)
    OBVIOUS
  <2> QED
    BY <1>3, <2>1, WriteStep DEF Create, LoopIsFree, IInv, TypeOK
<1>4. ASSUME NEW c \in User, NEW k \in Key, Get(c, k) PROVE IInv'
  BY <1>4, GetStep
<1>5. ASSUME NEW c \in User, NEW k \in Key, StartNew(c, k) PROVE IInv'
  BY <1>5, SwapperStep DEF StartNew, IInv, TypeOK
<1>6. ASSUME NEW c \in User, AddTurn(c) PROVE IInv'
  <2>1. PICK k \in Key : k = key[c]
    BY <1>6 DEF AddTurn, IInv, KeysInv
  <2>2. read[c] \in Seq(User)
    BY <1>6 DEF AddTurn, IInv, ReaderIsCurrent
  <2>3. PICK v \in Seq(User) : v = Append(read[c], c)
    BY <2>2, AppendExtends
  <2>4. SetEx(k, v) /\ pc' = [pc EXCEPT ![c] = "saved"] /\ UNCHANGED <<now, used, key, read>>
    BY <1>6, <2>1, <2>3 DEF AddTurn
  <2>5. key' = [key EXCEPT ![c] = k]
    BY <2>1, <2>4 DEF IInv, TypeOK
  <2>6. used' \subseteq Key /\ \A d \in User \ Swapper : pc[d] = "read" => d = c
    BY <1>6, <2>4 DEF AddTurn, IInv, TypeOK, OneReader
  <2>7. k \in used'
    BY <1>6, <2>1, <2>4 DEF AddTurn, IInv, KeysInv
  <2> QED
    BY <2>4, <2>5, <2>6, <2>7, WriteStep
<1>7. ASSUME NEW c \in User, Swap(c) PROVE IInv'
  <2>1. PICK k \in Key, v \in Seq(User) : k = key[c] /\ v = Extended(c)
    BY <1>7, ExtendedType DEF Swap, IInv, KeysInv
  <2>2. SetEx(k, v) /\ pc' = [pc EXCEPT ![c] = "saved"] /\ UNCHANGED <<now, used, key, read>>
    BY <1>7, <2>1 DEF Swap, CompareAndSetEx
  <2>3. key' = [key EXCEPT ![c] = k]
    BY <2>1, <2>2 DEF IInv, TypeOK
  <2>4. used' \subseteq Key /\ \A d \in User \ Swapper : pc[d] = "read" => d = c
    BY <1>7, <2>2 DEF Swap, LoopIsFree, IInv, TypeOK
  <2>5. k \in used'
    BY <1>7, <2>1, <2>2 DEF Swap, IInv, KeysInv
  <2> QED
    BY <2>2, <2>3, <2>4, <2>5, WriteStep
<1>8. ASSUME NEW c \in User, SwapFails(c) PROVE IInv'
  <2>1. key[c] \in Key /\ key[c] \in used /\ key' = [key EXCEPT ![c] = key[c]]
    BY <1>8 DEF SwapFails, IInv, TypeOK, KeysInv
  <2>2. /\ store' \in [Key -> Entry \cup {None}]
        /\ \A j \in Key : store'[j] # None => store'[j] = store[j]
    BY <1>8, <2>1, LookupType DEF SwapFails, CompareFails, IInv
  <2> QED
    BY <1>8, <2>1, <2>2, SwapperStep DEF SwapFails, IInv, TypeOK
<1>9. CASE UNCHANGED storageVars
  BY <1>9 DEF storageVars, IInv, TypeOK, OneReader, ReaderIsCurrent, KeysInv
<1> QED
  BY <1>1, <1>2, <1>3, <1>4, <1>5, <1>6, <1>7, <1>8, <1>9 DEF Next

\* The inductive invariant holds in every reachable state.
THEOREM Invariance == Spec => []IInv
BY InitIInv, NextIInv, PTL DEF Spec

\* Type correctness, whatever the time to live and the bound on the clock.
THEOREM TypeCorrect == Spec => []TypeOK
<1>1. IInv => TypeOK
  BY DEF IInv
<1> QED
  BY <1>1, Invariance, PTL

-----------------------------------------------------------------------------
(* What a step does to a live value. *)

\* Removing entries, or letting time pass, changes no value that is still seen.
LEMMA RemovalKeeps ==
    ASSUME IInv, NEW k \in Key, store'[k] # None => store'[k] = store[k], now' >= now, now' \in Nat,
           Live[k] # None, Live'[k] # None
    PROVE  IsPrefix(Live[k], Live'[k])
<1>1. store'[k] # None /\ store[k] # None
  BY DEF Live, Lookup, IsLive
<1>2. Live[k] = store[k].value /\ Live'[k] = store[k].value
  BY <1>1 DEF Live, Lookup, IsLive
<1>3. store[k].value \in Seq(User)
  BY <1>1 DEF IInv, TypeOK, Entry
<1> QED
  BY <1>2, <1>3 DEF IsPrefix

\* A write that extends what is seen under a key, or writes where nothing is.
LEMMA WriteKeeps ==
    ASSUME IInv, NEW j \in Key, NEW v \in Seq(User), SetEx(j, v), UNCHANGED now,
           Live[j] # None => IsPrefix(Live[j], v),
           NEW k \in Key, Live[k] # None, Live'[k] # None
    PROVE  IsPrefix(Live[k], Live'[k])
<1>1. CASE k = j
  <2>1. store'[k].value = v
    BY <1>1, SetExType DEF IInv
  <2>2. Live'[k] = v
    BY <2>1 DEF Live, Lookup
  <2> QED
    BY <1>1, <2>2
<1>2. CASE k # j
  <2>1. store'[k] = store[k]
    BY <1>2, SetExType DEF IInv
  <2> QED
    BY <2>1, RemovalKeeps DEF IInv, TypeOK
<1> QED
  BY <1>1, <1>2

\* No update is lost: while a thread lives its value only grows, although clink
\* keeps its snapshot for as long as the CLI runs, and add_turn writes without
\* comparing.
THEOREM NoLostUpdateHolds == Spec => NoLostUpdate
<1> DEFINE Grows == \A k \in Key : Live[k] # None /\ Live'[k] # None => IsPrefix(Live[k], Live'[k])
<1>1. IInv /\ [Next]_storageVars => [Grows]_storageVars
  <2> SUFFICES ASSUME IInv, Next, NEW k \in Key, Live[k] # None, Live'[k] # None
               PROVE  IsPrefix(Live[k], Live'[k])
    OBVIOUS
  <2>1. CASE Cleanup
    <3>1. UNCHANGED now
      BY <2>1 DEF Cleanup
    <3> QED
      BY <2>1, <3>1, CleanupType, RemovalKeeps DEF IInv, TypeOK
  <2>2. CASE Tick
    BY <2>2, RemovalKeeps DEF Tick, IInv, TypeOK
  <2>3. ASSUME NEW c \in User, NEW j \in Key, Create(c, j) PROVE IsPrefix(Live[k], Live'[k])
    <3>1. <<c>> \in Seq(User)
      OBVIOUS
    <3>2. Live[j] = None
      BY <2>3 DEF Create, IInv, KeysInv, Live, Lookup, IsLive
    <3> QED
      BY <2>3, <3>1, <3>2, WriteKeeps DEF Create
  <2>4. ASSUME NEW c \in User, NEW j \in Key, Get(c, j) PROVE IsPrefix(Live[k], Live'[k])
    <3>1. store' = Purged(j) /\ UNCHANGED now
      BY <2>4 DEF Get
    <3> QED
      BY <3>1, LookupType, RemovalKeeps DEF IInv, TypeOK
  <2>5. ASSUME NEW c \in User, NEW j \in Key, StartNew(c, j) PROVE IsPrefix(Live[k], Live'[k])
    BY <2>5, RemovalKeeps DEF StartNew, IInv, TypeOK
  <2>6. ASSUME NEW c \in User, AddTurn(c) PROVE IsPrefix(Live[k], Live'[k])
    <3>1. PICK j \in Key : j = key[c]
      BY <2>6 DEF AddTurn, IInv, KeysInv
    <3>2. read[c] \in Seq(User)
      BY <2>6 DEF AddTurn, IInv, ReaderIsCurrent
    <3>3. PICK v \in Seq(User) : v = Append(read[c], c)
      BY <3>2, AppendExtends
    <3>4. SetEx(j, v) /\ UNCHANGED now
      BY <2>6, <3>1, <3>3 DEF AddTurn
    <3>5. Live[j] # None => Live[j] = read[c]
      BY <2>6, <3>1 DEF AddTurn, IInv, ReaderIsCurrent, Live, Lookup, IsLive
    <3>6. Live[j] # None => IsPrefix(Live[j], v)
      BY <3>2, <3>3, <3>5, AppendExtends
    <3> QED
      BY <3>4, <3>6, WriteKeeps
  <2>7. ASSUME NEW c \in User, Swap(c) PROVE IsPrefix(Live[k], Live'[k])
    <3>1. PICK j \in Key, v \in Seq(User) : j = key[c] /\ v = Extended(c)
      BY <2>7, ExtendedType DEF Swap, IInv, KeysInv
    <3>2. SetEx(j, v) /\ Live[j] = read[c] /\ UNCHANGED now
      BY <2>7, <3>1 DEF Swap, CompareAndSetEx, Live
    <3>3. Live[j] # None => IsPrefix(Live[j], v)
      BY <3>1, <3>2, AppendExtends DEF Extended, IInv, TypeOK
    <3> QED
      BY <3>2, <3>3, WriteKeeps
  <2>8. ASSUME NEW c \in User, SwapFails(c) PROVE IsPrefix(Live[k], Live'[k])
    <3>1. PICK j \in Key : j = key[c]
      BY <2>8 DEF SwapFails, IInv, KeysInv
    <3>2. store' = Purged(j) /\ UNCHANGED now
      BY <2>8, <3>1 DEF SwapFails, CompareFails
    <3> QED
      BY <3>2, LookupType, RemovalKeeps DEF IInv, TypeOK
  <2> QED
    BY <2>1, <2>2, <2>3, <2>4, <2>5, <2>6, <2>7, <2>8 DEF Next
<1> QED
  BY <1>1, Invariance, PTL DEF Spec, NoLostUpdate

\* A swap that started from a snapshot succeeds only on a thread that still
\* lives: compare_and_setex treats an expired entry as absent.
THEOREM SwapNeverResurrectsHolds == Spec => SwapNeverResurrects
<1> DEFINE Alive == \A c \in Swapper :
          pc[c] = "read" /\ pc'[c] = "saved" /\ read[c] # None => Live[key[c]] # None
<1>1. IInv /\ [Next]_storageVars => [Alive]_storageVars
  <2> SUFFICES ASSUME IInv, Next, NEW c \in Swapper,
                      pc[c] = "read", pc'[c] = "saved", read[c] # None
               PROVE  Live[key[c]] # None
    OBVIOUS
  <2>1. Swap(c)
    <3>1. c \in User
      BY StorageAssumption
    <3>2. ASSUME NEW d \in User, NEW p \in {"lost", "read"}, pc' = [pc EXCEPT ![d] = p] PROVE FALSE
      BY <3>1, <3>2 DEF IInv, TypeOK
    <3>3. ASSUME NEW d \in User, d # c, pc' = [pc EXCEPT ![d] = "saved"] PROVE FALSE
      BY <3>1, <3>3 DEF IInv, TypeOK
    <3>4. ~Cleanup /\ ~Tick
      BY DEF Cleanup, Tick
    <3>5. ASSUME NEW d \in User, NEW k \in Key, Create(d, k) \/ Get(d, k) \/ StartNew(d, k)
          PROVE  FALSE
      BY <3>1, <3>2, <3>3, <3>5 DEF Create, Get, StartNew
    <3>6. ASSUME NEW d \in User, AddTurn(d) \/ SwapFails(d) PROVE FALSE
      BY <3>1, <3>2, <3>3, <3>6 DEF AddTurn, SwapFails
    <3>7. ASSUME NEW d \in User, Swap(d) PROVE d = c
      BY <3>3, <3>7 DEF Swap
    <3> QED
      BY <3>4, <3>5, <3>6, <3>7 DEF Next
  <2>2. key[c] \in Key /\ Lookup(key[c]) = read[c]
    BY <2>1, StorageAssumption DEF Swap, CompareAndSetEx, IInv, KeysInv
  <2> QED
    BY <2>2 DEF Live
<1> QED
  BY <1>1, Invariance, PTL DEF Spec, SwapNeverResurrects

-----------------------------------------------------------------------------
(* The abstract store. *)

\* A value names users that have saved under its key, each once.
Fits(s, k) ==
    /\ s \in Seq(User)
    /\ \A i, j \in 1 .. Len(s) : s[i] = s[j] => i = j
    /\ \A i \in 1 .. Len(s) : pc[s[i]] = "saved" /\ key[s[i]] = k

ValuesInv ==
    /\ \A k \in Key : store[k] # None => Fits(store[k].value, k)
    /\ \A c \in User : pc[c] = "read" /\ read[c] # None => Fits(read[c], key[c])
    /\ \A c \in User : pc[c] = "idle" => read[c] = None

StoreInv == IInv /\ ValuesInv

\* Who has saved has done so for good: a value that fits goes on to fit.
LEMMA FitsKeeps ==
    ASSUME TypeOK, NEW c \in User, NEW p, NEW q \in Key, pc[c] # "saved",
           pc' = [pc EXCEPT ![c] = p], key' = [key EXCEPT ![c] = q],
           NEW s, NEW k, Fits(s, k)
    PROVE  Fits(s, k)'
<1>1. \A i \in 1 .. Len(s) : s[i] \in User /\ s[i] # c
  BY DEF Fits
<1>2. \A d \in User : d # c => pc'[d] = pc[d] /\ key'[d] = key[d]
  BY DEF TypeOK
<1> QED  BY <1>1, <1>2 DEF Fits

\* The writer's name behind a value that fits, once it has saved.
LEMMA FitsAppend ==
    ASSUME TypeOK, NEW c \in User, NEW k \in Key, pc[c] # "saved",
           pc' = [pc EXCEPT ![c] = "saved"], key' = [key EXCEPT ![c] = k],
           NEW s, Fits(s, k)
    PROVE  Fits(Append(s, c), k)'
<1> DEFINE t == Append(s, c)
<1>1. Fits(s, k)'
  BY FitsKeeps
<1>2. /\ t \in Seq(User) /\ Len(t) = Len(s) + 1 /\ Len(s) \in Nat /\ t[Len(s) + 1] = c
      /\ \A i \in 1 .. Len(s) : t[i] = s[i] /\ s[i] # c
  BY DEF Fits
<1>3. pc'[c] = "saved" /\ key'[c] = k
  BY DEF TypeOK
<1> HIDE DEF t
<1>4. \A i \in 1 .. Len(t) : i \in 1 .. Len(s) \/ i = Len(s) + 1
  BY <1>2
<1>5. \A i, j \in 1 .. Len(t) : t[i] = t[j] => i = j
  BY <1>1, <1>2, <1>4 DEF Fits
<1>6. \A i \in 1 .. Len(t) : pc'[t[i]] = "saved" /\ key'[t[i]] = k
  BY <1>1, <1>2, <1>3, <1>4 DEF Fits
<1> QED  BY <1>2, <1>5, <1>6 DEF Fits, t

LEMMA FitsAlone ==
    ASSUME TypeOK, NEW c \in User, NEW k \in Key,
           pc' = [pc EXCEPT ![c] = "saved"], key' = [key EXCEPT ![c] = k]
    PROVE  Fits(<<c>>, k)'
<1>1. pc'[c] = "saved" /\ key'[c] = k
  BY DEF TypeOK
<1>2. <<c>> \in Seq(User) /\ Len(<<c>>) = 1 /\ <<c>>[1] = c
  OBVIOUS
<1> QED  BY <1>1, <1>2 DEF Fits

\* There are no more names in a value than users.
LEMMA FitsIsValue ==
    ASSUME IsFiniteSet(User), NEW s, NEW k, Fits(s, k)
    PROVE  s \in Values
<1>1. s \in [1 .. Len(s) -> User] /\ Len(s) \in Nat
  BY DEF Fits
<1>2. s \in Injection(1 .. Len(s), User)
  BY <1>1 DEF Fits, Injection, IsInjective
<1>3. Cardinality(1 .. Len(s)) <= Cardinality(User)
  BY <1>2, FS_Injection
<1>4. Cardinality(1 .. Len(s)) = Len(s)
  <2>1. \A n \in Nat : Cardinality(1 .. n) = IF 1 > n THEN 0 ELSE n - 1 + 1
    BY FS_Interval
  <2> QED  BY <1>1, <2>1
<1>5. Cardinality(User) \in Nat
  BY FS_CardinalityType
<1>6. Len(s) \in 0 .. Cardinality(User)
  BY <1>1, <1>3, <1>4, <1>5
<1> QED  BY <1>1, <1>6 DEF Values, SeqOf

\* One user moves on, and what is stored or read then is old or fits.
LEMMA ValuesStep ==
    ASSUME StoreInv, NEW c \in User, NEW p \in {"read", "saved", "lost"}, NEW q \in Key,
           pc[c] # "saved", pc' = [pc EXCEPT ![c] = p], key' = [key EXCEPT ![c] = q],
           \A j \in Key : store'[j] # None => store'[j] = store[j] \/ Fits(store[j].value, j)',
           \A d \in User \ {c} : read'[d] = read[d],
           p = "read" /\ read'[c] # None => Fits(read[c], q)'
    PROVE  ValuesInv'
<1>1. \A d \in User \ {c} : pc'[d] = pc[d] /\ key'[d] = key[d] /\ read'[d] = read[d]
  BY DEF StoreInv, IInv, TypeOK
<1>2. pc'[c] = p /\ key'[c] = q
  BY DEF StoreInv, IInv, TypeOK
<1>3. ASSUME NEW j \in Key, store'[j] # None PROVE Fits(store[j].value, j)'
  <2>1. CASE store'[j] = store[j]
    <3> DEFINE s == store[j].value
    <3>1. Fits(s, j)
      BY <1>3, <2>1 DEF StoreInv, ValuesInv
    <3> HIDE DEF s
    <3>2. \A t : t = s => /\ t \in Seq(User)
                          /\ \A i, k \in 1 .. Len(t) : t[i] = t[k] => i = k
                          /\ \A i \in 1 .. Len(t) : pc'[t[i]] = "saved" /\ key'[t[i]] = j
      BY <3>1, FitsKeeps DEF StoreInv, IInv, Fits
    <3> QED  BY <2>1, <3>2 DEF Fits, s
  <2> QED  BY <1>3, <2>1
<1>4. ASSUME NEW d \in User, pc'[d] = "read", read'[d] # None PROVE Fits(read[d], key[d])'
  <2>1. CASE d = c
    BY <1>2, <1>4, <2>1 DEF Fits
  <2>2. CASE d # c
    <3> DEFINE s == read[d]
               k == key[d]
    <3>1. Fits(s, k)
      BY <1>1, <1>4, <2>2 DEF StoreInv, ValuesInv
    <3> HIDE DEF s, k
    <3>2. \A t, m : t = s /\ m = k =>
                          /\ t \in Seq(User)
                          /\ \A i, n \in 1 .. Len(t) : t[i] = t[n] => i = n
                          /\ \A i \in 1 .. Len(t) : pc'[t[i]] = "saved" /\ key'[t[i]] = m
      BY <3>1, FitsKeeps DEF StoreInv, IInv, Fits
    <3> QED  BY <1>1, <2>2, <3>2 DEF Fits, s, k
  <2> QED  BY <2>1, <2>2
<1>5. \A d \in User : pc'[d] = "idle" => read'[d] = None
  BY <1>1, <1>2 DEF StoreInv, ValuesInv
<1> QED  BY <1>3, <1>4, <1>5 DEF ValuesInv

\* A value is written by the user whose name it ends with.
LEMMA ValuesWritten ==
    ASSUME StoreInv, NEW c \in User, NEW k \in Key, NEW v, SetEx(k, v), pc[c] # "saved",
           pc' = [pc EXCEPT ![c] = "saved"], key' = [key EXCEPT ![c] = k], UNCHANGED read,
           Fits(v, k)'
    PROVE  ValuesInv'
<1>1. \A j \in Key : store'[j] = IF j = k THEN [value |-> v, expires |-> now + TTL] ELSE store[j]
  BY DEF SetEx, StoreInv, IInv, TypeOK
<1>2. \A j \in Key : store'[j] # None => store'[j] = store[j] \/ Fits(store[j].value, j)'
  BY <1>1 DEF Fits
<1> QED  BY <1>2, ValuesStep

\* What each writer writes, and that it fits.
LEMMA CreateWrites ==
    ASSUME StoreInv, NEW c \in User, NEW k \in Key, Create(c, k)
    PROVE  SetEx(k, <<c>>) /\ Fits(<<c>>, k)'
BY FitsAlone DEF Create, StoreInv, IInv

LEMMA AddTurnWrites ==
    ASSUME StoreInv, NEW c \in User, AddTurn(c)
    PROVE  \E k \in Key : \E v : /\ k = key[c] /\ SetEx(k, v) /\ Fits(v, k)'
<1>1. PICK k, s : k \in Key /\ k = key[c] /\ s = read[c]
  BY DEF AddTurn, StoreInv, IInv, KeysInv
<1>2. s # None /\ Fits(s, k)
  BY <1>1, StorageAssumption DEF AddTurn, StoreInv, IInv, ReaderIsCurrent, ValuesInv
<1>3. pc' = [pc EXCEPT ![c] = "saved"] /\ key' = [key EXCEPT ![c] = k] /\ pc[c] # "saved"
  BY <1>1 DEF AddTurn, StoreInv, IInv, TypeOK
<1>4. Fits(Append(s, c), k)'
  BY <1>1, <1>2, <1>3, FitsAppend DEF StoreInv, IInv
<1>5. SetEx(k, Append(s, c))
  BY <1>1 DEF AddTurn
<1> QED  BY <1>1, <1>4, <1>5

LEMMA SwapWrites ==
    ASSUME StoreInv, NEW c \in User, Swap(c)
    PROVE  \E k \in Key : \E v : /\ k = key[c] /\ SetEx(k, v) /\ Fits(v, k)'
<1>1. PICK k, s : k \in Key /\ k = key[c] /\ s = read[c]
  BY DEF Swap, StoreInv, IInv, KeysInv
<1>2. pc' = [pc EXCEPT ![c] = "saved"] /\ key' = [key EXCEPT ![c] = k] /\ pc[c] # "saved"
  BY <1>1 DEF Swap, StoreInv, IInv, TypeOK
<1>3. CASE s = None
  <2>1. SetEx(k, <<c>>)
    BY <1>1, <1>3 DEF Swap, CompareAndSetEx, Extended
  <2>2. Fits(<<c>>, k)'
    BY <1>1, <1>2, FitsAlone DEF StoreInv, IInv
  <2> QED  BY <1>1, <2>1, <2>2
<1>4. CASE s # None
  <2>1. Fits(s, k)
    BY <1>1, <1>4 DEF Swap, StoreInv, ValuesInv
  <2>2. Fits(Append(s, c), k)'
    BY <1>1, <1>2, <2>1, FitsAppend DEF StoreInv, IInv
  <2>3. SetEx(k, Append(s, c))
    BY <1>1, <1>4 DEF Swap, CompareAndSetEx, Extended
  <2> QED  BY <1>1, <2>2, <2>3
<1> QED  BY <1>3, <1>4

\* A read returns a value that fits, and purges.
LEMMA GetReads ==
    ASSUME StoreInv, NEW c \in User, NEW k \in Key, Get(c, k)
    PROVE  ValuesInv'
<1>1. PICK p \in {"read", "lost"} : p = IF Lookup(k) = None THEN "lost" ELSE "read"
  OBVIOUS
<1>2. /\ pc[c] # "saved" /\ pc' = [pc EXCEPT ![c] = p] /\ key' = [key EXCEPT ![c] = k]
      /\ \A d \in User \ {c} : read'[d] = read[d]
      /\ \A j \in Key : store'[j] # None => store'[j] = store[j]
  BY <1>1, LookupType DEF Get, StoreInv, IInv, TypeOK
<1>3. PICK s : s = Lookup(k)
  OBVIOUS
<1>4. read'[c] = s
  BY <1>3 DEF Get, StoreInv, IInv, TypeOK
<1>5. s # None => Fits(s, k)
  BY <1>3, LookupType DEF StoreInv, IInv, ValuesInv
<1>6. s # None => Fits(s, k)'
  BY <1>2, <1>5, FitsKeeps DEF StoreInv, IInv
<1>7. p = "read" /\ read'[c] # None => Fits(read[c], k)'
  BY <1>4, <1>6 DEF Fits
<1> QED  BY <1>2, <1>7, ValuesStep

\* Removing entries changes no value.
LEMMA ValuesRemoved ==
    ASSUME ValuesInv, UNCHANGED <<pc, key, read>>,
           \A j \in Key : store'[j] # None => store'[j] = store[j]
    PROVE  ValuesInv'
BY DEF ValuesInv, Fits

LEMMA InitStoreInv == Init => StoreInv
BY InitIInv DEF Init, StoreInv, ValuesInv

LEMMA NextStoreInv == StoreInv /\ [Next]_storageVars => StoreInv'
<1> SUFFICES ASSUME StoreInv, [Next]_storageVars PROVE ValuesInv'
  BY NextIInv DEF StoreInv
<1>1. CASE Cleanup
  BY <1>1, CleanupType, ValuesRemoved DEF Cleanup, StoreInv, IInv
<1>2. CASE Tick
  BY <1>2, ValuesRemoved DEF Tick, StoreInv
<1>3. ASSUME NEW c \in User, NEW k \in Key, Create(c, k) PROVE ValuesInv'
  BY <1>3, CreateWrites, ValuesWritten DEF Create
<1>4. ASSUME NEW c \in User, NEW k \in Key, Get(c, k) PROVE ValuesInv'
  BY <1>4, GetReads
<1>5. ASSUME NEW c \in User, NEW k \in Key, StartNew(c, k) PROVE ValuesInv'
  <2>1. read'[c] = None
    BY <1>5 DEF StartNew, StoreInv, ValuesInv
  <2> QED  BY <1>5, <2>1, ValuesStep DEF StartNew
<1>6. ASSUME NEW c \in User, AddTurn(c) PROVE ValuesInv'
  <2>1. PICK k, v : /\ k \in Key /\ k = key[c] /\ SetEx(k, v) /\ Fits(v, k)'
    BY <1>6, AddTurnWrites
  <2>2. /\ pc' = [pc EXCEPT ![c] = "saved"] /\ key' = [key EXCEPT ![c] = k] /\ pc[c] # "saved"
        /\ UNCHANGED read
    BY <1>6, <2>1 DEF AddTurn, StoreInv, IInv, TypeOK
  <2> QED  BY <2>1, <2>2, ValuesWritten
<1>7. ASSUME NEW c \in User, Swap(c) PROVE ValuesInv'
  <2>1. PICK k, v : /\ k \in Key /\ k = key[c] /\ SetEx(k, v) /\ Fits(v, k)'
    BY <1>7, SwapWrites
  <2>2. /\ pc' = [pc EXCEPT ![c] = "saved"] /\ key' = [key EXCEPT ![c] = k] /\ pc[c] # "saved"
        /\ UNCHANGED read
    BY <1>7, <2>1 DEF Swap, StoreInv, IInv, TypeOK
  <2> QED  BY <2>1, <2>2, ValuesWritten
<1>8. ASSUME NEW c \in User, SwapFails(c) PROVE ValuesInv'
  <2>1. PICK k \in Key : k = key[c]
    BY <1>8 DEF SwapFails, StoreInv, IInv, KeysInv
  <2>2. key' = [key EXCEPT ![c] = k] /\ pc' = [pc EXCEPT ![c] = "lost"] /\ pc[c] # "saved"
        /\ UNCHANGED read
    BY <1>8, <2>1 DEF SwapFails, StoreInv, IInv, TypeOK
  <2>3. \A j \in Key : store'[j] # None => store'[j] = store[j]
    BY <1>8, <2>1, LookupType DEF SwapFails, CompareFails, StoreInv, IInv
  <2> QED  BY <2>1, <2>2, <2>3, ValuesStep
<1>9. CASE UNCHANGED storageVars
  BY <1>9, ValuesRemoved DEF storageVars, StoreInv
<1> QED
  BY <1>1, <1>2, <1>3, <1>4, <1>5, <1>6, <1>7, <1>8, <1>9 DEF Next

-----------------------------------------------------------------------------
(* The steps as the abstract store sees them. *)

\* A write is a write, of a value.
LEMMA WriteIsWrite ==
    ASSUME StoreInv, NEW k \in Key, NEW v \in Seq(User), SetEx(k, v), UNCHANGED now
    PROVE  Abstract!Write(k, v)
<1> DEFINE e == [value |-> v, expires |-> now + TTL]
<1>0. store'[k] = e /\ \A j \in Key \ {k} : store'[j] = store[j]
  BY DEF StoreInv, IInv, TypeOK, SetEx
<1>a. e # None
  BY <1>0, StorageAssumption DEF StoreInv, IInv, TypeOK
<1>1. /\ store'[k] # None /\ store'[k].value = v /\ store'[k].expires = now + TTL
      /\ \A j \in Key \ {k} : store'[j] = store[j]
  BY <1>0, <1>a
<1>2. now \in Nat /\ TTL \in Nat \ {0} /\ now' = now
  BY StorageAssumption DEF StoreInv, IInv, TypeOK
<1>3. Live'[k] = v /\ Left'[k] = TTL
  BY <1>1, <1>2 DEF Live, Left, Lookup, IsLive
<1>4. \A j \in Key \ {k} : Live'[j] = Live[j] /\ Left'[j] = Left[j]
  BY <1>1, <1>2 DEF Live, Left, Lookup, IsLive
<1>5. Live' = [Live EXCEPT ![k] = v]
  BY <1>3, <1>4 DEF Live
<1>6. Left' = [Left EXCEPT ![k] = TTL]
  BY <1>3, <1>4 DEF Left
<1> QED  BY <1>5, <1>6 DEF Abstract!Write

\* Removing what is not alive cannot be seen.
LEMMA RemovalIsUnseen ==
    ASSUME UNCHANGED now,
           \A j \in Key : store'[j] = store[j] \/ (store'[j] = None /\ ~IsLive(j))
    PROVE  UNCHANGED <<Live, Left>>
<1>1. \A j \in Key : IsLive(j)' <=> IsLive(j)
  BY DEF IsLive
<1>2. \A j \in Key : IsLive(j) => store'[j] = store[j]
  BY DEF IsLive
<1>3. \A j \in Key : Live'[j] = Live[j] /\ Left'[j] = Left[j]
  BY <1>1, <1>2 DEF Live, Left, Lookup
<1>4. Live' = Live
  BY <1>3 DEF Live
<1>5. Left' = Left
  BY <1>3 DEF Left
<1> QED  BY <1>4, <1>5

\* The clock's tick takes one unit from every life.
LEMMA TickIsTime ==
    ASSUME StoreInv, Tick
    PROVE  Abstract!TimePasses
<1>1. now' = now + 1 /\ store' = store /\ now \in Nat
  BY DEF Tick, StoreInv, IInv, TypeOK
<1>2. \A j \in Key : store[j] # None => store[j].expires \in Nat
  BY DEF StoreInv, IInv, TypeOK, Entry
<1>3. \A j \in Key : /\ Live'[j] = IF Left[j] > 1 THEN Live[j] ELSE None
                     /\ Left'[j] = IF Left[j] > 1 THEN Left[j] - 1 ELSE 0
  BY <1>1, <1>2 DEF Live, Left, Lookup, IsLive
<1>4. Live' = [k \in Key |-> IF Left[k] > 1 THEN Live[k] ELSE None]
  BY <1>3 DEF Live
<1>5. Left' = [k \in Key |-> IF Left[k] > 1 THEN Left[k] - 1 ELSE 0]
  BY <1>3 DEF Left
<1> QED  BY <1>4, <1>5 DEF Abstract!TimePasses

LEMMA InitIsInit == Init => Abstract!Init
BY DEF Init, Abstract!Init, Live, Left, Lookup, IsLive

LEMMA FitsIsValueNext ==
    ASSUME IsFiniteSet(User)
    PROVE  (\A v, k : Fits(v, k) => v \in Seq(User) /\ v \in Values)'
<1>1. \A v, k : Fits(v, k) => v \in Seq(User) /\ v \in Values
  BY FitsIsValue DEF Fits
<1> QED  BY <1>1, PTL

LEMMA StepIsStep ==
    ASSUME IsFiniteSet(User), StoreInv, [Next]_storageVars
    PROVE  [Abstract!Next]_<<Live, Left>>
<1>0. \A v, k : Fits(v, k)' => v \in Seq(User) /\ v \in Values
  BY FitsIsValueNext DEF Values
<1>1. CASE Cleanup
  <2>1. UNCHANGED now
    BY <1>1 DEF Cleanup
  <2>2. \A j \in Key : store'[j] = store[j] \/ (store'[j] = None /\ ~IsLive(j))
    BY <1>1 DEF Cleanup, IsLive, StoreInv, IInv, TypeOK, Entry
  <2> QED  BY <2>1, <2>2, RemovalIsUnseen
<1>2. CASE Tick
  BY <1>2, TickIsTime DEF Abstract!Next
<1>3. ASSUME NEW c \in User, NEW k \in Key, Create(c, k) PROVE Abstract!Next
  <2>1. SetEx(k, <<c>>) /\ <<c>> \in Seq(User) /\ <<c>> \in Values /\ UNCHANGED now
    BY <1>0, <1>3, CreateWrites DEF Create
  <2> QED  BY <2>1, WriteIsWrite DEF Abstract!Next
<1>4. ASSUME NEW c \in User, NEW k \in Key, Get(c, k) PROVE UNCHANGED <<Live, Left>>
  <2>1. UNCHANGED now /\ store' = Purged(k)
    BY <1>4 DEF Get
  <2>2. \A j \in Key : store'[j] = store[j] \/ (store'[j] = None /\ ~IsLive(j))
    BY <2>1 DEF Purged, StoreInv, IInv, TypeOK
  <2> QED  BY <2>1, <2>2, RemovalIsUnseen
<1>5. ASSUME NEW c \in User, NEW k \in Key, StartNew(c, k) PROVE UNCHANGED <<Live, Left>>
  BY <1>5, RemovalIsUnseen DEF StartNew
<1>6. ASSUME NEW c \in User, AddTurn(c) \/ Swap(c) PROVE Abstract!Next
  <2>1. PICK k, v : k \in Key /\ SetEx(k, v) /\ Fits(v, k)'
    BY <1>6, AddTurnWrites, SwapWrites
  <2>2. v \in Seq(User) /\ v \in Values /\ UNCHANGED now
    BY <1>0, <1>6, <2>1 DEF AddTurn, Swap
  <2> QED  BY <2>1, <2>2, WriteIsWrite DEF Abstract!Next
<1>7. ASSUME NEW c \in User, SwapFails(c) PROVE UNCHANGED <<Live, Left>>
  <2>1. UNCHANGED now /\ store' = Purged(key[c])
    BY <1>7 DEF SwapFails, CompareFails
  <2>2. \A j \in Key : store'[j] = store[j] \/ (store'[j] = None /\ ~IsLive(j))
    BY <2>1 DEF Purged, StoreInv, IInv, TypeOK
  <2> QED  BY <2>1, <2>2, RemovalIsUnseen
<1>8. CASE UNCHANGED storageVars
  BY <1>8, RemovalIsUnseen DEF storageVars
<1> QED
  BY <1>1, <1>2, <1>3, <1>4, <1>5, <1>6, <1>7, <1>8 DEF Next

\* The store with its lock, its lazy removal and its cleanup thread is the map
\* it promises to be: every key lives for exactly TTL after its last write, a
\* removal is never seen, and only users' values are ever written.  The set of
\* users is finite, so that there are finitely many values they can write.
THEOREM ImplementsExpiringStoreHolds ==
    ASSUME IsFiniteSet(User)
    PROVE  Spec => ImplementsExpiringStore
<1>1. StoreInv /\ [Next]_storageVars => [Abstract!Next]_<<Live, Left>>
  BY StepIsStep
<1> QED
  BY <1>1, InitStoreInv, NextStoreInv, InitIsInit, PTL
     DEF Spec, ImplementsExpiringStore, Abstract!Spec, Abstract!expiringVars

-----------------------------------------------------------------------------
(* The versions of a value. *)

\* What a user saved is still at the beginning of what is stored, and of what
\* an add_turn has read; who starts a new key is alone with it, and nothing is
\* stored there yet.
VersionInv ==
    /\ \A c \in User : pc[c] = "saved" => key[c] \in Key /\ key[c] \in used
    /\ \A c \in User : pc[c] = "saved" /\ store[key[c]] # None =>
           IsPrefix(Extended(c), store[key[c]].value)
    /\ \A c \in User, d \in User \ Swapper :
           pc[c] = "saved" /\ pc[d] = "read" /\ key[c] = key[d] => IsPrefix(Extended(c), read[d])
    /\ \A c, d \in User :
           pc[d] = "read" /\ read[d] = None /\ pc[c] \in {"read", "saved"} /\ key[c] = key[d]
               => c = d
    /\ \A d \in User : pc[d] = "read" /\ read[d] = None => store[key[d]] = None

FullInv == StoreInv /\ VersionInv /\ OneWriterPerVersion

\* A sequence is a proper prefix of itself with more behind it.
LEMMA PrefixFacts ==
    ASSUME NEW s \in Seq(User), NEW t \in Seq(User), NEW c \in User, NEW d \in User
    PROVE  /\ IsPrefix(Append(s, c), t) => IsPrefix(Append(s, c), Append(t, d)) /\ s # t
           /\ IsPrefix(<<c>>, t) => IsPrefix(<<c>>, Append(t, d))
           /\ IsPrefix(Append(t, d), Append(t, d)) /\ IsPrefix(<<c>>, <<c>>)
<1>1. \A p \in Seq(User), q \in Seq(User) : IsPrefix(p, q) => IsPrefix(p, Append(q, d))
  <2> SUFFICES ASSUME NEW p \in Seq(User), NEW q \in Seq(User), IsPrefix(p, q)
               PROVE  IsPrefix(p, Append(q, d))
    OBVIOUS
  <2>1. Len(p) <= Len(q) /\ SubSeq(p, 1, Len(p)) = SubSeq(q, 1, Len(p))
    BY DEF IsPrefix
  <2>2. SubSeq(Append(q, d), 1, Len(p)) = SubSeq(q, 1, Len(p))
    BY <2>1
  <2> QED  BY <2>1, <2>2 DEF IsPrefix
<1>2. Append(s, c) \in Seq(User) /\ <<c>> \in Seq(User) /\ Append(t, d) \in Seq(User)
  OBVIOUS
<1>3. IsPrefix(Append(s, c), t) => s # t
  BY DEF IsPrefix
<1>4. \A p \in Seq(User) : IsPrefix(p, p)
  BY DEF IsPrefix
<1> QED  BY <1>1, <1>2, <1>3, <1>4

\* The same of what a user writes: it goes beyond what the user has read.
LEMMA ExtendedFacts ==
    ASSUME TypeOK, NEW c \in User, NEW d \in User, read[d] # None, IsPrefix(Extended(c), read[d])
    PROVE  IsPrefix(Extended(c), Extended(d)) /\ read[c] # read[d]
<1>1. read[d] \in Seq(User) /\ Extended(d) = Append(read[d], d)
  BY DEF TypeOK, Extended
<1>2. CASE read[c] = None
  BY <1>1, <1>2, PrefixFacts DEF Extended
<1>3. CASE read[c] # None
  <2>1. PICK s \in Seq(User), t \in Seq(User) : s = read[c] /\ t = read[d]
    BY <1>1, <1>3 DEF TypeOK
  <2>2. Extended(c) = Append(s, c) /\ Extended(d) = Append(t, d)
    BY <1>1, <1>3, <2>1 DEF Extended
  <2>3. IsPrefix(Append(s, c), t)
    BY <2>1, <2>2
  <2>4. IsPrefix(Append(s, c), Append(t, d)) /\ s # t
    BY <2>3, PrefixFacts, Zenon
  <2> QED  BY <2>1, <2>2, <2>4
<1> QED  BY <1>2, <1>3

LEMMA ExtendedPrefix ==
    ASSUME TypeOK, NEW c \in User
    PROVE  IsPrefix(Extended(c), Extended(c))
BY ExtendedType, AppendExtends

\* A write over what the writer has read.
LEMMA VersionWritten ==
    ASSUME FullInv, NEW c \in User, NEW k \in Key, SetEx(k, Extended(c)), pc[c] # "saved",
           pc' = [pc EXCEPT ![c] = "saved"], key' = [key EXCEPT ![c] = k], UNCHANGED read,
           k \in used', used \subseteq used',
           \A d \in User : pc[d] = "saved" /\ key[d] = k =>
               IsPrefix(Extended(d), Extended(c)) /\ read[d] # read[c],
           \A d \in User \ {c} : pc[d] = "read" /\ key[d] = k => d \in Swapper /\ read[d] # None
    PROVE  (VersionInv /\ OneWriterPerVersion)'
<1>1. /\ pc'[c] = "saved" /\ key'[c] = k
      /\ \A d \in User \ {c} : pc'[d] = pc[d] /\ key'[d] = key[d]
  BY DEF FullInv, StoreInv, IInv, TypeOK
<1>2. \A d \in User : Extended(d)' = Extended(d)
  BY DEF Extended
<1>3. /\ \A j \in Key \ {k} : store'[j] = store[j]
      /\ store'[k].value = Extended(c)
  BY SetExType, ExtendedType DEF FullInv, StoreInv, IInv
<1>4. \A d \in User : pc'[d] = "saved" => key'[d] \in Key /\ key'[d] \in used'
  BY <1>1 DEF FullInv, VersionInv
<1>5. ASSUME NEW d \in User, pc'[d] = "saved", store'[key'[d]] # None
      PROVE  IsPrefix(Extended(d), store'[key'[d]].value)
  <2>1. CASE d = c
    BY <1>1, <1>3, <2>1, ExtendedPrefix DEF FullInv, StoreInv, IInv
  <2>2. CASE d # c /\ key[d] = k
    BY <1>1, <1>3, <1>5, <2>2
  <2>3. CASE d # c /\ key[d] # k
    BY <1>1, <1>3, <1>4, <1>5, <2>3 DEF FullInv, VersionInv
  <2> QED  BY <2>1, <2>2, <2>3
<1>6. \A e \in User, d \in User \ Swapper :
          pc'[e] = "saved" /\ pc'[d] = "read" /\ key'[e] = key'[d] => IsPrefix(Extended(e), read'[d])
  BY <1>1 DEF FullInv, VersionInv
<1>7. \A e, d \in User :
          pc'[d] = "read" /\ read'[d] = None /\ pc'[e] \in {"read", "saved"} /\ key'[e] = key'[d]
              => e = d
  BY <1>1 DEF FullInv, VersionInv
<1>8. \A d \in User : pc'[d] = "read" /\ read'[d] = None => store'[key'[d]] = None
  BY <1>1, <1>3 DEF FullInv, VersionInv, StoreInv, IInv, KeysInv
<1>9. VersionInv'
  BY <1>2, <1>4, <1>5, <1>6, <1>7, <1>8 DEF VersionInv
<1>10. OneWriterPerVersion'
  BY <1>1 DEF FullInv, OneWriterPerVersion
<1> QED  BY <1>9, <1>10

\* A user that reads, starts a key or gives up; entries are at most removed.
LEMMA VersionStep ==
    ASSUME FullInv, NEW c \in User, NEW k \in Key, NEW p \in {"read", "lost"},
           pc[c] # "saved", pc' = [pc EXCEPT ![c] = p], key' = [key EXCEPT ![c] = k],
           used \subseteq used', \A d \in User \ {c} : read'[d] = read[d],
           \A j \in Key : store'[j] # None => store'[j] = store[j],
           p = "read" /\ c \notin Swapper =>
               \A d \in User : pc[d] = "saved" /\ key[d] = k => IsPrefix(Extended(d), read'[c]),
           p = "read" /\ read'[c] = None =>
               store'[k] = None /\ \A d \in User \ {c} : pc[d] \in {"read", "saved"} => key[d] # k,
           p = "read" =>
               \A d \in User \ {c} : pc[d] = "read" /\ read[d] = None => key[d] # k
    PROVE  (VersionInv /\ OneWriterPerVersion)'
<1>1. /\ pc'[c] = p /\ key'[c] = k
      /\ \A d \in User \ {c} : pc'[d] = pc[d] /\ key'[d] = key[d]
  BY DEF FullInv, StoreInv, IInv, TypeOK
<1>2. \A d \in User \ {c} : Extended(d)' = Extended(d)
  BY DEF Extended
<1>3. \A d \in User : pc'[d] = "saved" => d # c /\ key'[d] \in Key /\ key'[d] \in used'
  BY <1>1 DEF FullInv, VersionInv
<1>4. \A d \in User : pc'[d] = "saved" /\ store'[key'[d]] # None =>
          IsPrefix(Extended(d)', store'[key'[d]].value)
  BY <1>1, <1>2, <1>3 DEF FullInv, VersionInv
<1>5. \A e \in User, d \in User \ Swapper :
          pc'[e] = "saved" /\ pc'[d] = "read" /\ key'[e] = key'[d]
              => IsPrefix(Extended(e)', read'[d])
  BY <1>1, <1>2, <1>3 DEF FullInv, VersionInv
<1>6. \A e, d \in User :
          pc'[d] = "read" /\ read'[d] = None /\ pc'[e] \in {"read", "saved"} /\ key'[e] = key'[d]
              => e = d
  BY <1>1 DEF FullInv, VersionInv
<1>7. \A d \in User : pc'[d] = "read" /\ read'[d] = None => store'[key'[d]] = None
  BY <1>1 DEF FullInv, VersionInv, StoreInv, IInv, KeysInv
<1>8. VersionInv'
  BY <1>3, <1>4, <1>5, <1>6, <1>7 DEF VersionInv
<1>9. OneWriterPerVersion'
  BY <1>1, <1>3 DEF FullInv, OneWriterPerVersion
<1> QED  BY <1>8, <1>9

LEMMA VersionRemoved ==
    ASSUME FullInv, UNCHANGED <<used, pc, key, read>>,
           \A j \in Key : store'[j] # None => store'[j] = store[j]
    PROVE  (VersionInv /\ OneWriterPerVersion)'
BY DEF FullInv, VersionInv, OneWriterPerVersion, Extended, StoreInv, IInv, KeysInv

LEMMA InitFullInv == Init => FullInv
BY InitStoreInv DEF Init, FullInv, VersionInv, OneWriterPerVersion

LEMMA NextFullInv == FullInv /\ [Next]_storageVars => FullInv'
<1> SUFFICES ASSUME FullInv, [Next]_storageVars PROVE (VersionInv /\ OneWriterPerVersion)'
  BY NextStoreInv DEF FullInv
<1> USE StorageAssumption
<1>1. CASE Cleanup
  BY <1>1, CleanupType, VersionRemoved DEF Cleanup, FullInv, StoreInv, IInv
<1>2. CASE Tick
  BY <1>2, VersionRemoved DEF Tick
<1>3. ASSUME NEW c \in User, NEW k \in Key, Create(c, k) PROVE (VersionInv /\ OneWriterPerVersion)'
  <2>1. read[c] = None /\ Extended(c) = <<c>> /\ k \notin used
    BY <1>3 DEF Create, FullInv, StoreInv, ValuesInv, Extended
  <2>2. \A d \in User : pc[d] \in {"read", "saved"} => key[d] # k
    BY <2>1 DEF FullInv, VersionInv, StoreInv, IInv, KeysInv
  <2>3. /\ SetEx(k, Extended(c)) /\ UNCHANGED read /\ k \in used' /\ used \subseteq used'
        /\ pc[c] # "saved" /\ pc' = [pc EXCEPT ![c] = "saved"] /\ key' = [key EXCEPT ![c] = k]
    BY <1>3, <2>1 DEF Create
  <2> QED  BY <2>2, <2>3, VersionWritten
<1>4. ASSUME NEW c \in User, NEW k \in Key, Get(c, k) PROVE (VersionInv /\ OneWriterPerVersion)'
  <2>1. PICK p \in {"read", "lost"} : p = IF Lookup(k) = None THEN "lost" ELSE "read"
    OBVIOUS
  <2>2. /\ pc[c] # "saved" /\ pc' = [pc EXCEPT ![c] = p] /\ key' = [key EXCEPT ![c] = k]
        /\ \A d \in User \ {c} : read'[d] = read[d]
        /\ read'[c] = Lookup(k) /\ used' = used
        /\ \A j \in Key : store'[j] # None => store'[j] = store[j]
    BY <1>4, <2>1, LookupType DEF Get, FullInv, StoreInv, IInv, TypeOK
  <2>3. p = "read" => store[k] # None /\ store[k].value = read'[c] /\ read'[c] # None
    BY <2>1, <2>2, LookupType DEF FullInv, StoreInv, IInv
  <2>4. p = "read" => \A d \in User : pc[d] = "saved" /\ key[d] = k => IsPrefix(Extended(d), read'[c])
    BY <2>3 DEF FullInv, VersionInv
  <2>5. p = "read" => \A d \in User \ {c} : pc[d] = "read" /\ read[d] = None => key[d] # k
    BY <2>3 DEF FullInv, VersionInv
  <2> QED  BY <2>2, <2>3, <2>4, <2>5, VersionStep
<1>5. ASSUME NEW c \in User, NEW k \in Key, StartNew(c, k)
      PROVE  (VersionInv /\ OneWriterPerVersion)'
  <2>1. k \notin used /\ c \in Swapper /\ UNCHANGED <<store, read>>
    BY <1>5 DEF StartNew
  <2>2. \A d \in User : pc[d] \in {"read", "saved"} => key[d] # k
    BY <2>1 DEF FullInv, VersionInv, StoreInv, IInv, KeysInv
  <2>3. store[k] = None
    BY <2>1 DEF FullInv, StoreInv, IInv, KeysInv
  <2>4. pc[c] # "saved" /\ used \subseteq used' /\ key' = [key EXCEPT ![c] = k]
        /\ pc' = [pc EXCEPT ![c] = "read"]
    BY <1>5 DEF StartNew
  <2> QED  BY <2>1, <2>2, <2>3, <2>4, VersionStep
<1>6. ASSUME NEW c \in User, AddTurn(c) PROVE (VersionInv /\ OneWriterPerVersion)'
  <2>1. PICK k \in Key : k = key[c]
    BY <1>6 DEF AddTurn, FullInv, StoreInv, IInv, KeysInv
  <2>2. pc[c] = "read" /\ c \notin Swapper /\ read[c] # None
    BY <1>6 DEF AddTurn, FullInv, StoreInv, IInv, ReaderIsCurrent
  <2>3. /\ SetEx(k, Extended(c)) /\ UNCHANGED <<used, read>>
        /\ pc' = [pc EXCEPT ![c] = "saved"] /\ key' = [key EXCEPT ![c] = k]
    BY <1>6, <2>1, <2>2 DEF AddTurn, Extended, FullInv, StoreInv, IInv, TypeOK
  <2>4. k \in used'
    BY <2>1, <2>2, <2>3 DEF FullInv, StoreInv, IInv, KeysInv
  <2>5. \A d \in User : pc[d] = "saved" /\ key[d] = k =>
            IsPrefix(Extended(d), Extended(c)) /\ read[d] # read[c]
    BY <2>1, <2>2, ExtendedFacts DEF FullInv, VersionInv, StoreInv, IInv
  <2>6. \A d \in User \ {c} : pc[d] = "read" /\ key[d] = k => d \in Swapper /\ read[d] # None
    BY <2>1, <2>2 DEF FullInv, VersionInv, StoreInv, IInv, OneReader
  <2> QED  BY <2>2, <2>3, <2>4, <2>5, <2>6, VersionWritten
<1>7. ASSUME NEW c \in User, Swap(c) PROVE (VersionInv /\ OneWriterPerVersion)'
  <2>1. PICK k \in Key : k = key[c]
    BY <1>7 DEF Swap, FullInv, StoreInv, IInv, KeysInv
  <2>2. pc[c] = "read" /\ LoopIsFree /\ Lookup(k) = read[c]
    BY <1>7, <2>1 DEF Swap, CompareAndSetEx
  <2>3. /\ SetEx(k, Extended(c)) /\ UNCHANGED <<used, read>>
        /\ pc' = [pc EXCEPT ![c] = "saved"] /\ key' = [key EXCEPT ![c] = k]
    BY <1>7, <2>1 DEF Swap, CompareAndSetEx, FullInv, StoreInv, IInv, TypeOK
  <2>4. k \in used'
    BY <2>1, <2>2, <2>3 DEF FullInv, StoreInv, IInv, KeysInv
  <2>5. \A d \in User : pc[d] = "saved" /\ key[d] = k =>
            IsPrefix(Extended(d), Extended(c)) /\ read[d] # read[c]
    <3> SUFFICES ASSUME NEW d \in User, pc[d] = "saved", key[d] = k
                 PROVE  IsPrefix(Extended(d), Extended(c)) /\ read[d] # read[c]
      OBVIOUS
    <3>1. read[c] # None
      BY <2>1, <2>2 DEF FullInv, VersionInv
    <3>2. store[k] # None /\ store[k].value = read[c]
      BY <2>2, <3>1, LookupType DEF FullInv, StoreInv, IInv
    <3>3. IsPrefix(Extended(d), read[c])
      BY <3>2 DEF FullInv, VersionInv
    <3> QED  BY <3>1, <3>3, ExtendedFacts DEF FullInv, StoreInv, IInv
  <2>6. \A d \in User \ {c} : pc[d] = "read" /\ key[d] = k => d \in Swapper /\ read[d] # None
    BY <2>1, <2>2 DEF FullInv, VersionInv, LoopIsFree
  <2> QED  BY <2>2, <2>3, <2>4, <2>5, <2>6, VersionWritten
<1>8. ASSUME NEW c \in User, SwapFails(c) PROVE (VersionInv /\ OneWriterPerVersion)'
  <2>1. PICK k \in Key : k = key[c]
    BY <1>8 DEF SwapFails, FullInv, StoreInv, IInv, KeysInv
  <2>2. /\ key' = [key EXCEPT ![c] = k] /\ pc' = [pc EXCEPT ![c] = "lost"] /\ pc[c] # "saved"
        /\ UNCHANGED <<used, read>>
    BY <1>8, <2>1 DEF SwapFails, FullInv, StoreInv, IInv, TypeOK
  <2>3. \A j \in Key : store'[j] # None => store'[j] = store[j]
    BY <1>8, <2>1, LookupType DEF SwapFails, CompareFails, FullInv, StoreInv, IInv
  <2> QED  BY <2>2, <2>3, VersionStep
<1>9. CASE UNCHANGED storageVars
  BY <1>9, VersionRemoved DEF storageVars
<1> QED
  BY <1>1, <1>2, <1>3, <1>4, <1>5, <1>6, <1>7, <1>8, <1>9 DEF Next

\* Of the users that start from the same version of a thread at most one saves
\* its turn, whether they write without comparing or swap.
THEOREM OneWriterPerVersionHolds == Spec => []OneWriterPerVersion
<1>1. FullInv => OneWriterPerVersion
  BY DEF FullInv
<1> QED  BY <1>1, InitFullInv, NextFullInv, PTL DEF Spec
=============================================================================
