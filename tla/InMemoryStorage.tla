-------------------------- MODULE InMemoryStorage --------------------------
(***************************************************************************)
(* utils/storage_backend.py: the process-wide store of conversation        *)
(* threads, with times to live, lazy removal on access and a background    *)
(* thread that removes expired entries.  Every method holds the store's    *)
(* lock from the reading of the clock to its last effect, so each is one   *)
(* step.                                                                   *)
(*                                                                         *)
(* The users are modelled from their calls: conversation_memory.py creates *)
(* a key (create_thread), or reads and overwrites one without yielding to  *)
(* the event loop (add_turn); clink reads one, awaits its CLI, and swaps.  *)
(* While an add_turn is between its two calls no other user runs, but time *)
(* passes and the cleanup thread may run.  A user runs once and adds its   *)
(* name to the value, which is the sequence of the users that wrote it.    *)
(***************************************************************************)
EXTENDS Integers, FiniteSets, SequencesExt

CONSTANTS Key, User,
          Swapper,   \* the users that swap: clink
          TTL,       \* CONVERSATION_TIMEOUT_SECONDS
          MaxTime,   \* bound on the clock
          None

ASSUME StorageAssumption ==
    /\ Swapper \subseteq User
    /\ TTL \in Nat \ {0}
    /\ MaxTime \in Nat
    /\ None \notin Seq(User) \cup [value : Seq(User), expires : Nat]

VARIABLES store,   \* _store: key -> [value, expires] or None
          now,     \* time.time()
          used,    \* the keys that have been created (ids are never reused)
          pc,      \* per user: "idle", "read", "saved" or "lost"
          key,     \* per user: the key it works on
          read     \* per user: the value get() returned

storageVars == <<store, now, used, pc, key, read>>

Entry == [value : Seq(User), expires : Nat]

TypeOK ==
    /\ store \in [Key -> Entry \cup {None}]
    /\ now \in 0 .. MaxTime
    /\ used \subseteq Key
    /\ pc \in [User -> {"idle", "read", "saved", "lost"}]
    /\ key \in [User -> Key \cup {None}]
    /\ read \in [User -> Seq(User) \cup {None}]

Init ==
    /\ store = [k \in Key |-> None]
    /\ now = 0
    /\ used = {}
    /\ pc = [c \in User |-> "idle"]
    /\ key = [c \in User |-> None]
    /\ read = [c \in User |-> None]

-----------------------------------------------------------------------------
(* The methods of InMemoryStorage. *)

\* Mutant: the last instant counts as alive.
LiveOnTheLastInstant(k) == store[k] # None /\ now <= store[k].expires

IsLive(k) == store[k] # None /\ now < store[k].expires

\* What get() returns, and the store after its lazy removal.
Lookup(k) == IF IsLive(k) THEN store[k].value ELSE None

Purged(k) == IF IsLive(k) THEN store ELSE [store EXCEPT ![k] = None]

\* set_with_ttl, also called setex.
SetEx(k, v) == store' = [store EXCEPT ![k] = [value |-> v, expires |-> now + TTL]]

\* Mutants: no comparison; a comparison that finds expired entries too.
SetExWithoutComparing(k, expected, v) == SetEx(k, v)

SetExFindingExpired(k, expected, v) ==
    /\ \/ Lookup(k) = expected
       \/ store[k] # None /\ store[k].value = expected
    /\ SetEx(k, v)

\* compare_and_setex that returns True.
CompareAndSetEx(k, expected, v) ==
    /\ Lookup(k) = expected
    /\ SetEx(k, v)

\* compare_and_setex that returns False: an expired entry is removed, a live
\* one keeps its expiry.
CompareFails(k, expected) ==
    /\ Lookup(k) # expected
    /\ store' = Purged(k)

\* Mutant: the cleanup has its test the wrong way round.
CleanupTheLiving ==
    /\ store' = [k \in Key |-> IF store[k] # None /\ store[k].expires > now
                               THEN None ELSE store[k]]
    /\ UNCHANGED <<now, used, pc, key, read>>

\* _cleanup_expired.
Cleanup ==
    /\ store' = [k \in Key |-> IF store[k] # None /\ store[k].expires < now
                               THEN None ELSE store[k]]
    /\ UNCHANGED <<now, used, pc, key, read>>

Tick ==
    /\ now < MaxTime
    /\ now' = now + 1
    /\ UNCHANGED <<store, used, pc, key, read>>

-----------------------------------------------------------------------------
(* The users. *)

\* No add_turn is between its get and its setex.
LoopIsFree == \A c \in User \ Swapper : pc[c] # "read"

\* create_thread: a new id is written.
Create(c, k) ==
    /\ LoopIsFree
    /\ pc[c] = "idle" /\ c \notin Swapper
    /\ k \notin used
    /\ SetEx(k, <<c>>)
    /\ used' = used \cup {k}
    /\ pc' = [pc EXCEPT ![c] = "saved"]
    /\ key' = [key EXCEPT ![c] = k]
    /\ UNCHANGED <<now, read>>

\* get(), before an add_turn or for a snapshot; without a value the user stops.
Get(c, k) ==
    /\ LoopIsFree
    /\ pc[c] = "idle"
    /\ k \in used
    /\ read' = [read EXCEPT ![c] = Lookup(k)]
    /\ store' = Purged(k)
    /\ pc' = [pc EXCEPT ![c] = IF Lookup(k) = None THEN "lost" ELSE "read"]
    /\ key' = [key EXCEPT ![c] = k]
    /\ UNCHANGED <<now, used>>

\* The rest of add_turn: the extended value is written, whatever happened to
\* the key in the meantime.
AddTurn(c) ==
    /\ pc[c] = "read" /\ c \notin Swapper
    /\ SetEx(key[c], Append(read[c], c))
    /\ pc' = [pc EXCEPT ![c] = "saved"]
    /\ UNCHANGED <<now, used, key, read>>

\* clink without continuation id: no key is read, the snapshot is None.
StartNew(c, k) ==
    /\ LoopIsFree
    /\ pc[c] = "idle" /\ c \in Swapper
    /\ k \notin used
    /\ used' = used \cup {k}
    /\ pc' = [pc EXCEPT ![c] = "read"]
    /\ key' = [key EXCEPT ![c] = k]
    /\ UNCHANGED <<store, now, read>>

Extended(c) == IF read[c] = None THEN <<c>> ELSE Append(read[c], c)

\* clink's commit: it succeeds, or loses.
Swap(c) ==
    /\ LoopIsFree
    /\ pc[c] = "read" /\ c \in Swapper
    /\ CompareAndSetEx(key[c], read[c], Extended(c))
    /\ pc' = [pc EXCEPT ![c] = "saved"]
    /\ UNCHANGED <<now, used, key, read>>

SwapFails(c) ==
    /\ LoopIsFree
    /\ pc[c] = "read" /\ c \in Swapper
    /\ CompareFails(key[c], read[c])
    /\ pc' = [pc EXCEPT ![c] = "lost"]
    /\ UNCHANGED <<now, used, key, read>>

Next ==
    \/ Cleanup
    \/ Tick
    \/ \E c \in User :
          \/ \E k \in Key : Create(c, k) \/ Get(c, k) \/ StartNew(c, k)
          \/ AddTurn(c) \/ Swap(c) \/ SwapFails(c)

Spec == Init /\ [][Next]_storageVars

\* Time passes, the cleanup thread keeps waking up, and an add_turn that has
\* read goes on to write.
FairSpec ==
    /\ Spec
    /\ WF_storageVars(Tick)
    /\ WF_storageVars(Cleanup)
    /\ \A c \in User : WF_storageVars(AddTurn(c))

-----------------------------------------------------------------------------
(* Properties. *)

\* What a reader would get for every key.
Live == [k \in Key |-> Lookup(k)]

\* While a thread lives no writer erases what another has written, although
\* readers keep their copy for as long as a CLI runs.
NoLostUpdate ==
    [][\A k \in Key : Live[k] # None /\ Live'[k] # None => IsPrefix(Live[k], Live'[k])]_storageVars

\* "An update with an existing snapshot therefore cannot resurrect an expired
\* key": a swap with a snapshot succeeds only on a key that still lives.
SwapNeverResurrects ==
    [][\A c \in Swapper :
          pc[c] = "read" /\ pc'[c] = "saved" /\ read[c] # None => Live[key[c]] # None]_storageVars

\* Of the users that started from the same value of a key, at most one saves.
OneWriterPerVersion ==
    \A c, d \in User :
        pc[c] = "saved" /\ pc[d] = "saved" /\ key[c] = key[d] /\ read[c] = read[d] => c = d

\* Dead threads do not stay in memory, even if nobody asks for them again.
ExpiredAreRemoved ==
    \A k \in Key :
        (store[k] # None /\ store[k].expires < MaxTime)
            ~> (store[k] = None \/ store[k].expires >= MaxTime)

\* The store is a map whose keys live for TTL after their last write, neither
\* longer nor shorter; removal, lazy or in the background, is invisible.
\* (A value names each user at most once.)
Values == SeqOf(User, Cardinality(User))

Left == [k \in Key |-> IF IsLive(k) THEN store[k].expires - now ELSE 0]

Abstract == INSTANCE ExpiringStore WITH live <- Live, left <- Left, Value <- Values

ImplementsExpiringStore == Abstract!Spec
=============================================================================
