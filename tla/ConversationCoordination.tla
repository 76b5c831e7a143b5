--------------------- MODULE ConversationCoordination ---------------------
(***************************************************************************)
(* utils/conversation_coordination.py: the registry of per-conversation    *)
(* locks that serialises the invocations of one event loop.                *)
(*                                                                         *)
(* A caller is one MCP request and runs once.  `Clink' callers ask with    *)
(* wait=False, all others wait.  The registry maps a thread id to an       *)
(* _Entry object; an object is named here after the caller that created    *)
(* it, which makes object identity visible: two callers exclude each other *)
(* only if they hold the same object.  Each action is the code between two *)
(* suspension points of the event loop.  The fields of an _Entry are the   *)
(* functions locked, waiters (of its asyncio.Lock) and users.              *)
(***************************************************************************)
EXTENDS Integers, FiniteSets, SequencesExt

CONSTANTS Caller,  \* the requests
          Clink,   \* the requests of the clink tool: they never wait
          Thread,  \* continuation ids
          None     \* Python's None

ASSUME CoordinationAssumption ==
    /\ Clink \subseteq Caller
    /\ None \notin Caller \cup Thread

VARIABLES entries,     \* the registry _entries: thread -> object or None
          locked,      \* per object: is its asyncio.Lock held?
          waiters,     \* per object: the lock's deque of waiting callers
          users,       \* per object: the reference count
          pc,          \* per caller: where its coroutine is
          thread,      \* per caller: the thread id it coordinates on
          entry,       \* per caller: its local variable `entry'
          future,      \* per caller: the future it awaits inside acquire()
          cancelling   \* per caller: has its task been cancelled?

coordinationVars ==
    <<entries, locked, waiters, users, pc, thread, entry, future, cancelling>>

TypeOK ==
    /\ entries \in [Thread -> Caller \cup {None}]
    /\ locked \in [Caller -> BOOLEAN]
    /\ waiters \in [Caller -> Seq(Caller)]
    /\ users \in [Caller -> Nat]
    /\ pc \in [Caller -> {"idle", "waiting", "running", "busy", "done"}]
    /\ thread \in [Caller -> Thread \cup {None}]
    /\ entry \in [Caller -> Caller \cup {None}]
    /\ future \in [Caller -> {"none", "pending", "woken", "cancelled"}]
    /\ cancelling \in [Caller -> BOOLEAN]

CoordinationInit ==
    /\ entries = [t \in Thread |-> None]
    /\ locked = [e \in Caller |-> FALSE]
    /\ waiters = [e \in Caller |-> << >>]
    /\ users = [e \in Caller |-> 0]
    /\ pc = [c \in Caller |-> "idle"]
    /\ thread = [c \in Caller |-> None]
    /\ entry = [c \in Caller |-> None]
    /\ future = [c \in Caller |-> "none"]
    /\ cancelling = [c \in Caller |-> FALSE]

-----------------------------------------------------------------------------
(* asyncio.Lock (standard library). *)

\* The immediate path of acquire(): unlocked, and nobody in the deque whose
\* future has not been cancelled.
LockIsFree(e) ==
    /\ ~locked[e]
    /\ \A i \in DOMAIN waiters[e] : future[waiters[e][i]] = "cancelled"

\* _wake_up_first() on deque q: resolve the first future unless it is done.
WakeUpFirst(q) ==
    IF q # << >> /\ future[Head(q)] = "pending"
    THEN [future EXCEPT ![Head(q)] = "woken"]
    ELSE future

\* waiters.remove(fut) for the future of caller c.
Without(q, c) == RemoveAt(q, CHOOSE i \in DOMAIN q : q[i] = c)

-----------------------------------------------------------------------------
(* coordinate_conversation. *)

\* The object an arriving caller ends up with: the registered one, or its own.
EntryFor(c, t) == IF entries[t] = None THEN c ELSE entries[t]

IsBusy(t) == entries[t] # None /\ users[entries[t]] # 0

\* Mutant: a caller that does not wait is always turned away.
RejectAlways(c, t) ==
    /\ pc[c] = "idle"
    /\ c \in Clink
    /\ pc' = [pc EXCEPT ![c] = "busy"]
    /\ UNCHANGED <<entries, locked, waiters, users, thread, entry, future, cancelling>>

\* Not waiting, and somebody holds the conversation or queues for it.
RejectBusy(c, t) ==
    /\ pc[c] = "idle"
    /\ c \in Clink
    /\ IsBusy(t)
    /\ pc' = [pc EXCEPT ![c] = "busy"]
    /\ UNCHANGED <<entries, locked, waiters, users, thread, entry, future, cancelling>>

\* Registration, up to the first suspension: users += 1 on the entry.
Register(c, t) ==
    /\ pc[c] = "idle"
    /\ ~(c \in Clink /\ IsBusy(t))
    /\ entries' = [entries EXCEPT ![t] = EntryFor(c, t)]
    /\ users' = [users EXCEPT ![EntryFor(c, t)] = @ + 1]
    /\ thread' = [thread EXCEPT ![c] = t]
    /\ entry' = [entry EXCEPT ![c] = EntryFor(c, t)]
    /\ UNCHANGED cancelling

\* The lock is free: the body starts without yielding to the event loop.
AcquireNow(c, t) ==
    /\ Register(c, t)
    /\ LockIsFree(EntryFor(c, t))
    /\ locked' = [locked EXCEPT ![EntryFor(c, t)] = TRUE]
    /\ pc' = [pc EXCEPT ![c] = "running"]
    /\ UNCHANGED <<waiters, future>>

\* Mutant: the newest waiter goes first.
EnqueueInFront(c, t) ==
    /\ Register(c, t)
    /\ ~LockIsFree(EntryFor(c, t))
    /\ waiters' = [waiters EXCEPT ![EntryFor(c, t)] = <<c>> \o @]
    /\ future' = [future EXCEPT ![c] = "pending"]
    /\ pc' = [pc EXCEPT ![c] = "waiting"]
    /\ UNCHANGED locked

\* The lock is taken or promised: join the deque and suspend.
Enqueue(c, t) ==
    /\ Register(c, t)
    /\ ~LockIsFree(EntryFor(c, t))
    /\ waiters' = [waiters EXCEPT ![EntryFor(c, t)] = Append(@, c)]
    /\ future' = [future EXCEPT ![c] = "pending"]
    /\ pc' = [pc EXCEPT ![c] = "waiting"]
    /\ UNCHANGED locked

\* No continuation id: the body runs without any lock.
RunUncoordinated(c) ==
    /\ pc[c] = "idle"
    /\ pc' = [pc EXCEPT ![c] = "running"]
    /\ UNCHANGED <<entries, locked, waiters, users, thread, entry, future, cancelling>>

\* A woken waiter runs again and takes the lock.
Resume(c) ==
    /\ pc[c] = "waiting"
    /\ future[c] = "woken"
    /\ ~cancelling[c]
    /\ waiters' = [waiters EXCEPT ![entry[c]] = Without(@, c)]
    /\ locked' = [locked EXCEPT ![entry[c]] = TRUE]
    /\ future' = [future EXCEPT ![c] = "none"]
    /\ pc' = [pc EXCEPT ![c] = "running"]
    /\ UNCHANGED <<entries, users, thread, entry, cancelling>>

\* Task.cancel() on a waiter: a pending future is cancelled at once, one that
\* is resolved already keeps its result and the task sees the cancellation
\* when it next runs.
CancelWaiting(c) ==
    /\ pc[c] = "waiting"
    /\ ~cancelling[c]
    /\ cancelling' = [cancelling EXCEPT ![c] = TRUE]
    /\ future' = [future EXCEPT ![c] = IF @ = "pending" THEN "cancelled" ELSE @]
    /\ UNCHANGED <<entries, locked, waiters, users, pc, thread, entry>>

\* Mutants: the entry is dropped although others use it; a cancelled waiter keeps
\* its reference (no `finally' around acquire).
UnregisterAlways(c) ==
    /\ users' = [users EXCEPT ![entry[c]] = @ - 1]
    /\ entries' = [entries EXCEPT ![thread[c]] = None]
    /\ thread' = [thread EXCEPT ![c] = None]
    /\ entry' = [entry EXCEPT ![c] = None]
    /\ pc' = [pc EXCEPT ![c] = "done"]

UnregisterHolders(c) ==
    /\ users' = IF pc[c] = "waiting" THEN users ELSE [users EXCEPT ![entry[c]] = @ - 1]
    /\ entries' = IF pc[c] # "waiting" /\ users[entry[c]] = 1
                  THEN [entries EXCEPT ![thread[c]] = None] ELSE entries
    /\ thread' = [thread EXCEPT ![c] = None]
    /\ entry' = [entry EXCEPT ![c] = None]
    /\ pc' = [pc EXCEPT ![c] = "done"]

\* The `finally' of coordinate_conversation, for a caller that used the lock.
Unregister(c) ==
    /\ users' = [users EXCEPT ![entry[c]] = @ - 1]
    /\ entries' = IF users[entry[c]] = 1 THEN [entries EXCEPT ![thread[c]] = None]
                                         ELSE entries
    /\ thread' = [thread EXCEPT ![c] = None]
    /\ entry' = [entry EXCEPT ![c] = None]
    /\ pc' = [pc EXCEPT ![c] = "done"]

\* Mutant: a cancelled waiter keeps the wake-up it received.
UnwindSilently(c) ==
    /\ pc[c] = "waiting"
    /\ cancelling[c]
    /\ waiters' = [waiters EXCEPT ![entry[c]] = Without(@, c)]
    /\ future' = [future EXCEPT ![c] = "none"]
    /\ Unregister(c)
    /\ UNCHANGED <<locked, cancelling>>

\* A cancelled waiter runs again: it leaves the deque, passes a wake-up on when
\* nobody holds the lock, and drops its reference.
Unwind(c) ==
    /\ pc[c] = "waiting"
    /\ cancelling[c]
    /\ LET rest == Without(waiters[entry[c]], c)
           woken == IF locked[entry[c]] THEN future ELSE WakeUpFirst(rest)
       IN  /\ waiters' = [waiters EXCEPT ![entry[c]] = rest]
           /\ future' = [woken EXCEPT ![c] = "none"]
    /\ Unregister(c)
    /\ UNCHANGED <<locked, cancelling>>

\* The body ends, by return, exception or cancellation: release the lock, wake
\* the first waiter, drop the reference.
Leave(c) ==
    /\ pc[c] = "running"
    /\ thread[c] # None
    /\ locked' = [locked EXCEPT ![entry[c]] = FALSE]
    /\ future' = WakeUpFirst(waiters[entry[c]])
    /\ Unregister(c)
    /\ UNCHANGED <<waiters, cancelling>>

LeaveUncoordinated(c) ==
    /\ pc[c] = "running"
    /\ thread[c] = None
    /\ pc' = [pc EXCEPT ![c] = "done"]
    /\ UNCHANGED <<entries, locked, waiters, users, thread, entry, future, cancelling>>

Finish(c) == Leave(c) \/ LeaveUncoordinated(c)

\* Every request has been answered: the server idles.
Quiescent ==
    /\ \A c \in Caller : pc[c] \in {"busy", "done"}
    /\ UNCHANGED coordinationVars

CoordinationNext ==
    \/ \E c \in Caller :
          \/ \E t \in Thread : RejectBusy(c, t) \/ AcquireNow(c, t) \/ Enqueue(c, t)
          \/ RunUncoordinated(c)
          \/ Resume(c)
          \/ CancelWaiting(c)
          \/ Unwind(c)
          \/ Finish(c)
    \/ Quiescent

CoordinationSpec == CoordinationInit /\ [][CoordinationNext]_coordinationVars

\* The event loop runs every task that is ready, and a tool's execution ends
\* (provider and CLI calls have timeouts).  Nobody is obliged to call or to
\* cancel.
CoordinationFairness ==
    \A c \in Caller : WF_coordinationVars(Resume(c) \/ Unwind(c) \/ Finish(c))

FairCoordinationSpec == CoordinationSpec /\ CoordinationFairness

-----------------------------------------------------------------------------
(* Properties. *)

Present(t) == {c \in Caller : pc[c] \in {"waiting", "running"} /\ thread[c] = t}

\* Two invocations never run on the same conversation at the same time, even
\* when waiters are cancelled, the entry is dropped from the registry and a new
\* one is registered in between ("Hold one continuation's lock through
\* admission, execution and persistence").
MutualExclusion ==
    \A c, d \in Caller :
        (pc[c] = "running" /\ pc[d] = "running" /\ thread[c] # None /\ thread[c] = thread[d])
            => c = d

\* "The registry retains only active holders and waiters": a thread is
\* registered exactly while someone is present, its reference count is the
\* number of those present, and all of them share the registered object.
RegistryIsExact ==
    \A t \in Thread :
        IF entries[t] = None
        THEN Present(t) = {}
        ELSE /\ users[entries[t]] = Cardinality(Present(t))
             /\ Present(t) # {}
             /\ \A c \in Present(t) : entry[c] = entries[t]

\* No wake-up is lost: when a conversation's lock is not held and someone waits
\* for it, the first in the deque has been woken or cancelled, so it will run
\* and take the lock or pass the wake-up on.
HandoverPending ==
    \A t \in Thread :
        LET e == entries[t] IN
        (e # None /\ ~locked[e] /\ waiters[e] # << >>)
            => future[Head(waiters[e])] \in {"woken", "cancelled"}

\* "An idle lock acquires without yielding": a non-waiting caller is answered
\* busy or runs at once, it is never found in a queue.
ClinkNeverWaits == \A c \in Clink : pc[c] # "waiting"

Position(c) == CHOOSE i \in DOMAIN waiters[entry[c]] : waiters[entry[c]][i] = c

\* Whoever starts to run on a conversation does not overtake a waiter that came
\* before and has not been cancelled; a new arrival overtakes nobody.
FirstComeFirstServed ==
    [][\A c, d \in Caller :
          (/\ pc[d] # "running" /\ pc'[d] = "running"
           /\ pc[c] = "waiting" /\ ~cancelling[c] /\ c # d
           /\ thread'[d] = thread[c])
          => (pc[d] = "waiting" /\ Position(d) < Position(c))]_coordinationVars

\* Whoever waits is eventually served, or unwinds after a cancellation; nobody
\* is left behind in the deque.
EveryWaiterIsServed ==
    \A c \in Caller : (pc[c] = "waiting" /\ ~cancelling[c]) ~> (pc[c] = "running" \/ cancelling[c])

\* A cancelled waiter gives its reference back and the registry is empty once
\* nobody is present: the registry does not grow with the conversations served.
RegistryDrains ==
    \A t \in Thread : entries[t] # None ~> entries[t] = None

-----------------------------------------------------------------------------
(* The abstract lock this registry implements. *)

Holder(t) ==
    IF \E c \in Present(t) : pc[c] = "running"
    THEN CHOOSE c \in Present(t) : pc[c] = "running"
    ELSE None

Mutex == INSTANCE ConversationMutex
             WITH present <- [t \in Thread |-> Present(t)],
                  holder <- [t \in Thread |-> Holder(t)],
                  rejected <- {c \in Caller : pc[c] = "busy"}

ImplementsMutex == Mutex!Spec
=============================================================================
