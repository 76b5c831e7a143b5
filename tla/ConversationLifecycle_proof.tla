-------------------- MODULE ConversationLifecycle_proof --------------------
(***************************************************************************)
(* Proofs about ConversationCoordination and about ConversationLifecycle,  *)
(* which runs the requests it coordinates, for every set of requests and   *)
(* of conversations and every turn limit.                                  *)
(*                                                                         *)
(* Part 1: the types, mutual exclusion, the exactness of the registry, the *)
(* absence of lost wake-ups, that a clink request never queues, that       *)
(* nobody is overtaken, and that the registry implements a mutex per       *)
(* conversation.  All follow from one inductive invariant, IInv.           *)
(*                                                                         *)
(* Part 2: when clients do not take the ids of threads from the transcript *)
(* index, exchanges are never mixed up, an admitted reply fits, the        *)
(* reported number of turns is right, and the detailed protocol implements *)
(* ConversationLog.  Everything rests on one fact: between admission and   *)
(* persistence a request has its thread to itself.  A request with a       *)
(* continuation id owes that to the coordinator, by IInv; one without owes *)
(* it to the id that no client can have yet.                               *)
(*                                                                         *)
(* Part 3: whatever ids clients use, the transcripts hold ordered excerpts *)
(* of their threads.                                                       *)
(***************************************************************************)
EXTENDS ConversationLifecycle, FiniteSetTheorems, SequenceTheorems, TLAPS

-----------------------------------------------------------------------------
(* Part 1: coordination.                                                   *)

\* What a caller's local variables say about the registry.
CallersInv ==
    \A c \in Caller :
        /\ pc[c] = "waiting" => thread[c] # None
        /\ pc[c] \notin {"waiting", "running"} => thread[c] = None
        /\ thread[c] # None => entry[c] \in Caller /\ entries[thread[c]] = entry[c]
        /\ pc[c] = "idle" => ~cancelling[c] /\ \A t \in Thread : entries[t] # c

\* Threads do not share objects, and an unregistered object is a fresh one.
ObjectsInv ==
    /\ \A s, t \in Thread : entries[s] # None /\ entries[s] = entries[t] => s = t
    /\ \A e \in Caller :
          (\A t \in Thread : entries[t] # e)
              => ~locked[e] /\ waiters[e] = << >> /\ users[e] = 0

\* The reference count is the number of those present.
CountInv ==
    \A t \in Thread :
        /\ IsFiniteSet(Present(t))
        /\ entries[t] = None => Present(t) = {}
        /\ entries[t] # None => /\ users[entries[t]] = Cardinality(Present(t))
                                /\ Present(t) # {}

\* The lock is held exactly while one of those present runs.
LockInv ==
    \A t \in Thread : entries[t] # None =>
        /\ locked[entries[t]] <=> \E c \in Present(t) : pc[c] = "running"
        /\ \A c, d \in Present(t) : pc[c] = "running" /\ pc[d] = "running" => c = d

InQueue(q, c) == \E i \in DOMAIN q : q[i] = c

Distinct(q) == \A i, j \in DOMAIN q : q[i] = q[j] => i = j

\* The deque holds each waiting caller once.
QueueInv ==
    \A t \in Thread : entries[t] # None =>
        /\ \A c \in Caller :
              InQueue(waiters[entries[t]], c) <=> (pc[c] = "waiting" /\ thread[c] = t)
        /\ Distinct(waiters[entries[t]])

\* Only the first in the deque of a free lock is woken, and it is not left
\* pending; a cancelled future belongs to a cancelled task.
FutureInv ==
    /\ \A c \in Caller :
          /\ pc[c] = "waiting" <=> future[c] # "none"
          /\ future[c] = "pending" => ~cancelling[c]
          /\ future[c] = "cancelled" => cancelling[c]
          /\ future[c] = "woken" => ~locked[entry[c]] /\ Head(waiters[entry[c]]) = c
    /\ HandoverPending

IInv ==
    /\ TypeOK
    /\ CallersInv
    /\ ObjectsInv
    /\ CountInv
    /\ LockInv
    /\ QueueInv
    /\ FutureInv
    /\ ClinkNeverWaits

-----------------------------------------------------------------------------
(* The deque: removing one element. *)

\* Deleting position k of a sequence keeps the rest in order.
LEMMA RemoveAtIndex ==
    ASSUME NEW S, NEW q \in Seq(S), NEW k \in DOMAIN q
    PROVE  /\ RemoveAt(q, k) \in Seq(S)
           /\ Len(RemoveAt(q, k)) = Len(q) - 1
           /\ \A i \in 1 .. Len(q) - 1 :
                 RemoveAt(q, k)[i] = IF i < k THEN q[i] ELSE q[i + 1]
<1>1. k \in 1 .. Len(q)
  OBVIOUS
<1> DEFINE l == SubSeq(q, 1, k - 1)
           r == SubSeq(q, k + 1, Len(q))
<1>2. l \in Seq(S) /\ Len(l) = k - 1 /\ \A i \in 1 .. k - 1 : l[i] = q[i]
  BY <1>1
<1>3. r \in Seq(S) /\ Len(r) = Len(q) - k /\ \A i \in 1 .. Len(q) - k : r[i] = q[k + i]
  BY <1>1
<1>4. RemoveAt(q, k) = l \o r
  BY DEF RemoveAt
<1> HIDE DEF l, r
<1>5. l \o r \in Seq(S) /\ Len(l \o r) = Len(q) - 1
  BY <1>1, <1>2, <1>3
<1>6. ASSUME NEW i \in 1 .. Len(q) - 1
      PROVE  (l \o r)[i] = IF i < k THEN q[i] ELSE q[i + 1]
  <2>1. CASE i < k
    BY <2>1, <1>1, <1>2, <1>3
  <2>2. CASE ~(i < k)
    <3>1. (l \o r)[i] = r[i - (k - 1)]
      <4>1. i \in 1 .. Len(l) + Len(r) /\ ~(i <= Len(l))
        BY <2>2, <1>1, <1>2, <1>3
      <4> QED
        BY <4>1, <1>2, <1>3, ConcatProperties
    <3>2. i - (k - 1) \in 1 .. Len(q) - k /\ k + (i - (k - 1)) = i + 1
      BY <2>2, <1>1
    <3> QED
      BY <2>2, <3>1, <3>2, <1>3
  <2> QED
    BY <2>1, <2>2, <1>1
<1> QED
  BY <1>4, <1>5, <1>6

\* What waiters.remove does to a deque that holds c exactly once.
LEMMA WithoutProperties ==
    ASSUME NEW S, NEW q \in Seq(S), NEW c, InQueue(q, c), Distinct(q)
    PROVE  /\ Without(q, c) \in Seq(S)
           /\ Distinct(Without(q, c))
           /\ \A d : InQueue(Without(q, c), d) <=> InQueue(q, d) /\ d # c
           /\ Without(q, c) # << >> /\ Head(q) # c => Head(Without(q, c)) = Head(q)
           /\ Without(q, c) = << >> => Head(q) = c
<1> DEFINE k == CHOOSE i \in DOMAIN q : q[i] = c
           w == RemoveAt(q, k)
<1>1. k \in 1 .. Len(q) /\ q[k] = c
  BY DEF InQueue
<1>2. Without(q, c) = w
  BY DEF Without
<1> HIDE DEF k
<1>3. /\ w \in Seq(S)
      /\ Len(w) = Len(q) - 1
      /\ \A i \in 1 .. Len(q) - 1 : w[i] = IF i < k THEN q[i] ELSE q[i + 1]
  BY <1>1, RemoveAtIndex
<1> HIDE DEF w
<1>4. Distinct(w)
  BY <1>1, <1>3 DEF Distinct
<1>5. ASSUME NEW d PROVE InQueue(w, d) <=> InQueue(q, d) /\ d # c
  <2>1. ASSUME InQueue(w, d) PROVE InQueue(q, d) /\ d # c
    <3>1. PICK j \in 1 .. Len(q) - 1 : w[j] = d
      BY <2>1, <1>3 DEF InQueue
    <3>2. PICK i \in 1 .. Len(q) : q[i] = d /\ i # k
      BY <3>1, <1>1, <1>3
    <3> QED
      BY <3>2, <1>1 DEF InQueue, Distinct
  <2>2. ASSUME InQueue(q, d), d # c PROVE InQueue(w, d)
    <3>1. PICK i \in 1 .. Len(q) : q[i] = d
      BY <2>2 DEF InQueue
    <3>2. CASE i < k
      BY <3>1, <3>2, <1>1, <1>3 DEF InQueue
    <3>3. CASE i > k
      <4>1. i - 1 \in 1 .. Len(q) - 1 /\ w[i - 1] = q[i]
        BY <3>3, <1>1, <1>3
      <4> QED BY <4>1, <3>1, <1>3 DEF InQueue
    <3> QED BY <3>1, <3>2, <3>3, <2>2, <1>1
  <2> QED BY <2>1, <2>2
<1>6. w # << >> /\ Head(q) # c => Head(w) = Head(q)
  BY <1>1, <1>3
<1>7. w = << >> => Head(q) = c
  <2>1. Head(q) = q[1]
    BY <1>1
  <2>2. ASSUME w = << >> PROVE k = 1
    <3>1. Len(w) = 0
      BY <2>2
    <3>2. Len(q) = 1
      BY <3>1, <1>3
    <3>3. k \in 1 .. 1
      BY <3>2, <1>1
    <3> QED
      BY <3>3
  <2> QED
    BY <2>1, <2>2, <1>1
<1> QED
  BY <1>2, <1>3, <1>4, <1>5, <1>6, <1>7

-----------------------------------------------------------------------------
(* Steps. *)

\* What registration does, whether the caller then runs or waits.
LEMMA RegisterStep ==
    ASSUME IInv, NEW c \in Caller, NEW t \in Thread, Register(c, t),
           NEW p \in {"waiting", "running"}, pc' = [pc EXCEPT ![c] = p]
    PROVE  LET e == EntryFor(c, t) IN
           /\ e \in Caller /\ e # None
           /\ entries[t] = None => ~locked[e] /\ waiters[e] = << >>
           /\ entries'[t] = e
           /\ \A s \in Thread \ {t} : entries'[s] = entries[s] /\ entries[s] # e
           /\ c \notin Present(t)
           /\ Present(t)' = Present(t) \cup {c}
           /\ \A s \in Thread \ {t} : Present(s)' = Present(s)
           /\ CallersInv'
           /\ CountInv'
           /\ \A s, u \in Thread : entries'[s] # None /\ entries'[s] = entries'[u] => s = u
           /\ \A d \in Caller : (\A s \in Thread : entries'[s] # d) =>
                 d # e /\ users'[d] = 0 /\ (\A s \in Thread : entries[s] # d)
<1> DEFINE e == EntryFor(c, t)
<1> USE CoordinationAssumption
<1>1. pc[c] = "idle" /\ thread[c] = None /\ \A s \in Thread : entries[s] # c
  BY DEF IInv, CallersInv, Register
<1>2. e \in Caller /\ e # None
  BY DEF EntryFor, IInv, TypeOK
<1>3. entries[t] = None => e = c /\ ~locked[e] /\ waiters[e] = << >> /\ users[e] = 0
  BY <1>1 DEF EntryFor, IInv, ObjectsInv
<1>4. \A s \in Thread \ {t} : entries[s] # e
  BY <1>1 DEF EntryFor, IInv, ObjectsInv
<1>5. /\ entries' = [entries EXCEPT ![t] = e]
      /\ users' = [users EXCEPT ![e] = @ + 1]
      /\ thread' = [thread EXCEPT ![c] = t]
      /\ entry' = [entry EXCEPT ![c] = e]
      /\ cancelling' = cancelling
  BY DEF Register
<1> HIDE DEF e
<1>6. entries'[t] = e /\ \A s \in Thread \ {t} : entries'[s] = entries[s]
  BY <1>5 DEF IInv, TypeOK
<1>7. /\ thread'[c] = t /\ entry'[c] = e /\ pc'[c] = p
      /\ \A d \in Caller \ {c} : thread'[d] = thread[d] /\ entry'[d] = entry[d] /\ pc'[d] = pc[d]
  BY <1>5 DEF IInv, TypeOK
<1>8. c \notin Present(t)
  BY <1>1 DEF Present
<1>9. Present(t)' = Present(t) \cup {c}
  BY <1>7 DEF Present
<1>10. \A s \in Thread \ {t} : Present(s)' = Present(s)
  BY <1>1, <1>7 DEF Present
<1>11. CallersInv'
  <2> SUFFICES ASSUME NEW d \in Caller
               PROVE  /\ pc'[d] = "waiting" => thread'[d] # None
                      /\ pc'[d] \notin {"waiting", "running"} => thread'[d] = None
                      /\ thread'[d] # None => entry'[d] \in Caller /\ entries'[thread'[d]] = entry'[d]
                      /\ pc'[d] = "idle" => ~cancelling'[d] /\ \A s \in Thread : entries'[s] # d
    BY DEF CallersInv
  <2>1. CASE d = c
    BY <2>1, <1>2, <1>6, <1>7
  <2>2. CASE d # c
    <3>1. thread[d] = t => entries[t] = entry[d] /\ entries[t] # None
      BY CoordinationAssumption DEF IInv, CallersInv, TypeOK
    <3>2. thread[d] = t => entry[d] = e
      BY <3>1 DEF e, EntryFor
    <3>3. pc[d] = "idle" => e # d
      BY <2>2 DEF e, EntryFor, IInv, CallersInv
    <3> QED
      BY <2>2, <3>1, <3>2, <3>3, <1>5, <1>6, <1>7 DEF IInv, CallersInv, TypeOK
  <2> QED
    BY <2>1, <2>2
<1>12. CountInv'
  <2> SUFFICES ASSUME NEW s \in Thread
               PROVE  /\ IsFiniteSet(Present(s)')
                      /\ entries'[s] = None => Present(s)' = {}
                      /\ entries'[s] # None => /\ users'[entries'[s]] = Cardinality(Present(s)')
                                               /\ Present(s)' # {}
    BY DEF CountInv
  <2>1. CASE s = t
    <3>1. IsFiniteSet(Present(t)) /\ users[e] = Cardinality(Present(t))
      BY <1>3, FS_EmptySet DEF IInv, CountInv, e, EntryFor
    <3>2. IsFiniteSet(Present(t)') /\ Cardinality(Present(t)') = Cardinality(Present(t)) + 1
      BY <1>8, <1>9, <3>1, FS_AddElement
    <3>3. users'[e] = users[e] + 1
      BY <1>2, <1>5 DEF IInv, TypeOK
    <3> QED
      BY <2>1, <1>2, <1>6, <1>9, <3>1, <3>2, <3>3
  <2>2. CASE s # t
    <3>1. entries[s] # None => users'[entries[s]] = users[entries[s]]
      BY <2>2, <1>4, <1>5 DEF IInv, TypeOK
    <3> QED
      BY <2>2, <1>6, <1>10, <3>1 DEF IInv, CountInv
  <2> QED
    BY <2>1, <2>2
<1>13. \A s, u \in Thread : entries'[s] # None /\ entries'[s] = entries'[u] => s = u
  BY <1>4, <1>6 DEF IInv, ObjectsInv
<1>14. ASSUME NEW d \in Caller, \A s \in Thread : entries'[s] # d
       PROVE  d # e /\ users'[d] = 0 /\ (\A s \in Thread : entries[s] # d)
  <2>1. d # e
    BY <1>6, <1>14
  <2>2. \A s \in Thread : entries[s] # d
    BY <2>1, <1>6, <1>14 DEF e, EntryFor, IInv, TypeOK
  <2> QED
    BY <2>1, <2>2, <1>5 DEF IInv, ObjectsInv, TypeOK
<1> QED
  BY <1>2, <1>3, <1>4, <1>6, <1>8, <1>9, <1>10, <1>11, <1>12, <1>13, <1>14 DEF e

\* An arrival that takes a free lock keeps the invariant.
LEMMA AcquireNowStep ==
    ASSUME IInv, TypeOK', NEW c \in Caller, NEW t \in Thread, AcquireNow(c, t)
    PROVE  IInv'
<1> DEFINE e == EntryFor(c, t)
<1>1. /\ e \in Caller /\ e # None
      /\ entries'[t] = e
      /\ \A s \in Thread \ {t} : entries'[s] = entries[s] /\ entries[s] # e
      /\ c \notin Present(t)
      /\ Present(t)' = Present(t) \cup {c}
      /\ \A s \in Thread \ {t} : Present(s)' = Present(s)
      /\ CallersInv' /\ CountInv'
      /\ \A s, u \in Thread : entries'[s] # None /\ entries'[s] = entries'[u] => s = u
      /\ \A d \in Caller : (\A s \in Thread : entries'[s] # d) =>
            d # e /\ users'[d] = 0 /\ (\A s \in Thread : entries[s] # d)
      /\ entries[t] = None => ~locked[e] /\ waiters[e] = << >>
  BY RegisterStep DEF AcquireNow
<1>2. /\ ~locked[e]
      /\ \A i \in DOMAIN waiters[e] : future[waiters[e][i]] = "cancelled"
      /\ locked' = [locked EXCEPT ![e] = TRUE]
      /\ pc[c] = "idle" /\ pc' = [pc EXCEPT ![c] = "running"]
      /\ thread' = [thread EXCEPT ![c] = t] /\ entry' = [entry EXCEPT ![c] = e]
      /\ UNCHANGED <<waiters, future, cancelling>>
      /\ ~(c \in Clink /\ IsBusy(t))
  BY DEF AcquireNow, Register, LockIsFree
<1>3. entries[t] # None => e = entries[t]
  BY DEF EntryFor
<1> HIDE DEF e
<1>4. /\ locked'[e] /\ \A d \in Caller \ {e} : locked'[d] = locked[d]
      /\ pc'[c] = "running" /\ \A d \in Caller \ {c} : pc'[d] = pc[d]
      /\ thread'[c] = t /\ \A d \in Caller \ {c} : thread'[d] = thread[d] /\ entry'[d] = entry[d]
  BY <1>1, <1>2 DEF IInv, TypeOK
<1>5. ObjectsInv'
  BY <1>1, <1>2, <1>4 DEF ObjectsInv, IInv
<1>6. \A d \in Present(t) : pc[d] # "running"
  BY <1>1, <1>2, <1>3 DEF IInv, LockInv, CountInv
<1>7. LockInv'
  <2> SUFFICES ASSUME NEW s \in Thread, entries'[s] # None
               PROVE  /\ locked'[entries'[s]] <=> \E d \in Present(s)' : pc'[d] = "running"
                      /\ \A d, f \in Present(s)' : pc'[d] = "running" /\ pc'[f] = "running" => d = f
    BY DEF LockInv
  <2>1. CASE s = t
    BY <2>1, <1>1, <1>4, <1>6 DEF Present
  <2>2. CASE s # t
    <3>1. entries'[s] = entries[s] /\ locked'[entries[s]] = locked[entries[s]]
      BY <2>2, <1>1, <1>4 DEF IInv, TypeOK
    <3>2. Present(s)' = Present(s) /\ \A d \in Present(s) : pc'[d] = pc[d]
      BY <2>2, <1>1, <1>2, <1>4 DEF Present
    <3> QED
      BY <3>1, <3>2 DEF IInv, LockInv
  <2> QED
    BY <2>1, <2>2
<1>8. QueueInv'
  <2> SUFFICES ASSUME NEW s \in Thread, entries'[s] # None
               PROVE  /\ \A d \in Caller : InQueue(waiters[entries'[s]], d)
                                              <=> (pc'[d] = "waiting" /\ thread'[d] = s)
                      /\ Distinct(waiters[entries'[s]])
    BY <1>2 DEF QueueInv
  <2>1. CASE s = t /\ entries[t] = None
    <3>1. waiters[e] = << >> /\ Present(t) = {}
      BY <2>1, <1>1 DEF IInv, CountInv
    <3>2. Distinct(waiters[e]) /\ \A d : ~InQueue(waiters[e], d)
      BY <3>1 DEF Distinct, InQueue
    <3>3. \A d \in Caller : ~(pc'[d] = "waiting" /\ thread'[d] = t)
      BY <3>1, <1>4 DEF Present
    <3> QED
      BY <2>1, <3>2, <3>3, <1>1
  <2>2. CASE ~(s = t /\ entries[t] = None)
    BY <2>2, <1>1, <1>2, <1>3, <1>4 DEF IInv, QueueInv
  <2> QED
    BY <2>1, <2>2
<1>9. FutureInv'
  <2>1. ASSUME NEW d \in Caller
        PROVE  /\ pc'[d] = "waiting" <=> future'[d] # "none"
               /\ future'[d] = "pending" => ~cancelling'[d]
               /\ future'[d] = "cancelled" => cancelling'[d]
    BY <1>2, <1>4 DEF IInv, FutureInv
  <2>2. ASSUME NEW d \in Caller, future'[d] = "woken"
        PROVE  ~locked'[entry'[d]] /\ Head(waiters'[entry'[d]]) = d
    <3>1. d # c /\ pc[d] = "waiting" /\ thread[d] \in Thread /\ entry[d] = entries[thread[d]]
          /\ entry[d] \in Caller /\ entry[d] # None
      BY <2>2, <1>2, CoordinationAssumption DEF IInv, FutureInv, CallersInv, TypeOK
    <3>2. InQueue(waiters[entry[d]], d)
      BY <3>1 DEF IInv, QueueInv
    <3>3. entry[d] # e
      BY <3>2, <2>2, <1>2 DEF InQueue
    <3> QED
      BY <2>2, <3>1, <3>3, <1>2, <1>4 DEF IInv, FutureInv
  <2>3. HandoverPending'
    <3> SUFFICES ASSUME NEW s \in Thread, entries'[s] # None, ~locked'[entries'[s]],
                        waiters[entries'[s]] # << >>
                 PROVE  future[Head(waiters[entries'[s]])] \in {"woken", "cancelled"}
      BY <1>2 DEF HandoverPending
    <3>1. s # t
      BY <1>1, <1>4
    <3>2. entries[s] = entries'[s] /\ entries[s] \in Caller /\ entries[s] # e
      BY <3>1, <1>1 DEF IInv, TypeOK
    <3>3. ~locked[entries[s]]
      BY <3>2, <1>4
    <3> QED
      BY <3>2, <3>3 DEF IInv, FutureInv, HandoverPending
  <2> QED
    BY <2>1, <2>2, <2>3 DEF FutureInv
<1>10. ClinkNeverWaits'
  BY <1>4, CoordinationAssumption DEF IInv, ClinkNeverWaits
<1> QED
  BY <1>1, <1>5, <1>7, <1>8, <1>9, <1>10 DEF IInv

\* An arrival that joins the deque keeps the invariant.
LEMMA EnqueueStep ==
    ASSUME IInv, TypeOK', NEW c \in Caller, NEW t \in Thread, Enqueue(c, t)
    PROVE  IInv'
<1> DEFINE e == EntryFor(c, t)
<1>1. /\ e \in Caller /\ e # None
      /\ entries'[t] = e
      /\ \A s \in Thread \ {t} : entries'[s] = entries[s] /\ entries[s] # e
      /\ c \notin Present(t)
      /\ Present(t)' = Present(t) \cup {c}
      /\ \A s \in Thread \ {t} : Present(s)' = Present(s)
      /\ CallersInv' /\ CountInv'
      /\ \A s, u \in Thread : entries'[s] # None /\ entries'[s] = entries'[u] => s = u
      /\ \A d \in Caller : (\A s \in Thread : entries'[s] # d) =>
            d # e /\ users'[d] = 0 /\ (\A s \in Thread : entries[s] # d)
      /\ entries[t] = None => ~locked[e] /\ waiters[e] = << >>
  BY RegisterStep DEF Enqueue
<1>2. /\ ~LockIsFree(e)
      /\ waiters' = [waiters EXCEPT ![e] = Append(@, c)]
      /\ future' = [future EXCEPT ![c] = "pending"]
      /\ pc[c] = "idle" /\ pc' = [pc EXCEPT ![c] = "waiting"]
      /\ thread' = [thread EXCEPT ![c] = t] /\ entry' = [entry EXCEPT ![c] = e]
      /\ UNCHANGED <<locked, cancelling>>
      /\ ~(c \in Clink /\ IsBusy(t))
  BY DEF Enqueue, Register
<1>3. entries[t] # None /\ e = entries[t]
  BY <1>1, <1>2 DEF EntryFor, LockIsFree
<1> HIDE DEF e
<1>4. /\ waiters[e] \in Seq(Caller)
      /\ waiters'[e] = Append(waiters[e], c) /\ \A d \in Caller \ {e} : waiters'[d] = waiters[d]
      /\ pc'[c] = "waiting" /\ \A d \in Caller \ {c} : pc'[d] = pc[d]
      /\ future'[c] = "pending" /\ \A d \in Caller \ {c} : future'[d] = future[d]
      /\ thread'[c] = t /\ \A d \in Caller \ {c} : thread'[d] = thread[d] /\ entry'[d] = entry[d]
  BY <1>1, <1>2 DEF IInv, TypeOK
<1>5. ObjectsInv'
  BY <1>1, <1>2, <1>4 DEF ObjectsInv, IInv
<1>6. LockInv'
  <2> SUFFICES ASSUME NEW s \in Thread, entries'[s] # None
               PROVE  /\ locked[entries'[s]] <=> \E d \in Present(s)' : pc'[d] = "running"
                      /\ \A d, f \in Present(s)' : pc'[d] = "running" /\ pc'[f] = "running" => d = f
    BY <1>2 DEF LockInv
  <2>1. CASE s = t
    BY <2>1, <1>1, <1>3, <1>4 DEF Present, IInv, LockInv
  <2>2. CASE s # t
    <3>1. Present(s)' = Present(s) /\ \A d \in Present(s) : pc'[d] = pc[d]
      BY <2>2, <1>1, <1>2, <1>4 DEF Present
    <3> QED
      BY <2>2, <1>1, <3>1 DEF IInv, LockInv
  <2> QED
    BY <2>1, <2>2
<1>7. /\ \A d : InQueue(waiters'[e], d) <=> InQueue(waiters[e], d) \/ d = c
      /\ ~InQueue(waiters[e], c)
      /\ Distinct(waiters[e]) => Distinct(waiters'[e])
      /\ waiters[e] # << >> => Head(waiters'[e]) = Head(waiters[e])
  <2>1. ~InQueue(waiters[e], c)
    BY <1>2, <1>3 DEF IInv, QueueInv
  <2>2. /\ Len(waiters'[e]) = Len(waiters[e]) + 1
        /\ waiters'[e][Len(waiters[e]) + 1] = c
        /\ \A i \in 1 .. Len(waiters[e]) : waiters'[e][i] = waiters[e][i]
        /\ waiters'[e] \in Seq(Caller)
    BY <1>4
  <2>3. \A d : InQueue(waiters'[e], d) <=> InQueue(waiters[e], d) \/ d = c
    BY <1>4, <2>2 DEF InQueue
  <2>4. Distinct(waiters[e]) => Distinct(waiters'[e])
    BY <1>4, <2>1, <2>2 DEF InQueue, Distinct
  <2>5. waiters[e] # << >> => Head(waiters'[e]) = Head(waiters[e])
    BY <1>4
  <2> QED
    BY <2>1, <2>3, <2>4, <2>5
<1>8. QueueInv'
  <2> SUFFICES ASSUME NEW s \in Thread, entries'[s] # None
               PROVE  /\ \A d \in Caller : InQueue(waiters'[entries'[s]], d)
                                              <=> (pc'[d] = "waiting" /\ thread'[d] = s)
                      /\ Distinct(waiters'[entries'[s]])
    BY DEF QueueInv
  <2>1. CASE s = t
    BY <2>1, <1>1, <1>3, <1>4, <1>7 DEF IInv, QueueInv
  <2>2. CASE s # t
    <3>1. waiters'[entries'[s]] = waiters[entries[s]] /\ entries[s] # None
      BY <2>2, <1>1, <1>4 DEF IInv, TypeOK
    <3> QED
      BY <2>2, <3>1, <1>2, <1>4 DEF IInv, QueueInv
  <2> QED
    BY <2>1, <2>2
<1>9. locked[e] \/ (waiters[e] # << >> /\ Head(waiters[e]) \in Caller
                    /\ future[Head(waiters[e])] \in {"woken", "cancelled"} /\ Head(waiters[e]) # c)
  <2>1. ASSUME ~locked[e]
        PROVE  waiters[e] # << >>
    BY <2>1, <1>2 DEF LockIsFree
  <2>2. waiters[e] # << >> => Head(waiters[e]) \in Caller /\ InQueue(waiters[e], Head(waiters[e]))
    BY <1>4 DEF InQueue
  <2> QED
    BY <2>1, <2>2, <1>3, <1>7 DEF IInv, FutureInv, HandoverPending
<1>10. FutureInv'
  <2>1. ASSUME NEW d \in Caller
        PROVE  /\ pc'[d] = "waiting" <=> future'[d] # "none"
               /\ future'[d] = "pending" => ~cancelling'[d]
               /\ future'[d] = "cancelled" => cancelling'[d]
    BY <1>2, <1>4 DEF IInv, FutureInv, CallersInv
  <2>2. ASSUME NEW d \in Caller, future'[d] = "woken"
        PROVE  ~locked'[entry'[d]] /\ Head(waiters'[entry'[d]]) = d
    <3>1. d # c /\ future[d] = "woken"
      BY <2>2, <1>4
    <3>2. pc[d] = "waiting" /\ thread[d] \in Thread /\ entry[d] = entries[thread[d]]
          /\ entry[d] \in Caller /\ entry[d] # None
      BY <3>1, CoordinationAssumption DEF IInv, FutureInv, CallersInv, TypeOK
    <3>4. InQueue(waiters[entry[d]], d)
      BY <3>2 DEF IInv, QueueInv
    <3>3. entry[d] = e => waiters[e] # << >>
      BY <3>4 DEF InQueue
    <3> QED
      BY <3>1, <3>2, <3>3, <1>2, <1>4, <1>7 DEF IInv, FutureInv
  <2>3. HandoverPending'
    <3> SUFFICES ASSUME NEW s \in Thread, entries'[s] # None, ~locked[entries'[s]],
                        waiters'[entries'[s]] # << >>
                 PROVE  future'[Head(waiters'[entries'[s]])] \in {"woken", "cancelled"}
      BY <1>2 DEF HandoverPending
    <3>1. CASE s = t
      BY <3>1, <1>1, <1>4, <1>7, <1>9
    <3>2. CASE s # t
      <4>1. entries[s] = entries'[s] /\ entries[s] \in Caller /\ waiters'[entries[s]] = waiters[entries[s]]
        BY <3>2, <1>1, <1>4 DEF IInv, TypeOK
      <4>2. future[Head(waiters[entries[s]])] \in {"woken", "cancelled"}
        BY <4>1 DEF IInv, FutureInv, HandoverPending
      <4>3. Head(waiters[entries[s]]) \in Caller \ {c}
        <5>1. waiters[entries[s]] \in Seq(Caller) /\ waiters[entries[s]] # << >>
          BY <4>1 DEF IInv, TypeOK
        <5>2. InQueue(waiters[entries[s]], Head(waiters[entries[s]])) /\ Head(waiters[entries[s]]) \in Caller
          BY <5>1 DEF InQueue
        <5> QED
          BY <5>2, <1>2, <4>1 DEF IInv, QueueInv
      <4> QED
        BY <4>1, <4>2, <4>3, <1>4
    <3> QED
      BY <3>1, <3>2
  <2> QED
    BY <2>1, <2>2, <2>3 DEF FutureInv
<1>11. ClinkNeverWaits'
  <2>1. users[e] # 0
    BY <1>3, FS_EmptySet DEF IInv, CountInv
  <2>2. c \notin Clink
    BY <2>1, <1>2, <1>3 DEF IsBusy
  <2> QED
    BY <2>2, <1>4, CoordinationAssumption DEF IInv, ClinkNeverWaits
<1> QED
  BY <1>1, <1>5, <1>6, <1>8, <1>10, <1>11 DEF IInv

\* The state after request c has left conversation t and its entry e.
Departed(c, t, e) ==
    /\ t \in Thread /\ e \in Caller /\ e # None /\ entries[t] = e
    /\ c \in Present(t)
    /\ Present(t)' = Present(t) \ {c}
    /\ \A s \in Thread \ {t} : Present(s)' = Present(s)
    /\ \A s \in Thread \ {t} : entries'[s] = entries[s] /\ entries[s] # e
    /\ entries'[t] = IF Present(t) = {c} THEN None ELSE e
    /\ thread'[c] = None /\ pc'[c] = "done"
    /\ \A d \in Caller \ {c} : thread'[d] = thread[d] /\ entry'[d] = entry[d] /\ pc'[d] = pc[d]
    /\ entries' \in [Thread -> Caller \cup {None}] /\ users' \in [Caller -> Nat]
    /\ pc' \in [Caller -> {"idle", "waiting", "running", "busy", "done"}]
    /\ thread' \in [Caller -> Thread \cup {None}]
    /\ entry' \in [Caller -> Caller \cup {None}]
    /\ CallersInv'
    /\ CountInv'
    /\ \A s, u \in Thread : entries'[s] # None /\ entries'[s] = entries'[u] => s = u
    /\ \A d \in Caller : (\A s \in Thread : entries'[s] # d) =>
          /\ users'[d] = 0
          /\ \/ d = e /\ Present(t) = {c}
             \/ d # e /\ \A s \in Thread : entries[s] # d

\* What the `finally' of coordinate_conversation does to the registry.
LEMMA DepartStep ==
    ASSUME IInv, NEW c \in Caller, pc[c] \in {"waiting", "running"}, thread[c] # None,
           Unregister(c), UNCHANGED cancelling,
           NEW t, NEW e, t = thread[c], e = entry[c]
    PROVE  Departed(c, t, e)
<1> USE CoordinationAssumption
<1>1. t \in Thread /\ e \in Caller /\ e # None /\ entries[t] = e
  BY DEF IInv, CallersInv, TypeOK
<1>2. /\ users' = [users EXCEPT ![e] = @ - 1]
      /\ entries' = IF users[e] = 1 THEN [entries EXCEPT ![t] = None] ELSE entries
      /\ thread' = [thread EXCEPT ![c] = None]
      /\ entry' = [entry EXCEPT ![c] = None]
      /\ pc' = [pc EXCEPT ![c] = "done"]
      /\ cancelling' = cancelling
  BY DEF Unregister
<1>3. c \in Present(t)
  BY DEF Present
<1>5. /\ thread'[c] = None /\ pc'[c] = "done"
      /\ \A d \in Caller \ {c} : thread'[d] = thread[d] /\ entry'[d] = entry[d] /\ pc'[d] = pc[d]
  BY <1>2 DEF IInv, TypeOK
<1>6. Present(t)' = Present(t) \ {c}
  BY <1>1, <1>5 DEF Present
<1>7. \A s \in Thread \ {t} : Present(s)' = Present(s)
  BY <1>5 DEF Present
<1>8. IsFiniteSet(Present(t)) /\ users[e] = Cardinality(Present(t))
  BY <1>1 DEF IInv, CountInv
<1>9. IsFiniteSet(Present(t) \ {c}) /\ Cardinality(Present(t) \ {c}) = users[e] - 1
  BY <1>3, <1>8, FS_RemoveElement
<1>10. users[e] = 1 <=> Present(t) = {c}
  <2>1. ASSUME users[e] = 1 PROVE Present(t) = {c}
    <3>1. Cardinality(Present(t) \ {c}) = 0
      BY <2>1, <1>9
    <3>2. Present(t) \ {c} = {}
      BY <3>1, <1>9, FS_EmptySet
    <3> QED
      BY <3>2, <1>3
  <2>2. ASSUME Present(t) = {c} PROVE users[e] = 1
    BY <2>2, <1>8, FS_Singleton
  <2> QED
    BY <2>1, <2>2
<1>11. users[e] \in Nat /\ users[e] # 0
  <2>1. users[e] \in Nat
    BY <1>1 DEF IInv, TypeOK
  <2> QED
    BY <2>1, <1>3, <1>8, FS_EmptySet
<1>12. /\ users'[e] = users[e] - 1
       /\ users' \in [Caller -> Nat]
       /\ \A d \in Caller \ {e} : users'[d] = users[d]
  BY <1>1, <1>2, <1>11 DEF IInv, TypeOK
<1>13. /\ \A s \in Thread \ {t} : entries'[s] = entries[s] /\ entries[s] # e
       /\ entries'[t] = IF Present(t) = {c} THEN None ELSE e
       /\ entries' \in [Thread -> Caller \cup {None}]
  <2>1. \A s \in Thread \ {t} : entries[s] # e
    BY <1>1 DEF IInv, ObjectsInv
  <2> QED
    BY <2>1, <1>1, <1>2, <1>10 DEF IInv, TypeOK
<1>14. /\ pc' \in [Caller -> {"idle", "waiting", "running", "busy", "done"}]
       /\ thread' \in [Caller -> Thread \cup {None}]
       /\ entry' \in [Caller -> Caller \cup {None}]
  BY <1>2 DEF IInv, TypeOK
<1>15. CallersInv'
  <2> SUFFICES ASSUME NEW d \in Caller
               PROVE  /\ pc'[d] = "waiting" => thread'[d] # None
                      /\ pc'[d] \notin {"waiting", "running"} => thread'[d] = None
                      /\ thread'[d] # None => entry'[d] \in Caller /\ entries'[thread'[d]] = entry'[d]
                      /\ pc'[d] = "idle" => ~cancelling'[d] /\ \A s \in Thread : entries'[s] # d
    BY DEF CallersInv
  <2>1. CASE d = c
    BY <2>1, <1>5
  <2>2. CASE d # c
    <3>1. thread[d] = t => Present(t) # {c}
      BY <2>2, <1>1 DEF Present, IInv, CallersInv
    <3>2. thread[d] # None => thread[d] \in Thread /\ entry[d] \in Caller /\ entries[thread[d]] = entry[d]
      BY DEF IInv, CallersInv, TypeOK
    <3>3. pc[d] = "idle" => ~cancelling[d] /\ d # e /\ \A s \in Thread : entries[s] # d
      BY <1>1 DEF IInv, CallersInv
    <3>4. thread'[d] # None => entry'[d] \in Caller /\ entries'[thread'[d]] = entry'[d]
      BY <2>2, <3>1, <3>2, <1>1, <1>5, <1>13
    <3>5. pc'[d] = "idle" => ~cancelling'[d] /\ \A s \in Thread : entries'[s] # d
      BY <2>2, <3>3, <1>2, <1>5, <1>13
    <3> QED
      BY <2>2, <3>4, <3>5, <1>5 DEF IInv, CallersInv
  <2> QED
    BY <2>1, <2>2
<1>16. CountInv'
  <2> SUFFICES ASSUME NEW s \in Thread
               PROVE  /\ IsFiniteSet(Present(s)')
                      /\ entries'[s] = None => Present(s)' = {}
                      /\ entries'[s] # None => /\ users'[entries'[s]] = Cardinality(Present(s)')
                                               /\ Present(s)' # {}
    BY DEF CountInv
  <2>1. CASE s = t
    <3>1. IsFiniteSet(Present(t)') /\ Cardinality(Present(t)') = users'[e]
      BY <1>6, <1>9, <1>12
    <3>2. Present(t)' = {} <=> Present(t) = {c}
      BY <1>3, <1>6
    <3>3. entries'[t] = IF Present(t) = {c} THEN None ELSE e
      BY <1>13
    <3> QED
      BY <2>1, <3>1, <3>2, <3>3, <1>1
  <2>2. CASE s # t
    <3>1. entries[s] # None => users'[entries[s]] = users[entries[s]]
      BY <2>2, <1>12, <1>13 DEF IInv, TypeOK
    <3> QED
      BY <2>2, <3>1, <1>7, <1>13 DEF IInv, CountInv
  <2> QED
    BY <2>1, <2>2
<1>17. \A s, u \in Thread : entries'[s] # None /\ entries'[s] = entries'[u] => s = u
  BY <1>13 DEF IInv, ObjectsInv
<1>18. ASSUME NEW d \in Caller, \A s \in Thread : entries'[s] # d
       PROVE  /\ users'[d] = 0
              /\ \/ d = e /\ Present(t) = {c}
                 \/ d # e /\ \A s \in Thread : entries[s] # d
  <2>1. CASE d = e
    BY <2>1, <1>1, <1>10, <1>12, <1>13, <1>18
  <2>2. CASE d # e
    <3>1. \A s \in Thread : entries[s] # d
      BY <2>2, <1>1, <1>13, <1>18
    <3> QED
      BY <2>2, <3>1, <1>12 DEF IInv, ObjectsInv
  <2> QED
    BY <2>1, <2>2
<1> QED
  BY <1>1, <1>3, <1>5, <1>6, <1>7, <1>12, <1>13, <1>14, <1>15, <1>16, <1>17, <1>18 DEF Departed

\* The requests present on a conversation queue in its own deque.
LEMMA WaiterIsQueued ==
    ASSUME IInv, NEW d \in Caller, pc[d] = "waiting"
    PROVE  /\ thread[d] \in Thread /\ entry[d] \in Caller /\ entry[d] # None
           /\ entries[thread[d]] = entry[d]
           /\ InQueue(waiters[entry[d]], d) /\ Distinct(waiters[entry[d]])
           /\ waiters[entry[d]] \in Seq(Caller) /\ waiters[entry[d]] # << >>
<1>1. thread[d] \in Thread /\ entry[d] \in Caller /\ entry[d] # None /\ entries[thread[d]] = entry[d]
  BY CoordinationAssumption DEF IInv, CallersInv, TypeOK
<1>2. InQueue(waiters[entry[d]], d) /\ Distinct(waiters[entry[d]])
  BY <1>1 DEF IInv, QueueInv
<1>3. waiters[entry[d]] # << >>
  BY <1>2 DEF InQueue
<1>4. waiters[entry[d]] \in Seq(Caller)
  BY <1>1 DEF IInv, TypeOK
<1> QED
  BY <1>1, <1>2, <1>3, <1>4

\* The first of a registered deque is a caller that waits.
LEMMA HeadWaits ==
    ASSUME IInv, NEW s \in Thread, entries[s] # None, waiters[entries[s]] # << >>
    PROVE  /\ Head(waiters[entries[s]]) \in Caller
           /\ pc[Head(waiters[entries[s]])] = "waiting"
           /\ thread[Head(waiters[entries[s]])] = s
<1>1. waiters[entries[s]] \in Seq(Caller)
  BY DEF IInv, TypeOK
<1>2. Head(waiters[entries[s]]) \in Caller /\ InQueue(waiters[entries[s]], Head(waiters[entries[s]]))
  BY <1>1 DEF InQueue
<1> QED
  BY <1>2 DEF IInv, QueueInv

\* The end of a body keeps the invariant: the lock is released and the first
\* waiter woken.
LEMMA LeaveStep ==
    ASSUME IInv, NEW c \in Caller, Leave(c)
    PROVE  IInv'
<1>1. PICK t, e : t = thread[c] /\ e = entry[c]
  OBVIOUS
<1>2. /\ pc[c] = "running" /\ thread[c] # None /\ Unregister(c)
      /\ locked' = [locked EXCEPT ![e] = FALSE]
      /\ future' = WakeUpFirst(waiters[e])
      /\ UNCHANGED <<waiters, cancelling>>
  BY <1>1 DEF Leave
<1>d. Departed(c, t, e)
  BY <1>1, <1>2, DepartStep
<1>3. /\ t \in Thread /\ e \in Caller /\ e # None /\ entries[t] = e
      /\ c \in Present(t)
      /\ Present(t)' = Present(t) \ {c}
      /\ \A s \in Thread \ {t} : Present(s)' = Present(s)
      /\ \A s \in Thread \ {t} : entries'[s] = entries[s] /\ entries[s] # e
      /\ entries'[t] = IF Present(t) = {c} THEN None ELSE e
      /\ thread'[c] = None /\ pc'[c] = "done"
      /\ \A d \in Caller \ {c} : thread'[d] = thread[d] /\ entry'[d] = entry[d] /\ pc'[d] = pc[d]
      /\ entries' \in [Thread -> Caller \cup {None}] /\ users' \in [Caller -> Nat]
      /\ pc' \in [Caller -> {"idle", "waiting", "running", "busy", "done"}]
      /\ thread' \in [Caller -> Thread \cup {None}]
      /\ entry' \in [Caller -> Caller \cup {None}]
      /\ CallersInv' /\ CountInv'
      /\ \A s, u \in Thread : entries'[s] # None /\ entries'[s] = entries'[u] => s = u
      /\ \A d \in Caller : (\A s \in Thread : entries'[s] # d) =>
            users'[d] = 0 /\ ((d = e /\ Present(t) = {c}) \/ (d # e /\ \A s \in Thread : entries[s] # d))
  BY <1>d DEF Departed
<1>4. /\ ~locked'[e] /\ \A d \in Caller \ {e} : locked'[d] = locked[d]
      /\ locked' \in [Caller -> BOOLEAN]
  BY <1>2, <1>3 DEF IInv, TypeOK
<1>5. locked[e] /\ \A d \in Present(t) : pc[d] = "running" => d = c
  BY <1>2, <1>3 DEF IInv, LockInv
<1>6. waiters[e] # << >> => /\ Head(waiters[e]) \in Caller \ {c}
                            /\ pc[Head(waiters[e])] = "waiting" /\ thread[Head(waiters[e])] = t
  BY <1>2, <1>3, HeadWaits
<1>7. /\ future' \in [Caller -> {"none", "pending", "woken", "cancelled"}]
      /\ \A d \in Caller : future'[d] = future[d]
            \/ (future[d] = "pending" /\ future'[d] = "woken" /\ waiters[e] # << >> /\ d = Head(waiters[e]))
      /\ waiters[e] # << >> => future'[Head(waiters[e])] # "pending"
  BY <1>2, <1>6 DEF WakeUpFirst, IInv, TypeOK
<1>8. TypeOK'
  BY <1>2, <1>3, <1>4, <1>7 DEF TypeOK, IInv
<1>9. Present(t) = {c} => waiters[e] = << >>
  BY <1>6, CoordinationAssumption DEF Present
<1>10. ObjectsInv'
  BY <1>2, <1>3, <1>4, <1>9 DEF ObjectsInv, IInv
<1>11. LockInv'
  <2> SUFFICES ASSUME NEW s \in Thread, entries'[s] # None
               PROVE  /\ locked'[entries'[s]] <=> \E d \in Present(s)' : pc'[d] = "running"
                      /\ \A d, f \in Present(s)' : pc'[d] = "running" /\ pc'[f] = "running" => d = f
    BY DEF LockInv
  <2>1. CASE s = t
    <3>1. \A d \in Present(t)' : pc'[d] # "running"
      BY <1>3, <1>5 DEF Present
    <3>2. entries'[t] = e
      BY <2>1, <1>3
    <3> QED
      BY <2>1, <3>1, <3>2, <1>4
  <2>2. CASE s # t
    <3>1. entries'[s] = entries[s] /\ entries[s] \in Caller \ {e}
      BY <2>2, <1>3 DEF IInv, TypeOK
    <3>2. Present(s)' = Present(s) /\ \A d \in Present(s) : pc'[d] = pc[d]
      BY <2>2, <1>1, <1>3 DEF Present
    <3> QED
      BY <3>1, <3>2, <1>4 DEF IInv, LockInv
  <2> QED
    BY <2>1, <2>2
<1>12. QueueInv'
  <2> SUFFICES ASSUME NEW s \in Thread, entries'[s] # None
               PROVE  /\ \A d \in Caller : InQueue(waiters[entries'[s]], d)
                                              <=> (pc'[d] = "waiting" /\ thread'[d] = s)
                      /\ Distinct(waiters[entries'[s]])
    BY <1>2 DEF QueueInv
  <2>1. entries'[s] = entries[s] /\ entries[s] # None
    BY <1>3
  <2>2. \A d \in Caller : (pc'[d] = "waiting" /\ thread'[d] = s) <=> (pc[d] = "waiting" /\ thread[d] = s)
    BY <1>2, <1>3
  <2> QED
    BY <2>1, <2>2 DEF IInv, QueueInv
<1>13. FutureInv'
  <2>1. ASSUME NEW d \in Caller
        PROVE  /\ pc'[d] = "waiting" <=> future'[d] # "none"
               /\ future'[d] = "pending" => ~cancelling'[d]
               /\ future'[d] = "cancelled" => cancelling'[d]
    <3>1. pc'[d] = "waiting" <=> pc[d] = "waiting"
      BY <1>2, <1>3
    <3>2. future'[d] = "none" <=> future[d] = "none"
      BY <1>7
    <3> QED
      BY <3>1, <3>2, <1>2, <1>7 DEF IInv, FutureInv
  <2>2. ASSUME NEW d \in Caller, future'[d] = "woken"
        PROVE  ~locked'[entry'[d]] /\ Head(waiters'[entry'[d]]) = d
    <3>1. pc[d] = "waiting" /\ d # c
      BY <2>2, <1>2, <1>7 DEF IInv, FutureInv
    <3>2. entry'[d] = entry[d] /\ entry[d] \in Caller
      BY <3>1, <1>3, WaiterIsQueued
    <3>3. CASE future[d] = "woken"
      BY <3>2, <3>3, <1>2, <1>4 DEF IInv, FutureInv
    <3>4. CASE future[d] # "woken"
      <4>1. d = Head(waiters[e]) /\ thread[d] = t
        BY <2>2, <3>4, <1>6, <1>7
      <4>2. entry[d] = e
        BY <4>1, <3>1, <1>3, WaiterIsQueued
      <4> QED
        BY <4>1, <4>2, <3>2, <1>2, <1>4
    <3> QED
      BY <3>3, <3>4
  <2>3. HandoverPending'
    <3> SUFFICES ASSUME NEW s \in Thread, entries'[s] # None, ~locked'[entries'[s]],
                        waiters[entries'[s]] # << >>
                 PROVE  future'[Head(waiters[entries'[s]])] \in {"woken", "cancelled"}
      BY <1>2 DEF HandoverPending
    <3>1. entries'[s] = entries[s] /\ entries[s] # None
      BY <1>3
    <3>2. Head(waiters[entries[s]]) \in Caller /\ pc[Head(waiters[entries[s]])] = "waiting"
      BY <3>1, HeadWaits
    <3>3. future[Head(waiters[entries[s]])] \in {"pending", "woken", "cancelled"}
      BY <3>2 DEF IInv, FutureInv, TypeOK
    <3>4. CASE s = t
      BY <3>1, <3>2, <3>3, <3>4, <1>3, <1>7
    <3>5. CASE s # t
      <4>1. ~locked[entries[s]]
        BY <3>1, <3>5, <1>3, <1>4 DEF IInv, TypeOK
      <4>2. future[Head(waiters[entries[s]])] \in {"woken", "cancelled"}
        BY <3>1, <4>1 DEF IInv, FutureInv, HandoverPending
      <4> QED
        BY <3>1, <3>2, <4>2, <1>7
    <3> QED
      BY <3>4, <3>5
  <2> QED
    BY <2>1, <2>2, <2>3 DEF FutureInv
<1>14. ClinkNeverWaits'
  BY <1>3, CoordinationAssumption DEF IInv, ClinkNeverWaits
<1> QED
  BY <1>3, <1>8, <1>10, <1>11, <1>12, <1>13, <1>14 DEF IInv

\* A cancelled waiter that gives up keeps the invariant: the next in the deque
\* inherits the wake-up.
LEMMA UnwindStep ==
    ASSUME IInv, NEW c \in Caller, Unwind(c)
    PROVE  IInv'
<1>1. PICK t, e : t = thread[c] /\ e = entry[c]
  OBVIOUS
<1> DEFINE rest == Without(waiters[e], c)
<1>2. /\ pc[c] = "waiting" /\ cancelling[c] /\ Unregister(c)
      /\ waiters' = [waiters EXCEPT ![e] = rest]
      /\ future' = [IF locked[e] THEN future ELSE WakeUpFirst(rest) EXCEPT ![c] = "none"]
      /\ UNCHANGED <<locked, cancelling>>
  BY <1>1 DEF Unwind
<1>3. thread[c] # None
  BY <1>2 DEF IInv, CallersInv
<1>4. /\ InQueue(waiters[e], c) /\ Distinct(waiters[e]) /\ waiters[e] \in Seq(Caller)
  BY <1>1, <1>2, WaiterIsQueued
<1>5. /\ rest \in Seq(Caller)
      /\ Distinct(rest)
      /\ \A d : InQueue(rest, d) <=> InQueue(waiters[e], d) /\ d # c
      /\ rest # << >> /\ Head(waiters[e]) # c => Head(rest) = Head(waiters[e])
  BY <1>4, WithoutProperties
<1> HIDE DEF rest
<1>d. Departed(c, t, e)
  BY <1>1, <1>2, <1>3, DepartStep
<1>6. /\ t \in Thread /\ e \in Caller /\ e # None /\ entries[t] = e
      /\ c \in Present(t)
      /\ Present(t)' = Present(t) \ {c}
      /\ \A s \in Thread \ {t} : Present(s)' = Present(s)
      /\ \A s \in Thread \ {t} : entries'[s] = entries[s] /\ entries[s] # e
      /\ entries'[t] = IF Present(t) = {c} THEN None ELSE e
      /\ thread'[c] = None /\ pc'[c] = "done"
      /\ \A d \in Caller \ {c} : thread'[d] = thread[d] /\ entry'[d] = entry[d] /\ pc'[d] = pc[d]
      /\ entries' \in [Thread -> Caller \cup {None}] /\ users' \in [Caller -> Nat]
      /\ pc' \in [Caller -> {"idle", "waiting", "running", "busy", "done"}]
      /\ thread' \in [Caller -> Thread \cup {None}]
      /\ entry' \in [Caller -> Caller \cup {None}]
      /\ CallersInv' /\ CountInv'
      /\ \A s, u \in Thread : entries'[s] # None /\ entries'[s] = entries'[u] => s = u
      /\ \A d \in Caller : (\A s \in Thread : entries'[s] # d) =>
            users'[d] = 0 /\ ((d = e /\ Present(t) = {c}) \/ (d # e /\ \A s \in Thread : entries[s] # d))
  BY <1>d DEF Departed
<1>7. /\ waiters'[e] = rest /\ \A d \in Caller \ {e} : waiters'[d] = waiters[d]
      /\ waiters' \in [Caller -> Seq(Caller)]
  BY <1>2, <1>5, <1>6 DEF IInv, TypeOK
<1>8. \A d \in Caller : InQueue(rest, d) => d # c /\ pc[d] = "waiting" /\ thread[d] = t
  BY <1>5, <1>6 DEF IInv, QueueInv
<1>9. rest # << >> => /\ Head(rest) \in Caller \ {c}
                      /\ pc[Head(rest)] = "waiting" /\ thread[Head(rest)] = t
  <2>1. rest # << >> => Head(rest) \in Caller /\ InQueue(rest, Head(rest))
    BY <1>5 DEF InQueue
  <2> QED
    BY <2>1, <1>8
<1>10. /\ future' \in [Caller -> {"none", "pending", "woken", "cancelled"}]
       /\ future'[c] = "none"
       /\ \A d \in Caller \ {c} : future'[d] = future[d]
             \/ (~locked[e] /\ future[d] = "pending" /\ future'[d] = "woken" /\ rest # << >> /\ d = Head(rest))
       /\ ~locked[e] /\ rest # << >> => future'[Head(rest)] # "pending"
  BY <1>2, <1>9 DEF WakeUpFirst, IInv, TypeOK
<1>11. TypeOK'
  BY <1>2, <1>6, <1>7, <1>10 DEF TypeOK, IInv
<1>12. Present(t) = {c} => rest = << >> /\ ~locked[e]
  BY <1>2, <1>6, <1>9 DEF Present, IInv, LockInv
<1>13. ObjectsInv'
  <2>1. ASSUME NEW d \in Caller, \A s \in Thread : entries'[s] # d
        PROVE  ~locked'[d] /\ waiters'[d] = << >> /\ users'[d] = 0
    <3>1. CASE d = e
      BY <2>1, <3>1, <1>2, <1>6, <1>7, <1>12
    <3>2. CASE d # e
      BY <2>1, <3>2, <1>2, <1>6, <1>7 DEF IInv, ObjectsInv
    <3> QED
      BY <3>1, <3>2
  <2> QED
    BY <2>1, <1>6 DEF ObjectsInv
<1>14. LockInv'
  <2> SUFFICES ASSUME NEW s \in Thread, entries'[s] # None
               PROVE  /\ locked[entries'[s]] <=> \E d \in Present(s)' : pc'[d] = "running"
                      /\ \A d, f \in Present(s)' : pc'[d] = "running" /\ pc'[f] = "running" => d = f
    BY <1>2 DEF LockInv
  <2>1. entries'[s] = entries[s] /\ entries[s] # None
    BY <1>6
  <2>2. Present(s)' \subseteq Present(s) /\ c \notin Present(s)'
    BY <1>1, <1>6 DEF Present
  <2>3. \A d \in Caller : d \in Present(s)' /\ pc'[d] = "running" <=> d \in Present(s) /\ pc[d] = "running"
    BY <1>2, <1>6 DEF Present
  <2> QED
    BY <2>1, <2>3 DEF IInv, LockInv, Present
<1>15. QueueInv'
  <2> SUFFICES ASSUME NEW s \in Thread, entries'[s] # None
               PROVE  /\ \A d \in Caller : InQueue(waiters'[entries'[s]], d)
                                              <=> (pc'[d] = "waiting" /\ thread'[d] = s)
                      /\ Distinct(waiters'[entries'[s]])
    BY DEF QueueInv
  <2>1. entries'[s] = entries[s] /\ entries[s] # None /\ entries[s] \in Caller
    BY <1>6 DEF IInv, TypeOK
  <2>2. CASE s = t
    <3>1. waiters'[entries'[s]] = rest
      BY <2>1, <2>2, <1>6, <1>7
    <3>2. \A d \in Caller : (pc'[d] = "waiting" /\ thread'[d] = t)
                               <=> (d # c /\ pc[d] = "waiting" /\ thread[d] = t)
      BY <1>6
    <3>3. \A d \in Caller : InQueue(waiters[e], d) <=> (pc[d] = "waiting" /\ thread[d] = t)
      BY <1>6 DEF IInv, QueueInv
    <3> QED
      BY <2>2, <3>1, <3>2, <3>3, <1>5
  <2>3. CASE s # t
    <3>1. waiters'[entries[s]] = waiters[entries[s]]
      BY <2>1, <2>3, <1>6, <1>7
    <3>2. \A d \in Caller : (pc'[d] = "waiting" /\ thread'[d] = s) <=> (pc[d] = "waiting" /\ thread[d] = s)
      BY <2>3, <1>1, <1>2, <1>6
    <3> QED
      BY <2>1, <3>1, <3>2 DEF IInv, QueueInv
  <2> QED
    BY <2>2, <2>3
<1>16. FutureInv'
  <2>1. ASSUME NEW d \in Caller
        PROVE  /\ pc'[d] = "waiting" <=> future'[d] # "none"
               /\ future'[d] = "pending" => ~cancelling'[d]
               /\ future'[d] = "cancelled" => cancelling'[d]
    <3>1. CASE d = c
      BY <3>1, <1>6, <1>10
    <3>2. CASE d # c
      <4>1. pc'[d] = "waiting" <=> pc[d] = "waiting"
        BY <3>2, <1>6
      <4>2. future'[d] = "none" <=> future[d] = "none"
        BY <3>2, <1>10
      <4> QED
        BY <3>2, <4>1, <4>2, <1>2, <1>10 DEF IInv, FutureInv
    <3> QED
      BY <3>1, <3>2
  <2>2. ASSUME NEW d \in Caller, future'[d] = "woken"
        PROVE  ~locked'[entry'[d]] /\ Head(waiters'[entry'[d]]) = d
    <3>1. pc[d] = "waiting" /\ d # c
      BY <2>2, <1>10 DEF IInv, FutureInv
    <3>2. entry'[d] = entry[d] /\ entry[d] \in Caller /\ InQueue(waiters[entry[d]], d)
      BY <3>1, <1>6, WaiterIsQueued
    <3>3. CASE future[d] = "woken"
      <4>1. ~locked[entry[d]] /\ Head(waiters[entry[d]]) = d
        BY <3>3 DEF IInv, FutureInv
      <4>2. CASE entry[d] = e
        <5>1. InQueue(rest, d)
          BY <3>1, <3>2, <4>2, <1>5
        <5>2. rest # << >>
          BY <5>1 DEF InQueue
        <5> QED
          BY <4>1, <4>2, <5>2, <3>1, <3>2, <1>2, <1>5, <1>7
      <4>3. CASE entry[d] # e
        BY <4>1, <4>3, <3>2, <1>2, <1>7
      <4> QED
        BY <4>2, <4>3
    <3>4. CASE future[d] # "woken"
      <4>1. ~locked[e] /\ d = Head(rest) /\ thread[d] = t
        BY <2>2, <3>1, <3>4, <1>9, <1>10
      <4>2. entry[d] = e
        BY <4>1, <3>1, <1>6, WaiterIsQueued
      <4> QED
        BY <4>1, <4>2, <3>2, <1>2, <1>7
    <3> QED
      BY <3>3, <3>4
  <2>3. HandoverPending'
    <3> SUFFICES ASSUME NEW s \in Thread, entries'[s] # None, ~locked[entries'[s]],
                        waiters'[entries'[s]] # << >>
                 PROVE  future'[Head(waiters'[entries'[s]])] \in {"woken", "cancelled"}
      BY <1>2 DEF HandoverPending
    <3>1. entries'[s] = entries[s] /\ entries[s] # None /\ entries[s] \in Caller
      BY <1>6 DEF IInv, TypeOK
    <3>2. CASE s = t
      <4>1. rest # << >> /\ waiters'[entries'[s]] = rest /\ ~locked[e]
        BY <3>1, <3>2, <1>6, <1>7
      <4>2. future[Head(rest)] # "none" /\ Head(rest) \in Caller \ {c}
        BY <4>1, <1>9 DEF IInv, FutureInv
      <4>3. future'[Head(rest)] \in {"pending", "woken", "cancelled"}
        BY <4>2, <1>10
      <4> QED
        BY <4>1, <4>3, <1>10
    <3>3. CASE s # t
      <4>1. waiters'[entries'[s]] = waiters[entries[s]]
        BY <3>1, <3>3, <1>6, <1>7
      <4>2. future[Head(waiters[entries[s]])] \in {"woken", "cancelled"}
        BY <3>1, <4>1 DEF IInv, FutureInv, HandoverPending
      <4>3. Head(waiters[entries[s]]) \in Caller \ {c}
        BY <3>1, <3>3, <4>1, <1>1, HeadWaits
      <4> QED
        BY <4>1, <4>2, <4>3, <1>10
    <3> QED
      BY <3>2, <3>3
  <2> QED
    BY <2>1, <2>2, <2>3 DEF FutureInv
<1>17. ClinkNeverWaits'
  BY <1>6, CoordinationAssumption DEF IInv, ClinkNeverWaits
<1> QED
  BY <1>6, <1>11, <1>13, <1>14, <1>15, <1>16, <1>17 DEF IInv

\* A woken waiter that takes the lock keeps the invariant.
LEMMA ResumeStep ==
    ASSUME IInv, NEW c \in Caller, Resume(c)
    PROVE  IInv'
<1>1. PICK t, e : t = thread[c] /\ e = entry[c]
  OBVIOUS
<1> DEFINE rest == Without(waiters[e], c)
<1>2. /\ pc[c] = "waiting" /\ future[c] = "woken" /\ ~cancelling[c]
      /\ waiters' = [waiters EXCEPT ![e] = rest]
      /\ locked' = [locked EXCEPT ![e] = TRUE]
      /\ future' = [future EXCEPT ![c] = "none"]
      /\ pc' = [pc EXCEPT ![c] = "running"]
      /\ UNCHANGED <<entries, users, thread, entry, cancelling>>
  BY <1>1 DEF Resume
<1>3. /\ t \in Thread /\ e \in Caller /\ e # None /\ entries[t] = e
      /\ InQueue(waiters[e], c) /\ Distinct(waiters[e]) /\ waiters[e] \in Seq(Caller)
  BY <1>1, <1>2, WaiterIsQueued
<1>4. /\ rest \in Seq(Caller)
      /\ Distinct(rest)
      /\ \A d : InQueue(rest, d) <=> InQueue(waiters[e], d) /\ d # c
  BY <1>3, WithoutProperties
<1> HIDE DEF rest
<1>5. \A s \in Thread \ {t} : entries[s] # e
  BY <1>3 DEF IInv, ObjectsInv
<1>6. /\ waiters'[e] = rest /\ \A d \in Caller \ {e} : waiters'[d] = waiters[d]
      /\ locked'[e] /\ \A d \in Caller \ {e} : locked'[d] = locked[d]
      /\ future'[c] = "none" /\ \A d \in Caller \ {c} : future'[d] = future[d]
      /\ pc'[c] = "running" /\ \A d \in Caller \ {c} : pc'[d] = pc[d]
  BY <1>2, <1>3 DEF IInv, TypeOK
<1>7. TypeOK'
  BY <1>2, <1>4 DEF IInv, TypeOK
<1>8. \A s \in Thread : Present(s)' = Present(s)
  BY <1>2, <1>6 DEF Present
<1>9. CallersInv'
  BY <1>2, <1>6 DEF IInv, CallersInv
<1>10. ObjectsInv'
  BY <1>2, <1>3, <1>6 DEF IInv, ObjectsInv
<1>11. CountInv'
  BY <1>2, <1>8 DEF IInv, CountInv
<1>12. ~locked[e] /\ Head(waiters[e]) = c
  BY <1>1, <1>2 DEF IInv, FutureInv
<1>13. LockInv'
  <2> SUFFICES ASSUME NEW s \in Thread, entries[s] # None
               PROVE  /\ locked'[entries[s]] <=> \E d \in Present(s) : pc'[d] = "running"
                      /\ \A d, f \in Present(s) : pc'[d] = "running" /\ pc'[f] = "running" => d = f
    BY <1>2, <1>8 DEF LockInv
  <2>1. CASE s = t
    <3>1. \A d \in Present(t) : pc[d] # "running"
      BY <1>3, <1>12 DEF IInv, LockInv
    <3>2. c \in Present(t)
      BY <1>1, <1>2 DEF Present
    <3>3. \A d \in Present(t) : pc'[d] = "running" => d = c
      BY <3>1, <1>6 DEF Present
    <3> QED
      BY <2>1, <3>2, <3>3, <1>3, <1>6
  <2>2. CASE s # t
    <3>1. locked'[entries[s]] = locked[entries[s]]
      BY <2>2, <1>5, <1>6 DEF IInv, TypeOK
    <3>2. \A d \in Present(s) : pc'[d] = pc[d]
      BY <2>2, <1>1, <1>6 DEF Present
    <3> QED
      BY <3>1, <3>2 DEF IInv, LockInv
  <2> QED
    BY <2>1, <2>2
<1>14. QueueInv'
  <2> SUFFICES ASSUME NEW s \in Thread, entries[s] # None
               PROVE  /\ \A d \in Caller : InQueue(waiters'[entries[s]], d)
                                              <=> (pc'[d] = "waiting" /\ thread[d] = s)
                      /\ Distinct(waiters'[entries[s]])
    BY <1>2 DEF QueueInv
  <2>1. CASE s = t
    <3>1. \A d \in Caller : (pc'[d] = "waiting" /\ thread[d] = t)
                               <=> (d # c /\ pc[d] = "waiting" /\ thread[d] = t)
      BY <1>6
    <3>2. \A d \in Caller : InQueue(waiters[e], d) <=> (pc[d] = "waiting" /\ thread[d] = t)
      BY <1>3 DEF IInv, QueueInv
    <3> QED
      BY <2>1, <3>1, <3>2, <1>3, <1>4, <1>6
  <2>2. CASE s # t
    <3>1. waiters'[entries[s]] = waiters[entries[s]]
      BY <2>2, <1>5, <1>6 DEF IInv, TypeOK
    <3>2. \A d \in Caller : (pc'[d] = "waiting" /\ thread[d] = s) <=> (pc[d] = "waiting" /\ thread[d] = s)
      BY <2>2, <1>1, <1>6
    <3> QED
      BY <3>1, <3>2 DEF IInv, QueueInv
  <2> QED
    BY <2>1, <2>2
<1>15. FutureInv'
  <2>1. ASSUME NEW d \in Caller
        PROVE  /\ pc'[d] = "waiting" <=> future'[d] # "none"
               /\ future'[d] = "pending" => ~cancelling'[d]
               /\ future'[d] = "cancelled" => cancelling'[d]
    <3>1. CASE d = c
      BY <3>1, <1>6
    <3>2. CASE d # c
      BY <3>2, <1>2, <1>6 DEF IInv, FutureInv
    <3> QED
      BY <3>1, <3>2
  <2>2. ASSUME NEW d \in Caller, future'[d] = "woken"
        PROVE  ~locked'[entry'[d]] /\ Head(waiters'[entry'[d]]) = d
    <3>1. d # c /\ pc[d] = "waiting" /\ future[d] = "woken"
      BY <2>2, <1>6 DEF IInv, FutureInv
    <3>2. ~locked[entry[d]] /\ Head(waiters[entry[d]]) = d
      BY <3>1 DEF IInv, FutureInv
    <3>3. entry[d] \in Caller \ {e}
      BY <3>1, <3>2, <1>12, WaiterIsQueued
    <3> QED
      BY <3>2, <3>3, <1>2, <1>6
  <2>3. HandoverPending'
    <3> SUFFICES ASSUME NEW s \in Thread, entries[s] # None, ~locked'[entries[s]],
                        waiters'[entries[s]] # << >>
                 PROVE  future'[Head(waiters'[entries[s]])] \in {"woken", "cancelled"}
      BY <1>2 DEF HandoverPending
    <3>1. s # t /\ entries[s] \in Caller \ {e}
      BY <1>3, <1>5, <1>6 DEF IInv, TypeOK
    <3>2. waiters'[entries[s]] = waiters[entries[s]] /\ ~locked[entries[s]]
      BY <3>1, <1>6
    <3>3. future[Head(waiters[entries[s]])] \in {"woken", "cancelled"}
      BY <3>2 DEF IInv, FutureInv, HandoverPending
    <3>4. Head(waiters[entries[s]]) \in Caller \ {c}
      BY <3>1, <3>2, <1>1, HeadWaits
    <3> QED
      BY <3>2, <3>3, <3>4, <1>6
  <2> QED
    BY <2>1, <2>2, <2>3 DEF FutureInv
<1>16. ClinkNeverWaits'
  BY <1>6, CoordinationAssumption DEF IInv, ClinkNeverWaits
<1> QED
  BY <1>7, <1>9, <1>10, <1>11, <1>13, <1>14, <1>15, <1>16 DEF IInv

\* The cancellation of a waiter keeps the invariant.
LEMMA CancelWaitingStep ==
    ASSUME IInv, NEW c \in Caller, CancelWaiting(c)
    PROVE  IInv'
<1>1. /\ pc[c] = "waiting"
      /\ cancelling' = [cancelling EXCEPT ![c] = TRUE]
      /\ future' = [future EXCEPT ![c] = IF @ = "pending" THEN "cancelled" ELSE @]
      /\ UNCHANGED <<entries, locked, waiters, users, pc, thread, entry>>
  BY DEF CancelWaiting
<1>2. /\ cancelling'[c] /\ \A d \in Caller \ {c} : cancelling'[d] = cancelling[d]
      /\ future'[c] = IF future[c] = "pending" THEN "cancelled" ELSE future[c]
      /\ \A d \in Caller \ {c} : future'[d] = future[d]
  BY <1>1 DEF IInv, TypeOK
<1>3. TypeOK'
  BY <1>1 DEF IInv, TypeOK
<1>4. \A s \in Thread : Present(s)' = Present(s)
  BY <1>1 DEF Present
<1>5. CallersInv'
  BY <1>1, <1>2 DEF IInv, CallersInv
<1>6. ObjectsInv'
  BY <1>1 DEF IInv, ObjectsInv
<1>7. CountInv'
  BY <1>1, <1>4 DEF IInv, CountInv
<1>8. LockInv'
  BY <1>1, <1>4 DEF IInv, LockInv
<1>9. QueueInv'
  BY <1>1 DEF IInv, QueueInv
<1>10. FutureInv'
  <2>1. ASSUME NEW d \in Caller
        PROVE  /\ pc'[d] = "waiting" <=> future'[d] # "none"
               /\ future'[d] = "pending" => ~cancelling'[d]
               /\ future'[d] = "cancelled" => cancelling'[d]
               /\ future'[d] = "woken" => ~locked'[entry'[d]] /\ Head(waiters'[entry'[d]]) = d
    <3>1. CASE d = c
      BY <3>1, <1>1, <1>2 DEF IInv, FutureInv
    <3>2. CASE d # c
      BY <3>2, <1>1, <1>2 DEF IInv, FutureInv
    <3> QED
      BY <3>1, <3>2
  <2>2. HandoverPending'
    <3> SUFFICES ASSUME NEW s \in Thread, entries[s] # None, ~locked[entries[s]],
                        waiters[entries[s]] # << >>
                 PROVE  future'[Head(waiters[entries[s]])] \in {"woken", "cancelled"}
      BY <1>1 DEF HandoverPending
    <3>1. future[Head(waiters[entries[s]])] \in {"woken", "cancelled"}
      BY DEF IInv, FutureInv, HandoverPending
    <3>2. Head(waiters[entries[s]]) \in Caller
      BY HeadWaits
    <3> QED
      BY <3>1, <3>2, <1>2
  <2> QED
    BY <2>1, <2>2 DEF FutureInv
<1>11. ClinkNeverWaits'
  BY <1>1 DEF IInv, ClinkNeverWaits
<1> QED
  BY <1>3, <1>5, <1>6, <1>7, <1>8, <1>9, <1>10, <1>11 DEF IInv

\* A step that only moves the program counter of a caller outside the registry
\* keeps the invariant: a busy answer, and a body without continuation id.
LEMMA OutsideStep ==
    ASSUME IInv, NEW c \in Caller, NEW p \in {"running", "busy", "done"},
           pc[c] # "waiting", thread[c] = None, pc' = [pc EXCEPT ![c] = p],
           UNCHANGED <<entries, locked, waiters, users, thread, entry, future, cancelling>>
    PROVE  IInv'
<1>1. pc'[c] = p /\ \A d \in Caller \ {c} : pc'[d] = pc[d]
  BY DEF IInv, TypeOK
<1>2. TypeOK'
  BY DEF IInv, TypeOK
<1>3. \A s \in Thread : Present(s)' = Present(s)
  BY <1>1, CoordinationAssumption DEF Present
<1>4. CallersInv'
  BY <1>1 DEF IInv, CallersInv
<1>5. ObjectsInv'
  BY DEF IInv, ObjectsInv
<1>6. CountInv'
  BY <1>3 DEF IInv, CountInv
<1>7. \A s \in Thread : \A d \in Present(s) : pc'[d] = pc[d]
  BY <1>1, CoordinationAssumption DEF Present
<1>8. LockInv'
  BY <1>3, <1>7 DEF IInv, LockInv
<1>9. \A d \in Caller : pc'[d] = "waiting" <=> pc[d] = "waiting"
  BY <1>1
<1>10. QueueInv'
  BY <1>9 DEF IInv, QueueInv
<1>11. FutureInv'
  BY <1>9 DEF IInv, FutureInv, HandoverPending
<1>12. ClinkNeverWaits'
  BY <1>9, CoordinationAssumption DEF IInv, ClinkNeverWaits
<1> QED
  BY <1>2, <1>4, <1>5, <1>6, <1>8, <1>10, <1>11, <1>12 DEF IInv

-----------------------------------------------------------------------------
(* Theorems. *)

\* The invariant holds at start-up: the registry is empty.
LEMMA InitIInv == CoordinationInit => IInv
<1> SUFFICES ASSUME CoordinationInit PROVE IInv
  OBVIOUS
<1>1. TypeOK
  BY DEF CoordinationInit, TypeOK
<1>2. \A t \in Thread : Present(t) = {}
  BY DEF CoordinationInit, Present
<1>3. CountInv
  BY <1>2, FS_EmptySet DEF CoordinationInit, CountInv
<1>4. CallersInv /\ ObjectsInv /\ LockInv /\ QueueInv /\ ClinkNeverWaits
  BY CoordinationAssumption
     DEF CoordinationInit, CallersInv, ObjectsInv, LockInv, QueueInv, ClinkNeverWaits
<1>5. FutureInv
  BY DEF CoordinationInit, FutureInv, HandoverPending
<1> QED
  BY <1>1, <1>3, <1>4, <1>5 DEF IInv

\* An arrival keeps the types.
LEMMA ArrivalType ==
    ASSUME IInv, NEW c \in Caller, NEW t \in Thread, AcquireNow(c, t) \/ Enqueue(c, t)
    PROVE  TypeOK'
<1>1. EntryFor(c, t) \in Caller
  BY DEF EntryFor, IInv, TypeOK
<1>2. CASE AcquireNow(c, t)
  BY <1>1, <1>2 DEF AcquireNow, Register, IInv, TypeOK
<1>3. CASE Enqueue(c, t)
  <2>1. waiters' \in [Caller -> Seq(Caller)]
    BY <1>1, <1>3 DEF Enqueue, IInv, TypeOK
  <2> QED
    BY <1>1, <1>3, <2>1 DEF Enqueue, Register, IInv, TypeOK
<1> QED
  BY <1>2, <1>3

\* Every step keeps the invariant.
LEMMA NextIInv == IInv /\ [CoordinationNext]_coordinationVars => IInv'
<1> SUFFICES ASSUME IInv, [CoordinationNext]_coordinationVars PROVE IInv'
  OBVIOUS
<1>1. ASSUME NEW c \in Caller, NEW t \in Thread, RejectBusy(c, t) PROVE IInv'
  <2>1. thread[c] = None
    BY <1>1 DEF RejectBusy, IInv, CallersInv
  <2> QED
    BY <1>1, <2>1, OutsideStep DEF RejectBusy
<1>2. ASSUME NEW c \in Caller, NEW t \in Thread, AcquireNow(c, t) PROVE IInv'
  BY <1>2, ArrivalType, AcquireNowStep
<1>3. ASSUME NEW c \in Caller, NEW t \in Thread, Enqueue(c, t) PROVE IInv'
  BY <1>3, ArrivalType, EnqueueStep
<1>4. ASSUME NEW c \in Caller, RunUncoordinated(c) PROVE IInv'
  <2>1. thread[c] = None
    BY <1>4 DEF RunUncoordinated, IInv, CallersInv
  <2> QED
    BY <1>4, <2>1, OutsideStep DEF RunUncoordinated
<1>5. ASSUME NEW c \in Caller, LeaveUncoordinated(c) PROVE IInv'
  BY <1>5, OutsideStep DEF LeaveUncoordinated
<1>6. CASE UNCHANGED coordinationVars
  <2>1. \A s \in Thread : Present(s)' = Present(s)
    BY <1>6 DEF coordinationVars, Present
  <2>2. TypeOK' /\ CallersInv' /\ ObjectsInv' /\ QueueInv' /\ FutureInv' /\ ClinkNeverWaits'
    BY <1>6 DEF coordinationVars, IInv, TypeOK, CallersInv, ObjectsInv, QueueInv, FutureInv,
                HandoverPending, ClinkNeverWaits
  <2>3. CountInv' /\ LockInv'
    BY <1>6, <2>1 DEF coordinationVars, IInv, CountInv, LockInv
  <2> QED
    BY <2>2, <2>3 DEF IInv
<1> QED
  BY <1>1, <1>2, <1>3, <1>4, <1>5, <1>6, ResumeStep, CancelWaitingStep, UnwindStep, LeaveStep
     DEF CoordinationNext, Finish, Quiescent

\* The inductive invariant holds in every reachable state.
THEOREM Invariance == CoordinationSpec => []IInv
  BY InitIInv, NextIInv, PTL DEF CoordinationSpec

\* Type correctness, for every set of requests and conversations.
THEOREM TypeCorrect == CoordinationSpec => []TypeOK
<1>1. IInv => TypeOK
  BY DEF IInv
<1> QED
  BY <1>1, Invariance, PTL

\* Two invocations never run on one conversation at a time (the `async with
\* entry.lock' of coordinate_conversation), however entries come and go.
THEOREM MutualExclusionHolds == CoordinationSpec => []MutualExclusion
<1>1. IInv => MutualExclusion
  <2> SUFFICES ASSUME IInv, NEW c \in Caller, NEW d \in Caller,
                      pc[c] = "running", pc[d] = "running",
                      thread[c] # None, thread[c] = thread[d]
               PROVE  c = d
    BY DEF MutualExclusion
  <2>1. thread[c] \in Thread /\ entries[thread[c]] # None
    BY CoordinationAssumption DEF IInv, TypeOK, CallersInv
  <2>2. c \in Present(thread[c]) /\ d \in Present(thread[c])
    BY DEF Present
  <2> QED
    BY <2>1, <2>2 DEF IInv, LockInv
<1> QED
  BY <1>1, Invariance, PTL

\* The registry holds exactly the conversations somebody is present on, with an
\* exact reference count ("retains only active holders and waiters").
THEOREM RegistryIsExactHolds == CoordinationSpec => []RegistryIsExact
<1>1. IInv => RegistryIsExact
  <2> SUFFICES ASSUME IInv, NEW t \in Thread
               PROVE  IF entries[t] = None
                      THEN Present(t) = {}
                      ELSE /\ users[entries[t]] = Cardinality(Present(t))
                           /\ Present(t) # {}
                           /\ \A c \in Present(t) : entry[c] = entries[t]
    BY DEF RegistryIsExact
  <2>1. \A c \in Present(t) : entry[c] = entries[t]
    BY CoordinationAssumption DEF Present, IInv, CallersInv
  <2> QED
    BY <2>1 DEF IInv, CountInv
<1> QED
  BY <1>1, Invariance, PTL

\* No wake-up is lost: the first waiter of a free lock has been woken, or is
\* cancelled and will pass the wake-up on.
THEOREM HandoverPendingHolds == CoordinationSpec => []HandoverPending
<1>1. IInv => HandoverPending
  BY DEF IInv, FutureInv
<1> QED
  BY <1>1, Invariance, PTL

\* A clink request, which asks with wait=False, never queues: between its check
\* of the reference count and acquire() nothing else runs.
THEOREM ClinkNeverWaitsHolds == CoordinationSpec => []ClinkNeverWaits
<1>1. IInv => ClinkNeverWaits
  BY DEF IInv
<1> QED
  BY <1>1, Invariance, PTL

\* The first in a deque has position 1, every other waiter a later one.
LEMMA HeadIsFirst ==
    ASSUME IInv, NEW c \in Caller, NEW d \in Caller, c # d,
           pc[c] = "waiting", future[d] = "woken", thread[d] = thread[c]
    PROVE  Position(d) < Position(c)
<1>1. pc[d] = "waiting"
  BY DEF IInv, TypeOK, FutureInv
<1>2. PICK t \in Thread, e \in Caller :
          /\ t = thread[c] /\ e = entry[c] /\ e = entry[d]
          /\ entries[t] = e /\ e # None
  BY <1>1, CoordinationAssumption DEF IInv, TypeOK, CallersInv
<1>3. waiters[e] \in Seq(Caller) /\ Distinct(waiters[e]) /\ InQueue(waiters[e], c)
      /\ InQueue(waiters[e], d)
  BY <1>1, <1>2 DEF IInv, TypeOK, QueueInv
<1>4. Head(waiters[e]) = d
  BY <1>2 DEF IInv, FutureInv
<1>5. PICK q \in Seq(Caller) : q = waiters[e]
  BY <1>3
<1>6. 1 \in DOMAIN q /\ q[1] = d
  BY <1>3, <1>4, <1>5 DEF InQueue
<1>7. Position(d) = 1
  <2>1. \A i \in DOMAIN q : q[i] = d => i = 1
    BY <1>3, <1>5, <1>6 DEF Distinct
  <2>2. (CHOOSE i \in DOMAIN q : q[i] = d) = 1
    BY <1>6, <2>1
  <2> QED
    BY <1>2, <1>5, <2>2 DEF Position
<1>8. Position(c) \in DOMAIN q /\ q[Position(c)] = c
  <2>1. \E i \in DOMAIN q : q[i] = c
    BY <1>3, <1>5 DEF InQueue
  <2> QED
    BY <1>2, <1>5, <2>1 DEF Position
<1> QED
  BY <1>5, <1>6, <1>7, <1>8

\* Nobody who waits is overtaken: a new arrival only runs when all that wait have
\* been cancelled, and a wake-up goes to the first in the deque.
THEOREM FirstComeFirstServedHolds == CoordinationSpec => FirstComeFirstServed
<1> DEFINE Fair == \A c, d \in Caller :
          (/\ pc[d] # "running" /\ pc'[d] = "running"
           /\ pc[c] = "waiting" /\ ~cancelling[c] /\ c # d
           /\ thread'[d] = thread[c])
          => (pc[d] = "waiting" /\ Position(d) < Position(c))
<1>1. IInv /\ [CoordinationNext]_coordinationVars => [Fair]_coordinationVars
  <2> SUFFICES ASSUME IInv, CoordinationNext, NEW c \in Caller, NEW d \in Caller,
                      pc[d] # "running", pc'[d] = "running",
                      pc[c] = "waiting", ~cancelling[c], c # d, thread'[d] = thread[c]
               PROVE  pc[d] = "waiting" /\ Position(d) < Position(c)
    OBVIOUS
  <2>1. PICK t \in Thread, e \in Caller :
            t = thread[c] /\ e = entry[c] /\ entries[t] = e /\ e # None
    BY CoordinationAssumption DEF IInv, TypeOK, CallersInv
  <2>2. CASE Resume(d)
    <3>1. future[d] = "woken" /\ pc[d] = "waiting" /\ thread[d] = thread[c]
      BY <2>2 DEF Resume
    <3> QED
      BY <3>1, HeadIsFirst
  <2>3. ASSUME NEW s \in Thread, AcquireNow(d, s) PROVE FALSE
    <3>1. s = t
      BY <2>1, <2>3 DEF AcquireNow, Register, IInv, TypeOK
    <3>2. EntryFor(d, s) = e
      BY <2>1, <3>1 DEF EntryFor
    <3>3. \A i \in DOMAIN waiters[e] : future[waiters[e][i]] = "cancelled"
      BY <2>3, <3>2 DEF AcquireNow, LockIsFree
    <3>4. InQueue(waiters[e], c)
      BY <2>1 DEF IInv, QueueInv
    <3>5. future[c] # "cancelled"
      BY DEF IInv, FutureInv
    <3> QED
      BY <3>3, <3>4, <3>5 DEF InQueue
  <2>4. CASE RunUncoordinated(d)
    <3>1. thread[d] = None /\ thread'[d] = None
      BY <2>4 DEF RunUncoordinated, IInv, CallersInv
    <3> QED
      BY <2>1, <3>1, CoordinationAssumption
  <2>5. \/ Resume(d) \/ RunUncoordinated(d) \/ \E s \in Thread : AcquireNow(d, s)
    <3>1. ASSUME NEW b \in Caller, NEW p \in {"waiting", "busy", "done"}, pc' = [pc EXCEPT ![b] = p]
          PROVE  FALSE
      BY <3>1 DEF IInv, TypeOK
    <3>2. ASSUME NEW b \in Caller, b # d, pc' = [pc EXCEPT ![b] = "running"]
          PROVE  FALSE
      BY <3>2 DEF IInv, TypeOK
    <3>3. ASSUME UNCHANGED pc PROVE FALSE
      BY <3>3
    <3>4. ASSUME NEW b \in Caller, NEW s \in Thread, RejectBusy(b, s) \/ Enqueue(b, s) PROVE FALSE
      BY <3>1, <3>4 DEF RejectBusy, Enqueue
    <3>5. ASSUME NEW b \in Caller, Unwind(b) \/ Leave(b) \/ LeaveUncoordinated(b) PROVE FALSE
      BY <3>1, <3>5 DEF Unwind, Leave, LeaveUncoordinated, Unregister
    <3>6. ASSUME NEW b \in Caller, CancelWaiting(b) PROVE FALSE
      BY <3>3, <3>6 DEF CancelWaiting
    <3>7. ASSUME NEW b \in Caller, NEW s \in Thread, AcquireNow(b, s) PROVE b = d
      BY <3>2, <3>7 DEF AcquireNow
    <3>8. ASSUME NEW b \in Caller, Resume(b) \/ RunUncoordinated(b) PROVE b = d
      BY <3>2, <3>8 DEF Resume, RunUncoordinated
    <3>9. ~Quiescent
      BY <3>3 DEF Quiescent, coordinationVars
    <3> QED
      BY <3>4, <3>5, <3>6, <3>7, <3>8, <3>9 DEF CoordinationNext, Finish
  <2> QED
    BY <2>2, <2>3, <2>4, <2>5
<1> QED
  BY <1>1, Invariance, PTL DEF CoordinationSpec, FirstComeFirstServed

----------------------------------------------------------------------------
(* ConversationCoordination implements ConversationMutex: every step of    *)
(* the registry, its deques and futures is a step of the abstract lock or  *)
(* leaves it alone.  The steps are looked at under the inductive invariant.*)

Runs(c, t) == pc[c] = "running" /\ thread[c] = t

HolderInv ==
    \A t \in Thread :
        /\ Holder(t) \in Caller \cup {None}
        /\ \A c \in Caller : Holder(t) = c <=> Runs(c, t)

\* The abstract holder is whoever runs on the conversation.
LEMMA HolderRuns == IInv => HolderInv
<1> SUFFICES ASSUME IInv, NEW t \in Thread
             PROVE  /\ Holder(t) \in Caller \cup {None}
                    /\ \A c \in Caller : Holder(t) = c <=> Runs(c, t)
  BY DEF HolderInv
<1>1. CASE \E c \in Present(t) : pc[c] = "running"
  <2>1. PICK d \in Present(t) : pc[d] = "running"
    BY <1>1
  <2>2. entries[t] # None
    BY <2>1 DEF IInv, CountInv
  <2>3. \A c \in Present(t) : pc[c] = "running" => c = d
    BY <2>1, <2>2 DEF IInv, LockInv
  <2>4. Holder(t) = d
    BY <1>1, <2>1, <2>3 DEF Holder
  <2>5. d \in Caller /\ \A c \in Caller : Runs(c, t) <=> c = d
    BY <2>1, <2>3 DEF Runs, Present
  <2> QED
    BY <2>4, <2>5
<1>2. CASE ~ \E c \in Present(t) : pc[c] = "running"
  <2>1. Holder(t) = None
    BY <1>2 DEF Holder
  <2>2. \A c \in Caller : ~Runs(c, t)
    BY <1>2 DEF Runs, Present
  <2> QED
    BY <2>1, <2>2, CoordinationAssumption
<1> QED
  BY <1>1, <1>2

\* A conversation where nobody starts or stops running keeps its holder.
LEMMA HolderKept ==
    ASSUME IInv, IInv', NEW t \in Thread, \A c \in Caller : Runs(c, t)' <=> Runs(c, t)
    PROVE  Holder(t)' = Holder(t)
<1>1. IInv' => HolderInv'
  BY HolderRuns, PTL
<1>2. /\ Holder(t)' \in Caller \cup {None}
      /\ \A c \in Caller : Holder(t)' = c <=> Runs(c, t)'
  BY <1>1 DEF HolderInv
<1>3. /\ Holder(t) \in Caller \cup {None}
      /\ \A c \in Caller : Holder(t) = c <=> Runs(c, t)
  BY HolderRuns DEF HolderInv
<1> QED
  BY <1>2, <1>3

\* After a step, whoever runs on a conversation holds it; where nobody runs, nobody does.
LEMMA HolderAfter ==
    ASSUME IInv', NEW t \in Thread
    PROVE  /\ \A c \in Caller : Runs(c, t)' => Holder(t)' = c
           /\ (\A c \in Caller : ~Runs(c, t)') => Holder(t)' = None
<1>1. IInv' => HolderInv'
  BY HolderRuns, PTL
<1> QED
  BY <1>1 DEF HolderInv

\* Nobody is present at first.
LEMMA InitRefines == CoordinationInit => Mutex!Init
<1> SUFFICES ASSUME CoordinationInit PROVE Mutex!Init
  OBVIOUS
<1>1. \A t \in Thread : Present(t) = {}
  BY DEF CoordinationInit, Present
<1>2. \A t \in Thread : Holder(t) = None
  BY <1>1 DEF Holder
<1>3. {c \in Caller : pc[c] = "busy"} = {}
  BY DEF CoordinationInit
<1> QED
  BY <1>1, <1>2, <1>3 DEF Mutex!Init

-----------------------------------------------------------------------------
(* The steps, seen by the abstract lock. *)

Busy == {c \in Caller : pc[c] = "busy"}

\* A caller that is not registered anywhere changes its own pc and nothing else.
LEMMA OutsideKeeps ==
    ASSUME IInv, IInv', NEW c \in Caller, NEW p \in {"running", "busy", "done"},
           thread[c] = None, pc' = [pc EXCEPT ![c] = p], UNCHANGED thread,
           NEW t \in Thread
    PROVE  Present(t)' = Present(t) /\ Holder(t)' = Holder(t)
<1>1. Present(t)' = Present(t)
  BY CoordinationAssumption DEF Present, IInv, TypeOK
<1>2. \A d \in Caller : Runs(d, t)' <=> Runs(d, t)
  BY CoordinationAssumption DEF Runs, IInv, TypeOK
<1> QED
  BY <1>1, <1>2, HolderKept

\* An arrival adds one caller to those present.
LEMMA ArrivalRefines ==
    ASSUME IInv, NEW c \in Caller, NEW t \in Thread, Register(c, t),
           NEW p \in {"waiting", "running"}, pc' = [pc EXCEPT ![c] = p]
    PROVE  /\ \A s \in Thread : c \notin Present(s)
           /\ c \notin Busy
           /\ Busy' = Busy
           /\ \A s \in Thread : Present(s)' = IF s = t THEN Present(s) \cup {c} ELSE Present(s)
<1>1. pc[c] = "idle" /\ thread' = [thread EXCEPT ![c] = t]
  BY DEF Register
<1>2. \A s \in Thread : c \notin Present(s)
  BY <1>1 DEF Present
<1>3. c \notin Busy /\ Busy' = Busy
  BY <1>1 DEF Busy, IInv, TypeOK
<1>4. thread[c] = None
  BY <1>1 DEF IInv, CallersInv
<1>5. \A s \in Thread : Present(s)' = IF s = t THEN Present(s) \cup {c} ELSE Present(s)
  BY <1>1, <1>4 DEF Present, IInv, TypeOK
<1> QED
  BY <1>2, <1>3, <1>5

\* A lock that is free has no holder.
LEMMA FreeIsUnheld ==
    ASSUME IInv, NEW t \in Thread, entries[t] # None => ~locked[entries[t]]
    PROVE  Holder(t) = None
<1>1. \A c \in Present(t) : pc[c] # "running"
  BY DEF IInv, LockInv, CountInv
<1> QED
  BY <1>1 DEF Holder

LEMMA AcquireNowRefines ==
    ASSUME IInv, IInv', NEW c \in Caller, NEW t \in Thread, AcquireNow(c, t)
    PROVE  Mutex!Arrive(c, t)
<1>1. /\ pc[c] = "idle" /\ pc' = [pc EXCEPT ![c] = "running"]
      /\ thread' = [thread EXCEPT ![c] = t] /\ Register(c, t)
  BY DEF AcquireNow, Register
<1>2. /\ \A s \in Thread : c \notin Present(s)
      /\ c \notin Busy
      /\ Busy' = Busy
      /\ \A s \in Thread : Present(s)' = IF s = t THEN Present(s) \cup {c} ELSE Present(s)
  BY <1>1, ArrivalRefines
<1>3. ASSUME NEW s \in Thread, s # t PROVE Holder(s)' = Holder(s)
  <2>1. \A d \in Caller : Runs(d, s)' <=> Runs(d, s)
    BY <1>1, <1>3, CoordinationAssumption DEF Runs, IInv, TypeOK, CallersInv
  <2> QED
    BY <2>1, HolderKept
<1>4. Holder(t)' = c
  <2>1. Runs(c, t)'
    BY <1>1 DEF Runs, IInv, TypeOK
  <2> QED
    BY <2>1, HolderAfter
<1>5. Holder(t) = None
  <2>1. entries[t] # None => ~locked[entries[t]]
    BY DEF AcquireNow, LockIsFree, EntryFor
  <2> QED
    BY <2>1, FreeIsUnheld
<1> QED
  BY <1>2, <1>3, <1>4, <1>5 DEF Mutex!Arrive, Mutex!Absent, Busy

LEMMA EnqueueRefines ==
    ASSUME IInv, IInv', NEW c \in Caller, NEW t \in Thread, Enqueue(c, t)
    PROVE  Mutex!Arrive(c, t)
<1>1. /\ pc[c] = "idle" /\ pc' = [pc EXCEPT ![c] = "waiting"]
      /\ thread' = [thread EXCEPT ![c] = t] /\ Register(c, t)
  BY DEF Enqueue, Register
<1>2. /\ \A s \in Thread : c \notin Present(s)
      /\ c \notin Busy
      /\ Busy' = Busy
      /\ \A s \in Thread : Present(s)' = IF s = t THEN Present(s) \cup {c} ELSE Present(s)
  BY <1>1, ArrivalRefines
<1>3. ASSUME NEW s \in Thread PROVE Holder(s)' = Holder(s)
  <2>1. \A d \in Caller : Runs(d, s)' <=> Runs(d, s)
    BY <1>1, CoordinationAssumption DEF Runs, IInv, TypeOK, CallersInv
  <2> QED
    BY <2>1, HolderKept
<1>4. c \notin Clink
  BY <1>1 DEF IInv, TypeOK, ClinkNeverWaits
<1>5. Present(t) # {}
  <2>1. SUFFICES ASSUME entries[t] = None PROVE FALSE
    BY DEF IInv, CountInv
  <2>2. EntryFor(c, t) = c /\ \A s \in Thread : entries[s] # c
    BY <1>1, <2>1 DEF EntryFor, IInv, CallersInv
  <2>3. ~locked[c] /\ waiters[c] = << >>
    BY <2>2 DEF IInv, ObjectsInv
  <2> QED
    BY <2>2, <2>3 DEF Enqueue, LockIsFree
<1> QED
  BY <1>2, <1>3, <1>4, <1>5 DEF Mutex!Arrive, Mutex!Absent, Busy

LEMMA ResumeRefines ==
    ASSUME IInv, IInv', NEW c \in Caller, Resume(c)
    PROVE  \E t \in Thread : Mutex!Acquire(c, t) /\ Busy' = Busy
<1>1. /\ pc[c] = "waiting" /\ future[c] = "woken" /\ pc' = [pc EXCEPT ![c] = "running"]
      /\ thread' = thread
  BY DEF Resume
<1>2. PICK t \in Thread : t = thread[c]
  BY <1>1 DEF IInv, TypeOK, CallersInv
<1>3. c \in Present(t)
  BY <1>1, <1>2 DEF Present
<1>4. Holder(t) = None
  <2>1. entry[c] = entries[t] /\ ~locked[entry[c]]
    BY <1>1, <1>2, CoordinationAssumption DEF IInv, CallersInv, FutureInv
  <2> QED
    BY <2>1, FreeIsUnheld
<1>5. \A s \in Thread : Present(s)' = Present(s)
  BY <1>1 DEF Present, IInv, TypeOK
<1>6. ASSUME NEW s \in Thread, s # t PROVE Holder(s)' = Holder(s)
  <2>1. \A d \in Caller : Runs(d, s)' <=> Runs(d, s)
    BY <1>1, <1>2, <1>6 DEF Runs, IInv, TypeOK
  <2> QED
    BY <2>1, HolderKept
<1>7. Holder(t)' = c
  <2>1. Runs(c, t)'
    BY <1>1, <1>2 DEF Runs, IInv, TypeOK
  <2> QED
    BY <2>1, HolderAfter
<1>8. Busy' = Busy
  BY <1>1 DEF Busy, IInv, TypeOK
<1>9. Mutex!Acquire(c, t)
  BY <1>3, <1>4, <1>5, <1>6, <1>7, <1>8 DEF Mutex!Acquire, Busy
<1> QED
  BY <1>8, <1>9

\* Whoever leaves, and whoever gives up waiting, departs.
LEMMA UnregisterRefines ==
    ASSUME IInv, IInv', NEW c \in Caller, pc[c] \in {"waiting", "running"}, thread[c] # None,
           Unregister(c)
    PROVE  \E t \in Thread : Mutex!Depart(c, t)
<1>1. pc' = [pc EXCEPT ![c] = "done"] /\ thread' = [thread EXCEPT ![c] = None]
  BY DEF Unregister
<1>2. PICK t \in Thread : t = thread[c]
  BY DEF IInv, TypeOK
<1>3. c \in Present(t)
  BY <1>2 DEF Present
<1>4. \A s \in Thread : Present(s)' = IF s = t THEN Present(s) \ {c} ELSE Present(s)
  BY <1>1, <1>2 DEF Present, IInv, TypeOK
<1>5. \A s \in Thread, d \in Caller : Runs(d, s)' <=> Runs(d, s) /\ d # c
  BY <1>1, CoordinationAssumption DEF Runs, IInv, TypeOK
<1>6. ASSUME NEW s \in Thread, s # t \/ Holder(s) # c PROVE Holder(s)' = Holder(s)
  <2>1. ~Runs(c, s)
    BY <1>2, <1>6, HolderRuns DEF Runs, HolderInv
  <2> QED
    BY <1>5, <2>1, HolderKept
<1>7. ASSUME Holder(t) = c PROVE Holder(t)' = None
  <2>1. \A d \in Caller : Runs(d, t) => d = c
    BY <1>7, HolderRuns DEF HolderInv
  <2> QED
    BY <1>5, <2>1, HolderAfter
<1>8. Busy' = Busy
  BY <1>1 DEF Busy, IInv, TypeOK
<1>9. Mutex!Depart(c, t)
  BY <1>3, <1>4, <1>6, <1>7, <1>8 DEF Mutex!Depart, Busy
<1> QED
  BY <1>9

LEMMA RejectBusyRefines ==
    ASSUME IInv, IInv', NEW c \in Caller, NEW t \in Thread, RejectBusy(c, t)
    PROVE  Mutex!Reject(c, t)
<1>1. /\ pc[c] = "idle" /\ pc' = [pc EXCEPT ![c] = "busy"] /\ UNCHANGED thread
      /\ c \in Clink /\ entries[t] # None
  BY DEF RejectBusy, IsBusy
<1>2. thread[c] = None
  BY <1>1 DEF IInv, CallersInv
<1>3. \A s \in Thread : Present(s)' = Present(s) /\ Holder(s)' = Holder(s)
  BY <1>1, <1>2, OutsideKeeps
<1>4. \A s \in Thread : c \notin Present(s)
  BY <1>1 DEF Present
<1>5. Present(t) # {}
  BY <1>1 DEF IInv, CountInv
<1>6. Busy' = Busy \cup {c}
  BY <1>1 DEF Busy, IInv, TypeOK
<1> QED
  BY <1>1, <1>3, <1>4, <1>5, <1>6 DEF Mutex!Reject, Mutex!Absent, Busy

\* Other steps leave the abstract lock alone.
LEMMA StutterRefines ==
    ASSUME \A t \in Thread : Present(t)' = Present(t) /\ Holder(t)' = Holder(t), Busy' = Busy
    PROVE  UNCHANGED Mutex!mutexVars
BY DEF Mutex!mutexVars, Busy

LEMMA CancelWaitingRefines ==
    ASSUME IInv, IInv', NEW c \in Caller, CancelWaiting(c)
    PROVE  UNCHANGED Mutex!mutexVars
<1>1. UNCHANGED <<pc, thread>>
  BY DEF CancelWaiting
<1>2. \A t \in Thread : Present(t)' = Present(t) /\ Holder(t)' = Holder(t)
  BY <1>1 DEF Present, Holder
<1>3. Busy' = Busy
  BY <1>1 DEF Busy
<1> QED
  BY <1>2, <1>3, StutterRefines

LEMMA UncoordinatedRefines ==
    ASSUME IInv, IInv', NEW c \in Caller, RunUncoordinated(c) \/ LeaveUncoordinated(c)
    PROVE  UNCHANGED Mutex!mutexVars
<1>1. PICK p \in {"running", "done"} : pc' = [pc EXCEPT ![c] = p]
  BY DEF RunUncoordinated, LeaveUncoordinated
<1>2. UNCHANGED thread /\ thread[c] = None /\ pc[c] # "busy"
  BY DEF RunUncoordinated, LeaveUncoordinated, IInv, CallersInv
<1>3. \A t \in Thread : Present(t)' = Present(t) /\ Holder(t)' = Holder(t)
  BY <1>1, <1>2, OutsideKeeps
<1>4. Busy' = Busy
  BY <1>1, <1>2 DEF Busy, IInv, TypeOK
<1> QED
  BY <1>3, <1>4, StutterRefines

-----------------------------------------------------------------------------

LEMMA NextRefines ==
    IInv /\ IInv' /\ [CoordinationNext]_coordinationVars => [Mutex!Next]_(Mutex!mutexVars)
<1> SUFFICES ASSUME IInv, IInv', [CoordinationNext]_coordinationVars
             PROVE  [Mutex!Next]_(Mutex!mutexVars)
  OBVIOUS
<1>1. ASSUME NEW c \in Caller, NEW t \in Thread,
             RejectBusy(c, t) \/ AcquireNow(c, t) \/ Enqueue(c, t)
      PROVE  Mutex!Next
  BY <1>1, RejectBusyRefines, AcquireNowRefines, EnqueueRefines DEF Mutex!Next
<1>2. ASSUME NEW c \in Caller, RunUncoordinated(c) \/ LeaveUncoordinated(c) \/ CancelWaiting(c)
      PROVE  UNCHANGED Mutex!mutexVars
  BY <1>2, UncoordinatedRefines, CancelWaitingRefines
<1>3. ASSUME NEW c \in Caller, Resume(c) PROVE Mutex!Next
  BY <1>3, ResumeRefines DEF Mutex!Next
<1>4. ASSUME NEW c \in Caller, Unwind(c) PROVE Mutex!Next
  <2>1. pc[c] = "waiting" /\ thread[c] # None /\ Unregister(c)
    BY <1>4 DEF Unwind, IInv, CallersInv
  <2> QED
    BY <2>1, UnregisterRefines DEF Mutex!Next
<1>5. ASSUME NEW c \in Caller, Leave(c) PROVE Mutex!Next
  <2>1. pc[c] = "running" /\ thread[c] # None /\ Unregister(c)
    BY <1>5 DEF Leave
  <2> QED
    BY <2>1, UnregisterRefines DEF Mutex!Next
<1>6. CASE UNCHANGED coordinationVars
  <2>1. \A t \in Thread : Present(t)' = Present(t) /\ Holder(t)' = Holder(t)
    BY <1>6 DEF coordinationVars, Present, Holder
  <2>2. Busy' = Busy
    BY <1>6 DEF coordinationVars, Busy
  <2> QED
    BY <2>1, <2>2, StutterRefines
<1> QED
  BY <1>1, <1>2, <1>3, <1>4, <1>5, <1>6 DEF CoordinationNext, Finish, Quiescent

\* coordinate_conversation, with its registry, its reference counts and the
\* deques of asyncio's locks, is a mutex per conversation that turns a caller
\* away only while somebody is present.
THEOREM MutexIsImplemented == CoordinationSpec => ImplementsMutex
<1>1. CoordinationSpec => []IInv
  BY Invariance
<1> QED
  BY <1>1, InitRefines, NextRefines, PTL DEF CoordinationSpec, ImplementsMutex, Mutex!Spec

-----------------------------------------------------------------------------
(* Part 2: the life of a conversation.                                     *)

(* Histories, as values. *)

Ordered(h) ==
    \A i \in DOMAIN h : h[i].role = "assistant" =>
        i > 1 /\ h[i - 1].role = "user" /\ h[i - 1].by = h[i].by

OwnStates(h) == \A i \in DOMAIN h : h[i].state # None => h[i].state = h[i].by

Sound(h) == h \in Seq(Turns) /\ Ordered(h) /\ OwnStates(h)

AwaitsReply(h, c) == Len(h) > 0 /\ h[Len(h)].role = "user" /\ h[Len(h)].by = c

LEMMA TurnsAreTurns ==
    ASSUME NEW c \in Caller \cup {Old}, NEW role \in {"user", "assistant"}
    PROVE  /\ Turn(role, c) \in Turns
           /\ Turn(role, c).role = role /\ Turn(role, c).by = c /\ Turn(role, c).state = None
BY DEF Turn, Turns

LEMMA AppendFacts ==
    ASSUME NEW S, NEW h \in Seq(S), NEW x \in S
    PROVE  /\ Append(h, x) \in Seq(S) /\ Len(Append(h, x)) = Len(h) + 1 /\ Len(h) \in Nat
           /\ DOMAIN Append(h, x) = 1 .. (Len(h) + 1) /\ DOMAIN h = 1 .. Len(h)
           /\ Append(h, x)[Len(h) + 1] = x
           /\ \A i \in 1 .. Len(h) : Append(h, x)[i] = h[i]
OBVIOUS

LEMMA InputKeeps ==
    ASSUME NEW h, Sound(h), NEW c \in Caller \cup {Old}
    PROVE  /\ Sound(Append(h, Turn("user", c))) /\ AwaitsReply(Append(h, Turn("user", c)), c)
           /\ Len(Append(h, Turn("user", c))) = Len(h) + 1
<1> DEFINE x == Turn("user", c)
           g == Append(h, x)
<1>1. x \in Turns /\ x.role = "user" /\ x.by = c /\ x.state = None
  BY TurnsAreTurns
<1>2. h \in Seq(Turns)
  BY DEF Sound
<1> HIDE DEF x
<1>3. /\ g \in Seq(Turns) /\ Len(g) = Len(h) + 1 /\ Len(h) \in Nat
      /\ DOMAIN g = 1 .. (Len(h) + 1) /\ DOMAIN h = 1 .. Len(h)
      /\ g[Len(h) + 1] = x
      /\ \A i \in 1 .. Len(h) : g[i] = h[i]
  BY <1>1, <1>2, AppendFacts
<1> HIDE DEF g
<1>4. Ordered(g)
  <2> SUFFICES ASSUME NEW i \in DOMAIN g, g[i].role = "assistant"
               PROVE  i > 1 /\ g[i - 1].role = "user" /\ g[i - 1].by = g[i].by
    BY DEF Ordered
  <2>1. i \in 1 .. Len(h)
    BY <1>1, <1>3
  <2>2. i > 1 /\ h[i - 1].role = "user" /\ h[i - 1].by = h[i].by
    BY <1>3, <2>1 DEF Sound, Ordered
  <2> QED  BY <1>3, <2>1, <2>2
<1>5. OwnStates(g)
  BY <1>1, <1>3 DEF Sound, OwnStates
<1>6. AwaitsReply(g, c)
  BY <1>1, <1>3 DEF AwaitsReply
<1> QED  BY <1>3, <1>4, <1>5, <1>6 DEF Sound, g, x

LEMMA ReplyKeeps ==
    ASSUME NEW h, Sound(h), NEW c \in Caller \cup {Old}, AwaitsReply(h, c)
    PROVE  /\ Sound(Append(h, Turn("assistant", c)))
           /\ Len(Append(h, Turn("assistant", c))) = Len(h) + 1
<1> DEFINE x == Turn("assistant", c)
           g == Append(h, x)
<1>1. x \in Turns /\ x.role = "assistant" /\ x.by = c /\ x.state = None
  BY TurnsAreTurns
<1>2. h \in Seq(Turns)
  BY DEF Sound
<1> HIDE DEF x
<1>3. /\ g \in Seq(Turns) /\ Len(g) = Len(h) + 1 /\ Len(h) \in Nat
      /\ DOMAIN g = 1 .. (Len(h) + 1) /\ DOMAIN h = 1 .. Len(h)
      /\ g[Len(h) + 1] = x
      /\ \A i \in 1 .. Len(h) : g[i] = h[i]
  BY <1>1, <1>2, AppendFacts
<1> HIDE DEF g
<1>4. Ordered(g)
  <2> SUFFICES ASSUME NEW i \in DOMAIN g, g[i].role = "assistant"
               PROVE  i > 1 /\ g[i - 1].role = "user" /\ g[i - 1].by = g[i].by
    BY DEF Ordered
  <2>1. CASE i \in 1 .. Len(h)
    <3>1. i > 1 /\ h[i - 1].role = "user" /\ h[i - 1].by = h[i].by
      BY <1>3, <2>1 DEF Sound, Ordered
    <3> QED  BY <1>3, <2>1, <3>1
  <2>2. CASE i = Len(h) + 1
    <3>1. Len(h) \in 1 .. Len(h) /\ i - 1 = Len(h) /\ i > 1
      BY <1>3, <2>2 DEF AwaitsReply
    <3> QED  BY <1>1, <1>3, <2>2, <3>1 DEF AwaitsReply
  <2> QED  BY <1>3, <2>1, <2>2
<1>5. OwnStates(g)
  BY <1>1, <1>3 DEF Sound, OwnStates
<1> QED  BY <1>3, <1>4, <1>5 DEF Sound, g, x

LEMMA MarkKeeps ==
    ASSUME NEW h, Sound(h), NEW c \in Caller, AwaitsReply(h, c)
    PROVE  /\ Sound([h EXCEPT ![Len(h)].state = c])
           /\ Len([h EXCEPT ![Len(h)].state = c]) = Len(h)
<1> DEFINE n == Len(h)
           x == [h[n] EXCEPT !.state = c]
           g == [h EXCEPT ![n] = x]
<1>1. h \in Seq(Turns) /\ n \in Nat /\ DOMAIN h = 1 .. n /\ n \in DOMAIN h
  BY DEF Sound, AwaitsReply
<1>2. h[n] \in Turns
  BY <1>1
<1>3. x \in Turns /\ x.role = "user" /\ x.by = c /\ x.state = c
  BY <1>2 DEF Turns, AwaitsReply
<1> HIDE DEF x
<1>4. /\ g \in Seq(Turns) /\ Len(g) = n /\ DOMAIN g = 1 .. n /\ g[n] = x
      /\ \A i \in 1 .. n : i # n => g[i] = h[i]
  BY <1>1, <1>3
<1> HIDE DEF g
<1>5. Ordered(g)
  <2> SUFFICES ASSUME NEW i \in DOMAIN g, g[i].role = "assistant"
               PROVE  i > 1 /\ g[i - 1].role = "user" /\ g[i - 1].by = g[i].by
    BY DEF Ordered
  <2>1. i # n /\ i \in 1 .. n
    BY <1>3, <1>4
  <2>2. i > 1 /\ h[i - 1].role = "user" /\ h[i - 1].by = h[i].by
    BY <1>1, <1>4, <2>1 DEF Sound, Ordered
  <2>3. i - 1 \in 1 .. n /\ i - 1 # n
    BY <1>1, <2>1, <2>2
  <2> QED  BY <1>4, <2>1, <2>2, <2>3
<1>6. OwnStates(g)
  BY <1>1, <1>3, <1>4 DEF Sound, OwnStates
<1> QED  BY <1>4, <1>5, <1>6 DEF Sound, g, x, n

LEMMA ExchangeKeeps ==
    ASSUME NEW h, Sound(h), NEW c \in Caller
    PROVE  Sound(h \o Exchange(c)) /\ Len(h \o Exchange(c)) = Len(h) + 2
<1> DEFINE x == Turn("user", c)
           y == Turn("assistant", c)
<1>1. x \in Turns /\ y \in Turns /\ h \in Seq(Turns) /\ Len(h) \in Nat
  BY TurnsAreTurns DEF Sound
<1>2. Sound(Append(h, x)) /\ AwaitsReply(Append(h, x), c) /\ Len(Append(h, x)) = Len(h) + 1
  BY InputKeeps
<1>3. /\ Sound(Append(Append(h, x), y))
      /\ Len(Append(Append(h, x), y)) = Len(Append(h, x)) + 1
  BY <1>2, ReplyKeeps
<1> HIDE DEF x, y
<1>4. h \o <<x, y>> = Append(Append(h, x), y)
  BY <1>1
<1>5. Exchange(c) = <<x, y>>
  BY DEF Exchange, x, y
<1>6. h \o Exchange(c) = Append(Append(h, x), y)
  BY <1>4, <1>5, Zenon
<1>7. Len(Append(Append(h, x), y)) = Len(h) + 2
  BY <1>1, <1>2, <1>3
<1> QED  BY <1>3, <1>6, <1>7, Zenon

LEMMA EmptyIsSound == Sound(<< >>) /\ Len(<< >>) = 0
BY DEF Sound, Ordered, OwnStates

LEMMA PastIsSound == \A h \in PastThreads : Sound(h)
<1> DEFINE x == Turn("user", Old)
           y == Turn("assistant", Old)
<1>1. /\ x \in Turns /\ x.role = "user" /\ x.by = Old /\ x.state = None
      /\ y \in Turns /\ y.role = "assistant" /\ y.by = Old /\ y.state = None
  BY TurnsAreTurns
<1> HIDE DEF x, y
<1>2. <<x>> \in Seq(Turns) /\ <<x, y>> \in Seq(Turns) /\ <<x, y, x>> \in Seq(Turns)
  BY <1>1
<1>3. Sound(<<x>>)
  BY <1>1, <1>2 DEF Sound, Ordered, OwnStates
<1>4. Sound(<<x, y>>)
  BY <1>1, <1>2 DEF Sound, Ordered, OwnStates
<1>5. Sound(<<x, y, x>>)
  BY <1>1, <1>2 DEF Sound, Ordered, OwnStates
<1>6. PastThreads = {<<x>>, <<x, y>>, <<x, y, x>>}
  BY DEF PastThreads, x, y
<1> QED  BY <1>3, <1>4, <1>5, <1>6

-----------------------------------------------------------------------------
(* The invariant. *)

Histories == Seq(Turns) \cup {None}

Kinds == {"refused", "replied", "unsaved", "failed", "cancelled"}

LifecycleTypes ==
    /\ memory \in [Thread -> Histories]
    /\ issued \subseteq Thread /\ known \subseteq issued
    /\ body \in [Caller -> {"start", "asking", "ended"}]
    /\ target \in [Caller -> Thread \cup {None}]
    /\ free \in [Caller -> Nat]
    /\ snapshot \in [Caller -> Histories]
    /\ DOMAIN result = Caller /\ result = [c \in Caller |-> result[c]]

\* Who asks, and where: coordinated on an id, or alone with an id nobody knows.
Placed ==
    /\ \A c \in Caller : body[c] = "asking" => pc[c] = "running"
    /\ \A c \in Caller : thread[c] # None => thread[c] \in known
    /\ \A c \in Caller : body[c] = "start" => snapshot[c] = None
    /\ \A c \in Caller : Asking(c) =>
          /\ target[c] \in issued
          /\ thread[c] # None => target[c] = thread[c]
          /\ thread[c] = None => target[c] \notin known

StoredFits ==
    /\ \A t \in Thread : t \notin issued => memory[t] = None
    /\ \A t \in Thread : memory[t] # None => Sound(memory[t])

\* What a request that awaits its provider or its CLI relies on.
AskingFits(c) ==
    Asking(c) =>
        /\ c \notin Clink =>
              /\ free[c] >= 2
              /\ memory[target[c]] # None =>
                    /\ AwaitsReply(memory[target[c]], c)
                    /\ free[c] = MaxTurns - Len(memory[target[c]]) + 1
        /\ c \in Clink =>
              /\ memory[target[c]] # None => memory[target[c]] = snapshot[c]
              /\ Len(Base(c)) + 2 <= MaxTurns

LInv ==
    /\ IInv
    /\ LifecycleTypes /\ Placed /\ StoredFits /\ UpdatesAreSerialized
    /\ \A c \in Caller : AskingFits(c)

LEMMA LifecycleInitEstablishes == LifecycleInit => LInv
<1> SUFFICES ASSUME LifecycleInit PROVE LInv
  OBVIOUS
<1> USE DEF LifecycleInit
<1>1. IInv
  BY InitIInv
<1>2. \A t \in Thread : memory[t] # None => memory[t] \in PastThreads
  OBVIOUS
<1>3. memory \in [Thread -> PastThreads \cup {None}]
  OBVIOUS
<1>4. PastThreads \subseteq Seq(Turns)
  BY PastIsSound DEF Sound
<1>5. LifecycleTypes
  <2>1. memory \in [Thread -> Histories]
    BY <1>3, <1>4 DEF Histories
  <2> QED  BY <2>1, LifecycleAssumption DEF LifecycleTypes, Histories
<1>6. \A c \in Caller : thread[c] = None /\ ~Asking(c)
  BY DEF CoordinationInit, Asking
<1>7. Placed /\ UpdatesAreSerialized /\ \A c \in Caller : AskingFits(c)
  BY <1>6 DEF Placed, UpdatesAreSerialized, AskingFits
<1>8. StoredFits
  BY <1>2, PastIsSound DEF StoredFits
<1> QED  BY <1>1, <1>5, <1>7, <1>8 DEF LInv

-----------------------------------------------------------------------------
(* Steps. *)

\* Nobody else asks on a thread that c runs on or on an id that is not yet known.
LEMMA AloneOnThread ==
    ASSUME LInv, NEW c \in Caller, NEW t \in Thread,
           \/ pc[c] = "running" /\ thread[c] = t
           \/ t \notin issued
           \/ Asking(c) /\ target[c] = t
    PROVE  \A d \in Caller \ {c} : Asking(d) => target[d] # t
<1> SUFFICES ASSUME NEW d \in Caller \ {c}, Asking(d), target[d] = t PROVE FALSE
  OBVIOUS
<1>1. CASE pc[c] = "running" /\ thread[c] = t
  <2>1. t # None /\ t \in known
    BY <1>1, CoordinationAssumption DEF LInv, Placed
  <2>2. thread[d] = t /\ pc[d] = "running"
    BY <2>1 DEF LInv, Placed, Asking
  <2>3. entries[t] # None
    BY <1>1, <2>1, CoordinationAssumption DEF LInv, IInv, CallersInv
  <2>4. c \in Present(t) /\ d \in Present(t)
    BY <1>1, <2>2 DEF Present
  <2> QED  BY <1>1, <2>2, <2>3, <2>4 DEF LInv, IInv, LockInv
<1>2. CASE t \notin issued
  BY <1>2 DEF LInv, Placed
<1>3. CASE Asking(c) /\ target[c] = t
  BY <1>3 DEF LInv, UpdatesAreSerialized
<1> QED  BY <1>1, <1>2, <1>3

\* A step of c on thread t leaves those alone who ask on other threads.
LEMMA OthersKeep ==
    ASSUME LInv, NEW c \in Caller, NEW t \in Thread,
           \A d \in Caller \ {c} : Asking(d) => target[d] # t,
           \A s \in Thread \ {t} : memory'[s] = memory[s],
           \A d \in Caller \ {c} : /\ body'[d] = body[d] /\ target'[d] = target[d]
                                   /\ free'[d] = free[d] /\ snapshot'[d] = snapshot[d],
           UNCHANGED coordinationVars
    PROVE  \A d \in Caller \ {c} : (Asking(d)' <=> Asking(d)) /\ AskingFits(d)'
<1> SUFFICES ASSUME NEW d \in Caller \ {c}
             PROVE  (Asking(d)' <=> Asking(d)) /\ AskingFits(d)'
  OBVIOUS
<1>1. Asking(d)' <=> Asking(d)
  BY DEF Asking, coordinationVars
<1>2. AskingFits(d) /\ (Asking(d) => target[d] \in Thread)
  BY DEF LInv, Placed, LifecycleTypes
<1>3. Asking(d) => memory'[target'[d]] = memory[target[d]]
  BY <1>2
<1>4. Base(d)' = Base(d)
  BY DEF Base
<1> QED  BY <1>1, <1>2, <1>3, <1>4 DEF AskingFits

LEMMA CoordinationKept == LInv /\ UNCHANGED coordinationVars => IInv'
BY NextIInv DEF LInv

\* The body of c ends, with or without a last write to its thread.
LEMMA EndKeeps ==
    ASSUME LInv, NEW c \in Caller, NEW answer,
           pc[c] = "running",
           End(c, answer),
           \/ known' = known
           \/ Asking(c) /\ known' = known \cup {target[c]},
           \/ memory' = memory
           \/ Asking(c) /\ \E h : Sound(h) /\ memory' = [memory EXCEPT ![target[c]] = h],
           UNCHANGED <<coordinationVars, issued, target, free, snapshot>>
    PROVE  LInv'
<1>1. IInv'
  BY CoordinationKept
<1>2. LifecycleTypes /\ Placed /\ StoredFits /\ UpdatesAreSerialized
  BY DEF LInv
<1>3. Asking(c) => target[c] \in issued /\ target[c] \in Thread
  BY <1>2 DEF Placed, LifecycleTypes
<1>4. LifecycleTypes'
  <2>1. memory' \in [Thread -> Histories]
    BY <1>2, <1>3 DEF LifecycleTypes, Sound, Histories
  <2> QED  BY <1>2, <1>3, <2>1 DEF LifecycleTypes, End
<1>5. ~Asking(c)' /\ \A d \in Caller \ {c} : body'[d] = body[d]
  BY <1>2 DEF End, LifecycleTypes, Asking
<1>6. \A d \in Caller \ {c} : (Asking(d)' <=> Asking(d)) /\ AskingFits(d)'
  <2>1. CASE Asking(c)
    <3>1. \A d \in Caller \ {c} : Asking(d) => target[d] # target[c]
      BY <1>3, <2>1, AloneOnThread
    <3>2. \A s \in Thread \ {target[c]} : memory'[s] = memory[s]
      BY <1>2 DEF LifecycleTypes
    <3> QED  BY <1>3, <1>5, <2>1, <3>1, <3>2, OthersKeep
  <2>2. CASE ~Asking(c)
    <3>1. memory' = memory
      BY <2>2
    <3>2. ASSUME NEW d \in Caller \ {c}
          PROVE  (Asking(d)' <=> Asking(d)) /\ AskingFits(d)'
      <4>1. Asking(d)' <=> Asking(d)
        BY <1>5 DEF Asking, coordinationVars
      <4>2. AskingFits(d) /\ Base(d)' = Base(d)
        BY DEF LInv, Base
      <4> QED  BY <3>1, <4>1, <4>2 DEF AskingFits
    <3> QED  BY <3>2
  <2> QED  BY <2>1, <2>2
<1>7. \A d \in Caller : AskingFits(d)'
  BY <1>5, <1>6 DEF AskingFits
<1>8. Placed'
  <2>1. \A d \in Caller : body'[d] = "asking" => pc'[d] = "running"
    BY <1>2, <1>5 DEF Placed, End, LifecycleTypes, coordinationVars
  <2>2. /\ \A d \in Caller : thread'[d] # None => thread'[d] \in known'
        /\ \A d \in Caller : body'[d] = "start" => snapshot'[d] = None
    BY <1>2, <1>5 DEF Placed, coordinationVars, End, LifecycleTypes
  <2>3. ASSUME NEW d \in Caller, Asking(d)'
        PROVE  /\ target'[d] \in issued'
               /\ thread'[d] # None => target'[d] = thread'[d]
               /\ thread'[d] = None => target'[d] \notin known'
    <3>1. d # c /\ Asking(d)
      BY <1>5, <1>6, <2>3
    <3>2. /\ target[d] \in issued
          /\ thread[d] # None => target[d] = thread[d]
          /\ thread[d] = None => target[d] \notin known
      BY <1>2, <3>1 DEF Placed
    <3>3. Asking(c) => target[d] # target[c]
      BY <1>2, <3>1 DEF UpdatesAreSerialized
    <3> QED  BY <3>2, <3>3 DEF coordinationVars
  <2> QED  BY <2>1, <2>2, <2>3 DEF Placed
<1>9. StoredFits'
  BY <1>2, <1>3 DEF StoredFits, LifecycleTypes
<1>10. UpdatesAreSerialized'
  BY <1>2, <1>5, <1>6 DEF UpdatesAreSerialized
<1> QED  BY <1>1, <1>4, <1>7, <1>8, <1>9, <1>10 DEF LInv

\* The body of c begins to ask, on the thread it is coordinated on or on a new one.
LEMMA BeginKeeps ==
    ASSUME LInv, NEW c \in Caller, NEW t \in Thread,
           pc[c] = "running",
           \/ thread[c] = t
           \/ thread[c] = None /\ t \notin issued,
           body' = [body EXCEPT ![c] = "asking"],
           target' = [target EXCEPT ![c] = t],
           issued' = issued \cup {t}, known' = known,
           \A d \in Caller \ {c} : free'[d] = free[d] /\ snapshot'[d] = snapshot[d],
           free' \in [Caller -> Nat], snapshot' \in [Caller -> Histories],
           \/ /\ c \notin Clink /\ free'[c] >= 2
              /\ \E h : /\ Sound(h) /\ AwaitsReply(h, c) /\ free'[c] = MaxTurns - Len(h) + 1
                       /\ memory' = [memory EXCEPT ![t] = h]
           \/ /\ c \in Clink /\ memory' = memory /\ snapshot'[c] = memory[t]
              /\ Len(IF memory[t] = None THEN << >> ELSE memory[t]) + 2 <= MaxTurns,
           UNCHANGED <<coordinationVars, result>>
    PROVE  LInv'
<1>1. IInv'
  BY CoordinationKept
<1>2. LifecycleTypes /\ Placed /\ StoredFits /\ UpdatesAreSerialized
  BY DEF LInv
<1>3. t # None
  BY CoordinationAssumption
<1>4. LifecycleTypes'
  <2>1. memory' \in [Thread -> Histories]
    BY <1>2 DEF LifecycleTypes, Sound, Histories
  <2> QED  BY <1>2, <2>1 DEF LifecycleTypes
<1>5. \A d \in Caller \ {c} : Asking(d) => target[d] # t
  BY AloneOnThread
<1>6. /\ body'[c] = "asking" /\ target'[c] = t
      /\ \A d \in Caller \ {c} : body'[d] = body[d] /\ target'[d] = target[d]
  BY <1>2 DEF LifecycleTypes
<1>7. \A s \in Thread \ {t} : memory'[s] = memory[s]
  BY <1>2 DEF LifecycleTypes
<1>8. \A d \in Caller \ {c} : (Asking(d)' <=> Asking(d)) /\ AskingFits(d)'
  BY <1>5, <1>6, <1>7, OthersKeep
<1>9. AskingFits(c)'
  <2>1. CASE c \notin Clink
    <3>1. PICK h : /\ AwaitsReply(h, c) /\ free'[c] = MaxTurns - Len(h) + 1
                   /\ memory' = [memory EXCEPT ![t] = h]
      BY <2>1
    <3>2. memory'[target'[c]] = h /\ free'[c] >= 2
      BY <1>2, <1>6, <2>1, <3>1 DEF LifecycleTypes
    <3> QED  BY <2>1, <3>1, <3>2 DEF AskingFits, AwaitsReply
  <2>2. CASE c \in Clink
    <3>1. memory'[target'[c]] = snapshot'[c]
      BY <1>6, <2>2
    <3>2. Len(Base(c)') + 2 <= MaxTurns
      BY <2>2 DEF Base
    <3> QED  BY <2>2, <3>1, <3>2 DEF AskingFits
  <2> QED  BY <2>1, <2>2
<1>10. Placed'
  <2>1. \A d \in Caller : body'[d] = "asking" => pc'[d] = "running"
    BY <1>2, <1>6 DEF Placed, coordinationVars
  <2>2. /\ \A d \in Caller : thread'[d] # None => thread'[d] \in known'
        /\ \A d \in Caller : body'[d] = "start" => snapshot'[d] = None
    BY <1>2, <1>6 DEF Placed, coordinationVars
  <2>3. thread[c] = None => t \notin known
    BY <1>2, <1>3 DEF LifecycleTypes
  <2>4. \A d \in Caller : Asking(d)' =>
             /\ target'[d] \in issued'
             /\ thread'[d] # None => target'[d] = thread'[d]
             /\ thread'[d] = None => target'[d] \notin known'
    BY <1>2, <1>6, <1>8, <2>3 DEF Placed, coordinationVars
  <2> QED  BY <2>1, <2>2, <2>4 DEF Placed
<1>11. StoredFits'
  BY <1>2 DEF StoredFits, LifecycleTypes
<1>12. UpdatesAreSerialized'
  BY <1>2, <1>5, <1>6, <1>8 DEF UpdatesAreSerialized
<1> QED  BY <1>1, <1>4, <1>8, <1>9, <1>10, <1>11, <1>12 DEF LInv

\* A request that asks for the reply to its input: what it finds in its thread.
LEMMA AskerFinds ==
    ASSUME LInv, NEW c \in Caller, Executing(c, "asking")
    PROVE  /\ Asking(c) /\ target[c] \in Thread /\ MaxTurns \in Nat
           /\ c \notin Clink => free[c] \in Nat /\ free[c] >= 2
           /\ memory[target[c]] # None =>
                 /\ Sound(memory[target[c]])
                 /\ Len(memory[target[c]]) \in Nat
                 /\ c \notin Clink =>
                       /\ AwaitsReply(memory[target[c]], c)
                       /\ free[c] = MaxTurns - Len(memory[target[c]]) + 1
<1>1. Asking(c) /\ AskingFits(c)
  BY DEF LInv, Executing, Asking
<1>2. target[c] \in Thread /\ free[c] \in Nat
  BY <1>1 DEF LInv, Placed, LifecycleTypes
<1>3. memory[target[c]] # None => Sound(memory[target[c]]) /\ Len(memory[target[c]]) \in Nat
  BY <1>2 DEF LInv, StoredFits, Sound
<1> QED  BY <1>1, <1>2, <1>3, LifecycleAssumption DEF AskingFits

LEMMA ReplyStep ==
    ASSUME LInv, NEW c \in Caller, SaveReply(c) \/ SaveErrorReply(c),
           UNCHANGED coordinationVars
    PROVE  LInv'
<1> DEFINE t == target[c]
           h == Append(memory[t], Turn("assistant", c))
<1>1. /\ Executing(c, "asking") /\ c \notin Clink /\ memory[t] # None
      /\ memory' = [memory EXCEPT ![t] = h]
      /\ known' = known \cup {t}
      /\ \E answer : End(c, answer)
      /\ UNCHANGED <<issued, target, free, snapshot>>
  BY LifecycleAssumption DEF SaveReply, SaveErrorReply, Save
<1>2. Asking(c) /\ Sound(memory[t]) /\ AwaitsReply(memory[t], c)
  BY <1>1, AskerFinds
<1>3. Sound(h)
  BY <1>2, ReplyKeeps
<1>4. pc[c] = "running"
  BY <1>1 DEF Executing
<1> HIDE DEF h
<1> QED  BY <1>1, <1>2, <1>3, <1>4, EndKeeps

LEMMA MarkStep ==
    ASSUME LInv, NEW c \in Caller, SaveFailedState(c), UNCHANGED coordinationVars
    PROVE  LInv'
<1> DEFINE t == target[c]
           h == [memory[t] EXCEPT ![Len(memory[t])].state = c]
<1>1. /\ Executing(c, "asking") /\ c \notin Clink /\ memory[t] # None
      /\ memory' = [memory EXCEPT ![t] = h]
      /\ known' = known \cup {t}
      /\ \E answer : End(c, answer)
      /\ UNCHANGED <<issued, target, free, snapshot>>
  BY LifecycleAssumption DEF SaveFailedState, Save
<1>2. Asking(c) /\ Sound(memory[t]) /\ AwaitsReply(memory[t], c)
  BY <1>1, AskerFinds
<1>3. Sound(h)
  BY <1>2, MarkKeeps
<1>4. pc[c] = "running"
  BY <1>1 DEF Executing
<1> HIDE DEF h
<1> QED  BY <1>1, <1>2, <1>3, <1>4, EndKeeps

LEMMA CommitStep ==
    ASSUME LInv, NEW c \in Caller, Commit(c), UNCHANGED coordinationVars
    PROVE  LInv'
<1> DEFINE t == target[c]
           h == Base(c) \o Exchange(c)
<1>1. /\ Executing(c, "asking") /\ memory[t] = snapshot[c]
      /\ memory' = [memory EXCEPT ![t] = h]
      /\ known' = known \cup {t}
      /\ \E answer : End(c, answer)
      /\ UNCHANGED <<issued, target, free, snapshot>>
  BY DEF Commit, Replace, Save
<1>2. Asking(c) /\ (memory[t] # None => Sound(memory[t]))
  BY <1>1, AskerFinds
<1>3. Sound(h)
  BY <1>1, <1>2, EmptyIsSound, ExchangeKeeps DEF Base
<1>4. pc[c] = "running"
  BY <1>1 DEF Executing
<1> HIDE DEF h
<1> QED  BY <1>1, <1>2, <1>3, <1>4, EndKeeps

\* The endings that write nothing.
LEMMA QuietEndStep ==
    ASSUME LInv, NEW c \in Caller, UNCHANGED coordinationVars,
           \/ Refuse(c) \/ Unavailable(c) \/ ReplyUnsaved(c) \/ FailUnrecorded(c)
           \/ CommitConflict(c) \/ CLIFails(c) \/ Abandon(c)
    PROVE  LInv'
<1>1. /\ pc[c] = "running"
      /\ \E answer : End(c, answer)
      /\ UNCHANGED <<memory, issued, target, free, snapshot>>
  BY DEF Refuse, Unavailable, ReplyUnsaved, FailUnrecorded, CommitConflict, CLIFails, Abandon,
         Executing, Conflict
<1>2. \/ known' = known
      \/ Asking(c) /\ known' = known \cup {target[c]}
  BY DEF Refuse, Unavailable, ReplyUnsaved, FailUnrecorded, CommitConflict, CLIFails, Abandon,
         Executing, Asking
<1> QED  BY <1>1, <1>2, EndKeeps

LEMMA AdmitStep ==
    ASSUME LInv, NEW c \in Caller, Admit(c), UNCHANGED coordinationVars
    PROVE  LInv'
<1> DEFINE t == thread[c]
           h == Append(memory[t], Turn("user", c))
<1>1. /\ pc[c] = "running" /\ c \notin Clink /\ t # None /\ memory[t] # None
      /\ MaxTurns - Len(memory[t]) >= 2
      /\ free' = [free EXCEPT ![c] = MaxTurns - Len(memory[t])]
      /\ memory' = [memory EXCEPT ![t] = h]
      /\ body' = [body EXCEPT ![c] = "asking"]
      /\ target' = [target EXCEPT ![c] = t]
      /\ UNCHANGED <<issued, known, snapshot, result>>
  BY DEF Admit, HasRoom, Save, Executing
<1>2. t \in Thread /\ issued' = issued \cup {t}
  BY <1>1 DEF LInv, IInv, TypeOK, Placed, LifecycleTypes
<1>3. Sound(memory[t]) /\ Len(memory[t]) \in Nat
  BY <1>1, <1>2 DEF LInv, StoredFits, Sound
<1>4. Sound(h) /\ AwaitsReply(h, c) /\ Len(h) = Len(memory[t]) + 1
  BY <1>3, InputKeeps
<1> HIDE DEF h
<1>5. /\ free'[c] = MaxTurns - Len(memory[t]) /\ free'[c] \in Nat
      /\ free' \in [Caller -> Nat] /\ \A d \in Caller \ {c} : free'[d] = free[d]
      /\ snapshot' \in [Caller -> Histories]
      /\ memory'[t] = h /\ target'[c] = t
  BY <1>1, <1>2, <1>3, LifecycleAssumption DEF LInv, LifecycleTypes
<1>6. free'[c] >= 2 /\ free'[c] = MaxTurns - Len(h) + 1
  BY <1>1, <1>3, <1>4, <1>5, LifecycleAssumption
<1> QED  BY <1>1, <1>2, <1>4, <1>5, <1>6, BeginKeeps

LEMMA AdmitNewStep ==
    ASSUME LInv, NEW c \in Caller, NEW t \in Thread, AdmitNew(c, t), UNCHANGED coordinationVars,
           ~ListedThreads
    PROVE  LInv'
<1> DEFINE h == Append(<< >>, Turn("user", c))
<1>1. h = <<Turn("user", c)>>
  <2>1. Turn("user", c) \in Turns
    BY TurnsAreTurns
  <2> QED  BY <2>1
<1>2. /\ pc[c] = "running" /\ c \notin Clink /\ thread[c] = None /\ t \notin issued
      /\ MaxTurns >= 2
      /\ free' = [free EXCEPT ![c] = MaxTurns]
      /\ memory' = [memory EXCEPT ![t] = <<Turn("user", c)>>]
      /\ body' = [body EXCEPT ![c] = "asking"]
      /\ target' = [target EXCEPT ![c] = t]
      /\ issued' = issued \cup {t} /\ known' = known
      /\ UNCHANGED <<snapshot, result>>
  BY DEF AdmitNew, Create, FreshThread, Save, Executing
<1>3. Sound(h) /\ AwaitsReply(h, c) /\ Len(h) = 1
  <2>1. Sound(h) /\ AwaitsReply(h, c) /\ Len(h) = Len(<< >>) + 1
    BY EmptyIsSound, InputKeeps
  <2> QED  BY <2>1, EmptyIsSound
<1>4. memory' = [memory EXCEPT ![t] = h]
  BY <1>1, <1>2
<1> HIDE DEF h
<1>5. /\ free'[c] = MaxTurns
      /\ free' \in [Caller -> Nat] /\ \A d \in Caller \ {c} : free'[d] = free[d]
      /\ snapshot' \in [Caller -> Histories]
      /\ memory'[t] = h /\ target'[c] = t
  BY <1>2, <1>4, LifecycleAssumption DEF LInv, LifecycleTypes
<1>6. free'[c] >= 2 /\ free'[c] = MaxTurns - Len(h) + 1
  BY <1>2, <1>3, <1>5, LifecycleAssumption
<1> QED  BY <1>2, <1>3, <1>4, <1>5, <1>6, BeginKeeps

LEMMA LoadStep ==
    ASSUME LInv, NEW c \in Caller, Load(c), UNCHANGED coordinationVars
    PROVE  LInv'
<1> DEFINE t == thread[c]
<1>1. /\ pc[c] = "running" /\ c \in Clink /\ t # None /\ memory[t] # None
      /\ MaxTurns - Len(memory[t]) >= 2
      /\ snapshot' = [snapshot EXCEPT ![c] = memory[t]]
      /\ body' = [body EXCEPT ![c] = "asking"]
      /\ target' = [target EXCEPT ![c] = t]
      /\ UNCHANGED <<memory, issued, known, free, result>>
  BY DEF Load, HasRoom, Executing
<1>2. t \in Thread /\ issued' = issued \cup {t}
  BY <1>1 DEF LInv, IInv, TypeOK, Placed, LifecycleTypes
<1>3. /\ snapshot'[c] = memory[t] /\ target'[c] = t
      /\ \A d \in Caller \ {c} : snapshot'[d] = snapshot[d]
      /\ snapshot' \in [Caller -> Histories] /\ free' \in [Caller -> Nat]
      /\ Len(memory[t]) \in Nat
  BY <1>1, <1>2 DEF LInv, LifecycleTypes, StoredFits, Sound
<1>4. Len(IF memory[t] = None THEN << >> ELSE memory[t]) + 2 <= MaxTurns
  BY <1>1, <1>3, LifecycleAssumption
<1> QED  BY <1>1, <1>2, <1>3, <1>4, BeginKeeps

LEMMA LoadNewStep ==
    ASSUME LInv, NEW c \in Caller, NEW t \in Thread, LoadNew(c, t), UNCHANGED coordinationVars
    PROVE  LInv'
<1>1. /\ pc[c] = "running" /\ body[c] = "start" /\ c \in Clink /\ thread[c] = None
      /\ t \notin issued /\ MaxTurns >= 2
      /\ body' = [body EXCEPT ![c] = "asking"]
      /\ target' = [target EXCEPT ![c] = t]
      /\ issued' = issued \cup {t}
      /\ UNCHANGED <<memory, known, free, snapshot, result>>
  BY DEF LoadNew, FreshThread, Executing
<1>2. snapshot[c] = None /\ memory[t] = None
  BY <1>1 DEF LInv, StoredFits, Placed
<1>3. target'[c] = t /\ free' \in [Caller -> Nat] /\ snapshot' \in [Caller -> Histories]
  BY <1>1 DEF LInv, LifecycleTypes
<1>4. Len(IF memory[t] = None THEN << >> ELSE memory[t]) + 2 <= MaxTurns
  BY <1>1, <1>2, LifecycleAssumption, EmptyIsSound
<1> QED  BY <1>1, <1>2, <1>3, <1>4, BeginKeeps

LEMMA ExpireStep ==
    ASSUME LInv, NEW t \in Thread, Expire(t), UNCHANGED coordinationVars
    PROVE  LInv'
<1>1. IInv'
  BY CoordinationKept
<1>2. /\ memory' = [memory EXCEPT ![t] = None]
      /\ UNCHANGED <<issued, known, body, target, free, snapshot, result>>
  BY DEF Expire, Save
<1>3. LifecycleTypes /\ Placed /\ StoredFits /\ UpdatesAreSerialized
  BY DEF LInv
<1>4. LifecycleTypes'
  <2>1. memory' \in [Thread -> Histories]
    BY <1>2, <1>3 DEF LifecycleTypes, Histories
  <2> QED  BY <1>2, <1>3, <2>1 DEF LifecycleTypes
<1>5. \A c \in Caller : Asking(c)' <=> Asking(c)
  BY <1>2 DEF Asking, coordinationVars
<1>6. Placed' /\ UpdatesAreSerialized'
  BY <1>2, <1>3, <1>5 DEF Placed, UpdatesAreSerialized, coordinationVars
<1>7. StoredFits'
  BY <1>2, <1>3 DEF StoredFits, LifecycleTypes
<1>8. ASSUME NEW c \in Caller PROVE AskingFits(c)'
  <2>1. AskingFits(c) /\ (Asking(c) => target[c] \in Thread) /\ Base(c)' = Base(c)
    BY <1>2, <1>3 DEF LInv, Placed, LifecycleTypes, Base
  <2>2. Asking(c) => memory'[target[c]] \in {memory[target[c]], None}
    BY <1>2, <1>3, <2>1 DEF LifecycleTypes
  <2> QED  BY <1>2, <1>5, <2>1, <2>2 DEF AskingFits
<1> QED  BY <1>1, <1>4, <1>6, <1>7, <1>8 DEF LInv

\* The coordinator moves nobody who asks, and gives out ids that are known.
LEMMA CoordinationMoves ==
    ASSUME LInv, NEW c \in Caller, CoordinationStep(c)
    PROVE  /\ CoordinationNext
           /\ \A d \in Caller : body[d] = "asking" => pc'[d] = pc[d] /\ thread'[d] = thread[d]
           /\ \A d \in Caller : thread'[d] # None => thread'[d] \in known
<1>1. TypeOK /\ CallersInv /\ Placed /\ known \subseteq Thread
  BY DEF LInv, IInv, LifecycleTypes
<1>2. CoordinationNext
  BY <1>1 DEF CoordinationStep, CoordinationNext
<1>3. ASSUME NEW t \in known, RejectBusy(c, t) \/ AcquireNow(c, t) \/ Enqueue(c, t)
      PROVE  /\ pc[c] = "idle" /\ \A d \in Caller \ {c} : pc'[d] = pc[d] /\ thread'[d] = thread[d]
             /\ thread'[c] \in {thread[c], t}
  BY <1>1, <1>3 DEF RejectBusy, AcquireNow, Enqueue, Register, TypeOK
<1>4. ASSUME RunUncoordinated(c) \/ Resume(c) \/ CancelWaiting(c)
      PROVE  /\ pc[c] \in {"idle", "waiting"}
             /\ \A d \in Caller \ {c} : pc'[d] = pc[d] /\ thread'[d] = thread[d]
             /\ thread'[c] = thread[c]
  BY <1>1, <1>4 DEF RunUncoordinated, Resume, CancelWaiting, TypeOK
<1>5. ASSUME Unwind(c) \/ (body[c] = "ended" /\ Finish(c))
      PROVE  /\ pc[c] = "waiting" \/ body[c] = "ended"
             /\ \A d \in Caller \ {c} : pc'[d] = pc[d] /\ thread'[d] = thread[d]
             /\ thread'[c] \in {thread[c], None}
  BY <1>1, <1>5 DEF Unwind, Finish, Leave, LeaveUncoordinated, Unregister, TypeOK
<1>6. /\ pc[c] \in {"idle", "waiting"} \/ body[c] = "ended"
      /\ \A d \in Caller \ {c} : pc'[d] = pc[d] /\ thread'[d] = thread[d]
      /\ thread'[c] \in {thread[c], None} \cup known
  BY <1>3, <1>4, <1>5 DEF CoordinationStep
<1>7. body[c] # "asking"
  BY <1>1, <1>6 DEF Placed
<1> QED  BY <1>1, <1>2, <1>6, <1>7 DEF Placed

LEMMA CoordinationStepKeeps ==
    ASSUME LInv, NEW c \in Caller, CoordinationStep(c), UNCHANGED lifecycleVars
    PROVE  LInv'
<1> USE DEF lifecycleVars
<1>1. IInv'
  BY CoordinationMoves, NextIInv DEF LInv
<1>2. /\ \A d \in Caller : body[d] = "asking" => pc'[d] = pc[d] /\ thread'[d] = thread[d]
      /\ \A d \in Caller : thread'[d] # None => thread'[d] \in known
  BY CoordinationMoves
<1>3. LifecycleTypes /\ Placed /\ StoredFits /\ UpdatesAreSerialized
  BY DEF LInv
<1>4. \A d \in Caller : (Asking(d)' <=> Asking(d)) /\ (Asking(d) => thread'[d] = thread[d])
  BY <1>2, <1>3 DEF Placed, Asking
<1>5. LifecycleTypes' /\ StoredFits'
  BY <1>3 DEF LifecycleTypes, StoredFits
<1>6. Placed' /\ UpdatesAreSerialized'
  BY <1>2, <1>3, <1>4 DEF Placed, UpdatesAreSerialized
<1>7. ASSUME NEW d \in Caller PROVE AskingFits(d)'
  <2>1. AskingFits(d) /\ Base(d)' = Base(d)
    BY DEF LInv, Base
  <2> QED  BY <1>4, <2>1 DEF AskingFits
<1> QED  BY <1>1, <1>5, <1>6, <1>7 DEF LInv

LEMMA IdleKeeps ==
    ASSUME LInv, UNCHANGED allVars
    PROVE  LInv'
<1> USE DEF allVars, lifecycleVars, coordinationVars
<1>1. IInv'
  BY CoordinationKept
<1>2. \A d \in Caller : Asking(d)' <=> Asking(d)
  BY DEF Asking
<1>3. LifecycleTypes' /\ StoredFits' /\ Placed' /\ UpdatesAreSerialized'
  BY <1>2 DEF LInv, LifecycleTypes, StoredFits, Placed, UpdatesAreSerialized
<1>4. ASSUME NEW d \in Caller PROVE AskingFits(d)'
  <2>1. AskingFits(d) /\ Base(d)' = Base(d)
    BY DEF LInv, Base
  <2> QED  BY <1>2, <2>1 DEF AskingFits
<1> QED  BY <1>1, <1>3, <1>4 DEF LInv

LEMMA LifecycleNextKeeps ==
    ASSUME ~ListedThreads, LInv, [LifecycleNext]_allVars
    PROVE  LInv'
<1>1. ASSUME NEW c \in Caller, BodyStep(c), UNCHANGED coordinationVars PROVE LInv'
  BY <1>1, QuietEndStep, AdmitStep, AdmitNewStep, LoadStep, LoadNewStep, ReplyStep, MarkStep,
     CommitStep DEF BodyStep
<1>2. ASSUME NEW c \in Caller, CoordinationStep(c), UNCHANGED lifecycleVars PROVE LInv'
  BY <1>2, CoordinationStepKeeps
<1>3. ASSUME NEW t \in Thread, Expire(t), UNCHANGED coordinationVars PROVE LInv'
  BY <1>3, ExpireStep
<1>4. CASE Quiescent /\ UNCHANGED lifecycleVars
  BY <1>4, IdleKeeps DEF Quiescent, allVars
<1>5. CASE UNCHANGED allVars
  BY <1>5, IdleKeeps
<1> QED  BY <1>1, <1>2, <1>3, <1>4, <1>5 DEF LifecycleNext

\* The invariant of every reachable state, when clients do not take ids from the index.
THEOREM LifecycleInvariance ==
    ASSUME ~ListedThreads
    PROVE  LifecycleSpec => []LInv
<1>1. LInv /\ [LifecycleNext]_allVars => LInv'
  BY LifecycleNextKeeps
<1> QED  BY LifecycleInitEstablishes, <1>1, PTL DEF LifecycleSpec

-----------------------------------------------------------------------------
(* Theorems. *)

\* "MCP calls ... serialize updates to the same continuation ID through reply persistence"
\* (docs/context-revival.md): so it is, but for ids taken from the index.
THEOREM UpdatesAreSerializedHolds ==
    ASSUME ~ListedThreads
    PROVE  LifecycleSpec => []UpdatesAreSerialized
<1>1. LInv => UpdatesAreSerialized
  BY DEF LInv
<1> QED  BY <1>1, LifecycleInvariance, PTL

\* The two slots demanded at admission are still free when the provider answers
\* (utils/conversation_context.py).
THEOREM AdmittedReplyFitsHolds ==
    ASSUME ~ListedThreads
    PROVE  LifecycleSpec => []AdmittedReplyFits
<1>1. LInv => AdmittedReplyFits
  <2> SUFFICES ASSUME LInv, NEW c \in Caller \ Clink, Asking(c), memory[target[c]] # None
               PROVE  Len(memory[target[c]]) < MaxTurns
    BY DEF AdmittedReplyFits
  <2>1. /\ free[c] >= 2 /\ Len(memory[target[c]]) \in Nat /\ MaxTurns \in Nat
        /\ free[c] = MaxTurns - Len(memory[target[c]]) + 1
    BY AskerFinds DEF Asking, Executing
  <2> QED  BY <2>1
<1> QED  BY <1>1, LifecycleInvariance, PTL

\* Exchanges on one thread are never mixed up, whoever waits, fails, is cancelled or finds the
\* thread expired (utils/conversation_context.py, clink/conversation.py).
THEOREM ExchangesStayTogetherHolds ==
    ASSUME ~ListedThreads
    PROVE  LifecycleSpec => []ExchangesStayTogether
<1>1. LInv => InputAwaitsItsReply
  BY AskerFinds DEF InputAwaitsItsReply, Asking, Executing, AwaitsReply, Last
<1>2. LInv => RepliesFollowInputs /\ FailedStateOnOwnInput
  BY DEF LInv, StoredFits, Sound, Ordered, OwnStates, RepliesFollowInputs, FailedStateOnOwnInput
<1>3. LInv => SnapshotStaysCurrent
  BY CoordinationAssumption DEF LInv, AskingFits, SnapshotStaysCurrent
<1> QED  BY <1>1, <1>2, <1>3, LifecycleInvariance, PTL DEF ExchangesStayTogether

LEMMA OnlyEndsAnswer ==
    ASSUME LInv, NEW c \in Caller, NEW answer, End(c, answer)
    PROVE  result'[c] = answer /\ \A d \in Caller \ {c} : result'[d] = result[d]
BY DEF LInv, LifecycleTypes, End

LEMMA AnswerCounts ==
    ASSUME LInv, NEW c \in Caller, BodyStep(c),
           result'[c] # result[c], result'[c].remaining # None, memory'[target'[c]] # None
    PROVE  result'[c].remaining = MaxTurns - Len(memory'[target'[c]])
<1> DEFINE t == target[c]
<1>1. ASSUME NEW kind, NEW n, End(c, Answer(kind, n))
      PROVE  result'[c].remaining = n
  BY <1>1, OnlyEndsAnswer DEF Answer
<1>2. CASE Admit(c) \/ Load(c) \/ \E s \in Thread : AdmitNew(c, s) \/ LoadNew(c, s)
  BY <1>2 DEF Admit, Load, AdmitNew, LoadNew
<1>3. CASE Refuse(c) \/ Unavailable(c) \/ ReplyUnsaved(c) \/ CommitConflict(c) \/ CLIFails(c)
           \/ Abandon(c)
  BY <1>1, <1>3 DEF Refuse, Unavailable, ReplyUnsaved, CommitConflict, CLIFails, Abandon
<1>4. CASE FailUnrecorded(c)
  <2>1. Executing(c, "asking") /\ c \notin Clink /\ UNCHANGED <<memory, target>>
    BY <1>4 DEF FailUnrecorded
  <2>2. result'[c].remaining = free[c] - 1
    BY <1>1, <1>4 DEF FailUnrecorded, LeftAfterInput
  <2> QED  BY <2>1, <2>2, AskerFinds
<1>5. CASE SaveReply(c) \/ SaveErrorReply(c)
  <2> DEFINE h == Append(memory[t], Turn("assistant", c))
  <2>1. /\ Executing(c, "asking") /\ c \notin Clink /\ memory[t] # None
        /\ memory' = [memory EXCEPT ![t] = h] /\ target' = target
        /\ Len(memory[t]) < MaxTurns
    BY <1>5, LifecycleAssumption DEF SaveReply, SaveErrorReply, Save
  <2>2. /\ Sound(memory[t]) /\ AwaitsReply(memory[t], c) /\ Len(memory[t]) \in Nat
        /\ t \in Thread /\ free[c] = MaxTurns - Len(memory[t]) + 1 /\ MaxTurns \in Nat
    BY <2>1, AskerFinds
  <2>3. Len(h) = Len(memory[t]) + 1
    BY <2>2, ReplyKeeps
  <2>4. result'[c].remaining \in {Remaining(h), free[c] - 2}
    BY <1>1, <1>5 DEF SaveReply, SaveErrorReply
  <2> HIDE DEF h
  <2>5. memory'[target'[c]] = h
    BY <2>1, <2>2 DEF LInv, LifecycleTypes
  <2>6. Len(h) \in Nat /\ Len(h) <= MaxTurns /\ free[c] - 2 = MaxTurns - Len(h)
    BY <2>1, <2>2, <2>3
  <2>7. Remaining(h) = MaxTurns - Len(h)
    BY <2>2, <2>6 DEF Remaining
  <2> QED  BY <2>4, <2>5, <2>6, <2>7
<1>6. CASE SaveFailedState(c)
  <2> DEFINE h == [memory[t] EXCEPT ![Len(memory[t])].state = c]
  <2>1. /\ Executing(c, "asking") /\ c \notin Clink /\ memory[t] # None
        /\ memory' = [memory EXCEPT ![t] = h] /\ target' = target
    BY <1>6, LifecycleAssumption DEF SaveFailedState, Save
  <2>2. /\ Sound(memory[t]) /\ AwaitsReply(memory[t], c) /\ Len(memory[t]) \in Nat
        /\ t \in Thread /\ free[c] = MaxTurns - Len(memory[t]) + 1 /\ MaxTurns \in Nat
    BY <2>1, AskerFinds
  <2>3. Len(h) = Len(memory[t])
    BY <2>2, MarkKeeps
  <2>4. result'[c].remaining = free[c] - 1
    BY <1>1, <1>6 DEF SaveFailedState, LeftAfterInput
  <2> HIDE DEF h
  <2>5. memory'[target'[c]] = h
    BY <2>1, <2>2 DEF LInv, LifecycleTypes
  <2>6. free[c] - 1 = MaxTurns - Len(h)
    BY <2>2, <2>3
  <2> QED  BY <2>4, <2>5, <2>6
<1>7. CASE Commit(c)
  <2> DEFINE h == Base(c) \o Exchange(c)
  <2>1. /\ Executing(c, "asking") /\ c \in Clink /\ memory[t] = snapshot[c]
        /\ memory' = [memory EXCEPT ![t] = h] /\ target' = target
    BY <1>7 DEF Commit, Replace, Save
  <2>2. /\ memory[t] # None => Sound(memory[t])
        /\ t \in Thread /\ MaxTurns \in Nat /\ Len(Base(c)) + 2 <= MaxTurns
    BY <2>1, AskerFinds DEF LInv, AskingFits
  <2>3. Sound(Base(c)) /\ Len(Base(c)) \in Nat
    BY <2>1, <2>2, EmptyIsSound DEF Base, Sound
  <2>4. Len(h) = Len(Base(c)) + 2
    BY <2>3, ExchangeKeeps
  <2>5. result'[c].remaining = Remaining(h)
    BY <1>1, <1>7 DEF Commit
  <2> HIDE DEF h
  <2>6. memory'[target'[c]] = h
    BY <2>1, <2>2 DEF LInv, LifecycleTypes
  <2>7. Remaining(h) = MaxTurns - Len(h)
    BY <2>2, <2>3, <2>4 DEF Remaining
  <2> QED  BY <2>5, <2>6, <2>7
<1> QED  BY <1>2, <1>3, <1>4, <1>5, <1>6, <1>7 DEF BodyStep

\* Only the request that steps gives an answer.
LEMMA OthersAnswerNothing ==
    ASSUME LInv, NEW c \in Caller, BodyStep(c), NEW d \in Caller \ {c}
    PROVE  result'[d] = result[d]
<1>1. UNCHANGED result \/ \E kind, n : End(c, Answer(kind, n))
  BY DEF BodyStep, Refuse, Unavailable, Admit, Load, AdmitNew, LoadNew, SaveReply, ReplyUnsaved,
         SaveErrorReply, SaveFailedState, FailUnrecorded, Commit, CommitConflict, CLIFails, Abandon
<1> QED  BY <1>1, OnlyEndsAnswer

\* The number of turns an answer reports is what is left when it is given, on success and on
\* the error path, which computes it from the admission (utils/conversation_context.py).
THEOREM RemainingIsTrueHolds ==
    ASSUME ~ListedThreads
    PROVE  LifecycleSpec => RemainingIsTrue
<1> DEFINE Counts ==
        \A c \in Caller :
            (/\ result'[c] # result[c]
             /\ result'[c].remaining # None
             /\ memory'[target'[c]] # None)
            => result'[c].remaining = MaxTurns - Len(memory'[target'[c]])
<1>1. ASSUME LInv, [LifecycleNext]_allVars
      PROVE  [Counts]_allVars
  <2> SUFFICES ASSUME NEW d \in Caller,
                      result'[d] # result[d], result'[d].remaining # None,
                      memory'[target'[d]] # None
               PROVE  result'[d].remaining = MaxTurns - Len(memory'[target'[d]])
    OBVIOUS
  <2>1. PICK c \in Caller : BodyStep(c)
    BY <1>1 DEF LifecycleNext, allVars, lifecycleVars, Expire
  <2>2. c = d
    BY <1>1, <2>1, OthersAnswerNothing
  <2> QED  BY <1>1, <2>1, <2>2, AnswerCounts
<1> QED  BY <1>1, LifecycleInvariance, PTL DEF LifecycleSpec, RemainingIsTrue

-----------------------------------------------------------------------------
(* The protocol implements ConversationLog. *)

\* A clink request that works on a thread which is not stored yet.
Starts(c) == c \in Clink /\ Asking(c) /\ snapshot[c] = None

LEMMA NotYetStoredIs ==
    /\ \A x : x \in NotYetStored <=> (x \in Thread \ issued \/ \E c \in Caller : Starts(c) /\ target[c] = x)
    /\ \A x : x \in NotYetStored' <=> (x \in Thread \ issued' \/ \E c \in Caller : Starts(c)' /\ target'[c] = x)
BY CoordinationAssumption DEF NotYetStored, Starts

\* Others neither begin nor end when the body of c steps.
LEMMA OthersStay ==
    ASSUME LInv, NEW c \in Caller, BodyStep(c), UNCHANGED coordinationVars, NEW d \in Caller \ {c}
    PROVE  (Starts(d)' <=> Starts(d)) /\ target'[d] = target[d]
<1>1. /\ body'[d] = body[d] /\ target'[d] = target[d] /\ snapshot'[d] = snapshot[d]
  BY DEF LInv, LifecycleTypes, BodyStep, Refuse, Unavailable, Admit, Load, AdmitNew, LoadNew,
         SaveReply, ReplyUnsaved, SaveErrorReply, SaveFailedState, FailUnrecorded, Commit,
         CommitConflict, CLIFails, Abandon, End
<1> QED  BY <1>1 DEF Starts, Asking, coordinationVars

\* What the end of a request changes of the ids that are not stored.
LEMMA EndFrees ==
    ASSUME LInv, NEW c \in Caller, BodyStep(c), UNCHANGED coordinationVars,
           NEW answer, End(c, answer), UNCHANGED <<issued, target, snapshot>>
    PROVE  /\ ~Starts(c) => NotYetStored' = NotYetStored
           /\ Starts(c) => NotYetStored' = NotYetStored \ {target[c]}
<1>1. ~Starts(c)'
  BY DEF End, LInv, LifecycleTypes, Starts, Asking
<1>2. \A d \in Caller \ {c} : (Starts(d)' <=> Starts(d)) /\ target'[d] = target[d]
  BY OthersStay
<1>3. ~Starts(c) => NotYetStored' = NotYetStored
  BY <1>1, <1>2, NotYetStoredIs
<1>4. CASE Starts(c)
  <2>1. target[c] \in issued /\ \A d \in Caller \ {c} : Starts(d) => target[d] # target[c]
    BY <1>4 DEF LInv, Placed, UpdatesAreSerialized, Starts
  <2> QED  BY <1>1, <1>2, <1>4, <2>1, NotYetStoredIs
<1> QED  BY <1>3, <1>4

\* A request with a thread in its hand starts nothing.
LEMMA StartedHasNone ==
    ASSUME LInv, NEW c \in Caller, Starts(c)
    PROVE  target[c] \in Thread /\ memory[target[c]] = None /\ target[c] \in NotYetStored
<1>1. target[c] \in Thread
  BY DEF Starts, LInv, Placed, LifecycleTypes
<1>2. memory[target[c]] = None
  BY DEF Starts, LInv, AskingFits
<1> QED  BY <1>1, <1>2, NotYetStoredIs

LEMMA ReplyImplements ==
    ASSUME LInv, NEW c \in Caller, UNCHANGED coordinationVars,
           SaveReply(c) \/ SaveErrorReply(c)
    PROVE  Log!Next
<1> DEFINE t == target[c]
           h == Append(memory[t], Turn("assistant", c))
<1>1. /\ Executing(c, "asking") /\ c \notin Clink /\ memory[t] # None
      /\ memory' = [memory EXCEPT ![t] = h]
      /\ Len(memory[t]) < MaxTurns
      /\ \E answer : End(c, answer)
      /\ UNCHANGED <<issued, target, snapshot>>
  BY LifecycleAssumption DEF SaveReply, SaveErrorReply, Save
<1>2. /\ Sound(memory[t]) /\ AwaitsReply(memory[t], c) /\ Len(memory[t]) \in Nat
      /\ t \in Thread /\ MaxTurns \in Nat
  BY <1>1, AskerFinds
<1>3. Len(h) <= MaxTurns
  <2>1. Len(h) = Len(memory[t]) + 1
    BY <1>2, ReplyKeeps
  <2> QED  BY <1>1, <1>2, <2>1
<1>4. NotYetStored' = NotYetStored
  <2>1. BodyStep(c) /\ ~Starts(c)
    BY <1>1 DEF BodyStep, Starts
  <2> QED  BY <1>1, <2>1, EndFrees
<1>5. h = Append(memory[t], Log!Turn("assistant", c))
  BY DEF Turn, Log!Turn
<1>6. Log!EndsWithInputOf(t, c)
  BY <1>1, <1>2 DEF Log!EndsWithInputOf, AwaitsReply
<1> HIDE DEF h
<1>7. Log!Set(t, h)
  BY <1>1, <1>3 DEF Log!Set
<1>8. Log!Reply(t, c)
  BY <1>4, <1>5, <1>6, <1>7 DEF Log!Reply
<1> QED  BY <1>2, <1>8 DEF Log!Next

LEMMA MarkImplements ==
    ASSUME LInv, NEW c \in Caller, UNCHANGED coordinationVars, SaveFailedState(c)
    PROVE  Log!Next
<1> DEFINE t == target[c]
           h == [memory[t] EXCEPT ![Len(memory[t])].state = c]
<1>1. /\ Executing(c, "asking") /\ c \notin Clink /\ memory[t] # None
      /\ memory' = [memory EXCEPT ![t] = h]
      /\ \E answer : End(c, answer)
      /\ UNCHANGED <<issued, target, snapshot>>
  BY LifecycleAssumption DEF SaveFailedState, Save
<1>2. /\ Sound(memory[t]) /\ AwaitsReply(memory[t], c) /\ Len(memory[t]) \in Nat
      /\ t \in Thread /\ MaxTurns \in Nat
      /\ free[c] \in Nat /\ free[c] >= 2 /\ free[c] = MaxTurns - Len(memory[t]) + 1
  BY <1>1, AskerFinds
<1>3. Len(h) <= MaxTurns
  <2>1. Len(h) = Len(memory[t])
    BY <1>2, MarkKeeps
  <2> QED  BY <1>2, <2>1
<1>4. NotYetStored' = NotYetStored
  <2>1. BodyStep(c) /\ ~Starts(c)
    BY <1>1 DEF BodyStep, Starts
  <2> QED  BY <1>1, <2>1, EndFrees
<1>5. Log!EndsWithInputOf(t, c)
  BY <1>1, <1>2 DEF Log!EndsWithInputOf, AwaitsReply
<1>6. Log!Set(t, h)
  BY <1>1, <1>3 DEF Log!Set
<1>7. Log!MarkFailed(t, c)
  BY <1>4, <1>5, <1>6 DEF Log!MarkFailed
<1> QED  BY <1>2, <1>7 DEF Log!Next

LEMMA CommitImplements ==
    ASSUME LInv, NEW c \in Caller, UNCHANGED coordinationVars, Commit(c)
    PROVE  Log!Next
<1> DEFINE t == target[c]
           h == Base(c) \o Exchange(c)
<1>1. /\ Executing(c, "asking") /\ c \in Clink /\ memory[t] = snapshot[c]
      /\ memory' = [memory EXCEPT ![t] = h]
      /\ \E answer : End(c, answer)
      /\ UNCHANGED <<issued, target, snapshot>>
  BY DEF Commit, Replace, Save
<1>2. /\ memory[t] # None => Sound(memory[t])
      /\ Asking(c) /\ t \in Thread /\ MaxTurns \in Nat /\ Len(Base(c)) + 2 <= MaxTurns
  BY <1>1, AskerFinds DEF LInv, AskingFits
<1>3. Sound(Base(c)) /\ Len(Base(c)) \in Nat
  BY <1>1, <1>2, EmptyIsSound DEF Base, Sound
<1>4. Len(h) <= MaxTurns
  <2>1. Len(h) = Len(Base(c)) + 2
    BY <1>3, ExchangeKeeps
  <2> QED  BY <1>2, <1>3, <2>1
<1>5. Exchange(c) = Log!Exchange(c)
  BY DEF Exchange, Log!Exchange, Turn, Log!Turn
<1>6. BodyStep(c)
  BY DEF BodyStep
<1>7. CASE snapshot[c] = None
  <2>1. Starts(c)
    BY <1>1, <1>2, <1>7 DEF Starts
  <2>2. t \in NotYetStored /\ NotYetStored' = NotYetStored \ {t}
    BY <1>1, <1>6, <2>1, StartedHasNone, EndFrees
  <2>3. h = Log!Exchange(c)
    <3>1. Turn("user", c) \in Turns /\ Turn("assistant", c) \in Turns
      BY TurnsAreTurns
    <3>2. Exchange(c) \in Seq(Turns)
      BY <3>1 DEF Exchange
    <3>3. Base(c) = << >>
      BY <1>7 DEF Base
    <3>4. << >> \o Exchange(c) = Exchange(c)
      BY <3>2
    <3> QED  BY <1>5, <3>3, <3>4
  <2> HIDE DEF h
  <2>4. Log!Set(t, Log!Exchange(c))
    BY <1>1, <1>4, <2>3 DEF Log!Set
  <2>5. Log!Begin(t, c)
    BY <2>2, <2>4 DEF Log!Begin
  <2> QED  BY <1>2, <2>5 DEF Log!Next
<1>8. CASE snapshot[c] # None
  <2>1. NotYetStored' = NotYetStored
    BY <1>1, <1>6, <1>8, EndFrees DEF Starts
  <2>2. h = memory[t] \o Log!Exchange(c)
    BY <1>1, <1>5, <1>8 DEF Base
  <2> HIDE DEF h
  <2>3. Log!Set(t, memory[t] \o Log!Exchange(c))
    BY <1>1, <1>4, <2>2 DEF Log!Set
  <2>4. Log!Extend(t, c)
    BY <1>1, <1>8, <2>1, <2>3 DEF Log!Extend
  <2> QED  BY <1>2, <2>4 DEF Log!Next
<1> QED  BY <1>7, <1>8

\* An ending that writes nothing discards the id of a clink request that started a thread.
LEMMA QuietEndImplements ==
    ASSUME LInv, NEW c \in Caller, UNCHANGED coordinationVars,
           \/ Refuse(c) \/ Unavailable(c) \/ ReplyUnsaved(c) \/ FailUnrecorded(c)
           \/ CommitConflict(c) \/ CLIFails(c) \/ Abandon(c)
    PROVE  Log!Next \/ UNCHANGED <<memory, NotYetStored>>
<1>1. /\ \E answer : End(c, answer)
      /\ UNCHANGED <<memory, issued, target, snapshot>>
      /\ BodyStep(c)
  BY DEF Refuse, Unavailable, ReplyUnsaved, FailUnrecorded, CommitConflict, CLIFails, Abandon,
         Conflict, BodyStep
<1>2. CASE ~Starts(c)
  BY <1>1, <1>2, EndFrees
<1>3. CASE Starts(c)
  <2>1. NotYetStored' = NotYetStored \ {target[c]}
    BY <1>1, <1>3, EndFrees
  <2>2. target[c] \in Thread /\ memory[target[c]] = None
    BY <1>3, StartedHasNone
  <2>3. Log!Discard(target[c])
    BY <1>1, <2>1, <2>2 DEF Log!Discard
  <2> QED  BY <2>2, <2>3 DEF Log!Next
<1> QED  BY <1>2, <1>3

LEMMA AdmitImplements ==
    ASSUME LInv, NEW c \in Caller, UNCHANGED coordinationVars, Admit(c)
    PROVE  Log!Next
<1> DEFINE t == thread[c]
           h == Append(memory[t], Turn("user", c))
<1>1. /\ c \notin Clink /\ t # None /\ memory[t] # None
      /\ MaxTurns - Len(memory[t]) >= 2
      /\ memory' = [memory EXCEPT ![t] = h]
      /\ issued' = issued /\ BodyStep(c)
  BY DEF Admit, HasRoom, Save, BodyStep
<1>2. t \in Thread
  BY <1>1 DEF LInv, IInv, TypeOK
<1>3. Sound(memory[t]) /\ Len(memory[t]) \in Nat /\ MaxTurns \in Nat
  BY <1>1, <1>2, LifecycleAssumption DEF LInv, StoredFits, Sound
<1>4. Len(h) <= MaxTurns
  <2>1. Len(h) = Len(memory[t]) + 1
    BY <1>3, InputKeeps
  <2> QED  BY <1>1, <1>3, <2>1
<1>5. NotYetStored' = NotYetStored
  <2>1. ~Starts(c) /\ ~Starts(c)'
    BY <1>1 DEF Starts
  <2>2. \A d \in Caller \ {c} : (Starts(d)' <=> Starts(d)) /\ target'[d] = target[d]
    BY <1>1, OthersStay
  <2>3. \A x : x \in NotYetStored' <=> x \in NotYetStored
    <3>1. \A x, d : Starts(d)' /\ d \in Caller /\ target'[d] = x
                        <=> Starts(d) /\ d \in Caller /\ target[d] = x
      BY <2>1, <2>2
    <3> QED  BY <1>1, <3>1, NotYetStoredIs
  <2> QED  BY <2>3
<1>6. h = memory[t] \o Log!Input(c)
  <2>1. Turn("user", c) = Log!Turn("user", c) /\ Turn("user", c) \in Turns
    BY TurnsAreTurns DEF Turn, Log!Turn
  <2>2. memory[t] \in Seq(Turns)
    BY <1>3 DEF Sound
  <2>3. h = memory[t] \o <<Turn("user", c)>>
    BY <2>1, <2>2
  <2> QED  BY <2>1, <2>3 DEF Log!Input
<1> HIDE DEF h
<1>7. Log!Set(t, memory[t] \o Log!Input(c))
  BY <1>1, <1>4, <1>6 DEF Log!Set
<1>8. Log!Extend(t, c)
  BY <1>1, <1>5, <1>7 DEF Log!Extend
<1> QED  BY <1>2, <1>8 DEF Log!Next

LEMMA AdmitNewImplements ==
    ASSUME LInv, NEW c \in Caller, NEW t \in Thread, UNCHANGED coordinationVars, AdmitNew(c, t)
    PROVE  Log!Next
<1>1. /\ c \notin Clink /\ t \notin issued /\ MaxTurns >= 2
      /\ memory' = [memory EXCEPT ![t] = <<Turn("user", c)>>]
      /\ issued' = issued \cup {t} /\ BodyStep(c)
  BY DEF AdmitNew, Create, FreshThread, Save, BodyStep
<1>2. NotYetStored' = NotYetStored \ {t} /\ t \in NotYetStored
  <2>1. ~Starts(c) /\ ~Starts(c)'
    BY <1>1 DEF Starts
  <2>2. \A d \in Caller \ {c} : (Starts(d)' <=> Starts(d)) /\ target'[d] = target[d]
    BY <1>1, OthersStay
  <2>3. \A d \in Caller : Starts(d) => target[d] # t
    BY <1>1 DEF LInv, Placed, Starts
  <2> QED  BY <1>1, <2>1, <2>2, <2>3, NotYetStoredIs
<1>3. Log!Input(c) = <<Turn("user", c)>>
  BY DEF Log!Input, Log!Turn, Turn
<1>4. Len(Log!Input(c)) <= MaxTurns
  <2>1. Len(Log!Input(c)) = 1
    BY DEF Log!Input
  <2> QED  BY <1>1, <2>1, LifecycleAssumption
<1>5. Log!Set(t, Log!Input(c))
  BY <1>1, <1>3, <1>4 DEF Log!Set
<1>6. Log!Begin(t, c)
  BY <1>2, <1>5 DEF Log!Begin
<1> QED  BY <1>6 DEF Log!Next

\* Taking a snapshot changes nothing; a new id stays one that may come into existence.
LEMMA LoadImplements ==
    ASSUME LInv, NEW c \in Caller, UNCHANGED coordinationVars,
           Load(c) \/ \E t \in Thread : LoadNew(c, t)
    PROVE  UNCHANGED <<memory, NotYetStored>>
<1>1. BodyStep(c) /\ UNCHANGED memory
  BY DEF BodyStep, Load, LoadNew
<1>2. \A d \in Caller \ {c} : (Starts(d)' <=> Starts(d)) /\ target'[d] = target[d]
  BY <1>1, OthersStay
<1>3. ~Starts(c)
  BY DEF Load, LoadNew, Executing, Starts, Asking
<1>4. CASE Load(c)
  <2>1. memory[thread[c]] # None /\ snapshot' = [snapshot EXCEPT ![c] = memory[thread[c]]]
        /\ issued' = issued
    BY <1>4 DEF Load
  <2>2. snapshot'[c] # None
    BY <2>1 DEF LInv, LifecycleTypes
  <2>3. ~Starts(c)'
    BY <2>2 DEF Starts
  <2> QED  BY <1>1, <1>2, <1>3, <2>1, <2>3, NotYetStoredIs
<1>5. ASSUME NEW t \in Thread, LoadNew(c, t) PROVE UNCHANGED <<memory, NotYetStored>>
  <2>1. /\ pc[c] = "running" /\ body[c] = "start" /\ c \in Clink /\ t \notin issued
        /\ body' = [body EXCEPT ![c] = "asking"] /\ target' = [target EXCEPT ![c] = t]
        /\ issued' = issued \cup {t} /\ UNCHANGED snapshot
    BY <1>5 DEF LoadNew, FreshThread, Executing
  <2>2. /\ body'[c] = "asking" /\ target'[c] = t /\ snapshot'[c] = None /\ pc'[c] = "running"
    BY <2>1 DEF LInv, LifecycleTypes, Placed, coordinationVars
  <2>3. Starts(c)'
    BY <2>1, <2>2 DEF Starts, Asking
  <2>4. \A x : x \in NotYetStored' <=> x \in NotYetStored
    <3> SUFFICES ASSUME NEW x PROVE x \in NotYetStored' <=> x \in NotYetStored
      OBVIOUS
    <3>1. x \in NotYetStored' <=>
              x \in Thread \ issued' \/ x = t \/ \E d \in Caller \ {c} : Starts(d) /\ target[d] = x
      BY <1>2, <2>2, <2>3, NotYetStoredIs
    <3>2. x \in NotYetStored <=>
              x \in Thread \ issued \/ \E d \in Caller \ {c} : Starts(d) /\ target[d] = x
      BY <1>3, NotYetStoredIs
    <3> QED  BY <2>1, <3>1, <3>2
  <2> QED  BY <1>1, <2>4
<1> QED  BY <1>4, <1>5

LEMMA ExpireImplements ==
    ASSUME LInv, NEW t \in Thread, UNCHANGED coordinationVars, Expire(t)
    PROVE  Log!Next
<1>1. /\ memory[t] # None /\ memory' = [memory EXCEPT ![t] = None]
      /\ UNCHANGED <<issued, body, target, snapshot>>
  BY DEF Expire, Save
<1>2. NotYetStored' = NotYetStored
  BY <1>1, NotYetStoredIs DEF Starts, Asking, coordinationVars
<1>3. Log!Expire(t)
  BY <1>1, <1>2 DEF Log!Expire
<1> QED  BY <1>3 DEF Log!Next

LEMMA CoordinationImplements ==
    ASSUME LInv, NEW c \in Caller, CoordinationStep(c), UNCHANGED lifecycleVars
    PROVE  UNCHANGED <<memory, NotYetStored>>
<1>1. \A d \in Caller : Starts(d)' <=> Starts(d)
  <2>1. \A d \in Caller : body[d] = "asking" => pc'[d] = pc[d]
    BY CoordinationMoves
  <2> QED  BY <2>1 DEF Starts, Asking, lifecycleVars
<1> QED  BY <1>1, NotYetStoredIs DEF lifecycleVars

\* Every step of the protocol is a step of the log, or none: histories are only extended, by an
\* input, the reply to the input at their end or a whole exchange, and no thread comes back.
THEOREM ImplementsLogHolds ==
    ASSUME ~ListedThreads
    PROVE  LifecycleSpec => ImplementsLog
<1>1. ASSUME LifecycleInit PROVE Log!Init
  <2>1. NotYetStored = Thread \ Existing
    BY <1>1, NotYetStoredIs DEF LifecycleInit, Starts, Asking
  <2> QED  BY <1>1, <2>1 DEF LifecycleInit, Log!Init
<1>2. ASSUME LInv, [LifecycleNext]_allVars
      PROVE  [Log!Next]_<<memory, NotYetStored>>
  <2>1. ASSUME NEW c \in Caller, BodyStep(c), UNCHANGED coordinationVars
        PROVE  Log!Next \/ UNCHANGED <<memory, NotYetStored>>
    BY <1>2, <2>1, QuietEndImplements, AdmitImplements, AdmitNewImplements, LoadImplements,
       ReplyImplements, MarkImplements, CommitImplements DEF BodyStep
  <2>2. ASSUME UNCHANGED allVars PROVE UNCHANGED <<memory, NotYetStored>>
    BY <2>2 DEF allVars, coordinationVars, lifecycleVars, NotYetStored, Asking
  <2> QED
    BY <1>2, <2>1, <2>2, ExpireImplements, CoordinationImplements
       DEF LifecycleNext, Quiescent, allVars
<1> QED
  BY <1>1, <1>2, LifecycleInvariance, PTL DEF LifecycleSpec, ImplementsLog, Log!Spec, Log!logVars

-----------------------------------------------------------------------------
(* Part 3: the transcripts.  What follows needs no assumption on where ids come from. *)

Events == [turn : Nat \ {0}, by : Caller \cup {Old}, role : {"user", "assistant"}]

Grows(a) == \A i, j \in DOMAIN a : i < j => a[i].turn < a[j].turn

Describes(a, h) ==
    \A i \in DOMAIN a :
        a[i].turn \in DOMAIN h /\ h[a[i].turn].by = a[i].by /\ h[a[i].turn].role = a[i].role

By(a, c) == \E i \in DOMAIN a : a[i].by = c

\* The transcript with the events of the turns s of h behind it.
Recorded(a, h, s) == a \o [i \in DOMAIN s |-> Event(h, s[i])]

\* Turns old with the turns of c behind them; marks on old ones do not count.
Extends(h, old, c) ==
    /\ h \in Seq(Turns) /\ Len(old) <= Len(h)
    /\ \A i \in 1 .. Len(old) : h[i].by = old[i].by /\ h[i].role = old[i].role
    /\ \A i \in (Len(old) + 1) .. Len(h) : h[i].by = c

LEMMA ConcatFacts ==
    ASSUME NEW S, NEW a \in Seq(S), NEW e \in Seq(S)
    PROVE  /\ a \o e \in Seq(S) /\ Len(a \o e) = Len(a) + Len(e)
           /\ Len(a) \in Nat /\ Len(e) \in Nat /\ DOMAIN (a \o e) = 1 .. (Len(a) + Len(e))
           /\ \A i \in 1 .. Len(a) : (a \o e)[i] = a[i]
           /\ \A i \in (Len(a) + 1) .. (Len(a) + Len(e)) : (a \o e)[i] = e[i - Len(a)]
<1> DEFINE b == a \o e
<1>1. /\ b \in Seq(S) /\ Len(b) = Len(a) + Len(e)
      /\ \A i \in 1 .. Len(a) + Len(e) : b[i] = IF i <= Len(a) THEN a[i] ELSE e[i - Len(a)]
  BY ConcatProperties
<1>2. Len(a) \in Nat /\ Len(e) \in Nat
  OBVIOUS
<1> HIDE DEF b
<1>3. DOMAIN b = 1 .. (Len(a) + Len(e))
  BY <1>1, <1>2
<1>4. \A i \in 1 .. Len(a) : b[i] = a[i]
  BY <1>1, <1>2
<1>5. \A i \in (Len(a) + 1) .. (Len(a) + Len(e)) : b[i] = e[i - Len(a)]
  BY <1>1, <1>2
<1> QED  BY <1>1, <1>2, <1>3, <1>4, <1>5 DEF b

\* The events of an excerpt, one by one.
LEMMA ExcerptFacts ==
    ASSUME NEW h \in Seq(Turns), NEW first \in Nat \ {0}, first <= Len(h) + 1,
           NEW s \in Excerpts(first, Len(h)),
           NEW e, e = [i \in DOMAIN s |-> Event(h, s[i])]
    PROVE  /\ e \in Seq(Events)
           /\ \A i \in 1 .. Len(e) :
                  /\ e[i].turn \in first .. Len(h)
                  /\ e[i].by = h[e[i].turn].by /\ e[i].role = h[e[i].turn].role
           /\ Grows(e)
<1>1. s \in Seq(first .. Len(h)) /\ \A i, j \in DOMAIN s : i < j => s[i] < s[j]
  <2>1. CASE TranscriptsEnabled
    <3>1. PICK m \in 0 .. (Len(h) - first + 1) : s \in [1 .. m -> first .. Len(h)]
      BY <2>1 DEF Excerpts, SeqOf
    <3>2. m \in Nat
      BY <3>1
    <3> QED  BY <2>1, <3>1, <3>2 DEF Excerpts
  <2>2. CASE ~TranscriptsEnabled
    <3>1. s = << >>
      BY <2>2 DEF Excerpts
    <3> QED  BY <3>1
  <2> QED  BY <2>1, <2>2
<1>2. Len(s) \in Nat /\ DOMAIN s = 1 .. Len(s) /\ \A i \in 1 .. Len(s) : s[i] \in first .. Len(h)
  BY <1>1
<1>3. \A i \in 1 .. Len(s) : /\ e[i] = Event(h, s[i]) /\ Event(h, s[i]).turn = s[i]
                             /\ Event(h, s[i]).by = h[s[i]].by
                             /\ Event(h, s[i]).role = h[s[i]].role
  BY <1>2 DEF Event
<1>4. \A i \in 1 .. Len(s) : Event(h, s[i]) \in Events
  <2> SUFFICES ASSUME NEW i \in 1 .. Len(s) PROVE Event(h, s[i]) \in Events
    OBVIOUS
  <2>1. s[i] \in Nat \ {0} /\ s[i] \in 1 .. Len(h)
    BY <1>2
  <2>2. h[s[i]] \in Turns
    BY <2>1
  <2> QED  BY <2>1, <2>2 DEF Event, Events, Turns
<1>5. e \in [1 .. Len(s) -> Events]
  BY <1>2, <1>3, <1>4
<1>6. e \in Seq(Events) /\ Len(e) = Len(s) /\ DOMAIN e = 1 .. Len(s)
  BY <1>2, <1>5
<1>7. \A i \in 1 .. Len(e) :
          /\ e[i].turn \in first .. Len(h)
          /\ e[i].by = h[e[i].turn].by /\ e[i].role = h[e[i].turn].role
  BY <1>2, <1>3, <1>6
<1>8. Grows(e)
  BY <1>1, <1>2, <1>3, <1>6 DEF Grows
<1> QED  BY <1>6, <1>7, <1>8

\* A transcript that describes a thread describes its extension, with the
\* events of the new turns behind.
LEMMA RecordKeeps ==
    ASSUME NEW a \in Seq(Events), NEW old \in Seq(Turns), NEW h, NEW c, Extends(h, old, c),
           Grows(a), Describes(a, old),
           NEW s \in Excerpts(Len(old) + 1, Len(h)),
           NEW b, b = Recorded(a, h, s)
    PROVE  /\ b \in Seq(Events) /\ Grows(b) /\ Describes(b, h)
           /\ \A d : By(b, d) => By(a, d) \/ d = c
<1> DEFINE e == [i \in DOMAIN s |-> Event(h, s[i])]
           n == Len(old) + 1
<1>1. h \in Seq(Turns) /\ n \in Nat \ {0} /\ n <= Len(h) + 1 /\ Len(h) \in Nat /\ Len(old) \in Nat
  BY DEF Extends
<1>2. /\ e \in Seq(Events)
      /\ \A i \in 1 .. Len(e) :
             /\ e[i].turn \in n .. Len(h)
             /\ e[i].by = h[e[i].turn].by /\ e[i].role = h[e[i].turn].role
      /\ Grows(e)
  BY <1>1, ExcerptFacts
<1> HIDE DEF e
<1>3. b = a \o e
  BY DEF e, Recorded
<1>4. /\ b \in Seq(Events) /\ Len(b) = Len(a) + Len(e) /\ Len(a) \in Nat /\ Len(e) \in Nat
      /\ DOMAIN a = 1 .. Len(a) /\ DOMAIN b = 1 .. (Len(a) + Len(e)) /\ DOMAIN e = 1 .. Len(e)
      /\ DOMAIN old = 1 .. Len(old) /\ DOMAIN h = 1 .. Len(h)
      /\ \A i \in 1 .. Len(a) : b[i] = a[i]
      /\ \A i \in (Len(a) + 1) .. (Len(a) + Len(e)) : b[i] = e[i - Len(a)]
  <2>1. /\ DOMAIN a = 1 .. Len(a) /\ DOMAIN e = 1 .. Len(e)
        /\ DOMAIN old = 1 .. Len(old) /\ DOMAIN h = 1 .. Len(h)
    BY <1>1, <1>2
  <2> DEFINE g == a \o e
  <2>2. /\ g \in Seq(Events) /\ Len(g) = Len(a) + Len(e)
        /\ Len(a) \in Nat /\ Len(e) \in Nat /\ DOMAIN g = 1 .. (Len(a) + Len(e))
        /\ \A i \in 1 .. Len(a) : g[i] = a[i]
        /\ \A i \in (Len(a) + 1) .. (Len(a) + Len(e)) : g[i] = e[i - Len(a)]
    BY <1>2, ConcatFacts
  <2> HIDE DEF g
  <2>3. b = g
    BY <1>3 DEF g
  <2> QED  BY ONLY <2>1, <2>2, <2>3
<1>5. \A i \in DOMAIN b : i \in 1 .. Len(a) \/ (i - Len(a) \in 1 .. Len(e) /\ b[i] = e[i - Len(a)])
  BY ONLY <1>4
<1>6. \A i \in 1 .. Len(a) : a[i].turn \in 1 .. Len(old) /\ a[i].turn \in 1 .. Len(h)
  BY <1>1, <1>4 DEF Describes, Extends
<1>7. ASSUME NEW i \in 1 .. Len(e)
      PROVE  e[i].turn \in n .. Len(h) /\ e[i].turn \in 1 .. Len(h) /\ e[i].by = c
  <2>1. e[i].turn \in n .. Len(h) /\ e[i].by = h[e[i].turn].by
    BY <1>2
  <2>2. \A k \in n .. Len(h) : h[k].by = c /\ k \in 1 .. Len(h)
    BY <1>1 DEF Extends
  <2> QED  BY <2>1, <2>2
<1>8. Grows(b)
  <2> SUFFICES ASSUME NEW i \in DOMAIN b, NEW j \in DOMAIN b, i < j
               PROVE  b[i].turn < b[j].turn
    BY DEF Grows
  <2>1. CASE j \in 1 .. Len(a)
    <3>1. i \in 1 .. Len(a)
      BY <1>4, <2>1
    <3> QED  BY <1>4, <2>1, <3>1 DEF Grows
  <2>2. CASE j \notin 1 .. Len(a) /\ i \in 1 .. Len(a)
    <3>1. b[i].turn \in 1 .. Len(old) /\ b[j].turn \in n .. Len(h)
      BY <1>4, <1>5, <1>6, <1>7, <2>2
    <3>2. \A k \in 1 .. Len(old), m \in n .. Len(h) : k < m
      BY <1>1
    <3> QED  BY <3>1, <3>2
  <2>3. CASE j \notin 1 .. Len(a) /\ i \notin 1 .. Len(a)
    <3>1. i - Len(a) \in DOMAIN e /\ j - Len(a) \in DOMAIN e /\ i - Len(a) < j - Len(a)
      BY <1>4, <1>5, <2>3
    <3> QED  BY <1>2, <1>5, <2>3, <3>1 DEF Grows
  <2> QED  BY <2>1, <2>2, <2>3
<1>9. Describes(b, h)
  <2> SUFFICES ASSUME NEW i \in DOMAIN b
               PROVE  /\ b[i].turn \in DOMAIN h
                      /\ h[b[i].turn].by = b[i].by /\ h[b[i].turn].role = b[i].role
    BY DEF Describes
  <2>1. CASE i \in 1 .. Len(a)
    <3>1. b[i] = a[i] /\ a[i].turn \in 1 .. Len(old) /\ a[i].turn \in DOMAIN h
      BY <1>4, <1>6, <2>1
    <3>2. old[a[i].turn].by = a[i].by /\ old[a[i].turn].role = a[i].role
      BY <1>4, <2>1 DEF Describes
    <3>3. h[a[i].turn].by = old[a[i].turn].by /\ h[a[i].turn].role = old[a[i].turn].role
      BY <3>1 DEF Extends
    <3> QED  BY <3>1, <3>2, <3>3
  <2>2. CASE i \notin 1 .. Len(a)
    <3>1. i - Len(a) \in 1 .. Len(e) /\ b[i] = e[i - Len(a)]
      BY <1>5, <2>2
    <3>2. b[i].turn \in 1 .. Len(h) /\ b[i].by = h[b[i].turn].by /\ b[i].role = h[b[i].turn].role
      BY <1>2, <1>7, <3>1
    <3> QED  BY <1>4, <3>2
  <2> QED  BY <2>1, <2>2
<1>10. \A d : By(b, d) => By(a, d) \/ d = c
  <2> SUFFICES ASSUME NEW d, NEW i \in DOMAIN b, b[i].by = d PROVE By(a, d) \/ d = c
    BY DEF By
  <2>1. CASE i \in 1 .. Len(a)
    BY <1>4, <2>1 DEF By
  <2>2. CASE i \notin 1 .. Len(a)
    BY <1>5, <1>7, <2>2
  <2> QED  BY <2>1, <2>2
<1> QED  BY <1>4, <1>8, <1>9, <1>10

\* A clink request that is about to bring a thread into existence.
Founds(c) == c \in Clink /\ body[c] = "asking" /\ snapshot[c] = None

\* Who must not have left a trace: not yet admitted, not committed, or refused.
Silent(c) ==
    \/ body[c] = "start"
    \/ c \in Clink /\ body[c] = "asking"
    \/ /\ result[c] # None
       /\ result[c].kind = "refused" \/ (c \in Clink /\ result[c].kind # "replied")

NoTrace(c) ==
    /\ \A t \in Thread : memory[t] # None => \A i \in DOMAIN memory[t] : memory[t][i].by # c
    /\ \A t \in Thread : ~By(audit[t], c)

Stages ==
    \A c \in Caller :
        /\ body[c] = "asking" => target[c] \in issued
        /\ body[c] = "start" => snapshot[c] = None
        /\ result[c] # None => body[c] = "ended"

\* Nothing is stored or recorded under an id that is still to be used.
Unwritten(t) == memory[t] = None /\ audit[t] = << >>

UnwrittenInv ==
    /\ \A t \in Thread : t \notin issued => Unwritten(t)
    /\ \A c \in Caller : Founds(c) => Unwritten(target[c])
    /\ \A c, d \in Caller : Founds(c) /\ Founds(d) /\ target[c] = target[d] => c = d

AuditInv ==
    /\ audit \in [Thread -> Seq(Events)]
    /\ \A t \in Thread :
          Grows(audit[t]) /\ (memory[t] # None => Describes(audit[t], memory[t]))

TInv ==
    /\ IInv /\ LifecycleTypes /\ Stages /\ UnwrittenInv /\ AuditInv
    /\ \A c \in Caller : Silent(c) => NoTrace(c)

LEMMA InitTInv == LifecycleInit => TInv
<1> SUFFICES ASSUME LifecycleInit PROVE TInv
  OBVIOUS
<1>1. LInv
  BY LifecycleInitEstablishes
<1>2. /\ audit = [t \in Thread |-> << >>] /\ issued = Existing
      /\ \A c \in Caller : body[c] = "start" /\ snapshot[c] = None /\ result[c] = None
      /\ \A t \in Thread : memory[t] # None <=> t \in Existing
      /\ \A t \in Thread : memory[t] # None => memory[t] \in PastThreads
  BY DEF LifecycleInit
<1>3. Stages /\ UnwrittenInv
  BY <1>2 DEF Stages, UnwrittenInv, Unwritten, Founds
<1>4. AuditInv
  BY <1>2 DEF AuditInv, Grows, Describes
<1>5. \A h \in PastThreads : \A i \in DOMAIN h : h[i].by = Old
  <2> DEFINE x == Turn("user", Old)
             y == Turn("assistant", Old)
  <2>1. x.by = Old /\ y.by = Old
    BY DEF Turn
  <2> HIDE DEF x, y
  <2>2. PastThreads = {<<x>>, <<x, y>>, <<x, y, x>>}
    BY DEF PastThreads, x, y
  <2> QED  BY <2>1, <2>2
<1>6. \A c \in Caller : NoTrace(c)
  BY <1>2, <1>5, LifecycleAssumption DEF NoTrace, By
<1> QED  BY <1>1, <1>3, <1>4, <1>6 DEF TInv, LInv

\* A step of the body of c.
LEMMA TraceStep ==
    ASSUME TInv, NEW c \in Caller, IInv', LifecycleTypes', AuditInv',
           \A d \in Caller \ {c} :
               /\ body'[d] = body[d] /\ target'[d] = target[d]
               /\ snapshot'[d] = snapshot[d] /\ result'[d] = result[d],
           issued \subseteq issued',
           \A d \in Caller \ {c} : NoTrace(d) => NoTrace(d)',
           Silent(c)' => NoTrace(c)',
           \A s \in Thread :
               \/ memory'[s] \in {memory[s], None} /\ audit'[s] = audit[s]
               \/ s \in issued' /\ \A d \in Caller \ {c} : Founds(d) => target[d] # s,
           body'[c] # "start", body'[c] = "asking" => target'[c] \in issued',
           result'[c] # None => body'[c] = "ended",
           Founds(c)' => /\ Unwritten(target[c])'
                         /\ \A d \in Caller \ {c} : Founds(d) => target[d] # target'[c]
    PROVE  TInv'
<1>1. Stages'
  BY DEF TInv, Stages
<1>2. \A d \in Caller \ {c} : /\ Founds(d)' <=> Founds(d)
                              /\ Silent(d)' <=> Silent(d)
  BY DEF Founds, Silent
<1>3. \A d \in Caller \ {c} : Founds(d) => target[d] \in Thread
  BY DEF TInv, Stages, LifecycleTypes, Founds
<1>4. UnwrittenInv'
  <2>1. \A t \in Thread : t \notin issued' => memory'[t] = None /\ audit'[t] = << >>
    BY DEF TInv, UnwrittenInv, Unwritten
  <2>2. \A d \in Caller \ {c} : Founds(d)' => memory'[target'[d]] = None /\ audit'[target'[d]] = << >>
    BY <1>2, <1>3 DEF TInv, UnwrittenInv, Unwritten
  <2>3. Founds(c)' => memory'[target'[c]] = None /\ audit'[target'[c]] = << >>
    BY DEF Unwritten
  <2>4. \A e, d \in Caller : Founds(e)' /\ Founds(d)' /\ target'[e] = target'[d] => e = d
    BY <1>2 DEF TInv, UnwrittenInv
  <2>5. \A d \in Caller : Founds(d)' => memory'[target'[d]] = None /\ audit'[target'[d]] = << >>
    BY <2>2, <2>3
  <2> QED  BY <2>1, <2>4, <2>5 DEF UnwrittenInv, Unwritten
<1>5. \A d \in Caller : Silent(d)' => NoTrace(d)'
  BY <1>2 DEF TInv
<1> QED  BY <1>1, <1>4, <1>5 DEF TInv

\* Nothing is written: the stages move, or an entry goes.
LEMMA QuietTrace ==
    ASSUME TInv, memory' = memory, audit' = audit
    PROVE  AuditInv' /\ \A d \in Caller : NoTrace(d) => NoTrace(d)'
BY DEF TInv, AuditInv, NoTrace

\* c writes turns behind those of thread t, and their events.
LEMMA WriteTrace ==
    ASSUME TInv, NEW c \in Caller, NEW t \in Thread, NEW old, NEW h, Extends(h, old, c),
           old = (IF memory[t] = None THEN << >> ELSE memory[t]),
           memory[t] = None => audit[t] = << >>,
           Save(t, h), Record(t, h, Len(old) + 1)
    PROVE  /\ AuditInv' /\ \A d \in Caller \ {c} : NoTrace(d) => NoTrace(d)'
           /\ memory' \in [Thread -> Histories]
           /\ \A s \in Thread \ {t} : memory'[s] = memory[s] /\ audit'[s] = audit[s]
<1>1. PICK x \in Excerpts(Len(old) + 1, Len(h)) :
         audit' = [audit EXCEPT ![t] = Recorded(audit[t], h, x)]
  BY DEF Record, Recorded
<1>2. PICK a \in Seq(Events) : a = audit[t]
  BY DEF TInv, AuditInv
<1>b. PICK b : b = Recorded(a, h, x)
  OBVIOUS
<1>3. /\ audit'[t] = b /\ memory'[t] = h
      /\ \A s \in Thread \ {t} : memory'[s] = memory[s] /\ audit'[s] = audit[s]
  BY <1>1, <1>2, <1>b DEF TInv, AuditInv, LifecycleTypes, Save
<1>4. old \in Seq(Turns)
  BY DEF TInv, LifecycleTypes, Histories
<1>5. Grows(a) /\ Describes(a, old)
  BY <1>2 DEF TInv, AuditInv, Grows, Describes
<1>6. /\ b \in Seq(Events) /\ Grows(b) /\ Describes(b, h)
      /\ \A d : By(b, d) => By(a, d) \/ d = c
  <2>1. a \in Seq(Events) /\ Extends(h, old, c) /\ x \in Excerpts(Len(old) + 1, Len(h))
    OBVIOUS
  <2> QED  BY ONLY <2>1, <1>4, <1>5, <1>b, RecordKeeps
<1>7. h \in Seq(Turns) /\ \A i \in DOMAIN h : h[i].by = c \/ (i \in DOMAIN old /\ h[i].by = old[i].by)
  BY <1>4 DEF Extends
<1>8. memory' \in [Thread -> Histories]
  BY <1>7 DEF TInv, LifecycleTypes, Histories, Save
<1>9. AuditInv'
  <2>1. audit' \in [Thread -> Seq(Events)]
    BY <1>1, <1>3, <1>6 DEF TInv, AuditInv
  <2>2. \A s \in Thread : Grows(audit'[s]) /\ (memory'[s] # None => Describes(audit'[s], memory'[s]))
    BY <1>3, <1>6 DEF TInv, AuditInv
  <2> QED  BY <2>1, <2>2 DEF AuditInv
<1>10. ASSUME NEW d \in Caller \ {c}, NoTrace(d) PROVE NoTrace(d)'
  <2>1. \A i \in DOMAIN old : old[i].by # d
    BY <1>10 DEF NoTrace
  <2>2. \A s \in Thread : memory'[s] # None => \A i \in DOMAIN memory'[s] : memory'[s][i].by # d
    BY <1>3, <1>7, <1>10, <2>1 DEF NoTrace
  <2>3. \A s \in Thread : ~By(audit'[s], d)
    BY <1>2, <1>3, <1>6, <1>10 DEF NoTrace
  <2> QED  BY <2>2, <2>3 DEF NoTrace
<1> QED  BY <1>3, <1>8, <1>9, <1>10

LEMMA CoordinationKeptToo == TInv /\ UNCHANGED coordinationVars => IInv'
BY NextIInv DEF TInv

\* c ends, and what it answers is not a sign of a missing trace unless it was silent before.
LEMMA EndTrace ==
    ASSUME TInv, NEW c \in Caller, NEW answer, End(c, answer),
           UNCHANGED <<coordinationVars, issued, target, free, snapshot>>,
           body[c] \in {"start", "asking"},
           known' = known \/ (body[c] = "asking" /\ known' = known \cup {target[c]}),
           memory' \in [Thread -> Histories], AuditInv',
           \A d \in Caller \ {c} : NoTrace(d) => NoTrace(d)',
           \/ answer.kind \notin {"refused"} /\ (c \in Clink => answer.kind = "replied")
           \/ Silent(c) /\ (NoTrace(c) => NoTrace(c)'),
           \A s \in Thread :
               \/ memory'[s] \in {memory[s], None} /\ audit'[s] = audit[s]
               \/ s \in issued' /\ \A d \in Caller \ {c} : Founds(d) => target[d] # s
    PROVE  TInv'
<1>1. /\ body'[c] = "ended" /\ result'[c] = answer
      /\ \A d \in Caller \ {c} : body'[d] = body[d] /\ result'[d] = result[d]
  BY DEF TInv, LifecycleTypes, End
<1>2. LifecycleTypes'
  BY DEF TInv, LifecycleTypes, Stages, End
<1>3. Silent(c)' => NoTrace(c)'
  BY <1>1 DEF TInv, Silent
<1>4. ~Founds(c)'
  BY <1>1 DEF Founds
<1>5. IInv'
  BY CoordinationKeptToo
<1> QED  BY <1>1, <1>2, <1>3, <1>4, <1>5, TraceStep

LEMMA QuietEndTrace ==
    ASSUME TInv, NEW c \in Caller, UNCHANGED coordinationVars,
           \/ Refuse(c) \/ Unavailable(c) \/ ReplyUnsaved(c) \/ FailUnrecorded(c)
           \/ CommitConflict(c) \/ CLIFails(c) \/ Abandon(c)
    PROVE  TInv'
<1>1. /\ memory' = memory /\ audit' = audit
      /\ UNCHANGED <<issued, target, free, snapshot>>
      /\ body[c] \in {"start", "asking"}
      /\ known' = known \/ (body[c] = "asking" /\ known' = known \cup {target[c]})
  BY DEF Refuse, Unavailable, ReplyUnsaved, FailUnrecorded, CommitConflict, CLIFails, Abandon,
         Conflict, Executing
<1>2. PICK answer : /\ End(c, answer)
                    /\ \/ answer.kind \notin {"refused"} /\ c \notin Clink
                       \/ body[c] = "start"
                       \/ body[c] = "asking" /\ c \in Clink
  <2>1. CASE Refuse(c) \/ Unavailable(c)
    BY <2>1 DEF Refuse, Unavailable, Executing
  <2>2. CASE ReplyUnsaved(c) \/ FailUnrecorded(c)
    BY <2>2 DEF ReplyUnsaved, FailUnrecorded, Executing, Answer
  <2>3. CASE CommitConflict(c) \/ CLIFails(c)
    BY <2>3 DEF CommitConflict, CLIFails, Executing
  <2>4. CASE Abandon(c)
    BY <2>4 DEF Abandon, Executing, Answer
  <2> QED  BY <2>1, <2>2, <2>3, <2>4
<1>3. AuditInv' /\ \A d \in Caller : NoTrace(d) => NoTrace(d)'
  BY <1>1, QuietTrace
<1>4. memory' \in [Thread -> Histories]
  BY <1>1 DEF TInv, LifecycleTypes
<1>5. \/ answer.kind \notin {"refused"} /\ (c \in Clink => answer.kind = "replied")
      \/ Silent(c) /\ (NoTrace(c) => NoTrace(c)')
  BY <1>2, <1>3 DEF Silent
<1> QED  BY <1>1, <1>2, <1>3, <1>4, <1>5, EndTrace

\* One more turn of c, or the two of an exchange.
LEMMA OneMore ==
    ASSUME NEW old \in Seq(Turns), NEW c \in Caller, NEW role \in {"user", "assistant"}
    PROVE  /\ Extends(Append(old, Turn(role, c)), old, c)
           /\ Len(Append(old, Turn(role, c))) = Len(old) + 1
<1> DEFINE x == Turn(role, c)
<1>1. x \in Turns /\ x.by = c
  BY TurnsAreTurns
<1> HIDE DEF x
<1>2. /\ Append(old, x) \in Seq(Turns) /\ Len(Append(old, x)) = Len(old) + 1 /\ Len(old) \in Nat
      /\ Append(old, x)[Len(old) + 1] = x
      /\ \A i \in 1 .. Len(old) : Append(old, x)[i] = old[i]
  BY <1>1, AppendFacts
<1>3. Extends(Append(old, x), old, c)
  BY <1>1, <1>2 DEF Extends
<1> QED  BY <1>2, <1>3 DEF x

LEMMA TwoMore ==
    ASSUME NEW old \in Seq(Turns), NEW c \in Caller
    PROVE  Extends(old \o Exchange(c), old, c)
<1> DEFINE x == Turn("user", c)
           y == Turn("assistant", c)
<1>1. x \in Turns /\ x.by = c /\ y \in Turns /\ y.by = c
  BY TurnsAreTurns
<1> HIDE DEF x, y
<1>2. /\ <<x, y>> \in Seq(Turns) /\ Len(<<x, y>>) = 2
      /\ \A i \in 1 .. 2 : <<x, y>>[i].by = c
  BY <1>1
<1> DEFINE e == <<x, y>>
           g == old \o e
<1>3. /\ g \in Seq(Turns) /\ Len(g) = Len(old) + 2 /\ Len(old) \in Nat
      /\ \A i \in 1 .. Len(old) : g[i] = old[i]
      /\ \A i \in (Len(old) + 1) .. (Len(old) + 2) : g[i] = e[i - Len(old)]
  BY <1>2, ConcatFacts
<1> HIDE DEF e, g
<1>4. \A i \in (Len(old) + 1) .. (Len(old) + 2) : g[i].by = c
  <2>1. \A i \in (Len(old) + 1) .. (Len(old) + 2) : i - Len(old) \in 1 .. 2
    BY <1>3
  <2> QED  BY <1>2, <1>3, <2>1 DEF e
<1>5. Extends(g, old, c)
  BY <1>3, <1>4 DEF Extends
<1>6. old \o Exchange(c) = g
  BY DEF Exchange, g, e, x, y
<1> QED  BY <1>5, <1>6, Zenon

\* Nobody founds a thread that is stored.
LEMMA StoredIsFounded ==
    ASSUME TInv, NEW t \in Thread, memory[t] # None
    PROVE  t \in issued /\ \A d \in Caller : Founds(d) => target[d] # t
BY DEF TInv, UnwrittenInv, Unwritten

LEMMA ReplyTrace ==
    ASSUME TInv, NEW c \in Caller, UNCHANGED coordinationVars, SaveReply(c) \/ SaveErrorReply(c)
    PROVE  TInv'
<1>1. PICK t, old, h : t = target[c] /\ old = memory[t] /\ h = Append(old, Turn("assistant", c))
  OBVIOUS
<1>2. /\ body[c] = "asking" /\ c \notin Clink /\ old # None
      /\ Save(t, h) /\ Record(t, h, Len(h))
      /\ known' = known \cup {target[c]}
      /\ UNCHANGED <<issued, target, free, snapshot>>
  BY <1>1, LifecycleAssumption DEF SaveReply, SaveErrorReply, Executing
<1>3. PICK answer : End(c, answer) /\ answer.kind \notin {"refused"}
  BY DEF SaveReply, SaveErrorReply, Answer
<1>4. t \in Thread /\ old \in Seq(Turns)
  BY <1>1, <1>2 DEF TInv, Stages, LifecycleTypes, Histories
<1>5. Extends(h, old, c) /\ Len(h) = Len(old) + 1
  BY <1>1, <1>4, OneMore
<1>6. /\ AuditInv' /\ \A d \in Caller \ {c} : NoTrace(d) => NoTrace(d)'
      /\ memory' \in [Thread -> Histories]
      /\ \A s \in Thread \ {t} : memory'[s] = memory[s] /\ audit'[s] = audit[s]
  <2>1. Record(t, h, Len(old) + 1)
    BY <1>2, <1>5
  <2>2. old = IF memory[t] = None THEN << >> ELSE memory[t]
    BY <1>1, <1>2
  <2> QED  BY <1>1, <1>2, <1>4, <1>5, <2>1, <2>2, WriteTrace
<1>7. t \in issued /\ \A d \in Caller : Founds(d) => target[d] # t
  BY <1>1, <1>2, <1>4, StoredIsFounded
<1> QED  BY <1>2, <1>3, <1>6, <1>7, EndTrace

LEMMA CommitTrace ==
    ASSUME TInv, NEW c \in Caller, UNCHANGED coordinationVars, Commit(c)
    PROVE  TInv'
<1>1. PICK t, old, h : t = target[c] /\ old = Base(c) /\ h = old \o Exchange(c)
  OBVIOUS
<1>2. /\ body[c] = "asking" /\ c \in Clink /\ memory[t] = snapshot[c]
      /\ Save(t, h) /\ Record(t, h, Len(old) + 1)
      /\ known' = known \cup {target[c]}
      /\ UNCHANGED <<issued, target, free, snapshot>>
  BY <1>1 DEF Commit, Executing, Replace
<1>3. PICK answer : End(c, answer) /\ answer.kind = "replied"
  BY DEF Commit, Answer
<1>4. t \in Thread /\ t \in issued
  BY <1>1, <1>2 DEF TInv, Stages, LifecycleTypes
<1>5. old = (IF memory[t] = None THEN << >> ELSE memory[t]) /\ old \in Seq(Turns)
  BY <1>1, <1>2, <1>4 DEF Base, TInv, LifecycleTypes, Histories
<1>6. Extends(h, old, c)
  BY <1>1, <1>5, TwoMore
<1>7. memory[t] = None => Founds(c) /\ audit[t] = << >>
  BY <1>1, <1>2 DEF TInv, UnwrittenInv, Unwritten, Founds
<1>8. /\ AuditInv' /\ \A d \in Caller \ {c} : NoTrace(d) => NoTrace(d)'
      /\ memory' \in [Thread -> Histories]
      /\ \A s \in Thread \ {t} : memory'[s] = memory[s] /\ audit'[s] = audit[s]
  BY <1>2, <1>4, <1>5, <1>6, <1>7, WriteTrace
<1>9. \A d \in Caller \ {c} : Founds(d) => target[d] # t
  <2>1. CASE memory[t] = None
    BY <1>1, <1>7, <2>1 DEF TInv, UnwrittenInv
  <2>2. CASE memory[t] # None
    BY <1>4, <2>2, StoredIsFounded
  <2> QED  BY <2>1, <2>2
<1> QED  BY <1>2, <1>3, <1>4, <1>8, <1>9, EndTrace

\* A mark changes neither the author nor the role of a turn.
LEMMA MarkTrace ==
    ASSUME TInv, NEW c \in Caller, UNCHANGED coordinationVars, SaveFailedState(c)
    PROVE  TInv'
<1>1. PICK t, old, n, h : /\ t = target[c] /\ old = memory[t] /\ n = Len(old)
                          /\ h = [old EXCEPT ![n].state = c]
  OBVIOUS
<1>2. /\ body[c] = "asking" /\ c \notin Clink /\ old # None /\ old[n].role = "user"
      /\ memory' = [memory EXCEPT ![t] = h] /\ audit' = audit
      /\ known' = known \cup {target[c]}
      /\ UNCHANGED <<issued, target, free, snapshot>>
  BY <1>1, LifecycleAssumption DEF SaveFailedState, Executing, Save
<1>3. PICK answer : End(c, answer) /\ answer.kind \notin {"refused"}
  BY DEF SaveFailedState, Answer
<1>4. t \in Thread /\ old \in Seq(Turns)
  BY <1>1, <1>2 DEF TInv, Stages, LifecycleTypes, Histories
<1>5. /\ h \in Seq(Turns) /\ DOMAIN h = DOMAIN old
      /\ \A i \in DOMAIN old : h[i].by = old[i].by /\ h[i].role = old[i].role
  <2>1. DOMAIN old = 1 .. n /\ n \in Nat /\ \A i \in 1 .. n : old[i] \in Turns
    BY <1>1, <1>4
  <2>2. \A i \in 1 .. n : [old[i] EXCEPT !.state = c] \in Turns
    BY <2>1 DEF Turns
  <2>3. \A i \in 1 .. n : h[i] = IF i = n THEN [old[i] EXCEPT !.state = c] ELSE old[i]
    BY <1>1, <2>1
  <2>4. h \in [1 .. n -> Turns]
    BY <1>1, <2>1, <2>2
  <2>5. h \in Seq(Turns)
    BY <2>1, <2>4
  <2>6. \A i \in 1 .. n : h[i].by = old[i].by /\ h[i].role = old[i].role
    BY <2>1, <2>3 DEF Turns
  <2> QED  BY <2>1, <2>4, <2>5, <2>6
<1>6. /\ memory'[t] = h /\ memory' \in [Thread -> Histories]
      /\ \A s \in Thread \ {t} : memory'[s] = memory[s]
  BY <1>2, <1>4, <1>5 DEF TInv, LifecycleTypes, Histories
<1>7. AuditInv'
  <2>1. Describes(audit[t], old) => Describes(audit[t], h)
    BY <1>5 DEF Describes
  <2> QED  BY <1>1, <1>2, <1>6, <2>1 DEF TInv, AuditInv
<1>8. \A d \in Caller : NoTrace(d) => NoTrace(d)'
  <2> SUFFICES ASSUME NEW d \in Caller, NoTrace(d) PROVE NoTrace(d)'
    OBVIOUS
  <2>1. \A i \in DOMAIN h : h[i].by # d
    BY <1>1, <1>2, <1>4, <1>5 DEF NoTrace
  <2> QED  BY <1>2, <1>6, <2>1 DEF NoTrace
<1>9. t \in issued /\ \A d \in Caller : Founds(d) => target[d] # t
  BY <1>1, <1>2, <1>4, StoredIsFounded
<1> QED  BY <1>2, <1>3, <1>6, <1>7, <1>8, <1>9, EndTrace

LEMMA AdmitTrace ==
    ASSUME TInv, NEW c \in Caller, UNCHANGED coordinationVars, Admit(c)
    PROVE  TInv'
<1>1. PICK t, old, h : t = thread[c] /\ old = memory[t] /\ h = Append(old, Turn("user", c))
  OBVIOUS
<1>2. /\ body[c] = "start" /\ c \notin Clink /\ t # None /\ old # None
      /\ MaxTurns - Len(old) >= 2
      /\ Save(t, h) /\ Record(t, h, Len(h))
      /\ free' = [free EXCEPT ![c] = MaxTurns - Len(old)]
      /\ body' = [body EXCEPT ![c] = "asking"] /\ target' = [target EXCEPT ![c] = t]
      /\ UNCHANGED <<issued, known, snapshot, result>>
  BY <1>1 DEF Admit, Executing, HasRoom
<1>4. t \in Thread /\ old \in Seq(Turns)
  BY <1>1, <1>2 DEF TInv, LifecycleTypes, Histories, IInv, TypeOK
<1>5. Extends(h, old, c) /\ Len(h) = Len(old) + 1
  BY <1>1, <1>4, OneMore
<1>6. /\ AuditInv' /\ \A d \in Caller \ {c} : NoTrace(d) => NoTrace(d)'
      /\ memory' \in [Thread -> Histories]
      /\ \A s \in Thread \ {t} : memory'[s] = memory[s] /\ audit'[s] = audit[s]
  <2>1. Record(t, h, Len(old) + 1)
    BY <1>2, <1>5
  <2>2. old = IF memory[t] = None THEN << >> ELSE memory[t]
    BY <1>1, <1>2
  <2> QED  BY <1>1, <1>2, <1>4, <1>5, <2>1, <2>2, WriteTrace
<1>7. t \in issued /\ \A d \in Caller : Founds(d) => target[d] # t
  BY <1>1, <1>2, <1>4, StoredIsFounded
<1>8. /\ body'[c] = "asking" /\ target'[c] = t /\ result'[c] = None
      /\ \A d \in Caller \ {c} : body'[d] = body[d] /\ target'[d] = target[d]
  BY <1>2 DEF TInv, LifecycleTypes, Stages
<1>9. LifecycleTypes'
  <2>1. MaxTurns - Len(old) \in Nat
    BY <1>2, <1>4, LifecycleAssumption
  <2> QED  BY <1>2, <1>4, <1>6, <2>1 DEF TInv, LifecycleTypes
<1>10. ~Silent(c)' /\ ~Founds(c)' /\ IInv'
  BY <1>2, <1>8, CoordinationKeptToo DEF Silent, Founds
<1> QED  BY <1>2, <1>6, <1>7, <1>8, <1>9, <1>10, TraceStep

LEMMA AdmitNewTrace ==
    ASSUME TInv, NEW c \in Caller, NEW t \in Thread, UNCHANGED coordinationVars, AdmitNew(c, t)
    PROVE  TInv'
<1>1. PICK h : h = <<Turn("user", c)>>
  OBVIOUS
<1>2. /\ body[c] = "start" /\ c \notin Clink /\ t \notin issued /\ MaxTurns >= 2
      /\ Save(t, h) /\ Record(t, h, 1)
      /\ issued' = issued \cup {t} /\ known' \in {known, known \cup {t}}
      /\ free' = [free EXCEPT ![c] = MaxTurns]
      /\ body' = [body EXCEPT ![c] = "asking"] /\ target' = [target EXCEPT ![c] = t]
      /\ UNCHANGED <<snapshot, result>>
  BY <1>1 DEF AdmitNew, Executing, Create, FreshThread
<1>3. memory[t] = None /\ audit[t] = << >>
  BY <1>2 DEF TInv, UnwrittenInv, Unwritten
<1>4. Extends(h, << >>, c)
  <2>1. Turn("user", c) \in Turns /\ Turn("user", c).by = c
    BY TurnsAreTurns
  <2> QED  BY <1>1, <2>1 DEF Extends
<1>5. Record(t, h, Len(<< >>) + 1)
  <2>1. Len(<< >>) + 1 = 1
    OBVIOUS
  <2> QED  BY <1>2, <2>1
<1>6. /\ AuditInv' /\ \A d \in Caller \ {c} : NoTrace(d) => NoTrace(d)'
      /\ memory' \in [Thread -> Histories]
      /\ \A s \in Thread \ {t} : memory'[s] = memory[s] /\ audit'[s] = audit[s]
  BY <1>2, <1>3, <1>4, <1>5, WriteTrace
<1>7. t \in issued' /\ \A d \in Caller : Founds(d) => target[d] # t
  BY <1>2 DEF TInv, Stages, Founds
<1>8. /\ body'[c] = "asking" /\ target'[c] = t /\ result'[c] = None
      /\ \A d \in Caller \ {c} : body'[d] = body[d] /\ target'[d] = target[d]
  BY <1>2 DEF TInv, LifecycleTypes, Stages
<1>9. LifecycleTypes'
  BY <1>2, <1>6, LifecycleAssumption DEF TInv, LifecycleTypes
<1>10. ~Silent(c)' /\ ~Founds(c)' /\ IInv'
  BY <1>2, <1>8, CoordinationKeptToo DEF Silent, Founds
<1> QED  BY <1>2, <1>6, <1>7, <1>8, <1>9, <1>10, TraceStep

LEMMA LoadTrace ==
    ASSUME TInv, NEW c \in Caller, UNCHANGED coordinationVars,
           Load(c) \/ \E t \in Thread : LoadNew(c, t)
    PROVE  TInv'
<1>1. /\ body[c] = "start" /\ c \in Clink /\ memory' = memory /\ audit' = audit
      /\ body' = [body EXCEPT ![c] = "asking"]
      /\ UNCHANGED <<known, free, result>>
  BY DEF Load, LoadNew, Executing
<1>2. PICK t \in Thread :
         /\ target' = [target EXCEPT ![c] = t] /\ t \in issued' /\ issued \subseteq issued'
         /\ issued' \subseteq Thread /\ snapshot' \in [Caller -> Histories]
         /\ \A d \in Caller \ {c} : snapshot'[d] = snapshot[d]
         /\ snapshot'[c] = None => t \notin issued
  <2>1. CASE Load(c)
    <3>1. /\ thread[c] # None /\ memory[thread[c]] # None /\ UNCHANGED issued
          /\ target' = [target EXCEPT ![c] = thread[c]]
          /\ snapshot' = [snapshot EXCEPT ![c] = memory[thread[c]]]
      BY <2>1 DEF Load
    <3>2. thread[c] \in Thread /\ thread[c] \in issued
      BY <3>1, StoredIsFounded DEF TInv, IInv, TypeOK
    <3>3. /\ issued \subseteq Thread /\ snapshot'[c] # None
          /\ snapshot' \in [Caller -> Histories]
          /\ \A d \in Caller \ {c} : snapshot'[d] = snapshot[d]
      BY <3>1, <3>2 DEF TInv, LifecycleTypes
    <3> QED  BY <3>1, <3>2, <3>3
  <2>2. ASSUME NEW t \in Thread, LoadNew(c, t)
        PROVE  /\ target' = [target EXCEPT ![c] = t] /\ t \in issued' /\ issued \subseteq issued'
               /\ issued' \subseteq Thread /\ snapshot' \in [Caller -> Histories]
               /\ \A d \in Caller \ {c} : snapshot'[d] = snapshot[d]
               /\ t \notin issued
    BY <2>2 DEF LoadNew, FreshThread, TInv, LifecycleTypes
  <2> QED  BY <2>1, <2>2
<1>3. AuditInv' /\ \A d \in Caller : NoTrace(d) => NoTrace(d)'
  BY <1>1, QuietTrace
<1>4. /\ body'[c] = "asking" /\ target'[c] = t /\ result'[c] = None
      /\ \A d \in Caller \ {c} : body'[d] = body[d] /\ target'[d] = target[d]
  BY <1>1, <1>2 DEF TInv, LifecycleTypes, Stages
<1>5. LifecycleTypes'
  BY <1>1, <1>2 DEF TInv, LifecycleTypes
<1>6. Silent(c)' => NoTrace(c)'
  BY <1>1, <1>3 DEF TInv, Silent
<1>7. Founds(c)' => /\ Unwritten(target[c])'
                    /\ \A d \in Caller \ {c} : Founds(d) => target[d] # target'[c]
  <2>1. t \notin issued => memory[t] = None /\ audit[t] = << >>
                           /\ \A d \in Caller : Founds(d) => target[d] # t
    BY DEF TInv, UnwrittenInv, Unwritten, Stages, Founds
  <2> QED  BY <1>1, <1>2, <1>4, <2>1 DEF Founds, Unwritten
<1>8. IInv'
  BY CoordinationKeptToo
<1> QED  BY <1>1, <1>2, <1>3, <1>4, <1>5, <1>6, <1>7, <1>8, TraceStep

LEMMA ExpireTrace ==
    ASSUME TInv, NEW t \in Thread, UNCHANGED coordinationVars, Expire(t)
    PROVE  TInv'
<1>1. /\ memory[t] # None /\ memory' = [memory EXCEPT ![t] = None] /\ audit' = audit
      /\ UNCHANGED <<issued, known, body, target, free, snapshot, result>>
  BY DEF Expire, Save
<1>2. /\ memory'[t] = None /\ memory' \in [Thread -> Histories]
      /\ \A s \in Thread \ {t} : memory'[s] = memory[s]
  BY <1>1 DEF TInv, LifecycleTypes, Histories
<1>3. LifecycleTypes'
  BY <1>1, <1>2 DEF TInv, LifecycleTypes
<1>4. Stages' /\ AuditInv'
  BY <1>1, <1>2 DEF TInv, Stages, AuditInv
<1>5. UnwrittenInv'
  <2>1. \A d \in Caller : Founds(d) => target[d] \in Thread
    BY DEF TInv, Stages, LifecycleTypes, Founds
  <2> QED  BY <1>1, <1>2, <2>1 DEF TInv, UnwrittenInv, Unwritten, Founds
<1>6. \A d \in Caller : Silent(d)' => NoTrace(d)'
  BY <1>1, <1>2 DEF TInv, Silent, NoTrace
<1>7. IInv'
  BY CoordinationKeptToo
<1> QED  BY <1>3, <1>4, <1>5, <1>6, <1>7 DEF TInv

LEMMA IdleTrace ==
    ASSUME TInv, IInv', UNCHANGED lifecycleVars
    PROVE  TInv'
<1> USE DEF lifecycleVars
<1>1. LifecycleTypes' /\ Stages' /\ AuditInv'
  BY DEF TInv, LifecycleTypes, Stages, AuditInv
<1>2. UnwrittenInv'
  BY DEF TInv, UnwrittenInv, Unwritten, Founds
<1>3. \A d \in Caller : Silent(d)' => NoTrace(d)'
  BY DEF TInv, Silent, NoTrace
<1> QED  BY <1>1, <1>2, <1>3 DEF TInv

LEMMA NextTInv == TInv /\ [LifecycleNext]_allVars => TInv'
<1> SUFFICES ASSUME TInv, [LifecycleNext]_allVars PROVE TInv'
  OBVIOUS
<1>1. ASSUME NEW c \in Caller, BodyStep(c), UNCHANGED coordinationVars PROVE TInv'
  BY <1>1, QuietEndTrace, AdmitTrace, AdmitNewTrace, LoadTrace, ReplyTrace, MarkTrace,
     CommitTrace DEF BodyStep
<1>2. ASSUME NEW c \in Caller, CoordinationStep(c), UNCHANGED lifecycleVars PROVE TInv'
  <2>1. CoordinationNext
    <3>1. known \subseteq Thread
      BY DEF TInv, LifecycleTypes
    <3> QED  BY <1>2, <3>1 DEF CoordinationStep, CoordinationNext
  <2>2. IInv'
    BY <2>1, NextIInv DEF TInv
  <2> QED  BY <1>2, <2>2, IdleTrace
<1>3. ASSUME NEW t \in Thread, Expire(t), UNCHANGED coordinationVars PROVE TInv'
  BY <1>3, ExpireTrace
<1>4. CASE UNCHANGED allVars
  BY <1>4, CoordinationKeptToo, IdleTrace DEF allVars
<1> QED  BY <1>1, <1>2, <1>3, <1>4 DEF LifecycleNext, Quiescent, allVars

\* A transcript holds an ordered excerpt of the turns of its thread, each under its own number,
\* and nothing by requests that were refused or not committed, wherever clients take their ids
\* from and whatever expires (utils/transcripts.py, utils/conversation_memory.py).
THEOREM TranscriptIsTrueHolds == LifecycleSpec => []TranscriptIsTrue
<1>1. TInv => AuditMatchesMemory
  BY DEF TInv, AuditInv, Grows, Describes, AuditMatchesMemory
<1>2. TInv => NoTraceOfTheUncommitted
  BY DEF TInv, Silent, NoTrace, By, NoTraceOfTheUncommitted
<1> QED  BY <1>1, <1>2, InitTInv, NextTInv, PTL DEF LifecycleSpec, TranscriptIsTrue
=============================================================================
