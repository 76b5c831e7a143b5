------------------------- MODULE ConversationMutex -------------------------
(***************************************************************************)
(* What utils/conversation_coordination.py promises, without registry,     *)
(* reference counts, deques or futures: per conversation, a set of         *)
(* invocations that are present and at most one of them holding it.  An    *)
(* invocation may be turned away only while somebody else is present, and  *)
(* one that finds nobody present holds the conversation at once.           *)
(***************************************************************************)
CONSTANTS Caller, Clink, Thread, None

VARIABLES present,   \* per thread: who holds it or waits for it
          holder,    \* per thread: who holds it, or None
          rejected   \* who was told that the conversation is busy

mutexVars == <<present, holder, rejected>>

Init ==
    /\ present = [t \in Thread |-> {}]
    /\ holder = [t \in Thread |-> None]
    /\ rejected = {}

Absent(c) == \A t \in Thread : c \notin present[t]

Arrive(c, t) ==
    /\ Absent(c)
    /\ c \notin rejected
    /\ present' = [present EXCEPT ![t] = @ \cup {c}]
    /\ \/ /\ holder[t] = None
          /\ holder' = [holder EXCEPT ![t] = c]
       \/ /\ present[t] # {}
          /\ c \notin Clink
          /\ holder' = holder
    /\ UNCHANGED rejected

Reject(c, t) ==
    /\ Absent(c)
    /\ c \in Clink
    /\ present[t] # {}
    /\ rejected' = rejected \cup {c}
    /\ UNCHANGED <<present, holder>>

Acquire(c, t) ==
    /\ c \in present[t]
    /\ holder[t] = None
    /\ holder' = [holder EXCEPT ![t] = c]
    /\ UNCHANGED <<present, rejected>>

Depart(c, t) ==
    /\ c \in present[t]
    /\ present' = [present EXCEPT ![t] = @ \ {c}]
    /\ holder' = [holder EXCEPT ![t] = IF @ = c THEN None ELSE @]
    /\ UNCHANGED rejected

Next ==
    \E c \in Caller, t \in Thread :
        Arrive(c, t) \/ Reject(c, t) \/ Acquire(c, t) \/ Depart(c, t)

Spec == Init /\ [][Next]_mutexVars
=============================================================================
