-------------------------- MODULE ConversationLog --------------------------
(***************************************************************************)
(* What conversation memory promises about a thread, without locks,        *)
(* snapshots or requests in progress: its history is only ever extended,   *)
(* by an input, by the reply to the input at its end, or by a whole        *)
(* exchange; the input at its end may be marked as failed; it is bounded;  *)
(* and once it has ceased to exist it never comes back.                    *)
(***************************************************************************)
EXTENDS Integers, Sequences

CONSTANTS Caller,    \* who writes turns
          Thread,
          None,
          MaxTurns

VARIABLES history,   \* per thread: its turns, or None when it does not exist
          fresh      \* the threads that may still come into existence

logVars == <<history, fresh>>

Init == fresh = {t \in Thread : history[t] = None}

Turn(role, c) == [role |-> role, by |-> c, state |-> None]
Input(c) == <<Turn("user", c)>>
Exchange(c) == <<Turn("user", c), Turn("assistant", c)>>

Set(t, h) ==
    /\ Len(h) <= MaxTurns
    /\ history' = [history EXCEPT ![t] = h]

Begin(t, c) ==
    /\ t \in fresh
    /\ \E h \in {Input(c), Exchange(c)} : Set(t, h)
    /\ fresh' = fresh \ {t}

Extend(t, c) ==
    /\ history[t] # None
    /\ \E h \in {Input(c), Exchange(c)} : Set(t, history[t] \o h)
    /\ UNCHANGED fresh

EndsWithInputOf(t, c) ==
    /\ history[t] # None
    /\ LET last == history[t][Len(history[t])] IN last.role = "user" /\ last.by = c

Reply(t, c) ==
    /\ EndsWithInputOf(t, c)
    /\ Set(t, Append(history[t], Turn("assistant", c)))
    /\ UNCHANGED fresh

MarkFailed(t, c) ==
    /\ EndsWithInputOf(t, c)
    /\ Set(t, [history[t] EXCEPT ![Len(history[t])].state = c])
    /\ UNCHANGED fresh

Expire(t) ==
    /\ history[t] # None
    /\ history' = [history EXCEPT ![t] = None]
    /\ UNCHANGED fresh

\* An id that was generated is never used.
Discard(t) ==
    /\ history[t] = None
    /\ fresh' = fresh \ {t}
    /\ UNCHANGED history

Next ==
    \E t \in Thread :
        \/ \E c \in Caller : Begin(t, c) \/ Extend(t, c) \/ Reply(t, c) \/ MarkFailed(t, c)
        \/ Expire(t)
        \/ Discard(t)

Spec == Init /\ [][Next]_logVars
=============================================================================
