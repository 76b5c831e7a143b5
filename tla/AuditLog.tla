------------------------------ MODULE AuditLog ------------------------------
(***************************************************************************)
(* What a transcript promises its readers: complete events only, in the    *)
(* order they were submitted, never changed or removed one by one; an      *)
(* event may be missing, and may appear late, but not out of order.  Only  *)
(* retention removes events, all of them.                                  *)
(***************************************************************************)
EXTENDS Naturals, Sequences

CONSTANT MaxEvents   \* bound: the events submitted, numbered from 1

VARIABLE log

Increasing(s) == \A i, j \in DOMAIN s : i < j => s[i] < s[j]

Init == log = <<>>

Extend(s) == /\ s # <<>> /\ Increasing(log \o s)
             /\ log' = log \o s

Retire == log # <<>> /\ log' = <<>>

(* The increasing sequences of events.                                     *)
Increments == UNION {{s \in [1..n -> 1..MaxEvents] : Increasing(s)} : n \in 1..MaxEvents}

Next == (\E s \in Increments : Extend(s)) \/ Retire

Spec == Init /\ [][Next]_log
=============================================================================
