--------------------------- MODULE ExpiringStore ---------------------------
(***************************************************************************)
(* What the conversation storage promises to its users: a map from keys to *)
(* values, each of which lives for exactly TTL units of time after it was  *)
(* last written.  Reading, failing to replace a value, and removing dead   *)
(* entries from memory cannot be observed.                                 *)
(***************************************************************************)
EXTENDS Integers

CONSTANTS Key,
          Value,
          TTL,
          None

VARIABLES live,   \* per key: the value a reader gets, or None
          left    \* per key: how long it will live

expiringVars == <<live, left>>

Init ==
    /\ live = [k \in Key |-> None]
    /\ left = [k \in Key |-> 0]

Write(k, v) ==
    /\ live' = [live EXCEPT ![k] = v]
    /\ left' = [left EXCEPT ![k] = TTL]

TimePasses ==
    /\ live' = [k \in Key |-> IF left[k] > 1 THEN live[k] ELSE None]
    /\ left' = [k \in Key |-> IF left[k] > 1 THEN left[k] - 1 ELSE 0]

Next == TimePasses \/ \E k \in Key, v \in Value : Write(k, v)

Spec == Init /\ [][Next]_expiringVars
=============================================================================
