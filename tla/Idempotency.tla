----------------------------- MODULE Idempotency -----------------------------
(***************************************************************************)
(* What idempotency keys promise: of the submissions of one key, one is    *)
(* the first, and for Window seconds from then on all others are           *)
(* duplicates.  Dedup.tla implements it.                                   *)
(***************************************************************************)
EXTENDS Integers

CONSTANTS Keys, Callers, Window, Never

VARIABLES
  time,
  first,               \* per key: when it was last taken for new
  answer               \* per caller: whether its last submission was a duplicate

vars == <<time, first, answer>>

Init ==
  /\ time = 0
  /\ first = [k \in Keys |-> Never]
  /\ answer = [c \in Callers |-> FALSE]

Duplicate(k) == first[k] # Never /\ time - first[k] < Window

Submit(c, k) ==
  /\ answer' = [answer EXCEPT ![c] = Duplicate(k)]
  /\ first' = IF Duplicate(k) THEN first ELSE [first EXCEPT ![k] = time]
  /\ UNCHANGED time

Tick == time' = time + 1 /\ UNCHANGED <<first, answer>>

\* The memory of first submissions lasts as long as the process.
Restart == first' = [k \in Keys |-> Never] /\ UNCHANGED <<time, answer>>

Next == (\E c \in Callers, k \in Keys : Submit(c, k)) \/ Tick \/ Restart

Spec == Init /\ [][Next]_vars
=============================================================================
