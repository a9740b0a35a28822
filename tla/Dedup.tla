------------------------------- MODULE Dedup -------------------------------
(***************************************************************************)
(* The idempotency keys of dedup.go: goroutines submit (email, key) pairs  *)
(* and retry them, Cleanup sweeps the map, the process restarts.  A second *)
(* is the unit of time; hashKey is taken to be injective on the pairs.     *)
(***************************************************************************)
EXTENDS Integers, FiniteSets

CONSTANTS
  Keys,                \* (email, client_order_id) pairs
  Procs,               \* goroutines in checkClientOrderIDDuplicate
  TTL, Never,
  MaxTime, MaxRestarts                     \* bounds of a finite instance

ASSUME DedupAssumption ==
  /\ TTL \in Nat \ {0}
  /\ MaxTime \in Nat /\ MaxRestarts \in Nat /\ Never \notin Int

VARIABLES
  now,
  entries,             \* Dedup.entries: key -> time
  calling,             \* per goroutine: the key it submits, or Never
  answer,              \* per goroutine: what its last SeenOrAdd returned
  fresh,               \* history: per key, when it was last taken for new
  restarts             \* consumed bound

vars == <<now, entries, calling, answer, fresh, restarts>>

Put(map, k, v) == [j \in DOMAIN map \cup {k} |-> IF j = k THEN v ELSE map[j]]

Init ==
  /\ now = 0 /\ entries = <<>>
  /\ calling = [p \in Procs |-> Never]
  /\ answer = [p \in Procs |-> FALSE]
  /\ fresh = [k \in Keys |-> Never]
  /\ restarts = 0

\* A call reaches the check; retries and repeats are calls like any other.
Call(p, k) ==
  /\ calling[p] = Never
  /\ calling' = [calling EXCEPT ![p] = k]
  /\ UNCHANGED <<now, entries, answer, fresh, restarts>>

within(k) == k \in DOMAIN entries /\ now - entries[k] < TTL

SeenOrAddMutant(p) ==
  /\ calling[p] # Never
  /\ LET k == calling[p] IN
     /\ answer' = [answer EXCEPT ![p] = within(k)]
     /\ entries' = Put(entries, k, now)
     /\ fresh' = IF within(k) THEN fresh ELSE [fresh EXCEPT ![k] = now]
  /\ calling' = [calling EXCEPT ![p] = Never]
  /\ UNCHANGED <<now, restarts>>
SeenOrAddMutant2(p) ==
  /\ calling[p] # Never
  /\ LET k == calling[p] IN
     /\ answer' = [answer EXCEPT ![p] = within(k)]
     /\ entries' = IF within(k) THEN entries ELSE Put(entries, k, now + TTL)
     /\ fresh' = IF within(k) THEN fresh ELSE [fresh EXCEPT ![k] = now]
  /\ calling' = [calling EXCEPT ![p] = Never]
  /\ UNCHANGED <<now, restarts>>
SeenOrAdd(p) ==
  /\ calling[p] # Never
  /\ LET k == calling[p] IN
     /\ answer' = [answer EXCEPT ![p] = within(k)]
     /\ entries' = IF within(k) THEN entries ELSE Put(entries, k, now)
     /\ fresh' = IF within(k) THEN fresh ELSE [fresh EXCEPT ![k] = now]
  /\ calling' = [calling EXCEPT ![p] = Never]
  /\ UNCHANGED <<now, restarts>>

CleanupMutant ==
  /\ entries' = [k \in {j \in DOMAIN entries : now - entries[j] < TTL - 1} |-> entries[k]]
  /\ UNCHANGED <<now, calling, answer, fresh, restarts>>
Cleanup ==
  /\ entries' = [k \in {j \in DOMAIN entries : now - entries[j] < TTL} |-> entries[k]]
  /\ UNCHANGED <<now, calling, answer, fresh, restarts>>

Tick ==
  /\ now < MaxTime
  /\ now' = now + 1
  /\ UNCHANGED <<entries, calling, answer, fresh, restarts>>

\* The map is process-local: the calls in flight and all keys are gone.
Restart ==
  /\ restarts < MaxRestarts
  /\ restarts' = restarts + 1
  /\ entries' = <<>> /\ fresh' = [k \in Keys |-> Never]
  /\ calling' = [p \in Procs |-> Never]
  /\ UNCHANGED <<now, answer>>

Next ==
  \/ \E p \in Procs : SeenOrAdd(p) \/ \E k \in Keys : Call(p, k)
  \/ Cleanup \/ Tick \/ Restart

Spec == Init /\ [][Next]_vars

----------------------------------------------------------------------------
\* Every variable stays in its range; no entry is from the future.
TypeOK ==
  /\ now \in 0..MaxTime
  /\ DOMAIN entries \subseteq Keys /\ \A k \in DOMAIN entries : entries[k] \in 0..now
  /\ calling \in [Procs -> Keys \cup {Never}]
  /\ answer \in [Procs -> BOOLEAN]
  /\ restarts \in 0..MaxRestarts
  /\ fresh \in [Keys -> {Never} \cup 0..now]

\* The map says "duplicate" when the key was taken for new less than TTL ago,
\* and only then: neither an overwritten nor a swept entry changes the answer.
Faithful ==
  \A k \in Keys : within(k) <=> fresh[k] # Never /\ now - fresh[k] < TTL

\* The code implements the promise of idempotency keys.
Promise == INSTANCE Idempotency
  WITH Callers <- Procs, Window <- TTL, time <- now, first <- fresh
ImplementsPromise == Promise!Spec
=============================================================================
