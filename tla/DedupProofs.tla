----------------------------- MODULE DedupProofs -----------------------------
(***************************************************************************)
(* The idempotency keys for any number of keys, goroutines, seconds and    *)
(* restarts: what the map answers, and that it implements Idempotency.tla. *)
(***************************************************************************)
EXTENDS Dedup, TLAPS

\* Why the answer is right: an entry still in the map dates from the moment
\* the key was last taken for new, and a sweep spares the ones that count.
Dated ==
  \A k \in Keys :
    /\ k \in DOMAIN entries => fresh[k] = entries[k]
    /\ fresh[k] # Never /\ now - fresh[k] < TTL => k \in DOMAIN entries

IInv == TypeOK /\ Dated

----------------------------------------------------------------------------
\* SeenOrAdd, Cleanup and Restart keep the entries in range: no key that was
\* not submitted, no time that has not come.
LEMMA TypeStep ==
  ASSUME TypeOK, [Next]_vars
  PROVE  TypeOK'
<1> USE DedupAssumption DEF TypeOK
<1>1. ASSUME NEW p \in Procs, SeenOrAdd(p)
      PROVE  TypeOK'
  <2>1. calling[p] \in Keys
    BY <1>1 DEF SeenOrAdd
  <2>2. CASE within(calling[p])
    BY <1>1, <2>1, <2>2 DEF SeenOrAdd
  <2>3. CASE ~within(calling[p])
    <3>0. within(calling[p]) = FALSE
      BY <2>3 DEF within
    <3>1. /\ entries' = Put(entries, calling[p], now)
          /\ fresh' = [fresh EXCEPT ![calling[p]] = now]
          /\ answer' = [answer EXCEPT ![p] = FALSE]
          /\ calling' = [calling EXCEPT ![p] = Never]
          /\ UNCHANGED <<now, restarts>>
      BY <1>1, <3>0 DEF SeenOrAdd
    <3>2. /\ DOMAIN entries' \subseteq Keys
          /\ \A k \in DOMAIN entries' : entries'[k] \in 0..now'
      BY <2>1, <3>1 DEF Put
    <3>3. /\ fresh' \in [Keys -> {Never} \cup 0..now']
          /\ answer' \in [Procs -> BOOLEAN]
          /\ calling' \in [Procs -> Keys \cup {Never}]
      BY <2>1, <3>1
    <3> QED
      BY <3>1, <3>2, <3>3
  <2> QED
    BY <2>2, <2>3
<1>2. ASSUME NEW p \in Procs, NEW k \in Keys, Call(p, k)
      PROVE  TypeOK'
  BY <1>2 DEF Call
<1>3. CASE Cleanup
  BY <1>3 DEF Cleanup
<1>4. CASE Tick
  <2>1. now' \in 0..MaxTime /\ 0..now \subseteq 0..now'
    BY <1>4 DEF Tick
  <2> QED
    BY <1>4, <2>1 DEF Tick
<1>5. CASE Restart
  <2>1. entries' = <<>> /\ DOMAIN entries' = {}
    BY <1>5 DEF Restart
  <2> QED
    BY <1>5, <2>1 DEF Restart
<1>6. CASE UNCHANGED vars
  BY <1>6 DEF vars
<1> QED
  BY <1>1, <1>2, <1>3, <1>4, <1>5, <1>6 DEF Next

LEMMA DatedStep ==
  ASSUME IInv, [Next]_vars
  PROVE  Dated'
<1> USE DedupAssumption DEF IInv, TypeOK
<1>1. ASSUME NEW p \in Procs, SeenOrAdd(p)
      PROVE  Dated'
  <2>1. calling[p] \in Keys
    BY <1>1 DEF SeenOrAdd
  <2>2. CASE within(calling[p])
    BY <1>1, <2>1, <2>2 DEF SeenOrAdd, Dated
  <2>3. CASE ~within(calling[p])
    <3>1. /\ entries' = Put(entries, calling[p], now)
          /\ fresh' = [fresh EXCEPT ![calling[p]] = now]
          /\ now' = now
      BY <1>1, <2>3 DEF SeenOrAdd
    <3> QED
      BY <2>1, <3>1 DEF Put, Dated
  <2> QED
    BY <2>2, <2>3
<1>2. ASSUME NEW p \in Procs, NEW k \in Keys, Call(p, k)
      PROVE  Dated'
  BY <1>2 DEF Call, Dated
<1>3. CASE Cleanup
  BY <1>3 DEF Cleanup, Dated
<1>4. CASE Tick
  BY <1>4 DEF Tick, Dated
<1>5. CASE Restart
  <2>1. /\ DOMAIN entries' = {} /\ \A k \in Keys : fresh'[k] = Never
    BY <1>5 DEF Restart
  <2> QED
    BY <2>1 DEF Dated
<1>6. CASE UNCHANGED vars
  BY <1>6 DEF vars, Dated
<1> QED
  BY <1>1, <1>2, <1>3, <1>4, <1>5, <1>6 DEF Next

LEMMA Invariance == Spec => []IInv
<1>1. Init => IInv
  BY DedupAssumption DEF Init, IInv, TypeOK, Dated
<1>2. IInv /\ [Next]_vars => IInv'
  BY TypeStep, DatedStep DEF IInv
<1> QED
  BY <1>1, <1>2, PTL DEF Spec

LEMMA DatedIsFaithful ==
  ASSUME IInv
  PROVE  Faithful
<1> SUFFICES ASSUME NEW k \in Keys
             PROVE  within(k) <=> fresh[k] # Never /\ now - fresh[k] < TTL
  BY DEF Faithful
<1> QED
  BY DedupAssumption DEF IInv, TypeOK, Dated, within

----------------------------------------------------------------------------
\* Every entry is of a submitted key and of a time that has come (SeenOrAdd
\* stores now, nothing else writes the map).
THEOREM TypeCorrect == Spec => []TypeOK
<1>1. IInv => TypeOK
  BY DEF IInv
<1> QED
  BY Invariance, <1>1, PTL

\* A submission is called a duplicate exactly when its key was taken for new
\* less than TTL ago, whatever the sweeps and restarts in between.
THEOREM FaithfulHolds == Spec => []Faithful
<1> QED
  BY Invariance, DatedIsFaithful, PTL

----------------------------------------------------------------------------
\* What the map calls within its window is what the promise calls a duplicate.
LEMMA SameAnswer ==
  ASSUME IInv, NEW k \in Keys
  PROVE  within(k) = Promise!Duplicate(k)
<1>1. within(k) <=> fresh[k] # Never /\ now - fresh[k] < TTL
  BY DatedIsFaithful DEF Faithful
<1> QED
  BY <1>1 DEF within, Promise!Duplicate

\* Every step of the code is a step of the promise or leaves it alone: a
\* call and a sweep are invisible, a SeenOrAdd is the submission.
LEMMA PromiseStep ==
  ASSUME IInv, [Next]_vars
  PROVE  [Promise!Next]_(Promise!vars)
<1> USE DEF Promise!vars
<1>1. ASSUME NEW p \in Procs, SeenOrAdd(p)
      PROVE  Promise!Next
  <2>1. calling[p] \in Keys
    BY <1>1 DEF SeenOrAdd, IInv, TypeOK
  <2>2. within(calling[p]) = Promise!Duplicate(calling[p])
    BY <2>1, SameAnswer
  <2>3. Promise!Submit(p, calling[p])
    BY <1>1, <2>2 DEF SeenOrAdd, Promise!Submit
  <2> QED
    BY <2>1, <2>3 DEF Promise!Next
<1>2. ASSUME NEW p \in Procs, NEW k \in Keys, Call(p, k)
      PROVE  UNCHANGED Promise!vars
  BY <1>2 DEF Call
<1>3. CASE Cleanup
  BY <1>3 DEF Cleanup
<1>4. CASE Tick
  BY <1>4 DEF Tick, Promise!Next, Promise!Tick
<1>5. CASE Restart
  BY <1>5 DEF Restart, Promise!Next, Promise!Restart
<1>6. CASE UNCHANGED vars
  BY <1>6 DEF vars
<1> QED
  BY <1>1, <1>2, <1>3, <1>4, <1>5, <1>6 DEF Next

\* SeenOrAdd and Cleanup together keep the promise of idempotency keys.
THEOREM PromiseKept == Spec => ImplementsPromise
<1>1. Init => Promise!Init
  BY DEF Init, Promise!Init
<1>2. IInv /\ [Next]_vars => [Promise!Next]_(Promise!vars)
  BY PromiseStep
<1> QED
  BY <1>1, <1>2, Invariance, PTL DEF Spec, ImplementsPromise, Promise!Spec
=============================================================================
