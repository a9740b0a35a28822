---------------------------- MODULE GuardProofs ----------------------------
(***************************************************************************)
(* Theorems about Guard.tla for any users, requests, caps, windows, day    *)
(* boundaries and any finite number of goroutines.                         *)
(***************************************************************************)
EXTENDS Guard, TLAPS, FiniteSetTheorems, SequenceTheorems

----------------------------------------------------------------------------
(* Types.                                                                  *)

LEMMA UserType == \A r \in Requests : User(r) \in Users
  BY GuardAssumption DEF User, Users

LEMMA LowerType == \A e \in Emails : Lower[e] \in Users
  BY GuardAssumption DEF Users

LEMMA PutType ==
  ASSUME NEW map, NEW k, NEW v, NEW D, NEW R,
         DOMAIN map \subseteq D, \A j \in DOMAIN map : map[j] \in R, k \in D, v \in R
  PROVE  /\ DOMAIN Put(map, k, v) \subseteq D
         /\ \A j \in DOMAIN Put(map, k, v) : Put(map, k, v)[j] \in R
  BY DEF Put

LEMMA IntervalFinite ==
  \A n \in Nat : IsFiniteSet(1..n) /\ Cardinality(1..n) = n
<1> SUFFICES ASSUME NEW n \in Nat
             PROVE  IsFiniteSet(1..n) /\ Cardinality(1..n) = n
  OBVIOUS
<1>0. 1 \in Int /\ n \in Int
  OBVIOUS
<1>1. IsFiniteSet(1..n) /\ Cardinality(1..n) = IF 1 > n THEN 0 ELSE n - 1 + 1
  BY <1>0, FS_Interval, Zenon
<1> QED
  BY <1>1

\* The aged prefix of a sequence of times is a prefix.
LEMMA AgedPrefixType ==
  ASSUME NEW S, NEW times \in Seq(S), NEW cutoff
  PROVE  AgedPrefix(times, cutoff) \in 0..Len(times)
<1> DEFINE A == {i \in DOMAIN times : \A j \in 1..i : times[j] < cutoff}
<1>1. Len(times) \in Nat /\ DOMAIN times = 1..Len(times)
  OBVIOUS
<1>2. IsFiniteSet(1..Len(times)) /\ Cardinality(1..Len(times)) = Len(times)
  BY <1>1, IntervalFinite
<1>3. A \in SUBSET (1..Len(times))
  BY <1>1
<1>4. IsFiniteSet(A) /\ Cardinality(A) <= Len(times)
  BY <1>2, <1>3, FS_Subset
<1>5. Cardinality(A) \in Nat
  BY <1>4, FS_CardinalityType
<1> QED
  BY <1>1, <1>4, <1>5 DEF AgedPrefix

\* Dropping a prefix keeps a sequence over the same set.
LEMMA DropType ==
  ASSUME NEW S, NEW s \in Seq(S), NEW n \in 0..Len(s)
  PROVE  SubSeq(s, n + 1, Len(s)) \in Seq(S)
<1>1. Len(s) \in Nat /\ n + 1 \in Int /\ \A i \in (n + 1)..Len(s) : s[i] \in S
  OBVIOUS
<1> QED
  BY <1>1, SubSeqProperties

LEMMA PruneType ==
  ASSUME NEW times \in Seq(Nat), NEW window
  PROVE  Prune(times, window) \in Seq(Nat)
  BY AgedPrefixType, DropType DEF Prune

LEMMA PruneParamsType ==
  ASSUME NEW params \in Seq(Placed)
  PROVE  PruneParams(params) \in Seq(Placed)
<1> DEFINE times == [i \in DOMAIN params |-> params[i].at]
<1>1. Len(params) \in Nat /\ DOMAIN params = 1..Len(params)
  OBVIOUS
<1>2. \A i \in DOMAIN params : params[i] \in Placed
  OBVIOUS
<1>3. times \in Seq(Nat) /\ Len(times) = Len(params)
  BY <1>1, <1>2 DEF Placed
<1>4. AgedPrefix(times, now - DuplicateWindow) \in 0..Len(params)
  BY <1>3, AgedPrefixType
<1> QED
  BY <1>4, DropType DEF PruneParams

LEMMA TrackerType ==
  ASSUME TypeOK, NEW u \in Users
  PROVE  /\ getOrCreateTracker(u) \in Tracker
         /\ maybeResetDay(getOrCreateTracker(u)) \in Tracker
<1>1. now \in Nat /\ \A v \in DOMAIN tracker : tracker[v] \in Tracker
  BY DEF TypeOK
<1>2. Fresh \in Tracker
  BY <1>1 DEF Fresh, Tracker
<1>3. getOrCreateTracker(u) \in Tracker
  BY <1>1, <1>2 DEF getOrCreateTracker
<1> QED
  BY <1>1, <1>3 DEF maybeResetDay, Tracker

\* A new tracker for one user leaves the map of trackers well typed.
LEMMA TrackerMapType ==
  ASSUME TypeOK, NEW u \in Users, NEW t \in Tracker, tracker' = Put(tracker, u, t)
  PROVE  DOMAIN tracker' \subseteq Users /\ \A v \in DOMAIN tracker' : tracker'[v] \in Tracker
<1>1. DOMAIN tracker \subseteq Users /\ \A v \in DOMAIN tracker : tracker[v] \in Tracker
  BY DEF TypeOK
<1> QED
  BY <1>1, PutType

\* What a step of goroutine p does to its own variables.
LEMMA LocalType ==
  ASSUME TypeOK, NEW p \in Procs,
         \/ Return(p)
         \/ pc[p] # "idle" /\ \E l \in Labels : Continue(p, l)
  PROVE  /\ now' \in Nat
         /\ pc' \in [Procs -> Labels]
         /\ req' \in [Procs -> Requests \cup {NoRequest}]
         /\ \A q \in Procs : pc'[q] # "idle" => req'[q] \in Requests
         /\ stamp' \in [Procs -> Nat]
         /\ received' \in Nat /\ adminCalls' \in Nat
         /\ barrier' \in [Procs -> SUBSET {"global", "user"}]
<1>1. "idle" \in Labels
  BY DEF Labels
<1>2. CASE Return(p)
  <2>1. pc' \in [Procs -> Labels]
    BY <1>1, <1>2 DEF TypeOK, Return
  <2>2. req' \in [Procs -> Requests \cup {NoRequest}]
    BY <1>2 DEF TypeOK, Return
  <2>3. \A q \in Procs : pc'[q] # "idle" => req'[q] \in Requests
    BY <1>2 DEF TypeOK, Return
  <2>4. barrier' \in [Procs -> SUBSET {"global", "user"}]
    BY <1>2 DEF TypeOK, Return
  <2>5. stamp' \in [Procs -> Nat]
    BY <1>2 DEF TypeOK, Return
  <2> QED
    BY <1>2, <2>1, <2>2, <2>3, <2>4, <2>5 DEF TypeOK, Return, bounds
<1>3. CASE pc[p] # "idle" /\ \E l \in Labels : Continue(p, l)
  BY <1>3 DEF TypeOK, Continue, locals, bounds
<1> QED
  BY <1>2, <1>3

LEMMA TypeInit == Init => TypeOK
<1> SUFFICES ASSUME Init PROVE TypeOK
  OBVIOUS
<1>1. DOMAIN tracker = {} /\ DOMAIN perSec = {} /\ DOMAIN seen = {}
  BY DEF Init
<1>2. log \in [Users -> Seq(Acknowledged)]
  BY DEF Init
<1>3. pc \in [Procs -> Labels] /\ barrier \in [Procs -> SUBSET {"global", "user"}]
  BY DEF Init, Labels
<1>4. frozen \in [Users -> {"no", "admin", "breaker"}]
  BY DEF Init
<1> QED
  BY <1>1, <1>2, <1>3, <1>4 DEF Init, TypeOK

\* A call in flight has a request, and the request a user.
LEMMA CallType ==
  ASSUME TypeOK, NEW p \in Procs, pc[p] # "idle"
  PROVE  req[p] \in Requests /\ User(req[p]) \in Users
  BY UserType DEF TypeOK

LEMMA LabelsKnown ==
  {"idle", "global", "kill", "request", "daily", "second", "rate", "minute", "key",
   "params", "value", "market", "broker", "stamp", "bump", "record", "reject", "breaker"} = Labels
  BY DEF Labels, PastGlobal, PastKill, PastDaily, PastMinute, PastParams, Accounting

LEMMA TypeStep == TypeOK /\ [Next]_vars => TypeOK'
<1> SUFFICES ASSUME TypeOK, [Next]_vars PROVE TypeOK'
  OBVIOUS
<1> USE LabelsKnown
<1>1. ASSUME NEW p \in Procs, NEW r \in Requests, Receive(p, r) PROVE TypeOK'
  <2>1. req' \in [Procs -> Requests \cup {NoRequest}]
        /\ \A q \in Procs : pc'[q] # "idle" => req'[q] \in Requests
    BY <1>1 DEF TypeOK, Receive
  <2>2. pc' \in [Procs -> Labels]
    BY <1>1 DEF TypeOK, Receive
  <2>3. barrier' \in [Procs -> SUBSET {"global", "user"}]
    BY <1>1 DEF TypeOK, Receive
  <2> QED
    BY <1>1, <2>1, <2>2, <2>3 DEF TypeOK, Receive, freezes, counters, history
<1>2. ASSUME NEW p \in Procs, CheckGlobalFreeze(p) PROVE TypeOK'
  BY <1>2, LocalType DEF TypeOK, freezes, counters, history, CheckGlobalFreeze
<1>3. ASSUME NEW p \in Procs, checkKillSwitch(p) PROVE TypeOK'
  BY <1>3, LocalType DEF TypeOK, freezes, counters, history, checkKillSwitch
<1>4. ASSUME NEW p \in Procs, CheckRequest(p) PROVE TypeOK'
  BY <1>4, LocalType DEF TypeOK, freezes, counters, history, CheckRequest
<1>5. ASSUME NEW p \in Procs, checkPerSecondRate(p) PROVE TypeOK'
  BY <1>5 DEF TypeOK, freezes, counters, history, bounds, checkPerSecondRate
<1>6. ASSUME NEW p \in Procs, CheckMarket(p) PROVE TypeOK'
  BY <1>6, LocalType DEF TypeOK, freezes, counters, history, CheckMarket
<1>7. ASSUME NEW p \in Procs, checkDailyOrderCount(p) PROVE TypeOK'
  <2>1. User(req[p]) \in Users
    BY <1>7, CallType DEF checkDailyOrderCount
  <2>2. DOMAIN tracker' \subseteq Users /\ \A u \in DOMAIN tracker' : tracker'[u] \in Tracker
    BY <1>7, <2>1, TrackerType, TrackerMapType DEF checkDailyOrderCount, TypeOK
  <2> QED
    BY <1>7, <2>2, LocalType DEF TypeOK, freezes, counters, history, checkDailyOrderCount, Verdict
<1>8. ASSUME NEW p \in Procs, checkDailyValue(p) PROVE TypeOK'
  <2>1. User(req[p]) \in Users
    BY <1>8, CallType DEF checkDailyValue
  <2>2. DOMAIN tracker' \subseteq Users /\ \A u \in DOMAIN tracker' : tracker'[u] \in Tracker
    BY <1>8, <2>1, TrackerType, TrackerMapType DEF checkDailyValue, TypeOK
  <2> QED
    BY <1>8, <2>2, LocalType DEF TypeOK, freezes, counters, history, checkDailyValue, Verdict
<1>9. ASSUME NEW p \in Procs, checkRateLimit(p) PROVE TypeOK'
  <2> DEFINE t == getOrCreateTracker(User(req[p]))
  <2>1. User(req[p]) \in Users
    BY <1>9, CallType DEF checkRateLimit
  <2>2. t \in Tracker
    BY <2>1, TrackerType
  <2>3. Prune(t.orders, MinuteWindow) \in Seq(Nat)
    BY <2>2, PruneType DEF Tracker
  <2>4. [t EXCEPT !.orders = Prune(t.orders, MinuteWindow)] \in Tracker
    BY <2>2, <2>3 DEF Tracker
  <2>5. DOMAIN tracker' \subseteq Users /\ \A u \in DOMAIN tracker' : tracker'[u] \in Tracker
    BY <1>9, <2>1, <2>4, TrackerMapType DEF checkRateLimit, TypeOK
  <2> QED
    BY <1>9, <2>1, <2>5, LocalType DEF TypeOK, freezes, counters, history, checkRateLimit, Verdict
<1>10. ASSUME NEW p \in Procs, checkDuplicateOrder(p) PROVE TypeOK'
  <2> DEFINE t == getOrCreateTracker(User(req[p]))
  <2>1. User(req[p]) \in Users
    BY <1>10, CallType DEF checkDuplicateOrder
  <2>2. t \in Tracker
    BY <2>1, TrackerType
  <2>3. PruneParams(t.params) \in Seq(Placed)
    BY <2>2, PruneParamsType DEF Tracker
  <2>4. [t EXCEPT !.params = PruneParams(t.params)] \in Tracker
    BY <2>2, <2>3 DEF Tracker
  <2>5. DOMAIN tracker' \subseteq Users /\ \A u \in DOMAIN tracker' : tracker'[u] \in Tracker
    BY <1>10, <2>1, <2>4, TrackerMapType DEF checkDuplicateOrder, TypeOK
  <2> QED
    BY <1>10, <2>1, <2>5, LocalType DEF TypeOK, freezes, counters, history, checkDuplicateOrder, Verdict
<1>11. ASSUME NEW p \in Procs, checkAutoFreeze(p) PROVE TypeOK'
  <2> DEFINE t == getOrCreateTracker(User(req[p]))
  <2>1. User(req[p]) \in Users
    BY <1>11, CallType DEF checkAutoFreeze
  <2>2. t \in Tracker
    BY <2>1, TrackerType
  <2>3. Prune(t.rejections, FreezeWindow) \in Seq(Nat)
    BY <2>2, PruneType DEF Tracker
  <2>4. [t EXCEPT !.rejections = Prune(t.rejections, FreezeWindow)] \in Tracker
    BY <2>2, <2>3 DEF Tracker
  <2>5. DOMAIN tracker' \subseteq Users /\ \A u \in DOMAIN tracker' : tracker'[u] \in Tracker
    BY <1>11, <2>1, <2>4, TrackerMapType DEF checkAutoFreeze, TypeOK
  <2> QED
    BY <1>11, <2>1, <2>5, LocalType DEF TypeOK, freezes, counters, history, checkAutoFreeze, Verdict
<1>12. ASSUME NEW p \in Procs, RecordOrder(p) PROVE TypeOK'
  <2> DEFINE t == maybeResetDay(getOrCreateTracker(User(req[p])))
             new == [t EXCEPT !.count = @ + 1, !.value = @ + req[p].value,
                              !.orders = Append(@, now),
                              !.params = Append(@, [sig |-> req[p].sig, at |-> now])]
  <2>1. User(req[p]) \in Users /\ req[p] \in Requests
    BY <1>12, CallType DEF RecordOrder
  <2>2. t \in Tracker /\ now \in Nat /\ req[p].value \in Nat
    BY <2>1, TrackerType, GuardAssumption DEF TypeOK
  <2>3. [sig |-> req[p].sig, at |-> now] \in Placed
    BY <2>1, <2>2 DEF Placed
  <2>4. Append(t.orders, now) \in Seq(Nat)
        /\ Append(t.params, [sig |-> req[p].sig, at |-> now]) \in Seq(Placed)
    BY <2>2, <2>3 DEF Tracker
  <2>a. t.count + 1 \in Nat /\ t.value + req[p].value \in Nat
    BY <2>2 DEF Tracker
  <2> HIDE DEF t
  <2>5. new \in Tracker
    BY <2>2, <2>4, <2>a DEF Tracker
  <2> USE DEF t
  <2>6. DOMAIN tracker' \subseteq Users /\ \A u \in DOMAIN tracker' : tracker'[u] \in Tracker
    BY <1>12, <2>1, <2>5, TrackerMapType DEF RecordOrder
  <2> QED
    BY <1>12, <2>6, LocalType DEF TypeOK, freezes, counters, history, RecordOrder
<1>13. ASSUME NEW p \in Procs, recordRejection(p) PROVE TypeOK'
  <2> DEFINE t == getOrCreateTracker(User(req[p]))
  <2>1. User(req[p]) \in Users
    BY <1>13, CallType DEF recordRejection
  <2>2. t \in Tracker /\ now \in Nat
    BY <2>1, TrackerType DEF TypeOK
  <2>a. Append(t.rejections, now) \in Seq(Nat)
    BY <2>2 DEF Tracker
  <2>3. [t EXCEPT !.rejections = Append(@, now)] \in Tracker
    BY <2>2, <2>a DEF Tracker
  <2>4. DOMAIN tracker' \subseteq Users /\ \A u \in DOMAIN tracker' : tracker'[u] \in Tracker
    BY <1>13, <2>1, <2>3, TrackerMapType DEF recordRejection
  <2> QED
    BY <1>13, <2>1, <2>4, LocalType DEF TypeOK, freezes, counters, history, recordRejection
<1>14. ASSUME NEW p \in Procs, checkClientOrderIDDuplicate(p) PROVE TypeOK'
  <2> DEFINE entry == <<User(req[p]), req[p].key>>
  <2>a. now \in Nat /\ \A e \in DOMAIN seen : seen[e] \in Nat
    BY DEF TypeOK
  <2>b. \A e \in DOMAIN Put(seen, entry, now) : Put(seen, entry, now)[e] \in Nat
    BY <2>a DEF Put
  <2>1. \A e \in DOMAIN seen' : seen'[e] \in Nat
    BY <1>14, <2>a, <2>b DEF checkClientOrderIDDuplicate
  <2>2. CASE \E l \in Labels : Continue(p, l)
    BY <1>14, <2>1, <2>2, LocalType
       DEF TypeOK, freezes, counters, history, checkClientOrderIDDuplicate
  <2>3. CASE /\ stamp' = [stamp EXCEPT ![p] = now]
             /\ pc' = [pc EXCEPT ![p] = "params"]
             /\ UNCHANGED <<req, barrier, bounds, now>>
    <3>1. stamp' \in [Procs -> Nat] /\ pc' \in [Procs -> Labels]
      BY <2>3, <2>a DEF TypeOK
    <3>2. \A q \in Procs : pc'[q] # "idle" => req'[q] \in Requests
      BY <1>14, <2>3 DEF TypeOK, checkClientOrderIDDuplicate
    <3> QED
      BY <1>14, <2>1, <2>3, <3>1, <3>2
         DEF TypeOK, freezes, counters, history, bounds, checkClientOrderIDDuplicate
  <2> QED
    BY <1>14, <2>2, <2>3 DEF checkClientOrderIDDuplicate
<1>15. ASSUME NEW p \in Procs, Broker(p) PROVE TypeOK'
  <2> DEFINE ack == [sig |-> req[p].sig, at |-> now, key |-> req[p].key, granted |-> stamp[p]]
  <2>1. User(req[p]) \in Users /\ req[p] \in Requests
    BY <1>15, CallType DEF Broker
  <2>2. ack \in Acknowledged
    BY <2>1 DEF Acknowledged, TypeOK
  <2>3. sent' \in [Users -> Nat] /\ afterFreeze' \in Nat
    BY <1>15, <2>1 DEF TypeOK, Broker
  <2>4. log' \in [Users -> Seq(Acknowledged)]
    <3>1. log \in [Users -> Seq(Acknowledged)]
      BY DEF TypeOK
    <3>2. Append(log[User(req[p])], ack) \in Seq(Acknowledged)
      BY <2>1, <2>2, <3>1
    <3>3. \/ log' = log
          \/ log' = [log EXCEPT ![User(req[p])] = Append(log[User(req[p])], ack)]
      BY <1>15 DEF Broker
    <3> QED
      BY <3>1, <3>2, <3>3
  <2> QED
    BY <1>15, <2>3, <2>4, LocalType DEF TypeOK, freezes, counters, history, Broker
<1>16. ASSUME NEW p \in Procs, ReadClock(p) PROVE TypeOK'
  BY <1>16 DEF TypeOK, freezes, counters, history, ReadClock, bounds
<1>17. ASSUME NEW p \in Procs, increment(p) PROVE TypeOK'
  <2>1. User(req[p]) \in Users /\ stamp[p] \in Nat
    BY <1>17, CallType DEF increment, TypeOK
  <2>2. DOMAIN perSec' \subseteq Users
        /\ \A u \in DOMAIN perSec' : perSec'[u] \in [second : Nat, count : Nat]
    BY <1>17, <2>1 DEF TypeOK, increment, Put
  <2> QED
    BY <1>17, <2>2 DEF TypeOK, freezes, counters, history, increment, bounds
<1>18. ASSUME NEW e \in Emails, Freeze(e) PROVE TypeOK'
  BY <1>18, LowerType DEF TypeOK, freezes, counters, history, Freeze, AdminCall
<1>19. ASSUME NEW e \in Emails, Unfreeze(e) PROVE TypeOK'
  BY <1>19, LowerType DEF TypeOK, freezes, counters, history, Unfreeze, AdminCall
<1>20. ASSUME NEW e \in Emails, GetUserStatus(e) PROVE TypeOK'
  <2>1. DOMAIN tracker' \subseteq Users /\ \A u \in DOMAIN tracker' : tracker'[u] \in Tracker
    BY <1>20, LowerType, TrackerType, TrackerMapType DEF GetUserStatus
  <2> QED
    BY <1>20, <2>1 DEF TypeOK, freezes, counters, history, GetUserStatus, AdminCall
<1>21. CASE FreezeGlobal
  BY <1>21 DEF TypeOK, freezes, counters, history, FreezeGlobal, AdminCall
<1>22. CASE UnfreezeGlobal
  <2>1. barrier' \in [Procs -> SUBSET {"global", "user"}]
    BY <1>22 DEF TypeOK, UnfreezeGlobal
  <2>2. globalFrozen' \in BOOLEAN
    BY <1>22 DEF UnfreezeGlobal
  <2>4. adminCalls' \in Nat
    BY <1>22 DEF TypeOK, UnfreezeGlobal, AdminCall
  <2>3. UNCHANGED <<now, frozen, tracker, perSec, seen, pc, req, stamp, received,
                     sent, log, afterFreeze, pardoned>>
    BY <1>22 DEF UnfreezeGlobal, AdminCall, counters
  <2> QED
    BY <2>1, <2>2, <2>3, <2>4 DEF TypeOK
<1>23. CASE Tick
  <2>1. now' \in Nat
    BY <1>23 DEF TypeOK, Tick
  <2>2. sent' \in [Users -> Nat]
    BY <1>23 DEF TypeOK, Tick
  <2>3. UNCHANGED <<globalFrozen, frozen, tracker, perSec, seen, pc, req, stamp, barrier,
                     received, adminCalls, log, afterFreeze, pardoned>>
    BY <1>23 DEF freezes, counters, Tick, locals, bounds
  <2> QED
    BY <2>1, <2>2, <2>3 DEF TypeOK
<1>24. CASE UNCHANGED vars
  BY <1>24 DEF TypeOK, vars, freezes, counters, locals, bounds, history
<1> QED
  BY <1>1, <1>2, <1>3, <1>4, <1>5, <1>6, <1>7, <1>8, <1>9, <1>10, <1>11, <1>12, <1>13, <1>14, <1>15, <1>16, <1>17, <1>18, <1>19, <1>20, <1>21, <1>22, <1>23, <1>24
  DEF Next, Step, Admin, Rest

\* Type correctness holds for every instance of the pipeline.
THEOREM TypeCorrect == Spec => []TypeOK
<1>1. Init => TypeOK
  BY TypeInit
<1>2. TypeOK /\ [Next]_vars => TypeOK'
  BY TypeStep
<1> QED
  BY <1>1, <1>2, PTL DEF Spec

----------------------------------------------------------------------------
(* How a goroutine moves.                                                  *)

Ahead == Undelivered(PastGlobal)

\* Goroutine p's step touches only p's variables, and enters each stretch of
\* the pipeline only through the check at its door.
Moves(p) ==
  /\ \A q \in Procs \ {p} : pc'[q] = pc[q] /\ req'[q] = req[q] /\ barrier'[q] = barrier[q]
  /\ pc[p] # "idle" /\ pc'[p] # "idle" => req'[p] = req[p] /\ barrier'[p] = barrier[p]
  /\ pc'[p] \in PastGlobal => \/ pc[p] \in PastGlobal
                              \/ pc[p] = "global" /\ ~globalFrozen
  /\ pc'[p] \in PastKill => \/ pc[p] \in PastKill
                            \/ pc[p] = "kill" /\ ~isFrozen(req[p])
  /\ pc'[p] \in Ahead => \/ pc[p] \in Ahead
                         \/ pc[p] = "global" /\ ~globalFrozen
  /\ pc'[p] \in PastDaily => pc[p] \in PastDaily \/ checkDailyOrderCount(p)
  /\ pc'[p] \in Accounting => pc[p] \in Accounting \/ Broker(p)
  /\ globalFrozen' = globalFrozen
  /\ \A u \in Users : frozen[u] # "no" => frozen'[u] # "no"

LEMMA ContinueMoves ==
  ASSUME TypeOK, NEW p \in Procs, NEW label, Continue(p, label)
  PROVE  /\ pc'[p] = label /\ req'[p] = req[p] /\ barrier'[p] = barrier[p]
         /\ \A q \in Procs \ {p} : pc'[q] = pc[q] /\ req'[q] = req[q] /\ barrier'[q] = barrier[q]
  BY DEF TypeOK, Continue, locals

LEMMA ReturnMoves ==
  ASSUME TypeOK, NEW p \in Procs, Return(p)
  PROVE  /\ pc'[p] = "idle"
         /\ \A q \in Procs \ {p} : pc'[q] = pc[q] /\ req'[q] = req[q] /\ barrier'[q] = barrier[q]
  BY DEF TypeOK, Return

LEMMA StepMoves ==
  ASSUME TypeOK, NEW p \in Procs, Step(p)
  PROVE  Moves(p)
<1> USE DEF Moves, Ahead, Undelivered, PastGlobal, PastKill, PastDaily, PastMinute,
            PastParams, Accounting, freezes
<1>1. ASSUME NEW r \in Requests, Receive(p, r) PROVE Moves(p)
  BY <1>1 DEF TypeOK, Receive
<1>2. CASE CheckGlobalFreeze(p)
  BY <1>2, ContinueMoves, ReturnMoves DEF CheckGlobalFreeze
<1>3. CASE checkKillSwitch(p)
  BY <1>3, ContinueMoves, ReturnMoves DEF checkKillSwitch
<1>4. CASE CheckRequest(p)
  BY <1>4, ContinueMoves, ReturnMoves DEF CheckRequest
<1>5. CASE checkDailyOrderCount(p)
  BY <1>5, ContinueMoves, ReturnMoves DEF checkDailyOrderCount, Verdict
<1>6. CASE checkPerSecondRate(p)
  BY <1>6 DEF TypeOK, checkPerSecondRate
<1>7. CASE checkRateLimit(p)
  BY <1>7, ContinueMoves, ReturnMoves DEF checkRateLimit, Verdict
<1>8. CASE checkClientOrderIDDuplicate(p)
  <2>1. CASE \E l \in {"params", "reject"} : Continue(p, l)
    BY <1>8, <2>1, ContinueMoves DEF checkClientOrderIDDuplicate
  <2>2. CASE /\ pc' = [pc EXCEPT ![p] = "params"]
             /\ UNCHANGED <<req, barrier, bounds, now>>
    BY <1>8, <2>2 DEF TypeOK, checkClientOrderIDDuplicate
  <2> QED
    BY <1>8, <2>1, <2>2 DEF checkClientOrderIDDuplicate
<1>9. CASE checkDuplicateOrder(p)
  BY <1>9, ContinueMoves, ReturnMoves DEF checkDuplicateOrder, Verdict
<1>10. CASE checkDailyValue(p)
  BY <1>10, ContinueMoves, ReturnMoves DEF checkDailyValue, Verdict
<1>11. CASE CheckMarket(p)
  BY <1>11, ContinueMoves, ReturnMoves DEF CheckMarket
<1>12. CASE Broker(p)
  BY <1>12, ContinueMoves, ReturnMoves DEF Broker
<1>13. CASE RecordOrder(p)
  BY <1>13, ContinueMoves, ReturnMoves DEF RecordOrder
<1>14. CASE recordRejection(p)
  BY <1>14, ContinueMoves, ReturnMoves DEF recordRejection
<1>15. CASE checkAutoFreeze(p)
  <2>1. \A u \in Users : frozen[u] # "no" => frozen'[u] # "no"
    BY <1>15 DEF TypeOK, checkAutoFreeze
  <2> QED
    BY <1>15, <2>1, ReturnMoves DEF checkAutoFreeze
<1>16. CASE ReadClock(p)
  BY <1>16 DEF TypeOK, ReadClock
<1>17. CASE increment(p)
  BY <1>17 DEF TypeOK, increment
<1> QED
  BY <1>1, <1>2, <1>3, <1>4, <1>5, <1>6, <1>7, <1>8, <1>9, <1>10, <1>11, <1>12, <1>13, <1>14, <1>15, <1>16, <1>17 DEF Step

----------------------------------------------------------------------------
(* The freeze barrier.                                                     *)

\* A freeze recorded in a call's barrier is still in force.
BarrierHeld ==
  \A p \in Procs : pc[p] # "idle" =>
    /\ ("global" \in barrier[p] => globalFrozen)
    /\ ("user" \in barrier[p] => isFrozen(req[p]))

BarrierInv == TypeOK /\ BarrierHeld /\ FreezeBarrier

LEMMA BarrierStep == BarrierInv /\ [Next]_vars => BarrierInv'
<1> SUFFICES ASSUME BarrierInv, [Next]_vars PROVE BarrierHeld' /\ FreezeBarrier'
  BY TypeStep DEF BarrierInv
<1> USE DEF BarrierInv
<1>0. TypeOK'
  BY TypeStep
<1>1. ASSUME NEW p \in Procs, NEW r \in Requests, Receive(p, r)
      PROVE  BarrierHeld' /\ FreezeBarrier'
  <2>1. User(r) \in Users /\ DOMAIN frozen = Users
    BY UserType DEF TypeOK
  <2>2. /\ pc' = [pc EXCEPT ![p] = "global"] /\ req' = [req EXCEPT ![p] = r]
        /\ UNCHANGED <<globalFrozen, frozen>>
    BY <1>1 DEF Receive, freezes
  <2>3. /\ ("global" \in barrier'[p] => globalFrozen)
        /\ ("user" \in barrier'[p] => frozen[User(r)] # "no")
        /\ \A q \in Procs \ {p} : barrier'[q] = barrier[q]
    BY <1>1 DEF TypeOK, Receive
  <2>4. "global" \notin PastGlobal /\ "global" \notin PastKill
    BY DEF PastGlobal, PastKill, PastDaily, PastMinute, PastParams, Accounting
  <2> QED
    BY <2>1, <2>2, <2>3, <2>4 DEF TypeOK, BarrierHeld, FreezeBarrier, isFrozen, User
<1>2. ASSUME NEW p \in Procs, Step(p), \A r \in Requests : ~Receive(p, r)
      PROVE  BarrierHeld' /\ FreezeBarrier'
  <2>1. Moves(p)
    BY <1>2, StepMoves
  <2>2. pc[p] # "idle"
    BY <1>2 DEF Step, CheckGlobalFreeze, checkKillSwitch, CheckRequest, checkDailyOrderCount,
       checkPerSecondRate, checkRateLimit, checkClientOrderIDDuplicate, checkDuplicateOrder,
       checkDailyValue, CheckMarket, Broker, ReadClock, increment, RecordOrder,
       recordRejection, checkAutoFreeze
  <2>3. "idle" \notin PastGlobal /\ "idle" \notin PastKill
    BY DEF PastGlobal, PastKill, PastDaily, PastMinute, PastParams, Accounting
  <2>4. \A q \in Procs : pc'[q] # "idle" /\ pc[q] # "idle" =>
          req'[q] = req[q] /\ barrier'[q] = barrier[q] /\ User(req[q]) \in Users
    BY <2>1, CallType DEF Moves
  <2>5. \A q \in Procs : pc'[q] # "idle" => pc[q] # "idle"
    BY <2>1, <2>2 DEF Moves
  <2>6. DOMAIN frozen = Users /\ DOMAIN frozen' = Users
    BY <1>0 DEF TypeOK
  <2>7. BarrierHeld'
    BY <2>1, <2>4, <2>5, <2>6 DEF BarrierHeld, isFrozen, Moves, User
  <2>8. FreezeBarrier'
    BY <2>1, <2>3, <2>4, <2>5 DEF BarrierHeld, FreezeBarrier, Moves
  <2> QED
    BY <2>7, <2>8
<1>3. ASSUME NEW e \in Emails, Freeze(e) PROVE BarrierHeld' /\ FreezeBarrier'
  BY <1>3 DEF TypeOK, Freeze, AdminCall, BarrierHeld, FreezeBarrier, isFrozen, User
<1>4. ASSUME NEW e \in Emails, Unfreeze(e) PROVE BarrierHeld' /\ FreezeBarrier'
  <2>1. UNCHANGED <<pc, req, globalFrozen>>
    BY <1>4 DEF Unfreeze, AdminCall
  <2>2. \A p \in Procs : barrier'[p] \subseteq barrier[p]
    BY <1>4 DEF Unfreeze
  <2>3. \A p \in Procs : pc[p] # "idle" /\ User(req[p]) = Lower[e] => "user" \notin barrier'[p]
    BY <1>4 DEF Unfreeze
  <2>4. \A u \in Users \ {Lower[e]} : frozen'[u] = frozen[u]
    BY <1>4 DEF Unfreeze, TypeOK
  <2>5. DOMAIN frozen = Users /\ DOMAIN frozen' = Users
    BY <1>0 DEF TypeOK
  <2> QED
    BY <2>1, <2>2, <2>3, <2>4, <2>5 DEF BarrierHeld, FreezeBarrier, isFrozen, User
<1>5. CASE FreezeGlobal
  BY <1>5 DEF FreezeGlobal, AdminCall, BarrierHeld, FreezeBarrier, isFrozen, User
<1>6. CASE UnfreezeGlobal
  <2>1. UNCHANGED <<pc, req, frozen>>
    BY <1>6 DEF UnfreezeGlobal, AdminCall
  <2>2. \A p \in Procs : barrier'[p] \subseteq barrier[p] /\ "global" \notin barrier'[p]
    BY <1>6 DEF UnfreezeGlobal
  <2> QED
    BY <2>1, <2>2 DEF BarrierHeld, FreezeBarrier, isFrozen, User
<1>7. ASSUME NEW e \in Emails, GetUserStatus(e) PROVE BarrierHeld' /\ FreezeBarrier'
  BY <1>7 DEF GetUserStatus, AdminCall, freezes, BarrierHeld, FreezeBarrier, isFrozen, User
<1>8. CASE Tick
  BY <1>8 DEF Tick, freezes, locals, BarrierHeld, FreezeBarrier, isFrozen, User
<1>9. CASE UNCHANGED vars
  BY <1>9 DEF vars, freezes, locals, BarrierHeld, FreezeBarrier, isFrozen, User
<1> QED
  BY <1>1, <1>2, <1>3, <1>4, <1>5, <1>6, <1>7, <1>8, <1>9 DEF Next, Admin, Rest

\* No call that began under a freeze gets past it while the freeze lasts.
THEOREM BarrierHolds == Spec => []FreezeBarrier
<1>1. Init => BarrierInv
  <2>1. "idle" \notin PastGlobal /\ "idle" \notin PastKill
    BY DEF PastGlobal, PastKill, PastDaily, PastMinute, PastParams, Accounting
  <2> QED
    BY <2>1, TypeInit DEF Init, BarrierInv, BarrierHeld, FreezeBarrier
<1>2. BarrierInv /\ [Next]_vars => BarrierInv'
  BY BarrierStep
<1>3. BarrierInv => FreezeBarrier
  BY DEF BarrierInv
<1> QED
  BY <1>1, <1>2, <1>3, PTL DEF Spec

----------------------------------------------------------------------------
(* Counting calls in flight.                                               *)

LEMMA AtCardinality ==
  ASSUME NEW u, NEW L
  PROVE  /\ IsFiniteSet(At(u, L)) /\ Cardinality(At(u, L)) \in Nat
         /\ Cardinality(At(u, L)) <= K /\ K \in Nat
<1>1. At(u, L) \in SUBSET Procs /\ IsFiniteSet(Procs)
  BY GuardAssumption DEF At
<1>2. IsFiniteSet(At(u, L)) /\ Cardinality(At(u, L)) <= K
  BY <1>1, FS_Subset DEF K
<1> QED
  BY <1>1, <1>2, FS_CardinalityType DEF K

LEMMA AtCardinalityPrime ==
  ASSUME NEW u \in Users, NEW L
  PROVE  /\ IsFiniteSet(At(u, L)') /\ Cardinality(At(u, L)') \in Nat
         /\ Cardinality(At(u, L)') <= K /\ K \in Nat
<1>1. At(u, L)' \in SUBSET Procs /\ IsFiniteSet(Procs)
  BY GuardAssumption DEF At
<1>2. IsFiniteSet(At(u, L)') /\ Cardinality(At(u, L)') <= K
  BY <1>1, FS_Subset DEF K
<1> QED
  BY <1>1, <1>2, FS_CardinalityType DEF K

LEMMA OneAdded ==
  ASSUME NEW S, NEW T, NEW x, x \notin T, IsFiniteSet(T), S = T \cup {x}
  PROVE  Cardinality(S) = Cardinality(T) + 1 /\ Cardinality(T) \in Nat
<1>1. Cardinality(T \cup {x}) = Cardinality(T) + 1
  BY FS_AddElement
<1>2. Cardinality(T) \in Nat
  BY FS_CardinalityType
<1> QED
  BY <1>1, <1>2

LEMMA OneRemoved ==
  ASSUME NEW S, NEW T, NEW x \in T, IsFiniteSet(T), S = T \ {x}
  PROVE  Cardinality(S) = Cardinality(T) - 1 /\ Cardinality(T) \in Nat
<1>1. Cardinality(T \ {x}) = Cardinality(T) - 1
  BY FS_RemoveElement
<1>2. Cardinality(T) \in Nat
  BY FS_CardinalityType
<1> QED
  BY <1>1, <1>2

LEMMA SmallerSet ==
  ASSUME NEW S, NEW T, IsFiniteSet(T), S \subseteq T
  PROVE  Cardinality(S) <= Cardinality(T) /\ Cardinality(S) \in Nat /\ Cardinality(T) \in Nat
  BY FS_Subset, FS_CardinalityType

\* EffectiveCount is what maybeResetDay will leave in the count.
LEMMA EffectiveReset ==
  ASSUME TypeOK, NEW u \in Users
  PROVE  /\ EffectiveCount(u) = maybeResetDay(getOrCreateTracker(u)).count
         /\ ~Stale(maybeResetDay(getOrCreateTracker(u)).resetAt)
         /\ EffectiveCount(u) \in Nat
<1>1. ~Stale(now)
  BY GuardAssumption DEF Stale, TypeOK
<1>2. CASE u \notin DOMAIN tracker
  BY <1>1, <1>2 DEF EffectiveCount, getOrCreateTracker, maybeResetDay, Fresh
<1>3. CASE u \in DOMAIN tracker
  <2>1. tracker[u] \in Tracker
    BY <1>3 DEF TypeOK
  <2> QED
    BY <1>1, <1>3, <2>1 DEF EffectiveCount, getOrCreateTracker, maybeResetDay, Tracker
<1> QED
  BY <1>2, <1>3

\* A tracker written back changes the effective count of its user only, by as
\* much as its count differs from the effective one.
LEMMA EffectivePut ==
  ASSUME TypeOK, NEW u \in Users, NEW t, tracker' = Put(tracker, u, t), now' = now
  PROVE  /\ \A v \in Users \ {u} : EffectiveCount(v)' = EffectiveCount(v)
         /\ ~Stale(t.resetAt) => EffectiveCount(u)' = t.count
         /\ (t.count = getOrCreateTracker(u).count
             /\ t.resetAt = getOrCreateTracker(u).resetAt)
              => EffectiveCount(u)' = EffectiveCount(u)
<1>1. \A at : Stale(at)' <=> Stale(at)
  BY DEF Stale
<1>2. /\ DOMAIN tracker' = DOMAIN tracker \cup {u} /\ tracker'[u] = t
      /\ \A j \in DOMAIN tracker : j # u => tracker'[j] = tracker[j]
  BY DEF Put
<1>3. ~Stale(now)
  BY GuardAssumption DEF Stale, TypeOK
<1>4. ASSUME NEW v \in Users \ {u} PROVE EffectiveCount(v)' = EffectiveCount(v)
  BY <1>1, <1>2 DEF EffectiveCount
<1>5. ASSUME ~Stale(t.resetAt) PROVE EffectiveCount(u)' = t.count
  BY <1>1, <1>2, <1>5 DEF EffectiveCount
<1>6. ASSUME t.count = getOrCreateTracker(u).count, t.resetAt = getOrCreateTracker(u).resetAt
      PROVE  EffectiveCount(u)' = EffectiveCount(u)
  BY <1>1, <1>2, <1>3, <1>6 DEF EffectiveCount, getOrCreateTracker, Fresh
<1> QED
  BY <1>4, <1>5, <1>6

----------------------------------------------------------------------------
(* The daily cap.  The inductive invariant ties the recorded count, the     *)
(* calls past the daily check and the broker's own count together.         *)

Counted(u) == sent[u] <= EffectiveCount(u) + Cardinality(At(u, Accounting))
Capped(u) == EffectiveCount(u) + Cardinality(At(u, PastDaily)) <= MaxOrdersPerDay + K - 1

CapInv == TypeOK /\ \A u \in Users : Counted(u) /\ Capped(u)

LEMMA SentType ==
  ASSUME TypeOK, NEW u \in Users
  PROVE  sent[u] \in Nat /\ sent[u] <= sent[u]
<1>1. sent[u] \in Nat
  BY DEF TypeOK
<1> QED
  BY <1>1

\* Enough for a user: no call leaves Accounting, none enters PastDaily.
LEMMA Quiet ==
  ASSUME NEW u \in Users, TypeOK, TypeOK', Counted(u), Capped(u),
         At(u, Accounting) \subseteq At(u, Accounting)',
         At(u, PastDaily)' \subseteq At(u, PastDaily),
         EffectiveCount(u)' = EffectiveCount(u), sent'[u] <= sent[u]
  PROVE  Counted(u)' /\ Capped(u)'
<1>1. EffectiveCount(u) \in Nat
  BY EffectiveReset
<1>2. Cardinality(At(u, Accounting)) <= Cardinality(At(u, Accounting)')
      /\ Cardinality(At(u, Accounting)) \in Nat /\ Cardinality(At(u, Accounting)') \in Nat
  BY AtCardinalityPrime, SmallerSet
<1>3. Cardinality(At(u, PastDaily)') <= Cardinality(At(u, PastDaily))
      /\ Cardinality(At(u, PastDaily)') \in Nat /\ Cardinality(At(u, PastDaily)) \in Nat
  BY AtCardinality, SmallerSet
<1>4. sent[u] \in Nat /\ sent'[u] \in Nat /\ K \in Nat /\ MaxOrdersPerDay \in Nat
  BY AtCardinality, GuardAssumption DEF TypeOK
<1>5. Counted(u)'
  BY <1>1, <1>2, <1>4 DEF Counted
<1>6. Capped(u)'
  BY <1>1, <1>3, <1>4 DEF Capped
<1> QED
  BY <1>5, <1>6

\* Enough for all: nothing the invariant looks at changes.
LEMMA Still ==
  ASSUME TypeOK, TypeOK', \A u \in Users : Counted(u) /\ Capped(u),
         \A u \in Users : EffectiveCount(u)' = EffectiveCount(u), sent' = sent,
         \A u \in Users : /\ At(u, Accounting)' = At(u, Accounting)
                          /\ At(u, PastDaily)' = At(u, PastDaily)
  PROVE  \A u \in Users : Counted(u)' /\ Capped(u)'
<1> SUFFICES ASSUME NEW u \in Users PROVE Counted(u)' /\ Capped(u)'
  OBVIOUS
<1>1. sent'[u] <= sent[u]
  BY SentType
<1> QED
  BY <1>1, Quiet

\* Goroutines other than p are where they were; p's user stays p's user.
LEMMA AtOthers ==
  ASSUME TypeOK, TypeOK', NEW p \in Procs, Moves(p), pc[p] # "idle", NEW u \in Users,
         NEW L, "idle" \notin L
  PROVE  /\ At(u, L)' \ {p} = At(u, L) \ {p}
         /\ p \in At(u, L)' <=> pc'[p] \in L /\ User(req[p]) = u
         /\ p \in At(u, L) <=> pc[p] \in L /\ User(req[p]) = u
<1>1. \A q \in Procs \ {p} : pc'[q] = pc[q] /\ req'[q] = req[q]
  BY DEF Moves
<1>2. pc'[p] # "idle" => req'[p] = req[p]
  BY DEF Moves
<1> QED
  BY <1>1, <1>2 DEF At, User

LEMMA NoIdle == "idle" \notin Accounting /\ "idle" \notin PastDaily /\ "idle" \notin Ahead
  BY DEF PastDaily, PastMinute, PastParams, Accounting, Ahead, Undelivered, PastGlobal, PastKill

LEMMA InitCap == Init => CapInv
<1> SUFFICES ASSUME Init PROVE CapInv
  OBVIOUS
<1>1. TypeOK
  BY TypeInit
<1>2. ASSUME NEW u \in Users PROVE Counted(u) /\ Capped(u)
  <2>1. EffectiveCount(u) = 0 /\ sent[u] = 0
    BY DEF Init, EffectiveCount
  <2>2. At(u, PastDaily) = {} /\ At(u, Accounting) = {}
    BY NoIdle DEF Init, At
  <2>3. Cardinality({}) = 0 /\ K \in Nat /\ MaxOrdersPerDay \in Nat \ {0}
    BY FS_EmptySet, AtCardinality, GuardAssumption
  <2> QED
    BY <2>1, <2>2, <2>3 DEF Counted, Capped
<1> QED
  BY <1>1, <1>2 DEF CapInv

\* A step of p that is neither the daily check, the broker nor the record keeps
\* the invariant once it keeps the effective counts.
LEMMA QuietStep ==
  ASSUME TypeOK, TypeOK', NEW p \in Procs, Moves(p), pc[p] # "idle",
         pc'[p] \in PastDaily => pc[p] \in PastDaily,
         pc[p] \in Accounting => pc'[p] \in Accounting,
         \A u \in Users : Counted(u) /\ Capped(u),
         \A u \in Users : EffectiveCount(u)' = EffectiveCount(u),
         sent' = sent
  PROVE  \A u \in Users : Counted(u)' /\ Capped(u)'
<1> SUFFICES ASSUME NEW u \in Users PROVE Counted(u)' /\ Capped(u)'
  OBVIOUS
<1>1. At(u, Accounting) \subseteq At(u, Accounting)'
  BY AtOthers, NoIdle
<1>2. At(u, PastDaily)' \subseteq At(u, PastDaily)
  BY AtOthers, NoIdle
<1>3. sent'[u] <= sent[u]
  BY SentType
<1> QED
  BY <1>1, <1>2, <1>3, Quiet

\* Steps that write no tracker keep the effective counts.
LEMMA EffectiveSame ==
  ASSUME tracker' = tracker, now' = now
  PROVE  \A u \in Users : EffectiveCount(u)' = EffectiveCount(u)
  BY DEF EffectiveCount, Stale

LEMMA CapStep == CapInv /\ [Next]_vars => CapInv'
<1> SUFFICES ASSUME CapInv, [Next]_vars
             PROVE  \A u \in Users : Counted(u)' /\ Capped(u)'
  BY TypeStep DEF CapInv
<1>0. TypeOK /\ TypeOK' /\ \A u \in Users : Counted(u) /\ Capped(u)
  BY TypeStep DEF CapInv
<1> DEFINE Goal == \A u \in Users : Counted(u)' /\ Capped(u)'
<1>1. ASSUME NEW p \in Procs, NEW r \in Requests, Receive(p, r) PROVE Goal
  <2>1. tracker' = tracker /\ now' = now /\ sent' = sent
    BY <1>1 DEF Receive, counters, history
  <2>2. "global" \notin Accounting /\ "global" \notin PastDaily
    BY DEF PastDaily, PastMinute, PastParams, Accounting
  <2>3. \A u : At(u, Accounting)' = At(u, Accounting) /\ At(u, PastDaily)' = At(u, PastDaily)
    BY <1>0, <1>1, <2>2, NoIdle DEF TypeOK, Receive, At, User
  <2> QED
    BY <1>0, <2>1, <2>3, EffectiveSame, Still
<1>2. ASSUME NEW p \in Procs, CheckGlobalFreeze(p) PROVE Goal
  <2>1. Moves(p) /\ pc[p] # "idle"
    BY <1>0, <1>2, StepMoves DEF Step, CheckGlobalFreeze
  <2>2. tracker' = tracker /\ now' = now /\ sent' = sent
    BY <1>2 DEF CheckGlobalFreeze, Continue, Return, counters, history
  <2>3. pc'[p] \in PastDaily => pc[p] \in PastDaily
    BY <1>2, <2>1 DEF CheckGlobalFreeze, Moves, checkDailyOrderCount
  <2>4. pc[p] \in Accounting => pc'[p] \in Accounting
    BY <1>0, <1>2 DEF CheckGlobalFreeze, Accounting, TypeOK
  <2> QED
    BY <1>0, <2>1, <2>2, <2>3, <2>4, EffectiveSame, QuietStep
<1>3. ASSUME NEW p \in Procs, checkKillSwitch(p) PROVE Goal
  <2>1. Moves(p) /\ pc[p] # "idle"
    BY <1>0, <1>3, StepMoves DEF Step, checkKillSwitch
  <2>2. tracker' = tracker /\ now' = now /\ sent' = sent
    BY <1>3 DEF checkKillSwitch, Continue, Return, counters, history
  <2>3. pc'[p] \in PastDaily => pc[p] \in PastDaily
    BY <1>3, <2>1 DEF checkKillSwitch, Moves, checkDailyOrderCount
  <2>4. pc[p] \in Accounting => pc'[p] \in Accounting
    BY <1>0, <1>3 DEF checkKillSwitch, Accounting, TypeOK
  <2> QED
    BY <1>0, <2>1, <2>2, <2>3, <2>4, EffectiveSame, QuietStep
<1>4. ASSUME NEW p \in Procs, CheckRequest(p) PROVE Goal
  <2>1. Moves(p) /\ pc[p] # "idle"
    BY <1>0, <1>4, StepMoves DEF Step, CheckRequest
  <2>2. tracker' = tracker /\ now' = now /\ sent' = sent
    BY <1>4 DEF CheckRequest, Continue, Return, counters, history
  <2>3. pc'[p] \in PastDaily => pc[p] \in PastDaily
    BY <1>4, <2>1 DEF CheckRequest, Moves, checkDailyOrderCount
  <2>4. pc[p] \in Accounting => pc'[p] \in Accounting
    BY <1>0, <1>4 DEF CheckRequest, Accounting, TypeOK
  <2> QED
    BY <1>0, <2>1, <2>2, <2>3, <2>4, EffectiveSame, QuietStep
<1>5. ASSUME NEW p \in Procs, checkPerSecondRate(p) PROVE Goal
  <2>1. Moves(p) /\ pc[p] # "idle"
    BY <1>0, <1>5, StepMoves DEF Step, checkPerSecondRate
  <2>2. tracker' = tracker /\ now' = now /\ sent' = sent
    BY <1>5 DEF checkPerSecondRate, counters, history
  <2>3. pc'[p] \in PastDaily => pc[p] \in PastDaily
    BY <1>5, <2>1 DEF checkPerSecondRate, Moves, checkDailyOrderCount
  <2>4. pc[p] \in Accounting => pc'[p] \in Accounting
    BY <1>0, <1>5 DEF checkPerSecondRate, Accounting, TypeOK
  <2> QED
    BY <1>0, <2>1, <2>2, <2>3, <2>4, EffectiveSame, QuietStep
<1>6. ASSUME NEW p \in Procs, checkClientOrderIDDuplicate(p) PROVE Goal
  <2>1. Moves(p) /\ pc[p] # "idle"
    BY <1>0, <1>6, StepMoves DEF Step, checkClientOrderIDDuplicate
  <2>2. tracker' = tracker /\ now' = now /\ sent' = sent
    BY <1>6 DEF checkClientOrderIDDuplicate, Verdict, Continue, Return, counters, history
  <2>3. pc'[p] \in PastDaily => pc[p] \in PastDaily
    BY <1>6, <2>1 DEF checkClientOrderIDDuplicate, Moves, checkDailyOrderCount
  <2>4. pc[p] \in Accounting => pc'[p] \in Accounting
    BY <1>0, <1>6 DEF checkClientOrderIDDuplicate, Accounting, TypeOK
  <2> QED
    BY <1>0, <2>1, <2>2, <2>3, <2>4, EffectiveSame, QuietStep
<1>7. ASSUME NEW p \in Procs, CheckMarket(p) PROVE Goal
  <2>1. Moves(p) /\ pc[p] # "idle"
    BY <1>0, <1>7, StepMoves DEF Step, CheckMarket
  <2>2. tracker' = tracker /\ now' = now /\ sent' = sent
    BY <1>7 DEF CheckMarket, Continue, Return, counters, history
  <2>3. pc'[p] \in PastDaily => pc[p] \in PastDaily
    BY <1>7, <2>1 DEF CheckMarket, Moves, checkDailyOrderCount
  <2>4. pc[p] \in Accounting => pc'[p] \in Accounting
    BY <1>0, <1>7 DEF CheckMarket, Accounting, TypeOK
  <2> QED
    BY <1>0, <2>1, <2>2, <2>3, <2>4, EffectiveSame, QuietStep
<1>8. ASSUME NEW p \in Procs, ReadClock(p) PROVE Goal
  <2>1. Moves(p) /\ pc[p] # "idle"
    BY <1>0, <1>8, StepMoves DEF Step, ReadClock
  <2>2. tracker' = tracker /\ now' = now /\ sent' = sent
    BY <1>8 DEF ReadClock, Continue, Return, counters, history
  <2>3. pc'[p] \in PastDaily => pc[p] \in PastDaily
    BY <1>8, <2>1 DEF ReadClock, Moves, checkDailyOrderCount
  <2>4. pc[p] \in Accounting => pc'[p] \in Accounting
    BY <1>0, <1>8 DEF ReadClock, Accounting, TypeOK
  <2> QED
    BY <1>0, <2>1, <2>2, <2>3, <2>4, EffectiveSame, QuietStep
<1>9. ASSUME NEW p \in Procs, increment(p) PROVE Goal
  <2>1. Moves(p) /\ pc[p] # "idle"
    BY <1>0, <1>9, StepMoves DEF Step, increment
  <2>2. tracker' = tracker /\ now' = now /\ sent' = sent
    BY <1>9 DEF increment, Continue, Return, counters, history
  <2>3. pc'[p] \in PastDaily => pc[p] \in PastDaily
    BY <1>9, <2>1 DEF increment, Moves, checkDailyOrderCount
  <2>4. pc[p] \in Accounting => pc'[p] \in Accounting
    BY <1>0, <1>9 DEF increment, Accounting, TypeOK
  <2> QED
    BY <1>0, <2>1, <2>2, <2>3, <2>4, EffectiveSame, QuietStep
<1>10. ASSUME NEW p \in Procs, checkRateLimit(p) PROVE Goal
  <2> DEFINE g == getOrCreateTracker(User(req[p]))
  <2>1. Moves(p) /\ pc[p] # "idle" /\ User(req[p]) \in Users
    BY <1>0, <1>10, StepMoves, CallType DEF Step, checkRateLimit
  <2>2. now' = now /\ sent' = sent
    BY <1>10 DEF checkRateLimit, Verdict, Continue, Return, history
  <2>3. pc'[p] \in PastDaily => pc[p] \in PastDaily
    BY <1>10, <2>1 DEF checkRateLimit, Moves, checkDailyOrderCount
  <2>4. pc[p] \in Accounting => pc'[p] \in Accounting
    BY <1>0, <1>10 DEF checkRateLimit, Accounting, TypeOK
  <2>5. \A u \in Users : EffectiveCount(u)' = EffectiveCount(u)
    <3>1. CASE tracker' = tracker
      BY <2>2, <3>1, EffectiveSame
    <3>2. ASSUME NEW new, tracker' = Put(tracker, User(req[p]), [g EXCEPT !.orders = new])
          PROVE  \A u \in Users : EffectiveCount(u)' = EffectiveCount(u)
      <4>1. g \in Tracker
        BY <1>0, <2>1, TrackerType
      <4>2. [g EXCEPT !.orders = new].count = g.count /\ [g EXCEPT !.orders = new].resetAt = g.resetAt
        BY <4>1 DEF Tracker
      <4> QED
        BY <1>0, <2>1, <2>2, <3>2, <4>2, EffectivePut
    <3> QED
      BY <1>10, <3>1, <3>2 DEF checkRateLimit
  <2> QED
    BY <1>0, <2>1, <2>2, <2>3, <2>4, <2>5, QuietStep
<1>11. ASSUME NEW p \in Procs, recordRejection(p) PROVE Goal
  <2> DEFINE g == getOrCreateTracker(User(req[p]))
  <2>1. Moves(p) /\ pc[p] # "idle" /\ User(req[p]) \in Users
    BY <1>0, <1>11, StepMoves, CallType DEF Step, recordRejection
  <2>2. now' = now /\ sent' = sent
    BY <1>11 DEF recordRejection, Continue, Return, history
  <2>3. pc'[p] \in PastDaily => pc[p] \in PastDaily
    BY <1>11, <2>1 DEF recordRejection, Moves, checkDailyOrderCount
  <2>4. pc[p] \in Accounting => pc'[p] \in Accounting
    BY <1>0, <1>11 DEF recordRejection, Accounting, TypeOK
  <2>5. \A u \in Users : EffectiveCount(u)' = EffectiveCount(u)
    <3>1. CASE tracker' = tracker
      BY <2>2, <3>1, EffectiveSame
    <3>2. ASSUME NEW new, tracker' = Put(tracker, User(req[p]), [g EXCEPT !.rejections = new])
          PROVE  \A u \in Users : EffectiveCount(u)' = EffectiveCount(u)
      <4>1. g \in Tracker
        BY <1>0, <2>1, TrackerType
      <4>2. [g EXCEPT !.rejections = new].count = g.count /\ [g EXCEPT !.rejections = new].resetAt = g.resetAt
        BY <4>1 DEF Tracker
      <4> QED
        BY <1>0, <2>1, <2>2, <3>2, <4>2, EffectivePut
    <3> QED
      BY <1>11, <3>1, <3>2 DEF recordRejection
  <2> QED
    BY <1>0, <2>1, <2>2, <2>3, <2>4, <2>5, QuietStep
<1>12. ASSUME NEW p \in Procs, checkDuplicateOrder(p) PROVE Goal
  <2> DEFINE g == getOrCreateTracker(User(req[p]))
  <2>1. Moves(p) /\ pc[p] # "idle" /\ User(req[p]) \in Users
    BY <1>0, <1>12, StepMoves, CallType DEF Step, checkDuplicateOrder
  <2>2. now' = now /\ sent' = sent
    BY <1>12 DEF checkDuplicateOrder, Verdict, Continue, Return, history
  <2>3. pc'[p] \in PastDaily => pc[p] \in PastDaily
    BY <1>12, <2>1 DEF checkDuplicateOrder, Moves, checkDailyOrderCount
  <2>4. pc[p] \in Accounting => pc'[p] \in Accounting
    BY <1>0, <1>12 DEF checkDuplicateOrder, Accounting, TypeOK
  <2>5. \A u \in Users : EffectiveCount(u)' = EffectiveCount(u)
    <3>1. CASE tracker' = tracker
      BY <2>2, <3>1, EffectiveSame
    <3>2. ASSUME NEW new, tracker' = Put(tracker, User(req[p]), [g EXCEPT !.params = new])
          PROVE  \A u \in Users : EffectiveCount(u)' = EffectiveCount(u)
      <4>1. g \in Tracker
        BY <1>0, <2>1, TrackerType
      <4>2. [g EXCEPT !.params = new].count = g.count /\ [g EXCEPT !.params = new].resetAt = g.resetAt
        BY <4>1 DEF Tracker
      <4> QED
        BY <1>0, <2>1, <2>2, <3>2, <4>2, EffectivePut
    <3> QED
      BY <1>12, <3>1, <3>2 DEF checkDuplicateOrder
  <2> QED
    BY <1>0, <2>1, <2>2, <2>3, <2>4, <2>5, QuietStep
<1>13. ASSUME NEW p \in Procs, checkAutoFreeze(p) PROVE Goal
  <2> DEFINE g == getOrCreateTracker(User(req[p]))
  <2>1. Moves(p) /\ pc[p] # "idle" /\ User(req[p]) \in Users
    BY <1>0, <1>13, StepMoves, CallType DEF Step, checkAutoFreeze
  <2>2. now' = now /\ sent' = sent
    BY <1>13 DEF checkAutoFreeze, Continue, Return, history
  <2>3. pc'[p] \in PastDaily => pc[p] \in PastDaily
    BY <1>13, <2>1 DEF checkAutoFreeze, Moves, checkDailyOrderCount
  <2>4. pc[p] \in Accounting => pc'[p] \in Accounting
    BY <1>0, <1>13 DEF checkAutoFreeze, Accounting, TypeOK
  <2>5. \A u \in Users : EffectiveCount(u)' = EffectiveCount(u)
    <3>1. CASE tracker' = tracker
      BY <2>2, <3>1, EffectiveSame
    <3>2. ASSUME NEW new, tracker' = Put(tracker, User(req[p]), [g EXCEPT !.rejections = new])
          PROVE  \A u \in Users : EffectiveCount(u)' = EffectiveCount(u)
      <4>1. g \in Tracker
        BY <1>0, <2>1, TrackerType
      <4>2. [g EXCEPT !.rejections = new].count = g.count /\ [g EXCEPT !.rejections = new].resetAt = g.resetAt
        BY <4>1 DEF Tracker
      <4> QED
        BY <1>0, <2>1, <2>2, <3>2, <4>2, EffectivePut
    <3> QED
      BY <1>13, <3>1, <3>2 DEF checkAutoFreeze
  <2> QED
    BY <1>0, <2>1, <2>2, <2>3, <2>4, <2>5, QuietStep
<1>14. ASSUME NEW p \in Procs, checkDailyValue(p) PROVE Goal
  <2>1. Moves(p) /\ pc[p] # "idle" /\ User(req[p]) \in Users
    BY <1>0, <1>14, StepMoves, CallType DEF Step, checkDailyValue
  <2>2. now' = now /\ sent' = sent
    BY <1>14 DEF checkDailyValue, Verdict, Continue, history
  <2>3. pc'[p] \in PastDaily => pc[p] \in PastDaily
    BY <1>14, <2>1 DEF checkDailyValue, Moves, checkDailyOrderCount
  <2>4. pc[p] \in Accounting => pc'[p] \in Accounting
    BY <1>0, <1>14 DEF checkDailyValue, Accounting, TypeOK
  <2>5. \A u \in Users : EffectiveCount(u)' = EffectiveCount(u)
    <3>1. CASE tracker' = tracker
      BY <2>2, <3>1, EffectiveSame
    <3>2. CASE tracker' = Put(tracker, User(req[p]),
                              maybeResetDay(getOrCreateTracker(User(req[p]))))
      <4> PICK w \in Users : w = User(req[p])
        BY <2>1
      <4> QED
        BY <1>0, <2>2, <3>2, EffectivePut, EffectiveReset
    <3> QED
      BY <1>14, <3>1, <3>2 DEF checkDailyValue
  <2> QED
    BY <1>0, <2>1, <2>2, <2>3, <2>4, <2>5, QuietStep
<1>15. ASSUME NEW p \in Procs, checkDailyOrderCount(p) PROVE Goal
  <2>1. Moves(p) /\ pc[p] = "daily" /\ User(req[p]) \in Users
    BY <1>0, <1>15, StepMoves, CallType DEF Step, checkDailyOrderCount
  <2> PICK w \in Users : w = User(req[p])
    BY <2>1
  <2> PICK t \in Tracker : t = maybeResetDay(getOrCreateTracker(w))
    BY <1>0, TrackerType
  <2>2. now' = now /\ sent' = sent /\ tracker' = Put(tracker, w, t)
    BY <1>15 DEF checkDailyOrderCount, Verdict, Continue, history
  <2>3. /\ \A u \in Users : EffectiveCount(u)' = EffectiveCount(u)
        /\ EffectiveCount(w) = t.count /\ t.count \in Nat
    BY <1>0, <2>2, EffectivePut, EffectiveReset
  <2>4. "daily" \notin Accounting /\ "daily" \notin PastDaily
        /\ "reject" \notin Accounting /\ "reject" \notin PastDaily
        /\ "second" \notin Accounting /\ "second" \in PastDaily
    BY DEF PastDaily, PastMinute, PastParams, Accounting
  <2>5. CASE t.count >= MaxOrdersPerDay
    <3>1. pc'[p] = "reject"
      BY <1>0, <1>15, <2>5, ContinueMoves DEF checkDailyOrderCount, Verdict
    <3> QED
      BY <1>0, <2>1, <2>2, <2>3, <2>4, <3>1, QuietStep
  <2>6. CASE ~(t.count >= MaxOrdersPerDay)
    <3> SUFFICES ASSUME NEW u \in Users PROVE Counted(u)' /\ Capped(u)'
      OBVIOUS
    <3>1. At(u, Accounting) \subseteq At(u, Accounting)'
      BY <1>0, <2>1, <2>4, AtOthers, NoIdle
    <3>2. CASE u # w
      <4>1. At(u, PastDaily)' \subseteq At(u, PastDaily)
        BY <1>0, <2>1, <3>2, AtOthers, NoIdle
      <4>2. sent'[u] <= sent[u]
        BY <1>0, <2>2, SentType
      <4> QED
        BY <1>0, <2>3, <3>1, <4>1, <4>2, Quiet
    <3>3. CASE u = w
      <4>1. EffectiveCount(u)' = EffectiveCount(u) /\ EffectiveCount(u) = t.count
        BY <2>3, <3>3
      <4>2. Cardinality(At(u, PastDaily)') <= K /\ Cardinality(At(u, PastDaily)') \in Nat
            /\ K \in Nat
        BY AtCardinalityPrime
      <4>3. MaxOrdersPerDay \in Nat /\ t.count + 1 <= MaxOrdersPerDay
        BY <2>3, <2>6, GuardAssumption
      <4>4. Capped(u)'
        BY <2>3, <4>1, <4>2, <4>3 DEF Capped
      <4>5. Cardinality(At(u, Accounting)) <= Cardinality(At(u, Accounting)')
            /\ Cardinality(At(u, Accounting)) \in Nat /\ Cardinality(At(u, Accounting)') \in Nat
        BY <3>1, AtCardinalityPrime, SmallerSet
      <4>6. sent[u] \in Nat
        BY <1>0 DEF TypeOK
      <4>7. Counted(u)'
        BY <1>0, <2>2, <2>3, <4>1, <4>5, <4>6 DEF Counted
      <4> QED
        BY <4>4, <4>7
    <3> QED
      BY <3>2, <3>3
  <2> QED
    BY <2>5, <2>6
<1>16. ASSUME NEW p \in Procs, Broker(p) PROVE Goal
  <2>1. Moves(p) /\ pc[p] = "broker" /\ User(req[p]) \in Users
    BY <1>0, <1>16, StepMoves, CallType DEF Step, Broker
  <2>2. now' = now /\ tracker' = tracker
    BY <1>16 DEF Broker, Continue, Return, counters
  <2>3. \A u \in Users : EffectiveCount(u)' = EffectiveCount(u)
    BY <2>2, EffectiveSame
  <2>4. "broker" \notin Accounting /\ "broker" \in PastDaily
        /\ "stamp" \in Accounting /\ "stamp" \in PastDaily
    BY DEF PastDaily, PastMinute, PastParams, Accounting
  <2>5. CASE sent' = sent /\ pc'[p] = "idle"
    BY <1>0, <2>1, <2>3, <2>4, <2>5, NoIdle, QuietStep
  <2>6. CASE sent' = [sent EXCEPT ![User(req[p])] = @ + 1] /\ pc'[p] = "stamp"
    <3> SUFFICES ASSUME NEW u \in Users PROVE Counted(u)' /\ Capped(u)'
      OBVIOUS
    <3>1. At(u, PastDaily)' \subseteq At(u, PastDaily)
      BY <1>0, <2>1, <2>4, AtOthers, NoIdle
    <3>2. CASE u # User(req[p])
      <4>1. sent'[u] <= sent[u]
        BY <1>0, <2>6, <3>2, SentType DEF TypeOK
      <4>2. At(u, Accounting) \subseteq At(u, Accounting)'
        BY <1>0, <2>1, <2>4, AtOthers, NoIdle
      <4> QED
        BY <1>0, <2>3, <3>1, <4>1, <4>2, Quiet
    <3>3. CASE u = User(req[p])
      <4>1. sent'[u] = sent[u] + 1 /\ sent[u] \in Nat
        BY <1>0, <2>1, <2>6, <3>3 DEF TypeOK
      <4>2. At(u, Accounting)' = At(u, Accounting) \cup {p} /\ p \notin At(u, Accounting)
        BY <1>0, <2>1, <2>4, <2>6, <3>3, AtOthers, NoIdle
      <4>3. Cardinality(At(u, Accounting)') = Cardinality(At(u, Accounting)) + 1
            /\ Cardinality(At(u, Accounting)) \in Nat
        <5>1. IsFiniteSet(At(u, Accounting))
          BY AtCardinality
        <5> QED
          BY <4>2, <5>1, OneAdded
      <4>4. EffectiveCount(u) \in Nat /\ K \in Nat /\ MaxOrdersPerDay \in Nat
        BY <1>0, EffectiveReset, AtCardinality, GuardAssumption
      <4>5. Counted(u)'
        BY <1>0, <2>3, <4>1, <4>3, <4>4 DEF Counted
      <4>6. Cardinality(At(u, PastDaily)') <= Cardinality(At(u, PastDaily))
            /\ Cardinality(At(u, PastDaily)') \in Nat /\ Cardinality(At(u, PastDaily)) \in Nat
        BY <3>1, AtCardinality, SmallerSet
      <4>7. Capped(u)'
        BY <1>0, <2>3, <4>4, <4>6 DEF Capped
      <4> QED
        BY <4>5, <4>7
    <3> QED
      BY <3>2, <3>3
  <2> QED
    BY <1>0, <1>16, <2>5, <2>6, ContinueMoves, ReturnMoves DEF Broker
<1>17. ASSUME NEW p \in Procs, RecordOrder(p) PROVE Goal
  <2>1. Moves(p) /\ pc[p] = "record" /\ User(req[p]) \in Users /\ pc'[p] = "idle"
    BY <1>0, <1>17, StepMoves, CallType, ReturnMoves DEF Step, RecordOrder
  <2> PICK w \in Users : w = User(req[p])
    BY <2>1
  <2> PICK t \in Tracker : t = maybeResetDay(getOrCreateTracker(w))
    BY <1>0, TrackerType
  <2> PICK new : new = [t EXCEPT !.count = @ + 1, !.value = @ + req[p].value,
                                 !.orders = Append(@, now),
                                 !.params = Append(@, [sig |-> req[p].sig, at |-> now])]
    OBVIOUS
  <2>2. now' = now /\ sent' = sent /\ tracker' = Put(tracker, w, new)
    BY <1>17 DEF RecordOrder, Return, history
  <2>3. EffectiveCount(w) = t.count /\ ~Stale(t.resetAt)
    BY <1>0, EffectiveReset
  <2>4. new.count = t.count + 1 /\ new.resetAt = t.resetAt
    BY DEF Tracker
  <2>5. EffectiveCount(w)' = EffectiveCount(w) + 1
        /\ \A u \in Users \ {w} : EffectiveCount(u)' = EffectiveCount(u)
    BY <1>0, <2>2, <2>3, <2>4, EffectivePut
  <2>6. "record" \in Accounting /\ "record" \in PastDaily
    BY DEF PastDaily, PastMinute, PastParams, Accounting
  <2> SUFFICES ASSUME NEW u \in Users PROVE Counted(u)' /\ Capped(u)'
    OBVIOUS
  <2>7. CASE u # w
    <3>1. At(u, Accounting) \subseteq At(u, Accounting)'
          /\ At(u, PastDaily)' \subseteq At(u, PastDaily)
      BY <1>0, <2>1, <2>7, AtOthers, NoIdle
    <3>2. sent'[u] <= sent[u]
      BY <1>0, <2>2, SentType
    <3> QED
      BY <1>0, <2>5, <2>7, <3>1, <3>2, Quiet
  <2>8. CASE u = w
    <3>1. /\ At(u, Accounting)' = At(u, Accounting) \ {p} /\ p \in At(u, Accounting)
          /\ At(u, PastDaily)' = At(u, PastDaily) \ {p} /\ p \in At(u, PastDaily)
      BY <1>0, <2>1, <2>6, <2>8, AtOthers, NoIdle
    <3>2. /\ Cardinality(At(u, Accounting)') = Cardinality(At(u, Accounting)) - 1
          /\ Cardinality(At(u, Accounting)) \in Nat
      <4>1. IsFiniteSet(At(u, Accounting))
        BY AtCardinality
      <4> QED
        BY <3>1, <4>1, OneRemoved
    <3>3. /\ Cardinality(At(u, PastDaily)') = Cardinality(At(u, PastDaily)) - 1
          /\ Cardinality(At(u, PastDaily)) \in Nat
      <4>1. IsFiniteSet(At(u, PastDaily))
        BY AtCardinality
      <4> QED
        BY <3>1, <4>1, OneRemoved
    <3>4. EffectiveCount(u) \in Nat /\ sent[u] \in Nat /\ K \in Nat /\ MaxOrdersPerDay \in Nat
      BY <1>0, EffectiveReset, AtCardinality, GuardAssumption DEF TypeOK
    <3>5. Counted(u)'
      BY <1>0, <2>2, <2>5, <2>8, <3>2, <3>4 DEF Counted
    <3>6. Capped(u)'
      BY <1>0, <2>5, <2>8, <3>3, <3>4 DEF Capped
    <3> QED
      BY <3>5, <3>6
  <2> QED
    BY <2>7, <2>8
<1>18. CASE Admin
  <2>1. UNCHANGED <<now, pc, req, sent>>
    BY <1>18 DEF Admin, Freeze, Unfreeze, GetUserStatus, FreezeGlobal, UnfreezeGlobal, AdminCall
  <2>2. \A u \in Users : EffectiveCount(u)' = EffectiveCount(u)
    <3>1. CASE tracker' = tracker
      BY <2>1, <3>1, EffectiveSame
    <3>2. ASSUME NEW e \in Emails,
                 tracker' = Put(tracker, Lower[e], maybeResetDay(getOrCreateTracker(Lower[e])))
          PROVE  \A u \in Users : EffectiveCount(u)' = EffectiveCount(u)
      BY <1>0, <2>1, <3>2, LowerType, EffectivePut, EffectiveReset
    <3> QED
      BY <1>18, <3>1, <3>2
      DEF Admin, Freeze, Unfreeze, GetUserStatus, FreezeGlobal, UnfreezeGlobal, counters
  <2>3. \A u, L : At(u, L)' = At(u, L)
    BY <2>1 DEF At, User
  <2> QED
    BY <1>0, <2>1, <2>2, <2>3, Still
<1>19. CASE Tick
  <2>1. UNCHANGED <<tracker, pc, req>> /\ now' = now + 1
    BY <1>19 DEF Tick, counters, locals
  <2>2. \A u, L : At(u, L)' = At(u, L)
    BY <2>1 DEF At, User
  <2> SUFFICES ASSUME NEW u \in Users PROVE Counted(u)' /\ Capped(u)'
    OBVIOUS
  <2>3. EffectiveCount(u) \in Nat /\ EffectiveCount(u)' \in Nat
        /\ Cardinality(At(u, Accounting)) \in Nat /\ Cardinality(At(u, PastDaily)) \in Nat
        /\ K \in Nat /\ MaxOrdersPerDay \in Nat /\ now \in Nat
    <3>1. u \in DOMAIN tracker => tracker[u] \in Tracker
      BY <1>0 DEF TypeOK
    <3>2. EffectiveCount(u)' \in Nat
      BY <2>1, <3>1 DEF EffectiveCount, Tracker
    <3> QED
      BY <1>0, <3>2, EffectiveReset, AtCardinality, GuardAssumption DEF TypeOK
  <2>4. \A at : Stale(at) => Stale(at)'
    <3> SUFFICES ASSUME NEW at, NEW b \in DayBoundaries, at < b, b <= now
                 PROVE  \E c \in DayBoundaries : at < c /\ c <= now'
      BY DEF Stale
    <3>1. b \in Nat
      BY GuardAssumption
    <3>2. b <= now'
      BY <2>1, <2>3, <3>1
    <3> QED
      BY <3>2
  <2>5. EffectiveCount(u)' <= EffectiveCount(u)
    BY <2>1, <2>3, <2>4 DEF EffectiveCount
  <2>6. Capped(u)'
    BY <1>0, <2>2, <2>3, <2>5 DEF Capped
  <2>7. CASE now + 1 \in DayBoundaries
    <3>1. sent'[u] = 0
      BY <1>19, <2>7 DEF Tick
    <3> QED
      BY <2>2, <2>3, <2>6, <3>1 DEF Counted
  <2>8. CASE now + 1 \notin DayBoundaries
    <3>1. \A at : Stale(at)' <=> Stale(at)
      BY <2>1, <2>3, <2>4, <2>8, GuardAssumption DEF Stale
    <3>2. EffectiveCount(u)' = EffectiveCount(u)
      BY <2>1, <3>1 DEF EffectiveCount
    <3>3. sent'[u] = sent[u]
      BY <1>19, <2>8 DEF Tick
    <3> QED
      BY <1>0, <2>2, <2>6, <3>2, <3>3 DEF Counted
  <2> QED
    BY <2>7, <2>8
<1>20. CASE UNCHANGED vars
  <2>1. UNCHANGED <<now, tracker, pc, req, sent>>
    BY <1>20 DEF vars, counters, locals, history
  <2>2. \A u, L : At(u, L)' = At(u, L)
    BY <2>1 DEF At, User
  <2> QED
    BY <1>0, <2>1, <2>2, EffectiveSame, Still
<1> QED
  BY <1>1, <1>2, <1>3, <1>4, <1>5, <1>6, <1>7, <1>8, <1>9, <1>10, <1>11, <1>12, <1>13, <1>14, <1>15, <1>16, <1>17, <1>18, <1>19, <1>20
  DEF Next, Step, Rest

\* The orders the broker acknowledged today are counted or about to be.
THEOREM NothingUncounted == Spec => []NoOrderUncounted
<1>1. Init => CapInv
  BY InitCap
<1>2. CapInv /\ [Next]_vars => CapInv'
  BY CapStep
<1>3. CapInv => NoOrderUncounted
  BY DEF CapInv, Counted, NoOrderUncounted
<1> QED
  BY <1>1, <1>2, <1>3, PTL DEF Spec

\* The daily cap is overshot by at most K - 1 orders, for any number K of
\* goroutines: the calls past the daily check include the unrecorded ones.
THEOREM DailyCapHolds == Spec => []DailyCountCap
<1>1. Init => CapInv
  BY InitCap
<1>2. CapInv /\ [Next]_vars => CapInv'
  BY CapStep
<1>3. CapInv => DailyCountCap
  <2> SUFFICES ASSUME CapInv, NEW u \in Users
               PROVE  sent[u] <= MaxOrdersPerDay + K - 1
    BY DEF DailyCountCap
  <2>1. At(u, Accounting) \subseteq At(u, PastDaily)
    BY DEF At, PastDaily, PastMinute, PastParams
  <2>2. Cardinality(At(u, Accounting)) <= Cardinality(At(u, PastDaily))
        /\ Cardinality(At(u, Accounting)) \in Nat /\ Cardinality(At(u, PastDaily)) \in Nat
    BY <2>1, AtCardinality, SmallerSet
  <2>3. EffectiveCount(u) \in Nat /\ sent[u] \in Nat /\ K \in Nat /\ MaxOrdersPerDay \in Nat
    BY EffectiveReset, AtCardinality, GuardAssumption DEF CapInv, TypeOK
  <2> QED
    BY <2>2, <2>3 DEF CapInv, Counted, Capped
<1> QED
  BY <1>1, <1>2, <1>3, PTL DEF Spec
----------------------------------------------------------------------------
(* What leaks under the global freeze.                                     *)

\* Goroutines past the global flag and not yet past the broker.
InFlight == {p \in Procs : pc[p] \in Ahead}

\* Every order delivered under the freeze was in flight when it was set, and
\* nothing joins those that still are.
LeakInv == TypeOK /\ (globalFrozen => afterFreeze + Cardinality(InFlight) <= K)

LEMMA InFlightFinite ==
  /\ IsFiniteSet(InFlight) /\ Cardinality(InFlight) \in Nat
  /\ Cardinality(InFlight) <= K /\ K \in Nat
<1>1. InFlight \in SUBSET Procs /\ IsFiniteSet(Procs)
  BY GuardAssumption DEF InFlight
<1>2. IsFiniteSet(InFlight) /\ Cardinality(InFlight) <= K
  BY <1>1, FS_Subset DEF K
<1> QED
  BY <1>1, <1>2, FS_CardinalityType DEF K

LEMMA LeakStep == LeakInv /\ [Next]_vars => LeakInv'
<1> SUFFICES ASSUME LeakInv, [Next]_vars, globalFrozen'
             PROVE  afterFreeze' + Cardinality(InFlight') <= K
  BY TypeStep DEF LeakInv
<1> USE DEF LeakInv
<1>0. afterFreeze \in Nat
  BY DEF TypeOK
<1>1. ASSUME globalFrozen, UNCHANGED <<afterFreeze, pc>>
      PROVE  afterFreeze' + Cardinality(InFlight') <= K
  <2>1. InFlight' = InFlight
    BY <1>1 DEF InFlight
  <2> QED
    BY <1>1, <2>1
<1>2. ASSUME NEW p \in Procs, Step(p) PROVE afterFreeze' + Cardinality(InFlight') <= K
  <2>1. Moves(p)
    BY <1>2, StepMoves
  <2>2. globalFrozen /\ InFlight' \subseteq InFlight
    BY <2>1 DEF Moves, InFlight
  <2>3. CASE Broker(p)
    <3>1. p \in InFlight /\ p \notin InFlight'
      <4>1. pc[p] = "broker" /\ pc'[p] \in {"stamp", "idle"}
        BY <2>3, ContinueMoves, ReturnMoves DEF Broker
      <4> QED
        BY <4>1, NoIdle DEF InFlight, Ahead, Undelivered, Accounting, PastGlobal, PastKill,
                            PastDaily, PastMinute, PastParams
    <3>2. InFlight' \subseteq InFlight \ {p}
      BY <2>2, <3>1
    <3>3. IsFiniteSet(InFlight \ {p}) /\ Cardinality(InFlight \ {p}) = Cardinality(InFlight) - 1
      BY <3>1, InFlightFinite, FS_RemoveElement
    <3>4. Cardinality(InFlight') <= Cardinality(InFlight) - 1 /\ Cardinality(InFlight') \in Nat
      BY <3>2, <3>3, SmallerSet
    <3>5. afterFreeze' = afterFreeze \/ afterFreeze' = afterFreeze + 1
      BY <2>3 DEF Broker
    <3> QED
      BY <1>0, <2>2, <3>4, <3>5, InFlightFinite
  <2>4. CASE ~Broker(p)
    <3>1. afterFreeze' = afterFreeze
      BY <1>2, <2>4 DEF Step, Receive, CheckGlobalFreeze, checkKillSwitch, CheckRequest,
         checkDailyOrderCount, checkPerSecondRate, checkRateLimit, checkClientOrderIDDuplicate,
         checkDuplicateOrder, checkDailyValue, CheckMarket, ReadClock, increment, RecordOrder,
         recordRejection, checkAutoFreeze, history
    <3>2. Cardinality(InFlight') <= Cardinality(InFlight) /\ Cardinality(InFlight') \in Nat
      BY <2>2, InFlightFinite, SmallerSet
    <3> QED
      BY <1>0, <2>2, <3>1, <3>2, InFlightFinite
  <2> QED
    BY <2>3, <2>4
<1>3. CASE FreezeGlobal
  <2>1. InFlight' = InFlight
    BY <1>3 DEF FreezeGlobal, AdminCall, InFlight
  <2>2. afterFreeze' = IF globalFrozen THEN afterFreeze ELSE 0
    BY <1>3 DEF FreezeGlobal
  <2> QED
    BY <2>1, <2>2, InFlightFinite
<1>4. CASE UnfreezeGlobal
  BY <1>4 DEF UnfreezeGlobal
<1>5. CASE \E e \in Emails : Freeze(e) \/ Unfreeze(e) \/ GetUserStatus(e)
  BY <1>1, <1>5 DEF Freeze, Unfreeze, GetUserStatus, AdminCall, freezes
<1>6. CASE Tick
  BY <1>1, <1>6 DEF Tick, freezes
<1>7. CASE UNCHANGED vars
  BY <1>1, <1>7 DEF vars, freezes, history
<1> QED
  BY <1>2, <1>3, <1>4, <1>5, <1>6, <1>7 DEF Next, Admin, Rest

\* From FreezeGlobal to UnfreezeGlobal at most K orders still reach the broker,
\* for any number K of goroutines.
THEOREM FreezeLeakHolds == Spec => []FreezeLeak
<1>1. Init => LeakInv
  BY TypeInit DEF Init, LeakInv
<1>2. LeakInv /\ [Next]_vars => LeakInv'
  BY LeakStep
<1>3. LeakInv => FreezeLeak
  <2> SUFFICES ASSUME LeakInv, globalFrozen PROVE afterFreeze <= K
    BY DEF FreezeLeak
  <2>1. afterFreeze \in Nat /\ afterFreeze + Cardinality(InFlight) <= K
    BY DEF LeakInv, TypeOK
  <2> QED
    BY <2>1, InFlightFinite
<1> QED
  BY <1>1, <1>2, <1>3, PTL DEF Spec

----------------------------------------------------------------------------
(* Idempotency keys, for any requests and any TTL.                         *)

\* Goroutine p passed the key check with a key and has not left the broker.
Granted(p)  == pc[p] \in {"params", "value", "market", "broker"} /\ req[p].key # NoKey
Entry(p)    == <<User(req[p]), req[p].key>>
Apart(a, b) == b - a >= DedupTTL \/ a - b >= DedupTTL

\* Every grant, of a call in flight or of an order in the log, is remembered by
\* the map, which may know a later grant of the same key.
KeyStored ==
  /\ \A p \in Procs : Granted(p) =>
       Entry(p) \in DOMAIN seen /\ stamp[p] <= seen[Entry(p)]
  /\ \A u \in Users : \A i \in DOMAIN log[u] : log[u][i].key # NoKey =>
       /\ <<u, log[u][i].key>> \in DOMAIN seen
       /\ log[u][i].granted <= seen[<<u, log[u][i].key>>]

\* Grants of one key are DedupTTL apart, whether both are in flight, one is, or
\* both are in the log.
KeysApart ==
  /\ \A p, q \in Procs : p # q /\ Granted(p) /\ Granted(q) /\ Entry(p) = Entry(q) =>
       Apart(stamp[p], stamp[q])
  /\ \A p \in Procs : Granted(p) =>
       \A i \in DOMAIN log[User(req[p])] : log[User(req[p])][i].key = req[p].key =>
         Apart(log[User(req[p])][i].granted, stamp[p])
  /\ KeyOnce

KeyInv == TypeOK /\ KeyStored /\ KeysApart

LEMMA KeyInit == Init => KeyInv
<1> SUFFICES ASSUME Init PROVE KeyStored /\ KeysApart
  BY TypeInit DEF KeyInv
<1>1. \A p \in Procs : ~Granted(p)
  BY DEF Init, Granted
<1>2. \A u \in Users : DOMAIN log[u] = {}
  BY DEF Init
<1> QED
  BY <1>1, <1>2 DEF KeyStored, KeysApart, KeyOnce

\* A step that grants nothing and logs nothing: what is left of the grants is
\* as it was.
KeysStill ==
  /\ seen' = seen /\ log' = log
  /\ \A p \in Procs : Granted(p)' => Granted(p) /\ stamp'[p] = stamp[p] /\ req'[p] = req[p]

LEMMA KeysStillKeeps == KeyInv /\ KeysStill => KeyStored' /\ KeysApart'
<1> SUFFICES ASSUME KeyInv, KeysStill PROVE KeyStored' /\ KeysApart'
  OBVIOUS
<1>1. \A p \in Procs : Granted(p)' =>
        Granted(p) /\ Entry(p)' = Entry(p) /\ stamp'[p] = stamp[p] /\ req'[p] = req[p]
        /\ User(req[p])' = User(req[p])
  BY DEF KeysStill, Entry, User
<1>2. KeyOnce'
  BY DEF KeyInv, KeysApart, KeyOnce, KeysStill
<1>3. KeyStored'
  BY <1>1 DEF KeyInv, KeyStored, KeysStill
<1> QED
  BY <1>1, <1>2, <1>3 DEF KeyInv, KeysApart, KeysStill, Apart

\* The key check: the map's entry is too old for every grant it remembers.
LEMMA KeyCheckKeeps ==
  ASSUME KeyInv, NEW p \in Procs, checkClientOrderIDDuplicate(p)
  PROVE  KeyStored' /\ KeysApart'
<1> USE DEF KeyInv
<1>1. /\ pc[p] = "key" /\ log' = log
      /\ pc \in [Procs -> Labels] /\ stamp \in [Procs -> Nat] /\ now \in Nat
  BY DEF checkClientOrderIDDuplicate, history, TypeOK
<1>2. CASE \E l \in {"params", "reject"} :
             Continue(p, l) /\ seen' = seen /\ (l = "params" => req[p].key = NoKey)
  <2>1. KeysStill
    BY <1>1, <1>2 DEF KeysStill, Granted, Continue, locals
  <2> QED
    BY <2>1, KeysStillKeeps
<1>3. CASE /\ req[p].key # NoKey /\ ~Seen(req[p])
           /\ seen' = Put(seen, Entry(p), now)
           /\ stamp' = [stamp EXCEPT ![p] = now]
           /\ pc' = [pc EXCEPT ![p] = "params"]
           /\ req' = req
  <2>1. /\ \A q \in Procs \ {p} : Granted(q)' = Granted(q) /\ stamp'[q] = stamp[q]
        /\ Granted(p)' /\ ~Granted(p) /\ stamp'[p] = now
        /\ \A q \in Procs : Entry(q)' = Entry(q) /\ User(req[q])' = User(req[q])
    BY <1>1, <1>3 DEF Granted, Entry, User
  <2>2. /\ DOMAIN seen' = DOMAIN seen \cup {Entry(p)}
        /\ seen'[Entry(p)] = now
        /\ \A e \in DOMAIN seen \ {Entry(p)} : seen'[e] = seen[e]
    BY <1>3 DEF Put
  <2>3. \A g \in Nat : Entry(p) \in DOMAIN seen /\ g <= seen[Entry(p)] => g <= now /\ Apart(g, now)
    <3> SUFFICES ASSUME NEW g \in Nat, Entry(p) \in DOMAIN seen, g <= seen[Entry(p)]
                 PROVE  g <= now /\ Apart(g, now)
      OBVIOUS
    <3>1. seen[Entry(p)] \in Nat
      BY DEF TypeOK
    <3>2. now - seen[Entry(p)] >= DedupTTL /\ DedupTTL \in Nat
      BY <1>1, <1>3, <3>1, GuardAssumption DEF Seen, Entry
    <3>3. g <= now /\ now - g >= DedupTTL
      BY <1>1, <3>1, <3>2
    <3> QED
      BY <3>3 DEF Apart
  <2>4. \A u \in Users : \A i \in DOMAIN log[u] : log[u][i].granted \in Nat
    <3>1. log \in [Users -> Seq(Acknowledged)]
      BY DEF TypeOK
    <3>2. \A u \in Users : \A i \in DOMAIN log[u] : log[u][i] \in Acknowledged
      BY <3>1
    <3> QED
      BY <3>2 DEF Acknowledged
  <2>5. \A q \in Procs : stamp[q] \in Nat
    BY <1>1
  <2>6. KeyStored'
    <3>1. \A q \in Procs : Granted(q)' =>
            Entry(q)' \in DOMAIN seen' /\ stamp'[q] <= seen'[Entry(q)']
      <4> SUFFICES ASSUME NEW q \in Procs, Granted(q)'
                   PROVE  Entry(q) \in DOMAIN seen' /\ stamp'[q] <= seen'[Entry(q)]
        BY <2>1
      <4>1. CASE q = p
        BY <1>1, <2>1, <2>2, <4>1
      <4>2. CASE q # p
        <5>1. Entry(q) \in DOMAIN seen /\ stamp[q] <= seen[Entry(q)] /\ stamp'[q] = stamp[q]
          BY <2>1, <4>2 DEF KeyStored
        <5> QED
          BY <2>2, <2>3, <2>5, <5>1
      <4> QED
        BY <4>1, <4>2
    <3>2. \A u \in Users : \A i \in DOMAIN log'[u] : log'[u][i].key # NoKey =>
            /\ <<u, log'[u][i].key>> \in DOMAIN seen'
            /\ log'[u][i].granted <= seen'[<<u, log'[u][i].key>>]
      BY <1>1, <2>2, <2>3, <2>4 DEF KeyStored
    <3> QED
      BY <3>1, <3>2 DEF KeyStored
  <2>7. KeysApart'
    <3>1. \A q \in Procs \ {p} : Granted(q) /\ Entry(q) = Entry(p) => Apart(stamp[q], now)
      BY <2>3, <2>5 DEF KeyStored
    <3>2. User(req[p]) \in Users
      BY <1>1, UserType DEF TypeOK
    <3>3. \A i \in DOMAIN log[User(req[p])] : log[User(req[p])][i].key = req[p].key =>
            Apart(log[User(req[p])][i].granted, now)
      BY <1>3, <2>3, <2>4, <3>2 DEF KeyStored, Entry
    <3>4. \A a, b \in Nat : Apart(a, b) => Apart(b, a)
      BY DEF Apart
    <3>5. \A q, r \in Procs : q # r /\ Granted(q)' /\ Granted(r)' /\ Entry(q)' = Entry(r)' =>
            Apart(stamp'[q], stamp'[r])
      BY <1>1, <2>1, <2>5, <3>1, <3>4 DEF KeysApart
    <3>6. \A q \in Procs : Granted(q)' =>
            \A i \in DOMAIN log[User(req[q])] : log[User(req[q])][i].key = req[q].key =>
              Apart(log[User(req[q])][i].granted, stamp'[q])
      BY <2>1, <3>3 DEF KeysApart
    <3>7. KeyOnce'
      BY <1>1 DEF KeysApart, KeyOnce
    <3> QED
      BY <1>1, <1>3, <2>1, <3>5, <3>6, <3>7 DEF KeysApart, Apart
  <2> QED
    BY <2>6, <2>7
<1> QED
  BY <1>2, <1>3 DEF checkClientOrderIDDuplicate, Entry

\* The broker: a grant in flight becomes one in the log.
LEMMA BrokerKeeps ==
  ASSUME KeyInv, NEW p \in Procs, Broker(p)
  PROVE  KeyStored' /\ KeysApart'
<1> USE DEF KeyInv
<1> DEFINE u == User(req[p])
           ack == [sig |-> req[p].sig, at |-> now, key |-> req[p].key, granted |-> stamp[p]]
<1>1. /\ pc[p] = "broker" /\ seen' = seen /\ u \in Users
      /\ log \in [Users -> Seq(Acknowledged)] /\ stamp \in [Procs -> Nat]
  BY UserType DEF Broker, counters, TypeOK
<1>2. \A q \in Procs : Granted(q)' =>
        q # p /\ Granted(q) /\ stamp'[q] = stamp[q] /\ req'[q] = req[q]
  BY DEF Broker, Continue, Return, locals, Granted, TypeOK
<1>3. CASE log' = log
  BY <1>1, <1>2, <1>3, KeysStillKeeps DEF KeysStill
<1>4. CASE log' = [log EXCEPT ![u] = Append(log[u], ack)]
  <2>1. Len(log[u]) \in Nat /\ DOMAIN log[u] = 1..Len(log[u])
    BY <1>1
  <2>2. /\ \A v \in Users \ {u} : log'[v] = log[v]
        /\ DOMAIN log'[u] = 1..(Len(log[u]) + 1)
        /\ \A i \in 1..Len(log[u]) : log'[u][i] = log[u][i]
        /\ log'[u][Len(log[u]) + 1] = ack
    BY <1>1, <1>4, <2>1
  <2>3. \A v \in Users : \A i \in DOMAIN log'[v] :
          \/ i \in DOMAIN log[v] /\ log'[v][i] = log[v][i]
          \/ v = u /\ i = Len(log[u]) + 1 /\ log'[v][i] = ack
    BY <2>1, <2>2
  <2>4. /\ ack.key = req[p].key /\ ack.granted = stamp[p]
        /\ ack.key # NoKey => Granted(p) /\ Entry(p) = <<u, ack.key>>
    BY <1>1 DEF Granted, Entry
  <2>5. \A q \in Procs : Granted(q)' =>
          Entry(q)' = Entry(q) /\ User(req[q])' = User(req[q]) /\ User(req[q]) \in Users
    <3>1. \A q \in Procs : Granted(q) => User(req[q]) \in Users
      BY UserType DEF Granted, TypeOK
    <3> QED
      BY <1>2, <3>1 DEF Entry, User
  <2>6. KeyStored'
    BY <1>1, <1>2, <2>3, <2>4, <2>5 DEF KeyStored
  <2>7. \A q, r \in Procs : q # r /\ Granted(q)' /\ Granted(r)' /\ Entry(q)' = Entry(r)' =>
          Apart(stamp'[q], stamp'[r])
    BY <1>2, <2>5 DEF KeysApart
  <2>8. \A q \in Procs : Granted(q)' =>
          \A i \in DOMAIN log'[User(req[q])] : log'[User(req[q])][i].key = req[q].key =>
            Apart(log'[User(req[q])][i].granted, stamp[q])
    <3> SUFFICES ASSUME NEW q \in Procs, Granted(q)',
                        NEW i \in DOMAIN log'[User(req[q])],
                        log'[User(req[q])][i].key = req[q].key
                 PROVE  Apart(log'[User(req[q])][i].granted, stamp[q])
      OBVIOUS
    <3>1. q # p /\ Granted(q) /\ User(req[q]) \in Users
      BY <1>2, <2>5
    <3>2. CASE i \in DOMAIN log[User(req[q])] /\ log'[User(req[q])][i] = log[User(req[q])][i]
      BY <3>1, <3>2 DEF KeysApart
    <3>3. CASE User(req[q]) = u /\ log'[User(req[q])][i] = ack
      <4>1. ack.key = req[q].key /\ req[q].key # NoKey
        BY <3>1, <3>3 DEF Granted
      <4>2. Granted(p) /\ Entry(p) = Entry(q)
        BY <2>4, <3>3, <4>1 DEF Entry
      <4> QED
        BY <2>4, <3>1, <3>3, <4>2 DEF KeysApart
    <3> QED
      BY <2>3, <3>1, <3>2, <3>3
  <2>9. KeyOnce'
    <3> SUFFICES ASSUME NEW v \in Users, NEW i \in DOMAIN log'[v], NEW j \in DOMAIN log'[v],
                        i < j, log'[v][i].key = log'[v][j].key, log'[v][i].key # NoKey
                 PROVE  Apart(log'[v][i].granted, log'[v][j].granted)
      BY DEF KeyOnce, Apart
    <3>1. CASE j \in DOMAIN log[v] /\ log'[v][j] = log[v][j]
      <4>1. i \in DOMAIN log[v] /\ log'[v][i] = log[v][i]
        BY <1>1, <2>1, <2>2, <2>3, <3>1
      <4> QED
        BY <3>1, <4>1 DEF KeysApart, KeyOnce, Apart
    <3>2. CASE v = u /\ j = Len(log[u]) + 1 /\ log'[v][j] = ack
      <4>1. i \in DOMAIN log[u] /\ log'[v][i] = log[u][i]
        BY <2>1, <2>2, <3>2
      <4> QED
        BY <2>4, <3>2, <4>1 DEF KeysApart
    <3> QED
      BY <2>3, <3>1, <3>2
  <2> QED
    BY <1>2, <2>5, <2>6, <2>7, <2>8, <2>9 DEF KeysApart, Apart
<1> QED
  BY <1>3, <1>4 DEF Broker

\* Whatever a goroutine does elsewhere grants nothing and logs nothing.
LEMMA StepKeysStill ==
  ASSUME TypeOK, NEW p \in Procs, Step(p), ~checkClientOrderIDDuplicate(p), ~Broker(p)
  PROVE  KeysStill
<1> USE DEF KeysStill, Granted, counters, history
<1>1. ASSUME NEW r \in Requests, Receive(p, r) PROVE KeysStill
  BY <1>1 DEF TypeOK, Receive
<1>2. ASSUME \/ Return(p)
             \/ \E l \in {"kill", "request", "daily", "second", "minute", "key",
                          "reject", "breaker"} : Continue(p, l)
             \/ /\ pc[p] \in {"params", "value", "market"}
                /\ \E l \in {"value", "market", "broker", "reject"} : Continue(p, l),
             seen' = seen, log' = log
      PROVE  KeysStill
  BY <1>2 DEF TypeOK, Return, Continue, locals
<1>3. CASE CheckGlobalFreeze(p)
  BY <1>2, <1>3 DEF CheckGlobalFreeze
<1>4. CASE checkKillSwitch(p)
  BY <1>2, <1>4 DEF checkKillSwitch
<1>5. CASE CheckRequest(p)
  BY <1>2, <1>5 DEF CheckRequest
<1>6. CASE checkDailyOrderCount(p)
  BY <1>2, <1>6 DEF checkDailyOrderCount, Verdict
<1>7. CASE checkPerSecondRate(p)
  BY <1>7 DEF TypeOK, checkPerSecondRate
<1>8. CASE checkRateLimit(p)
  BY <1>2, <1>8 DEF checkRateLimit, Verdict
<1>9. CASE checkDuplicateOrder(p)
  BY <1>2, <1>9 DEF checkDuplicateOrder, Verdict
<1>10. CASE checkDailyValue(p)
  BY <1>2, <1>10 DEF checkDailyValue, Verdict
<1>11. CASE CheckMarket(p)
  BY <1>2, <1>11 DEF CheckMarket
<1>12. CASE ReadClock(p)
  BY <1>12 DEF TypeOK, ReadClock
<1>13. CASE increment(p)
  BY <1>13 DEF TypeOK, increment
<1>14. CASE RecordOrder(p)
  BY <1>2, <1>14 DEF RecordOrder
<1>15. CASE recordRejection(p)
  BY <1>2, <1>15 DEF recordRejection
<1>16. CASE checkAutoFreeze(p)
  BY <1>2, <1>16 DEF checkAutoFreeze
<1> QED
  BY <1>1, <1>3, <1>4, <1>5, <1>6, <1>7, <1>8, <1>9, <1>10, <1>11, <1>12, <1>13, <1>14, <1>15, <1>16
  DEF Step

LEMMA KeyStep == KeyInv /\ [Next]_vars => KeyInv'
<1> SUFFICES ASSUME KeyInv, [Next]_vars PROVE KeyStored' /\ KeysApart'
  BY TypeStep DEF KeyInv
<1>1. ASSUME NEW p \in Procs, Step(p) PROVE KeyStored' /\ KeysApart'
  <2>1. CASE checkClientOrderIDDuplicate(p)
    BY <2>1, KeyCheckKeeps
  <2>2. CASE Broker(p)
    BY <2>2, BrokerKeeps
  <2>3. CASE ~checkClientOrderIDDuplicate(p) /\ ~Broker(p)
    BY <1>1, <2>3, StepKeysStill, KeysStillKeeps DEF KeyInv
  <2> QED
    BY <2>1, <2>2, <2>3
<1>2. ASSUME UNCHANGED <<seen, log, pc, req, stamp>> PROVE KeyStored' /\ KeysApart'
  BY <1>2, KeysStillKeeps DEF KeysStill, Granted
<1>3. CASE Admin
  BY <1>2, <1>3 DEF Admin, Freeze, Unfreeze, FreezeGlobal, UnfreezeGlobal, GetUserStatus,
                    AdminCall, counters
<1>4. CASE Tick
  BY <1>2, <1>4 DEF Tick, counters, locals
<1>5. CASE UNCHANGED vars
  BY <1>2, <1>5 DEF vars, counters, locals, history
<1> QED
  BY <1>1, <1>3, <1>4, <1>5 DEF Next, Rest

\* Two acknowledged orders of one user and key passed the key check at least
\* DedupTTL apart, whatever each met between the check and the broker.
THEOREM KeyAcceptedOnce == Spec => []KeyOnce
<1>1. Init => KeyInv
  BY KeyInit
<1>2. KeyInv /\ [Next]_vars => KeyInv'
  BY KeyStep
<1>3. KeyInv => KeyOnce
  BY DEF KeyInv, KeysApart
<1> QED
  BY <1>1, <1>2, <1>3, PTL DEF Spec
=============================================================================
