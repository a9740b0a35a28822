-------------------------- MODULE GuardWindowProofs --------------------------
(***************************************************************************)
(* The caps of Guard.tla that are kept over windows of time, and the       *)
(* circuit breaker, for any requests, caps, windows and any finite number  *)
(* of goroutines.                                                          *)
(***************************************************************************)
EXTENDS GuardProofs

----------------------------------------------------------------------------
(* Doors: which check lets a call into which stretch of the pipeline.      *)

PastRequest == {"daily"} \cup PastDaily
PastValue   == {"market", "broker"} \cup Accounting

Doors(p) ==
  /\ now' = now
  /\ pc'[p] \in PastRequest => pc[p] \in PastRequest \/ req[p].value <= MaxSingleOrder
  /\ pc'[p] \in PastMinute => pc[p] \in PastMinute \/ checkRateLimit(p)
  /\ pc'[p] \in PastParams => pc[p] \in PastParams \/ checkDuplicateOrder(p)
  /\ pc'[p] \in PastValue => pc[p] \in PastValue \/ checkDailyValue(p)
  /\ pc[p] \in Accounting => pc'[p] \in Accounting \/ RecordOrder(p)
  /\ pc[p] = "breaker" => checkAutoFreeze(p)

LEMMA StepDoors ==
  ASSUME TypeOK, NEW p \in Procs, Step(p)
  PROVE  Doors(p)
<1> USE DEF Doors, PastRequest, PastValue, PastDaily, PastMinute, PastParams, Accounting
<1>0. ASSUME NEW l, Continue(p, l) PROVE pc'[p] = l /\ now' = now
  BY <1>0, ContinueMoves DEF Continue
<1>1. Return(p) => pc'[p] = "idle" /\ now' = now
  BY ReturnMoves DEF Return
<1>2. ASSUME NEW r \in Requests, Receive(p, r) PROVE Doors(p)
  BY <1>2 DEF TypeOK, Receive
<1>3. CASE CheckGlobalFreeze(p)
  BY <1>3, <1>0, <1>1 DEF CheckGlobalFreeze
<1>4. CASE checkKillSwitch(p)
  BY <1>4, <1>0, <1>1 DEF checkKillSwitch
<1>5. CASE CheckRequest(p)
  BY <1>5, <1>0, <1>1 DEF CheckRequest
<1>6. CASE checkDailyOrderCount(p)
  BY <1>6, <1>0, <1>1 DEF checkDailyOrderCount, Verdict
<1>7. CASE checkPerSecondRate(p)
  BY <1>7 DEF TypeOK, checkPerSecondRate
<1>8. CASE checkRateLimit(p)
  BY <1>8, <1>0, <1>1 DEF checkRateLimit, Verdict
<1>9. CASE checkClientOrderIDDuplicate(p)
  <2>1. now' = now /\ pc'[p] \in {"params", "reject"} /\ pc[p] = "key"
    BY <1>9, <1>0 DEF checkClientOrderIDDuplicate, TypeOK
  <2> QED
    BY <2>1
<1>10. CASE checkDuplicateOrder(p)
  BY <1>10, <1>0, <1>1 DEF checkDuplicateOrder, Verdict
<1>11. CASE checkDailyValue(p)
  BY <1>11, <1>0, <1>1 DEF checkDailyValue, Verdict
<1>12. CASE CheckMarket(p)
  BY <1>12, <1>0, <1>1 DEF CheckMarket
<1>13. CASE Broker(p)
  BY <1>13, <1>0, <1>1 DEF Broker
<1>14. CASE RecordOrder(p)
  BY <1>14, <1>1 DEF RecordOrder
<1>15. CASE recordRejection(p)
  BY <1>15, <1>0 DEF recordRejection
<1>16. CASE checkAutoFreeze(p)
  BY <1>16, <1>1 DEF checkAutoFreeze
<1>17. CASE ReadClock(p)
  BY <1>17 DEF TypeOK, ReadClock
<1>18. CASE increment(p)
  BY <1>18 DEF TypeOK, increment
<1> QED
  BY <1>2, <1>3, <1>4, <1>5, <1>6, <1>7, <1>8, <1>9, <1>10, <1>11, <1>12, <1>13, <1>14, <1>15, <1>16, <1>17, <1>18 DEF Step

----------------------------------------------------------------------------
(* What a step writes of a user's tracker and log.                         *)

Orders(u)     == getOrCreateTracker(u).orders
Params(u)     == getOrCreateTracker(u).params
Rejections(u) == getOrCreateTracker(u).rejections

LEMMA WindowTypes ==
  ASSUME TypeOK, NEW u \in Users
  PROVE  Orders(u) \in Seq(Nat) /\ Params(u) \in Seq(Placed) /\ Rejections(u) \in Seq(Nat)
  BY TrackerType DEF Orders, Params, Rejections, Tracker

\* EffectiveValue is what maybeResetDay will leave in the value, and a reset
\* touches none of the windows.
LEMMA ResetKeeps ==
  ASSUME TypeOK, NEW u \in Users, NEW t, t = maybeResetDay(getOrCreateTracker(u))
  PROVE  /\ t \in Tracker
         /\ t.value = EffectiveValue(u) /\ ~Stale(t.resetAt) /\ EffectiveValue(u) \in Nat
         /\ t.orders = Orders(u) /\ t.params = Params(u) /\ t.rejections = Rejections(u)
<1>1. ~Stale(now)
  BY GuardAssumption DEF Stale, TypeOK
<1>2. t \in Tracker /\ getOrCreateTracker(u) \in Tracker
  BY TrackerType
<1>3. CASE u \notin DOMAIN tracker
  BY <1>1, <1>2, <1>3
     DEF EffectiveValue, getOrCreateTracker, maybeResetDay, Fresh, Orders, Params, Rejections
<1>4. CASE u \in DOMAIN tracker
  <2> PICK g \in Tracker : g = getOrCreateTracker(u)
    BY <1>2
  <2>1. g = tracker[u]
    BY <1>4 DEF getOrCreateTracker
  <2>2. EffectiveValue(u) = IF Stale(g.resetAt) THEN 0 ELSE g.value
    BY <1>4, <2>1 DEF EffectiveValue
  <2>3. t = IF Stale(g.resetAt) THEN [g EXCEPT !.count = 0, !.value = 0, !.resetAt = now] ELSE g
    BY DEF maybeResetDay
  <2>4. t.value = EffectiveValue(u) /\ ~Stale(t.resetAt)
    BY <1>1, <2>2, <2>3 DEF Tracker
  <2>5. t.orders = g.orders /\ t.params = g.params /\ t.rejections = g.rejections
    BY <2>3 DEF Tracker
  <2>6. t.value \in Nat
    BY <1>2 DEF Tracker
  <2> QED
    BY <1>2, <2>4, <2>5, <2>6 DEF Orders, Params, Rejections
<1> QED
  BY <1>3, <1>4

LEMMA WrittenBack ==
  ASSUME TypeOK, NEW u \in Users, NEW t, tracker' = Put(tracker, u, t), now' = now
  PROVE  /\ \A v \in Users \ {u} : /\ Orders(v)' = Orders(v) /\ Params(v)' = Params(v)
                                   /\ Rejections(v)' = Rejections(v)
                                   /\ EffectiveValue(v)' = EffectiveValue(v)
         /\ Orders(u)' = t.orders /\ Params(u)' = t.params /\ Rejections(u)' = t.rejections
         /\ ~Stale(t.resetAt) => EffectiveValue(u)' = t.value
         /\ (t.value = getOrCreateTracker(u).value
             /\ t.resetAt = getOrCreateTracker(u).resetAt)
              => EffectiveValue(u)' = EffectiveValue(u)
<1>1. \A at : Stale(at)' <=> Stale(at)
  BY DEF Stale
<1>2. /\ DOMAIN tracker' = DOMAIN tracker \cup {u} /\ tracker'[u] = t
      /\ \A j \in DOMAIN tracker : j # u => tracker'[j] = tracker[j]
  BY DEF Put
<1>3. ~Stale(now)
  BY GuardAssumption DEF Stale, TypeOK
<1>4. ASSUME NEW v \in Users \ {u}
      PROVE  getOrCreateTracker(v)' = getOrCreateTracker(v)
             /\ EffectiveValue(v)' = EffectiveValue(v)
  BY <1>1, <1>2 DEF EffectiveValue, getOrCreateTracker, Fresh
<1>5. getOrCreateTracker(u)' = t
  BY <1>2 DEF getOrCreateTracker
<1>6. ASSUME ~Stale(t.resetAt) PROVE EffectiveValue(u)' = t.value
  BY <1>1, <1>2, <1>6 DEF EffectiveValue
<1>7. ASSUME t.value = getOrCreateTracker(u).value, t.resetAt = getOrCreateTracker(u).resetAt
      PROVE  EffectiveValue(u)' = EffectiveValue(u)
  BY <1>1, <1>2, <1>3, <1>7 DEF EffectiveValue, getOrCreateTracker, Fresh
<1> QED
  BY <1>4, <1>5, <1>6, <1>7 DEF Orders, Params, Rejections

\* Nothing of a user's tracker changes when nobody writes it.
LEMMA Unwritten ==
  ASSUME TypeOK, tracker' = tracker, NEW u \in Users
  PROVE  /\ Orders(u)' = Orders(u) /\ Params(u)' = Params(u) /\ Rejections(u)' = Rejections(u)
         /\ now' = now => EffectiveValue(u)' = EffectiveValue(u)
<1>1. CASE u \in DOMAIN tracker
  BY <1>1 DEF Orders, Params, Rejections, EffectiveValue, Stale, getOrCreateTracker
<1>2. CASE u \notin DOMAIN tracker
  BY <1>2 DEF Orders, Params, Rejections, EffectiveValue, Stale, getOrCreateTracker, Fresh
<1> QED
  BY <1>1, <1>2

\* A field other than the value and the reset is replaced.
LEMMA FieldWritten ==
  ASSUME TypeOK, NEW u \in Users, NEW t, NEW x, now' = now, tracker' = Put(tracker, u, t),
         \/ t = [getOrCreateTracker(u) EXCEPT !.orders = x]
         \/ t = [getOrCreateTracker(u) EXCEPT !.params = x]
         \/ t = [getOrCreateTracker(u) EXCEPT !.rejections = x]
  PROVE  /\ \A v \in Users \ {u} : /\ Orders(v)' = Orders(v) /\ Params(v)' = Params(v)
                                   /\ Rejections(v)' = Rejections(v)
         /\ \A v \in Users : EffectiveValue(v)' = EffectiveValue(v)
         /\ t = [getOrCreateTracker(u) EXCEPT !.orders = x] =>
              Orders(u)' = x /\ Params(u)' = Params(u) /\ Rejections(u)' = Rejections(u)
         /\ t = [getOrCreateTracker(u) EXCEPT !.params = x] =>
              Orders(u)' = Orders(u) /\ Params(u)' = x /\ Rejections(u)' = Rejections(u)
         /\ t = [getOrCreateTracker(u) EXCEPT !.rejections = x] =>
              Orders(u)' = Orders(u) /\ Params(u)' = Params(u) /\ Rejections(u)' = x
<1> PICK g \in Tracker : g = getOrCreateTracker(u)
  BY TrackerType
<1>1. t.value = g.value /\ t.resetAt = g.resetAt
  BY DEF Tracker
<1>2. \A v \in Users : EffectiveValue(v)' = EffectiveValue(v)
  BY <1>1, WrittenBack
<1>3. Orders(u)' = t.orders /\ Params(u)' = t.params /\ Rejections(u)' = t.rejections
  BY WrittenBack
<1>4. \A v \in Users \ {u} : /\ Orders(v)' = Orders(v) /\ Params(v)' = Params(v)
                             /\ Rejections(v)' = Rejections(v)
  BY WrittenBack
<1>5. Orders(u) = g.orders /\ Params(u) = g.params /\ Rejections(u) = g.rejections
  BY DEF Orders, Params, Rejections
<1>6. t = [g EXCEPT !.orders = x] =>
        t.orders = x /\ t.params = g.params /\ t.rejections = g.rejections
  BY DEF Tracker
<1>7. t = [g EXCEPT !.params = x] =>
        t.orders = g.orders /\ t.params = x /\ t.rejections = g.rejections
  BY DEF Tracker
<1>8. t = [g EXCEPT !.rejections = x] =>
        t.orders = g.orders /\ t.params = g.params /\ t.rejections = x
  BY DEF Tracker
<1> QED
  BY <1>2, <1>3, <1>4, <1>5, <1>6, <1>7, <1>8

LEMMA BrokerWrites ==
  ASSUME TypeOK, NEW p \in Procs, Broker(p), NEW u, u = User(req[p])
  PROVE  /\ u \in Users /\ now' = now /\ tracker' = tracker
         /\ \/ pc'[p] = "idle" /\ log' = log
            \/ /\ pc'[p] = "stamp" /\ \A v \in Users \ {u} : log'[v] = log[v]
               /\ \E ack \in Acknowledged : /\ ack.sig = req[p].sig /\ ack.at = now
                                            /\ log'[u] = Append(log[u], ack)
<1> PICK ack : ack = [sig |-> req[p].sig, at |-> now, key |-> req[p].key, granted |-> stamp[p]]
  OBVIOUS
<1>1. u \in Users /\ req[p] \in Requests
  BY CallType DEF Broker
<1>2. now' = now /\ tracker' = tracker
  BY DEF Broker, Continue, Return, counters
<1>3. ack \in Acknowledged /\ ack.sig = req[p].sig /\ ack.at = now
  BY <1>1 DEF Acknowledged, TypeOK
<1>4. \/ pc'[p] = "idle" /\ log' = log
      \/ pc'[p] = "stamp" /\ log' = [log EXCEPT ![u] = Append(@, ack)]
  BY ContinueMoves, ReturnMoves DEF Broker
<1>5. DOMAIN log = Users
  BY DEF TypeOK
<1>6. \/ pc'[p] = "idle" /\ log' = log
      \/ /\ pc'[p] = "stamp" /\ \A v \in Users \ {u} : log'[v] = log[v]
         /\ log'[u] = Append(log[u], ack)
  BY <1>1, <1>4, <1>5
<1> QED
  BY <1>1, <1>2, <1>3, <1>6

LEMMA RateLimitWrites ==
  ASSUME TypeOK, NEW p \in Procs, checkRateLimit(p), NEW u, u = User(req[p])
  PROVE  /\ u \in Users /\ log' = log /\ now' = now
         /\ \A v \in Users : /\ Params(v)' = Params(v) /\ Rejections(v)' = Rejections(v)
                             /\ EffectiveValue(v)' = EffectiveValue(v)
                             /\ v # u => Orders(v)' = Orders(v)
         /\ Orders(u)' = Prune(Orders(u), MinuteWindow)
         /\ pc'[p] \in PastMinute => Len(Prune(Orders(u), MinuteWindow)) < MaxOrdersPerMinute
<1> PICK recent : recent = Prune(Orders(u), MinuteWindow)
  OBVIOUS
<1>1. u \in Users
  BY CallType DEF checkRateLimit
<1>2. now' = now /\ log' = log
  BY DEF checkRateLimit, Verdict, Continue, history
<1>3. tracker' = Put(tracker, u, [getOrCreateTracker(u) EXCEPT !.orders = recent])
  BY DEF checkRateLimit, Orders
<1>4. Len(recent) >= MaxOrdersPerMinute => pc'[p] = "reject"
  BY ContinueMoves DEF checkRateLimit, Verdict, Orders
<1>5. "reject" \notin PastMinute
  BY DEF PastMinute, PastParams, Accounting
<1>6. Len(recent) \in Nat /\ MaxOrdersPerMinute \in Nat
  BY <1>1, WindowTypes, PruneType, GuardAssumption
<1>7. /\ \A v \in Users : /\ Params(v)' = Params(v) /\ Rejections(v)' = Rejections(v)
                          /\ EffectiveValue(v)' = EffectiveValue(v)
                          /\ v # u => Orders(v)' = Orders(v)
      /\ Orders(u)' = recent
  BY <1>1, <1>2, <1>3, FieldWritten
<1>8. pc'[p] \in PastMinute => Len(recent) < MaxOrdersPerMinute
  BY <1>4, <1>5, <1>6
<1> QED
  BY <1>1, <1>2, <1>7, <1>8

LEMMA DuplicateWrites ==
  ASSUME TypeOK, NEW p \in Procs, checkDuplicateOrder(p), NEW u, u = User(req[p])
  PROVE  /\ u \in Users /\ log' = log /\ now' = now
         /\ \A v \in Users : /\ Orders(v)' = Orders(v) /\ Rejections(v)' = Rejections(v)
                             /\ EffectiveValue(v)' = EffectiveValue(v)
                             /\ v # u => Params(v)' = Params(v)
         /\ DuplicateWindow > 0 => Params(u)' = PruneParams(Params(u))
         /\ DuplicateWindow > 0 /\ pc'[p] \in PastParams =>
              \A i \in DOMAIN PruneParams(Params(u)) : PruneParams(Params(u))[i].sig # req[p].sig
<1> PICK recent : recent = PruneParams(Params(u))
  OBVIOUS
<1>1. u \in Users
  BY CallType DEF checkDuplicateOrder
<1>2. now' = now /\ log' = log
  BY DEF checkDuplicateOrder, Verdict, Continue, history
<1>3. \/ DuplicateWindow = 0 /\ tracker' = tracker
      \/ /\ DuplicateWindow > 0
         /\ tracker' = Put(tracker, u, [getOrCreateTracker(u) EXCEPT !.params = recent])
  BY DEF checkDuplicateOrder, Params
<1>4. DuplicateWindow > 0 /\ (\E i \in DOMAIN recent : recent[i].sig = req[p].sig) =>
        pc'[p] = "reject"
  BY ContinueMoves, GuardAssumption DEF checkDuplicateOrder, Verdict, Params
<1>5. "reject" \notin PastParams
  BY DEF PastParams, Accounting
<1>6. CASE DuplicateWindow = 0 /\ tracker' = tracker
  BY <1>1, <1>2, <1>6, Unwritten
<1>7. CASE /\ DuplicateWindow > 0
           /\ tracker' = Put(tracker, u, [getOrCreateTracker(u) EXCEPT !.params = recent])
  <2>1. /\ \A v \in Users : /\ Orders(v)' = Orders(v) /\ Rejections(v)' = Rejections(v)
                            /\ EffectiveValue(v)' = EffectiveValue(v)
                            /\ v # u => Params(v)' = Params(v)
        /\ Params(u)' = recent
    BY <1>1, <1>2, <1>7, FieldWritten
  <2> QED
    BY <1>1, <1>2, <1>4, <1>5, <1>7, <2>1
<1> QED
  BY <1>3, <1>6, <1>7

LEMMA ValueWrites ==
  ASSUME TypeOK, NEW p \in Procs, checkDailyValue(p), NEW u, u = User(req[p])
  PROVE  /\ u \in Users /\ log' = log /\ now' = now
         /\ \A v \in Users : /\ Orders(v)' = Orders(v) /\ Params(v)' = Params(v)
                             /\ Rejections(v)' = Rejections(v)
                             /\ EffectiveValue(v)' = EffectiveValue(v)
         /\ pc'[p] \in PastValue /\ req[p].value > 0 =>
              EffectiveValue(u) + req[p].value <= MaxDailyValue
<1> PICK t : t = maybeResetDay(getOrCreateTracker(u))
  OBVIOUS
<1>1. u \in Users /\ req[p] \in Requests
  BY CallType DEF checkDailyValue
<1>2. now' = now /\ log' = log
  BY DEF checkDailyValue, Verdict, Continue, history
<1>3. tracker' = tracker \/ tracker' = Put(tracker, u, t)
  BY DEF checkDailyValue
<1>4. req[p].value \in Nat /\ MaxDailyValue \in Nat
  BY <1>1, GuardAssumption
<1>5. req[p].value > 0 /\ t.value + req[p].value > MaxDailyValue => pc'[p] = "reject"
  BY <1>4, ContinueMoves DEF checkDailyValue, Verdict, exceedsDaily
<1>6. "reject" \notin PastValue
  BY DEF PastValue, Accounting
<1>7. /\ t.value = EffectiveValue(u) /\ ~Stale(t.resetAt) /\ EffectiveValue(u) \in Nat
      /\ t.orders = Orders(u) /\ t.params = Params(u) /\ t.rejections = Rejections(u)
  BY <1>1, ResetKeeps
<1>8. \A v \in Users : /\ Orders(v)' = Orders(v) /\ Params(v)' = Params(v)
                       /\ Rejections(v)' = Rejections(v)
                       /\ EffectiveValue(v)' = EffectiveValue(v)
  BY <1>1, <1>2, <1>3, <1>7, WrittenBack, Unwritten
<1> QED
  BY <1>1, <1>2, <1>4, <1>5, <1>6, <1>7, <1>8

LEMMA RecordWrites ==
  ASSUME TypeOK, NEW p \in Procs, RecordOrder(p), NEW u, u = User(req[p])
  PROVE  /\ u \in Users /\ log' = log /\ now' = now /\ pc'[p] = "idle"
         /\ \A v \in Users : /\ Rejections(v)' = Rejections(v)
                             /\ v # u => /\ Orders(v)' = Orders(v) /\ Params(v)' = Params(v)
                                         /\ EffectiveValue(v)' = EffectiveValue(v)
         /\ EffectiveValue(u)' = EffectiveValue(u) + req[p].value
         /\ Orders(u)' = Append(Orders(u), now)
         /\ Params(u)' = Append(Params(u), [sig |-> req[p].sig, at |-> now])
<1> PICK t : t = maybeResetDay(getOrCreateTracker(u))
  OBVIOUS
<1> PICK new : new = [t EXCEPT !.count = @ + 1, !.value = @ + req[p].value,
                               !.orders = Append(@, now),
                               !.params = Append(@, [sig |-> req[p].sig, at |-> now])]
  OBVIOUS
<1>1. u \in Users
  BY CallType DEF RecordOrder
<1>2. now' = now /\ log' = log /\ pc'[p] = "idle"
  BY ReturnMoves DEF RecordOrder, Return, history
<1>3. tracker' = Put(tracker, u, new)
  BY DEF RecordOrder
<1>4. /\ t \in Tracker /\ t.value = EffectiveValue(u) /\ ~Stale(t.resetAt)
      /\ t.orders = Orders(u) /\ t.params = Params(u) /\ t.rejections = Rejections(u)
  BY <1>1, ResetKeeps
<1>5. /\ new.value = t.value + req[p].value /\ new.resetAt = t.resetAt
      /\ new.orders = Append(t.orders, now) /\ new.rejections = t.rejections
      /\ new.params = Append(t.params, [sig |-> req[p].sig, at |-> now])
  BY <1>4 DEF Tracker
<1>6. /\ \A v \in Users \ {u} : /\ Orders(v)' = Orders(v) /\ Params(v)' = Params(v)
                                /\ Rejections(v)' = Rejections(v)
                                /\ EffectiveValue(v)' = EffectiveValue(v)
      /\ Orders(u)' = new.orders /\ Params(u)' = new.params /\ Rejections(u)' = new.rejections
      /\ ~Stale(new.resetAt) => EffectiveValue(u)' = new.value
  BY <1>1, <1>2, <1>3, WrittenBack
<1> QED
  BY <1>1, <1>2, <1>4, <1>5, <1>6

LEMMA RejectionWrites ==
  ASSUME TypeOK, NEW p \in Procs, recordRejection(p), NEW u, u = User(req[p])
  PROVE  /\ u \in Users /\ log' = log /\ now' = now /\ pc'[p] = "breaker"
         /\ \A v \in Users : /\ Orders(v)' = Orders(v) /\ Params(v)' = Params(v)
                             /\ EffectiveValue(v)' = EffectiveValue(v)
                             /\ v # u => Rejections(v)' = Rejections(v)
         /\ Rejections(u)' = Append(Rejections(u), now)
<1>1. PICK recent : recent = Append(Rejections(u), now)
  OBVIOUS
<1>2. u \in Users
  BY CallType DEF recordRejection
<1>3. now' = now /\ log' = log /\ pc'[p] = "breaker"
  BY ContinueMoves DEF recordRejection, Continue
<1>4. PICK t : t = [getOrCreateTracker(u) EXCEPT !.rejections = recent]
  OBVIOUS
<1>5. tracker' = Put(tracker, u, t)
  BY <1>1, <1>4 DEF recordRejection, Rejections
<1>6. now' = now
  BY <1>3
<1>7. /\ \A v \in Users \ {u} : /\ Orders(v)' = Orders(v) /\ Params(v)' = Params(v)
                                /\ Rejections(v)' = Rejections(v)
      /\ \A v \in Users : EffectiveValue(v)' = EffectiveValue(v)
      /\ Orders(u)' = Orders(u) /\ Params(u)' = Params(u) /\ Rejections(u)' = recent
  BY <1>2, <1>5, <1>6, <1>4, FieldWritten
<1> QED
  BY <1>2, <1>3, <1>7, <1>1

LEMMA BreakerWrites ==
  ASSUME TypeOK, NEW p \in Procs, checkAutoFreeze(p), NEW u, u = User(req[p])
  PROVE  /\ u \in Users /\ log' = log /\ now' = now /\ pardoned' = pardoned
         /\ \A v \in Users : /\ Orders(v)' = Orders(v) /\ Params(v)' = Params(v)
                             /\ EffectiveValue(v)' = EffectiveValue(v)
                             /\ v # u => Rejections(v)' = Rejections(v) /\ frozen'[v] = frozen[v]
         /\ \/ Rejections(u)' = Rejections(u) /\ ~AutoFreezeOnLimitHit /\ frozen'[u] = frozen[u]
            \/ /\ Rejections(u)' = Prune(Rejections(u), FreezeWindow)
               /\ frozen'[u] = IF trips(Prune(Rejections(u), FreezeWindow), u)
                               THEN "breaker" ELSE frozen[u]
<1> PICK recent : recent = Prune(Rejections(u), FreezeWindow)
  OBVIOUS
<1>1. u \in Users /\ DOMAIN frozen = Users
  BY CallType DEF checkAutoFreeze, TypeOK
<1>2. now' = now /\ log' = log /\ pardoned' = pardoned
  BY DEF checkAutoFreeze, Return, history
<1>3. \/ ~AutoFreezeOnLimitHit /\ tracker' = tracker /\ frozen' = frozen
      \/ /\ tracker' = Put(tracker, u, [getOrCreateTracker(u) EXCEPT !.rejections = recent])
         /\ frozen' = IF trips(recent, u) THEN [frozen EXCEPT ![u] = "breaker"] ELSE frozen
  BY DEF checkAutoFreeze, Rejections
<1>4. CASE ~AutoFreezeOnLimitHit /\ tracker' = tracker /\ frozen' = frozen
  BY <1>1, <1>2, <1>4, Unwritten
<1>5. CASE /\ tracker' = Put(tracker, u, [getOrCreateTracker(u) EXCEPT !.rejections = recent])
           /\ frozen' = IF trips(recent, u) THEN [frozen EXCEPT ![u] = "breaker"] ELSE frozen
  <2>1. /\ \A v \in Users : /\ Orders(v)' = Orders(v) /\ Params(v)' = Params(v)
                            /\ EffectiveValue(v)' = EffectiveValue(v)
                            /\ v # u => Rejections(v)' = Rejections(v)
        /\ Rejections(u)' = recent
    BY <1>1, <1>2, <1>5, FieldWritten
  <2>2. /\ \A v \in Users : v # u => frozen'[v] = frozen[v]
        /\ frozen'[u] = IF trips(recent, u) THEN "breaker" ELSE frozen[u]
    BY <1>1, <1>5
  <2> QED
    BY <1>1, <1>2, <2>1, <2>2
<1> QED
  BY <1>3, <1>4, <1>5

\* Which step writes what.
Writes(p, u) ==
  /\ Orders(u)' # Orders(u) => User(req[p]) = u /\ (checkRateLimit(p) \/ RecordOrder(p))
  /\ Params(u)' # Params(u) =>
       User(req[p]) = u /\ (RecordOrder(p) \/ (DuplicateWindow > 0 /\ checkDuplicateOrder(p)))
  /\ Rejections(u)' # Rejections(u) =>
       User(req[p]) = u /\ (recordRejection(p) \/ checkAutoFreeze(p))
  /\ EffectiveValue(u)' # EffectiveValue(u) => User(req[p]) = u /\ RecordOrder(p)
  /\ log'[u] # log[u] => User(req[p]) = u /\ Broker(p)
  /\ pardoned'[u] # pardoned[u] => User(req[p]) = u /\ recordRejection(p)
  /\ frozen'[u] # frozen[u] => User(req[p]) = u /\ checkAutoFreeze(p)

LEMMA StepWrites ==
  ASSUME TypeOK, NEW p \in Procs, Step(p), NEW u \in Users
  PROVE  Writes(p, u)
<1> PICK w : w = User(req[p])
  OBVIOUS
<1> USE DEF Writes
<1>0. ASSUME UNCHANGED <<tracker, log, now, pardoned, frozen>> PROVE Writes(p, u)
  <2>1. /\ Orders(u)' = Orders(u) /\ Params(u)' = Params(u) /\ Rejections(u)' = Rejections(u)
        /\ EffectiveValue(u)' = EffectiveValue(u)
    BY <1>0, Unwritten
  <2> QED
    BY <1>0, <2>1
<1>1. ASSUME NEW r \in Requests, Receive(p, r) PROVE Writes(p, u)
  BY <1>0, <1>1 DEF Receive, counters, freezes, history
<1>2. CASE CheckGlobalFreeze(p)
  BY <1>0, <1>2 DEF CheckGlobalFreeze, Continue, Return, counters, freezes, history
<1>3. CASE checkKillSwitch(p)
  BY <1>0, <1>3 DEF checkKillSwitch, Continue, Return, counters, freezes, history
<1>4. CASE CheckRequest(p)
  BY <1>0, <1>4 DEF CheckRequest, Continue, Return, counters, freezes, history
<1>5. CASE checkDailyOrderCount(p)
  <2> PICK t : t = maybeResetDay(getOrCreateTracker(w))
    OBVIOUS
  <2>1. w \in Users
    BY <1>5, CallType DEF checkDailyOrderCount
  <2>2. /\ UNCHANGED <<log, now, pardoned, frozen>> /\ tracker' = Put(tracker, w, t)
    BY <1>5 DEF checkDailyOrderCount, Verdict, Continue, freezes, history
  <2>3. /\ t.value = EffectiveValue(w) /\ ~Stale(t.resetAt)
        /\ t.orders = Orders(w) /\ t.params = Params(w) /\ t.rejections = Rejections(w)
    BY <2>1, ResetKeeps
  <2>4. /\ Orders(u)' = Orders(u) /\ Params(u)' = Params(u) /\ Rejections(u)' = Rejections(u)
        /\ EffectiveValue(u)' = EffectiveValue(u)
    BY <2>1, <2>2, <2>3, WrittenBack
  <2> QED
    BY <2>2, <2>4
<1>6. CASE checkPerSecondRate(p)
  BY <1>0, <1>6 DEF checkPerSecondRate, counters, freezes, history
<1>7. CASE checkRateLimit(p)
  <2>1. UNCHANGED <<log, pardoned, frozen>>
    BY <1>7 DEF checkRateLimit, freezes, history
  <2> QED
    BY <1>7, <2>1, RateLimitWrites
<1>8. CASE checkClientOrderIDDuplicate(p)
  <2>1. UNCHANGED <<tracker, log, now, pardoned, frozen>>
    BY <1>8 DEF checkClientOrderIDDuplicate, Continue, freezes, history
  <2> QED
    BY <1>0, <2>1
<1>9. CASE checkDuplicateOrder(p)
  <2>1. UNCHANGED <<log, pardoned, frozen>>
    BY <1>9 DEF checkDuplicateOrder, freezes, history
  <2>2. /\ Orders(u)' = Orders(u) /\ Rejections(u)' = Rejections(u)
        /\ EffectiveValue(u)' = EffectiveValue(u)
        /\ u # User(req[p]) => Params(u)' = Params(u)
    BY <1>9, DuplicateWrites
  <2>3. DuplicateWindow > 0 \/ Params(u)' = Params(u)
    <3>1. DuplicateWindow > 0 \/ tracker' = tracker
      BY <1>9 DEF checkDuplicateOrder
    <3> QED
      BY <3>1, Unwritten
  <2> QED
    BY <1>9, <2>1, <2>2, <2>3
<1>10. CASE checkDailyValue(p)
  <2>1. UNCHANGED <<log, pardoned, frozen>>
    BY <1>10 DEF checkDailyValue, freezes, history
  <2> QED
    BY <1>10, <2>1, ValueWrites
<1>11. CASE CheckMarket(p)
  BY <1>0, <1>11 DEF CheckMarket, Continue, Return, counters, freezes, history
<1>12. CASE Broker(p)
  <2>1. UNCHANGED <<tracker, now, pardoned, frozen>>
    BY <1>12 DEF Broker, Continue, Return, counters, freezes
  <2>2. log'[u] = log[u] \/ User(req[p]) = u
    BY <1>12, BrokerWrites
  <2> QED
    BY <1>12, <2>1, <2>2, Unwritten
<1>13. CASE RecordOrder(p)
  <2>1. UNCHANGED <<log, pardoned, frozen>>
    BY <1>13 DEF RecordOrder, freezes, history
  <2> QED
    BY <1>13, <2>1, RecordWrites
<1>14. CASE recordRejection(p)
  <2>1. UNCHANGED <<log, frozen>>
    BY <1>14 DEF recordRejection, freezes
  <2>2. u # User(req[p]) => pardoned'[u] = pardoned[u]
    BY <1>14 DEF recordRejection, TypeOK
  <2> QED
    BY <1>14, <2>1, <2>2, RejectionWrites
<1>15. CASE checkAutoFreeze(p)
  BY <1>15, BreakerWrites
<1>16. CASE ReadClock(p)
  BY <1>0, <1>16 DEF ReadClock, counters, freezes, history
<1>17. CASE increment(p)
  BY <1>0, <1>17 DEF increment, freezes, history
<1> QED
  BY <1>1, <1>2, <1>3, <1>4, <1>5, <1>6, <1>7, <1>8, <1>9, <1>10, <1>11, <1>12, <1>13, <1>14, <1>15, <1>16, <1>17 DEF Step

\* A step of an administrator writes no window, forgets no value but a stale one.
LEMMA AdminWrites ==
  ASSUME TypeOK, Admin, NEW u \in Users
  PROVE  /\ UNCHANGED <<now, pc, req, log>>
         /\ Orders(u)' = Orders(u) /\ Params(u)' = Params(u) /\ Rejections(u)' = Rejections(u)
         /\ EffectiveValue(u)' = EffectiveValue(u)
<1>1. UNCHANGED <<now, pc, req, log>>
  BY DEF Admin, Freeze, Unfreeze, GetUserStatus, FreezeGlobal, UnfreezeGlobal, AdminCall
<1>2. CASE tracker' = tracker
  BY <1>1, <1>2, Unwritten
<1>3. ASSUME NEW e \in Emails, GetUserStatus(e)
      PROVE  /\ Orders(u)' = Orders(u) /\ Params(u)' = Params(u) /\ Rejections(u)' = Rejections(u)
             /\ EffectiveValue(u)' = EffectiveValue(u)
  <2> PICK w : w = Lower[e]
    OBVIOUS
  <2> PICK t : t = maybeResetDay(getOrCreateTracker(w))
    OBVIOUS
  <2>1. w \in Users /\ tracker' = Put(tracker, w, t)
    BY <1>3, LowerType DEF GetUserStatus
  <2>2. /\ t.value = EffectiveValue(w) /\ ~Stale(t.resetAt)
        /\ t.orders = Orders(w) /\ t.params = Params(w) /\ t.rejections = Rejections(w)
    BY <2>1, ResetKeeps
  <2> QED
    BY <1>1, <2>1, <2>2, WrittenBack
<1>4. tracker' = tracker \/ \E e \in Emails : GetUserStatus(e)
  BY DEF Admin, Freeze, Unfreeze, FreezeGlobal, UnfreezeGlobal, counters
<1> QED
  BY <1>1, <1>2, <1>3, <1>4

----------------------------------------------------------------------------
(* The notional of a day.                                                  *)

\* n orders of the largest admitted size, and the bound of DailyValueCap.
Slack(n) == MaxSingleOrder * n
Ceiling  == MaxDailyValue + Slack(K - 1)

\* With e recorded, one of the orders S to come fits under the ceiling together
\* with the largest size for every other one.
Fits(e, S, val) ==
  IF S = {} THEN e <= Ceiling
  ELSE \E p \in S : e + val[p] + Slack(Cardinality(S) - 1) <= Ceiling

LEMMA SlackFacts ==
  /\ Slack(0) = 0
  /\ \A n \in Nat : Slack(n) \in Nat /\ Slack(n + 1) = Slack(n) + MaxSingleOrder
  /\ \A m, n \in Nat : m <= n => Slack(m) <= Slack(n)
<1> PICK M \in Nat : M = MaxSingleOrder
  BY GuardAssumption
<1>1. M * 0 = 0
  OBVIOUS
<1>2. \A n \in Nat : M * n \in Nat /\ M * (n + 1) = M * n + M
  OBVIOUS
<1>3. ASSUME NEW m \in Nat, NEW n \in Nat, m <= n
      PROVE  M * m <= M * n
  <2> PICK d \in Nat : n = m + d
    <3>1. n - m \in Nat /\ n = m + (n - m)
      BY <1>3
    <3> QED
      BY <3>1
  <2>1. M * n = M * m + M * d /\ M * d \in Nat /\ M * m \in Nat
    OBVIOUS
  <2> QED
    BY <2>1
<1> QED
  BY <1>1, <1>2, <1>3 DEF Slack

LEMMA CeilingType == K \in Nat \ {0} /\ K - 1 \in Nat /\ Ceiling \in Nat
<1>1. K \in Nat /\ K # 0
  BY GuardAssumption, FS_CardinalityType, FS_EmptySet DEF K
<1>2. K - 1 \in Nat
  BY <1>1
<1>3. Slack(K - 1) \in Nat /\ MaxDailyValue \in Nat
  BY <1>2, SlackFacts, GuardAssumption
<1> QED
  BY <1>1, <1>2, <1>3 DEF Ceiling

LEMMA FitsCeiling ==
  ASSUME NEW e \in Nat, NEW S, IsFiniteSet(S), NEW val, \A p \in S : val[p] \in Nat,
         Fits(e, S, val)
  PROVE  e <= Ceiling
<1>1. CASE S = {}
  BY <1>1 DEF Fits
<1>2. CASE S # {}
  <2> PICK p \in S : e + val[p] + Slack(Cardinality(S) - 1) <= Ceiling
    BY <1>2 DEF Fits
  <2>1. Cardinality(S) \in Nat /\ Cardinality(S) # 0
    BY <1>2, FS_CardinalityType, FS_EmptySet
  <2>2. Cardinality(S) - 1 \in Nat
    BY <2>1
  <2>3. Slack(Cardinality(S) - 1) \in Nat
    BY <2>2, SlackFacts
  <2> QED
    BY <2>3, CeilingType
<1> QED
  BY <1>1, <1>2

\* Less is recorded, and the orders to come are worth what they were.
LEMMA FitsSame ==
  ASSUME NEW e \in Nat, NEW f \in Nat, f <= e, NEW S, IsFiniteSet(S), NEW val, NEW new,
         \A p \in S : val[p] \in Nat /\ new[p] = val[p], Fits(e, S, val)
  PROVE  Fits(f, S, new)
<1>1. CASE S = {}
  BY <1>1, CeilingType DEF Fits
<1>2. CASE S # {}
  <2> PICK p \in S : e + val[p] + Slack(Cardinality(S) - 1) <= Ceiling
    BY <1>2 DEF Fits
  <2>1. Cardinality(S) \in Nat /\ Cardinality(S) # 0
    BY <1>2, FS_CardinalityType, FS_EmptySet
  <2>2. Cardinality(S) - 1 \in Nat
    BY <2>1
  <2>3. Slack(Cardinality(S) - 1) \in Nat
    BY <2>2, SlackFacts
  <2>4. f + new[p] + Slack(Cardinality(S) - 1) <= Ceiling
    BY <2>3, CeilingType
  <2> QED
    BY <1>2, <2>4 DEF Fits
<1> QED
  BY <1>1, <1>2

\* An order that the check admits on what is recorded fits with any K - 1 others.
LEMMA FitsAdmitted ==
  ASSUME NEW e \in Nat, NEW S, IsFiniteSet(S), Cardinality(S) <= K, NEW p \in S, NEW val,
         val[p] \in Nat, e + val[p] <= MaxDailyValue
  PROVE  Fits(e, S, val)
<1>1. Cardinality(S) \in Nat /\ Cardinality(S) # 0
  BY FS_CardinalityType, FS_EmptySet
<1>2. Cardinality(S) - 1 \in Nat /\ Cardinality(S) - 1 <= K - 1 /\ K - 1 \in Nat
  BY <1>1, CeilingType
<1>3. Slack(Cardinality(S) - 1) <= Slack(K - 1) /\ Slack(Cardinality(S) - 1) \in Nat
      /\ Slack(K - 1) \in Nat
  BY <1>2, SlackFacts
<1>4. e + val[p] + Slack(Cardinality(S) - 1) <= Ceiling
  BY <1>3, GuardAssumption DEF Ceiling
<1> QED
  BY <1>4 DEF Fits

\* An order leaves, recorded or not: if it was the one that fitted, the largest
\* size that was kept for one of the others now covers it.
LEMMA FitsFewer ==
  ASSUME NEW e \in Nat, NEW f \in Nat, NEW S, IsFiniteSet(S), NEW p \in S, NEW val, NEW new,
         \A q \in S : val[q] \in Nat /\ val[q] <= MaxSingleOrder,
         \A q \in S \ {p} : new[q] = val[q],
         f <= e + val[p], Fits(e, S, val)
  PROVE  Fits(f, S \ {p}, new)
<1> PICK n \in Nat : Cardinality(S) = n + 1 /\ Cardinality(S \ {p}) = n
  <2>1. Cardinality(S) \in Nat /\ Cardinality(S) # 0 /\ Cardinality(S \ {p}) = Cardinality(S) - 1
    BY FS_CardinalityType, FS_EmptySet, FS_RemoveElement
  <2>2. Cardinality(S) - 1 \in Nat /\ Cardinality(S) = (Cardinality(S) - 1) + 1
    BY <2>1
  <2> QED
    BY <2>1, <2>2
<1>0. Cardinality(S) - 1 = n
  OBVIOUS
<1> PICK q \in S : e + val[q] + Slack(n) <= Ceiling
  BY <1>0 DEF Fits
<1>1. CASE S \ {p} = {}
  <2>1. n = 0
    BY <1>1, FS_EmptySet
  <2>2. q = p
    BY <1>1
  <2>3. f <= Ceiling
    BY <2>1, <2>2, SlackFacts, CeilingType
  <2> QED
    BY <1>1, <2>3 DEF Fits
<1>2. CASE S \ {p} # {}
  <2> PICK r \in S \ {p} : q # p => r = q
    BY <1>2
  <2>1. n # 0
    BY <1>2, FS_RemoveElement, FS_EmptySet
  <2> PICK m \in Nat : n = m + 1
    <3>1. n - 1 \in Nat /\ n = (n - 1) + 1
      BY <2>1
    <3> QED
      BY <3>1
  <2>2. Slack(n) = Slack(m) + MaxSingleOrder /\ Slack(m) \in Nat
    BY SlackFacts
  <2>3. /\ val[r] \in Nat /\ val[r] <= MaxSingleOrder /\ new[r] = val[r]
        /\ val[p] \in Nat /\ val[p] <= MaxSingleOrder /\ MaxSingleOrder \in Nat
    BY GuardAssumption
  <2>4. val[q] + MaxSingleOrder >= val[p] + val[r]
    BY <2>3
  <2>5. f + new[r] + Slack(m) <= Ceiling
    BY <2>2, <2>3, <2>4, CeilingType
  <2>6. Cardinality(S \ {p}) - 1 = m
    OBVIOUS
  <2> QED
    BY <1>2, <2>5, <2>6 DEF Fits
<1> QED
  BY <1>1, <1>2

\* A call that passed the request checks is not larger than the cap on one
\* order, and the priced calls past the value check fit.
Sized == \A p \in Procs : pc[p] \in PastRequest => req[p].value <= MaxSingleOrder
Priced(u) == {p \in At(u, PastValue) : req[p].value > 0}
Notional == [p \in Procs |-> req[p].value]
Fitting(u) == Fits(EffectiveValue(u), Priced(u), Notional)

ValueInv == TypeOK /\ Sized /\ \A u \in Users : Fitting(u)

LEMMA PricedType ==
  ASSUME TypeOK, Sized, NEW u \in Users
  PROVE  /\ IsFiniteSet(Priced(u)) /\ Priced(u) \subseteq Procs
         /\ \A p \in Priced(u) : Notional[p] \in Nat /\ Notional[p] <= MaxSingleOrder
<1>1. Priced(u) \in SUBSET At(u, PastValue) /\ Priced(u) \subseteq Procs
  BY DEF Priced, At
<1>2. IsFiniteSet(Priced(u))
  BY <1>1, AtCardinality, FS_Subset
<1>3. ASSUME NEW p \in Priced(u) PROVE Notional[p] \in Nat /\ Notional[p] <= MaxSingleOrder
  <2>1. p \in Procs /\ pc[p] \in PastValue
    BY DEF Priced, At
  <2>2. pc[p] # "idle" /\ pc[p] \in PastRequest
    BY <2>1 DEF PastValue, PastRequest, PastDaily, PastMinute, PastParams, Accounting
  <2>3. req[p] \in Requests
    BY <2>1, <2>2, CallType
  <2> QED
    BY <2>1, <2>2, <2>3, GuardAssumption DEF Notional, Sized
<1> QED
  BY <1>1, <1>2, <1>3

LEMMA ValueInit == Init => ValueInv
<1> SUFFICES ASSUME Init PROVE ValueInv
  OBVIOUS
<1>1. TypeOK /\ Sized
  BY TypeInit DEF Init, Sized, PastRequest, PastDaily, PastMinute, PastParams, Accounting
<1>2. ASSUME NEW u \in Users PROVE Fitting(u)
  <2>1. Priced(u) = {}
    BY DEF Init, Priced, At, PastValue, Accounting
  <2>2. EffectiveValue(u) = 0
    BY DEF Init, EffectiveValue
  <2> QED
    BY <2>1, <2>2, CeilingType DEF Fitting, Fits
<1> QED
  BY <1>1, <1>2 DEF ValueInv

LEMMA SizedStep ==
  ASSUME TypeOK, Sized, NEW p \in Procs, Step(p)
  PROVE  Sized'
<1>1. Moves(p) /\ Doors(p)
  BY StepMoves, StepDoors
<1>2. \A q \in Procs \ {p} : pc'[q] = pc[q] /\ req'[q] = req[q]
  BY <1>1 DEF Moves
<1>3. ASSUME pc'[p] \in PastRequest PROVE req'[p].value <= MaxSingleOrder
  <2>1. pc'[p] # "idle" /\ pc'[p] # "global"
    BY <1>3 DEF PastRequest, PastDaily, PastMinute, PastParams, Accounting
  <2>2. pc[p] # "idle"
    BY <2>1 DEF Step, Receive, CheckGlobalFreeze, checkKillSwitch, CheckRequest,
       checkDailyOrderCount, checkPerSecondRate, checkRateLimit, checkClientOrderIDDuplicate,
       checkDuplicateOrder, checkDailyValue, CheckMarket, Broker, ReadClock, increment,
       RecordOrder, recordRejection, checkAutoFreeze, TypeOK
  <2>3. req'[p] = req[p]
    BY <1>1, <2>1, <2>2 DEF Moves
  <2> QED
    BY <1>1, <1>3, <2>3 DEF Doors, Sized
<1> QED
  BY <1>2, <1>3 DEF Sized

\* The priced calls of a user change by p alone, and p joins them through the
\* value check only.
LEMMA PricedStep ==
  ASSUME TypeOK, NEW p \in Procs, Step(p), NEW u \in Users
  PROVE  /\ Priced(u)' \ {p} = Priced(u) \ {p}
         /\ \A q \in Procs \ {p} : Notional'[q] = Notional[q]
         /\ p \in Priced(u)' =>
              /\ Notional'[p] = Notional[p]
              /\ p \in Priced(u) \/ (checkDailyValue(p) /\ pc'[p] \in PastValue
                                     /\ req[p].value > 0 /\ User(req[p]) = u)
<1>1. Moves(p) /\ Doors(p)
  BY StepMoves, StepDoors
<1>2. \A q \in Procs \ {p} : pc'[q] = pc[q] /\ req'[q] = req[q]
  BY <1>1 DEF Moves
<1>3. ASSUME NEW q \in Procs \ {p} PROVE q \in Priced(u)' <=> q \in Priced(u)
  BY <1>2 DEF Priced, At, User
<1>4. \A q \in Procs \ {p} : Notional'[q] = Notional[q]
  BY <1>2 DEF Notional
<1>5. ASSUME p \in Priced(u)'
      PROVE  /\ Notional'[p] = Notional[p]
             /\ p \in Priced(u) \/ (checkDailyValue(p) /\ pc'[p] \in PastValue
                                    /\ req[p].value > 0 /\ User(req[p]) = u)
  <2>1. pc'[p] \in PastValue /\ pc'[p] # "idle"
    BY <1>5 DEF Priced, At, PastValue, Accounting
  <2>2. pc[p] \in PastValue \/ checkDailyValue(p)
    BY <1>1, <2>1 DEF Doors
  <2>3. pc[p] # "idle"
    BY <2>2 DEF checkDailyValue, PastValue, Accounting
  <2>4. req'[p] = req[p]
    BY <1>1, <2>1, <2>3 DEF Moves
  <2>5. req[p].value > 0 /\ User(req[p]) = u
    BY <1>5, <2>4 DEF Priced, At, User
  <2>6. Notional'[p] = Notional[p]
    BY <2>4 DEF Notional
  <2> QED
    BY <2>1, <2>2, <2>5, <2>6 DEF Priced, At
<1>6. Priced(u) \subseteq Procs /\ Priced(u)' \subseteq Procs
  BY DEF Priced, At
<1> QED
  BY <1>3, <1>4, <1>5, <1>6

LEMMA FittingStep ==
  ASSUME ValueInv, TypeOK', Sized', NEW p \in Procs, Step(p), NEW u \in Users
  PROVE  Fitting(u)'
<1>0. TypeOK /\ Sized /\ Fitting(u)
  BY DEF ValueInv
<1> PICK e \in Nat : e = EffectiveValue(u)
  BY <1>0, ResetKeeps
<1>1. /\ IsFiniteSet(Priced(u)) /\ Priced(u) \subseteq Procs
      /\ \A q \in Priced(u) : Notional[q] \in Nat /\ Notional[q] <= MaxSingleOrder
  BY <1>0, PricedType
<1>2. Writes(p, u)
  BY <1>0, StepWrites
<1>3. /\ Priced(u)' \ {p} = Priced(u) \ {p}
      /\ \A q \in Procs \ {p} : Notional'[q] = Notional[q]
      /\ p \in Priced(u)' =>
           /\ Notional'[p] = Notional[p]
           /\ p \in Priced(u) \/ (checkDailyValue(p) /\ pc'[p] \in PastValue
                                  /\ req[p].value > 0 /\ User(req[p]) = u)
  BY <1>0, PricedStep
<1>4. EffectiveValue(u)' = e \/ (RecordOrder(p) /\ User(req[p]) = u)
  BY <1>2 DEF Writes
<1>5. ASSUME RecordOrder(p), User(req[p]) = u
      PROVE  /\ EffectiveValue(u)' = e + req[p].value /\ p \notin Priced(u)'
             /\ req[p].value \in Nat /\ (req[p].value > 0 => p \in Priced(u))
  <2>1. EffectiveValue(u)' = e + req[p].value /\ pc'[p] = "idle"
    BY <1>0, <1>5, RecordWrites
  <2>2. p \notin Priced(u)'
    BY <2>1 DEF Priced, At, PastValue, Accounting
  <2>3. pc[p] = "record"
    BY <1>5 DEF RecordOrder
  <2>4. req[p] \in Requests
    BY <1>0, <2>3, CallType
  <2>5. req[p].value > 0 => p \in Priced(u)
    BY <1>5, <2>3 DEF Priced, At, PastValue, Accounting
  <2> QED
    BY <2>1, <2>2, <2>4, <2>5, GuardAssumption
<1>6. CASE p \in Priced(u)' /\ p \notin Priced(u)
  <2>1. /\ checkDailyValue(p) /\ pc'[p] \in PastValue /\ req[p].value > 0 /\ User(req[p]) = u
        /\ Notional'[p] = Notional[p]
    BY <1>3, <1>6
  <2>2. e + req[p].value <= MaxDailyValue
    BY <1>0, <2>1, ValueWrites
  <2>3. EffectiveValue(u)' = e
    BY <1>4, <1>5, <1>6
  <2>4. Notional'[p] = req[p].value /\ req[p].value \in Nat
    <3>1. req[p] \in Requests
      BY <1>0, <2>1, CallType DEF checkDailyValue
    <3> QED
      BY <2>1, <3>1, GuardAssumption DEF Notional
  <2>5. Priced(u)' \in SUBSET At(u, PastValue)'
    BY DEF Priced
  <2>6. IsFiniteSet(At(u, PastValue)') /\ Cardinality(At(u, PastValue)') <= K
        /\ Cardinality(At(u, PastValue)') \in Nat /\ K \in Nat
    BY AtCardinalityPrime
  <2>7. IsFiniteSet(Priced(u)') /\ Cardinality(Priced(u)') <= Cardinality(At(u, PastValue)')
        /\ Cardinality(Priced(u)') \in Nat
    BY <2>5, <2>6, FS_Subset, FS_CardinalityType
  <2>8. Cardinality(Priced(u)') <= K
    BY <2>6, <2>7
  <2>9. Fits(e, Priced(u)', Notional')
    BY <1>6, <2>2, <2>4, <2>7, <2>8, FitsAdmitted
  <2> QED
    BY <2>3, <2>9 DEF Fitting
<1>7. CASE p \in Priced(u) /\ p \notin Priced(u)'
  <2>1. Notional[p] = req[p].value /\ Notional[p] \in Nat
    BY <1>1, <1>7 DEF Notional
  <2> PICK f \in Nat : f = EffectiveValue(u)' /\ f <= e + Notional[p]
    BY <1>4, <1>5, <2>1
  <2>2. Priced(u)' = Priced(u) \ {p} /\ \A q \in Priced(u) \ {p} : Notional'[q] = Notional[q]
    BY <1>1, <1>3, <1>7
  <2>3. Fits(e, Priced(u), Notional)
    BY <1>0 DEF Fitting
  <2>4. Fits(f, Priced(u) \ {p}, Notional')
    BY <1>1, <1>7, <2>2, <2>3, FitsFewer
  <2> QED
    BY <2>2, <2>4 DEF Fitting
<1>8. CASE p \in Priced(u)' <=> p \in Priced(u)
  <2>1. Priced(u)' = Priced(u)
    BY <1>3, <1>8
  <2>2. EffectiveValue(u)' = e
    BY <1>4, <1>5, <1>8
  <2>3. \A q \in Priced(u) : Notional[q] \in Nat /\ Notional'[q] = Notional[q]
    BY <1>1, <1>3, <2>1
  <2>4. Fits(e, Priced(u), Notional) /\ e <= e
    BY <1>0 DEF Fitting
  <2>5. Fits(e, Priced(u), Notional')
    BY <1>1, <2>3, <2>4, FitsSame
  <2> QED
    BY <2>1, <2>2, <2>5 DEF Fitting
<1> QED
  BY <1>6, <1>7, <1>8

LEMMA ValueStep == ValueInv /\ [Next]_vars => ValueInv'
<1> SUFFICES ASSUME ValueInv, [Next]_vars
             PROVE  Sized' /\ \A u \in Users : Fitting(u)'
  BY TypeStep DEF ValueInv
<1>0. TypeOK /\ Sized /\ TypeOK'
  BY TypeStep DEF ValueInv
<1>1. ASSUME NEW p \in Procs, Step(p) PROVE Sized' /\ \A u \in Users : Fitting(u)'
  BY <1>0, <1>1, SizedStep, FittingStep
<1>2. ASSUME UNCHANGED <<pc, req>>,
             \A u \in Users : EffectiveValue(u)' \in Nat /\ EffectiveValue(u)' <= EffectiveValue(u)
      PROVE  Sized' /\ \A u \in Users : Fitting(u)'
  <2>1. Sized' /\ Notional' = Notional
    BY <1>0, <1>2 DEF Sized, Notional
  <2>2. ASSUME NEW u \in Users PROVE Fitting(u)'
    <3> PICK e \in Nat, f \in Nat : e = EffectiveValue(u) /\ f = EffectiveValue(u)' /\ f <= e
      BY <1>0, <1>2, ResetKeeps
    <3>1. Priced(u)' = Priced(u)
      BY <1>2 DEF Priced, At, User
    <3>2. Fits(e, Priced(u), Notional)
      BY DEF ValueInv, Fitting
    <3>3. IsFiniteSet(Priced(u)) /\ \A p \in Priced(u) : Notional[p] \in Nat
      BY <1>0, PricedType
    <3>4. Fits(f, Priced(u), Notional)
      BY <3>2, <3>3, FitsSame
    <3> QED
      BY <2>1, <3>1, <3>4 DEF Fitting
  <2> QED
    BY <2>1, <2>2
<1>3. \A u \in Users : EffectiveValue(u) \in Nat /\ EffectiveValue(u) <= EffectiveValue(u)
  BY <1>0, ResetKeeps
<1>4. CASE Admin
  <2>1. UNCHANGED <<pc, req>>
    BY <1>4 DEF Admin, Freeze, Unfreeze, GetUserStatus, FreezeGlobal, UnfreezeGlobal, AdminCall
  <2>2. \A u \in Users : EffectiveValue(u)' = EffectiveValue(u)
    BY <1>0, <1>4, AdminWrites
  <2> QED
    BY <1>2, <1>3, <2>1, <2>2
<1>5. CASE Tick
  <2>1. UNCHANGED <<tracker, pc, req>> /\ now' = now + 1 /\ now \in Nat
    BY <1>0, <1>5 DEF Tick, counters, locals, TypeOK
  <2>2. \A at : Stale(at) => Stale(at)'
    <3> SUFFICES ASSUME NEW at, NEW b \in DayBoundaries, at < b, b <= now
                 PROVE  \E c \in DayBoundaries : at < c /\ c <= now'
      BY DEF Stale
    <3>1. b \in Nat
      BY GuardAssumption
    <3>2. b <= now'
      BY <2>1, <3>1
    <3> QED
      BY <3>2
  <2>3. ASSUME NEW u \in Users
        PROVE  EffectiveValue(u)' \in Nat /\ EffectiveValue(u)' <= EffectiveValue(u)
    <3>1. EffectiveValue(u)' = EffectiveValue(u) \/ EffectiveValue(u)' = 0
      BY <2>1, <2>2 DEF EffectiveValue
    <3> QED
      BY <1>3, <3>1
  <2> QED
    BY <1>2, <2>1, <2>3
<1>6. CASE UNCHANGED vars
  <2>1. UNCHANGED <<tracker, now, pc, req>>
    BY <1>6 DEF vars, counters, locals
  <2>2. \A u \in Users : EffectiveValue(u)' = EffectiveValue(u)
    BY <1>0, <2>1, Unwritten
  <2> QED
    BY <1>2, <1>3, <2>1, <2>2
<1> QED
  BY <1>1, <1>4, <1>5, <1>6 DEF Next, Rest

\* The day's recorded notional passes MaxDailyValue by at most K - 1 orders of
\* the largest admitted size, for any requests and any number K of goroutines.
THEOREM DailyValueHolds == Spec => []DailyValueCap
<1>1. ValueInv => DailyValueCap
  <2> SUFFICES ASSUME ValueInv, NEW u \in Users
               PROVE  EffectiveValue(u) <= MaxDailyValue + (K - 1) * MaxSingleOrder
    BY DEF DailyValueCap
  <2> PICK e \in Nat : e = EffectiveValue(u)
    BY ResetKeeps DEF ValueInv
  <2>1. /\ IsFiniteSet(Priced(u)) /\ \A p \in Priced(u) : Notional[p] \in Nat
        /\ Fits(e, Priced(u), Notional)
    BY PricedType DEF ValueInv, Fitting
  <2>2. e <= Ceiling
    BY <2>1, FitsCeiling
  <2>3. (K - 1) * MaxSingleOrder = MaxSingleOrder * (K - 1)
    BY CeilingType, GuardAssumption
  <2> QED
    BY <2>2, <2>3 DEF Ceiling, Slack
<1>2. ValueInv /\ [Next]_vars => ValueInv'
  BY ValueStep
<1> QED
  BY <1>1, <1>2, ValueInit, PTL DEF Spec

----------------------------------------------------------------------------
(* Windows over sequences of times.                                        *)

\* Positions of a sequence are finitely many.
LEMMA PositionsFinite ==
  ASSUME NEW S, NEW s \in Seq(S), NEW G, G \subseteq DOMAIN s
  PROVE  IsFiniteSet(G) /\ Cardinality(G) \in Nat /\ Cardinality(G) <= Len(s)
<1>1. Len(s) \in Nat /\ DOMAIN s = 1..Len(s) /\ G \in SUBSET (1..Len(s))
  OBVIOUS
<1>2. IsFiniteSet(1..Len(s)) /\ Cardinality(1..Len(s)) = Len(s)
  BY <1>1, IntervalFinite
<1>3. IsFiniteSet(G) /\ Cardinality(G) <= Len(s)
  BY <1>1, <1>2, FS_Subset
<1> QED
  BY <1>3, FS_CardinalityType

\* Shifting positions by n keeps their number.
LEMMA ShiftedPositions ==
  ASSUME NEW n \in Nat, NEW H, NEW G, IsFiniteSet(H), H \subseteq Int, G \subseteq Int,
         \A j \in H : j + n \in G, \A i \in G : i - n \in H
  PROVE  Cardinality(H) = Cardinality(G)
<1> DEFINE f == [j \in H |-> j + n]
<1>1. f \in [H -> G]
  OBVIOUS
<1>2. \A a, b \in H : f[a] = f[b] => a = b
  OBVIOUS
<1>3. \A i \in G : \E j \in H : f[j] = i
  <2> SUFFICES ASSUME NEW i \in G PROVE \E j \in H : f[j] = i
    OBVIOUS
  <2>1. i - n \in H /\ f[i - n] = i
    OBVIOUS
  <2> QED
    BY <2>1
<1> HIDE DEF f
<1>4. f \in Bijection(H, G)
  BY <1>1, <1>2, <1>3 DEF Bijection, Injection, Surjection, IsInjective
<1> QED
  BY <1>4, FS_Bijection DEF ExistsBijection

\* Two functions, one the other shifted by n.
LEMMA Shifted ==
  ASSUME NEW r, NEW s, NEW m \in Nat, NEW n \in Int, 0 <= n, n <= m,
         DOMAIN r = 1..(m - n), DOMAIN s = 1..m,
         \A i \in 1..(m - (n + 1) + 1) : r[i] = s[n + 1 + i - 1]
  PROVE  /\ \A j \in DOMAIN r : j + n \in DOMAIN s /\ r[j] = s[j + n]
         /\ \A i \in DOMAIN s : i > n => i - n \in DOMAIN r /\ r[i - n] = s[i]
<1>1. ASSUME NEW j \in DOMAIN r PROVE j + n \in DOMAIN s /\ r[j] = s[j + n]
  <2>1. j \in 1..(m - (n + 1) + 1) /\ j + n \in 1..m /\ n + 1 + j - 1 = j + n
    OBVIOUS
  <2>2. r[j] = s[n + 1 + j - 1]
    BY <2>1
  <2> QED
    BY <2>1, <2>2
<1>2. ASSUME NEW i \in DOMAIN s, i > n PROVE i - n \in DOMAIN r /\ r[i - n] = s[i]
  <2>1. i - n \in DOMAIN r /\ (i - n) + n = i
    BY <1>2
  <2> QED
    BY <1>1, <2>1
<1> QED
  BY <1>1, <1>2

\* What is left after dropping a prefix, position by position.
LEMMA Dropped ==
  ASSUME NEW S, NEW s \in Seq(S), NEW n \in 0..Len(s)
  PROVE  LET r == SubSeq(s, n + 1, Len(s)) IN
         /\ r \in Seq(S) /\ Len(r) = Len(s) - n
         /\ \A j \in DOMAIN r : j + n \in DOMAIN s /\ r[j] = s[j + n]
         /\ \A i \in DOMAIN s : i > n => i - n \in DOMAIN r /\ r[i - n] = s[i]
<1> DEFINE r == SubSeq(s, n + 1, Len(s))
<1> SUFFICES /\ r \in Seq(S) /\ Len(r) = Len(s) - n
             /\ \A j \in DOMAIN r : j + n \in DOMAIN s /\ r[j] = s[j + n]
             /\ \A i \in DOMAIN s : i > n => i - n \in DOMAIN r /\ r[i - n] = s[i]
  OBVIOUS
<1>1. Len(s) \in Nat /\ n + 1 \in Int /\ \A i \in (n + 1)..Len(s) : s[i] \in S
  OBVIOUS
<1>2. /\ r \in Seq(S) /\ Len(r) = IF n + 1 <= Len(s) THEN Len(s) - (n + 1) + 1 ELSE 0
      /\ \A i \in 1..Len(s) - (n + 1) + 1 : r[i] = s[n + 1 + i - 1]
  BY <1>1, SubSeqProperties
<1> HIDE DEF r
<1>3. Len(r) = Len(s) - n
  BY <1>1, <1>2
<1>4. DOMAIN r = 1..Len(r) /\ DOMAIN s = 1..Len(s)
  BY <1>2, LenProperties
<1>5. PICK m \in Nat : m = Len(s)
  BY <1>1
<1>6. Len(r) = m - n /\ n \in 0..m
  BY <1>3, <1>5, Zenon
<1>7. n \in Int /\ 0 <= n /\ n <= m /\ DOMAIN r = 1..(m - n) /\ DOMAIN s = 1..m
  <2>1. DOMAIN r = 1..(m - n) /\ DOMAIN s = 1..m
    BY <1>6, <1>4, <1>5, Zenon
  <2> QED
    BY <1>6, <2>1
<1>8. \A i \in 1..(m - (n + 1) + 1) : r[i] = s[n + 1 + i - 1]
  BY <1>2, <1>5, Zenon
<1>9. /\ \A j \in DOMAIN r : j + n \in DOMAIN s /\ r[j] = s[j + n]
      /\ \A i \in DOMAIN s : i > n => i - n \in DOMAIN r /\ r[i - n] = s[i]
  BY <1>7, <1>8, Shifted
<1> QED
  BY <1>2, <1>3, <1>9

\* A set of positions after a dropped prefix keeps its size.
LEMMA DropCounts ==
  ASSUME NEW m \in Nat, NEW n \in 0..m, NEW G \in SUBSET ((n + 1)..m)
  PROVE  Cardinality({j \in 1..(m - n) : j + n \in G}) = Cardinality(G)
<1> DEFINE H == {j \in 1..(m - n) : j + n \in G}
<1>1. n \in Nat /\ m - n \in Nat /\ H \in SUBSET (1..(m - n))
  OBVIOUS
<1>2. PICK k \in Nat : k = m - n
  BY <1>1
<1>3. IsFiniteSet(1..k) /\ H \in SUBSET (1..k)
  BY <1>1, <1>2, IntervalFinite
<1>4. IsFiniteSet(H)
  BY <1>3, FS_Subset
<1>5. H \subseteq Int /\ G \subseteq Int /\ \A j \in H : j + n \in G
  BY <1>1
<1>6. ASSUME NEW i \in G PROVE i - n \in H
  <2>1. i - n \in 1..(m - n) /\ (i - n) + n = i
    BY <1>1
  <2> QED
    BY <2>1
<1> HIDE DEF H
<1>7. Cardinality(H) = Cardinality(G)
  BY <1>1, <1>4, <1>5, <1>6, ShiftedPositions
<1> QED
  BY <1>7 DEF H

\* The aged prefix is aged, and the first time after it is not.
LEMMA AgedPrefixIs ==
  ASSUME NEW times \in Seq(Nat), NEW cutoff \in Int, NEW n, n = AgedPrefix(times, cutoff)
  PROVE  /\ n \in 0..Len(times)
         /\ \A i \in 1..n : times[i] < cutoff
         /\ n < Len(times) => times[n + 1] >= cutoff
<1> DEFINE A == {i \in DOMAIN times : \A j \in 1..i : times[j] < cutoff}
<1>1. Len(times) \in Nat /\ DOMAIN times = 1..Len(times) /\ n = Cardinality(A)
  BY DEF AgedPrefix
<1>2. n \in 0..Len(times)
  BY AgedPrefixType
<1>3. A \subseteq 1..Len(times) /\ IsFiniteSet(A)
  BY <1>1, PositionsFinite
<1>4. ASSUME NEW i \in A, NEW j \in 1..i PROVE j \in A
  <2>1. j \in DOMAIN times /\ \A k \in 1..j : k \in 1..i
    BY <1>1
  <2> QED
    BY <2>1
<1> HIDE DEF A
<1>5. 1..n \subseteq A
  <2> SUFFICES ASSUME NEW i \in 1..n, i \notin A PROVE FALSE
    OBVIOUS
  <2>0. i \in Nat /\ i >= 1
    BY <1>2
  <2>1. ASSUME NEW j \in A PROVE j \in 1..(i - 1)
    <3>1. j \in Nat /\ j >= 1
      BY <1>1, <1>3
    <3>2. CASE j >= i
      <4>1. i \in 1..j
        BY <2>0, <3>1, <3>2
      <4> QED
        BY <1>4, <4>1
    <3> QED
      BY <2>0, <3>1, <3>2
  <2>2. A \in SUBSET (1..(i - 1)) /\ i - 1 \in Nat
    BY <2>0, <2>1
  <2>3. PICK k \in Nat : k = i - 1
    BY <2>2
  <2>4. IsFiniteSet(1..k) /\ Cardinality(1..k) = k /\ A \in SUBSET (1..k)
    BY <2>2, <2>3, IntervalFinite
  <2>5. Cardinality(A) <= i - 1
    BY <2>3, <2>4, FS_Subset
  <2> QED
    BY <1>1, <1>2, <2>0, <2>5
<1>6. A = 1..n
  <2>1. Cardinality(1..n) = Cardinality(A) /\ (1..n) \in SUBSET A
    BY <1>1, <1>2, <1>5, IntervalFinite
  <2> QED
    BY <1>3, <2>1, FS_Subset
<1>7. \A i \in 1..n : times[i] < cutoff
  BY <1>1, <1>6 DEF A
<1>8. ASSUME n < Len(times) PROVE times[n + 1] >= cutoff
  <2>0. n \in Int /\ n + 1 \in 1..Len(times) /\ n + 1 \notin 1..n
    BY <1>1, <1>2, <1>8
  <2>1. n + 1 \in DOMAIN times /\ n + 1 \notin A
    BY <1>1, <1>6, <2>0
  <2> PICK j \in 1..(n + 1) : ~(times[j] < cutoff)
    BY <2>1 DEF A
  <2>2. j = n + 1
    BY <1>2, <1>7, <2>0
  <2>3. times[n + 1] \in Nat
    BY <2>1
  <2> QED
    BY <2>2, <2>3
<1> QED
  BY <1>2, <1>7, <1>8

\* The positions of a sequence that hold a member of W.
Where(s, W) == {i \in DOMAIN s : s[i] \in W}

\* A sequence without its first n elements.
Drop(s, n) == SubSeq(s, n + 1, Len(s))

\* Two sequences, one the other without a prefix that a set does not meet.
LEMMA DroppedCounts ==
  ASSUME NEW S, NEW s \in Seq(S), NEW n \in 0..Len(s), NEW W,
         \A i \in 1..n : s[i] \notin W
  PROVE  Cardinality(Where(Drop(s, n), W)) = Cardinality(Where(s, W))
<1> PICK r : r = Drop(s, n)
  OBVIOUS
<1> DEFINE G == {i \in DOMAIN s : s[i] \in W}
           H == {j \in DOMAIN r : r[j] \in W}
<1>1. /\ r \in Seq(S) /\ Len(r) = Len(s) - n
      /\ \A j \in DOMAIN r : j + n \in DOMAIN s /\ r[j] = s[j + n]
  <2> HIDE DEF G, H
  <2> QED
    BY Dropped DEF Drop
<1>2. DOMAIN r = 1..Len(r) /\ DOMAIN s = 1..Len(s) /\ Len(s) \in Nat
  BY <1>1, LenProperties
<1>3. PICK m \in Nat : m = Len(s)
  BY <1>2
<1>4. n \in 0..m /\ DOMAIN r = 1..(m - n) /\ DOMAIN s = 1..m
  <2>1. DOMAIN r = 1..(m - n) /\ DOMAIN s = 1..m
    BY <1>1, <1>2, <1>3, Zenon
  <2> QED
    BY <1>3, <2>1
<1>5. ASSUME NEW i \in G PROVE i \in (n + 1)..m
  <2>1. i \in 1..m /\ i \notin 1..n
    BY <1>4
  <2> QED
    BY <1>4, <2>1
<1>6. H = {j \in 1..(m - n) : j + n \in G}
  BY <1>1, <1>4
<1> HIDE DEF G, H
<1>7. Cardinality(H) = Cardinality(G)
  BY <1>4, <1>5, <1>6, DropCounts
<1> QED
  BY <1>7 DEF G, H, Where

\* What a window counts: times, or placed orders of one signature, from c on.
Since(c)           == {x \in Nat : x >= c}
PlacedSince(s, c)  == {x \in Placed : x.at >= c /\ x.sig = s}
LoggedSince(c)     == {x \in Acknowledged : x.at >= c}
LikeSince(s, c)    == {x \in Acknowledged : x.at >= c /\ x.sig = s}

\* Pruning forgets nothing that the window, or a later part of it, counts.
LEMMA PruneCounts ==
  ASSUME TypeOK, NEW times \in Seq(Nat), NEW window \in Nat, NEW c \in Int, c >= now - window
  PROVE  Cardinality(Where(Prune(times, window), Since(c))) = Cardinality(Where(times, Since(c)))
<1>1. now - window \in Int /\ now - window <= c
  BY DEF TypeOK
<1> PICK n : n = AgedPrefix(times, now - window)
  OBVIOUS
<1>2. n \in 0..Len(times) /\ \A i \in 1..n : times[i] < now - window
  BY <1>1, AgedPrefixIs
<1>3. n \in 0..Len(times) /\ Prune(times, window) = Drop(times, n)
  BY <1>2 DEF Prune, Drop
<1>4. \A i \in 1..n : times[i] \notin Since(c)
  BY <1>1, <1>2 DEF Since
<1> QED
  BY <1>3, <1>4, DroppedCounts

LEMMA PruneParamsCounts ==
  ASSUME TypeOK, NEW params \in Seq(Placed), NEW c \in Int, c >= now - DuplicateWindow, NEW s
  PROVE  Cardinality(Where(PruneParams(params), PlacedSince(s, c)))
           = Cardinality(Where(params, PlacedSince(s, c)))
<1> DEFINE times == [i \in DOMAIN params |-> params[i].at]
<1>1. Len(params) \in Nat /\ DOMAIN params = 1..Len(params)
  OBVIOUS
<1>2. \A i \in DOMAIN params : params[i] \in Placed
  OBVIOUS
<1>3. times \in Seq(Nat) /\ Len(times) = Len(params)
  BY <1>1, <1>2 DEF Placed
<1>4. \A i \in 1..Len(params) : times[i] = params[i].at
  BY <1>1
<1> PICK n : n = AgedPrefix(times, now - DuplicateWindow)
  OBVIOUS
<1>5. now - DuplicateWindow \in Int /\ now - DuplicateWindow <= c
  BY GuardAssumption DEF TypeOK
<1>6. PruneParams(params) = Drop(params, n)
  BY DEF PruneParams, Drop
<1> HIDE DEF times
<1>7. n \in 0..Len(params) /\ \A i \in 1..n : times[i] < now - DuplicateWindow
  BY <1>5, <1>3, AgedPrefixIs
<1>8. ASSUME NEW i \in 1..n PROVE params[i] \notin PlacedSince(s, c)
  <2>1. i \in 1..Len(params)
    BY <1>7, <1>1
  <2>2. times[i] = params[i].at /\ params[i].at \in Nat
    BY <2>1, <1>1, <1>2, <1>4 DEF Placed
  <2>3. params[i].at < now - DuplicateWindow
    BY <1>7, <2>2
  <2> QED
    BY <1>5, <2>2, <2>3 DEF PlacedSince
<1>9. n \in 0..Len(params)
  BY <1>7
<1> QED
  BY <1>6, <1>8, <1>9, DroppedCounts

LEMMA WhereType ==
  ASSUME NEW S, NEW s \in Seq(S), NEW W
  PROVE  Cardinality(Where(s, W)) \in Nat /\ Cardinality(Where(s, W)) <= Len(s)
<1>1. Where(s, W) \subseteq DOMAIN s
  BY DEF Where
<1> QED
  BY <1>1, PositionsFinite

\* A smaller set, or one that differs outside the sequence only.
LEMMA WhereFewer ==
  ASSUME NEW S, NEW s \in Seq(S), NEW V, NEW W, V \subseteq W
  PROVE  Cardinality(Where(s, V)) <= Cardinality(Where(s, W))
<1>1. Where(s, V) \subseteq Where(s, W) /\ Where(s, W) \subseteq DOMAIN s
  BY DEF Where
<1>2. IsFiniteSet(Where(s, W))
  BY <1>1, PositionsFinite
<1> QED
  BY <1>1, <1>2, FS_Subset

\* One more element is one more position, if it counts.
LEMMA WhereAppend ==
  ASSUME NEW S, NEW s \in Seq(S), NEW x \in S, NEW W
  PROVE  /\ x \in W => Cardinality(Where(Append(s, x), W)) = Cardinality(Where(s, W)) + 1
         /\ x \notin W => Cardinality(Where(Append(s, x), W)) = Cardinality(Where(s, W))
<1> PICK t : t = Append(s, x)
  OBVIOUS
<1>1. /\ t \in Seq(S) /\ Len(t) = Len(s) + 1 /\ t[Len(s) + 1] = x
      /\ \A i \in 1..Len(s) : t[i] = s[i]
  BY AppendProperties
<1>2. Len(s) \in Nat /\ DOMAIN s = 1..Len(s) /\ DOMAIN t = 1..(Len(s) + 1)
  BY <1>1
<1>3. Where(s, W) \subseteq DOMAIN s
  BY DEF Where
<1>4. IsFiniteSet(Where(s, W)) /\ Cardinality(Where(s, W)) \in Nat
  BY <1>3, PositionsFinite
<1>5. Len(s) + 1 \notin Where(s, W)
  BY <1>2, <1>3
<1>6. \A i \in 1..(Len(s) + 1) : i \in 1..Len(s) \/ i = Len(s) + 1
  BY <1>2
<1>7. CASE x \in W
  <2>1. Where(t, W) = Where(s, W) \cup {Len(s) + 1}
    BY <1>1, <1>2, <1>6, <1>7 DEF Where
  <2> QED
    BY <1>4, <1>5, <1>7, <2>1, FS_AddElement
<1>8. CASE x \notin W
  <2>1. Where(t, W) = Where(s, W)
    BY <1>1, <1>2, <1>6, <1>8 DEF Where
  <2> QED
    BY <1>8, <2>1
<1> QED
  BY <1>7, <1>8

\* A set that one element may leave or join.
LEMMA OneMoves ==
  ASSUME NEW A, NEW B, NEW p, IsFiniteSet(A), IsFiniteSet(B), B \ {p} = A \ {p}
  PROVE  /\ Cardinality(A) \in Nat /\ Cardinality(B) \in Nat
         /\ (p \in B <=> p \in A) => Cardinality(B) = Cardinality(A)
         /\ p \in B /\ p \notin A => Cardinality(B) = Cardinality(A) + 1
         /\ p \notin B /\ p \in A => Cardinality(B) = Cardinality(A) - 1
<1>1. Cardinality(A) \in Nat /\ Cardinality(B) \in Nat
  BY FS_CardinalityType
<1>2. (p \in B <=> p \in A) => B = A
  OBVIOUS
<1>3. p \in B /\ p \notin A => B = A \cup {p}
  OBVIOUS
<1>4. p \notin B /\ p \in A => A = B \cup {p}
  OBVIOUS
<1>5. /\ p \notin A => Cardinality(A \cup {p}) = Cardinality(A) + 1
      /\ p \notin B => Cardinality(B \cup {p}) = Cardinality(B) + 1
  BY FS_AddElement
<1> QED
  BY <1>1, <1>2, <1>3, <1>4, <1>5

----------------------------------------------------------------------------
(* The calls of a user, of one signature, within a stretch of the pipeline. *)

Like(u, s, L) == {p \in At(u, L) : req[p].sig = s}

LEMMA InCall ==
  ASSUME TypeOK, NEW p \in Procs, Step(p), pc'[p] # "idle", pc'[p] # "global"
  PROVE  pc[p] # "idle" /\ req'[p] = req[p] /\ User(req[p])' = User(req[p])
<1>1. Moves(p)
  BY StepMoves
<1>2. pc[p] # "idle"
  BY DEF Step, Receive, CheckGlobalFreeze, checkKillSwitch, CheckRequest,
     checkDailyOrderCount, checkPerSecondRate, checkRateLimit, checkClientOrderIDDuplicate,
     checkDuplicateOrder, checkDailyValue, CheckMarket, Broker, ReadClock, increment,
     RecordOrder, recordRejection, checkAutoFreeze, TypeOK
<1>3. req'[p] = req[p]
  BY <1>1, <1>2 DEF Moves
<1> QED
  BY <1>2, <1>3 DEF User

\* A step moves its own goroutine only, and along one call.
LEMMA CallsMove ==
  ASSUME TypeOK, NEW p \in Procs, Step(p), NEW u, NEW L, "idle" \notin L, "global" \notin L
  PROVE  /\ At(u, L)' \ {p} = At(u, L) \ {p}
         /\ p \in At(u, L)' <=> pc'[p] \in L /\ User(req[p]) = u
         /\ p \in At(u, L) <=> pc[p] \in L /\ User(req[p]) = u
<1>1. \A q \in Procs \ {p} : pc'[q] = pc[q] /\ req'[q] = req[q]
  BY StepMoves DEF Moves
<1>2. \A q \in Procs \ {p} : q \in At(u, L)' <=> q \in At(u, L)
  BY <1>1 DEF At, User
<1>3. At(u, L) \subseteq Procs /\ At(u, L)' \subseteq Procs
  BY DEF At
<1>4. p \in At(u, L)' <=> pc'[p] \in L /\ User(req[p])' = u
  BY DEF At, User
<1>5. p \in At(u, L) <=> pc[p] \in L /\ User(req[p]) = u
  BY DEF At
<1>6. pc'[p] \in L => User(req[p])' = User(req[p])
  BY InCall
<1> QED
  BY <1>2, <1>3, <1>4, <1>5, <1>6

LEMMA LikeMove ==
  ASSUME TypeOK, NEW p \in Procs, Step(p), NEW u, NEW s, NEW L, "idle" \notin L, "global" \notin L
  PROVE  /\ Like(u, s, L)' \ {p} = Like(u, s, L) \ {p}
         /\ p \in Like(u, s, L)' <=> pc'[p] \in L /\ User(req[p]) = u /\ req[p].sig = s
         /\ p \in Like(u, s, L) <=> pc[p] \in L /\ User(req[p]) = u /\ req[p].sig = s
<1>1. /\ At(u, L)' \ {p} = At(u, L) \ {p}
      /\ p \in At(u, L)' <=> pc'[p] \in L /\ User(req[p]) = u
      /\ p \in At(u, L) <=> pc[p] \in L /\ User(req[p]) = u
  BY CallsMove
<1>2. \A q \in Procs \ {p} : req'[q] = req[q]
  BY StepMoves DEF Moves
<1>3. At(u, L)' \subseteq Procs /\ At(u, L) \subseteq Procs
  BY DEF At
<1>4. pc'[p] \in L => req'[p] = req[p]
  BY InCall
<1>5. ASSUME NEW q, q # p PROVE q \in Like(u, s, L)' <=> q \in Like(u, s, L)
  BY <1>1, <1>2, <1>3, <1>5 DEF Like
<1>6. p \in Like(u, s, L)' <=> p \in At(u, L)' /\ req'[p].sig = s
  BY DEF Like
<1>7. p \in Like(u, s, L) <=> p \in At(u, L) /\ req[p].sig = s
  BY DEF Like
<1> QED
  BY <1>1, <1>4, <1>5, <1>6, <1>7

LEMMA LikeFinite ==
  ASSUME NEW u \in Users, NEW s, NEW L
  PROVE  /\ IsFiniteSet(Like(u, s, L)) /\ Cardinality(Like(u, s, L)) \in Nat
         /\ Cardinality(Like(u, s, L)) <= K /\ K \in Nat
         /\ IsFiniteSet(Like(u, s, L)') /\ Cardinality(Like(u, s, L)') \in Nat
         /\ Cardinality(Like(u, s, L)') <= K
<1>1. Like(u, s, L) \in SUBSET At(u, L) /\ Like(u, s, L)' \in SUBSET At(u, L)'
  BY DEF Like
<1>2. /\ IsFiniteSet(At(u, L)) /\ Cardinality(At(u, L)) <= K /\ K \in Nat
      /\ Cardinality(At(u, L)) \in Nat
  BY AtCardinality
<1>3. /\ IsFiniteSet(At(u, L)') /\ Cardinality(At(u, L)') <= K
      /\ Cardinality(At(u, L)') \in Nat
  BY AtCardinalityPrime
<1>4. /\ IsFiniteSet(Like(u, s, L)) /\ Cardinality(Like(u, s, L)) \in Nat
      /\ Cardinality(Like(u, s, L)) <= Cardinality(At(u, L))
  BY <1>1, <1>2, FS_Subset, FS_CardinalityType
<1>5. /\ IsFiniteSet(Like(u, s, L)') /\ Cardinality(Like(u, s, L)') \in Nat
      /\ Cardinality(Like(u, s, L)') <= Cardinality(At(u, L)')
  BY <1>1, <1>3, FS_Subset, FS_CardinalityType
<1> QED
  BY <1>2, <1>3, <1>4, <1>5

----------------------------------------------------------------------------
(* The minute: what the broker acknowledged since c is in the user's window *)
(* of orders or on the way to it, and the window with the calls past the    *)
(* check is at most K - 1 beyond the cap.                                   *)

LogPast(u) == \A i \in DOMAIN log[u] : log[u][i].at <= now
MinuteCounted(u) ==
  \A c \in Int :
    now - MinuteWindow <= c /\ c <= now =>
      Cardinality(Where(log[u], LoggedSince(c)))
        <= Cardinality(Where(Orders(u), Since(c))) + Cardinality(At(u, Accounting))
MinuteCapped(u) ==
  Cardinality(Where(Orders(u), Since(now - MinuteWindow))) + Cardinality(At(u, PastMinute))
    <= MaxOrdersPerMinute - 1 + K
MinuteInv ==
  TypeOK /\ \A u \in Users : LogPast(u) /\ MinuteCounted(u) /\ MinuteCapped(u)

LEMMA StretchesKnown ==
  /\ Accounting \subseteq PastParams /\ PastParams \subseteq PastMinute
  /\ "idle" \notin PastMinute /\ "global" \notin PastMinute
  /\ "idle" \notin PastParams /\ "global" \notin PastParams
  /\ "idle" \notin Accounting /\ "global" \notin Accounting
  BY DEF PastMinute, PastParams, Accounting

LEMMA MinuteType ==
  ASSUME TypeOK, NEW u \in Users
  PROVE  /\ log[u] \in Seq(Acknowledged) /\ Orders(u) \in Seq(Nat) /\ Params(u) \in Seq(Placed)
         /\ now \in Nat /\ MinuteWindow \in Nat /\ MaxOrdersPerMinute \in Nat
         /\ DuplicateWindow \in Nat
  BY WindowTypes, GuardAssumption DEF TypeOK

LEMMA MinuteInit == Init => MinuteInv
<1> SUFFICES ASSUME Init PROVE MinuteInv
  OBVIOUS
<1>1. TypeOK
  BY TypeInit
<1>2. ASSUME NEW u \in Users PROVE LogPast(u) /\ MinuteCounted(u) /\ MinuteCapped(u)
  <2>1. log[u] = <<>> /\ Orders(u) = <<>>
    BY DEF Init, Orders, getOrCreateTracker, Fresh
  <2>2. \A W : Where(log[u], W) = {} /\ Where(Orders(u), W) = {}
    BY <2>1 DEF Where
  <2>3. At(u, PastMinute) = {}
    BY StretchesKnown DEF Init, At
  <2>4. Cardinality(At(u, Accounting)) \in Nat /\ K \in Nat /\ K >= 1
    <3>1. K # 0
      BY GuardAssumption, FS_EmptySet DEF K
    <3> QED
      BY <3>1, AtCardinality
  <2>5. Cardinality({}) = 0 /\ MaxOrdersPerMinute \in Nat \ {0}
    BY FS_EmptySet, GuardAssumption
  <2>6. LogPast(u)
    BY <2>1 DEF LogPast
  <2>7. MinuteCounted(u)
    <3>1. \A c : /\ Cardinality(Where(log[u], LoggedSince(c))) = 0
                 /\ Cardinality(Where(Orders(u), Since(c))) = 0
      BY <2>2, <2>5
    <3> QED
      BY <2>4, <3>1 DEF MinuteCounted
  <2>8. MinuteCapped(u)
    BY <2>2, <2>3, <2>4, <2>5 DEF MinuteCapped
  <2> QED
    BY <2>6, <2>7, <2>8
<1> QED
  BY <1>1, <1>2 DEF MinuteInv

\* The order a call brings back from the broker.
LEMMA MinuteBroker ==
  ASSUME MinuteInv, NEW p \in Procs, Step(p), Broker(p), NEW u, u = User(req[p])
  PROVE  LogPast(u)' /\ MinuteCounted(u)' /\ MinuteCapped(u)'
<1>0. TypeOK /\ u \in Users /\ now' = now /\ tracker' = tracker
  BY BrokerWrites DEF MinuteInv
<1>1. LogPast(u) /\ MinuteCounted(u) /\ MinuteCapped(u)
  BY <1>0 DEF MinuteInv
<1>2. Orders(u)' = Orders(u)
  BY <1>0, Unwritten
<1>3. pc[p] = "broker" /\ (pc'[p] = "stamp" \/ pc'[p] = "idle")
  BY <1>0, BrokerWrites DEF Broker
<1>4. p \notin At(u, Accounting) /\ p \in At(u, PastMinute)
  BY <1>3 DEF At, Accounting, PastMinute, PastParams
<1>5. /\ p \in At(u, Accounting)' <=> pc'[p] = "stamp"
      /\ p \in At(u, PastMinute)' <=> pc'[p] = "stamp"
  <2>1. /\ p \in At(u, Accounting)' <=> pc'[p] \in Accounting
        /\ p \in At(u, PastMinute)' <=> pc'[p] \in PastMinute
    BY <1>0, CallsMove, StretchesKnown
  <2> QED
    BY <1>3, <2>1 DEF Accounting, PastMinute, PastParams
<1>6. /\ At(u, Accounting)' \ {p} = At(u, Accounting) \ {p}
      /\ At(u, PastMinute)' \ {p} = At(u, PastMinute) \ {p}
  BY <1>0, CallsMove, StretchesKnown
<1>7. \A L : /\ IsFiniteSet(At(u, L)) /\ IsFiniteSet(At(u, L)')
             /\ Cardinality(At(u, L)) \in Nat /\ Cardinality(At(u, L)') \in Nat
  BY <1>0, AtCardinality, AtCardinalityPrime
<1>8. Cardinality(At(u, PastMinute)') <= Cardinality(At(u, PastMinute))
  BY <1>4, <1>6, <1>7, OneMoves
<1>9. Cardinality(At(u, Accounting)')
        = Cardinality(At(u, Accounting)) + (IF pc'[p] = "stamp" THEN 1 ELSE 0)
  BY <1>4, <1>5, <1>6, <1>7, OneMoves
<1>10. log[u] \in Seq(Acknowledged) /\ Orders(u) \in Seq(Nat) /\ now \in Nat
       /\ MinuteWindow \in Nat /\ MaxOrdersPerMinute \in Nat
  BY <1>0, MinuteType
<1>11. Cardinality(Where(Orders(u), Since(now - MinuteWindow))) \in Nat /\ K \in Nat
  BY <1>0, <1>10, WhereType, AtCardinality
<1>12. MinuteCapped(u)'
  BY <1>0, <1>1, <1>2, <1>7, <1>8, <1>10, <1>11 DEF MinuteCapped
<1>13. CASE pc'[p] = "idle" /\ log' = log
  <2>1. LogPast(u)'
    BY <1>0, <1>1, <1>13 DEF LogPast
  <2>2. MinuteCounted(u)'
    BY <1>0, <1>1, <1>2, <1>7, <1>9, <1>13 DEF MinuteCounted
  <2> QED
    BY <1>12, <2>1, <2>2
<1>14. ASSUME pc'[p] = "stamp",
              NEW ack \in Acknowledged, ack.at = now, log'[u] = Append(log[u], ack)
       PROVE  LogPast(u)' /\ MinuteCounted(u)'
  <2>1. \A i \in DOMAIN log'[u] : log'[u][i] = ack \/ (i \in DOMAIN log[u] /\ log'[u][i] = log[u][i])
    <3> PICK s \in Seq(Acknowledged) : s = log[u] /\ log'[u] = Append(s, ack)
      BY <1>10, <1>14
    <3> PICK t : t = log'[u] /\ t = Append(s, ack)
      BY <1>10
    <3>1. /\ Len(t) = Len(s) + 1 /\ Len(s) \in Nat /\ DOMAIN s = 1..Len(s)
          /\ DOMAIN t = 1..Len(t) /\ t[Len(s) + 1] = ack
          /\ \A i \in 1..Len(s) : t[i] = s[i]
      BY AppendProperties
    <3>2. \A i \in DOMAIN t : i \in 1..Len(s) \/ i = Len(s) + 1
      BY <3>1
    <3> QED
      BY <3>1, <3>2
  <2>2. LogPast(u)'
    BY <1>0, <1>1, <1>10, <1>14, <2>1 DEF LogPast
  <2>3. ASSUME NEW c \in Int, now - MinuteWindow <= c, c <= now
        PROVE  Cardinality(Where(log'[u], LoggedSince(c)))
                 <= Cardinality(Where(Orders(u)', Since(c))) + Cardinality(At(u, Accounting)')
    <3>1. Cardinality(Where(log'[u], LoggedSince(c)))
            <= Cardinality(Where(log[u], LoggedSince(c))) + 1
          /\ Cardinality(Where(log[u], LoggedSince(c))) \in Nat
          /\ Cardinality(Where(log'[u], LoggedSince(c))) \in Int
      <4>1. Cardinality(Where(log[u], LoggedSince(c))) \in Nat
        BY <1>10, WhereType
      <4>2. \/ Cardinality(Where(log'[u], LoggedSince(c))) = Cardinality(Where(log[u], LoggedSince(c))) + 1
            \/ Cardinality(Where(log'[u], LoggedSince(c))) = Cardinality(Where(log[u], LoggedSince(c)))
        BY <1>10, <1>14, WhereAppend
      <4> QED
        BY <4>1, <4>2
    <3>2. Cardinality(Where(log[u], LoggedSince(c)))
            <= Cardinality(Where(Orders(u), Since(c))) + Cardinality(At(u, Accounting))
      BY <1>1, <2>3 DEF MinuteCounted
    <3>3. Cardinality(Where(Orders(u), Since(c))) \in Nat
      BY <1>10, WhereType
    <3>4. Cardinality(At(u, Accounting)') = Cardinality(At(u, Accounting)) + 1
      BY <1>7, <1>9, <1>14
    <3> QED
      BY <1>2, <1>7, <3>1, <3>2, <3>3, <3>4
  <2>4. MinuteCounted(u)'
    BY <1>0, <2>3 DEF MinuteCounted
  <2> QED
    BY <2>2, <2>4
<1> QED
  BY <1>0, <1>12, <1>13, <1>14, BrokerWrites

\* The record of an order: out of Accounting, into the window.
LEMMA MinuteRecord ==
  ASSUME MinuteInv, NEW p \in Procs, Step(p), RecordOrder(p), NEW u, u = User(req[p])
  PROVE  LogPast(u)' /\ MinuteCounted(u)' /\ MinuteCapped(u)'
<1>0. TypeOK /\ u \in Users /\ now' = now /\ log' = log /\ pc'[p] = "idle"
      /\ Orders(u)' = Append(Orders(u), now)
  BY RecordWrites DEF MinuteInv
<1>1. LogPast(u) /\ MinuteCounted(u) /\ MinuteCapped(u)
  BY <1>0 DEF MinuteInv
<1>2. p \in At(u, Accounting) /\ p \in At(u, PastMinute)
      /\ p \notin At(u, Accounting)' /\ p \notin At(u, PastMinute)'
  BY <1>0, StretchesKnown DEF RecordOrder, At, Accounting
<1>3. /\ At(u, Accounting)' \ {p} = At(u, Accounting) \ {p}
      /\ At(u, PastMinute)' \ {p} = At(u, PastMinute) \ {p}
  BY <1>0, CallsMove, StretchesKnown
<1>4. \A L : /\ IsFiniteSet(At(u, L)) /\ IsFiniteSet(At(u, L)')
             /\ Cardinality(At(u, L)) \in Nat /\ Cardinality(At(u, L)') \in Nat
  BY <1>0, AtCardinality, AtCardinalityPrime
<1>5. /\ Cardinality(At(u, Accounting)') = Cardinality(At(u, Accounting)) - 1
      /\ Cardinality(At(u, PastMinute)') = Cardinality(At(u, PastMinute)) - 1
  BY <1>2, <1>3, <1>4, OneMoves
<1>6. log[u] \in Seq(Acknowledged) /\ Orders(u) \in Seq(Nat) /\ now \in Nat
       /\ MinuteWindow \in Nat /\ MaxOrdersPerMinute \in Nat /\ K \in Nat
  BY <1>0, MinuteType, AtCardinality
<1>7. ASSUME NEW c \in Int, c <= now
      PROVE  /\ Cardinality(Where(Orders(u)', Since(c))) = Cardinality(Where(Orders(u), Since(c))) + 1
             /\ Cardinality(Where(Orders(u), Since(c))) \in Nat
             /\ Cardinality(Where(log[u], LoggedSince(c))) \in Nat
  <2>1. now \in Since(c)
    BY <1>6, <1>7 DEF Since
  <2>2. Cardinality(Where(Append(Orders(u), now), Since(c))) = Cardinality(Where(Orders(u), Since(c))) + 1
    BY <1>6, <2>1, WhereAppend
  <2> QED
    BY <1>0, <1>6, <2>2, WhereType
<1>8. LogPast(u)'
  BY <1>0, <1>1 DEF LogPast
<1>9. MinuteCounted(u)'
  <2> SUFFICES ASSUME NEW c \in Int, now - MinuteWindow <= c, c <= now
               PROVE  Cardinality(Where(log[u], LoggedSince(c)))
                        <= Cardinality(Where(Orders(u)', Since(c))) + Cardinality(At(u, Accounting)')
    BY <1>0 DEF MinuteCounted
  <2>1. Cardinality(Where(log[u], LoggedSince(c)))
          <= Cardinality(Where(Orders(u), Since(c))) + Cardinality(At(u, Accounting))
    BY <1>1 DEF MinuteCounted
  <2> QED
    BY <1>4, <1>5, <1>7, <2>1
<1>10. MinuteCapped(u)'
  <2>1. now - MinuteWindow \in Int /\ now - MinuteWindow <= now
    BY <1>6
  <2>2. Cardinality(Where(Orders(u)', Since(now - MinuteWindow)))
          = Cardinality(Where(Orders(u), Since(now - MinuteWindow))) + 1
        /\ Cardinality(Where(Orders(u), Since(now - MinuteWindow))) \in Nat
    BY <1>7, <2>1
  <2> QED
    BY <1>0, <1>1, <1>4, <1>5, <1>6, <2>2 DEF MinuteCapped
<1> QED
  BY <1>8, <1>9, <1>10

\* The check: pruning changes no count, and a call that passes has found less
\* than MaxOrdersPerMinute in the window.
LEMMA MinuteCheck ==
  ASSUME MinuteInv, NEW p \in Procs, Step(p), checkRateLimit(p), NEW u, u = User(req[p])
  PROVE  LogPast(u)' /\ MinuteCounted(u)' /\ MinuteCapped(u)'
<1>0. TypeOK /\ u \in Users /\ now' = now /\ log' = log
      /\ Orders(u)' = Prune(Orders(u), MinuteWindow)
      /\ (pc'[p] \in PastMinute => Len(Orders(u)') < MaxOrdersPerMinute)
  BY RateLimitWrites DEF MinuteInv
<1>1. LogPast(u) /\ MinuteCounted(u) /\ MinuteCapped(u)
  BY <1>0 DEF MinuteInv
<1>2. pc[p] = "minute"
  BY DEF checkRateLimit
<1>3. p \notin At(u, Accounting) /\ p \notin At(u, PastMinute)
  BY <1>2 DEF At, Accounting, PastMinute, PastParams
<1>4. /\ At(u, Accounting)' \ {p} = At(u, Accounting) \ {p}
      /\ At(u, PastMinute)' \ {p} = At(u, PastMinute) \ {p}
  BY <1>0, CallsMove, StretchesKnown
<1>5. \A L : /\ IsFiniteSet(At(u, L)) /\ IsFiniteSet(At(u, L)')
             /\ Cardinality(At(u, L)) \in Nat /\ Cardinality(At(u, L)') \in Nat
             /\ Cardinality(At(u, L)') <= K /\ K \in Nat
  BY <1>0, AtCardinality, AtCardinalityPrime
<1>6. Cardinality(At(u, Accounting)') >= Cardinality(At(u, Accounting))
  BY <1>3, <1>4, <1>5, OneMoves
<1>7. log[u] \in Seq(Acknowledged) /\ Orders(u) \in Seq(Nat) /\ now \in Nat
       /\ MinuteWindow \in Nat /\ MaxOrdersPerMinute \in Nat
  BY <1>0, MinuteType
<1>8. ASSUME NEW c \in Int, now - MinuteWindow <= c
      PROVE  /\ Cardinality(Where(Orders(u)', Since(c))) = Cardinality(Where(Orders(u), Since(c)))
             /\ Cardinality(Where(Orders(u), Since(c))) \in Nat
             /\ Cardinality(Where(log[u], LoggedSince(c))) \in Nat
  BY <1>0, <1>7, <1>8, PruneCounts, WhereType
<1>9. LogPast(u)'
  BY <1>0, <1>1 DEF LogPast
<1>10. MinuteCounted(u)'
  <2> SUFFICES ASSUME NEW c \in Int, now - MinuteWindow <= c, c <= now
               PROVE  Cardinality(Where(log[u], LoggedSince(c)))
                        <= Cardinality(Where(Orders(u)', Since(c))) + Cardinality(At(u, Accounting)')
    BY <1>0 DEF MinuteCounted
  <2>1. Cardinality(Where(log[u], LoggedSince(c)))
          <= Cardinality(Where(Orders(u), Since(c))) + Cardinality(At(u, Accounting))
    BY <1>1 DEF MinuteCounted
  <2> QED
    BY <1>5, <1>6, <1>8, <2>1
<1>11. MinuteCapped(u)'
  <2>1. now - MinuteWindow \in Int
    BY <1>7
  <2>2. /\ Cardinality(Where(Orders(u)', Since(now - MinuteWindow)))
             = Cardinality(Where(Orders(u), Since(now - MinuteWindow)))
        /\ Cardinality(Where(Orders(u), Since(now - MinuteWindow))) \in Nat
    BY <1>8, <2>1
  <2>3. CASE p \in At(u, PastMinute)'
    <3>1. Len(Orders(u)') < MaxOrdersPerMinute
      BY <1>0, <2>3 DEF At
    <3>2. Orders(u)' \in Seq(Nat)
      BY <1>0, <1>7, PruneType
    <3>3. /\ Cardinality(Where(Orders(u)', Since(now - MinuteWindow))) <= Len(Orders(u)')
          /\ Len(Orders(u)') \in Nat
      BY <3>2, WhereType
    <3> QED
      BY <1>0, <1>5, <1>7, <2>2, <3>1, <3>3 DEF MinuteCapped
  <2>4. CASE p \notin At(u, PastMinute)'
    <3>1. Cardinality(At(u, PastMinute)') = Cardinality(At(u, PastMinute))
      BY <1>3, <1>4, <1>5, <2>4, OneMoves
    <3> QED
      BY <1>0, <1>1, <1>5, <1>7, <2>2, <3>1 DEF MinuteCapped
  <2> QED
    BY <2>3, <2>4
<1> QED
  BY <1>9, <1>10, <1>11

\* A step that writes neither the log nor the window can only add to the calls
\* that are accounting and take from those past the check.
LEMMA MinuteStill ==
  ASSUME NEW u \in Users, TypeOK, LogPast(u), MinuteCounted(u), MinuteCapped(u),
         log'[u] = log[u], Orders(u)' = Orders(u), now' = now,
         Cardinality(At(u, Accounting)') >= Cardinality(At(u, Accounting)),
         Cardinality(At(u, PastMinute)') <= Cardinality(At(u, PastMinute))
  PROVE  LogPast(u)' /\ MinuteCounted(u)' /\ MinuteCapped(u)'
<1>1. log[u] \in Seq(Acknowledged) /\ Orders(u) \in Seq(Nat) /\ now \in Nat
       /\ MinuteWindow \in Nat /\ MaxOrdersPerMinute \in Nat
  BY MinuteType
<1>2. \A L : /\ Cardinality(At(u, L)) \in Nat /\ Cardinality(At(u, L)') \in Nat /\ K \in Nat
  BY AtCardinality, AtCardinalityPrime
<1>3. \A c \in Int : /\ Cardinality(Where(Orders(u), Since(c))) \in Nat
                     /\ Cardinality(Where(log[u], LoggedSince(c))) \in Nat
  BY <1>1, WhereType
<1>4. LogPast(u)'
  BY DEF LogPast
<1>5. MinuteCounted(u)'
  BY <1>1, <1>2, <1>3 DEF MinuteCounted
<1>6. MinuteCapped(u)'
  <2>0. now - MinuteWindow \in Int
    BY <1>1
  <2>1. Cardinality(Where(Orders(u), Since(now - MinuteWindow))) \in Nat
    BY <1>3, <2>0
  <2> QED
    BY <1>1, <1>2, <2>1 DEF MinuteCapped
<1> QED
  BY <1>4, <1>5, <1>6

LEMMA MinuteOther ==
  ASSUME MinuteInv, NEW p \in Procs, Step(p), NEW u \in Users,
         User(req[p]) = u => ~(Broker(p) \/ RecordOrder(p) \/ checkRateLimit(p))
  PROVE  LogPast(u)' /\ MinuteCounted(u)' /\ MinuteCapped(u)'
<1>0. TypeOK /\ LogPast(u) /\ MinuteCounted(u) /\ MinuteCapped(u)
  BY DEF MinuteInv
<1>1. Doors(p) /\ Writes(p, u) /\ now' = now
  BY <1>0, StepDoors, StepWrites DEF Doors
<1>2. log'[u] = log[u] /\ Orders(u)' = Orders(u)
  BY <1>1 DEF Writes
<1>3. \A L \in {Accounting, PastMinute} :
        /\ At(u, L)' \ {p} = At(u, L) \ {p}
        /\ p \in At(u, L)' <=> pc'[p] \in L /\ User(req[p]) = u
        /\ p \in At(u, L) <=> pc[p] \in L /\ User(req[p]) = u
  BY <1>0, CallsMove, StretchesKnown
<1>4. /\ p \in At(u, Accounting) => p \in At(u, Accounting)'
      /\ p \in At(u, PastMinute)' => p \in At(u, PastMinute)
  BY <1>1, <1>3 DEF Doors
<1>5. \A L : /\ IsFiniteSet(At(u, L)) /\ IsFiniteSet(At(u, L)')
             /\ Cardinality(At(u, L)) \in Nat /\ Cardinality(At(u, L)') \in Nat
  BY AtCardinality, AtCardinalityPrime
<1>6. Cardinality(At(u, Accounting)') >= Cardinality(At(u, Accounting))
  <2>1. At(u, Accounting)' \ {p} = At(u, Accounting) \ {p}
    BY <1>3
  <2> QED
    BY <1>4, <1>5, <2>1, OneMoves
<1>7. Cardinality(At(u, PastMinute)') <= Cardinality(At(u, PastMinute))
  <2>1. At(u, PastMinute)' \ {p} = At(u, PastMinute) \ {p}
    BY <1>3
  <2> QED
    BY <1>4, <1>5, <2>1, OneMoves
<1> QED
  BY <1>0, <1>1, <1>2, <1>6, <1>7, MinuteStill

\* The clock ages what the window holds; nothing is logged in a second to come.
LEMMA MinuteTick ==
  ASSUME MinuteInv, Tick, NEW u \in Users
  PROVE  LogPast(u)' /\ MinuteCounted(u)' /\ MinuteCapped(u)'
<1>0. TypeOK /\ LogPast(u) /\ MinuteCounted(u) /\ MinuteCapped(u)
  BY DEF MinuteInv
<1>1. log' = log /\ now' = now + 1 /\ UNCHANGED <<tracker, pc, req>>
  BY DEF Tick, counters, locals
<1>2. Orders(u)' = Orders(u) /\ \A L : At(u, L)' = At(u, L)
  BY <1>0, <1>1, Unwritten DEF At, User
<1>3. log[u] \in Seq(Acknowledged) /\ Orders(u) \in Seq(Nat) /\ now \in Nat
       /\ MinuteWindow \in Nat /\ MaxOrdersPerMinute \in Nat
  BY <1>0, MinuteType
<1>4. \A L : Cardinality(At(u, L)) \in Nat /\ K \in Nat
  BY AtCardinality
<1>5. \A i \in DOMAIN log[u] : log[u][i] \in Acknowledged
  <2> PICK s \in Seq(Acknowledged) : s = log[u]
    BY <1>3
  <2> QED
    OBVIOUS
<1>6. LogPast(u)'
  BY <1>0, <1>1, <1>3, <1>5 DEF LogPast, Acknowledged
<1>7. ASSUME NEW c \in Int, now + 1 - MinuteWindow <= c, c <= now + 1
      PROVE  Cardinality(Where(log[u], LoggedSince(c)))
               <= Cardinality(Where(Orders(u), Since(c))) + Cardinality(At(u, Accounting))
  <2>1. Cardinality(Where(Orders(u), Since(c))) \in Nat
    BY <1>3, WhereType
  <2>2. CASE c <= now
    BY <1>0, <1>3, <1>7, <2>2 DEF MinuteCounted
  <2>3. CASE c = now + 1
    <3>1. \A i \in DOMAIN log[u] : log[u][i] \notin LoggedSince(c)
      BY <1>0, <1>3, <1>5, <2>3 DEF LogPast, LoggedSince, Acknowledged
    <3>2. Where(log[u], LoggedSince(c)) = {}
      BY <3>1 DEF Where
    <3>3. Cardinality(Where(log[u], LoggedSince(c))) = 0
      BY <3>2, FS_EmptySet
    <3> QED
      BY <1>4, <2>1, <3>3
  <2> QED
    BY <1>3, <1>7, <2>2, <2>3
<1>8. MinuteCounted(u)'
  <2> SUFFICES ASSUME NEW c \in Int, now' - MinuteWindow <= c, c <= now'
               PROVE  Cardinality(Where(log'[u], LoggedSince(c)))
                        <= Cardinality(Where(Orders(u)', Since(c))) + Cardinality(At(u, Accounting)')
    BY DEF MinuteCounted
  <2>1. now + 1 - MinuteWindow <= c /\ c <= now + 1
    BY <1>1, <1>3
  <2>2. log'[u] = log[u] /\ Orders(u)' = Orders(u) /\ At(u, Accounting)' = At(u, Accounting)
    BY <1>1, <1>2
  <2>3. Cardinality(Where(log[u], LoggedSince(c)))
          <= Cardinality(Where(Orders(u), Since(c))) + Cardinality(At(u, Accounting))
    BY <1>7, <2>1
  <2> QED
    BY <2>2, <2>3
<1>9. MinuteCapped(u)'
  <2>1. Since(now + 1 - MinuteWindow) \subseteq Since(now - MinuteWindow)
    BY <1>3 DEF Since
  <2>2. /\ Cardinality(Where(Orders(u), Since(now + 1 - MinuteWindow))) \in Nat
        /\ Cardinality(Where(Orders(u), Since(now - MinuteWindow))) \in Nat
        /\ Cardinality(Where(Orders(u), Since(now + 1 - MinuteWindow)))
             <= Cardinality(Where(Orders(u), Since(now - MinuteWindow)))
    BY <1>3, <2>1, WhereFewer, WhereType
  <2> QED
    BY <1>0, <1>1, <1>2, <1>3, <1>4, <2>2 DEF MinuteCapped
<1> QED
  BY <1>6, <1>8, <1>9

LEMMA MinuteStep == MinuteInv /\ [Next]_vars => MinuteInv'
<1> SUFFICES ASSUME MinuteInv, [Next]_vars, NEW u \in Users
             PROVE  LogPast(u)' /\ MinuteCounted(u)' /\ MinuteCapped(u)'
  BY TypeStep DEF MinuteInv
<1>0. TypeOK /\ LogPast(u) /\ MinuteCounted(u) /\ MinuteCapped(u)
  BY DEF MinuteInv
<1>1. ASSUME NEW p \in Procs, Step(p)
      PROVE  LogPast(u)' /\ MinuteCounted(u)' /\ MinuteCapped(u)'
  <2>1. CASE User(req[p]) = u /\ Broker(p)
    BY <1>1, <2>1, MinuteBroker
  <2>2. CASE User(req[p]) = u /\ RecordOrder(p)
    BY <1>1, <2>2, MinuteRecord
  <2>3. CASE User(req[p]) = u /\ checkRateLimit(p)
    BY <1>1, <2>3, MinuteCheck
  <2> QED
    BY <1>1, <2>1, <2>2, <2>3, MinuteOther
<1>2. CASE Admin \/ UNCHANGED vars
  <2>1. UNCHANGED <<now, pc, req, log>> /\ Orders(u)' = Orders(u)
    <3>1. UNCHANGED vars => UNCHANGED <<now, pc, req, log, tracker>>
      BY DEF vars, counters, locals, history
    <3> QED
      BY <1>0, <1>2, <3>1, AdminWrites, Unwritten
  <2>2. \A L : At(u, L)' = At(u, L)
    BY <2>1 DEF At, User
  <2>3. /\ Cardinality(At(u, Accounting)') >= Cardinality(At(u, Accounting))
        /\ Cardinality(At(u, PastMinute)') <= Cardinality(At(u, PastMinute))
    <3>1. \A L : Cardinality(At(u, L)) \in Nat
      BY AtCardinality
    <3> QED
      BY <2>2, <3>1
  <2> QED
    BY <1>0, <2>1, <2>3, MinuteStill
<1> QED
  BY <1>1, <1>2, MinuteTick DEF Next, Rest

\* checkRateLimit and RecordOrder are two sections with the broker in between:
\* at most K - 1 orders beyond MaxOrdersPerMinute are acknowledged within any
\* minute, for any requests, any number K of goroutines and any window.
THEOREM MinuteRateHolds == Spec => []MinuteRateCap
<1>1. MinuteInv => MinuteRateCap
  <2> SUFFICES ASSUME MinuteInv, NEW u \in Users
               PROVE  Cardinality({i \in DOMAIN log[u] : log[u][i].at >= now - MinuteWindow})
                        <= MaxOrdersPerMinute + K - 1
    BY DEF MinuteRateCap
  <2>0. TypeOK /\ MinuteCounted(u) /\ MinuteCapped(u)
    BY DEF MinuteInv
  <2> PICK c \in Int : c = now - MinuteWindow /\ c <= now
    BY <2>0, MinuteType
  <2>1. log[u] \in Seq(Acknowledged) /\ Orders(u) \in Seq(Nat) /\ MaxOrdersPerMinute \in Nat
    BY <2>0, MinuteType
  <2>2. {i \in DOMAIN log[u] : log[u][i].at >= now - MinuteWindow} = Where(log[u], LoggedSince(c))
    <3> PICK s \in Seq(Acknowledged) : s = log[u]
      BY <2>1
    <3>1. \A i \in DOMAIN s : s[i] \in Acknowledged
      OBVIOUS
    <3> QED
      BY <3>1 DEF Where, LoggedSince
  <2>3. Cardinality(Where(log[u], LoggedSince(c)))
          <= Cardinality(Where(Orders(u), Since(c))) + Cardinality(At(u, Accounting))
    BY <2>0 DEF MinuteCounted
  <2>4. Cardinality(Where(Orders(u), Since(c))) + Cardinality(At(u, PastMinute))
          <= MaxOrdersPerMinute - 1 + K
    BY <2>0 DEF MinuteCapped
  <2>5. At(u, Accounting) \subseteq At(u, PastMinute)
    BY StretchesKnown DEF At
  <2>6. /\ Cardinality(At(u, Accounting)) <= Cardinality(At(u, PastMinute))
        /\ Cardinality(At(u, Accounting)) \in Nat /\ Cardinality(At(u, PastMinute)) \in Nat
        /\ K \in Nat
    BY <2>5, AtCardinality, SmallerSet
  <2>7. /\ Cardinality(Where(Orders(u), Since(c))) \in Nat
        /\ Cardinality(Where(log[u], LoggedSince(c))) \in Nat
    BY <2>1, WhereType
  <2>8. Cardinality(Where(log[u], LoggedSince(c))) <= MaxOrdersPerMinute + K - 1
    BY <2>1, <2>3, <2>4, <2>6, <2>7
  <2> QED
    BY <2>2, <2>8, Zenon
<1> QED
  BY <1>1, MinuteInit, MinuteStep, PTL DEF Spec

----------------------------------------------------------------------------
(* The duplicate window, signature by signature, along the same argument.  *)

DupCounted(u, s) ==
  \A c \in Int :
    now - DuplicateWindow <= c /\ c <= now =>
      Cardinality(Where(log[u], LikeSince(s, c)))
        <= Cardinality(Where(Params(u), PlacedSince(s, c))) + Cardinality(Like(u, s, Accounting))
DupCapped(u, s) ==
  Cardinality(Where(Params(u), PlacedSince(s, now - DuplicateWindow)))
    + Cardinality(Like(u, s, PastParams)) <= K
DupInv ==
  /\ MinuteInv
  /\ DuplicateWindow > 0 =>
       \A u \in Users : \A s \in {r.sig : r \in Requests} : DupCounted(u, s) /\ DupCapped(u, s)

LEMMA DupType ==
  ASSUME TypeOK, NEW u \in Users, NEW s
  PROVE  /\ log[u] \in Seq(Acknowledged) /\ Params(u) \in Seq(Placed)
         /\ now \in Nat /\ DuplicateWindow \in Nat /\ now - DuplicateWindow \in Int /\ K \in Nat
         /\ \A c : /\ Cardinality(Where(log[u], LikeSince(s, c))) \in Nat
                   /\ Cardinality(Where(Params(u), PlacedSince(s, c))) \in Nat
         /\ \A L : /\ Cardinality(Like(u, s, L)) \in Nat /\ Cardinality(Like(u, s, L)') \in Nat
                   /\ Cardinality(Like(u, s, L)') <= K /\ Cardinality(Like(u, s, L)) <= K
<1>1. /\ log[u] \in Seq(Acknowledged) /\ Params(u) \in Seq(Placed)
      /\ now \in Nat /\ DuplicateWindow \in Nat
  BY MinuteType
<1>2. now - DuplicateWindow \in Int
  BY <1>1
<1>3. \A c : /\ Cardinality(Where(log[u], LikeSince(s, c))) \in Nat
             /\ Cardinality(Where(Params(u), PlacedSince(s, c))) \in Nat
  BY <1>1, WhereType
<1> QED
  BY <1>1, <1>2, <1>3, LikeFinite

LEMMA DupInit == Init => DupInv
<1> SUFFICES ASSUME Init, NEW u \in Users, NEW s PROVE DupCounted(u, s) /\ DupCapped(u, s)
  BY MinuteInit DEF DupInv
<1>1. log[u] = <<>> /\ Params(u) = <<>>
  BY DEF Init, Params, getOrCreateTracker, Fresh
<1>2. \A W : Where(log[u], W) = {} /\ Where(Params(u), W) = {}
  BY <1>1 DEF Where
<1>3. Like(u, s, PastParams) = {}
  BY StretchesKnown DEF Init, Like, At
<1>4. Cardinality(Like(u, s, Accounting)) \in Nat /\ K \in Nat
  BY LikeFinite
<1>5. Cardinality({}) = 0
  BY FS_EmptySet
<1>6. DupCounted(u, s)
  <2>1. \A c : /\ Cardinality(Where(log[u], LikeSince(s, c))) = 0
               /\ Cardinality(Where(Params(u), PlacedSince(s, c))) = 0
    BY <1>2, <1>5
  <2> QED
    BY <1>4, <2>1 DEF DupCounted
<1>7. DupCapped(u, s)
  BY <1>2, <1>3, <1>4, <1>5 DEF DupCapped
<1> QED
  BY <1>6, <1>7

\* A step that writes neither the log nor the window for a signature, or grows
\* neither, keeps both facts if it adds to the calls that are accounting and
\* takes from those past the check.
LEMMA DupStill ==
  ASSUME NEW u \in Users, NEW s, TypeOK, DupCounted(u, s), DupCapped(u, s), now' = now,
         \A c : Cardinality(Where(log'[u], LikeSince(s, c))) = Cardinality(Where(log[u], LikeSince(s, c))),
         \A c \in Int : now - DuplicateWindow <= c =>
           Cardinality(Where(Params(u)', PlacedSince(s, c)))
             = Cardinality(Where(Params(u), PlacedSince(s, c))),
         Cardinality(Like(u, s, Accounting)') >= Cardinality(Like(u, s, Accounting)),
         Cardinality(Like(u, s, PastParams)') <= Cardinality(Like(u, s, PastParams))
  PROVE  DupCounted(u, s)' /\ DupCapped(u, s)'
<1>1. /\ now \in Nat /\ DuplicateWindow \in Nat /\ now - DuplicateWindow \in Int /\ K \in Nat
      /\ \A c : /\ Cardinality(Where(log[u], LikeSince(s, c))) \in Nat
                /\ Cardinality(Where(Params(u), PlacedSince(s, c))) \in Nat
      /\ \A L : Cardinality(Like(u, s, L)) \in Nat /\ Cardinality(Like(u, s, L)') \in Nat
  BY DupType
<1>2. DupCounted(u, s)'
  <2> SUFFICES ASSUME NEW c \in Int, now - DuplicateWindow <= c, c <= now
               PROVE  Cardinality(Where(log'[u], LikeSince(s, c)))
                        <= Cardinality(Where(Params(u)', PlacedSince(s, c)))
                             + Cardinality(Like(u, s, Accounting)')
    BY DEF DupCounted
  <2>1. Cardinality(Where(log[u], LikeSince(s, c)))
          <= Cardinality(Where(Params(u), PlacedSince(s, c))) + Cardinality(Like(u, s, Accounting))
    BY DEF DupCounted
  <2>2. /\ Cardinality(Where(log'[u], LikeSince(s, c))) = Cardinality(Where(log[u], LikeSince(s, c)))
        /\ Cardinality(Where(Params(u)', PlacedSince(s, c)))
             = Cardinality(Where(Params(u), PlacedSince(s, c)))
    OBVIOUS
  <2> QED
    BY <1>1, <2>1, <2>2
<1>3. DupCapped(u, s)'
  <2>1. Cardinality(Where(Params(u)', PlacedSince(s, now - DuplicateWindow)))
          = Cardinality(Where(Params(u), PlacedSince(s, now - DuplicateWindow)))
    BY <1>1
  <2>2. Cardinality(Where(Params(u), PlacedSince(s, now - DuplicateWindow))) \in Nat
    BY <1>1
  <2> QED
    BY <1>1, <2>1, <2>2 DEF DupCapped
<1> QED
  BY <1>2, <1>3

\* How a step moves the calls of one signature.
LEMMA DupMoves ==
  ASSUME TypeOK, NEW p \in Procs, Step(p), NEW u \in Users, NEW s
  PROVE  LET mine == User(req[p]) = u /\ req[p].sig = s IN
         /\ ~(mine /\ RecordOrder(p))
              => Cardinality(Like(u, s, Accounting)') >= Cardinality(Like(u, s, Accounting))
         /\ ~(mine /\ checkDuplicateOrder(p))
              => Cardinality(Like(u, s, PastParams)') <= Cardinality(Like(u, s, PastParams))
         /\ mine /\ pc[p] \in Accounting /\ pc'[p] = "idle"
              => /\ Cardinality(Like(u, s, Accounting)') = Cardinality(Like(u, s, Accounting)) - 1
                 /\ Cardinality(Like(u, s, PastParams)') = Cardinality(Like(u, s, PastParams)) - 1
         /\ mine /\ pc[p] \notin Accounting /\ pc'[p] \in Accounting
              => Cardinality(Like(u, s, Accounting)') = Cardinality(Like(u, s, Accounting)) + 1
<1> DEFINE mine == User(req[p]) = u /\ req[p].sig = s
           A == Like(u, s, Accounting)
           B == Like(u, s, Accounting)'
           C == Like(u, s, PastParams)
           D == Like(u, s, PastParams)'
<1>1. /\ B \ {p} = A \ {p} /\ (p \in B <=> pc'[p] \in Accounting /\ mine)
      /\ (p \in A <=> pc[p] \in Accounting /\ mine)
  BY LikeMove, StretchesKnown
<1>2. /\ D \ {p} = C \ {p} /\ (p \in D <=> pc'[p] \in PastParams /\ mine)
      /\ (p \in C <=> pc[p] \in PastParams /\ mine)
  BY LikeMove, StretchesKnown
<1>3. IsFiniteSet(A) /\ IsFiniteSet(B) /\ IsFiniteSet(C) /\ IsFiniteSet(D)
  BY LikeFinite
<1>4. Doors(p)
  BY StepDoors
<1> HIDE DEF A, B, C, D, mine
<1>5. /\ Cardinality(A) \in Nat /\ Cardinality(B) \in Nat
      /\ (p \in B <=> p \in A) => Cardinality(B) = Cardinality(A)
      /\ p \in B /\ p \notin A => Cardinality(B) = Cardinality(A) + 1
      /\ p \notin B /\ p \in A => Cardinality(B) = Cardinality(A) - 1
  BY <1>1, <1>3, OneMoves
<1>6. /\ Cardinality(C) \in Nat /\ Cardinality(D) \in Nat
      /\ (p \in D <=> p \in C) => Cardinality(D) = Cardinality(C)
      /\ p \in D /\ p \notin C => Cardinality(D) = Cardinality(C) + 1
      /\ p \notin D /\ p \in C => Cardinality(D) = Cardinality(C) - 1
  BY <1>2, <1>3, OneMoves
<1>7. ~(mine /\ RecordOrder(p)) => Cardinality(B) >= Cardinality(A)
  BY <1>1, <1>4, <1>5 DEF Doors
<1>8. ~(mine /\ checkDuplicateOrder(p)) => Cardinality(D) <= Cardinality(C)
  BY <1>2, <1>4, <1>6 DEF Doors
<1>9. mine /\ pc[p] \in Accounting /\ pc'[p] = "idle"
        => Cardinality(B) = Cardinality(A) - 1 /\ Cardinality(D) = Cardinality(C) - 1
  BY <1>1, <1>2, <1>5, <1>6, StretchesKnown
<1>10. mine /\ pc[p] \notin Accounting /\ pc'[p] \in Accounting
         => Cardinality(B) = Cardinality(A) + 1
  BY <1>1, <1>5
<1> QED
  BY <1>7, <1>8, <1>9, <1>10 DEF A, B, C, D, mine

\* The order a call brings back from the broker.
LEMMA DupBroker ==
  ASSUME TypeOK, NEW p \in Procs, Step(p), Broker(p), NEW u, u = User(req[p]), NEW s,
         DupCounted(u, s), DupCapped(u, s)
  PROVE  DupCounted(u, s)' /\ DupCapped(u, s)'
<1>0. u \in Users /\ now' = now /\ tracker' = tracker
  BY BrokerWrites
<1>1. Params(u)' = Params(u)
  BY <1>0, Unwritten
<1>2. /\ log[u] \in Seq(Acknowledged) /\ now \in Nat /\ now - DuplicateWindow \in Int /\ K \in Nat
      /\ \A c : /\ Cardinality(Where(log[u], LikeSince(s, c))) \in Nat
                /\ Cardinality(Where(Params(u), PlacedSince(s, c))) \in Nat
      /\ \A L : Cardinality(Like(u, s, L)) \in Nat /\ Cardinality(Like(u, s, L)') \in Nat
  BY <1>0, DupType
<1>3. pc[p] = "broker" /\ ~RecordOrder(p) /\ ~checkDuplicateOrder(p) /\ pc[p] \notin Accounting
  BY DEF Broker, RecordOrder, checkDuplicateOrder, Accounting
<1>4. /\ Cardinality(Like(u, s, Accounting)') >= Cardinality(Like(u, s, Accounting))
      /\ Cardinality(Like(u, s, PastParams)') <= Cardinality(Like(u, s, PastParams))
  BY <1>0, <1>3, DupMoves
<1>5. CASE log'[u] = log[u]
  BY <1>0, <1>1, <1>4, <1>5, DupStill
<1>6. ASSUME pc'[p] = "stamp", NEW ack \in Acknowledged, ack.sig = req[p].sig, ack.at = now,
             log'[u] = Append(log[u], ack)
      PROVE  DupCounted(u, s)' /\ DupCapped(u, s)'
  <2>1. CASE req[p].sig # s
    <3>1. \A c : ack \notin LikeSince(s, c)
      BY <1>6, <2>1 DEF LikeSince
    <3>2. \A c : Cardinality(Where(log'[u], LikeSince(s, c))) = Cardinality(Where(log[u], LikeSince(s, c)))
      BY <1>2, <1>6, <3>1, WhereAppend
    <3> QED
      BY <1>0, <1>1, <1>4, <3>2, DupStill
  <2>2. CASE req[p].sig = s
    <3>1. Cardinality(Like(u, s, Accounting)') = Cardinality(Like(u, s, Accounting)) + 1
      <4>1. pc'[p] \in Accounting
        BY <1>6 DEF Accounting
      <4> QED
        BY <1>0, <1>3, <2>2, <4>1, DupMoves
    <3>2. DupCounted(u, s)'
      <4> SUFFICES ASSUME NEW c \in Int, now - DuplicateWindow <= c, c <= now
                   PROVE  Cardinality(Where(log'[u], LikeSince(s, c)))
                            <= Cardinality(Where(Params(u)', PlacedSince(s, c)))
                                 + Cardinality(Like(u, s, Accounting)')
        BY <1>0 DEF DupCounted
      <4>1. Cardinality(Where(log[u], LikeSince(s, c)))
              <= Cardinality(Where(Params(u), PlacedSince(s, c))) + Cardinality(Like(u, s, Accounting))
        BY DEF DupCounted
      <4>2. ack \in LikeSince(s, c)
        BY <1>6, <2>2 DEF LikeSince
      <4>3. Cardinality(Where(log'[u], LikeSince(s, c))) = Cardinality(Where(log[u], LikeSince(s, c))) + 1
        BY <1>2, <1>6, <4>2, WhereAppend
      <4> QED
        BY <1>1, <1>2, <3>1, <4>1, <4>3
    <3>3. DupCapped(u, s)'
      <4>1. Cardinality(Where(Params(u), PlacedSince(s, now - DuplicateWindow))) \in Nat
        BY <1>2
      <4> QED
        BY <1>0, <1>1, <1>2, <1>4, <4>1 DEF DupCapped
    <3> QED
      BY <3>2, <3>3
  <2> QED
    BY <2>1, <2>2
<1> QED
  BY <1>5, <1>6, BrokerWrites

\* The record of an order: out of Accounting, into the window.
LEMMA DupRecord ==
  ASSUME TypeOK, NEW p \in Procs, Step(p), RecordOrder(p), NEW u, u = User(req[p]), NEW s,
         DupCounted(u, s), DupCapped(u, s)
  PROVE  DupCounted(u, s)' /\ DupCapped(u, s)'
<1> PICK x : x = [sig |-> req[p].sig, at |-> now]
  OBVIOUS
<1>0. /\ u \in Users /\ log' = log /\ now' = now /\ pc'[p] = "idle"
      /\ Params(u)' = Append(Params(u), x)
  BY RecordWrites
<1>1. /\ Params(u) \in Seq(Placed) /\ now \in Nat /\ DuplicateWindow \in Nat
      /\ now - DuplicateWindow \in Int /\ K \in Nat
      /\ \A c : /\ Cardinality(Where(log[u], LikeSince(s, c))) \in Nat
                /\ Cardinality(Where(Params(u), PlacedSince(s, c))) \in Nat
      /\ \A L : Cardinality(Like(u, s, L)) \in Nat /\ Cardinality(Like(u, s, L)') \in Nat
  BY <1>0, DupType
<1>2. pc[p] = "record" /\ ~checkDuplicateOrder(p) /\ pc[p] \in Accounting
  BY DEF RecordOrder, checkDuplicateOrder, Accounting
<1>3. x \in Placed
  <2>1. req[p] \in Requests
    BY <1>2, CallType
  <2> QED
    BY <1>1, <2>1 DEF Placed
<1>4. CASE req[p].sig # s
  <2>1. \A c : x \notin PlacedSince(s, c)
    BY <1>4 DEF PlacedSince
  <2>2. \A c : Cardinality(Where(Params(u)', PlacedSince(s, c)))
                 = Cardinality(Where(Params(u), PlacedSince(s, c)))
    BY <1>0, <1>1, <1>3, <2>1, WhereAppend
  <2>3. /\ Cardinality(Like(u, s, Accounting)') >= Cardinality(Like(u, s, Accounting))
        /\ Cardinality(Like(u, s, PastParams)') <= Cardinality(Like(u, s, PastParams))
    BY <1>0, <1>2, <1>4, DupMoves
  <2> QED
    BY <1>0, <2>2, <2>3, DupStill
<1>5. CASE req[p].sig = s
  <2>1. /\ Cardinality(Like(u, s, Accounting)') = Cardinality(Like(u, s, Accounting)) - 1
        /\ Cardinality(Like(u, s, PastParams)') = Cardinality(Like(u, s, PastParams)) - 1
    BY <1>0, <1>2, <1>5, DupMoves
  <2>2. ASSUME NEW c \in Int, c <= now
        PROVE  Cardinality(Where(Params(u)', PlacedSince(s, c)))
                 = Cardinality(Where(Params(u), PlacedSince(s, c))) + 1
    <3>1. x \in PlacedSince(s, c)
      BY <1>1, <1>3, <1>5, <2>2 DEF PlacedSince
    <3> QED
      BY <1>0, <1>1, <1>3, <3>1, WhereAppend
  <2>3. DupCounted(u, s)'
    <3> SUFFICES ASSUME NEW c \in Int, now - DuplicateWindow <= c, c <= now
                 PROVE  Cardinality(Where(log[u], LikeSince(s, c)))
                          <= Cardinality(Where(Params(u)', PlacedSince(s, c)))
                               + Cardinality(Like(u, s, Accounting)')
      BY <1>0 DEF DupCounted
    <3>1. Cardinality(Where(log[u], LikeSince(s, c)))
            <= Cardinality(Where(Params(u), PlacedSince(s, c))) + Cardinality(Like(u, s, Accounting))
      BY DEF DupCounted
    <3> QED
      BY <1>1, <2>1, <2>2, <3>1
  <2>4. DupCapped(u, s)'
    <3>1. Cardinality(Where(Params(u)', PlacedSince(s, now - DuplicateWindow)))
            = Cardinality(Where(Params(u), PlacedSince(s, now - DuplicateWindow))) + 1
      <4>1. now - DuplicateWindow <= now
        BY <1>1
      <4> QED
        BY <1>1, <2>2, <4>1
    <3>2. Cardinality(Where(Params(u), PlacedSince(s, now - DuplicateWindow))) \in Nat
      BY <1>1
    <3> QED
      BY <1>0, <1>1, <2>1, <3>1, <3>2 DEF DupCapped
  <2> QED
    BY <2>3, <2>4
<1> QED
  BY <1>4, <1>5

\* The check: pruning changes no count, and a call that passes has found no
\* order of its signature in the window.
LEMMA DupCheck ==
  ASSUME TypeOK, NEW p \in Procs, Step(p), checkDuplicateOrder(p), DuplicateWindow > 0,
         NEW u, u = User(req[p]), NEW s, DupCounted(u, s), DupCapped(u, s)
  PROVE  DupCounted(u, s)' /\ DupCapped(u, s)'
<1>0. /\ u \in Users /\ log' = log /\ now' = now /\ Params(u)' = PruneParams(Params(u))
      /\ pc'[p] \in PastParams =>
           \A i \in DOMAIN Params(u)' : Params(u)'[i].sig # req[p].sig
  <2>1. /\ u \in Users /\ log' = log /\ now' = now /\ Params(u)' = PruneParams(Params(u))
        /\ pc'[p] \in PastParams =>
             \A i \in DOMAIN PruneParams(Params(u)) : PruneParams(Params(u))[i].sig # req[p].sig
    BY DuplicateWrites
  <2> QED
    BY <2>1
<1>1. /\ Params(u) \in Seq(Placed) /\ now \in Nat /\ DuplicateWindow \in Nat
      /\ now - DuplicateWindow \in Int /\ K \in Nat
      /\ \A L : Cardinality(Like(u, s, L)) \in Nat /\ Cardinality(Like(u, s, L)') \in Nat
                /\ Cardinality(Like(u, s, L)') <= K
  BY <1>0, DupType
<1>2. \A c \in Int : now - DuplicateWindow <= c =>
        Cardinality(Where(Params(u)', PlacedSince(s, c)))
          = Cardinality(Where(Params(u), PlacedSince(s, c)))
  BY <1>0, <1>1, PruneParamsCounts
<1>3. ~RecordOrder(p)
  BY DEF RecordOrder, checkDuplicateOrder
<1>4. Cardinality(Like(u, s, Accounting)') >= Cardinality(Like(u, s, Accounting))
  BY <1>0, <1>3, DupMoves
<1>5. CASE req[p].sig = s /\ pc'[p] \in PastParams
  <2>1. \A c : Where(Params(u)', PlacedSince(s, c)) = {}
    BY <1>0, <1>5 DEF Where, PlacedSince
  <2>2. \A c : Cardinality(Where(Params(u)', PlacedSince(s, c))) = 0
    BY <2>1, FS_EmptySet
  <2>3. DupCapped(u, s)'
    BY <1>0, <1>1, <2>2 DEF DupCapped
  <2>4. DupCounted(u, s)'
    <3> SUFFICES ASSUME NEW c \in Int, now - DuplicateWindow <= c, c <= now
                 PROVE  Cardinality(Where(log[u], LikeSince(s, c)))
                          <= Cardinality(Where(Params(u)', PlacedSince(s, c)))
                               + Cardinality(Like(u, s, Accounting)')
      BY <1>0 DEF DupCounted
    <3>1. Cardinality(Where(log[u], LikeSince(s, c)))
            <= Cardinality(Where(Params(u), PlacedSince(s, c))) + Cardinality(Like(u, s, Accounting))
      BY DEF DupCounted
    <3>2. /\ Cardinality(Where(log[u], LikeSince(s, c))) \in Nat
          /\ Cardinality(Where(Params(u), PlacedSince(s, c))) \in Nat
          /\ Cardinality(Where(Params(u)', PlacedSince(s, c)))
               = Cardinality(Where(Params(u), PlacedSince(s, c)))
      BY <1>0, <1>2, DupType
    <3> QED
      BY <1>1, <1>4, <3>1, <3>2
  <2> QED
    BY <2>3, <2>4
<1>6. CASE ~(req[p].sig = s /\ pc'[p] \in PastParams)
  <2>1. /\ Like(u, s, PastParams)' \ {p} = Like(u, s, PastParams) \ {p}
        /\ p \in Like(u, s, PastParams)' <=> pc'[p] \in PastParams /\ User(req[p]) = u /\ req[p].sig = s
        /\ p \in Like(u, s, PastParams) <=> pc[p] \in PastParams /\ User(req[p]) = u /\ req[p].sig = s
    BY LikeMove, StretchesKnown
  <2>2. Like(u, s, PastParams)' \subseteq Like(u, s, PastParams)
    BY <1>6, <2>1
  <2>3. Cardinality(Like(u, s, PastParams)') <= Cardinality(Like(u, s, PastParams))
    BY <1>0, <2>2, LikeFinite, SmallerSet
  <2> QED
    BY <1>0, <1>2, <1>4, <2>3, DupStill
<1> QED
  BY <1>5, <1>6

LEMMA DupOther ==
  ASSUME TypeOK, NEW p \in Procs, Step(p), NEW u \in Users, NEW s, DuplicateWindow > 0,
         DupCounted(u, s), DupCapped(u, s),
         User(req[p]) = u => ~(Broker(p) \/ RecordOrder(p) \/ checkDuplicateOrder(p))
  PROVE  DupCounted(u, s)' /\ DupCapped(u, s)'
<1>1. Doors(p) /\ Writes(p, u) /\ now' = now
  BY StepDoors, StepWrites DEF Doors
<1>2. log'[u] = log[u] /\ Params(u)' = Params(u)
  BY <1>1 DEF Writes
<1>3. /\ Cardinality(Like(u, s, Accounting)') >= Cardinality(Like(u, s, Accounting))
      /\ Cardinality(Like(u, s, PastParams)') <= Cardinality(Like(u, s, PastParams))
  BY DupMoves
<1> QED
  BY <1>1, <1>2, <1>3, DupStill

LEMMA DupTick ==
  ASSUME MinuteInv, Tick, NEW u \in Users, NEW s, DupCounted(u, s), DupCapped(u, s)
  PROVE  DupCounted(u, s)' /\ DupCapped(u, s)'
<1>0. TypeOK /\ LogPast(u)
  BY DEF MinuteInv
<1>1. log' = log /\ now' = now + 1 /\ UNCHANGED <<tracker, pc, req>>
  BY DEF Tick, counters, locals
<1>2. Params(u)' = Params(u) /\ \A L : Like(u, s, L)' = Like(u, s, L)
  BY <1>0, <1>1, Unwritten DEF Like, At, User
<1>3. /\ log[u] \in Seq(Acknowledged) /\ Params(u) \in Seq(Placed)
      /\ now \in Nat /\ DuplicateWindow \in Nat /\ K \in Nat
      /\ \A c : /\ Cardinality(Where(log[u], LikeSince(s, c))) \in Nat
                /\ Cardinality(Where(Params(u), PlacedSince(s, c))) \in Nat
      /\ \A L : Cardinality(Like(u, s, L)) \in Nat
  BY <1>0, DupType
<1>4. \A i \in DOMAIN log[u] : log[u][i] \in Acknowledged
  <2> PICK z \in Seq(Acknowledged) : z = log[u]
    BY <1>3
  <2> QED
    OBVIOUS
<1>5. ASSUME NEW c \in Int, now + 1 - DuplicateWindow <= c, c <= now + 1
      PROVE  Cardinality(Where(log[u], LikeSince(s, c)))
               <= Cardinality(Where(Params(u), PlacedSince(s, c))) + Cardinality(Like(u, s, Accounting))
  <2>1. Cardinality(Where(Params(u), PlacedSince(s, c))) \in Nat
    BY <1>3
  <2>2. CASE c <= now
    BY <1>3, <1>5, <2>2 DEF DupCounted
  <2>3. CASE c = now + 1
    <3>1. \A i \in DOMAIN log[u] : log[u][i] \notin LikeSince(s, c)
      BY <1>0, <1>3, <1>4, <2>3 DEF LogPast, LikeSince, Acknowledged
    <3>2. Where(log[u], LikeSince(s, c)) = {}
      BY <3>1 DEF Where
    <3>3. Cardinality(Where(log[u], LikeSince(s, c))) = 0
      BY <3>2, FS_EmptySet
    <3> QED
      BY <1>3, <2>1, <3>3
  <2> QED
    BY <1>3, <1>5, <2>2, <2>3
<1>6. DupCounted(u, s)'
  <2> SUFFICES ASSUME NEW c \in Int, now' - DuplicateWindow <= c, c <= now'
               PROVE  Cardinality(Where(log'[u], LikeSince(s, c)))
                        <= Cardinality(Where(Params(u)', PlacedSince(s, c)))
                             + Cardinality(Like(u, s, Accounting)')
    BY DEF DupCounted
  <2>1. now + 1 - DuplicateWindow <= c /\ c <= now + 1
    BY <1>1, <1>3
  <2>2. /\ log'[u] = log[u] /\ Params(u)' = Params(u)
        /\ Like(u, s, Accounting)' = Like(u, s, Accounting)
    BY <1>1, <1>2
  <2>3. Cardinality(Where(log[u], LikeSince(s, c)))
          <= Cardinality(Where(Params(u), PlacedSince(s, c))) + Cardinality(Like(u, s, Accounting))
    BY <1>5, <2>1
  <2> QED
    BY <2>2, <2>3
<1>7. DupCapped(u, s)'
  <2>1. PlacedSince(s, now + 1 - DuplicateWindow) \subseteq PlacedSince(s, now - DuplicateWindow)
    BY <1>3 DEF PlacedSince, Placed
  <2>2. Cardinality(Where(Params(u), PlacedSince(s, now + 1 - DuplicateWindow)))
          <= Cardinality(Where(Params(u), PlacedSince(s, now - DuplicateWindow)))
    BY <1>3, <2>1, WhereFewer
  <2>3. /\ Cardinality(Where(Params(u), PlacedSince(s, now + 1 - DuplicateWindow))) \in Nat
        /\ Cardinality(Where(Params(u), PlacedSince(s, now - DuplicateWindow))) \in Nat
    BY <1>3
  <2> QED
    BY <1>1, <1>2, <1>3, <2>2, <2>3 DEF DupCapped
<1> QED
  BY <1>6, <1>7

LEMMA DupStep == DupInv /\ [Next]_vars => DupInv'
<1> SUFFICES ASSUME DupInv, [Next]_vars, DuplicateWindow > 0,
                    NEW u \in Users, NEW s \in {r.sig : r \in Requests}
             PROVE  DupCounted(u, s)' /\ DupCapped(u, s)'
  BY MinuteStep DEF DupInv
<1>0. TypeOK /\ DupCounted(u, s) /\ DupCapped(u, s)
  BY DEF DupInv, MinuteInv
<1>1. ASSUME NEW p \in Procs, Step(p) PROVE DupCounted(u, s)' /\ DupCapped(u, s)'
  <2>1. CASE User(req[p]) = u /\ Broker(p)
    BY <1>0, <1>1, <2>1, DupBroker
  <2>2. CASE User(req[p]) = u /\ RecordOrder(p)
    BY <1>0, <1>1, <2>2, DupRecord
  <2>3. CASE User(req[p]) = u /\ checkDuplicateOrder(p)
    BY <1>0, <1>1, <2>3, DupCheck
  <2> QED
    BY <1>0, <1>1, <2>1, <2>2, <2>3, DupOther
<1>2. CASE Admin \/ UNCHANGED vars
  <2>1. UNCHANGED <<now, pc, req, log>> /\ Params(u)' = Params(u)
    <3>1. UNCHANGED vars => UNCHANGED <<now, pc, req, log, tracker>>
      BY DEF vars, counters, locals, history
    <3> QED
      BY <1>0, <1>2, <3>1, AdminWrites, Unwritten
  <2>2. \A L : Like(u, s, L)' = Like(u, s, L)
    BY <2>1 DEF Like, At, User
  <2>3. /\ Cardinality(Like(u, s, Accounting)') >= Cardinality(Like(u, s, Accounting))
        /\ Cardinality(Like(u, s, PastParams)') <= Cardinality(Like(u, s, PastParams))
    <3>1. \A L : Cardinality(Like(u, s, L)) \in Nat
      BY LikeFinite
    <3> QED
      BY <2>2, <3>1
  <2> QED
    BY <1>0, <2>1, <2>3, DupStill
<1> QED
  BY <1>0, <1>1, <1>2, DupTick DEF Next, Rest, DupInv

\* checkDuplicateOrder and RecordOrder are two sections with the broker in
\* between: of identical orders at most K are acknowledged within the duplicate
\* window, for any number K of goroutines and any window that is not disabled.
THEOREM DuplicatesHold == Spec => []DuplicateCap
<1>1. DupInv => DuplicateCap
  <2> SUFFICES ASSUME DupInv, DuplicateWindow > 0, NEW u \in Users, NEW r \in Requests
               PROVE  Cardinality({i \in DOMAIN log[u] : /\ log[u][i].sig = r.sig
                                                         /\ log[u][i].at >= now - DuplicateWindow}) <= K
    BY DEF DuplicateCap
  <2> PICK s : s = r.sig
    OBVIOUS
  <2>0. TypeOK /\ DupCounted(u, s) /\ DupCapped(u, s)
    BY DEF DupInv, MinuteInv
  <2>1. /\ log[u] \in Seq(Acknowledged) /\ Params(u) \in Seq(Placed)
        /\ now \in Nat /\ DuplicateWindow \in Nat /\ K \in Nat
        /\ \A c : /\ Cardinality(Where(log[u], LikeSince(s, c))) \in Nat
                  /\ Cardinality(Where(Params(u), PlacedSince(s, c))) \in Nat
    BY <2>0, DupType
  <2> PICK c \in Int : c = now - DuplicateWindow /\ c <= now
    BY <2>1
  <2>2. {i \in DOMAIN log[u] : log[u][i].sig = r.sig /\ log[u][i].at >= now - DuplicateWindow}
          = Where(log[u], LikeSince(s, c))
    <3> PICK z \in Seq(Acknowledged) : z = log[u]
      BY <2>1
    <3>1. \A i \in DOMAIN z : z[i] \in Acknowledged
      OBVIOUS
    <3> QED
      BY <3>1 DEF Where, LikeSince
  <2>3. Cardinality(Where(log[u], LikeSince(s, c)))
          <= Cardinality(Where(Params(u), PlacedSince(s, c))) + Cardinality(Like(u, s, Accounting))
    BY <2>0 DEF DupCounted
  <2>4. Cardinality(Where(Params(u), PlacedSince(s, c))) + Cardinality(Like(u, s, PastParams)) <= K
    BY <2>0 DEF DupCapped
  <2>5. Like(u, s, Accounting) \subseteq Like(u, s, PastParams)
    BY StretchesKnown DEF Like, At
  <2>6. /\ Cardinality(Like(u, s, Accounting)) <= Cardinality(Like(u, s, PastParams))
        /\ Cardinality(Like(u, s, Accounting)) \in Nat /\ Cardinality(Like(u, s, PastParams)) \in Nat
    BY <2>5, LikeFinite, SmallerSet
  <2>7. Cardinality(Where(log[u], LikeSince(s, c))) <= K
    BY <2>1, <2>3, <2>4, <2>6
  <2> QED
    BY <2>2, <2>7, Zenon
<1> QED
  BY <1>1, DupInit, DupStep, PTL DEF Spec

----------------------------------------------------------------------------
(* The circuit breaker.  Rejections are recorded in the order of the clock, *)
(* so what the pruning leaves is exactly what lies in the window.           *)

Ordered(s, m) == /\ \A i \in DOMAIN s : s[i] <= m
                 /\ \A i, j \in DOMAIN s : i <= j => s[i] <= s[j]

LEMMA OrderedAppend ==
  ASSUME NEW s \in Seq(Nat), NEW m \in Nat, Ordered(s, m)
  PROVE  Ordered(Append(s, m), m)
<1> PICK t : t = Append(s, m)
  OBVIOUS
<1>1. /\ t \in Seq(Nat) /\ Len(t) = Len(s) + 1 /\ t[Len(s) + 1] = m
      /\ \A i \in 1..Len(s) : t[i] = s[i]
  BY AppendProperties
<1> PICK n \in Nat : n = Len(s)
  OBVIOUS
<1>2. /\ DOMAIN s = 1..n /\ DOMAIN t = 1..(n + 1) /\ t[n + 1] = m
      /\ \A i \in 1..n : t[i] = s[i]
  BY <1>1
<1>3. \A i \in 1..n : s[i] <= m
  BY <1>2 DEF Ordered
<1>4. \A i, j \in 1..n : i <= j => s[i] <= s[j]
  BY <1>2 DEF Ordered
<1>5. \A i \in DOMAIN t : t[i] <= m /\ (i \in 1..n \/ i = n + 1)
  BY <1>2, <1>3
<1>6. ASSUME NEW i \in DOMAIN t, NEW j \in DOMAIN t, i <= j PROVE t[i] <= t[j]
  <2>1. CASE j = n + 1
    BY <1>2, <1>5, <2>1
  <2>2. CASE j \in 1..n
    <3>1. i \in 1..n
      BY <1>2, <1>6, <2>2
    <3> QED
      BY <1>2, <1>4, <1>6, <2>2, <3>1
  <2> QED
    BY <1>5, <2>1, <2>2
<1> QED
  BY <1>5, <1>6 DEF Ordered

LEMMA OrderedDrop ==
  ASSUME NEW s \in Seq(Nat), NEW n \in 0..Len(s), NEW m \in Nat, Ordered(s, m)
  PROVE  Ordered(Drop(s, n), m)
<1> PICK r : r = Drop(s, n)
  OBVIOUS
<1> PICK T : s \in Seq(T)
  OBVIOUS
<1>1. /\ r \in Seq(T) /\ Len(r) = Len(s) - n
      /\ \A j \in DOMAIN r : j + n \in DOMAIN s /\ r[j] = s[j + n]
  BY Dropped DEF Drop
<1>2. n \in Int /\ DOMAIN r \subseteq Int
  BY <1>1
<1>3. \A i \in DOMAIN r : r[i] <= m
  BY <1>1 DEF Ordered
<1>4. ASSUME NEW i \in DOMAIN r, NEW j \in DOMAIN r, i <= j PROVE r[i] <= r[j]
  <2>1. i + n <= j + n
    BY <1>2, <1>4
  <2>2. /\ i + n \in DOMAIN s /\ r[i] = s[i + n]
        /\ j + n \in DOMAIN s /\ r[j] = s[j + n]
    BY <1>1
  <2>3. s[i + n] <= s[j + n]
    BY <2>1, <2>2 DEF Ordered
  <2> QED
    BY <2>2, <2>3
<1> QED
  BY <1>3, <1>4 DEF Ordered

LEMMA PruneDrops ==
  ASSUME TypeOK, NEW times \in Seq(Nat), NEW window \in Nat
  PROVE  \E n \in 0..Len(times) :
           /\ Prune(times, window) = Drop(times, n)
           /\ n < Len(times) => times[n + 1] >= now - window
<1>1. now - window \in Int
  BY DEF TypeOK
<1> PICK n : n = AgedPrefix(times, now - window)
  OBVIOUS
<1>2. n \in 0..Len(times) /\ (n < Len(times) => times[n + 1] >= now - window)
  BY <1>1, AgedPrefixIs
<1> QED
  BY <1>2 DEF Prune, Drop

\* In an ordered window nothing that the pruning leaves has aged.
LEMMA PruneExact ==
  ASSUME TypeOK, NEW times \in Seq(Nat), NEW window \in Nat, Ordered(times, now)
  PROVE  Cardinality(Where(times, Since(now - window))) = Len(Prune(times, window))
<1> PICK c \in Int : c = now - window
  BY DEF TypeOK
<1> PICK n \in 0..Len(times) : /\ Prune(times, window) = Drop(times, n)
                               /\ n < Len(times) => times[n + 1] >= c
  BY PruneDrops
<1> PICK T : times \in Seq(T) /\ T = Nat
  OBVIOUS
<1> PICK r : r = Prune(times, window)
  OBVIOUS
<1>1. /\ r \in Seq(T) /\ Len(r) = Len(times) - n
      /\ \A j \in DOMAIN r : j + n \in DOMAIN times /\ r[j] = times[j + n]
  BY Dropped DEF Drop
<1>2. /\ DOMAIN r = 1..Len(r) /\ Len(r) \in Nat /\ DOMAIN times = 1..Len(times)
      /\ \A j \in DOMAIN r : r[j] \in Nat
  BY <1>1
<1>3. ASSUME NEW j \in DOMAIN r PROVE r[j] \in Since(c)
  <2>1. /\ j \in Int /\ 1 <= j /\ n \in Int /\ n + 1 <= j + n /\ n < Len(times)
        /\ n + 1 \in DOMAIN times
    <3> PICK m \in Nat : m = Len(times)
      OBVIOUS
    <3>0. DOMAIN times = 1..m
      BY <1>2, Zenon
    <3>1. n \in 0..m /\ DOMAIN r = 1..(m - n)
      <4>1. DOMAIN r = 1..(m - n)
        BY <1>1, <1>2, Zenon
      <4> QED
        BY <4>1
    <3>2. j \in 1..(m - n)
      BY <3>1
    <3>3. j \in Int /\ 1 <= j /\ n \in Int /\ n + 1 <= j + n /\ n < m /\ n + 1 \in 1..m
      BY <3>1, <3>2
    <3> QED
      BY <3>0, <3>3
  <2>2. times[n + 1] <= times[j + n] /\ r[j] = times[j + n]
    BY <1>1, <2>1 DEF Ordered
  <2>3. times[n + 1] \in Nat /\ times[n + 1] >= c
    BY <2>1
  <2>4. r[j] \in Nat
    BY <1>2
  <2> QED
    BY <2>2, <2>3, <2>4 DEF Since
<1>4. Where(r, Since(c)) = 1..Len(r)
  BY <1>2, <1>3 DEF Where
<1>5. Cardinality(Where(r, Since(c))) = Len(r)
  BY <1>2, <1>4, IntervalFinite
<1>6. Cardinality(Where(r, Since(c))) = Cardinality(Where(times, Since(c)))
  BY PruneCounts
<1> QED
  BY <1>5, <1>6

\* InWindow is a set of positions like the others.
LEMMA InWindowIs ==
  ASSUME TypeOK, NEW times \in Seq(Nat), NEW window \in Nat
  PROVE  InWindow(times, window) = Where(times, Since(now - window))
<1>1. \A i \in DOMAIN times : times[i] \in Nat
  OBVIOUS
<1> QED
  BY <1>1 DEF InWindow, Where, Since

\* BreakerSettled, user by user, tracked or not.
Settled(u) ==
  ( /\ AutoFreezeOnLimitHit
    /\ Cardinality(Where(Rejections(u), Since(now - FreezeWindow))) >= AutoFreezeThreshold
    /\ At(u, {"breaker"}) = {}
    /\ ~pardoned[u] ) => frozen[u] # "no"
BreakerInv == TypeOK /\ \A u \in Users : Settled(u) /\ Ordered(Rejections(u), now)

LEMMA BreakerType ==
  ASSUME TypeOK, NEW u \in Users
  PROVE  /\ Rejections(u) \in Seq(Nat) /\ now \in Nat /\ FreezeWindow \in Nat
         /\ now - FreezeWindow \in Int /\ AutoFreezeThreshold \in Nat \ {0}
<1>1. Rejections(u) \in Seq(Nat) /\ now \in Nat /\ FreezeWindow \in Nat
      /\ AutoFreezeThreshold \in Nat \ {0}
  BY WindowTypes, GuardAssumption DEF TypeOK
<1> QED
  BY <1>1

LEMMA BreakerInit == Init => BreakerInv
<1> SUFFICES ASSUME Init, NEW u \in Users PROVE Settled(u) /\ Ordered(Rejections(u), now)
  BY TypeInit DEF BreakerInv
<1>1. Rejections(u) = <<>>
  BY DEF Init, Rejections, getOrCreateTracker, Fresh
<1>2. \A W : Where(Rejections(u), W) = {}
  BY <1>1 DEF Where
<1>3. Cardinality({}) = 0 /\ AutoFreezeThreshold \in Nat \ {0}
  BY FS_EmptySet, GuardAssumption
<1>4. Settled(u)
  <2>1. Cardinality(Where(Rejections(u), Since(now - FreezeWindow))) = 0
    BY <1>2, <1>3
  <2> QED
    BY <1>3, <2>1 DEF Settled
<1>5. Ordered(Rejections(u), now)
  BY <1>1 DEF Ordered
<1> QED
  BY <1>4, <1>5

\* A limit rejection leaves checkAutoFreeze pending.
LEMMA BreakerRejection ==
  ASSUME BreakerInv, NEW p \in Procs, recordRejection(p), NEW u, u = User(req[p]), u \in Users
  PROVE  Settled(u)' /\ Ordered(Rejections(u), now)'
<1>0. TypeOK /\ Ordered(Rejections(u), now)
  BY DEF BreakerInv
<1>1. now' = now /\ pc'[p] = "breaker" /\ Rejections(u)' = Append(Rejections(u), now)
  BY <1>0, RejectionWrites
<1>2. p \in At(u, {"breaker"})'
  <2>1. req'[p] = req[p]
    BY DEF recordRejection, Continue, locals
  <2> QED
    BY <1>1, <2>1 DEF At, User
<1>3. Settled(u)'
  BY <1>2 DEF Settled
<1>4. Ordered(Append(Rejections(u), now), now)
  BY <1>0, BreakerType, OrderedAppend
<1> QED
  BY <1>1, <1>3, <1>4

\* checkAutoFreeze itself: with that many rejections in the window it trips,
\* unless the user is frozen already.
LEMMA BreakerTrips ==
  ASSUME BreakerInv, NEW p \in Procs, checkAutoFreeze(p), NEW u, u = User(req[p]), u \in Users
  PROVE  Settled(u)' /\ Ordered(Rejections(u), now)'
<1>0. TypeOK /\ Ordered(Rejections(u), now)
  BY DEF BreakerInv
<1>1. /\ Rejections(u) \in Seq(Nat) /\ now \in Nat /\ FreezeWindow \in Nat
      /\ now - FreezeWindow \in Int /\ AutoFreezeThreshold \in Nat \ {0}
  BY <1>0, BreakerType
<1> PICK r : r = Prune(Rejections(u), FreezeWindow)
  OBVIOUS
<1>2. /\ now' = now
      /\ \/ Rejections(u)' = Rejections(u) /\ ~AutoFreezeOnLimitHit /\ frozen'[u] = frozen[u]
         \/ /\ Rejections(u)' = r
            /\ frozen'[u] = IF trips(r, u) THEN "breaker" ELSE frozen[u]
  BY <1>0, BreakerWrites
<1>3. CASE Rejections(u)' = Rejections(u) /\ ~AutoFreezeOnLimitHit
  BY <1>0, <1>2, <1>3 DEF Settled
<1>4. CASE Rejections(u)' = r /\ frozen'[u] = IF trips(r, u) THEN "breaker" ELSE frozen[u]
  <2>1. Ordered(r, now)
    BY <1>0, <1>1, PruneDrops, OrderedDrop
  <2>2. r \in Seq(Nat)
    BY <1>1, PruneType
  <2>3. /\ Cardinality(Where(r, Since(now - FreezeWindow))) <= Len(r) /\ Len(r) \in Nat
        /\ Cardinality(Where(r, Since(now - FreezeWindow))) \in Nat
    BY <2>2, WhereType
  <2>4. ASSUME Cardinality(Where(r, Since(now - FreezeWindow))) >= AutoFreezeThreshold
        PROVE  frozen'[u] # "no"
    <3>1. Len(r) >= AutoFreezeThreshold
      BY <1>1, <2>3, <2>4
    <3> QED
      BY <1>4, <3>1 DEF trips
  <2> QED
    BY <1>2, <1>4, <2>1, <2>4 DEF Settled
<1> QED
  BY <1>2, <1>3, <1>4

\* Any other step of a goroutine.
LEMMA BreakerOther ==
  ASSUME BreakerInv, NEW p \in Procs, Step(p), NEW u \in Users,
         User(req[p]) = u => ~(recordRejection(p) \/ checkAutoFreeze(p))
  PROVE  Settled(u)' /\ Ordered(Rejections(u), now)'
<1>0. TypeOK /\ Settled(u) /\ Ordered(Rejections(u), now)
  BY DEF BreakerInv
<1>1. Doors(p) /\ Writes(p, u) /\ now' = now
  BY <1>0, StepDoors, StepWrites DEF Doors
<1>2. Rejections(u)' = Rejections(u) /\ pardoned'[u] = pardoned[u] /\ frozen'[u] = frozen[u]
  BY <1>1 DEF Writes
<1>3. /\ At(u, {"breaker"})' \ {p} = At(u, {"breaker"}) \ {p}
      /\ p \in At(u, {"breaker"}) <=> pc[p] \in {"breaker"} /\ User(req[p]) = u
  BY <1>0, CallsMove
<1>4. p \notin At(u, {"breaker"})
  BY <1>1, <1>3 DEF Doors
<1>5. At(u, {"breaker"})' = {} => At(u, {"breaker"}) = {}
  BY <1>3, <1>4
<1> QED
  BY <1>0, <1>1, <1>2, <1>5 DEF Settled

LEMMA BreakerAdmin ==
  ASSUME BreakerInv, Admin \/ UNCHANGED vars, NEW u \in Users
  PROVE  Settled(u)' /\ Ordered(Rejections(u), now)'
<1>0. TypeOK /\ Settled(u) /\ Ordered(Rejections(u), now)
  BY DEF BreakerInv
<1>1. UNCHANGED vars => UNCHANGED <<now, pc, req, tracker, frozen, pardoned>>
  BY DEF vars, counters, locals, history, freezes
<1>2. UNCHANGED <<now, pc, req>> /\ Rejections(u)' = Rejections(u)
  BY <1>0, <1>1, AdminWrites, Unwritten
<1>3. At(u, {"breaker"})' = At(u, {"breaker"})
  BY <1>2 DEF At, User
<1>4. \/ frozen'[u] = "admin" \/ pardoned'[u] = TRUE
      \/ frozen'[u] = frozen[u] /\ pardoned'[u] = pardoned[u]
  <2>1. ASSUME NEW e \in Emails, Freeze(e)
        PROVE  pardoned' = pardoned /\ (frozen'[u] = "admin" \/ frozen'[u] = frozen[u])
    BY <1>0, <2>1 DEF Freeze, TypeOK
  <2>2. ASSUME NEW e \in Emails, Unfreeze(e)
        PROVE  pardoned'[u] = TRUE \/ (frozen'[u] = frozen[u] /\ pardoned'[u] = pardoned[u])
    BY <1>0, <2>2 DEF Unfreeze, TypeOK
  <2>3. ASSUME NEW e \in Emails, GetUserStatus(e) PROVE UNCHANGED <<frozen, pardoned>>
    BY <2>3 DEF GetUserStatus, freezes
  <2>4. FreezeGlobal \/ UnfreezeGlobal => UNCHANGED <<frozen, pardoned>>
    BY DEF FreezeGlobal, UnfreezeGlobal
  <2> QED
    BY <1>1, <2>1, <2>2, <2>3, <2>4 DEF Admin
<1> QED
  BY <1>0, <1>2, <1>3, <1>4 DEF Settled

LEMMA BreakerTick ==
  ASSUME BreakerInv, Tick, NEW u \in Users
  PROVE  Settled(u)' /\ Ordered(Rejections(u), now)'
<1>0. TypeOK /\ Settled(u) /\ Ordered(Rejections(u), now)
  BY DEF BreakerInv
<1>1. now' = now + 1 /\ UNCHANGED <<tracker, pc, req, frozen, pardoned>>
  BY DEF Tick, counters, locals, freezes
<1>2. Rejections(u)' = Rejections(u) /\ At(u, {"breaker"})' = At(u, {"breaker"})
  BY <1>0, <1>1, Unwritten DEF At, User
<1>3. /\ Rejections(u) \in Seq(Nat) /\ now \in Nat /\ FreezeWindow \in Nat
      /\ now - FreezeWindow \in Int /\ AutoFreezeThreshold \in Nat \ {0}
  BY <1>0, BreakerType
<1>4. Since(now + 1 - FreezeWindow) \subseteq Since(now - FreezeWindow)
  BY <1>3 DEF Since
<1>5. /\ Cardinality(Where(Rejections(u), Since(now + 1 - FreezeWindow))) \in Nat
      /\ Cardinality(Where(Rejections(u), Since(now - FreezeWindow))) \in Nat
      /\ Cardinality(Where(Rejections(u), Since(now + 1 - FreezeWindow)))
           <= Cardinality(Where(Rejections(u), Since(now - FreezeWindow)))
  BY <1>3, <1>4, WhereFewer, WhereType
<1>6. Settled(u)'
  BY <1>0, <1>1, <1>2, <1>3, <1>5 DEF Settled
<1>7. Ordered(Rejections(u), now)'
  <2>1. \A i \in DOMAIN Rejections(u) : Rejections(u)[i] \in Nat
    <3> PICK s \in Seq(Nat) : s = Rejections(u)
      BY <1>3
    <3> QED
      OBVIOUS
  <2> QED
    BY <1>0, <1>1, <1>2, <1>3, <2>1 DEF Ordered
<1> QED
  BY <1>6, <1>7

LEMMA BreakerStep == BreakerInv /\ [Next]_vars => BreakerInv'
<1> SUFFICES ASSUME BreakerInv, [Next]_vars, NEW u \in Users
             PROVE  Settled(u)' /\ Ordered(Rejections(u), now)'
  BY TypeStep DEF BreakerInv
<1>1. ASSUME NEW p \in Procs, Step(p) PROVE Settled(u)' /\ Ordered(Rejections(u), now)'
  <2>1. CASE User(req[p]) = u /\ recordRejection(p)
    BY <2>1, BreakerRejection
  <2>2. CASE User(req[p]) = u /\ checkAutoFreeze(p)
    BY <2>2, BreakerTrips
  <2> QED
    BY <1>1, <2>1, <2>2, BreakerOther
<1> QED
  BY <1>1, BreakerAdmin, BreakerTick DEF Next, Rest

\* recordRejection and checkAutoFreeze are two sections with others in between:
\* whoever runs in between, a user with AutoFreezeThreshold limit rejections in
\* the window and no check pending is frozen, until an administrator unfreezes.
THEOREM BreakerSettles == Spec => []BreakerSettled
<1>1. BreakerInv => BreakerSettled
  <2> SUFFICES ASSUME BreakerInv, NEW u \in DOMAIN tracker, AutoFreezeOnLimitHit,
                      Cardinality(InWindow(tracker[u].rejections, FreezeWindow)) >= AutoFreezeThreshold,
                      At(u, {"breaker"}) = {}, ~pardoned[u]
               PROVE  frozen[u] # "no"
    BY DEF BreakerSettled
  <2>1. TypeOK /\ u \in Users /\ Settled(u)
    BY DEF BreakerInv, TypeOK
  <2>2. tracker[u].rejections = Rejections(u)
    BY DEF Rejections, getOrCreateTracker
  <2>3. Rejections(u) \in Seq(Nat) /\ FreezeWindow \in Nat
    BY <2>1, BreakerType
  <2>4. InWindow(Rejections(u), FreezeWindow) = Where(Rejections(u), Since(now - FreezeWindow))
    BY <2>1, <2>3, InWindowIs
  <2> QED
    BY <2>1, <2>2, <2>4 DEF Settled
<1> QED
  BY <1>1, BreakerInit, BreakerStep, PTL DEF Spec

\* The breaker freezes only a user who has AutoFreezeThreshold rejections inside
\* the window at that moment: rejections are appended in clock order and pruned
\* from the front, so the length checkAutoFreeze looks at is that number.
THEOREM BreakerIsJustified == Spec => BreakerJustified
<1>1. BreakerInv /\ [Next]_vars =>
        [\A u \in Users : frozen[u] = "no" /\ frozen'[u] = "breaker" =>
           Cardinality(InWindow(tracker[u].rejections, FreezeWindow)) >= AutoFreezeThreshold]_vars
  <2> SUFFICES ASSUME BreakerInv, [Next]_vars, NEW u \in Users,
                      frozen[u] = "no", frozen'[u] = "breaker"
               PROVE  Cardinality(InWindow(tracker[u].rejections, FreezeWindow))
                        >= AutoFreezeThreshold
    OBVIOUS
  <2>0. TypeOK /\ Ordered(Rejections(u), now)
    BY DEF BreakerInv
  <2>1. \E p \in Procs : Step(p)
    <3>1. ASSUME NEW e \in Emails, Freeze(e) \/ Unfreeze(e) \/ GetUserStatus(e)
          PROVE  frozen'[u] = frozen[u] \/ frozen'[u] \in {"admin", "no"}
      BY <2>0, <3>1 DEF Freeze, Unfreeze, GetUserStatus, freezes, TypeOK
    <3>2. FreezeGlobal \/ UnfreezeGlobal => frozen' = frozen
      BY DEF FreezeGlobal, UnfreezeGlobal
    <3>3. Admin => frozen'[u] = frozen[u] \/ frozen'[u] \in {"admin", "no"}
      BY <3>1, <3>2 DEF Admin
    <3>4. Tick \/ Rest \/ UNCHANGED vars => frozen' = frozen
      BY DEF Tick, Rest, vars, freezes
    <3> QED
      BY <3>3, <3>4 DEF Next
  <2> PICK p \in Procs : Step(p)
    BY <2>1
  <2>2. User(req[p]) = u /\ checkAutoFreeze(p)
    BY <2>0, StepWrites DEF Writes
  <2> PICK r : r = Prune(Rejections(u), FreezeWindow)
    OBVIOUS
  <2>3. trips(r, u)
    <3>1. \/ frozen'[u] = frozen[u]
          \/ frozen'[u] = IF trips(r, u) THEN "breaker" ELSE frozen[u]
      BY <2>0, <2>2, BreakerWrites
    <3> QED
      BY <3>1
  <2>4. /\ Rejections(u) \in Seq(Nat) /\ FreezeWindow \in Nat
        /\ AutoFreezeThreshold \in Nat \ {0}
    BY <2>0, BreakerType
  <2>5. Cardinality(Where(Rejections(u), Since(now - FreezeWindow))) = Len(r)
    BY <2>0, <2>4, PruneExact
  <2>6. Cardinality(Where(Rejections(u), Since(now - FreezeWindow))) >= AutoFreezeThreshold
    BY <2>3, <2>5 DEF trips
  <2>7. u \in DOMAIN tracker
    <3>1. CASE u \notin DOMAIN tracker
      <4>1. Rejections(u) = <<>>
        BY <3>1 DEF Rejections, getOrCreateTracker, Fresh
      <4>2. Where(Rejections(u), Since(now - FreezeWindow)) = {}
        BY <4>1 DEF Where
      <4>3. Cardinality(Where(Rejections(u), Since(now - FreezeWindow))) = 0
        BY <4>2, FS_EmptySet
      <4> QED
        BY <2>4, <2>6, <4>3
    <3> QED
      BY <3>1
  <2>8. tracker[u].rejections = Rejections(u)
    BY <2>7 DEF Rejections, getOrCreateTracker
  <2>9. InWindow(Rejections(u), FreezeWindow) = Where(Rejections(u), Since(now - FreezeWindow))
    BY <2>0, <2>4, InWindowIs
  <2> QED
    BY <2>6, <2>8, <2>9
<1> QED
  BY <1>1, BreakerInit, BreakerStep, PTL DEF Spec, BreakerJustified
==============================================================================
