------------------------------- MODULE Guard -------------------------------
(***************************************************************************)
(* The order pipeline of riskguard: every tool call runs in a goroutine of *)
(* its own through Middleware, CheckOrderCtx and the built-in chain, then  *)
(* the wrapped broker handler, then RecordOrder.  Goroutines interleave    *)
(* with each other, with the administrator's freezes and with the clock.   *)
(*                                                                         *)
(* One action is one critical section of g.mu (or of the counter's own     *)
(* mutex).  GetEffectiveLimits takes the lock a moment before the section  *)
(* that uses its result.  The caps are constants, so that read is no step  *)
(* of its own: what is said here is said of the time between two changes   *)
(* of a user's caps, which LoadLimits makes, at a start or while calls are *)
(* served (LimitStore.tla has the caps and the loads).                     *)
(* Checks that touch no shared state run in the step of their neighbour,   *)
(* in chain order.  One unit of time is a second.                          *)
(***************************************************************************)
EXTENDS Integers, FiniteSets, Sequences

CONSTANTS
  Emails,              \* spellings of e-mail addresses callers arrive with
  Lower,               \* strings.ToLower on them: [Emails -> Emails]
  Procs,               \* goroutines serving order tools
  Requests,            \* order requests callers may send
  NoRequest, NoKey,
  MaxOrdersPerDay, MaxOrdersPerMinute, MaxOrdersPerSecond,
  MaxSingleOrder, MaxDailyValue,           \* caps on the notional
  DuplicateWindow,     \* in seconds; 0 for a negative setting, which disables it
  MinuteWindow,
  DedupTTL, FreezeWindow,
  AutoFreezeThreshold, AutoFreezeOnLimitHit,
  DayBoundaries,       \* the instants 09:15 IST on the time line
  Lookups,             \* verdicts the external oracles and plugins may give
  Replies,             \* how the wrapped handler's call to the broker ends
  MaxTime, MaxRequests, MaxAdminCalls      \* bounds of a finite instance

\* The callers' strings.ToLower(email).
User(r) == Lower[r.email]
Users == {Lower[e] : e \in Emails}

\* A request keeps what the checks tell apart: the e-mail, the duplicate
\* signature `sig' (exchange, symbol, side, quantity), the notional `value' (0
\* without a positive price, after the trigger_price fallback), the idempotency
\* key and whether the user confirmed.
ASSUME GuardAssumption ==
  /\ Lower \in [Emails -> Emails]
  /\ \A e \in Emails : Lower[Lower[e]] = Lower[e]
  /\ IsFiniteSet(Procs) /\ Procs # {}
  /\ \A r \in Requests : /\ r.email \in Emails
                         /\ r.value \in Nat
                         /\ r.confirmed \in BOOLEAN
  /\ NoRequest \notin Requests
  /\ {MaxOrdersPerDay, MaxOrdersPerMinute, MaxOrdersPerSecond,
      AutoFreezeThreshold} \subseteq Nat \ {0}
  /\ {MaxSingleOrder, MaxDailyValue, DuplicateWindow, MinuteWindow, DedupTTL,
      FreezeWindow, MaxTime, MaxRequests, MaxAdminCalls}
       \subseteq Nat
  /\ AutoFreezeOnLimitHit \in BOOLEAN
  /\ DayBoundaries \subseteq Nat
  /\ Lookups \subseteq {"pass", "policy", "limit"}
  /\ Replies \subseteq {"accepted", "refused", "lost"}

VARIABLES
  now,
  globalFrozen,        \* the server-wide freeze
  frozen,              \* per user: "no", or who froze it
  tracker,             \* g.trackers, a map filled on demand
  perSec,              \* g.perSecond.perUser
  seen,                \* g.dedup.entries
  pc, req, stamp,      \* per goroutine: where it is, its request and the
                       \* second at which it last needed the clock (or 0)
  received, adminCalls,                    \* consumed bounds
  barrier,             \* history: freezes in force since the call began
  sent,                \* history: orders the broker acknowledged today
  log,                 \* history: all of them, with the second of each and
                       \* the second its idempotency key was accepted
  afterFreeze,         \* history: orders delivered under the global freeze
  pardoned             \* history: unfrozen since the last rejection

freezes  == <<globalFrozen, frozen>>
counters == <<tracker, perSec, seen>>
locals   == <<req, stamp, barrier>>
bounds   == <<received, adminCalls>>
history  == <<sent, log, afterFreeze, pardoned>>
vars == <<now, freezes, counters, pc, locals, bounds, history>>

----------------------------------------------------------------------------
(* Where a goroutine stands: the label names its next critical section.    *)

Accounting == {"stamp", "bump", "record"}
Undelivered(labels) == labels \ Accounting
PastParams == {"value", "market", "broker"} \cup Accounting
PastMinute == {"key", "params"} \cup PastParams
PastDaily  == {"second", "rate", "minute"} \cup PastMinute
PastKill   == {"request", "daily"} \cup PastDaily
PastGlobal == {"kill"} \cup PastKill
Labels     == {"idle", "global", "reject", "breaker"} \cup PastGlobal

At(u, labels) == {p \in Procs : pc[p] \in labels /\ User(req[p]) = u}

----------------------------------------------------------------------------
(* Trackers and windows.                                                   *)

\* A definition named ...Mutant is a plausible bug in the one that follows it,
\* used by nothing else: it shows that a property would notice.
FreshMutant == [count |-> 0, value |-> 0, resetAt |-> -1,
                orders |-> <<>>, params |-> <<>>, rejections |-> <<>>]
Fresh == [count |-> 0, value |-> 0, resetAt |-> now,
          orders |-> <<>>, params |-> <<>>, rejections |-> <<>>]

getOrCreateTracker(u) == IF u \in DOMAIN tracker THEN tracker[u] ELSE Fresh

Put(map, k, v) == [j \in DOMAIN map \cup {k} |-> IF j = k THEN v ELSE map[j]]

StaleMutant(resetAt) == \E b \in DayBoundaries : b <= now
\* A 09:15 lies between the last reset and now.
Stale(resetAt) == \E b \in DayBoundaries : resetAt < b /\ b <= now

maybeResetDayMutant(t) ==
  IF Stale(t.resetAt) THEN [t EXCEPT !.count = 0, !.value = 0] ELSE t
maybeResetDay(t) ==
  IF Stale(t.resetAt)
  THEN [t EXCEPT !.count = 0, !.value = 0, !.resetAt = now]
  ELSE t

\* The length of the prefix of times before the cutoff, which the loops skip.
AgedPrefix(times, cutoff) ==
  Cardinality({i \in DOMAIN times : \A j \in 1..i : times[j] < cutoff})

PruneMutant(times, window) ==
  SubSeq(times, AgedPrefix(times, now - window + 1) + 1, Len(times))
PruneMutant2(times, window) == times
Prune(times, window) ==
  SubSeq(times, AgedPrefix(times, now - window) + 1, Len(times))

PruneParamsMutant(params) ==
  SubSeq(params,
         AgedPrefix([i \in DOMAIN params |-> params[i].at], now) + 1, Len(params))
PruneParams(params) ==
  SubSeq(params,
         AgedPrefix([i \in DOMAIN params |-> params[i].at], now - DuplicateWindow) + 1,
         Len(params))

currentCount(u, second) ==
  IF u \in DOMAIN perSec /\ perSec[u].second = second THEN perSec[u].count ELSE 0

isFrozenMutant(r) == r.email \in DOMAIN frozen /\ frozen[r.email] # "no"
isFrozen(r) == User(r) \in DOMAIN frozen /\ frozen[User(r)] # "no"

exceedsDailyMutant(t, r) == t.value > MaxDailyValue
exceedsDaily(t, r) == t.value + r.value > MaxDailyValue

tripsMutant(recent, u) == Len(recent) > AutoFreezeThreshold /\ frozen[u] = "no"
trips(recent, u) == Len(recent) >= AutoFreezeThreshold /\ frozen[u] = "no"

----------------------------------------------------------------------------
Init ==
  /\ now = 0
  /\ globalFrozen = FALSE
  /\ frozen = [u \in Users |-> "no"]
  /\ tracker = <<>> /\ perSec = <<>> /\ seen = <<>>
  /\ pc = [p \in Procs |-> "idle"]
  /\ req = [p \in Procs |-> NoRequest]
  /\ stamp = [p \in Procs |-> 0]
  /\ received = 0 /\ adminCalls = 0
  /\ barrier = [p \in Procs |-> {}]
  /\ sent = [u \in Users |-> 0]
  /\ log = [u \in Users |-> <<>>]
  /\ afterFreeze = 0
  /\ pardoned = [u \in Users |-> FALSE]

Continue(p, label) ==
  /\ pc' = [pc EXCEPT ![p] = label]
  /\ UNCHANGED <<locals, bounds, now>>

\* The call answers its caller; the goroutine and its locals are gone.
Return(p) ==
  /\ pc' = [pc EXCEPT ![p] = "idle"]
  /\ req' = [req EXCEPT ![p] = NoRequest]
  /\ stamp' = [stamp EXCEPT ![p] = 0]
  /\ barrier' = [barrier EXCEPT ![p] = {}]
  /\ UNCHANGED <<bounds, now>>

\* A limit check either sends the call to recordRejection or lets it go on.
Verdict(p, rejected, label) == Continue(p, IF rejected THEN "reject" ELSE label)

\* Middleware: an authenticated call of an order tool.
Receive(p, r) ==
  /\ pc[p] = "idle"
  /\ received < MaxRequests
  /\ received' = received + 1
  /\ pc' = [pc EXCEPT ![p] = "global"]
  /\ req' = [req EXCEPT ![p] = r]
  /\ barrier' = [barrier EXCEPT ![p] =
                   {f \in {"global", "user"} :
                      IF f = "global" THEN globalFrozen ELSE frozen[User(r)] # "no"}]
  /\ UNCHANGED <<now, freezes, counters, stamp, adminCalls, history>>

CheckGlobalFreezeMutant(p) ==
  pc[p] = "global" /\ Continue(p, "kill") /\ UNCHANGED <<freezes, counters, history>>
CheckGlobalFreeze(p) ==
  /\ pc[p] = "global"
  /\ IF globalFrozen THEN Return(p) ELSE Continue(p, "kill")
  /\ UNCHANGED <<freezes, counters, history>>

checkKillSwitch(p) ==
  /\ pc[p] = "kill"
  /\ IF isFrozen(req[p]) THEN Return(p) ELSE Continue(p, "request")
  /\ UNCHANGED <<freezes, counters, history>>

\* confirmation_required, order_value, margin_check, circuit_limit and
\* quantity_limit: the request, the caps and the oracles, no shared state.
\* A policy refusal (confirmation, margin) returns without a rejection record.
CheckRequest(p) ==
  /\ pc[p] = "request"
  /\ LET r == req[p] IN
     \/ ~r.confirmed /\ Return(p)
     \/ r.confirmed /\ r.value > MaxSingleOrder /\ Continue(p, "reject")
     \/ /\ r.confirmed /\ r.value <= MaxSingleOrder
        /\ \/ "policy" \in Lookups /\ Return(p)
           \/ "limit" \in Lookups /\ Continue(p, "reject")
           \/ "pass" \in Lookups /\ Continue(p, "daily")
  /\ UNCHANGED <<freezes, counters, history>>

checkDailyOrderCount(p) ==
  /\ pc[p] = "daily"
  /\ LET u == User(req[p])
         t == maybeResetDay(getOrCreateTracker(u))
     IN /\ tracker' = Put(tracker, u, t)
        /\ Verdict(p, t.count >= MaxOrdersPerDay, "second")
  /\ UNCHANGED <<freezes, perSec, seen, history>>

\* checkPerSecondRate and recordPerSecondOrder read the clock before they take
\* the counter's mutex.
ReadClock(p) ==
  /\ pc[p] \in {"second", "stamp"}
  /\ pc' = [pc EXCEPT ![p] = IF @ = "second" THEN "rate" ELSE "bump"]
  /\ stamp' = [stamp EXCEPT ![p] = now]
  /\ UNCHANGED <<now, freezes, counters, req, barrier, bounds, history>>

checkPerSecondRate(p) ==
  /\ pc[p] = "rate"
  /\ pc' = [pc EXCEPT ![p] =
              IF currentCount(User(req[p]), stamp[p]) >= MaxOrdersPerSecond
              THEN "reject" ELSE "minute"]
  /\ stamp' = [stamp EXCEPT ![p] = 0]
  /\ UNCHANGED <<now, freezes, counters, req, barrier, bounds, history>>

checkRateLimit(p) ==
  /\ pc[p] = "minute"
  /\ LET u == User(req[p])
         t == getOrCreateTracker(u)
         recent == Prune(t.orders, MinuteWindow)
     IN /\ tracker' = Put(tracker, u, [t EXCEPT !.orders = recent])
        /\ Verdict(p, Len(recent) >= MaxOrdersPerMinute, "key")
  /\ UNCHANGED <<freezes, perSec, seen, history>>

SeenMutant(r) ==
  /\ <<User(r), r.key>> \in DOMAIN seen
  /\ now - seen[<<User(r), r.key>>] < DedupTTL - 1
\* SeenOrAdd finds an unexpired entry (Dedup.tla has the map's own life).
Seen(r) ==
  /\ <<User(r), r.key>> \in DOMAIN seen
  /\ now - seen[<<User(r), r.key>>] < DedupTTL

checkClientOrderIDDuplicate(p) ==
  /\ pc[p] = "key"
  /\ \/ req[p].key = NoKey /\ Continue(p, "params") /\ UNCHANGED seen
     \/ req[p].key # NoKey /\ Seen(req[p]) /\ Continue(p, "reject") /\ UNCHANGED seen
     \/ /\ req[p].key # NoKey /\ ~Seen(req[p])
        /\ seen' = Put(seen, <<User(req[p]), req[p].key>>, now)
        /\ stamp' = [stamp EXCEPT ![p] = now]
        /\ pc' = [pc EXCEPT ![p] = "params"]
        /\ UNCHANGED <<req, barrier, bounds, now>>
  /\ UNCHANGED <<freezes, tracker, perSec, history>>

checkDuplicateOrder(p) ==
  /\ pc[p] = "params"
  /\ LET u == User(req[p])
         t == getOrCreateTracker(u)
         recent == PruneParams(t.params)
     IN \/ DuplicateWindow = 0 /\ Continue(p, "value") /\ UNCHANGED tracker
        \/ /\ DuplicateWindow > 0
           /\ tracker' = Put(tracker, u, [t EXCEPT !.params = recent])
           /\ Verdict(p, \E i \in DOMAIN recent : recent[i].sig = req[p].sig, "value")
  /\ UNCHANGED <<freezes, perSec, seen, history>>

\* An order without a price passes; one of notional 0 may have a price and no
\* quantity, and is compared like the others.
checkDailyValue(p) ==
  /\ pc[p] = "value"
  /\ LET u == User(req[p])
         t == maybeResetDay(getOrCreateTracker(u))
     IN \/ req[p].value = 0 /\ Continue(p, "market") /\ UNCHANGED tracker
        \/ /\ tracker' = Put(tracker, u, t)
           /\ Verdict(p, exceedsDaily(t, req[p]), "market")
  /\ UNCHANGED <<freezes, perSec, seen, history>>

\* otr_band, anomaly_multiplier, off_hours, market_hours and the plugins
\* registered after them: oracles and the wall clock (Calendar.tla).
CheckMarket(p) ==
  /\ pc[p] = "market"
  /\ \/ "policy" \in Lookups /\ Return(p)
     \/ "limit" \in Lookups /\ Continue(p, "reject")
     \/ "pass" \in Lookups /\ Continue(p, "broker")
  /\ UNCHANGED <<freezes, counters, history>>

\* next(ctx, request).  A reply that is lost or an error leaves the order
\* unrecorded, whether or not it reached the broker.
Broker(p) ==
  /\ pc[p] = "broker"
  /\ \E reply \in Replies :
       /\ IF reply = "accepted" THEN Continue(p, "stamp") ELSE Return(p)
       /\ sent' = IF reply = "accepted"
                  THEN [sent EXCEPT ![User(req[p])] = @ + 1] ELSE sent
       /\ log' = IF reply = "accepted"
                 THEN [log EXCEPT ![User(req[p])] =
                         Append(@, [sig |-> req[p].sig, at |-> now,
                                    key |-> req[p].key, granted |-> stamp[p]])]
                 ELSE log
       /\ afterFreeze' = IF reply # "refused" /\ globalFrozen
                         THEN afterFreeze + 1 ELSE afterFreeze
  /\ UNCHANGED <<freezes, counters, pardoned>>

increment(p) ==
  /\ pc[p] = "bump"
  /\ LET u == User(req[p])
         same == u \in DOMAIN perSec /\ perSec[u].second = stamp[p]
     IN perSec' = Put(perSec, u, [second |-> stamp[p],
                                  count |-> IF same THEN perSec[u].count + 1 ELSE 1])
  /\ stamp' = [stamp EXCEPT ![p] = 0]
  /\ pc' = [pc EXCEPT ![p] = "record"]
  /\ UNCHANGED <<now, freezes, tracker, seen, req, barrier, bounds, history>>

RecordOrder(p) ==
  /\ pc[p] = "record"
  /\ LET u == User(req[p])
         t == maybeResetDay(getOrCreateTracker(u))
     IN tracker' = Put(tracker, u,
          [t EXCEPT !.count = @ + 1,
                    !.value = @ + req[p].value,
                    !.orders = Append(@, now),
                    !.params = Append(@, [sig |-> req[p].sig, at |-> now])])
  /\ Return(p)
  /\ UNCHANGED <<freezes, perSec, seen, history>>

recordRejection(p) ==
  /\ pc[p] = "reject"
  /\ LET u == User(req[p])
         t == getOrCreateTracker(u)
     IN /\ tracker' = Put(tracker, u, [t EXCEPT !.rejections = Append(@, now)])
        /\ pardoned' = [pardoned EXCEPT ![u] = FALSE]
  /\ Continue(p, "breaker")
  /\ UNCHANGED <<freezes, perSec, seen, sent, log, afterFreeze>>

checkAutoFreeze(p) ==
  /\ pc[p] = "breaker"
  /\ LET u == User(req[p])
         t == getOrCreateTracker(u)
         recent == Prune(t.rejections, FreezeWindow)
     IN \/ ~AutoFreezeOnLimitHit /\ UNCHANGED <<tracker, frozen>>
        \/ /\ AutoFreezeOnLimitHit
           /\ tracker' = Put(tracker, u, [t EXCEPT !.rejections = recent])
           /\ frozen' = IF trips(recent, u) THEN [frozen EXCEPT ![u] = "breaker"] ELSE frozen
  /\ Return(p)
  /\ UNCHANGED <<globalFrozen, perSec, seen, history>>

----------------------------------------------------------------------------
(* The administrator, readers of a user's status, and the clock.           *)

AdminCall ==
  /\ adminCalls < MaxAdminCalls
  /\ adminCalls' = adminCalls + 1
  /\ UNCHANGED <<now, pc, req, stamp, received, sent, log>>

Freeze(e) ==
  /\ AdminCall
  /\ frozen' = [frozen EXCEPT ![Lower[e]] = "admin"]
  /\ UNCHANGED <<globalFrozen, counters, barrier, afterFreeze, pardoned>>

Unfreeze(e) ==
  /\ AdminCall
  /\ frozen' = [frozen EXCEPT ![Lower[e]] = "no"]
  /\ barrier' = [p \in Procs |-> IF pc[p] # "idle" /\ User(req[p]) = Lower[e]
                                 THEN barrier[p] \ {"user"} ELSE barrier[p]]
  /\ pardoned' = [pardoned EXCEPT ![Lower[e]] = TRUE]
  /\ UNCHANGED <<globalFrozen, counters, afterFreeze>>

FreezeGlobal ==
  /\ AdminCall
  /\ globalFrozen' = TRUE
  /\ afterFreeze' = IF globalFrozen THEN afterFreeze ELSE 0
  /\ UNCHANGED <<frozen, counters, barrier, pardoned>>

UnfreezeGlobal ==
  /\ AdminCall
  /\ globalFrozen' = FALSE
  /\ barrier' = [p \in Procs |-> barrier[p] \ {"global"}]
  /\ UNCHANGED <<frozen, counters, afterFreeze, pardoned>>

GetUserStatus(e) ==
  /\ AdminCall
  /\ tracker' = Put(tracker, Lower[e], maybeResetDay(getOrCreateTracker(Lower[e])))
  /\ UNCHANGED <<freezes, perSec, seen, barrier, afterFreeze, pardoned>>

Tick ==
  /\ now < MaxTime
  /\ now' = now + 1
  /\ sent' = IF now + 1 \in DayBoundaries THEN [u \in Users |-> 0] ELSE sent
  /\ UNCHANGED <<freezes, counters, pc, locals, bounds, log, afterFreeze, pardoned>>

Step(p) ==
  \/ \E r \in Requests : Receive(p, r)
  \/ CheckGlobalFreeze(p) \/ checkKillSwitch(p) \/ CheckRequest(p)
  \/ checkDailyOrderCount(p) \/ checkPerSecondRate(p) \/ checkRateLimit(p)
  \/ checkClientOrderIDDuplicate(p) \/ checkDuplicateOrder(p)
  \/ checkDailyValue(p) \/ CheckMarket(p)
  \/ Broker(p) \/ ReadClock(p) \/ increment(p) \/ RecordOrder(p)
  \/ recordRejection(p) \/ checkAutoFreeze(p)

Admin ==
  \/ \E e \in Emails : Freeze(e) \/ Unfreeze(e) \/ GetUserStatus(e)
  \/ FreezeGlobal \/ UnfreezeGlobal

\* A finite instance has used up its bounds: nothing is left to do.
Rest ==
  /\ now = MaxTime /\ received = MaxRequests
  /\ \A p \in Procs : pc[p] = "idle"
  /\ UNCHANGED vars

Next == (\E p \in Procs : Step(p)) \/ Admin \/ Tick \/ Rest

Spec == Init /\ [][Next]_vars

----------------------------------------------------------------------------
(* What the pipeline promises.  A check and the record of the order it let *)
(* through are separate critical sections with the broker's round trip in  *)
(* between, so every cap can be overshot, but only by the other calls in   *)
(* flight: K - 1 orders for K goroutines.                                  *)

K == Cardinality(Procs)

Placed == [sig : {r.sig : r \in Requests}, at : Nat]
Acknowledged == [sig : {r.sig : r \in Requests}, at : Nat,
                 key : {r.key : r \in Requests}, granted : Nat]
Tracker == [count : Nat, value : Nat, resetAt : Nat, orders : Seq(Nat),
            params : Seq(Placed), rejections : Seq(Nat)]

\* Every variable stays in its range, and a goroutine that is serving a call
\* has that call's request (guard.go, trackers.go, middleware.go).
TypeOK ==
  /\ now \in Nat
  /\ globalFrozen \in BOOLEAN
  /\ frozen \in [Users -> {"no", "admin", "breaker"}]
  /\ DOMAIN tracker \subseteq Users /\ \A u \in DOMAIN tracker : tracker[u] \in Tracker
  /\ DOMAIN perSec \subseteq Users
  /\ \A u \in DOMAIN perSec : perSec[u] \in [second : Nat, count : Nat]
  /\ \A entry \in DOMAIN seen : seen[entry] \in Nat
  /\ pc \in [Procs -> Labels]
  /\ req \in [Procs -> Requests \cup {NoRequest}]
  /\ \A p \in Procs : pc[p] # "idle" => req[p] \in Requests
  /\ stamp \in [Procs -> Nat]
  /\ received \in Nat /\ adminCalls \in Nat
  /\ barrier \in [Procs -> SUBSET {"global", "user"}]
  /\ sent \in [Users -> Nat] /\ log \in [Users -> Seq(Acknowledged)] /\ afterFreeze \in Nat
  /\ pardoned \in [Users -> BOOLEAN]

\* The day's count and value as the next reader will find them.
EffectiveCount(u) ==
  IF u \in DOMAIN tracker /\ ~Stale(tracker[u].resetAt) THEN tracker[u].count ELSE 0

EffectiveValue(u) ==
  IF u \in DOMAIN tracker /\ ~Stale(tracker[u].resetAt) THEN tracker[u].value ELSE 0

\* An order the broker acknowledged today is in the user's daily count or its
\* goroutine is on the way to record it: a racing check, reset or status read
\* never loses one (RecordOrder and maybeResetDay against each other).
NoOrderUncounted ==
  \A u \in Users : sent[u] <= EffectiveCount(u) + Cardinality(At(u, Accounting))

\* In one trading day the broker acknowledges at most K - 1 orders of a user
\* beyond MaxOrdersPerDay, whatever the interleaving (checkDailyOrderCount).
DailyCountCap == \A u \in Users : sent[u] <= MaxOrdersPerDay + K - 1

\* The recorded notional of a day passes MaxDailyValue by at most K - 1 orders
\* of the largest admitted size (checkDailyValue and checkOrderValue together).
DailyValueCap ==
  \A u \in Users : EffectiveValue(u) <= MaxDailyValue + (K - 1) * MaxSingleOrder

\* At most K - 1 orders beyond MaxOrdersPerMinute are acknowledged within any
\* minute, though each is stamped only when it is recorded and checkRateLimit
\* forgets what it prunes.
MinuteRateCap ==
  \A u \in Users :
    Cardinality({i \in DOMAIN log[u] : log[u][i].at >= now - MinuteWindow})
      <= MaxOrdersPerMinute + K - 1

\* per_second.go: the headroom of one order means that "race conditions between
\* our counter and Kite's counter cannot push through an 11th order".
BrokerSecondCap ==
  \A u \in Users :
    Cardinality({i \in DOMAIN log[u] : log[u][i].at = now}) <= MaxOrdersPerSecond + 1

\* Of identical orders at most K are acknowledged within the duplicate window:
\* those that were past checkDuplicateOrder before the first was recorded.
DuplicateCap ==
  DuplicateWindow > 0 =>
    \A u \in Users : \A r \in Requests :
      Cardinality({i \in DOMAIN log[u] : /\ log[u][i].sig = r.sig
                                        /\ log[u][i].at >= now - DuplicateWindow}) <= K

\* Two acknowledged orders of a user with one idempotency key passed the check
\* of it at least DedupTTL apart, however long each took to the broker: no
\* retry slips in between another call's check and its storing of the key.
KeyOnce ==
  \A u \in Users : \A i, j \in DOMAIN log[u] :
    i < j /\ log[u][i].key = log[u][j].key /\ log[u][i].key # NoKey =>
      \/ log[u][j].granted - log[u][i].granted >= DedupTTL
      \/ log[u][i].granted - log[u][j].granted >= DedupTTL

\* A call that began under a freeze which has not been lifted since does not
\* get past the check for it, so never reaches the broker (CheckOrderCtx reads
\* the global flag once, before the chain; checkKillSwitch the user's, once).
FreezeBarrier ==
  \A p \in Procs : /\ (pc[p] \in PastGlobal => "global" \notin barrier[p])
                    /\ (pc[p] \in PastKill => "user" \notin barrier[p])

\* From FreezeGlobal to the next UnfreezeGlobal at most K orders still reach
\* the broker: the calls that were past the flag when it was set.
FreezeLeak == globalFrozen => afterFreeze <= K

InWindow(times, window) == {i \in DOMAIN times : times[i] >= now - window}

\* With AutoFreezeThreshold limit rejections in the window, no checkAutoFreeze
\* pending and no Unfreeze since the last rejection, the user is frozen
\* (recordRejection and checkAutoFreeze are two sections, others in between).
BreakerSettled ==
  \A u \in DOMAIN tracker :
    ( /\ AutoFreezeOnLimitHit
      /\ Cardinality(InWindow(tracker[u].rejections, FreezeWindow)) >= AutoFreezeThreshold
      /\ At(u, {"breaker"}) = {}
      /\ ~pardoned[u] ) => frozen[u] # "no"

\* The breaker freezes only a user who has that many rejections inside the
\* window at that moment: older ones do not count (checkAutoFreeze prunes).
BreakerJustified ==
  [][\A u \in Users : frozen[u] = "no" /\ frozen'[u] = "breaker" =>
       Cardinality(InWindow(tracker[u].rejections, FreezeWindow)) >= AutoFreezeThreshold]_vars
=============================================================================
