# Verification of kite-mcp-riskguard

TLA+ specifications of the Go package `riskguard`: the gate that every order of an MCP
trading server passes before it reaches the broker. The modules are model-checked with
TLC on small instances; their safety properties and the two refinements are proved with
TLAPS for every instance.

## The system

| Part | State | Operations | Talks to |
|---|---|---|---|
| Middleware (`middleware.go`) | none | wraps a tool handler: check, call the broker, record | Guard, the wrapped handler |
| Guard and chain (`guard.go`, `check.go`) | `checks`, a slice sorted by Order | `RegisterCheck`, `CheckOrderCtx`, `safeEvaluate`, `RecordOrder` | all parts |
| Built-in checks (`internal_checks.go`) | the trackers | kill switch 100, confirmation 200, order value 300, (margin 325, circuit 350,) quantity 400, daily count 500, per second 600, per minute 700, idempotency key 800, duplicate 900, daily value 1000, (price band 1050,) anomaly 1100, off hours 1200, market hours | trackers, limits, oracles |
| Trackers (`trackers.go`) | per user: daily count and value, the day's reset, recent orders, parameters and rejections | made on demand, reset at 09:15 IST by any reader or writer, pruned by the checks | event dispatcher |
| Freezes and breaker (`lifecycle.go`) | global flag; per-user flag inside the limits | freeze and unfreeze, `recordRejection`, `checkAutoFreeze` | limits, dispatcher, notifier |
| Limits (`limits.go`) | `limits` in memory, table `risk_limits` | effective limits, upsert, migrate, load | SQLite |
| Per-second counter (`per_second.go`) | bucket per user, own mutex | `currentCount`, `increment` | clock |
| Idempotency keys (`dedup.go`) | map key to time, own mutex | `SeenOrAdd`, `Cleanup` | clock |
| Calendar (`market_hours.go`, `checkOffHours`, `maybeResetDay`) | none | wall-clock rules in IST | time zone data |
| Oracle checks (`otr_band.go`, `circuit_limit.go`, `margin_check.go`, anomaly, quantity) | the lookups that are wired, the margin switch | arithmetic on a lookup's answer | quotes, bands, margins, baseline |
| Subprocess checks (`subprocess_check.go`) | cached plugin client, closed flag | `Evaluate`, launch, discard, `Close` | go-plugin, the plugin |
| Discovery (`plugin_discovery.go`) | none | one registration per manifest row | Guard |
| Wire types, log shim, example (`checkrpc/`, `hclog_shim.go`, `examples/`) | none | copies | go-plugin |

What is hard in it: every order runs in a goroutine of its own and takes `g.mu` a dozen
times, once per check, with the broker's round trip between check and record; the daily
reset belongs to whoever looks first; freezes of three origins (administrator, breaker,
server-wide) race calls in flight; events and the plugin RPC happen outside the locks;
the process restarts and finds a table an operator edited. `PROJECT.json` lists the
hazards with their lines and the properties that cover them.

What makes each part correct:

- pipeline: caps are overshot by calls in flight only, no acknowledged order escapes the
  accounting, a freeze stops every call that begins under it;
- breaker: it freezes after enough recent rejections and for no other reason;
- chain: sorted, stable, every call judged by one snapshot, panics refuse;
- limits: a saved freeze is lost in three named ways only, and so is a policy that
  memory and rows agree on in two (see `LimitStore` below);
- keys: within the TTL exactly the first submission is new;
- calendar: a trading day is counted from 09:15 to 09:15;
- oracle checks: what is placed keeps every rule whose data stood still during the call,
  and without data nothing is refused;
- lock: every call is answered, handlers run without the lock;
- plugin client: no orphan process, no order passes without the plugin's verdict, every
  evaluation is answered, Close is final.

## Modules

| Module | Models | Notes |
|---|---|---|
| `Guard` | the pipeline | one action per critical section; the core |
| `MCGuard` | instances of it | one user under two spellings, request sets per question |
| `GuardProofs` | theorems about `Guard` | types, freezes, the day's count, idempotency keys |
| `GuardWindowProofs` | more of them | the day's value, the minute, duplicates, the breaker |
| `GuardLock` | who holds `g.mu`; the kill switch's events | lock and unlock are steps of their own, bodies may panic, events are dispatched after unlock |
| `GuardLockProofs` | theorems about `GuardLock` | |
| `LimitStore`, `MCLimitStore` | limits in memory and in the table | failures, migration, restarts; a load is a query and a later merge |
| `LimitStoreProofs` | theorems about `LimitStore` | |
| `PriorityChecks` | what the chain promises | abstract: a set of prioritised checks |
| `CheckChain`, `MCCheckChain` | the sorted slice, snapshots, discovery | implements `PriorityChecks` |
| `CheckChainProofs` | theorems about `CheckChain` | |
| `Idempotency` | what keys promise | abstract |
| `Dedup` | the map of keys | implements `Idempotency` |
| `DedupProofs` | theorems about `Dedup` | |
| `Calendar` | reset boundary, night hours, session | minutes of IST |
| `OracleChecks` | margin, circuit, freeze quantity, OTR band, anomaly | one order at a time; lookups wired, unwired and fed between its checks |
| `MCMarket` | instances of `Calendar` and `OracleChecks` | they share no variable: a behaviour is a scene of one of them |
| `MarketProofs` | theorems about `Calendar` and `OracleChecks` | |
| `Subprocess` | the shared plugin client, the reply to a call, the example plugin | launch under the lock, RPC without it |
| `SubprocessProofs` | theorems about `Subprocess` | |

`Guard` composes the middleware, the chain's built-in part, trackers, counter, keys,
freezes and breaker in one state; the other modules each take one aspect that `Guard`
abstracts (sections as steps, the caps as constants, the chain as fixed, the calendar
as a set of instants) and open it. `Calendar`'s `StaleIsBoundaryPassed` justifies
`Guard`'s reset test; `CheckChain`'s snapshot its fixed chain; `OracleChecks` opens the
verdicts of `CheckMarket` and `CheckRequest` that `Guard` chooses from `Lookups`.

### How the other modules correspond to the code

- `OracleChecks`: `Submit` is a call that reaches the first oracle check, `EvaluateNext`
  one check of the chain with its own read of its lookup, `Answer` the end of the call.
  `SetLookup`, `SetMarginCheckEnabled` are the setters of `limits.go` that take `g.mu` and
  may run at any time; those without a lock (`SetFreezeQuantityLookup`,
  `SetBaselineProvider`) are taken to run while no order is in the chain. `Feed` is the world outside.
  Prices are whole rupees; the OTR band multiplies floats, so a price at the very edge
  may go either way, and a negative quantity is a quantity the code can be given.
- `LimitStore`: `InitTable`, `QueryLimits`, `MergeLimits` are the start of a server, the
  last two also a load while it serves; a `MergeLimits` may stop at any row, a table that
  was not migrated cannot be queried, and the server comes up all the same. `origin` and
  `promise` are history: the row a user's record is from ("unread" before any, "stale" if
  the row has changed between query and merge) and his last decision that was saved.
  The code loses a saved freeze in three ways, which `FreezeDurable` names: no load since
  the start has reached the user's rows (`NotReached`: `limits.go:308`, `:319`); of two rows
  that differ in spelling the other one was read last (`Misspelt`: `:337`); the load had
  queried before the freeze and merged after it (stale: `:306`). And it loses a policy in
  two, which `PolicyKept` names: an operator edits the row, which memory does not see and
  the user's next freeze overwrites; or a start does not read the user
  (`ComesUpWithout`), who is then served by the defaults, and whose next freeze writes
  a record without caps over his row.
- `Subprocess`: `Arrive`, `Evaluate`, the launch steps, `Judge` (the example plugin),
  `PluginError` (the plugin answers with an error: `discardClient`, though the process is
  healthy), `CallError` (the transport broke). An order is of one of four kinds: allowed,
  blocked, one the plugin panics on, one it answers with an error.

### How Guard corresponds to the code

A goroutine's `pc` names its next critical section, in chain order: `global`, `kill`,
`request`, `daily`, `second`, `rate`, `minute`, `key`, `params`, `value`, `market`, `broker`,
`stamp`, `bump`, `record`, and `reject`, `breaker` for a rejected call. `tracker` is
`g.trackers`, filled on demand as by `getOrCreateTracker`; `perSec` and `seen` are the
maps of the counter and the keys; `frozen` is `TradingFrozen` with its author;
`barrier`, `sent`, `log`, `afterFreeze` and `pardoned` are history variables, read by
properties only; `stamp` is the clock a goroutine read before it enters the per-second
counter's mutex (at `second` for the check, entered at `rate`; at `stamp` for the bump,
entered at `bump`) and, in between, for the acceptance of its key. `Lookups` and `Replies` are what the environment may answer. Checks without shared state run in one step with their neighbours,
their oracles' answers chosen from `Lookups`: `pass`, `policy` (refused, no rejection
recorded) or `limit` (recorded). A reply of the broker is accepted, refused or lost; a
lost one may have placed the order and is recorded nowhere, as in the code.

Abstractions: a request keeps its duplicate signature, notional, key, e-mail spelling
and confirmation; notional is a natural number. Tools that place no order and calls
without an authenticated e-mail go through the middleware unchecked and touch no state,
so they are no actions. Events of the daily reset and of rejections change no state of
the guard and are in `GuardLock` only. The caps are constants: what is shown holds
between two changes of a user's caps. They change in `LoadLimits` only, at a start or
while calls are served; `LimitStore` has both. The code compares tracker times taken
from `time.Now` with `g.clock`; outside tests these are one clock, `now`.

## Runs

Expected to pass:

| Run | Shows | Bounds, and why they are enough |
|---|---|---|
| `guard_caps` | overshoot of the caps, accounting across a reset, one order per key and TTL | 2 goroutines, 5 calls, 3 instants with a 09:15 in the middle; caps of 2 and 3 are reached before and after it and overshot by exactly K - 1 = 1; a TTL of 2, so that a key is retried inside it, at its end and after it |
| `guard_freezes` | freezes, breaker and repeats against calls in flight | 2 goroutines, 4 calls, 2 administrator's calls, threshold 2; windows of 1 in 3 instants, so rejections and orders expire within the run; lost replies |
| `lock` | every call answered; one event per kill-switch transition | 2 goroutines, 2 administrators, 3 calls in all: two orders and a freeze, or an order between two freezes |
| `limit_store` | saved freezes are lost in three ways and policies in two, and no other | 2 users, one with two spellings; 2 saves, an operator's edit and 2 restarts: enough for save, fail, crash, partial load, a freeze between a load's query and its merge, and a failed start whose next freeze overwrites a row before the next start. Each of the five losses occurs: without its exception TLC finds the property violated |
| `check_chain` | stable chain, abstract verdicts | 3 host checks, 3 manifest rows, equal Orders, a rejecting and a panicking call |
| `dedup` | the map keeps the promise | 2 goroutines, 2 keys, TTL 2 of 5 seconds, sweeps, a restart |
| `market` | reset boundary against counting; orders against lookups that change | calendar: 9 days, both sides of each boundary minute. Lookups: 4 instruments (a cash symbol that ends in CE, an option, a future, none), prices on both sides and at the edge of every band, 4 quantities with a negative one, answers missing, zero and binding, and 2 changes at any points of the chain: data that goes and comes back during one call |
| `subprocess` | no orphan, no unjudged order, crashes paid for once, all answered | 2 goroutines, 4 calls with orders of all four kinds, 2 crashes or hangs, 4 launches, Close at any time |

Expected to be violated; each checks one sentence the repository says of itself:

| Run | The sentence | What the code does |
|---|---|---|
| `lock_tzdata` | missing tzdata "fail open rather than lock everyone out" (`internal_checks.go`) | `maybeResetDay` panics under `g.mu`; the rejection record then waits for the lock for ever |
| `guard_second` | "race conditions ... cannot push through an 11th order" (`per_second.go`) | a late bump replaces the newer second's bucket |
| `subprocess_crash` | "the worst case is one evaluation" (`subprocess_check.go`) | a late `discardClient` kills the relaunched, healthy plugin |
| `subprocess_close` | "Close is terminal" (`subprocess_check.go`) | an evaluation past the flag relaunches |

Sentences the code does not live up to for which a run would show one assignment only
have no run: kill-switch events may overtake each other and a second `FreezeGlobal`
replaces author, reason and time (`lifecycle.go:28-30`); an order's variety is not copied
to the plugin although all exported fields must be (`checkrpc/types.go:32`); of two checks of one name the
lower Order decides, not the last registered (`guard.go:262`); the key map is not bounded
without a sweep (`dedup.go:102`); `AllowOffHours` is no column of `risk_limits` and does
not open the market session (`internal_checks.go:317`); the RPC to a plugin has no deadline (`subprocess_check.go:33`).

Every property of a passing run has a mutant, a definition named `...Mutant` beside the
one it distorts, with which TLC finds the property violated.

Fairness is assumed in two modules. `GuardLock`: strong fairness of each goroutine's
steps, because Go's mutex hands the lock to a waiter that starved, and the goroutines
themselves are scheduled. `Subprocess`: weak fairness of each evaluation and of a Close
that has begun; a plugin that is up answers, a handshake ends by go-plugin's start
timeout. No call has to arrive, nobody has to call Close, no plugin has to fail; a hung
plugin never answers, and `Answered` excepts the evaluations of that process.

Bounds of finite instances (`MaxTime`, `MaxRequests`, `MaxCalls`, ...) are constants
tested in guards, and an action `Rest` stutters when they are used up, so that TLC still
reports every real deadlock.

## Proofs

Every invariant and every action property that a passing run checks is also a theorem of
its specification, for all values of the constants. Each proof has the same shape: an
inductive invariant that contains the property, a lemma that `Init` establishes it, one
lemma per action (or per group of actions that write the same variables) that it is kept,
and a last step in temporal logic.

### The pipeline: `GuardProofs`, `GuardWindowProofs`

From `GuardAssumption`: lower-casing is idempotent, there is at least one goroutine and
there are finitely many (K of them), caps and windows are naturals, the order caps and the
breaker's threshold are positive.

| Theorem | Property | Inductive invariant, and why the property needs it |
|---|---|---|
| `TypeCorrect` | `TypeOK` | inductive by itself; lemmas say what pruning and the tracker's constructors return |
| `BarrierHolds` | `FreezeBarrier` | `BarrierInv`: a freeze remembered in `barrier` is still in force, so the one read of each flag finds it |
| `NothingUncounted`, `DailyCapHolds` | `NoOrderUncounted`, `DailyCountCap` | `CapInv` = `Counted` and `Capped`, see below |
| `FreezeLeakHolds` | `FreezeLeak` | `LeakInv`: orders delivered under the freeze and goroutines past the flag are together at most K; nobody joins those in flight while it lasts, and a delivery takes one away |
| `KeyAcceptedOnce` | `KeyOnce` | `KeyInv`: the map remembers of every grant, in flight or in the log, one at least as late (`KeyStored`); grants are a TTL apart also while in flight (`KeysApart`), because the broker turns the one kind into the other |
| `DailyValueHolds` | `DailyValueCap` | `ValueInv`: a call past the request checks is at most `MaxSingleOrder` (`Sized`), and some priced call past the value check fits under the ceiling together with the day's value and `MaxSingleOrder` for each other one (`Fitting`) |
| `MinuteRateHolds` | `MinuteRateCap` | `MinuteInv` = `MinuteCounted` and `MinuteCapped`, see below |
| `DuplicatesHold` | `DuplicateCap` | `DupInv`: the same, signature by signature |
| `BreakerSettles`, `BreakerIsJustified` | `BreakerSettled`, `BreakerJustified` | `BreakerInv`: rejections lie in clock order (`Ordered`), so what the pruning leaves is exactly the window and its length is the number the property counts |

*The day's count.* `DailyCountCap` alone is not inductive: a goroutine past the check says
nothing about its order, and a reset between check and record moves an order into the new
day. `Counted` says that a user's orders sent today are at most the count the next reader
will find plus the goroutines that have still to record; `Capped` that this count plus the
goroutines past the daily check, whatever the day, is at most `MaxOrdersPerDay + K - 1`. A
reset can only lower that sum; the step past the check is the only one that raises it, and
there the count is below the cap and at most K - 1 others are past it.

*The minute.* An order enters the log when the broker acknowledges it and the tracker's
window when it is recorded, later and with a later stamp; entries are pruned by whoever
checks next. `MinuteCounted` therefore speaks of every cutoff inside the window: what was
logged since it is at most what the tracker recorded since it plus the calls between
broker and record. `MinuteCapped` bounds the window and the calls past the check by
`MaxOrdersPerMinute - 1 + K`. `AgedPrefixIs`, `DroppedCounts` and `PruneCounts` show that
pruning forgets nothing that such a cutoff counts; they argue by cardinalities of sets of
positions, not by induction over the sequence.

### The other components

| Theorem | Inductive invariant | Assumptions on the constants |
|---|---|---|
| `DedupProofs`: `TypeCorrect`, `FaithfulHolds`, `PromiseKept` | `Dated`: an entry carries the time its key was last taken for new, and no sweep drops one that counts. With it each step of `Dedup` is a step of `Idempotency` or a stutter | the TTL is positive |
| `CheckChainProofs`: `TypeCorrect`, `ChainStableHolds`, `NoPluginLostHolds`, `FailClosedHolds`, `PromiseKept` | the slice and every call's snapshot are sorted (`Sorted`, `SortedChains`), one check per registration (`Once`), manifest rows seen are registered or reported (`Listed`), a call has passed only checks that allow it (`Passed`), a rejection has one culprit. What insertion does to a sorted slice is a lemma (`IsInsertion`). `PromiseKept` maps the slice to the set of its elements, with which each step is one of `PriorityChecks` or a stutter | finitely many calls and host checks; the manifest is a finite sequence of rows |
| `LimitStoreProofs`: `TypeCorrect`, `FreezeDurableHolds`, `PolicyKeptHolds` (an action property) | a saved decision is in its user's row (`Saved`); a server that does not serve has no records (`ColdStart`); a result set that waits for the lock has the row of every user whose saved decision is not in memory yet (`CursorView`). `FreezeDurable` is inductive with them; `PolicyKept` follows step by step from what `Steady` says before the step | finitely many spellings, none of them "unread" or "stale"; lower-casing idempotent |
| `SubprocessProofs`: `TypeCorrect`, `NoOrphanHolds`, `FewLateLaunchesHolds`, `UnjudgedHolds`, `OneCrashOneRefusalHolds` | the cached client was launched and not killed (`ClientAlive`); launches after Close and those who may still launch are at most the goroutines (`LateBounded`); what a call sees that overlaps no other (`AloneView`); refused calls are paid by faults, and while a dead client waits for its next victim one fault is unpaid (`Paid`, `Owed`, `Doomed`) | finitely many goroutines, none of them called "none" |
| `GuardLockProofs`: `TypeCorrect`, `BalancedHolds` | administrators freeze and unfreeze only, and nobody else does (`Path`), so an event that is still to come is an administrator's | finitely many administrators, who are not order goroutines |
| `MarketProofs` on `Calendar`: `CalendarTypeCorrect`, `TradingDayCountedHolds`, `StaleIsBoundaryPassedHolds`, `PinnedInSessionHolds` | `CInv`: the next reader's count is today's orders, and the days are not over. Lemmas do the arithmetic of days, weekdays and minutes | instants are minutes of a day |
| `MarketProofs` on `OracleChecks`: `OracleTypeCorrect`, `ScreenedHolds`, `FailOpenHolds` | `OInv`: `stable` and `dark` say of now what they remember, and what was asked of a stable lookup is kept already (`KeptSoFar`) | a symbol whose suffix is an option's is an option; there is at least one instrument, price and quantity; answers have the shape of their lookup's result |

### Model-checked only

`Answered` of `GuardLock` and of `Subprocess` is liveness under fairness, out of the
prover's reach. The four sentences that are refuted (`lock_tzdata`, `guard_second`,
`subprocess_crash`, `subprocess_close`) are TLC's counterexamples, nothing to prove. That
bounds of finite instances (`MaxTime`, `MaxRequests`, ...) are naturals is assumed and
used by the type invariants; no safety proof depends on how large they are.

## Plan

Done: the modules and runs above, and the proofs of all their safety properties. What is
left:

1. A bound on the orders of one second that K goroutines do keep, larger than the one
   `guard_second` refutes; a candidate is K * cap + K(K - 1)/2. The code states none.
2. Safety facts behind `Answered` that the prover reaches: that every goroutine that waits
   for `g.mu` or `s.mu` waits for one that is inside a section and not for itself.

Not modelled: JSON views, rejection texts and the rupee formatting in them (wording);
SHA-256 of keys (taken as injective) and of plugin binaries (I/O: a checksum taken at
registration says nothing of a binary replaced later); reading `plugins.json` and
resolving its paths; gob encoding and the field copies of `checkrpc`; the log shim; the
set-up without a lock of `SetDB`, `SetClock` and their like, which a caller must not mix
with orders.
