------------------------------ MODULE GuardLock ------------------------------
(***************************************************************************)
(* Who holds g.mu, and when.  Guard.tla takes a critical section for one   *)
(* step; here a section is entered and left, the body can panic in between *)
(* and the event handlers and the freeze notifier, which call back into    *)
(* the guard, show where the lock must not be held.  The mutex of Go is    *)
(* not reentrant: a goroutine that locks it twice waits for itself.        *)
(*                                                                         *)
(* The server-wide freeze is here with its flag and its events, which are  *)
(* decided inside the section and dispatched after it.                     *)
(***************************************************************************)
EXTENDS Naturals, FiniteSets

CONSTANTS
  Procs,               \* goroutines serving order calls
  Admins,              \* goroutines of administrators
  Hosts,               \* whether a host has the Asia/Kolkata time zone
  MaxCalls             \* bound of a finite instance

ASSUME GuardLockAssumption ==
  /\ IsFiniteSet(Admins) /\ Procs \cap Admins = {}
  /\ "none" \notin Procs \cup Admins
  /\ Hosts \subseteq BOOLEAN /\ MaxCalls \in Nat

VARIABLES
  tzdata,              \* whether this host has the time zone
  writer,              \* the goroutine that holds g.mu, or "none"
  place, section,      \* per goroutine: how far it is with which section of g.mu
  notifying,           \* whether an autoFreezeNotifier goroutine is running
  globalFrozen,        \* the server-wide freeze
  emitted,             \* kill-switch events dispatched, of either kind
  calls                \* consumed bound

freeze == <<globalFrozen, emitted>>
vars == <<tzdata, writer, place, section, notifying, freeze, calls>>

All == Procs \cup Admins
Unlocked == writer = "none"

\* In the order of a call: checkDailyOrderCount stands for the checks that call
\* maybeResetDay, checkRateLimit for those that only read and prune a tracker.
Sections == {"daily", "rate", "record", "reject", "breaker", "freeze", "unfreeze"}

Init ==
  /\ tzdata \in Hosts
  /\ writer = "none"
  /\ place = [p \in All |-> "idle"]
  /\ section = [p \in All |-> "daily"]
  /\ notifying = FALSE
  /\ globalFrozen = FALSE /\ emitted = [trip |-> 0, lift |-> 0]
  /\ calls = 0

Go(p, where, what) ==
  /\ place' = [place EXCEPT ![p] = where]
  /\ section' = [section EXCEPT ![p] = what]

\* An order call, or an administrator's FreezeGlobal or UnfreezeGlobal.
Begin(p) ==
  /\ place[p] = "idle" /\ calls < MaxCalls
  /\ calls' = calls + 1
  /\ \/ p \in Procs /\ Go(p, "read", "daily")
     \/ p \in Admins /\ (Go(p, "wait", "freeze") \/ Go(p, "wait", "unfreeze"))
  /\ UNCHANGED <<tzdata, writer, notifying, freeze>>

\* IsGloballyFrozen, checkKillSwitch and GetEffectiveLimits take the reader lock.
Read(p) ==
  /\ place[p] = "read" /\ Unlocked
  /\ \/ ~(section[p] = "daily" /\ globalFrozen) /\ Go(p, "wait", section[p])
     \/ section[p] = "daily" /\ Go(p, "idle", "daily")
  /\ UNCHANGED <<tzdata, writer, notifying, freeze, calls>>

Lock(p) ==
  /\ place[p] = "wait" /\ Unlocked
  /\ writer' = p
  /\ Go(p, "in", section[p])
  /\ UNCHANGED <<tzdata, notifying, freeze, calls>>

\* maybeResetDay with the time zone missing: now.In(nil) panics, the section has
\* no deferred Unlock, and safeEvaluate turns the panic into a rejection that
\* CheckOrderCtx sets out to record.
Panic(p) ==
  /\ place[p] = "in" /\ section[p] = "daily" /\ ~tzdata
  /\ Go(p, "wait", "reject")
  /\ UNCHANGED <<tzdata, writer, notifying, freeze, calls>>

AfterMutant(p) ==
  CASE section[p] = "daily"   -> {<<"read", "rate">>, <<"wait", "reject">>,
                                  <<"event", "daily">>}
    [] section[p] = "rate"    -> {<<"custom", "rate">>, <<"wait", "reject">>}
    [] section[p] = "record"  -> {<<"idle", "record">>, <<"event", "record">>}
    [] section[p] = "reject"  -> {<<"event", "reject">>, <<"read", "breaker">>}
    [] section[p] = "breaker" -> {<<"idle", "breaker">>}
    [] OTHER -> {<<"event", section[p]>>}
\* Where a call goes after a section: the event, if there is one, is dispatched
\* once the lock is released.
After(p) ==
  CASE section[p] = "daily"   -> {<<"read", "rate">>, <<"wait", "reject">>,
                                  <<"event", "daily">>}
    [] section[p] = "rate"    -> {<<"custom", "rate">>, <<"wait", "reject">>}
    [] section[p] = "record"  -> {<<"idle", "record">>, <<"event", "record">>}
    [] section[p] = "reject"  -> {<<"event", "reject">>, <<"read", "breaker">>}
    [] section[p] = "breaker" -> {<<"idle", "breaker">>}
    [] section[p] = "freeze"   ->
         {<<IF globalFrozen THEN "idle" ELSE "event", "freeze">>}
    [] section[p] = "unfreeze" ->
         {<<IF globalFrozen THEN "event" ELSE "idle", "unfreeze">>}

setFlag(p) ==
  globalFrozen' = CASE section[p] = "freeze" -> TRUE
                    [] section[p] = "unfreeze" -> FALSE
                    [] OTHER -> globalFrozen

UnlockMutant(p) ==
  /\ place[p] = "in" /\ (section[p] = "daily" => tzdata)
  /\ \E to \in After(p) :
       /\ Go(p, to[1], to[2])
       /\ writer' = IF section[p] = "breaker" THEN writer ELSE "none"
  /\ notifying' \in (IF section[p] = "breaker" THEN BOOLEAN ELSE {notifying})
  /\ setFlag(p)
  /\ UNCHANGED <<tzdata, emitted, calls>>
UnlockMutant2(p) ==
  /\ place[p] = "in" /\ (section[p] = "daily" => tzdata)
  /\ \E to \in After(p) :
       /\ Go(p, to[1], to[2])
       /\ writer' = IF to[1] = "event" THEN writer ELSE "none"
  /\ notifying' \in (IF section[p] = "breaker" THEN BOOLEAN ELSE {notifying})
  /\ setFlag(p)
  /\ UNCHANGED <<tzdata, emitted, calls>>
Unlock(p) ==
  /\ place[p] = "in" /\ (section[p] = "daily" => tzdata)
  /\ writer' = "none"
  /\ \E to \in After(p) : Go(p, to[1], to[2])
  /\ notifying' \in (IF section[p] = "breaker" THEN BOOLEAN ELSE {notifying})
  /\ setFlag(p)
  /\ UNCHANGED <<tzdata, emitted, calls>>

\* dispatcher.Dispatch: the handlers run in this goroutine and may read the guard.
Dispatch(p) ==
  /\ place[p] = "event" /\ Unlocked
  /\ \/ section[p] = "daily" /\ (Go(p, "read", "rate") \/ Go(p, "wait", "reject"))
     \/ section[p] = "reject" /\ Go(p, "read", "breaker")
     \/ section[p] \in {"record", "freeze", "unfreeze"} /\ Go(p, "idle", section[p])
  /\ emitted' = CASE section[p] = "freeze" -> [emitted EXCEPT !.trip = @ + 1]
                  [] section[p] = "unfreeze" -> [emitted EXCEPT !.lift = @ + 1]
                  [] OTHER -> emitted
  /\ UNCHANGED <<tzdata, writer, notifying, globalFrozen, calls>>

\* A check registered by the host or a plugin: it allows, rejects or panics, and
\* its rejections count for the breaker or not.  A panic is recovered within the
\* check (safeEvaluate) and is from there on a rejection like its others; what
\* it means for the order is in CheckChain.tla.
CustomCheck(p) ==
  /\ place[p] = "custom"
  /\ Go(p, "broker", "record") \/ Go(p, "wait", "reject") \/ Go(p, "idle", "rate")
  /\ UNCHANGED <<tzdata, writer, notifying, freeze, calls>>

\* The wrapped handler: only an order that was placed is recorded.
Broker(p) ==
  /\ place[p] = "broker"
  /\ Go(p, "wait", "record") \/ Go(p, "idle", "record")
  /\ UNCHANGED <<tzdata, writer, notifying, freeze, calls>>

\* The notifier's goroutine, which may ask the guard for the user's status.
Notify ==
  /\ notifying /\ Unlocked
  /\ notifying' = FALSE
  /\ UNCHANGED <<tzdata, writer, place, section, freeze, calls>>

\* Nothing is left to do; without the time zone the guard does get stuck.
Rest ==
  /\ calls = MaxCalls \/ ~tzdata
  /\ \A p \in All : place[p] = "idle" \/ (~tzdata /\ ~Unlocked /\ place[p] # "in")
  /\ UNCHANGED vars

Step(p) ==
  Read(p) \/ Lock(p) \/ Panic(p) \/ Unlock(p) \/ Dispatch(p) \/ CustomCheck(p) \/ Broker(p)

Next == (\E p \in All : Begin(p) \/ Step(p)) \/ Notify \/ Rest

\* Every goroutine runs on; a mutex of Go lets no waiter starve, so a step that
\* is possible again and again is taken.
Fairness == (\A p \in All : SF_vars(Step(p))) /\ SF_vars(Notify)

Spec == Init /\ [][Next]_vars /\ Fairness

----------------------------------------------------------------------------
\* Every variable stays in its range, and the lock is held by the one goroutine
\* that is inside a section (one that panicked in it has left it with the lock).
Ranges ==
  /\ tzdata \in Hosts
  /\ writer \in All \cup {"none"}
  /\ place \in [All -> {"idle", "read", "wait", "in", "event", "custom", "broker"}]
  /\ section \in [All -> Sections]
  /\ notifying \in BOOLEAN
  /\ globalFrozen \in BOOLEAN /\ emitted \in [trip : Nat, lift : Nat]
  /\ calls \in 0..MaxCalls
OneInside ==
  /\ \A p \in All : place[p] = "in" => writer = p
  /\ tzdata /\ ~Unlocked => place[writer] = "in"
TypeOK == Ranges /\ OneInside

\* Every call is answered, whatever the other goroutines, the event handlers,
\* the notifier and panicking checks do: handlers run after the lock is released
\* (trackers.go, "handlers must never run under the riskguard mutex").
Answered == \A p \in All : tzdata /\ place[p] # "idle" ~> place[p] = "idle"

\* Counting the events dispatched and those decided and about to be, there is
\* one trip more than lifts while the server is frozen and as many otherwise,
\* however the administrators' calls interleave: no transition is without its
\* event and none has two (FreezeGlobal and UnfreezeGlobal decide under the
\* lock).  In which order the events reach the handlers is not said.
Balanced ==
  LET due(what) == Cardinality({a \in Admins : place[a] = "event" /\ section[a] = what})
  IN (emitted.trip + due("freeze")) - (emitted.lift + due("unfreeze"))
       = IF globalFrozen THEN 1 ELSE 0

\* internal_checks.go on missing time zone data: "fail open rather than lock
\* everyone out".
NobodyLockedOut == \A p \in Procs : place[p] = "wait" ~> place[p] # "wait"
=============================================================================
