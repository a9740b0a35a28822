------------------------------ MODULE Calendar ------------------------------
(***************************************************************************)
(* The wall clock of the guard: the daily counters' reset at 09:15 IST     *)
(* (trackers.go), the blocked night hours (internal_checks.go) and the     *)
(* market session (market_hours.go).  Time is in minutes of IST, which has *)
(* no daylight saving; minute 0 is a Monday's midnight.                    *)
(***************************************************************************)
EXTENDS Integers

CONSTANTS
  Instants,            \* minutes of the day at which something may happen
  MaxOrdersPerDay,
  MaxDays              \* bound of a finite instance

ASSUME CalendarAssumption ==
  /\ Instants \subseteq 0..1439
  /\ MaxOrdersPerDay \in Nat \ {0} /\ MaxDays \in Nat

VARIABLES
  now,
  resetAt, count,      \* the user's tracker: DayResetAt, DailyOrderCount
  optIn,               \* UserLimits.AllowOffHours
  today                \* history: orders placed since the last 09:15

vars == <<now, resetAt, count, optIn, today>>

Open  == 9 * 60 + 15   \* marketOpenIST, also the boundary of the trading day
Close == 15 * 60 + 30  \* marketCloseIST

Day(t)         == t \div 1440
Midnight(t)    == Day(t) * 1440
MinuteOfDay(t) == t % 1440
Weekday(t)     == Day(t) % 7          \* 0 on Monday
Weekend(t)     == Weekday(t) \in {5, 6}

\* 09:15 of the day, or of the day before when it is not 09:15 yet.
resetTimeMutant(t) == Midnight(t) + Open
resetTime(t) ==
  IF t < Midnight(t) + Open THEN Midnight(t) + Open - 1440 ELSE Midnight(t) + Open

Stale == resetAt < resetTime(now)

offHours(t) == MinuteOfDay(t) >= 2 * 60 /\ MinuteOfDay(t) < 6 * 60

checkOffHours(t, opted) == opted \/ ~offHours(t)

checkMarketHours(t, amo) ==
  amo \/ (~Weekend(t) /\ MinuteOfDay(t) >= Open /\ MinuteOfDay(t) < Close)

PinnedMutant(t) ==
  LET back == IF Weekend(t) THEN 1 ELSE 0
  IN Midnight(t) - back * 1440 + 10 * 60 + 30
\* PinClockToMarketHoursForTest: 10:30 on the same day, on Friday at weekends.
Pinned(t) ==
  LET back == CASE Weekday(t) = 5 -> 1 [] Weekday(t) = 6 -> 2 [] OTHER -> 0
  IN Midnight(t) - back * 1440 + 10 * 60 + 30

Init ==
  /\ now \in Instants
  /\ resetAt = now /\ count = 0
  /\ optIn \in BOOLEAN
  /\ today = 0

OrderMutant(amo) ==
  LET counted == IF Stale THEN 0 ELSE count
      placed  == counted <= MaxOrdersPerDay /\ checkMarketHours(now, amo)
  IN /\ resetAt' = IF Stale THEN now ELSE resetAt
     /\ count' = IF placed THEN counted + 1 ELSE counted
     /\ today' = IF placed THEN today + 1 ELSE today
     /\ UNCHANGED <<now, optIn>>
\* One order call at one instant: the daily check, the calendar checks, the
\* broker and the record; a call that the cap or the calendar refuses has still
\* reset the counters.
Order(amo) ==
  LET counted == IF Stale THEN 0 ELSE count
      placed  == /\ counted < MaxOrdersPerDay
                 /\ checkOffHours(now, optIn)
                 /\ checkMarketHours(now, amo)
  IN /\ resetAt' = IF Stale THEN now ELSE resetAt
     /\ count' = IF placed THEN counted + 1 ELSE counted
     /\ today' = IF placed THEN today + 1 ELSE today
     /\ UNCHANGED <<now, optIn>>

\* The next instant; a trading day begins at 09:15, weekends included.
Tick ==
  /\ \E t \in now + 1..now + 1440 :
       /\ t < MaxDays * 1440 /\ MinuteOfDay(t) \in Instants
       /\ \A s \in now + 1..t - 1 : MinuteOfDay(s) \notin Instants
       /\ now' = t
       /\ today' = IF \E s \in now + 1..t : MinuteOfDay(s) = Open THEN 0 ELSE today
  /\ UNCHANGED <<resetAt, count, optIn>>

Next == Order(TRUE) \/ Order(FALSE) \/ Tick

Spec == Init /\ [][Next]_vars

----------------------------------------------------------------------------
\* Every variable stays in its range; no reset is in the future.
TypeOK ==
  /\ now \in Nat /\ resetAt \in 0..now
  /\ count \in 0..MaxOrdersPerDay
  /\ optIn \in BOOLEAN /\ today \in Nat

\* The next reader finds the orders since the last 09:15, no more and no fewer:
\* over weekends, idle days, calls before 09:15 and trackers born at any time.
TradingDayCounted == (IF Stale THEN 0 ELSE count) = today

\* A 09:15 between the last reset and now is what makes the counters stale: the
\* form in which Guard.tla has maybeResetDay.
Boundaries == {d * 1440 + Open : d \in 0..MaxDays}
StaleIsBoundaryPassed == Stale <=> \E b \in Boundaries : resetAt < b /\ b <= now

InSession(t) == checkMarketHours(t, FALSE) /\ checkOffHours(t, FALSE)

\* Days since the last weekday, today included.
SinceWeekday(t) == IF Weekend(t) THEN Weekday(t) - 4 ELSE 0

\* The clock that tests pin is inside a session at every hour and weekday, on
\* the present day or, at a weekend, on the last weekday.
PinnedInSession ==
  /\ InSession(Pinned(now))
  /\ Midnight(now) - Midnight(Pinned(now)) = 1440 * SinceWeekday(now)
=============================================================================
