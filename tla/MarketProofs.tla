----------------------------- MODULE MarketProofs -----------------------------
(***************************************************************************)
(* The calendar for any instants, cap and number of days, and the checks   *)
(* that ask the market for any instruments, orders and answers.            *)
(***************************************************************************)
EXTENDS Calendar, OracleChecks, TLAPS

\* ----- The wall clock ----------------------------------------------------
LEMMA DayAndMinute ==
  ASSUME NEW t \in Int
  PROVE  /\ Day(t) \in Int /\ MinuteOfDay(t) \in 0..1439
         /\ t = Day(t) * 1440 + MinuteOfDay(t)
<1>1. Day(t) \in Int /\ MinuteOfDay(t) \in 0..1439
  BY DEF Day, MinuteOfDay
<1>2. t - Day(t) * 1440 = MinuteOfDay(t)
  BY DEF Day, MinuteOfDay
<1> QED
  BY <1>1, <1>2

Clock(d, m) == d * 1440 + m

LEMMA DayOf ==
  ASSUME NEW d \in Int, NEW m \in Nat, m < 1440
  PROVE  Day(Clock(d, m)) = d /\ MinuteOfDay(Clock(d, m)) = m
BY DEF Day, MinuteOfDay, Clock

\* resetTime is the last 09:15 that has come.
LEMMA LastOpening ==
  ASSUME NEW t \in Int
  PROVE  /\ resetTime(t) \in Int /\ resetTime(t) <= t /\ t < resetTime(t) + 1440
         /\ MinuteOfDay(resetTime(t)) = Open
         /\ \A s \in Int : s <= t /\ MinuteOfDay(s) = Open => s <= resetTime(t)
<1> DEFINE d == Day(t)
           m == MinuteOfDay(t)
<1>1. d \in Int /\ m \in 0..1439 /\ t = d * 1440 + m
  BY DayAndMinute
<1> HIDE DEF d, m
<1>2. Midnight(t) = d * 1440
  BY DEF Midnight, d
<1>3. CASE m < Open
  <2>1. resetTime(t) = (d - 1) * 1440 + Open
    BY <1>1, <1>2, <1>3 DEF resetTime, Open
  <2>2. MinuteOfDay(resetTime(t)) = Open
    <3>1. d - 1 \in Int /\ Open \in Nat /\ Open < 1440
      BY <1>1 DEF Open
    <3>2. resetTime(t) = Clock(d - 1, Open)
      BY <2>1 DEF Clock
    <3> QED
      BY <3>1, <3>2, DayOf
  <2>3. ASSUME NEW s \in Int, s <= t, MinuteOfDay(s) = Open
        PROVE  s <= resetTime(t)
    <3>1. s = Day(s) * 1440 + Open /\ Day(s) \in Int
      BY <2>3, DayAndMinute
    <3>2. Day(s) <= d - 1
      BY <1>1, <1>3, <2>3, <3>1 DEF Open
    <3> QED
      BY <1>1, <2>1, <3>1, <3>2 DEF Open
  <2> QED
    BY <1>1, <1>3, <2>1, <2>2, <2>3 DEF Open
<1>4. CASE m >= Open
  <2>1. resetTime(t) = d * 1440 + Open
    BY <1>1, <1>2, <1>4 DEF resetTime, Open
  <2>2. MinuteOfDay(resetTime(t)) = Open
    <3>1. d \in Int /\ Open \in Nat /\ Open < 1440
      BY <1>1 DEF Open
    <3>2. resetTime(t) = Clock(d, Open)
      BY <2>1 DEF Clock
    <3> QED
      BY <3>1, <3>2, DayOf
  <2>3. ASSUME NEW s \in Int, s <= t, MinuteOfDay(s) = Open
        PROVE  s <= resetTime(t)
    <3>1. s = Day(s) * 1440 + Open /\ Day(s) \in Int
      BY <2>3, DayAndMinute
    <3>2. Day(s) <= d
      BY <1>1, <2>3, <3>1 DEF Open
    <3> QED
      BY <1>1, <2>1, <3>1, <3>2 DEF Open
  <2> QED
    BY <1>1, <1>4, <2>1, <2>2, <2>3 DEF Open
<1> QED
  BY <1>1, <1>3, <1>4 DEF Open

\* Between two instants the boundary moves exactly when a 09:15 has come.
LEMMA OpeningPassed ==
  ASSUME NEW t \in Int, NEW u \in Int, t <= u
  PROVE  /\ (\E s \in t + 1..u : MinuteOfDay(s) = Open) => t < resetTime(u)
         /\ ~(\E s \in t + 1..u : MinuteOfDay(s) = Open) => resetTime(u) = resetTime(t)
<1>1. ASSUME NEW s \in t + 1..u, MinuteOfDay(s) = Open
      PROVE  t < resetTime(u)
  BY <1>1, LastOpening
<1>2. ASSUME \A s \in t + 1..u : MinuteOfDay(s) # Open
      PROVE  resetTime(u) = resetTime(t)
  <2>1. /\ resetTime(t) \in Int /\ resetTime(t) <= t /\ MinuteOfDay(resetTime(t)) = Open
        /\ resetTime(u) \in Int /\ resetTime(u) <= u /\ MinuteOfDay(resetTime(u)) = Open
    BY LastOpening
  <2>2. resetTime(u) <= t
    BY <1>2, <2>1
  <2>3. resetTime(u) <= resetTime(t)
    BY <2>1, <2>2, LastOpening
  <2>4. resetTime(t) <= resetTime(u)
    BY <2>1, LastOpening
  <2> QED
    BY <2>1, <2>3, <2>4
<1> QED
  BY <1>1, <1>2

LEMMA WeekdayBack ==
  ASSUME NEW d \in Int
  PROVE  /\ d % 7 \in 0..6
         /\ d % 7 = 5 => (d - 1) % 7 = 4
         /\ d % 7 = 6 => (d - 2) % 7 = 4
OBVIOUS

\* The clock that tests pin is in a session whatever the instant.
LEMMA PinnedAnyTime ==
  ASSUME NEW t \in Int
  PROVE  /\ InSession(Pinned(t))
         /\ Midnight(t) - Midnight(Pinned(t)) = 1440 * SinceWeekday(t)
<1> DEFINE d == Day(t)
           w == Weekday(t)
           back == CASE w = 5 -> 1 [] w = 6 -> 2 [] OTHER -> 0
           p == Pinned(t)
<1>1. d \in Int
  BY DayAndMinute
<1>2. w = d % 7
  BY DEF Weekday
<1>3. p = d * 1440 - back * 1440 + 10 * 60 + 30
  BY DEF Pinned, Midnight
<1> HIDE DEF d, p, w
<1>4. w \in 0..6
  BY <1>1, <1>2, WeekdayBack
<1>5. back \in 0..2 /\ back = (IF w \in {5, 6} THEN w - 4 ELSE 0)
  BY <1>4
<1>6. (d - back) % 7 \in 0..4
  <2>1. CASE w = 5
    BY <1>2, <1>1, <2>1, WeekdayBack
  <2>2. CASE w = 6
    BY <1>2, <1>1, <2>2, WeekdayBack
  <2>3. CASE w \in 0..4
    <3>1. back = 0 /\ d - 0 = d
      BY <1>1, <2>3
    <3> QED
      BY <1>2, <2>3, <3>1
  <2> QED
    BY <1>4, <2>1, <2>2, <2>3
<1> HIDE DEF back
<1>7. p = (d - back) * 1440 + 630 /\ d - back \in Int
  BY <1>1, <1>3, <1>5
<1>8. Day(p) = d - back /\ MinuteOfDay(p) = 630
  <2>1. 630 \in Nat /\ 630 < 1440
    OBVIOUS
  <2>2. p = Clock(d - back, 630)
    BY <1>7 DEF Clock
  <2> QED
    BY <1>7, <2>1, <2>2, DayOf
<1>9. ~Weekend(p)
  BY <1>6, <1>8 DEF Weekend, Weekday
<1>10. InSession(p)
  BY <1>8, <1>9 DEF InSession, checkMarketHours, checkOffHours, offHours, Open, Close
<1>11. Midnight(t) - Midnight(p) = 1440 * back
  BY <1>1, <1>5, <1>8 DEF Midnight, d
<1>12. Weekend(t) <=> w \in {5, 6}
  BY DEF Weekend, w
<1>13. SinceWeekday(t) = back
  BY <1>5, <1>12 DEF SinceWeekday, w
<1> QED
  BY <1>10, <1>11, <1>13 DEF p

\* ----- The calendar ------------------------------------------------------
\* Days of the finite instance are over at MaxDays; the first may be longer.
InDays == now < MaxDays * 1440 \/ now < 1440

CInv == TypeOK /\ InDays /\ TradingDayCounted

\* The reading of the counters at one instant.
Counted == IF Stale THEN 0 ELSE count

LEMMA CalendarInit ==
  ASSUME Init
  PROVE  CInv
<1>1. now \in 0..1439 /\ now \in Int /\ now \in Nat
  BY CalendarAssumption DEF Init
<1>2. ~Stale
  BY <1>1, LastOpening DEF Stale, Init
<1>3. TypeOK /\ InDays
  BY <1>1, CalendarAssumption DEF Init, TypeOK, InDays
<1> QED
  BY <1>2, <1>3 DEF CInv, TradingDayCounted, Init

LEMMA OrderStep ==
  ASSUME CInv, NEW amo \in BOOLEAN, Order(amo)
  PROVE  CInv'
<1> USE CalendarAssumption
<1>1. /\ now \in Nat /\ now \in Int /\ resetAt \in 0..now /\ count \in 0..MaxOrdersPerDay
      /\ optIn \in BOOLEAN /\ today \in Nat /\ Counted = today
  BY DEF CInv, TypeOK, TradingDayCounted, Counted
<1>2. now' = now /\ optIn' = optIn /\ resetAt' = IF Stale THEN now ELSE resetAt
  BY DEF Order
<1>3. /\ resetTime(now) \in Int /\ resetTime(now) <= now
      /\ ~Stale' /\ resetAt' \in 0..now
  BY <1>1, <1>2, LastOpening DEF Stale
<1>4. /\ count' = today' /\ count' \in 0..MaxOrdersPerDay
  BY <1>1 DEF Order, Counted
<1>5. TypeOK' /\ InDays'
  BY <1>1, <1>2, <1>3, <1>4 DEF CInv, TypeOK, InDays
<1>6. TradingDayCounted'
  BY <1>3, <1>4 DEF TradingDayCounted
<1> QED
  BY <1>5, <1>6 DEF CInv

LEMMA TickStep ==
  ASSUME CInv, Tick
  PROVE  CInv'
<1> USE CalendarAssumption
<1>1. /\ now \in Nat /\ now \in Int /\ resetAt \in 0..now /\ count \in 0..MaxOrdersPerDay
      /\ optIn \in BOOLEAN /\ today \in Nat /\ Counted = today
  BY DEF CInv, TypeOK, TradingDayCounted, Counted
<1> DEFINE Passed == \E s \in now + 1..now' : MinuteOfDay(s) = Open
<1>2. /\ now' \in Int /\ now < now' /\ now' < MaxDays * 1440
      /\ today' = IF Passed THEN 0 ELSE today
      /\ resetAt' = resetAt /\ count' = count /\ optIn' = optIn
  BY <1>1 DEF Tick
<1>3. /\ Passed => now < resetTime(now')
      /\ ~Passed => resetTime(now') = resetTime(now)
  BY <1>1, <1>2, OpeningPassed
<1> HIDE DEF Passed
<1>4. /\ resetTime(now) \in Int /\ resetTime(now') \in Int
  BY <1>1, <1>2, LastOpening
<1>5. Stale' <=> (Passed \/ Stale)
  BY <1>1, <1>2, <1>3, <1>4 DEF Stale
<1>6. TypeOK' /\ InDays'
  BY <1>1, <1>2 DEF TypeOK, InDays
<1>7. TradingDayCounted'
  BY <1>1, <1>2, <1>5 DEF TradingDayCounted, Counted
<1> QED
  BY <1>6, <1>7 DEF CInv

THEOREM CalendarInvariance == Spec => []CInv
<1>1. ASSUME CInv, [Next]_vars
      PROVE  CInv'
  <2>1. CASE UNCHANGED vars
    BY <1>1, <2>1 DEF vars, CInv, TypeOK, InDays, TradingDayCounted, Stale
  <2> QED
    BY <1>1, <2>1, OrderStep, TickStep DEF Next
<1> QED
  BY <1>1, CalendarInit, PTL DEF Spec

\* TypeOK of the calendar for any instants, cap and number of days: a reset is
\* never in the future (trackers.go).
THEOREM CalendarTypeCorrect == Spec => []TypeOK
BY CalendarInvariance, PTL DEF CInv

\* TradingDayCounted: what maybeResetDay leaves to the next reader are the
\* orders since the last 09:15, for any instants of calls and of resets.
THEOREM TradingDayCountedHolds == Spec => []TradingDayCounted
BY CalendarInvariance, PTL DEF CInv

\* StaleIsBoundaryPassed: resetTime's comparison is "a 09:15 has come since".
THEOREM StaleIsBoundaryPassedHolds == Spec => []StaleIsBoundaryPassed
<1>1. ASSUME CInv
      PROVE  StaleIsBoundaryPassed
  <2> USE CalendarAssumption
  <2>1. now \in Nat /\ now \in Int /\ resetAt \in 0..now /\ InDays
    BY <1>1 DEF CInv, TypeOK
  <2> DEFINE r == resetTime(now)
             d == Day(r)
  <2>2. /\ r \in Int /\ r <= now /\ MinuteOfDay(r) = Open
        /\ \A s \in Int : s <= now /\ MinuteOfDay(s) = Open => s <= r
    BY <2>1, LastOpening
  <2>3. d \in Int /\ r = d * 1440 + Open
    BY <2>2, DayAndMinute
  <2> HIDE DEF r, d
  <2>4. ASSUME resetAt < r
        PROVE  \E b \in Boundaries : resetAt < b /\ b <= now
    <3>1. d \in 0..MaxDays
      BY <2>1, <2>2, <2>3, <2>4 DEF InDays, Open
    <3> QED
      BY <2>2, <2>3, <2>4, <3>1 DEF Boundaries
  <2>5. ASSUME NEW b \in Boundaries, resetAt < b, b <= now
        PROVE  resetAt < r
    <3>1. PICK e \in 0..MaxDays : b = Clock(e, Open)
      BY DEF Boundaries, Clock
    <3>2. e \in Int /\ Open \in Nat /\ Open < 1440 /\ b \in Int
      BY <3>1 DEF Clock, Open
    <3>3. MinuteOfDay(b) = Open
      BY <3>1, <3>2, DayOf
    <3>4. b <= r
      BY <2>2, <2>5, <3>2, <3>3
    <3> QED
      BY <2>1, <2>2, <2>5, <3>2, <3>4
  <2> QED
    BY <2>4, <2>5 DEF StaleIsBoundaryPassed, Stale, r
<1> QED
  BY <1>1, CalendarInvariance, PTL

\* PinnedInSession: PinClockToMarketHoursForTest lands in a session.
THEOREM PinnedInSessionHolds == Spec => []PinnedInSession
<1>1. ASSUME CInv
      PROVE  PinnedInSession
  <2>1. now \in Int
    BY <1>1 DEF CInv, TypeOK
  <2> QED
    BY <2>1, PinnedAnyTime DEF PinnedInSession
<1> QED
  BY <1>1, CalendarInvariance, PTL

\* ----- The checks that ask the market ------------------------------------
\* The slot at which the data of a lookup are asked for.
Slot == [margin |-> 1, circuit |-> 2, freeze |-> 3, ltp |-> 4, baseline |-> 5]

\* One order at a time; histories that say of now what they recorded.
OneCall    == at > 0 => outcome = "none"
StableHas  == \A l \in stable : Has(l)
DarkHasNot == \A l \in dark : ~Has(l)

\* What has been asked and had one answer is kept already.
KeptSoFar == \A l \in stable : at > Slot[l] \/ outcome = "placed" => Keeps(l)

OInv == OracleTypeOK /\ OneCall /\ StableHas /\ DarkHasNot /\ KeptSoFar /\ FailOpen

LEMMA ChainSlots ==
  /\ Len(Chain) = 5 /\ DOMAIN Chain = 1..5
  /\ Chain[1] = "margin_check" /\ Chain[2] = "circuit_limit" /\ Chain[3] = "quantity_limit"
  /\ Chain[4] = "otr_band" /\ Chain[5] = "anomaly"
BY DEF Chain

LEMMA SlotRange == \A l \in Lookups : Slot[l] \in 1..5
BY DEF Lookups, Slot

LEMMA NoOrderIsOrder == NoOrder \in Orders
<1>1. PICK i \in Instruments : TRUE
  BY OracleAssumption
<1>2. PICK p \in Prices : TRUE
  BY OracleAssumption
<1>3. PICK q \in Quantities : TRUE
  BY OracleAssumption
<1>4. [instrument |-> i, price |-> p, quantity |-> q] \in Orders
  BY DEF Orders
<1> QED
  BY <1>4 DEF NoOrder

\* The data of a lookup that has something are numbers.
LEMMA DataAreNumbers ==
  ASSUME OracleTypeOK, NEW l \in Lookups, Has(l)
  PROVE  /\ answer[l][1] \in Int
         /\ l \in {"circuit", "baseline"} => answer[l][2] \in Int
<1> DEFINE a == answer[l]
<1>1. a \in Answers[l] \ {<<>>}
  BY DEF OracleTypeOK, Has
<1>2. a \in Seq(Int) /\ Len(a) = IF l \in {"circuit", "baseline"} THEN 2 ELSE 1
  BY <1>1, OracleAssumption
<1> HIDE DEF a
<1>3. a[1] \in Int /\ (l \in {"circuit", "baseline"} => a[2] \in Int)
  BY <1>2
<1> QED
  BY <1>3 DEF a

LEMMA OrderNumbers ==
  ASSUME order \in Orders
  PROVE  order.price \in Nat /\ order.quantity \in Int /\ order.instrument \in Instruments
BY OracleAssumption DEF Orders

\* A check that does not refuse leaves an order that keeps its rule.
LEMMA MarginKept ==
  ASSUME OracleTypeOK, Has("margin"), ~marginCheck
  PROVE  Keeps("margin")
<1>1. order.price \in Nat /\ order.quantity \in Int
  BY OrderNumbers DEF OracleTypeOK
<1>2. answer["margin"][1] \in Int
  BY DataAreNumbers DEF Lookups
<1>3. Value \in Int /\ Value = order.price * order.quantity
  BY <1>1 DEF Value
<1> QED
  BY <1>1, <1>2, <1>3 DEF Keeps, Rule, marginCheck

LEMMA CircuitKept ==
  ASSUME OracleTypeOK, Has("circuit"), ~circuitLimitCheck
  PROVE  Keeps("circuit")
<1>1. order.price \in Nat
  BY OrderNumbers DEF OracleTypeOK
<1>2. answer["circuit"][1] \in Int /\ answer["circuit"][2] \in Int
  BY DataAreNumbers DEF Lookups
<1> QED
  BY <1>1, <1>2 DEF Keeps, Rule, circuitLimitCheck

LEMMA FreezeKept ==
  ASSUME OracleTypeOK, Has("freeze"), ~checkQuantityLimit
  PROVE  Keeps("freeze")
<1>1. order.quantity \in Int
  BY OrderNumbers DEF OracleTypeOK
<1>2. answer["freeze"][1] \in Int
  BY DataAreNumbers DEF Lookups
<1> DEFINE n == answer["freeze"][1]
           q == order.quantity
<1>3. order.instrument.exchange = "" \/ n = 0 \/ ~(q < 0 \/ q > n)
  BY DEF checkQuantityLimit
<1>4. ~(q < 0 \/ q > n) => q \in 0..n
  BY <1>1, <1>2
<1> HIDE DEF n, q
<1>5. n = 0 \/ order.instrument.exchange = "" \/ q \in 0..n
  BY <1>3, <1>4
<1> QED
  BY <1>5 DEF Keeps, Rule, n, q

LEMMA OtrKept ==
  ASSUME OracleTypeOK, Has("ltp"), NEW rounding \in BOOLEAN, ~otrBandCheck(rounding)
  PROVE  Keeps("ltp")
<1> DEFINE ltp  == answer["ltp"][1]
           p    == order.price
           band == bandForExchange(order.instrument)
           rule == IF order.instrument.option THEN 4000 ELSE 75
<1>1. p \in Nat /\ order.instrument \in Instruments
  BY OrderNumbers DEF OracleTypeOK
<1>2. ltp \in Int
  BY DataAreNumbers DEF Lookups
<1>3. band \in {75, 4000} /\ rule \in {75, 4000} /\ band <= rule
  BY <1>1, OracleAssumption DEF bandForExchange, isOptionSymbol, SuffixOfOption
<1>4. p = 0 \/ ltp <= 0 \/ (ltp * (10000 - band) <= p * 10000 /\ p * 10000 <= ltp * (10000 + band))
  BY <1>1, <1>2, <1>3 DEF otrBandCheck
<1>5. p = 0 \/ ltp <= 0 \/ 10000 * Abs(p - ltp) <= rule * ltp
  <2> HIDE DEF p, ltp, band, rule
  <2>1. CASE band = 75 /\ rule = 75
    BY <1>1, <1>2, <1>4, <2>1 DEF Abs
  <2>2. CASE band = 75 /\ rule = 4000
    BY <1>1, <1>2, <1>4, <2>2 DEF Abs
  <2>3. CASE band = 4000 /\ rule = 4000
    BY <1>1, <1>2, <1>4, <2>3 DEF Abs
  <2> QED
    BY <1>3, <2>1, <2>2, <2>3
<1> QED
  BY <1>5 DEF Keeps, Rule

LEMMA AnomalyKept ==
  ASSUME OracleTypeOK, Has("baseline"), ~checkAnomalyMultiplier
  PROVE  Keeps("baseline")
<1>1. order.price \in Nat /\ order.quantity \in Int
  BY OrderNumbers DEF OracleTypeOK
<1>2. answer["baseline"][1] \in Int /\ answer["baseline"][2] \in Int
  BY DataAreNumbers DEF Lookups
<1>3. Value \in Int /\ Value = order.price * order.quantity
  BY <1>1 DEF Value
<1> QED
  BY <1>1, <1>2, <1>3 DEF Keeps, Rule, checkAnomalyMultiplier

LEMMA CheckedIsKept ==
  ASSUME OracleTypeOK, NEW i \in 1..5, NEW rounding \in BOOLEAN,
         ~Refuses(Chain[i], rounding), NEW l \in Lookups, Slot[l] = i, Has(l)
  PROVE  Keeps(l)
<1>1. CASE l = "margin"
  BY <1>1, ChainSlots, MarginKept DEF Slot, Refuses
<1>2. CASE l = "circuit"
  BY <1>2, ChainSlots, CircuitKept DEF Slot, Refuses
<1>3. CASE l = "freeze"
  BY <1>3, ChainSlots, FreezeKept DEF Slot, Refuses
<1>4. CASE l = "ltp"
  BY <1>4, ChainSlots, OtrKept DEF Slot, Refuses
<1>5. CASE l = "baseline"
  BY <1>5, ChainSlots, AnomalyKept DEF Slot, Refuses
<1> QED
  BY <1>1, <1>2, <1>3, <1>4, <1>5 DEF Lookups

\* A check refuses on data only, and a MARKET order on its quantity only.
LEMMA RefusedOnData ==
  ASSUME OracleTypeOK, NEW i \in 1..5, NEW rounding \in BOOLEAN, Refuses(Chain[i], rounding)
  PROVE  /\ Chain[i] \notin {"none", "placed"} /\ Has(LookupOf[Chain[i]])
         /\ order.price = 0 => Chain[i] = "quantity_limit"
<1>1. CASE i = 1
  BY <1>1, ChainSlots DEF Refuses, LookupOf, marginCheck
<1>2. CASE i = 2
  BY <1>2, ChainSlots DEF Refuses, LookupOf, circuitLimitCheck
<1>3. CASE i = 3
  <2>1. checkQuantityLimit
    BY <1>3, ChainSlots DEF Refuses
  <2>2. Has("freeze")
    BY <2>1 DEF checkQuantityLimit
  <2> QED
    BY <1>3, <2>2, ChainSlots DEF LookupOf
<1>4. CASE i = 4
  BY <1>4, ChainSlots DEF Refuses, LookupOf, otrBandCheck
<1>5. CASE i = 5
  BY <1>5, ChainSlots DEF Refuses, LookupOf, checkAnomalyMultiplier
<1> QED
  BY <1>1, <1>2, <1>3, <1>4, <1>5
LEMMA OracleInitInv ==
  ASSUME OracleInit
  PROVE  OInv
<1>1. DOMAIN answer = Lookups /\ \A l \in Lookups : answer[l] \in Answers[l]
  BY DEF OracleInit, Lookups
<1>2. wired \subseteq Lookups /\ enabled \in BOOLEAN
  BY DEF OracleInit
<1>3. at \in 0..Len(Chain) /\ changes \in 0..MaxChanges
  BY ChainSlots, OracleAssumption DEF OracleInit
<1>4. OracleTypeOK
  BY <1>1, <1>2, <1>3, NoOrderIsOrder DEF OracleInit, OracleTypeOK
<1> QED
  BY <1>4 DEF OracleInit, OInv, OneCall, StableHas, DarkHasNot, KeptSoFar, FailOpen

LEMMA SubmitStep ==
  ASSUME OInv, NEW o \in Orders, Submit(o)
  PROVE  OInv'
<1>1. \A l \in Lookups : Has(l)' <=> Has(l)
  BY DEF Submit, Has
<1>2. OracleTypeOK'
  BY ChainSlots DEF Submit, OInv, OracleTypeOK
<1>3. StableHas' /\ DarkHasNot'
  BY <1>1 DEF Submit, StableHas, DarkHasNot
<1>4. OneCall' /\ FailOpen'
  BY DEF Submit, OneCall, FailOpen
<1>5. KeptSoFar'
  <2>1. \A l \in stable' : Slot[l] \in 1..5
    BY SlotRange DEF Submit
  <2> QED
    BY <2>1 DEF Submit, KeptSoFar
<1> QED
  BY <1>2, <1>3, <1>4, <1>5 DEF OInv

LEMMA AnswerStep ==
  ASSUME OInv, Answer
  PROVE  OInv'
<1>1. OracleTypeOK'
  BY NoOrderIsOrder DEF Answer, OInv, OracleTypeOK
<1> QED
  BY <1>1 DEF Answer, OInv, OneCall, StableHas, DarkHasNot, KeptSoFar, FailOpen

LEMMA EvaluateStep ==
  ASSUME OInv, EvaluateNext
  PROVE  OInv'
<1> USE DEF OInv
<1>1. PICK rounding \in BOOLEAN :
        \/ Refuses(Chain[at], rounding) /\ at' = 0 /\ outcome' = Chain[at]
        \/ ~Refuses(Chain[at], rounding) /\ at = 5 /\ at' = 0 /\ outcome' = "placed"
        \/ ~Refuses(Chain[at], rounding) /\ at # 5 /\ at' = at + 1 /\ outcome' = outcome
  BY ChainSlots DEF EvaluateNext
<1>2. /\ at \in 1..5 /\ outcome = "none"
      /\ UNCHANGED <<wired, enabled, answer, order, stable, dark, changes>>
  BY ChainSlots DEF EvaluateNext, OracleTypeOK, OneCall
<1>3. at' \in 0..5 /\ outcome' \in {"none", "placed"} \cup {Chain[i] : i \in DOMAIN Chain}
  BY <1>1, <1>2, ChainSlots
<1>4. OracleTypeOK'
  BY <1>2, <1>3, ChainSlots DEF OracleTypeOK
<1>5. StableHas' /\ DarkHasNot'
  BY <1>2 DEF StableHas, DarkHasNot, Has
<1>6. OneCall'
  BY <1>1, <1>2 DEF OneCall
<1>7. KeptSoFar'
  <2> SUFFICES ASSUME NEW l \in stable, at' > Slot[l] \/ outcome' = "placed"
               PROVE  Keeps(l)
    BY <1>2 DEF KeptSoFar, Keeps
  <2>1. l \in Lookups /\ Has(l) /\ Slot[l] \in 1..5
    BY SlotRange DEF StableHas, OracleTypeOK
  <2>2. ~Refuses(Chain[at], rounding) /\ Slot[l] <= at
    BY <1>1, <1>2, <2>1, RefusedOnData
  <2>3. CASE Slot[l] = at
    BY <1>2, <2>1, <2>2, <2>3, CheckedIsKept
  <2>4. CASE at > Slot[l]
    BY <2>4 DEF KeptSoFar
  <2> QED
    BY <1>2, <2>1, <2>2, <2>3, <2>4
<1>8. FailOpen'
  <2> SUFFICES ASSUME outcome' \notin {"none", "placed"}
               PROVE  /\ LookupOf[outcome'] \notin dark
                      /\ order.price = 0 => outcome' = "quantity_limit"
    BY <1>2 DEF FailOpen
  <2>1. Refuses(Chain[at], rounding) /\ outcome' = Chain[at]
    BY <1>1, <1>2
  <2> QED
    BY <1>2, <2>1, RefusedOnData DEF DarkHasNot
<1> QED
  BY <1>4, <1>5, <1>6, <1>7, <1>8

\* A change of one lookup takes it out of the histories and leaves the others.
LEMMA ChangeStep ==
  ASSUME OInv, NEW l \in Lookups, Changed(l),
         wired' \subseteq Lookups, enabled' \in BOOLEAN,
         DOMAIN answer' = Lookups, \A k \in Lookups : answer'[k] \in Answers[k],
         \A k \in Lookups \ {l} : (Has(k)' <=> Has(k)) /\ answer'[k] = answer[k]
  PROVE  OInv'
<1> USE DEF OInv
<1>1. /\ outcome = "none" /\ changes' \in 0..MaxChanges
      /\ stable' = stable \ {l} /\ UNCHANGED <<at, order, outcome>>
      /\ dark' \subseteq dark /\ (Has(l)' => l \notin dark')
  BY OracleAssumption DEF Changed, OracleTypeOK
<1>2. OracleTypeOK'
  BY <1>1 DEF OracleTypeOK
<1>3. StableHas' /\ DarkHasNot'
  BY <1>1 DEF StableHas, DarkHasNot, OracleTypeOK
<1>4. OneCall' /\ FailOpen'
  BY <1>1 DEF OneCall, FailOpen
<1>5. KeptSoFar'
  <2> SUFFICES ASSUME NEW k \in stable', at > Slot[k]
               PROVE  Keeps(k)'
    BY <1>1 DEF KeptSoFar
  <2>1. Keeps(k) /\ answer'[k] = answer[k]
    BY <1>1 DEF KeptSoFar, OracleTypeOK
  <2> QED
    BY <1>1, <2>1 DEF Keeps
<1> QED
  BY <1>2, <1>3, <1>4, <1>5

LEMMA FeedStep ==
  ASSUME OInv, NEW l \in Lookups, Feed(l)
  PROVE  OInv'
<1>1. PICK a \in Answers[l] : answer' = [answer EXCEPT ![l] = a]
  BY DEF Feed
<1>2. wired' = wired /\ enabled' = enabled /\ Changed(l)
  BY DEF Feed
<1>3. /\ DOMAIN answer' = Lookups /\ answer'[l] = a
      /\ \A k \in Lookups \ {l} : answer'[k] = answer[k]
  BY <1>1 DEF OInv, OracleTypeOK
<1>4. \A k \in Lookups : answer'[k] \in Answers[k]
  BY <1>3 DEF OInv, OracleTypeOK
<1>5. \A k \in Lookups \ {l} : Has(k)' <=> Has(k)
  BY <1>2, <1>3 DEF Has
<1>6. wired' \subseteq Lookups /\ enabled' \in BOOLEAN
  BY <1>2 DEF OInv, OracleTypeOK
<1> QED
  BY <1>2, <1>3, <1>4, <1>5, <1>6, ChangeStep

LEMMA SetLookupStep ==
  ASSUME OInv, NEW l \in Lookups, SetLookup(l)
  PROVE  OInv'
<1>1. answer' = answer /\ enabled' = enabled /\ Changed(l)
  BY DEF SetLookup
<1>2. wired' \subseteq Lookups /\ \A k \in Lookups \ {l} : k \in wired' <=> k \in wired
  BY DEF SetLookup, OInv, OracleTypeOK
<1>3. \A k \in Lookups \ {l} : Has(k)' <=> Has(k)
  BY <1>1, <1>2 DEF Has
<1>4. enabled' \in BOOLEAN /\ DOMAIN answer' = Lookups /\ \A k \in Lookups : answer'[k] \in Answers[k]
  BY <1>1 DEF OInv, OracleTypeOK
<1>5. \A k \in Lookups \ {l} : answer'[k] = answer[k]
  BY <1>1
<1> QED
  BY <1>1, <1>2, <1>3, <1>4, <1>5, ChangeStep

LEMMA SetMarginStep ==
  ASSUME OInv, SetMarginCheckEnabled
  PROVE  OInv'
<1>1. answer' = answer /\ wired' = wired /\ enabled' = ~enabled /\ Changed("margin")
  BY DEF SetMarginCheckEnabled
<1>2. \A k \in Lookups \ {"margin"} : Has(k)' <=> Has(k)
  BY <1>1 DEF Has
<1>3. /\ wired' \subseteq Lookups /\ enabled' \in BOOLEAN
      /\ DOMAIN answer' = Lookups /\ \A k \in Lookups : answer'[k] \in Answers[k]
  BY <1>1 DEF OInv, OracleTypeOK
<1>4. "margin" \in Lookups /\ \A k \in Lookups \ {"margin"} : answer'[k] = answer[k]
  BY <1>1 DEF Lookups
<1> QED
  BY <1>1, <1>2, <1>3, <1>4, ChangeStep

THEOREM OracleInvariance == OracleSpec => []OInv
<1>1. ASSUME OInv, [OracleNext]_oracleVars
      PROVE  OInv'
  <2>1. CASE UNCHANGED oracleVars
    <3>1. OracleTypeOK' /\ OneCall' /\ FailOpen'
      BY <1>1, <2>1 DEF oracleVars, OInv, OracleTypeOK, OneCall, FailOpen
    <3>2. StableHas' /\ DarkHasNot'
      BY <1>1, <2>1 DEF oracleVars, OInv, StableHas, DarkHasNot, Has
    <3>3. KeptSoFar'
      BY <1>1, <2>1 DEF oracleVars, OInv, KeptSoFar, Keeps
    <3> QED
      BY <3>1, <3>2, <3>3 DEF OInv
  <2> QED
    BY <1>1, <2>1, SubmitStep, AnswerStep, EvaluateStep, FeedStep, SetLookupStep, SetMarginStep
       DEF OracleNext
<1> QED
  BY <1>1, OracleInitInv, PTL DEF OracleSpec

\* OracleTypeOK for any instruments, orders, answers and number of changes.
THEOREM OracleTypeCorrect == OracleSpec => []OracleTypeOK
BY OracleInvariance, PTL DEF OInv

\* Screened: a placed order keeps every rule whose lookup stood still during the
\* call, whatever the numbers of the order and of the data.
THEOREM ScreenedHolds == OracleSpec => []Screened
<1>1. OInv => Screened
  BY DEF OInv, KeptSoFar, Screened
<1> QED
  BY <1>1, OracleInvariance, PTL

\* FailOpen: no check refuses an order on data that its lookup never had.
THEOREM FailOpenHolds == OracleSpec => []FailOpen
BY OracleInvariance, PTL DEF OInv
=============================================================================
