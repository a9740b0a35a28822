---------------------------- MODULE OracleChecks ----------------------------
(***************************************************************************)
(* The checks that ask the market about one order: margin, circuit band,   *)
(* freeze quantity, SEBI OTR band and anomaly (margin_check.go,            *)
(* circuit_limit.go, otr_band.go, internal_checks.go).  Each reads its     *)
(* lookup when it is evaluated; lookups are wired and their data changes   *)
(* while the order is on its way through the chain.                        *)
(*                                                                         *)
(* Prices, margins and quotes are whole rupees.  An answer is a tuple, the *)
(* empty one when the lookup has nothing on the order's user or instrument.*)
(***************************************************************************)
EXTENDS Integers, Sequences

CONSTANTS
  Instruments,         \* [exchange, suffix, option]: where it is listed, how its
                       \* symbol ends, and whether it really is an option
  Prices, Quantities,  \* of the orders; the price of a MARKET order is 0
  Answers,             \* per lookup, what it may answer
  MaxChanges           \* bound of a finite instance

Lookups == {"margin", "circuit", "freeze", "ltp", "baseline"}

\* What the suffixes of a symbol mean on the derivative exchanges is theirs to
\* say: there CE and PE end the symbol of an option.
SuffixOfOption(i) == i.exchange \in {"NFO", "BFO", "MCX"} /\ i.suffix \in {"CE", "PE"}

\* SetFreezeQuantityLookup and SetBaselineProvider take no lock: they belong to
\* the set-up of the server, before the first order.
SetUpOnly == {"freeze", "baseline"}

ASSUME OracleAssumption ==
  /\ Instruments \subseteq [exchange : STRING, suffix : STRING, option : BOOLEAN]
  /\ \A i \in Instruments : SuffixOfOption(i) => i.option
  /\ Prices \subseteq Nat /\ Quantities \subseteq Int /\ MaxChanges \in Nat
  /\ Instruments # {} /\ Prices # {} /\ Quantities # {}
  /\ DOMAIN Answers = Lookups
  /\ \A l \in Lookups :
       /\ Answers[l] \subseteq Seq(Int)
       /\ \A a \in Answers[l] \ {<<>>} :
            Len(a) = IF l \in {"circuit", "baseline"} THEN 2 ELSE 1

VARIABLES
  wired, enabled,      \* lookups that are not nil; marginCheckEnabled
  answer,              \* what each lookup would answer now
  at, order,           \* place in the chain (0: not in it) and the order
  outcome,             \* of the call: "none" yet, "placed" or the check that refused
  stable,              \* history: lookups that have had one answer during the call
  dark,                \* history: lookups that have had none during the call
  changes              \* consumed bound

oracleVars == <<wired, enabled, answer, at, order, outcome, stable, dark, changes>>

Orders == [instrument : Instruments, price : Prices, quantity : Quantities]
NoOrder == CHOOSE o \in Orders : TRUE
Value  == order.price * order.quantity

Has(l) == l \in wired /\ answer[l] # <<>> /\ (l = "margin" => enabled)

marginCheckMutant ==
  LET available == IF answer["margin"] = <<>> THEN 0 ELSE answer["margin"][1]
  IN enabled /\ "margin" \in wired /\ order.price > 0 /\ Value > available
marginCheck ==
  /\ Has("margin") /\ order.price > 0 /\ order.quantity > 0
  /\ Value > answer["margin"][1]

circuitLimitCheck ==
  /\ Has("circuit") /\ order.price > 0
  /\ LET lower == answer["circuit"][1]
         upper == answer["circuit"][2]
     IN upper > 0 /\ (order.price < lower \/ order.price > upper)

checkQuantityLimit ==
  /\ Has("freeze") /\ order.instrument.exchange # ""
  /\ LET freezeQty == answer["freeze"][1]
     IN freezeQty # 0 /\ (order.quantity < 0 \/ order.quantity > freezeQty)

isOptionSymbolMutant(i) == i.suffix \in {"CE", "PE"}
isOptionSymbol(i) ==
  i.exchange \in {"NFO", "BFO", "MCX"} /\ i.suffix \in {"CE", "PE"}

\* In hundredths of a percent.
bandForExchange(i) == IF isOptionSymbol(i) THEN 4000 ELSE 75

\* The products are floating point: the verdict on a price at the very edge of
\* the band goes with their rounding.
otrBandCheck(rounding) ==
  /\ Has("ltp") /\ order.price > 0
  /\ LET ltp   == answer["ltp"][1]
         low   == ltp * (10000 - bandForExchange(order.instrument))
         high  == ltp * (10000 + bandForExchange(order.instrument))
         price == order.price * 10000
     IN ltp > 0 /\ (price < low \/ price > high \/ (price \in {low, high} /\ rounding))

checkAnomalyMultiplier ==
  /\ Has("baseline") /\ order.price > 0
  /\ LET mean  == answer["baseline"][1]
         stdev == answer["baseline"][2]
     IN mean > 0 /\ Value > mean + 3 * stdev /\ Value > 10 * mean

\* The checks in the order of their slots, and whether one refuses the order.
Chain == <<"margin_check", "circuit_limit", "quantity_limit", "otr_band", "anomaly">>

LookupOf == [margin_check |-> "margin", circuit_limit |-> "circuit",
             quantity_limit |-> "freeze", otr_band |-> "ltp", anomaly |-> "baseline"]

Refuses(check, rounding) ==
  CASE check = "margin_check"   -> marginCheck
    [] check = "circuit_limit"  -> circuitLimitCheck
    [] check = "quantity_limit" -> checkQuantityLimit
    [] check = "otr_band"       -> otrBandCheck(rounding)
    [] check = "anomaly"        -> checkAnomalyMultiplier

OracleInit ==
  /\ \/ wired = {} /\ enabled = FALSE     \* NewGuard
     \/ wired = Lookups /\ enabled = TRUE
  /\ answer \in [margin : Answers.margin, circuit : Answers.circuit, freeze : Answers.freeze,
                 ltp : Answers.ltp, baseline : Answers.baseline]
  /\ at = 0 /\ outcome = "none"
  /\ order = NoOrder
  /\ stable = {} /\ dark = {} /\ changes = 0

Submit(o) ==
  /\ at = 0 /\ outcome = "none"
  /\ at' = 1 /\ order' = o /\ UNCHANGED outcome
  /\ stable' = {l \in Lookups : Has(l)}
  /\ dark' = {l \in Lookups : ~Has(l)}
  /\ UNCHANGED <<wired, enabled, answer, changes>>

EvaluateNextMutant ==
  /\ at > 0
  /\ \E rounding \in BOOLEAN :
       IF Refuses(Chain[at], rounding)
       THEN at' = 0 /\ outcome' = Chain[at]
       ELSE IF at > Len(Chain) THEN at' = 0 /\ outcome' = "placed"
       ELSE at' = at + 1 /\ UNCHANGED outcome
  /\ UNCHANGED <<wired, enabled, answer, order, stable, dark, changes>>
\* One check: the first refusal ends the call, after the last one it is placed.
EvaluateNext ==
  /\ at > 0
  /\ \E rounding \in BOOLEAN :
       IF Refuses(Chain[at], rounding)
       THEN at' = 0 /\ outcome' = Chain[at]
       ELSE IF at = Len(Chain) THEN at' = 0 /\ outcome' = "placed"
       ELSE at' = at + 1 /\ UNCHANGED outcome
  /\ UNCHANGED <<wired, enabled, answer, order, stable, dark, changes>>

\* The verdict is answered; the next call starts afresh.
Answer ==
  /\ outcome # "none" /\ outcome' = "none"
  /\ order' = NoOrder /\ stable' = {} /\ dark' = {}
  /\ UNCHANGED <<wired, enabled, answer, at, changes>>

\* A change of a lookup counts in the call it falls into; one after the verdict
\* is one before the next call.
Changed(l) ==
  /\ outcome = "none"
  /\ changes < MaxChanges /\ changes' = changes + 1
  /\ stable' = stable \ {l}
  /\ dark' = IF Has(l)' THEN dark \ {l} ELSE dark
  /\ UNCHANGED <<at, order, outcome>>

\* SetLTPLookup and its siblings, with a lookup or with nil.
SetLookup(l) ==
  /\ l \in SetUpOnly => at = 0
  /\ wired' = IF l \in wired THEN wired \ {l} ELSE wired \cup {l}
  /\ UNCHANGED <<enabled, answer>>
  /\ Changed(l)

SetMarginCheckEnabled ==
  /\ enabled' = ~enabled
  /\ UNCHANGED <<wired, answer>>
  /\ Changed("margin")

\* External: the quote, the bands, the margin, the history of orders change.
Feed(l) ==
  /\ \E a \in Answers[l] \ {answer[l]} : answer' = [answer EXCEPT ![l] = a]
  /\ UNCHANGED <<wired, enabled>>
  /\ Changed(l)

OracleNext ==
  \/ \E o \in Orders : Submit(o)
  \/ EvaluateNext \/ Answer
  \/ \E l \in Lookups : SetLookup(l) \/ Feed(l)
  \/ SetMarginCheckEnabled

OracleSpec == OracleInit /\ [][OracleNext]_oracleVars

----------------------------------------------------------------------------
\* Every variable stays in its range.
OracleTypeOK ==
  /\ wired \subseteq Lookups /\ enabled \in BOOLEAN
  /\ DOMAIN answer = Lookups /\ \A l \in Lookups : answer[l] \in Answers[l]
  /\ at \in 0..Len(Chain) /\ order \in Orders
  /\ outcome \in {"none", "placed"} \cup {Chain[i] : i \in DOMAIN Chain}
  /\ stable \subseteq Lookups /\ dark \subseteq Lookups
  /\ changes \in 0..MaxChanges

Abs(n) == IF n < 0 THEN -n ELSE n

\* The rules, by what they say and not by the code's arithmetic: the freeze
\* quantity (no negative one either), the margin, the circuit, the SEBI distance
\* from the LTP for what the instrument really is, ten means or three deviations.
\* Only the first binds a MARKET order; data that are not positive bind none.
Rule(l, o, a) ==
  LET p == o.price
      v == o.price * o.quantity
  IN CASE l = "freeze"   -> a[1] = 0 \/ o.instrument.exchange = "" \/ o.quantity \in 0..a[1]
       [] l = "margin"   -> p = 0 \/ o.quantity <= 0 \/ v <= a[1]
       [] l = "circuit"  -> p = 0 \/ a[2] <= 0 \/ p \in a[1]..a[2]
       [] l = "ltp"      -> \/ p = 0 \/ a[1] <= 0
                            \/ 10000 * Abs(p - a[1])
                                 <= (IF o.instrument.option THEN 4000 ELSE 75) * a[1]
       [] l = "baseline" -> p = 0 \/ a[1] <= 0 \/ v <= 10 * a[1] \/ v - a[1] <= 3 * a[2]

Keeps(l) == Rule(l, order, answer[l])

\* A placed order keeps every rule whose lookup had one answer throughout the
\* call.
Screened == outcome = "placed" => \A l \in stable : Keeps(l)

\* "Better to pass a real order than reject one because the cache hasn't
\* warmed": no check refuses an order without data of its lookup, however the
\* others came and went, and a MARKET order is refused for its quantity only.
FailOpen ==
  outcome \notin {"none", "placed"} =>
    /\ LookupOf[outcome] \notin dark
    /\ order.price = 0 => outcome = "quantity_limit"
=============================================================================
