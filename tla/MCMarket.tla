------------------------------ MODULE MCMarket ------------------------------
(***************************************************************************)
(* Finite instances of Calendar.tla and OracleChecks.tla.  They share no   *)
(* variable, so a behaviour is one of the calendar or one of the lookups;  *)
(* interleaving the two would only multiply their states.                  *)
(***************************************************************************)
EXTENDS Calendar, OracleChecks

VARIABLE scene         \* "calendar" or "lookups"

MCInstruments ==
  {[exchange |-> "NSE", suffix |-> "CE", option |-> FALSE],   \* RELIANCE
   [exchange |-> "NFO", suffix |-> "CE", option |-> TRUE],    \* NIFTY24DEC24000CE
   [exchange |-> "NFO", suffix |-> "UT", option |-> FALSE],   \* NIFTY24DECFUT
   [exchange |-> "",    suffix |-> "PE", option |-> FALSE]}   \* no exchange given

\* Both sides and the edge of the bands around an LTP of 400 (cash 397..403,
\* options 240..560) and of the circuit 380..420.
MCPrices == {0, 239, 240, 380, 396, 397, 403, 420, 421, 561}
MCQuantities == {-1, 1, 2, 11}

\* No answer, an answer of zeros, an answer that binds some of the orders.
MCAnswers ==
  [margin   |-> {<<>>, <<800>>},
   circuit  |-> {<<>>, <<0, 0>>, <<380, 420>>},
   freeze   |-> {<<>>, <<0>>, <<10>>},
   ltp      |-> {<<>>, <<0>>, <<400>>},
   baseline |-> {<<>>, <<0, 0>>, <<40, 0>>, <<40, 130>>}]

\* The lookups start with answers that bind; the scene of the calendar has none.
MCInit ==
  /\ Init /\ OracleInit
  /\ answer = [margin |-> <<800>>, circuit |-> <<380, 420>>, freeze |-> <<10>>,
               ltp |-> <<400>>, baseline |-> <<40, 0>>]
  /\ \/ scene = "calendar" /\ wired = {}
     \/ scene = "lookups" /\ now = Open /\ optIn

MCNext ==
  \/ scene = "calendar" /\ Next /\ UNCHANGED <<scene, oracleVars>>
  \/ scene = "lookups" /\ OracleNext /\ UNCHANGED <<scene, vars>>

MCSpec == MCInit /\ [][MCNext]_<<scene, vars, oracleVars>>
=============================================================================
