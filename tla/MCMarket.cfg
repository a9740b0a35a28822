\* Nine days, both sides of every boundary; then two changes of the lookups
\* around and inside a call.
SPECIFICATION MCSpec
CONSTANTS
  Instants = {0, 119, 120, 359, 360, 554, 555, 929, 930, 1439}
  MaxOrdersPerDay = 2
  MaxDays = 9
  Instruments <- MCInstruments
  Prices <- MCPrices
  Quantities <- MCQuantities
  Answers <- MCAnswers
  MaxChanges = 2
INVARIANTS
  TypeOK
  OracleTypeOK
  TradingDayCounted
  StaleIsBoundaryPassed
  PinnedInSession
  Screened
  FailOpen
