\* Caps, the daily reset and the accounting behind them.
SPECIFICATION Spec
CONSTANTS
  NoRequest = NoRequest
  NoKey = NoKey
  Emails <- MCEmails
  Lower <- MCLower
  Requests <- CapRequests
  Procs = {p1, p2}
  MaxOrdersPerDay = 2
  MaxOrdersPerMinute = 3
  MaxOrdersPerSecond = 9
  MaxSingleOrder = 2
  MaxDailyValue = 3
  DuplicateWindow = 0
  MinuteWindow = 1
  DedupTTL = 2
  FreezeWindow = 1
  AutoFreezeThreshold = 9
  AutoFreezeOnLimitHit = TRUE
  DayBoundaries = {1}
  Lookups = {"pass"}
  Replies = {"accepted"}
  MaxTime = 2
  MaxRequests = 5
  MaxAdminCalls = 0
SYMMETRY Symmetric
INVARIANTS
  TypeOK
  NoOrderUncounted
  DailyCountCap
  DailyValueCap
  MinuteRateCap
  KeyOnce
