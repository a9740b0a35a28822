\* Two goroutines against the counter of one calendar second.
SPECIFICATION Spec
CONSTANTS
  NoRequest = NoRequest
  NoKey = NoKey
  Emails <- MCEmails
  Lower <- MCLower
  Requests <- PlainRequest
  Procs = {p1, p2}
  MaxOrdersPerDay = 9
  MaxOrdersPerMinute = 9
  MaxOrdersPerSecond = 1
  MaxSingleOrder = 2
  MaxDailyValue = 99
  DuplicateWindow = 0
  MinuteWindow = 1
  DedupTTL = 2
  FreezeWindow = 1
  AutoFreezeThreshold = 9
  AutoFreezeOnLimitHit = TRUE
  DayBoundaries = {9}
  Lookups = {"pass"}
  Replies = {"accepted"}
  MaxTime = 1
  MaxRequests = 5
  MaxAdminCalls = 0
SYMMETRY Symmetric
INVARIANTS
  BrokerSecondCap
