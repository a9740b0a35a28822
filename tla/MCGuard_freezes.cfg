\* Rejections of all kinds, the breaker and the administrator's freezes racing
\* calls in flight; some replies lost.
SPECIFICATION Spec
CONSTANTS
  NoRequest = NoRequest
  NoKey = NoKey
  Emails <- MCEmails
  Lower <- MCLower
  Requests <- StrikeRequests
  Procs = {p1, p2}
  MaxOrdersPerDay = 9
  MaxOrdersPerMinute = 9
  MaxOrdersPerSecond = 9
  MaxSingleOrder = 2
  MaxDailyValue = 99
  DuplicateWindow = 1
  MinuteWindow = 1
  DedupTTL = 2
  FreezeWindow = 1
  AutoFreezeThreshold = 2
  AutoFreezeOnLimitHit = TRUE
  DayBoundaries = {2}
  Lookups = {"pass", "policy", "limit"}
  Replies = {"accepted", "refused", "lost"}
  MaxTime = 2
  MaxRequests = 4
  MaxAdminCalls = 2
SYMMETRY Symmetric
INVARIANTS
  FreezeBarrier
  FreezeLeak
  DuplicateCap
  BreakerSettled
PROPERTIES
  BreakerJustified
