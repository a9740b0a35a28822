\* Two order calls, an administrator, handlers and the notifier calling back, on
\* hosts with and without time zone data.
SPECIFICATION Spec
CONSTANTS
  Procs = {p1, p2}
  Admins = {a1, a2}
  Hosts = {TRUE, FALSE}
  MaxCalls = 3
INVARIANTS
  TypeOK
  Balanced
PROPERTIES
  Answered
