\* A host without time zone data.
SPECIFICATION Spec
CONSTANTS
  Procs = {p1, p2}
  Admins = {a1}
  Hosts = {FALSE}
  MaxCalls = 2
PROPERTIES
  NobodyLockedOut
