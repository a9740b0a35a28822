\* Two goroutines, two crashes or hangs, failed launches and Close at any time.
SPECIFICATION Spec
CONSTANTS
  Procs = {g1, g2}
  Orders = {"plain", "blocked", "poison", "faulty"}
  Faults = {"crash", "hang"}
  MaxLaunches = 4
  MaxFaults = 2
  MaxCalls = 4
INVARIANTS
  TypeOK
  NoOrphan
  FewLateLaunches
  Unjudged
  OneCrashOneRefusal
PROPERTIES
  Answered
