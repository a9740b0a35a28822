\* One crash, no Close: how many evaluations does it cost?
SPECIFICATION Spec
CONSTANTS
  Procs = {g1, g2}
  Orders = {"plain"}
  Faults = {"crash"}
  MaxLaunches = 4
  MaxFaults = 1
  MaxCalls = 5
INVARIANTS
  CrashContained
