\* Close against an evaluation in flight.
SPECIFICATION Spec
CONSTANTS
  Procs = {g1, g2}
  Orders = {"plain"}
  Faults = {"crash"}
  MaxLaunches = 3
  MaxFaults = 1
  MaxCalls = 2
INVARIANTS
  CloseTerminal
