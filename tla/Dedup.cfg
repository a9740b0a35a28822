\* Two goroutines, two keys, sweeps and a restart.
SPECIFICATION Spec
CONSTANTS
  Keys = {k1, k2}
  Procs = {p1, p2}
  TTL = 2
  Never = Never
  MaxTime = 5
  MaxRestarts = 1
INVARIANTS
  TypeOK
  Faithful
PROPERTIES
  ImplementsPromise
