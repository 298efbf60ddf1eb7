CONSTANTS
  c1 = c1
  c2 = c2
  c3 = c3
  c4 = c4
  c5 = c5
  c6 = c6
  Callers = {c1, c2, c3, c4, c5, c6}
  MaxPermits = 2
  Timed = TRUE
SPECIFICATION SemFairSpec
INVARIANTS
  PermitsConserved
PROPERTIES
  ImplementsPool
  WaiterServed
