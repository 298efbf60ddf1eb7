CONSTANTS
  a1 = a1
  a2 = a2
  o1 = o1
  o2 = o2
  o3 = o3
  o4 = o4
  o5 = o5
  original = original
  Original = original
  Agents = {a1, a2}
  Ops = {o1, o2, o3, o4, o5}
  Plan <- Sharing
  Kinds <- Mixed
  Slow = {o1, o3}
  Unreadable = {o1}
SPECIFICATION Spec
INVARIANTS
  JournalIsHistory
PROPERTIES
  ImplementsAtomic
  RollbackTrue
