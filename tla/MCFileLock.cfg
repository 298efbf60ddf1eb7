CONSTANTS
  c1 = c1
  c2 = c2
  c3 = c3
  c4 = c4
  Calls = {c1, c2, c3, c4}
  p1 = p1
  p2 = p2
  Paths = {p1, p2}
  e1 = e1
  e2 = e2
  e3 = e3
  e4 = e4
  Entries = {e1, e2, e3, e4}
  None = None
  Watched = p1
SPECIFICATION FairSpec
INVARIANTS
  MutualExclusion
  MapTracksCalls
PROPERTIES
  ImplementsLock
  CallServed
