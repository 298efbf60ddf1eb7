CONSTANTS
  a1 = a1
  a2 = a2
  o1 = o1
  o2 = o2
  o3 = o3
  o4 = o4
  o5 = o5
  original = original
  Original = original
  Agents = {a1}
  Ops = {o1, o2}
  Plan <- Undone
  Kinds <- AppendUndo
  Slow = {}
  Unreadable = {}
SPECIFICATION Spec
PROPERTIES
  UndoReverts
