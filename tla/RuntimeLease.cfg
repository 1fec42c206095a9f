CONSTANTS
  None = None
  Procs = {p1, p2}
  Ttl = 1
  MaxTime = 2
  MaxGen = 3
SPECIFICATION Spec
SYMMETRY Symmetry
INVARIANTS GenerationsUnique AlwaysRestartable
PROPERTIES TakeoverJustified WritesOrdered
CHECK_DEADLOCK FALSE
