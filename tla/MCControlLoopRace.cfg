SPECIFICATION Spec
CONSTANT
  Callers = {c1, c2}
  MaxStarts = 3
  TakeTurns = FALSE
  None = None
CHECK_DEADLOCK FALSE
INVARIANT
  StopHalts
