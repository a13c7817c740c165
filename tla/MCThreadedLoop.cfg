SPECIFICATION LoopSpec
CONSTANT
  Callers = {c1, c2}
  MaxStarts = 4
  TakeTurns = TRUE
  None = None
  Period = 2
  MaxWork = 5
  MaxOversleep = 1
  MaxCycles = 4
INVARIANT
  OneLoopAtATime
  StopHalts
  CyclesSpaced
  MetricsTellTheSchedule
PROPERTY
  CallsReturn
CHECK_DEADLOCK FALSE
