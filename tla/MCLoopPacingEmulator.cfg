SPECIFICATION PacingSpec
CONSTANT
  Period = 2
  MaxWork = 5
  MaxOversleep = 0
  MaxCycles = 4
INVARIANT
  EmulatorCyclesSpaced
CHECK_DEADLOCK FALSE
