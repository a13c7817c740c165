SPECIFICATION Spec
CONSTANT
  MinPosition <- MCMin
  MaxPosition <- MCMax
  MaxVelocity = 5
  MaxAcceleration = 1
  PositionGain = 1
  NaN = NaN
  Commands <- MCCommandsWithNaN
  Steps <- MCSteps
INVARIANT
  StateWithinLimits
