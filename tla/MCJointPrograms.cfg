SPECIFICATION ProgramSpec
CONSTANT
  MinPosition <- MCMin
  MaxPosition <- MCMax
  MaxVelocity = 8
  MaxAcceleration = 2
  PositionGain = 1
  NaN = NaN
  Commands <- MCCommands
  Steps <- MCSteps
  Margin = 16
  Positions <- MCPositions
  BenchmarkTarget = 9
  Ambient = 100
  HeatPerSpeed = 5
  MaxSafeCelsius = 360
  MaxSafeAmps = 40
  Rating = 2
  Torques <- MCTorques
  Channels = {0}
  Low = 0
  High = 1
  Levels <- MCLevels
INVARIANT
  WithinLimits
  PhasesMeet
  NoTimeWasted
PROPERTY
  MotionIsBounded
  SettlesOnTarget
  WarnedBeforeLimit
CHECK_DEADLOCK FALSE
