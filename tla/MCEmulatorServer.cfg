SPECIFICATION FairSpec
CONSTANT
  MinPosition <- MCMin
  MaxPosition <- MCMax
  MaxVelocity = 1
  MaxAcceleration = 1
  PositionGain = 1
  NaN = NaN
  None = None
  JointCount = 1
  Targets <- MCTargets
  RequestTypes <- MCRequestTypes
  TimeoutPolls = 2
INVARIANT
  TestedStateHolds
  TransientStatesUnseen
PROPERTY
  ImplementsService
  WaitersServed
  LockupDetected
