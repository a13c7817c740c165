SPECIFICATION FairBridgeSpec
CONSTANT
  MinPosition <- MCMin
  MaxPosition <- MCMax
  MaxVelocity = 1
  MaxAcceleration = 1
  PositionGain = 1
  NaN = NaN
  None = None
  JointCount = 2
  BridgeJoints = 2
  Targets <- MCTargets
  RequestTypes <- MCRequestTypes
INVARIANT
  ServosOffMeansDisabled
  StopRepliesHold
PROPERTY
  EStopIsFinal
  MotionOnlyWhileMoving
  ErrorMeansNoEffect
  WritesInOrder
  BridgeCallsReturn
