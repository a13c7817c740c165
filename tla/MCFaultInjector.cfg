SPECIFICATION FaultSpec
CONSTANT
  Brakes = {b1, b2}
  Faults <- MCFaults
  Scripts <- MCScripts
  Positions <- MCPositions
  Noise = 0
  Offset = 1
  Resolution = 2
  NaN = NaN
  None = None
INVARIANT
  ServoHistoryMatchesState
  StoppedUntilCleared
  TriggerHoldsBrakes
  FaultsAsInjected
  InjectionStopsRobot
  EncoderTells
