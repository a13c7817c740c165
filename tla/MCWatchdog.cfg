SPECIFICATION Spec
CONSTANT
  Timeout = 3
  PollInterval = 1
  MaxTime = 8
  MaxBeats = 2
INVARIANT
  SilenceNoticed
  StopHalts
PROPERTY
  TripMeansSilence
  ResetRearms
CHECK_DEADLOCK FALSE
