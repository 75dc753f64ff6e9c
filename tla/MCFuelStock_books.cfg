SPECIFICATION Spec
CONSTANTS
  MaxShifts = 2
  MaxCloses = 2
  MaxTankers = 2
  MaxPumped = 2
  MaxTests = 1
  Loads = {1, 2}
  FirstMeter = 0
  FirstLevel = 1
CHECK_DEADLOCK FALSE
CONSTRAINT Scope
INVARIANTS
  TypeOK
  MeterContinuity
  SalesFollowMeters
  NoPhantomVariance
  ReceivedIsUnloaded
  BookFollowsTank
