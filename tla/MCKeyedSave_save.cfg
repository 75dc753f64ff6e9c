SPECIFICATION Spec
CONSTANTS
  Drawers = {d1, d2}
  Bodies = {b1, b2}
  Jobs = {j1, j2}
  MaxKeys = 2
  MaxHeld = 1
  Faults = {"crash", "auth", "commit"}
  MaxKinds = 1
  NoBody = NoBody
  NoKey = NoKey
  NoJob = NoJob
  NoRow = NoRow
  NoDrawer = NoDrawer
SYMMETRY Symmetric
CHECK_DEADLOCK FALSE
INVARIANTS
  TypeOK
  KeyLandsOnce
  BodyLandsOnce
  LandedIsAnsweredOrHeld
  SavedMeansRecorded
CONSTRAINT Scope
