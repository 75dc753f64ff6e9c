SPECIFICATION Spec
CONSTANTS
  Shifts = {s1, s2}
  LastDay = 2
  Drawers = {dr1, dr2}
  Entries = {e1}
  Sales = {x1}
  Attendants = {a1}
  MaxCloses = 2
  NoShift = NoShift
  NoDay = NoDay
  NoEntry = NoEntry
  NoSummary = NoSummary
  NoSnapshot = NoSnapshot
SYMMETRY Symmetric
INVARIANTS
  SummaryTracksLedger
  OnTimeCreditIsReported
  SealedDayHasNoOpenShift
  SettledShiftsAreHandedOver
PROPERTIES
  StockSealed
  ClosingIsFinal
  ImplementsContract
CONSTRAINT Scope
