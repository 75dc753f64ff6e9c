SPECIFICATION Spec
CONSTANTS
  Shifts = {s1}
  LastDay = 1
  Drawers = {dr1}
  Entries = {}
  Sales = {}
  Attendants = {}
  MaxCloses = 2
  NoShift = NoShift
  NoDay = NoDay
  NoEntry = NoEntry
  NoSummary = NoSummary
  NoSnapshot = NoSnapshot
INVARIANT
  MeteredSalesBookedOnce
