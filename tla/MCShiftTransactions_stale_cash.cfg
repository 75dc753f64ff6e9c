SPECIFICATION Spec
CONSTANTS
  Clients = {c1, c2}
  Shifts = {s1}
  Entries = {}
  Sales = {x1}
  Kinds = {"Open", "Handover", "Close", "Sale"}
  MaxRequests = 3
  NoRequest = NoRequest
  NoSummary = NoSummary
  NoSnapshot = NoSnapshot
  NoEntry = NoEntry
  NoDay = NoDay
  NoShift = NoShift
  NoRead = NoRead
CHECK_DEADLOCK FALSE
INVARIANT
  CounterCashIsCounted
