SPECIFICATION Spec
CONSTANTS
  Clients = {c1, c2}
  Shifts = {s1, s2}
  Entries = {e1}
  Sales = {x1}
  Kinds = {"Open", "Handover", "Close", "Reopen", "Lock", "CloseDay", "Credit", "Void", "Sale", "Merch"}
  MaxRequests = 3
  NoRequest = NoRequest
  NoSummary = NoSummary
  NoSnapshot = NoSnapshot
  NoEntry = NoEntry
  NoDay = NoDay
  NoShift = NoShift
  NoRead = NoRead
CHECK_DEADLOCK FALSE
PROPERTIES
  ImplementsLifecycle
