SPECIFICATION Spec
CONSTANTS
  Clients = {c1, c2}
  Shifts = {s1}
  Entries = {e1}
  Sales = {x1}
  Kinds = {"Open", "Handover", "Close", "Reopen", "Lock", "CloseDay", "Credit", "Void", "Sale", "Merch", "DeleteMerch", "Report"}
  MaxRequests = 4
  NoRequest = NoRequest
  NoSummary = NoSummary
  NoSnapshot = NoSnapshot
  NoEntry = NoEntry
  NoDay = NoDay
  NoShift = NoShift
  NoRead = NoRead
CHECK_DEADLOCK FALSE
INVARIANTS
  SummaryMatchesTables
  PostedCashIsSummaryCash
  OnTimeCreditIsReported
  CanonicalOrderNeverKnots
PROPERTIES
  SalesCommitIntoRunningShift
  VerdictsStand
  RequestsEnd
