SPECIFICATION Spec
CONSTANTS
  LastDu = 2
  Attendants = {a1, a2}
  Counter = Counter
  MaxRupees = 2
  MaxDrops = 1
  MaxFloat = 1
  NoHandover = NoHandover
  NoSummary = NoSummary
SYMMETRY Symmetric
INVARIANTS
  SplitAccountedFor
  VarianceIsShortage
  NoCashCountedTwice
  OfficeIsNotBlamed
