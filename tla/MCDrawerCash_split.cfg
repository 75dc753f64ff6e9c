SPECIFICATION Spec
CONSTANTS
  LastDu = 2
  Attendants = {a1, a2}
  Counter = Counter
  MaxRupees = 2
  MaxDrops = 1
  MaxFloat = 0
  NoHandover = NoHandover
  NoSummary = NoSummary
SYMMETRY Symmetric
INVARIANT SplitAddsUp
