SPECIFICATION FairSpec
CONSTANTS
  MaxVersion = 2
  Handles = {h1, h2, h3}
  Calls = {c1, c2}
  Platforms = {"macos", "windows"}
  NoHandle = NoHandle
  NoCall = NoCall
INVARIANTS
  PhaseTellsTheCall
  OfferIsHeld
PROPERTIES
  NoDowngrade
  SilentUnlessAsked
  AskedIsAnswered
