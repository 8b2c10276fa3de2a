SPECIFICATION FairSpec
CONSTANTS
  Base = Base
  Left = Left
  Right = Right
  Top = Top
  m1 = m1
  m2 = m2
  Traits <- MCTraits
  Methods = {m1, m2}
  Programs <- MCPrograms
  MaxMethods = 2
  None = None
INVARIANTS TypeOK WordsInPlace DispatchInv
PROPERTIES ImplementsTraitObject SubtablesFound
CHECK_DEADLOCK FALSE
