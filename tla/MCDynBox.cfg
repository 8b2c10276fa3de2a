SPECIFICATION FairSpec
CONSTANTS
  vLarge = vLarge
  vSmall = vSmall
  vUnit = vUnit
  tSub = tSub
  tSuper = tSuper
  tPlain = tPlain
  Values = {vLarge, vSmall, vUnit}
  Traits = {tSub, tSuper, tPlain}
  Slots = {s1, s2}
  Blocks = {b1, b2}
  Allocators = {a1}
  Global = Global
  Dangling = Dangling
  None = None
  AllocatorApi = TRUE
  Unwinds = {}
  Size <- MCSize
  Supers <- MCSupers
  Boxable <- MCBoxable
  Implements <- MCImplements
INVARIANTS TypeOK SoleOwner OwnerReachesValue DroppedExactlyOnce ContractsKept NoBlockLeaks NoValueLeaks AllocatorConserved
PROPERTIES OccupiedBlockStays VacatedBlockFreed ImplementsOwnedValues
CHECK_DEADLOCK FALSE
