SPECIFICATION Spec
CONSTANTS
  vLarge = vLarge
  vSmall = vSmall
  vUnit = vUnit
  tSub = tSub
  tSuper = tSuper
  tPlain = tPlain
  Values = {vLarge, vSmall, vUnit}
  Traits = {tSub, tSuper, tPlain}
  Slots = {s1, s2}
  Blocks = {b1, b2}
  Allocators = {a1}
  Global = Global
  Dangling = Dangling
  None = None
  AllocatorApi = TRUE
  Unwinds = {"method"}
  Size <- MCSize
  Supers <- MCSupers
  Boxable <- MCBoxable
  Implements <- MCImplements
INVARIANTS DroppedExactlyOnce
CHECK_DEADLOCK FALSE
