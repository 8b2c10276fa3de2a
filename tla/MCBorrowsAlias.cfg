SPECIFICATION Spec
CONSTANTS
  tAny = tAny
  tSend = tSend
  tSync = tSync
  r1 = r1
  r2 = r2
  r3 = r3
  main = main
  other = other
  Traits <- MCTraits
  Objects <- MCObjects
  Bounds <- MCBounds
  Supers <- MCSupers
  Markers <- MCMarkers
  Refs = {r1, r2, r3}
  Owner = Owner
  Threads = {main, other}
  Home = main
  None = None
INVARIANTS Exclusive
SYMMETRY Symmetry
CHECK_DEADLOCK FALSE
