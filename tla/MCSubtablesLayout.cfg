SPECIFICATION Spec
CONSTANTS
  a1 = a1
  a2 = a2
  a3 = a3
  b = b
  Root = Root
  Stack = 5
  Paths <- MCPaths
  Ident <- MCIdent
  Inputs <- ClashInputs
INVARIANTS LayoutFollowsEntries
CHECK_DEADLOCK FALSE
