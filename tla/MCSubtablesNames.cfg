SPECIFICATION Spec
CONSTANTS
  a1 = a1
  a2 = a2
  a3 = a3
  b = b
  Root = Root
  Stack = 5
  Paths <- MCPaths
  Ident <- ClashIdent
  Inputs <- ClashInputs
INVARIANTS FieldNamesDistinct
CHECK_DEADLOCK FALSE
