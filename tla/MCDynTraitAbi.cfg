SPECIFICATION TraitSpec
CONSTANTS
  a1 = a1
  a2 = a2
  a3 = a3
  b = b
  Root = Root
  Stack = 5
  Paths <- MCPaths
  Ident <- MCIdent
  Inputs <- MCInputs
  Identifiers <- MCIdentifiers
  Abis <- MCAbis
  Sources <- OptionSources
INVARIANTS DocumentedAbisTaken
CHECK_DEADLOCK FALSE
