SPECIFICATION TraitSpec
CONSTANTS
  a1 = a1
  a2 = a2
  a3 = a3
  b = b
  Root = Root
  Stack = 5
  Paths <- MCPaths
  Ident <- MCIdent
  Inputs <- MCInputs
  Identifiers <- MCIdentifiers
  Abis <- MCAbis
  Sources <- MCSources
INVARIANTS TypeOK ParsersTypeOK VerdictCorrect OneParent SubtablesExact FieldNamesDistinct
INVARIANTS StagesInv VerdictOfFirstStage OptionsMeant PredicatesConserved SignaturesAgree ResolvesOtherwise
PROPERTIES MacroEnds
CHECK_DEADLOCK FALSE
