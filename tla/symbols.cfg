SPECIFICATION Spec
CONSTANTS
  Names <- SomeNames
  Prefixes <- TheirPrefixes
  Values <- SomeValues
  Parameters <- OneParameter
  Patterns <- SomePatterns
  MaxLevel = 2
  MaxSymbols <- FewSymbols
CHECK_DEADLOCK FALSE
INVARIANTS SymbolsTypeOK
PROPERTIES ImplementsTables DeleteEnds
