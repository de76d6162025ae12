SPECIFICATION Spec
CONSTANTS
  Subjects = {"expression", "call", "format", "name", "command", "time", "search"}
  Vocabularies <- SomeVocabularies
  MaxTokens = 5
  MaxPieces = 3
  MaxNames = 4
  symbol_names <- SymbolNames
  symbol_value <- SymbolValues
  logical <- SomeLogicals
  Tables <- SomeTables
  Qualifiers = {"B", "C1", "C2"}
  WithValue = {"B"}
  Keys <- SomeKeys
  ParamTexts = {"", "t"}
  MaxWords = 4
  FirstYear = 2023
  LastYear = 2026
  Clocks = {0, 700}
  Deltas <- SomeDeltas
  MaxReads = 2
  Streams = {0, 1}
  Patterns = {"COM", "DAT", "NONE"}
  Matches <- SomeMatches
CHECK_DEADLOCK FALSE
INVARIANTS  NamesKept LineUnderstood
PROPERTIES NamesItsDay SearchComplete
