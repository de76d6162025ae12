SPECIFICATION Spec
CONSTANTS
  Files <- SomeFiles
  Types <- SomeTypes
  Ways <- TwoWays
  Dotted <- WithType
  Pieces = {1, 2, 3}
  Commands <- SomeCommands
  Disks <- SomeDisks
  MaxCommands = 1
  MaxEvents = 2
CHECK_DEADLOCK FALSE
INVARIANTS FileTypeOK Confirmed NothingMissed TreeCopied
PROPERTIES SourceKept BreakStops CommandEnds
