SPECIFICATION FairSpec
CONSTANTS
  Names <- MCNames
  Programs <- EventPrograms
  ArgLines <- RunMain
  Keyboard <- NoLine
  Outcomes = {0, 2}
  MaxLevel = 4
  MaxCond = 2
  MaxWhile = 2
  MaxRepeat = 4
  MaxTyped = 0
  MaxBreaks = 2
  MaxGosub = 2
  MaxNest = 6
  MaxDrift = 1
CHECK_DEADLOCK FALSE
INVARIANTS ErrorAnswered LineConsumedOnce
PROPERTIES Terminates BreakServed
