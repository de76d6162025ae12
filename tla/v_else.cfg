SPECIFICATION Spec
CONSTANTS
  Names <- MCNames
  Programs <- NestedElsePrograms
  ArgLines <- RunMain
  Keyboard <- NoLine
  Outcomes = {0, 2}
  MaxLevel = 4
  MaxCond = 2
  MaxWhile = 2
  MaxRepeat = 4
  MaxTyped = 0
  MaxBreaks = 0
  MaxGosub = 2
  MaxNest = 4
  MaxDrift = 1
CHECK_DEADLOCK FALSE
INVARIANTS EnclosingTrue
