SPECIFICATION Spec
CONSTANTS
  Names <- MCNames
  Programs <- AllPrograms
  ArgLines <- RunMain
  Keyboard <- StepLines
  Outcomes = {0, 2}
  MaxLevel = 4
  MaxCond = 2
  MaxWhile = 2
  MaxRepeat = 4
  MaxTyped = 4
  MaxBreaks = 0
  MaxGosub = 2
  MaxNest = 4
  MaxDrift = 1
CHECK_DEADLOCK FALSE
INVARIANTS TypeOK LevelsAgree UnusedLevelsClear RunsItsOwnLine ReturnsAfterCall BlocksKept
PROPERTIES OuterLevelsKept ActivationsOrdered EndWhileLoopsToWhile
