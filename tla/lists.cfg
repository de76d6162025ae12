SPECIFICATION Spec
CONSTANTS
  a1 = a1
  a2 = a2
  a3 = a3
  a4 = a4
  a5 = a5
  a6 = a6
  NULL = NULL
  NONE = NONE
  Addresses <- SixNodes
  Data <- TwoData
SYMMETRY Alike
CHECK_DEADLOCK FALSE
INVARIANT WellLinked
PROPERTY ImplementsCursorList
