SPECIFICATION Spec
CONSTANTS
  in = in
  out = out
  sys = sys
  a = a
  FileNames <- TwoFileNames
  DefinedNames <- OneFileName
  SystemNames <- SystemName
  Files <- OneFile
  Records <- NewRecord
  Content <- AnyContent
  Disks <- AnyDisk
  Qualifiers <- AnyQualifiers
  LOGICAL_MAX = 3
  Slots = 2
  MaxRecords = 2
CHECK_DEADLOCK FALSE
PROPERTY ClosesItsFile
