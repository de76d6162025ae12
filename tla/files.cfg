SPECIFICATION Spec
CONSTANTS
  in = in
  out = out
  sys = sys
  a = a
  FileNames <- TwoFileNames
  DefinedNames = {}
  SystemNames <- SystemName
  Files <- OneFile
  Records <- NewRecord
  Content <- AnyContent
  Disks <- AnyDisk
  Qualifiers <- AnyQualifiers
  LOGICAL_MAX = 3
  Slots = 2
  MaxRecords = 2
CHECK_DEADLOCK FALSE
INVARIANTS FilesTypeOK LeadsToItsFile
PROPERTIES SystemNamesStay ReadsNext 
SYMMETRY Alike
VIEW Defined
