SPECIFICATION Spec
CONSTANTS
  KeyNames = {"F1"}
  KeyDefs <- MCKeyDefs
  NoKey = NoKey
  Chars <- MCChars
  NUL = NUL
  BLANK = " "
  AT = "@"
  DASH = "-"
  Files <- MCFiles
  Unset = Unset
  Residues = {"a"}
  Leftovers <- MCLeftovers
  RecallText <- MCRecallText
  NodeLen = 2
  Cells = 4
  Length <- MCLength
  MAX_KBD_STACK = 1
  TabAt = {"confirm"}
  MaxLines <- MCMaxLines
INVARIANTS EditorTypeOK
PROPERTIES ImplementsTextLine RecallLeavesNoTrace
CHECK_DEADLOCK FALSE
