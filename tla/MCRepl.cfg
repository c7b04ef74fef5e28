SPECIFICATION Spec
CONSTANTS
  NULL = NULL
  MaxLines = 4
  Lines <- MCLines
  Stoi <- MCStoi
INVARIANTS
  TypeOK
  AsTypedUnlessWidthSplit
  NoEmptyCommand
  HistoryIsTyped
  WidthAsAsked
CHECK_DEADLOCK FALSE
