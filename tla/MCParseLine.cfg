SPECIFICATION Spec
CONSTANTS
  MaxErrors = 2
  MaxLength = 5
  Texts <- MCTexts
  Given <- MCGiven
INVARIANTS
  SplitAsWritten
  ErrorsTell
  QuotedComesBack
PROPERTIES
  SplitIfClosed
CHECK_DEADLOCK FALSE
