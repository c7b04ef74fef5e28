SPECIFICATION FairSpec
CONSTANTS
  NULL = NULL
  MaxLines = 2
  Lines <- MCLines
  Stoi <- MCStoi
PROPERTIES
  EofEnds
CHECK_DEADLOCK FALSE
