SPECIFICATION Spec
CONSTANTS
  NULL = NULL
  MaxLines = 4
  Lines <- MCLines
  Stoi <- MCStoi
INVARIANTS
  CommandsAsTyped
CHECK_DEADLOCK FALSE
