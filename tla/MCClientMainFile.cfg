SPECIFICATION Spec
CONSTANTS
  NULL = NULL
  MaxExtra = 2
  FileContent = "content"
  PortNumber <- MCPortNumber
  Lines <- MCLines
INVARIANTS
  FileWasRun
CHECK_DEADLOCK FALSE
