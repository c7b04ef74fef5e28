SPECIFICATION FairSpec
CONSTANTS
  NULL = NULL
  MaxExtra = 2
  FileContent = "content"
  PortNumber <- MCPortNumber
  Lines <- MCLines
INVARIANTS
  AcceptedRuns
  StatusTells
  SentOnce
  SentIsGiven
  PortRefused
PROPERTIES
  NonInteractiveEnds
CHECK_DEADLOCK FALSE
