SPECIFICATION FairSpec
CONSTANTS
  NULL = NULL
  FileContent = "content"
  MaxLines = 3
  CommandLines <- MCCommandLines
  PortNumber <- MCPortNumber
  Lines <- MCLines
  Stoi <- MCStoi
INVARIANTS
  HandledWhileConnected
  QuitTells
PROPERTIES
  QuitEnds
CHECK_DEADLOCK FALSE
