SPECIFICATION Spec
CONSTANTS
  DEPTH = 3
  MaxCommands = 7
  Torn = Torn
  NoFile = NoFile
  Throws = Throws
INVARIANTS
  TypeOK
  HistoryIsRecent
  FullHistoryAnswers
  NewestFirst
PROPERTIES
  WholeOrNothing
  ImplementsRecentLog
CHECK_DEADLOCK FALSE
