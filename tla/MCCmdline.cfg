SPECIFICATION FairSpec
CONSTANTS
  MaxArguments = 4
  Options <- MCOptions
  HasValue <- MCHasValue
  Need <- MCNeed
  short_name <- MCshort_name
  Default <- MCDefault
  Reads <- MCReads
  Lines <- MCLines
INVARIANTS
  TypeOK
  ParsedAsGiven
  AcceptedIsComplete
  HelpWins
  ValuesAreRead
PROPERTIES
  Answered
CHECK_DEADLOCK FALSE
