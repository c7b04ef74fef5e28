SPECIFICATION Spec
CONSTANTS
  Session = {s1, s2, s3}
  DEPTH = 2
  Torn = Torn
  MaxLines = 5
  Lines <- MCLines
  Commands <- MCCommands
SYMMETRY Symmetry
INVARIANTS
  OnlyStarts
PROPERTIES
  SaveAddsLines
CHECK_DEADLOCK FALSE
