SPECIFICATION Spec
CONSTANTS
  MaxRows = 2
  COLUMNS = 0
  Settings <- MCSettings
  Sizes = {0, 20, 132}
  Tables <- MCTables
INVARIANTS
  LinesFit
  LinesAligned
  
  CutsKeepText
  NoNeedlessCut
  WiderShowsMore
CHECK_DEADLOCK FALSE
