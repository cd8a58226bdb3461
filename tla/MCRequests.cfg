SPECIFICATION Spec
CONSTANTS
  Columns = 8
  MaxLine = 11
  MaxNum = 9
  KMaxDiff = 4
  LastBuiltin = 3
INVARIANTS
  TokensKept
  JumpLands
  
  OutlineNested
  HighlightInnermost
  HierarchyDual
CHECK_DEADLOCK FALSE
