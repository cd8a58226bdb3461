SPECIFICATION Spec
CONSTANTS
  KMaxDiff = 2
  Radix = 8
  Versions <- MCVersions
  PathMappings <- MCPathMappings
  KMaxText = 8
  KMinScore <- MCMinScore
  CharOrder <- MCCharOrder
  MaxNum = 4
  WorkspaceMaxNum = 4
  MaxLines = 3
  PrependArgs <- MCPrependArgs
  ExtraArgs <- MCExtraArgs
  MaxLoads = 2
INVARIANTS
  LinesConsistent
  
  CompletionEdits
  
  ArgsAgree
CHECK_DEADLOCK FALSE
