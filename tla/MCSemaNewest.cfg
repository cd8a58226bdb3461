CONSTANTS
  source = source
  header = header
  Paths <- MCPaths
  Includes <- MCIncludes
  Rank <- MCRank
  BoundsOf <- MCBoundsOf
  Starts <- MCStartBothOpen
  DropOldRequests = TRUE
  OnOpen = 0
  OnSave = 0
  OnChange = 1
  MaxMessages = 3
SPECIFICATION Spec
CHECK_DEADLOCK FALSE
INVARIANTS NewestKept
