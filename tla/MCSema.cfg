CONSTANTS
  source = source
  header = header
  Paths <- MCPaths
  Includes <- MCIncludes
  Rank <- MCRank
  BoundsOf <- MCBoundsOf
  Starts <- MCStarts
  DropOldRequests = TRUE
  OnOpen = 0
  OnSave = 0
  OnChange = 1
  MaxMessages = 3
SPECIFICATION FairSpec
CHECK_DEADLOCK FALSE
INVARIANTS TypeOK OneOwner DebounceCovered 
PROPERTIES Answered 
