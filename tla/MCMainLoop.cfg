CONSTANTS
  cc = cc
  hdr = hdr
  Paths <- MCPaths
  Script <- MCScript
  Project <- MCProject
  Mentions <- MCMentions
  UpdateBatch = 1
  Indexers = 1
SPECIFICATION FairSpec
CHECK_DEADLOCK FALSE
INVARIANTS TypeOK BacklogIndexed  ProgressShown
PROPERTIES Answered
