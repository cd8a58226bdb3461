CONSTANTS
  a = a
  h = h
  i1 = i1
  i2 = i2
  NoIndex = NoIndex
  NoPath = NoPath
  Usrs = {}
  Rels = {}
  Occs <- MCOccs
  Includes <- MCIncludes
  Related <- MCRelated
  Prio <- MCPrio
  IndexAt <- MCIndexAt
  Files <- SmallFiles
  Entries <- SmallEntries
  Indexers = {i1}
  MaxMtime = 2
  HasCacheDir = TRUE
  Retain = 2
  TrackDependency = 2
  InitialNoLinkage = FALSE
  Budget <- OverlapBudget
  Overlap = TRUE
SPECIFICATION Spec
CHECK_DEADLOCK FALSE
INVARIANT RefcntAssertion
