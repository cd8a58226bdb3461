CONSTANTS
  Sessions <- MCSessions
  UpdateBatch = 1
SPECIFICATION FairSpec
CHECK_DEADLOCK FALSE
INVARIANTS WakeUp CleanExit Replies
PROPERTIES Terminates
