SPECIFICATION FairSpec
CONSTANTS
  c1 = c1
  c2 = c2
  r1 = r1
  r2 = r2
  Chunks <- TwoChunks
  Size = 2
  Workers = 2
  Attempts = 3
  Requests <- OneRequest
  Faults <- ResetOnly
  Kills = FALSE
PROPERTIES
  SavedChunksArrive
CHECK_DEADLOCK FALSE
