SPECIFICATION ThreadSpec
CONSTANTS
  c1 = c1
  c2 = c2
  r1 = r1
  r2 = r2
  Chunks <- TwoChunks
  Size = 2
  Workers = 2
  Attempts = 3
  Requests <- TwoRequests
  Faults <- AllButReset
  Kills = TRUE
INVARIANTS
  TypeOK
  CompleteChunksAreSound
PROPERTIES
  BytesAreKept
  DownloadsEnd
CHECK_DEADLOCK FALSE
