SPECIFICATION AuditSpec
CONSTANTS
  t1 = t1
  t2 = t2
  e1 = e1
  e2 = e2
  e3 = e3
  None = None
  Texts <- OneText
  PatchedFrames <- NoNames
  PatchedParts <- LoseEither
  Separators = FALSE
  Threads <- MCThreads
  EventIds <- TwoEvents
  Branches <- MCBranches
  Main = "main"
  Modes <- MCModes
  Routes <- HistoryRoutes
  Verdicts <- PassOrRetry
  MaxRetries = 1
  MaxStates = 4
  MaxCrashes = 0
INVARIANTS
  ReplayNeverAlarms
PROPERTIES
  ImplementsWorldHistory
SYMMETRY Symmetry
CHECK_DEADLOCK FALSE
