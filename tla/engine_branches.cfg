SPECIFICATION Spec
CONSTANTS
  t1 = t1
  t2 = t2
  e1 = e1
  e2 = e2
  e3 = e3
  None = None
  Texts <- TwoTexts
  PatchedFrames <- OneForeign
  PatchedParts <- NoParts
  Separators = FALSE
  Threads <- MCThreads
  EventIds <- TwoEvents
  Branches <- MCBranches
  Main = "main"
  Modes <- MCModes
  Routes <- BranchRoutes
  Verdicts <- PassOrRetry
  MaxRetries = 1
  MaxStates = 4
  MaxCrashes = 1
INVARIANTS
  RefsNameSavedStates
  
  LogReplaysToRefs
  ReferencedArtifactsExist
  FrameProvenance
PROPERTIES
  RefsOnlyAdvance
  TornLineIsLast
SYMMETRY Symmetry
CHECK_DEADLOCK FALSE
