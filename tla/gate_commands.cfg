SPECIFICATION Spec
CONSTANTS
  Text <- MCText
  Namespaced <- MCNamespaced
  Targets <- MCTargets
  Spawned <- MCSpawned
  Values <- MCValues
  InputKey <- MCInputKey
  Proposals <- MCProposals
  MaxCommits = 3
INVARIANTS
  TypeOK
  WorldIsSound
  QueuedNamesItsJob
  ProtectedIsKept
  OwnPatchesApply
PROPERTIES
  IdentityIsKept
  PacketsKeepObjects
CHECK_DEADLOCK FALSE
