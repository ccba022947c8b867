-------------------------- MODULE MCSurfaceHistory --------------------------
(* Instances of SurfaceHistory and ReplayAudit for TLC. *)
EXTENDS SurfaceHistory, ReplayAudit, TLC

CONSTANTS t1, t2, e1, e2, e3

MCThreads == {t1, t2}
TwoEvents == {e1, e2}
MCBranches == {"main", "experiment"}
ImageOnly == {"new_keyframe"}
CommitOnly == {"commit"}
MCModes == {"native_ui", "new_keyframe"}
HistoryRoutes == {"commit", "verify", "fork", "switch"}
PassOrRetry == {"pass", "retry"}
OneText == {"plain"}
NoNames == {}
NoParts == {}
LoseEither == {{"meta_model"}, {"node.renderer"}}

Symmetry == Permutations(MCThreads) \cup Permutations(EventIds)
=============================================================================
