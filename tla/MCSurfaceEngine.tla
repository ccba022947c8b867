-------------------------- MODULE MCSurfaceEngine --------------------------
(* Instances of SurfaceEngine for TLC. *)
EXTENDS SurfaceEngine, TLC

CONSTANTS t1, t2, e1, e2, e3

MCThreads == {t1, t2}
TwoEvents == {e1, e2}
MCBranches == {"main", "experiment"}
MCModes == {"native_ui", "new_keyframe"}
NativeOnly == {"native_ui"}
BranchRoutes == {"commit", "verify", "fork", "switch"}
PacketRoutes == {"observe", "propose", "interact", "commit"}
PassOrRetry == {"pass", "retry"}
RenderRoutes == {"commit", "verify"}
OneText == {"plain"}
TwoTexts == {"plain", "other"}
NoNames == {}
NoParts == {}
(* A name that is no frame's. *)
OneForeign == {FrameOf("client", NoKey, None)}

Symmetry == Permutations(MCThreads) \cup Permutations(EventIds)
=============================================================================
