-------------------------- MODULE MCGemmaDownload --------------------------
(* Instances of GemmaDownload for TLC. *)
EXTENDS GemmaDownload

CONSTANTS c1, c2, r1, r2

TwoChunks == {c1, c2}
OneRequest == {r1}
TwoRequests == {r1, r2}
AllButReset == AllFaults \ {"reset"}
ResetOnly == {"reset"}
=============================================================================
