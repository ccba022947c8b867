---------------------------- MODULE MCPromptRuns ----------------------------
(* Instances of PromptRuns for TLC. *)
EXTENDS PromptRuns

CONSTANTS t1, t2

TwoThreads == {t1, t2}
=============================================================================
