-------------------------- MODULE MCSurfaceClient --------------------------
(* An instance of SurfaceClient for TLC. *)
EXTENDS SurfaceClient

MCBranches == {"main", "alt"}
MCMain == "main"
=============================================================================
