------------------------- MODULE MCLocationTracking -------------------------
(* Small instances of LocationTracking for TLC. *)
EXTENDS LocationTracking
=============================================================================
