------------------------ MODULE MCApplyConcurrently ------------------------
(* Instances of ApplyConcurrently for TLC.                                 *)
EXTENDS ApplyConcurrently
=============================================================================
