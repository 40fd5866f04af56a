---------------------------- MODULE MCCleanTask ----------------------------
(* An instance of CleanTask for TLC: the task starts with an object of any  *)
(* kind.                                                                    *)
EXTENDS CleanTask

AllKinds == {"UserSignup", "NSTemplateTier", "Other"}
=============================================================================
