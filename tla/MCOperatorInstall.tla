------------------------- MODULE MCOperatorInstall -------------------------
(* Instances of OperatorInstall for TLC.                                   *)
EXTENDS OperatorInstall
=============================================================================
