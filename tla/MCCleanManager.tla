--------------------------- MODULE MCCleanManager ---------------------------
(* Model values for CleanManager: two tests, one with two objects.         *)
EXTENDS CleanManager

CONSTANTS ta, tb, k1, k2, k3

MCTest  == {ta, tb}
MCTask  == {k1, k2, k3}
MCOwner == [k \in MCTask |-> IF k = k3 THEN tb ELSE ta]
=============================================================================
