---------------------------- MODULE MCSetupJobs ----------------------------
(* Instances of SetupJobs for TLC.                                         *)
EXTENDS SetupJobs, TLC

CONSTANTS s1, s2, i1

(* Two routines share the signups of three users, a third one updates the  *)
(* idlers of the first user.                                               *)
MCJob     == {"signup", "idler"}
MCRoutine == {s1, s2, i1}
MCJobOf   == [r \in MCRoutine |-> IF r = i1 THEN "idler" ELSE "signup"]
MCTotal   == [j \in MCJob |-> IF j = "signup" THEN 3 ELSE 1]
=============================================================================
