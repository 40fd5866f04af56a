-------------------------- MODULE MCUserLifecycle --------------------------
(* Instances of UserLifecycle for TLC: the requests and the steps of the    *)
(* suites.                                                                  *)
EXTENDS UserLifecycle

AdminConditions == ConditionSet(<<Default, ApprovedByAdmin>>)
AutoConditions  == ConditionSet(<<Default, ApprovedAutomatically>>)

(* A user approved by an admin, with a space.                               *)
Approve == [manuallyApprove |-> TRUE, targetCluster |-> TRUE, verificationRequired |-> FALSE, conditions |-> AdminConditions,
            waitForMUR |-> FALSE, ensureMUR |-> TRUE, noSpace |-> FALSE, spaceTier |-> "base", cleanupDisabled |-> FALSE]
Auto    == [Approve EXCEPT !.manuallyApprove = FALSE, !.targetCluster = FALSE, !.conditions = AutoConditions]

Scenario(r, steps) ==
  [request |-> r, steps |-> steps, autoApproval |-> FALSE, verification |-> FALSE, skipUsers |-> FALSE]

MCScenarios ==
  { Scenario(Approve, <<"deactivate", "reactivate">>),
    Scenario(Approve, <<"ban", "unban">>),
    Scenario([Approve EXCEPT !.spaceTier = "appstudio", !.cleanupDisabled = TRUE], <<>>),
    [Scenario([Auto EXCEPT !.noSpace = TRUE, !.ensureMUR = FALSE, !.waitForMUR = TRUE], <<"verifyWithoutSpace">>)
       EXCEPT !.autoApproval = TRUE],
    [Scenario(Auto, <<>>) EXCEPT !.autoApproval = TRUE, !.skipUsers = TRUE],
    [Scenario([Approve EXCEPT !.ensureMUR = FALSE, !.waitForMUR = TRUE], <<"verify">>) EXCEPT !.verification = TRUE] }

MCFaults ==
  {"none", "space", "binding", "account", "user", "templates", "delete", "unbind", "clean", "notify"}

(* A request that needs verification and is not approved.                   *)
VerificationScenarios ==
  { Scenario([Auto EXCEPT !.verificationRequired = TRUE, !.ensureMUR = FALSE, !.conditions = {}], <<>>) }
=============================================================================
