----------------------------- MODULE Conditions -----------------------------
(***************************************************************************)
(* The status conditions the test suites wait for                          *)
(* (testsupport/wait/conditions.go): a condition has a type, a status and  *)
(* a reason, and is compared by all of them.                               *)
(***************************************************************************)
EXTENDS Naturals, Sequences

Condition(type, status, reason) == [type |-> type, status |-> status, reason |-> reason]

(* ConditionSet: a condition of one set counts unless a later set has one   *)
(* of its type.                                                             *)
Overridden(sets, i, c) == \E j \in DOMAIN sets : j > i /\ \E d \in sets[j] : c.type = d.type
ConditionSet(sets)     == UNION {{c \in sets[i] : ~Overridden(sets, i, c)} : i \in DOMAIN sets}
Override(set, later)   == ConditionSet(<<set, later>>)

-----------------------------------------------------------------------------
(* The conditions of a UserSignup.                                          *)

Approved(status, reason)     == Condition("Approved", status, reason)
Completed(status, reason)    == Condition("Complete", status, reason)
Deactivating(status, reason) == Condition("UserDeactivatingNotificationCreated", status, reason)
Notified(status, reason)     == Condition("UserDeactivatedNotificationCreated", status, reason)

Default                  == {Notified(FALSE, "UserIsActive"), Deactivating(FALSE, "UserNotInPreDeactivation")}
PendingApproval          == {Approved(FALSE, "PendingApproval"), Completed(FALSE, "PendingApproval")}
ApprovedAutomatically    == {Approved(TRUE, "ApprovedAutomatically"), Completed(TRUE, "")}
ApprovedByAdmin          == {Approved(TRUE, "ApprovedByAdmin"), Completed(TRUE, "")}
PendingApprovalNoCluster == {Completed(FALSE, "NoClusterAvailable")}
Rejected                 == {Completed(TRUE, "Rejected")}
VerificationRequired     == {Completed(FALSE, "VerificationRequired")}
UserSignupMissingEmail   == Default \cup {Completed(FALSE, "MissingUserEmail")}
PreDeactivation          == {Deactivating(TRUE, "NotificationCRCreated")}

(* Faulty variant: the reason of the condition is left out.                 *)
BannedWithoutReason == {Completed(TRUE, "")}

Banned == {Completed(TRUE, "Banned")}

DeactivatedWithoutPreDeactivation ==
  {Completed(TRUE, "Deactivated"), Notified(TRUE, "NotificationCRCreated"), Approved(FALSE, "Deactivated")}

DeactivatedWithoutNotification ==
  {Completed(TRUE, "Deactivated"), Notified(FALSE, "UserIsActive"), Approved(FALSE, "Deactivated")}

Deactivated ==
  DeactivatedWithoutPreDeactivation \cup PreDeactivation

DeactivatedWithoutDeactivating ==
  DeactivatedWithoutPreDeactivation \cup {Deactivating(FALSE, "UserNotInPreDeactivation")}

Complete == Completed(TRUE, "")

-----------------------------------------------------------------------------
(* The states of a UserSignup in the combinations the suites wait for:      *)
(* those of an active user, and the others.                                 *)

ActiveStates ==
  {ConditionSet(<<Default, ApprovedAutomatically>>), ConditionSet(<<Default, ApprovedByAdmin>>),
   ConditionSet(<<Default, ApprovedByAdmin, PreDeactivation>>),
   ConditionSet(<<Default, ApprovedAutomatically, PreDeactivation>>)}

OtherStates ==
  <<ConditionSet(<<Default, PendingApproval>>),
    ConditionSet(<<Default, VerificationRequired>>),
    ConditionSet(<<Default, ApprovedByAdmin, PendingApprovalNoCluster>>),
    ConditionSet(<<Default, PendingApproval, PendingApprovalNoCluster>>),
    ConditionSet(<<Default, ApprovedByAdmin, Banned>>),
    ConditionSet(<<Default, Rejected>>),
    ConditionSet(<<ApprovedByAdmin, UserSignupMissingEmail>>),
    ConditionSet(<<DeactivatedWithoutDeactivating>>),
    ConditionSet(<<Default, DeactivatedWithoutNotification>>),
    ConditionSet(<<ApprovedAutomatically, Deactivated>>)>>
=============================================================================
