------------------------- MODULE UserLifecycleProofs -------------------------
(***************************************************************************)
(* Proofs about UserLifecycle, for any scenarios: any request and any      *)
(* order of verifications, deactivations, reactivations, bans and unbans,  *)
(* next to operators that may fail to do any of the things they should do. *)
(***************************************************************************)
EXTENDS UserLifecycle, SequenceTheorems, TLAPS

-----------------------------------------------------------------------------
(* Sets of conditions.                                                      *)

LEMMA OneSet ==
  ASSUME NEW A
  PROVE  ConditionSet(<<A>>) = A
  BY DEF ConditionSet, Overridden

LEMMA TwoSets ==
  ASSUME NEW A, NEW B, NEW c
  PROVE  c \in ConditionSet(<<A, B>>) <=> c \in B \/ (c \in A /\ \A d \in B : c.type # d.type)
  BY DEF ConditionSet, Overridden

LEMMA ThreeSets ==
  ASSUME NEW A, NEW B, NEW C, NEW c
  PROVE  c \in ConditionSet(<<A, B, C>>) <=>
           \/ c \in C
           \/ c \in B /\ \A d \in C : c.type # d.type
           \/ c \in A /\ \A d \in B \cup C : c.type # d.type
  BY DEF ConditionSet, Overridden

-----------------------------------------------------------------------------
(* The plan of a test.                                                      *)

PartNames ==
  {"signup", "conditions", "murExists", "move", "ensureMUR", "ensureMURWithoutSpace", "addTask"}
    \cup Verifications \cup Changes

(* The parts that may follow the signup.                                    *)
Later == {name \in PartNames : /\ name # "signup"
                               /\ name \in {"ensureMURWithoutSpace", "verifyWithoutSpace"} => ~WithSpace}

Headed(s) == /\ s \in Seq(PartNames)
             /\ Len(s) >= 1 /\ s[1] = "signup"
             /\ \A i \in 2..Len(s) : s[i] \in Later

LEMMA HeadedConcat ==
  ASSUME NEW s, NEW t, Headed(s), t \in Seq(Later)
  PROVE  Headed(s \o t)
<1>1. t \in Seq(PartNames) /\ s \in Seq(PartNames)
  BY SeqMonotonic DEF Later, Headed
<1>2. Len(s) \in Nat /\ Len(t) \in Nat /\ \A i \in 1..Len(t) : t[i] \in Later
  BY <1>1, LenProperties, ElementOfSeq
<1>. QED
  BY <1>1, <1>2, ConcatProperties DEF Headed

LEMMA ScenarioSteps ==
  ASSUME scenario \in Scenarios
  PROVE  scenario.steps \in Seq(Later)
<1>1. scenario.steps \in Seq(Verifications \cup Changes)
  BY ScenariosAssumption DEF ScenariosAssumption
<1>2. DOMAIN scenario.steps = 1..Len(scenario.steps) /\ Len(scenario.steps) \in Nat
  BY <1>1, LenProperties
<1>3. \A i \in 1..Len(scenario.steps) : scenario.steps[i] \in Later
  <2>. SUFFICES ASSUME NEW i \in 1..Len(scenario.steps)
                PROVE  scenario.steps[i] \in Later
    OBVIOUS
  <2>1. scenario.steps[i] \in Verifications \cup Changes
    BY <1>1, ElementOfSeq
  <2>2. scenario.steps[i] = "verifyWithoutSpace" => ~WithSpace
    BY <1>2, ScenariosAssumption DEF ScenariosAssumption, WithSpace, request
  <2>. QED
    BY <2>1, <2>2 DEF Later, PartNames, Verifications, Changes
<1>. QED
  BY <1>1, <1>2, <1>3, LenProperties, SeqDef

LEMMA Optional ==
  ASSUME NEW S, NEW c, NEW s \in Seq(S)
  PROVE  If(c, s) \in Seq(S)
<1>1. CASE c
  BY <1>1 DEF If
<1>2. CASE ~c
  BY <1>2, EmptySeq DEF If
<1>. QED
  BY <1>1, <1>2

LEMMA PlanHeaded ==
  ASSUME scenario \in Scenarios
  PROVE  Headed(Plan)
<1>1. Headed(<<"signup">>)
  BY DEF Headed, PartNames
<1>2. If(request.conditions # {}, <<"conditions">>) \in Seq(Later)
  <2>1. <<"conditions">> \in Seq(Later)
    BY DEF Later, PartNames
  <2>. QED
    BY <2>1, Optional
<1>3. If(request.waitForMUR, <<"murExists">>) \in Seq(Later)
  <2>1. <<"murExists">> \in Seq(Later)
    BY DEF Later, PartNames
  <2>. QED
    BY <2>1, Optional
<1>4. EnsureMUR \in Seq(Later)
  <2>1. CASE WithSpace
    <3>1. If(request.spaceTier # "base", <<"move">>) \in Seq(Later) /\ <<"ensureMUR">> \in Seq(Later)
      <4>1. <<"move">> \in Seq(Later) /\ <<"ensureMUR">> \in Seq(Later)
        BY DEF Later, PartNames
      <4>. QED
        BY <4>1, Optional
    <3>. QED
      BY <2>1, <3>1, ConcatProperties DEF EnsureMUR
  <2>2. CASE ~WithSpace
    BY <2>2 DEF EnsureMUR, Later, PartNames
  <2>. QED
    BY <2>1, <2>2
<1>5. If(request.ensureMUR, EnsureMUR) \in Seq(Later) /\ <<"addTask">> \in Seq(Later)
  BY <1>4, Optional DEF Later, PartNames
<1>. QED
  BY <1>1, <1>2, <1>3, <1>5, ScenarioSteps, HeadedConcat DEF Plan, Execute

(* Where a test is in its plan.                                             *)
LEMMA PartKnown ==
  ASSUME scenario \in Scenarios, part \in Nat \ {0}
  PROVE  /\ Len(Plan) \in Nat
         /\ Part = "end" <=> part > Len(Plan)
         /\ Part \in PartNames \cup {"end"}
         /\ Part = "signup" <=> part = 1
         /\ Part \in {"ensureMURWithoutSpace", "verifyWithoutSpace"} => ~WithSpace
<1>1. Headed(Plan)
  BY PlanHeaded
<1>2. Len(Plan) \in Nat /\ \A i \in 1..Len(Plan) : Plan[i] \in PartNames
  BY <1>1, LenProperties, ElementOfSeq DEF Headed
<1>3. "end" \notin PartNames
  BY DEF PartNames, Verifications, Changes
<1>. QED
  BY <1>1, <1>2, <1>3 DEF Part, Headed, Later

-----------------------------------------------------------------------------
(* The steps of the parts.                                                  *)

LEMMA ShortSteps ==
  /\ LET s == Steps("signup")
     IN  Len(s) = 4 /\ s[1] = "post" /\ s[2] = "created" /\ s[3] = "noAutoApproval" /\ s[4] = "update"
  /\ LET s == Steps("conditions") IN Len(s) = 1 /\ s[1] = "conditions"
  /\ LET s == Steps("murExists") IN Len(s) = 1 /\ s[1] = "murExists"
  /\ LET s == Steps("move") IN Len(s) = 2 /\ s[1] = "spaceExists" /\ s[2] = "move"
  /\ LET s == Steps("addTask") IN Len(s) = 1 /\ s[1] = "addTask"
  /\ LET s == Steps("unban")
     IN  Len(s) = 4 /\ s[1] = "unban" /\ s[2] = "bannedUserGone" /\ s[3] = "approvedByAdmin" /\ s[4] = "murExists"
  BY DEF Steps, Unban

LEMMA EnsureMURSteps ==
  LET s == Steps("ensureMUR") IN
  /\ Len(s) = 16
  /\ s[1] = "complete" /\ s[2] = "space" /\ s[3] = "murInCluster" /\ s[4] = "binding"
  /\ s[5] = "nsTemplateSet" /\ s[6] = "home" /\ s[7] = "spaceAgain" /\ s[8] = "complete"
  /\ s[9] = "murInCluster" /\ s[10] = "lastCluster" /\ s[11] = "account" /\ s[12] = "user"
  /\ s[13] = "identity" /\ s[14] = "murStatuses" /\ s[15] = "murExists"
  /\ s[16] = "provisioned"
  BY DEF Steps, VerifySpaceRelatedResources, VerifyUserRelatedResources

LEMMA EnsureMURWithoutSpaceSteps ==
  LET s == Steps("ensureMURWithoutSpace") IN
  /\ Len(s) = 6
  /\ s[1] = "complete" /\ s[2] = "murWithoutAccount" /\ s[3] = "lastCluster"
  /\ s[4] = "noUser" /\ s[5] = "murExists" /\ s[6] = "provisioned"
  BY DEF Steps, VerifyUserRelatedResources

LEMMA VerifySteps ==
  LET s == Steps("verify") IN
  /\ Len(s) = 15
  /\ s[1] = "complete" /\ s[2] = "space" /\ s[3] = "murInCluster" /\ s[4] = "binding"
  /\ s[5] = "nsTemplateSet" /\ s[6] = "home" /\ s[7] = "spaceAgain" /\ s[8] = "complete"
  /\ s[9] = "murInCluster" /\ s[10] = "lastCluster" /\ s[11] = "account" /\ s[12] = "user"
  /\ s[13] = "identity" /\ s[14] = "murStatuses" /\ s[15] = "provisioned"
  BY DEF Steps, VerifyResourcesProvisionedForSignup, VerifySpaceRelatedResources, VerifyUserRelatedResources

LEMMA VerifyWithoutSpaceSteps ==
  LET s == Steps("verifyWithoutSpace") IN
  /\ Len(s) = 6
  /\ s[1] = "complete" /\ s[2] = "murWithoutAccount" /\ s[3] = "lastCluster"
  /\ s[4] = "noUser" /\ s[5] = "noSpace" /\ s[6] = "provisioned"
  BY DEF Steps, VerifyResourcesProvisionedForSignupWithoutSpace, VerifyUserRelatedResources

LEMMA DeactivateSteps ==
  LET s == Steps("deactivate") IN
  /\ Len(s) = 10
  /\ s[1] = "deactivate" /\ s[2] = "murGone" /\ s[3] = "bindingsGone" /\ s[4] = "notified"
  /\ s[5] = "deactivated" /\ s[6] = "assertDeactivated" /\ s[7] = "notificationGone"
  /\ s[8] = "spaceGone" /\ s[9] = "spaceBindingsGone" /\ s[10] = "gone"
  BY DEF Steps, DeactivateAndCheckUser

LEMMA ReactivateSteps ==
  LET s == Steps("reactivate") IN
  /\ Len(s) = 19
  /\ s[1] = "reread" /\ s[2] = "reactivate" /\ s[3] = "approvedByAdmin"
  /\ s[4] = "assertActive" /\ s[5] = "complete" /\ s[6] = "space" /\ s[7] = "murInCluster"
  /\ s[8] = "binding" /\ s[9] = "nsTemplateSet" /\ s[10] = "home" /\ s[11] = "spaceAgain"
  /\ s[12] = "complete" /\ s[13] = "murInCluster" /\ s[14] = "lastCluster"
  /\ s[15] = "account" /\ s[16] = "user" /\ s[17] = "identity" /\ s[18] = "murStatuses"
  /\ s[19] = "provisioned"
  BY DEF Steps, ReactivateAndCheckUser, VerifyResourcesProvisionedForSignup,
                VerifySpaceRelatedResources, VerifyUserRelatedResources

LEMMA BanSteps ==
  LET s == Steps("ban") IN
  /\ Len(s) = 7
  /\ s[1] = "ban" /\ s[2] = "banned" /\ s[3] = "noMur" /\ s[4] = "bannedLabel"
  /\ s[5] = "spaceGone" /\ s[6] = "spaceBindingsGone" /\ s[7] = "gone"
  BY DEF Steps, Ban

-----------------------------------------------------------------------------
(* The order of the steps.                                                  *)

LEMMA EnsureMUROrder ==
  ASSUME Part = "ensureMUR", at \in 1..16, NEW x
  PROVE  Behind(x) <=> \/ x = "complete" /\ at > 1
                       \/ x = "space" /\ at > 2
                       \/ x = "murInCluster" /\ at > 3
                       \/ x = "binding" /\ at > 4
                       \/ x = "nsTemplateSet" /\ at > 5
                       \/ x = "home" /\ at > 6
                       \/ x = "spaceAgain" /\ at > 7
                       \/ x = "lastCluster" /\ at > 10
                       \/ x = "account" /\ at > 11
                       \/ x = "user" /\ at > 12
                       \/ x = "identity" /\ at > 13
                       \/ x = "murStatuses" /\ at > 14
                       \/ x = "murExists" /\ at > 15
  BY EnsureMURSteps DEF Behind

LEMMA EnsureMURPlaces ==
  ASSUME Part = "ensureMUR", at \in 1..16
  PROVE  LET s == Steps(Part)[at] IN
         /\ s = "complete" <=> at \in {1, 8}
         /\ s = "space" <=> at = 2
         /\ s = "murInCluster" <=> at \in {3, 9}
         /\ s = "binding" <=> at = 4
         /\ s = "nsTemplateSet" <=> at = 5
         /\ s = "home" <=> at = 6
         /\ s = "spaceAgain" <=> at = 7
         /\ s = "lastCluster" <=> at = 10
         /\ s = "account" <=> at = 11
         /\ s = "user" <=> at = 12
         /\ s = "identity" <=> at = 13
         /\ s = "murStatuses" <=> at = 14
         /\ s = "murExists" <=> at = 15
         /\ s = "provisioned" <=> at = 16
         /\ s \in {"complete", "space", "murInCluster", "binding", "nsTemplateSet", "home", "spaceAgain",
                   "lastCluster", "account", "user", "identity", "murStatuses", "murExists",
                   "provisioned"}
<1>1. at = 1 \/ at = 2 \/ at = 3 \/ at = 4 \/ at = 5 \/ at = 6 \/ at = 7 \/ at = 8 \/ at = 9 \/ at = 10
        \/ at = 11 \/ at = 12 \/ at = 13 \/ at = 14 \/ at = 15 \/ at = 16
  OBVIOUS
<1>. QED
  BY <1>1, EnsureMURSteps

LEMMA VerifyOrder ==
  ASSUME Part = "verify", at \in 1..15, NEW x
  PROVE  Behind(x) <=> \/ x = "complete" /\ at > 1
                       \/ x = "space" /\ at > 2
                       \/ x = "murInCluster" /\ at > 3
                       \/ x = "binding" /\ at > 4
                       \/ x = "nsTemplateSet" /\ at > 5
                       \/ x = "home" /\ at > 6
                       \/ x = "spaceAgain" /\ at > 7
                       \/ x = "lastCluster" /\ at > 10
                       \/ x = "account" /\ at > 11
                       \/ x = "user" /\ at > 12
                       \/ x = "identity" /\ at > 13
                       \/ x = "murStatuses" /\ at > 14
  BY VerifySteps DEF Behind

LEMMA VerifyPlaces ==
  ASSUME Part = "verify", at \in 1..15
  PROVE  LET s == Steps(Part)[at] IN
         /\ s = "complete" <=> at \in {1, 8}
         /\ s = "space" <=> at = 2
         /\ s = "murInCluster" <=> at \in {3, 9}
         /\ s = "binding" <=> at = 4
         /\ s = "nsTemplateSet" <=> at = 5
         /\ s = "home" <=> at = 6
         /\ s = "spaceAgain" <=> at = 7
         /\ s = "lastCluster" <=> at = 10
         /\ s = "account" <=> at = 11
         /\ s = "user" <=> at = 12
         /\ s = "identity" <=> at = 13
         /\ s = "murStatuses" <=> at = 14
         /\ s = "provisioned" <=> at = 15
         /\ s \in {"complete", "space", "murInCluster", "binding", "nsTemplateSet", "home", "spaceAgain",
                   "lastCluster", "account", "user", "identity", "murStatuses", "provisioned"}
<1>1. at = 1 \/ at = 2 \/ at = 3 \/ at = 4 \/ at = 5 \/ at = 6 \/ at = 7 \/ at = 8 \/ at = 9 \/ at = 10
        \/ at = 11 \/ at = 12 \/ at = 13 \/ at = 14 \/ at = 15
  OBVIOUS
<1>. QED
  BY <1>1, VerifySteps

LEMMA ReactivateOrder ==
  ASSUME Part = "reactivate", at \in 1..19, NEW x
  PROVE  Behind(x) <=> \/ x = "reread" /\ at > 1
                       \/ x = "reactivate" /\ at > 2
                       \/ x = "approvedByAdmin" /\ at > 3
                       \/ x = "assertActive" /\ at > 4
                       \/ x = "complete" /\ at > 5
                       \/ x = "space" /\ at > 6
                       \/ x = "murInCluster" /\ at > 7
                       \/ x = "binding" /\ at > 8
                       \/ x = "nsTemplateSet" /\ at > 9
                       \/ x = "home" /\ at > 10
                       \/ x = "spaceAgain" /\ at > 11
                       \/ x = "lastCluster" /\ at > 14
                       \/ x = "account" /\ at > 15
                       \/ x = "user" /\ at > 16
                       \/ x = "identity" /\ at > 17
                       \/ x = "murStatuses" /\ at > 18
  BY ReactivateSteps DEF Behind

LEMMA ReactivatePlaces ==
  ASSUME Part = "reactivate", at \in 1..19
  PROVE  LET s == Steps(Part)[at] IN
         /\ s = "reread" <=> at = 1
         /\ s = "reactivate" <=> at = 2
         /\ s = "approvedByAdmin" <=> at = 3
         /\ s = "assertActive" <=> at = 4
         /\ s = "complete" <=> at \in {5, 12}
         /\ s = "space" <=> at = 6
         /\ s = "murInCluster" <=> at \in {7, 13}
         /\ s = "binding" <=> at = 8
         /\ s = "nsTemplateSet" <=> at = 9
         /\ s = "home" <=> at = 10
         /\ s = "spaceAgain" <=> at = 11
         /\ s = "lastCluster" <=> at = 14
         /\ s = "account" <=> at = 15
         /\ s = "user" <=> at = 16
         /\ s = "identity" <=> at = 17
         /\ s = "murStatuses" <=> at = 18
         /\ s = "provisioned" <=> at = 19
         /\ s \in {"reread", "reactivate", "approvedByAdmin", "assertActive", "complete", "space",
                   "murInCluster", "binding", "nsTemplateSet", "home", "spaceAgain", "lastCluster",
                   "account", "user", "identity", "murStatuses", "provisioned"}
<1>1. at = 1 \/ at = 2 \/ at = 3 \/ at = 4 \/ at = 5 \/ at = 6 \/ at = 7 \/ at = 8 \/ at = 9 \/ at = 10
        \/ at = 11 \/ at = 12 \/ at = 13 \/ at = 14 \/ at = 15 \/ at = 16 \/ at = 17 \/ at = 18
        \/ at = 19
  OBVIOUS
<1>. QED
  BY <1>1, ReactivateSteps

LEMMA EnsureMURWithoutSpaceOrder ==
  ASSUME Part = "ensureMURWithoutSpace", at \in 1..6, NEW x
  PROVE  Behind(x) <=> \/ x = "complete" /\ at > 1
                       \/ x = "murWithoutAccount" /\ at > 2
                       \/ x = "lastCluster" /\ at > 3
                       \/ x = "noUser" /\ at > 4
                       \/ x = "murExists" /\ at > 5
  BY EnsureMURWithoutSpaceSteps DEF Behind

LEMMA EnsureMURWithoutSpacePlaces ==
  ASSUME Part = "ensureMURWithoutSpace", at \in 1..6
  PROVE  LET s == Steps(Part)[at] IN
         /\ s = "complete" <=> at = 1
         /\ s = "murWithoutAccount" <=> at = 2
         /\ s = "lastCluster" <=> at = 3
         /\ s = "noUser" <=> at = 4
         /\ s = "murExists" <=> at = 5
         /\ s = "provisioned" <=> at = 6
         /\ s \in {"complete", "murWithoutAccount", "lastCluster", "noUser", "murExists", "provisioned"}
<1>1. at = 1 \/ at = 2 \/ at = 3 \/ at = 4 \/ at = 5 \/ at = 6
  OBVIOUS
<1>. QED
  BY <1>1, EnsureMURWithoutSpaceSteps

LEMMA VerifyWithoutSpaceOrder ==
  ASSUME Part = "verifyWithoutSpace", at \in 1..6, NEW x
  PROVE  Behind(x) <=> \/ x = "complete" /\ at > 1
                       \/ x = "murWithoutAccount" /\ at > 2
                       \/ x = "lastCluster" /\ at > 3
                       \/ x = "noUser" /\ at > 4
                       \/ x = "noSpace" /\ at > 5
  BY VerifyWithoutSpaceSteps DEF Behind

LEMMA VerifyWithoutSpacePlaces ==
  ASSUME Part = "verifyWithoutSpace", at \in 1..6
  PROVE  LET s == Steps(Part)[at] IN
         /\ s = "complete" <=> at = 1
         /\ s = "murWithoutAccount" <=> at = 2
         /\ s = "lastCluster" <=> at = 3
         /\ s = "noUser" <=> at = 4
         /\ s = "noSpace" <=> at = 5
         /\ s = "provisioned" <=> at = 6
         /\ s \in {"complete", "murWithoutAccount", "lastCluster", "noUser", "noSpace", "provisioned"}
<1>1. at = 1 \/ at = 2 \/ at = 3 \/ at = 4 \/ at = 5 \/ at = 6
  OBVIOUS
<1>. QED
  BY <1>1, VerifyWithoutSpaceSteps

LEMMA DeactivateOrder ==
  ASSUME Part = "deactivate", at \in 1..10, NEW x
  PROVE  Behind(x) <=> \/ x = "deactivate" /\ at > 1
                       \/ x = "murGone" /\ at > 2
                       \/ x = "bindingsGone" /\ at > 3
                       \/ x = "notified" /\ at > 4
                       \/ x = "deactivated" /\ at > 5
                       \/ x = "assertDeactivated" /\ at > 6
                       \/ x = "notificationGone" /\ at > 7
                       \/ x = "spaceGone" /\ at > 8
                       \/ x = "spaceBindingsGone" /\ at > 9
  BY DeactivateSteps DEF Behind

LEMMA DeactivatePlaces ==
  ASSUME Part = "deactivate", at \in 1..10
  PROVE  LET s == Steps(Part)[at] IN
         /\ s = "deactivate" <=> at = 1
         /\ s = "murGone" <=> at = 2
         /\ s = "bindingsGone" <=> at = 3
         /\ s = "notified" <=> at = 4
         /\ s = "deactivated" <=> at = 5
         /\ s = "assertDeactivated" <=> at = 6
         /\ s = "notificationGone" <=> at = 7
         /\ s = "spaceGone" <=> at = 8
         /\ s = "spaceBindingsGone" <=> at = 9
         /\ s = "gone" <=> at = 10
         /\ s \in {"deactivate", "murGone", "bindingsGone", "notified", "deactivated",
                   "assertDeactivated", "notificationGone", "spaceGone", "spaceBindingsGone", "gone"}
<1>1. at = 1 \/ at = 2 \/ at = 3 \/ at = 4 \/ at = 5 \/ at = 6 \/ at = 7 \/ at = 8 \/ at = 9 \/ at = 10
  OBVIOUS
<1>. QED
  BY <1>1, DeactivateSteps

LEMMA BanOrder ==
  ASSUME Part = "ban", at \in 1..7, NEW x
  PROVE  Behind(x) <=> \/ x = "ban" /\ at > 1
                       \/ x = "banned" /\ at > 2
                       \/ x = "noMur" /\ at > 3
                       \/ x = "bannedLabel" /\ at > 4
                       \/ x = "spaceGone" /\ at > 5
                       \/ x = "spaceBindingsGone" /\ at > 6
  BY BanSteps DEF Behind

LEMMA BanPlaces ==
  ASSUME Part = "ban", at \in 1..7
  PROVE  LET s == Steps(Part)[at] IN
         /\ s = "ban" <=> at = 1
         /\ s = "banned" <=> at = 2
         /\ s = "noMur" <=> at = 3
         /\ s = "bannedLabel" <=> at = 4
         /\ s = "spaceGone" <=> at = 5
         /\ s = "spaceBindingsGone" <=> at = 6
         /\ s = "gone" <=> at = 7
         /\ s \in {"ban", "banned", "noMur", "bannedLabel", "spaceGone", "spaceBindingsGone", "gone"}
<1>1. at = 1 \/ at = 2 \/ at = 3 \/ at = 4 \/ at = 5 \/ at = 6 \/ at = 7
  OBVIOUS
<1>. QED
  BY <1>1, BanSteps

LEMMA ShortOrder ==
  ASSUME Part \in {"signup", "conditions", "murExists", "move", "addTask", "unban"}, at \in 1..Len(Steps(Part)), NEW x,
         Behind(x)
  PROVE  /\ x \in {"post", "created", "noAutoApproval", "conditions", "murExists", "spaceExists",
                    "unban", "bannedUserGone", "approvedByAdmin"}
         /\ x = "spaceExists" => Part = "move" /\ at = 2
<1>1. PICK k \in 1..(at - 1) : Steps(Part)[k] = x
  BY DEF Behind
<1>2. CASE Part = "signup"
  <2>1. Len(Steps(Part)) = 4
    BY <1>2, ShortSteps
  <2>2. k \in {1, 2, 3}
    BY <1>1, <2>1
  <2>. QED
    BY <1>1, <1>2, <2>2, ShortSteps
<1>3. CASE Part \in {"conditions", "murExists", "addTask"}
  <2>1. Len(Steps(Part)) = 1
    BY <1>3, ShortSteps
  <2>. QED
    BY <1>1, <2>1
<1>4. CASE Part = "move"
  <2>1. Len(Steps(Part)) = 2
    BY <1>4, ShortSteps
  <2>2. k = 1 /\ at = 2
    BY <1>1, <2>1
  <2>. QED
    BY <1>1, <1>4, <2>2, ShortSteps
<1>5. CASE Part = "unban"
  <2>1. Len(Steps(Part)) = 4
    BY <1>5, ShortSteps
  <2>2. k \in {1, 2, 3}
    BY <1>1, <2>1
  <2>. QED
    BY <1>1, <1>5, <2>2, ShortSteps
<1>. QED
  BY <1>2, <1>3, <1>4, <1>5

LEMMA ShortPlaces ==
  ASSUME Part \in {"signup", "conditions", "murExists", "move", "addTask", "unban"}, at \in 1..Len(Steps(Part))
  PROVE  LET s == Steps(Part)[at] IN
         /\ Part = "signup" => s \in {"post", "created", "noAutoApproval", "update"} /\ (s = "post" <=> at = 1) /\ (s = "update" <=> at = 4)
         /\ Part = "conditions" => s = "conditions"
         /\ Part = "murExists" => s = "murExists"
         /\ Part = "move" => s \in {"spaceExists", "move"} /\ (s = "move" <=> at = 2)
         /\ Part = "addTask" => s = "addTask"
         /\ Part = "unban" => s \in {"unban", "bannedUserGone", "approvedByAdmin", "murExists"}
<1>1. CASE Part = "signup"
  <2>1. Len(Steps(Part)) = 4
    BY <1>1, ShortSteps
  <2>2. at = 1 \/ at = 2 \/ at = 3 \/ at = 4
    BY <2>1
  <2>. QED
    BY <1>1, <2>2, ShortSteps
<1>2. CASE Part \in {"conditions", "murExists", "addTask"}
  BY <1>2, ShortSteps
<1>3. CASE Part = "move"
  BY <1>3, ShortSteps
<1>4. CASE Part = "unban"
  <2>1. Len(Steps(Part)) = 4
    BY <1>4, ShortSteps
  <2>2. at = 1 \/ at = 2 \/ at = 3 \/ at = 4
    BY <2>1
  <2>. QED
    BY <1>4, <2>2, ShortSteps
<1>. QED
  BY <1>1, <1>2, <1>3, <1>4

(* The lengths of the parts.                                                *)
LEMMA Lengths ==
  /\ Len(Steps("signup")) = 4 /\ Len(Steps("conditions")) = 1 /\ Len(Steps("murExists")) = 1
  /\ Len(Steps("move")) = 2 /\ Len(Steps("addTask")) = 1 /\ Len(Steps("unban")) = 4
  /\ Len(Steps("ensureMUR")) = 16 /\ Len(Steps("verify")) = 15 /\ Len(Steps("reactivate")) = 19
  /\ Len(Steps("ensureMURWithoutSpace")) = 6 /\ Len(Steps("verifyWithoutSpace")) = 6
  /\ Len(Steps("deactivate")) = 10 /\ Len(Steps("ban")) = 7
  BY ShortSteps, EnsureMURSteps, VerifySteps, ReactivateSteps, EnsureMURWithoutSpaceSteps,
     VerifyWithoutSpaceSteps, DeactivateSteps, BanSteps

AtStep == Part \in PartNames /\ at \in 1..Len(Steps(Part))

Short == {"signup", "conditions", "murExists", "move", "addTask", "unban"}

LEMMA AnyPart ==
  ASSUME AtStep
  PROVE  \/ Part \in Short
         \/ Part = "ensureMUR" /\ at \in 1..16
         \/ Part = "verify" /\ at \in 1..15
         \/ Part = "reactivate" /\ at \in 1..19
         \/ Part = "ensureMURWithoutSpace" /\ at \in 1..6
         \/ Part = "verifyWithoutSpace" /\ at \in 1..6
         \/ Part = "deactivate" /\ at \in 1..10
         \/ Part = "ban" /\ at \in 1..7
  BY Lengths DEF AtStep, Short, PartNames, Verifications, Changes

(* What a verification waits for once the signup is complete.               *)
Verifying == {"space", "binding", "nsTemplateSet", "murInCluster", "murWithoutAccount", "account", "user", "identity"}

(* In which part, and where, a step is.                                     *)
LEMMA PlaceOf ==
  ASSUME AtStep
  PROVE  LET s == Steps(Part)[at] IN
         /\ s \in {"post", "update"} => Part = "signup"
         /\ Part = "signup" => (s = "post" <=> at = 1)
         /\ s = "deactivate" <=> Part = "deactivate" /\ at = 1
         /\ s = "ban" <=> Part = "ban" /\ at = 1
         /\ s = "unban" => Part = "unban"
         /\ s = "reactivate" => Part = "reactivate"
         /\ s = "move" => Part = "move"
         /\ s \in {"noMur", "banned", "bannedLabel"} => Part = "ban"
         /\ s \in {"murGone", "bindingsGone", "notified", "deactivated", "notificationGone"} => Part = "deactivate"
         /\ s \in {"spaceGone", "spaceBindingsGone", "gone"} => Leaving
         /\ s \in Verifying \cup {"complete", "provisioned", "spaceExists"} => ~Leaving
<1>. USE DEF Leaving, Verifying
<1>1. CASE Part \in Short
  BY <1>1, ShortPlaces DEF AtStep, Short
<1>2. CASE Part = "ensureMUR" /\ at \in 1..16
  BY <1>2, EnsureMURPlaces
<1>3. CASE Part = "ensureMURWithoutSpace" /\ at \in 1..6
  BY <1>3, EnsureMURWithoutSpacePlaces
<1>4. CASE Part = "verify" /\ at \in 1..15
  BY <1>4, VerifyPlaces
<1>5. CASE Part = "verifyWithoutSpace" /\ at \in 1..6
  BY <1>5, VerifyWithoutSpacePlaces
<1>6. CASE Part = "deactivate" /\ at \in 1..10
  BY <1>6, DeactivatePlaces
<1>7. CASE Part = "reactivate" /\ at \in 1..19
  BY <1>7, ReactivatePlaces
<1>8. CASE Part = "ban" /\ at \in 1..7
  BY <1>8, BanPlaces
<1>. QED
  BY <1>1, <1>2, <1>3, <1>4, <1>5, <1>6, <1>7, <1>8, AnyPart

(* Nobody changes the user after something has been verified, and nothing   *)
(* is verified before the signup is complete.                               *)
LEMMA VerificationOrder ==
  ASSUME AtStep
  PROVE  LET s == Steps(Part)[at] IN
         /\ s \in {"post", "update", "deactivate", "reactivate", "ban", "unban"} =>
              ~Behind("spaceExists") /\ ~Behind("complete") /\ \A x \in Verifying : ~Behind(x)
         /\ s = "move" => Behind("spaceExists") /\ ~Behind("complete") /\ \A x \in Verifying : ~Behind(x)
         /\ s \in Verifying => Behind("complete")
         /\ s = "nsTemplateSet" => Behind("space")
         /\ \A x \in Verifying : Behind(x) => Behind("complete")
         /\ Behind("nsTemplateSet") => Behind("space")
<1>. USE DEF Verifying
<1>1. CASE Part \in Short
  <2>1. Part = "move" /\ at = 2 => Behind("spaceExists")
    BY ShortSteps DEF Behind
  <2>. QED
    BY <1>1, <2>1, ShortPlaces, ShortOrder DEF AtStep, Short
<1>2. CASE Part = "ensureMUR" /\ at \in 1..16
  BY <1>2, EnsureMURPlaces, EnsureMUROrder
<1>3. CASE Part = "ensureMURWithoutSpace" /\ at \in 1..6
  BY <1>3, EnsureMURWithoutSpacePlaces, EnsureMURWithoutSpaceOrder
<1>4. CASE Part = "verify" /\ at \in 1..15
  BY <1>4, VerifyPlaces, VerifyOrder
<1>5. CASE Part = "verifyWithoutSpace" /\ at \in 1..6
  BY <1>5, VerifyWithoutSpacePlaces, VerifyWithoutSpaceOrder
<1>6. CASE Part = "deactivate" /\ at \in 1..10
  BY <1>6, DeactivatePlaces, DeactivateOrder
<1>7. CASE Part = "reactivate" /\ at \in 1..19
  BY <1>7, ReactivatePlaces, ReactivateOrder
<1>8. CASE Part = "ban" /\ at \in 1..7
  BY <1>8, BanPlaces, BanOrder
<1>. QED
  BY <1>1, <1>2, <1>3, <1>4, <1>5, <1>6, <1>7, <1>8, AnyPart

(* At its end a verification has seen everything.                           *)
LEMMA ProvisionedOrder ==
  ASSUME AtStep, Steps(Part)[at] = "provisioned"
  PROVE  /\ Behind("complete")
         /\ IF Part \in {"ensureMURWithoutSpace", "verifyWithoutSpace"}
            THEN Behind("murWithoutAccount")
            ELSE /\ Behind("space") /\ Behind("binding") /\ Behind("nsTemplateSet") /\ Behind("murInCluster")
                 /\ Behind("account") /\ Behind("user") /\ Behind("identity")
<1>1. CASE Part \in Short
  BY <1>1, ShortPlaces DEF AtStep, Short
<1>2. CASE Part = "ensureMUR" /\ at \in 1..16
  BY <1>2, EnsureMURPlaces, EnsureMUROrder
<1>3. CASE Part = "ensureMURWithoutSpace" /\ at \in 1..6
  BY <1>3, EnsureMURWithoutSpacePlaces, EnsureMURWithoutSpaceOrder
<1>4. CASE Part = "verify" /\ at \in 1..15
  BY <1>4, VerifyPlaces, VerifyOrder
<1>5. CASE Part = "verifyWithoutSpace" /\ at \in 1..6
  BY <1>5, VerifyWithoutSpacePlaces, VerifyWithoutSpaceOrder
<1>6. CASE Part = "deactivate" /\ at \in 1..10
  BY <1>6, DeactivatePlaces
<1>7. CASE Part = "reactivate" /\ at \in 1..19
  BY <1>7, ReactivatePlaces, ReactivateOrder
<1>8. CASE Part = "ban" /\ at \in 1..7
  BY <1>8, BanPlaces
<1>. QED
  BY <1>1, <1>2, <1>3, <1>4, <1>5, <1>6, <1>7, <1>8, AnyPart

(* At its end a deactivation or a ban has seen everything gone.             *)
LEMMA GoneOrder ==
  ASSUME AtStep, Leaving
  PROVE  /\ Steps(Part)[at] = "gone" <=> at = Len(Steps(Part))
         /\ at = Len(Steps(Part)) /\ Part = "deactivate" =>
              /\ Behind("murGone") /\ Behind("bindingsGone") /\ Behind("notified") /\ Behind("deactivated")
              /\ Behind("notificationGone")
         /\ at = Len(Steps(Part)) /\ Part = "ban" => Behind("banned") /\ Behind("noMur") /\ Behind("bannedLabel")
         /\ at = Len(Steps(Part)) => Behind("spaceGone") /\ Behind("spaceBindingsGone")
         /\ Behind("notificationGone") => Behind("deactivated")
         /\ Behind("deactivated") => Behind("notified")
         /\ Behind("notificationGone") \/ Behind("notified") \/ Behind("deactivated") => Part = "deactivate"
         /\ Behind("banned") \/ Behind("bannedLabel") => Part = "ban"
<1>1. CASE Part = "deactivate"
  <2>1. Len(Steps(Part)) = 10
    BY <1>1, Lengths
  <2>2. at \in 1..10
    BY <2>1 DEF AtStep
  <2>. QED
    <3>1. /\ Behind("murGone") <=> at > 2
          /\ Behind("bindingsGone") <=> at > 3
          /\ Behind("notified") <=> at > 4
          /\ Behind("deactivated") <=> at > 5
          /\ Behind("notificationGone") <=> at > 7
          /\ Behind("spaceGone") <=> at > 8
          /\ Behind("spaceBindingsGone") <=> at > 9
          /\ ~Behind("banned") /\ ~Behind("bannedLabel")
      BY <1>1, <2>2, DeactivateOrder
    <3>2. Steps(Part)[at] = "gone" <=> at = 10
      BY <1>1, <2>2, DeactivatePlaces
    <3>3. Steps(Part)[at] = "gone" <=> at = Len(Steps(Part))
      BY <2>1, <3>2
    <3>4. at = Len(Steps(Part)) =>
            /\ Behind("murGone") /\ Behind("bindingsGone") /\ Behind("notified") /\ Behind("deactivated")
            /\ Behind("notificationGone") /\ Behind("spaceGone") /\ Behind("spaceBindingsGone")
      BY <2>1, <3>1
    <3>5. /\ Behind("notificationGone") => Behind("deactivated")
          /\ Behind("deactivated") => Behind("notified")
      BY <2>2, <3>1
    <3>6. ~Behind("banned") /\ ~Behind("bannedLabel")
      BY <3>1
    <3>. QED
      BY <1>1, <3>3, <3>4, <3>5, <3>6
<1>2. CASE Part = "ban"
  <2>1. Len(Steps(Part)) = 7
    BY <1>2, Lengths
  <2>2. at \in 1..7
    BY <2>1 DEF AtStep
  <2>. QED
    <3>1. /\ Behind("banned") <=> at > 2
          /\ Behind("noMur") <=> at > 3
          /\ Behind("bannedLabel") <=> at > 4
          /\ Behind("spaceGone") <=> at > 5
          /\ Behind("spaceBindingsGone") <=> at > 6
          /\ ~Behind("notified") /\ ~Behind("deactivated") /\ ~Behind("notificationGone")
      BY <1>2, <2>2, BanOrder
    <3>2. Steps(Part)[at] = "gone" <=> at = 7
      BY <1>2, <2>2, BanPlaces
    <3>3. Steps(Part)[at] = "gone" <=> at = Len(Steps(Part))
      BY <2>1, <3>2
    <3>4. at = Len(Steps(Part)) =>
            /\ Behind("banned") /\ Behind("noMur") /\ Behind("bannedLabel")
            /\ Behind("spaceGone") /\ Behind("spaceBindingsGone")
      BY <2>1, <3>1
    <3>5. ~Behind("notified") /\ ~Behind("deactivated") /\ ~Behind("notificationGone")
      BY <3>1
    <3>. QED
      BY <1>2, <3>3, <3>4, <3>5
<1>. QED
  BY <1>1, <1>2 DEF Leaving

-----------------------------------------------------------------------------
(* What the operators write into the conditions.                            *)

(* An operator writes one of these sets.                                    *)
LEMMA WhatIsComplete ==
  /\ \A A \in {ApprovedByAdmin, ApprovedAutomatically} :
       /\ Complete \in ConditionSet(<<Default, A>>)
       /\ Complete \notin ConditionSet(<<Default, A, Banned>>)
  /\ Complete \notin ConditionSet(<<Default, PendingApproval>>)
  /\ Complete \notin ConditionSet(<<Default, VerificationRequired>>)
  /\ Complete \notin ConditionSet(<<Default, DeactivatedWithoutPreDeactivation>>)
<1>. USE DEF Complete, Completed, Approved, Notified, Deactivating, Condition, Default, Banned, PendingApproval,
             VerificationRequired, ApprovedByAdmin, ApprovedAutomatically, DeactivatedWithoutPreDeactivation
<1>1. \A A \in {ApprovedByAdmin, ApprovedAutomatically} : Complete \in A
  OBVIOUS
<1>2. /\ Completed(TRUE, "Banned") \in Banned
      /\ Completed(FALSE, "PendingApproval") \in PendingApproval
      /\ Completed(FALSE, "VerificationRequired") \in VerificationRequired
      /\ Completed(TRUE, "Deactivated") \in DeactivatedWithoutPreDeactivation
  OBVIOUS
<1>3. /\ Complete \notin Default /\ Complete \notin Banned /\ Complete \notin PendingApproval
      /\ Complete \notin VerificationRequired /\ Complete \notin DeactivatedWithoutPreDeactivation
  OBVIOUS
<1>4. /\ Completed(TRUE, "Banned").type = Complete.type
      /\ Completed(FALSE, "PendingApproval").type = Complete.type
      /\ Completed(FALSE, "VerificationRequired").type = Complete.type
      /\ Completed(TRUE, "Deactivated").type = Complete.type
  OBVIOUS
<1>. HIDE DEF Complete, Completed, Default, Banned, PendingApproval, VerificationRequired,
              ApprovedByAdmin, ApprovedAutomatically, DeactivatedWithoutPreDeactivation
<1>5. \A A \in {ApprovedByAdmin, ApprovedAutomatically} : Complete \in ConditionSet(<<Default, A>>)
  BY <1>1, TwoSets
<1>6. \A A \in {ApprovedByAdmin, ApprovedAutomatically} : Complete \notin ConditionSet(<<Default, A, Banned>>)
  BY <1>2, <1>3, <1>4, ThreeSets
<1>7. /\ Complete \notin ConditionSet(<<Default, PendingApproval>>)
      /\ Complete \notin ConditionSet(<<Default, VerificationRequired>>)
      /\ Complete \notin ConditionSet(<<Default, DeactivatedWithoutPreDeactivation>>)
  BY <1>3, TwoSets
<1>. QED
  BY <1>5, <1>6, <1>7

(* The label of an approved user changes the condition Approved alone.      *)
LEMMA OverrideApproved ==
  ASSUME NEW S, NEW A \in {ApprovedByAdmin, ApprovedAutomatically}
  PROVE  Complete \in Override(S, {c \in A : c.type = "Approved"}) <=> Complete \in S
<1>. DEFINE later == {c \in A : c.type = "Approved"}
<1>1. Complete.type = "Complete"
  BY DEF Complete, Completed, Condition
<1>2. Complete \notin later /\ \A d \in later : Complete.type # d.type
  BY <1>1
<1>. HIDE DEF later
<1>3. Complete \in ConditionSet(<<S, later>>) <=> Complete \in S
  BY <1>2, TwoSets
<1>. QED
  BY <1>3 DEF Override, later

(* Only a user who was approved by an admin has that condition.             *)
LEMMA WhatIsApproved ==
  /\ Approved(TRUE, "ApprovedByAdmin") \in ConditionSet(<<Default, ApprovedByAdmin, Banned>>)
  /\ Approved(TRUE, "ApprovedByAdmin") \notin ConditionSet(<<Default, ApprovedAutomatically, Banned>>)
  /\ Approved(TRUE, "ApprovedByAdmin") \notin ConditionSet(<<Default, DeactivatedWithoutPreDeactivation>>)
<1>. DEFINE approved == Approved(TRUE, "ApprovedByAdmin")
<1>. USE DEF Completed, Approved, Notified, Deactivating, Condition
<1>1. approved \in ApprovedByAdmin /\ approved \notin ApprovedAutomatically
  BY DEF ApprovedByAdmin, ApprovedAutomatically
<1>2. approved \notin Default
  BY DEF Default
<1>3. approved \notin Banned /\ \A d \in Banned : approved.type # d.type
  BY DEF Banned
<1>4. approved \notin DeactivatedWithoutPreDeactivation
  BY DEF DeactivatedWithoutPreDeactivation
<1>. HIDE DEF approved
<1>5. /\ approved \in ConditionSet(<<Default, ApprovedByAdmin, Banned>>)
      /\ approved \notin ConditionSet(<<Default, ApprovedAutomatically, Banned>>)
      /\ approved \notin ConditionSet(<<Default, DeactivatedWithoutPreDeactivation>>)
  BY <1>1, <1>2, <1>3, <1>4, TwoSets, ThreeSets
<1>. QED
  BY <1>5 DEF approved

LEMMA ConditionTypes ==
  /\ \A A \in {ApprovedByAdmin, ApprovedAutomatically} :
       /\ ConditionSet(<<Default, A>>) \subseteq SignupConditions
       /\ ConditionSet(<<Default, A, Banned>>) \subseteq SignupConditions
       /\ \A S : S \subseteq SignupConditions => Override(S, {c \in A : c.type = "Approved"}) \subseteq SignupConditions
  /\ ConditionSet(<<Default, PendingApproval>>) \subseteq SignupConditions
  /\ ConditionSet(<<Default, VerificationRequired>>) \subseteq SignupConditions
  /\ ConditionSet(<<Default, DeactivatedWithoutPreDeactivation>>) \subseteq SignupConditions
<1>. DEFINE T == SignupConditions
<1>1. /\ Default \subseteq T /\ Banned \subseteq T /\ PendingApproval \subseteq T
      /\ VerificationRequired \subseteq T /\ ApprovedByAdmin \subseteq T
      /\ ApprovedAutomatically \subseteq T /\ DeactivatedWithoutPreDeactivation \subseteq T
  BY DEF SignupConditions
<1>. HIDE DEF T
<1>2. ASSUME NEW A, NEW B, A \subseteq T, B \subseteq T
      PROVE  ConditionSet(<<A, B>>) \subseteq T
  BY <1>2, TwoSets
<1>3. ASSUME NEW A, NEW B, NEW C, A \subseteq T, B \subseteq T, C \subseteq T
      PROVE  ConditionSet(<<A, B, C>>) \subseteq T
  BY <1>3, ThreeSets
<1>4. \A A \in {ApprovedByAdmin, ApprovedAutomatically} : {c \in A : c.type = "Approved"} \subseteq T
  BY <1>1
<1>5. \A A \in {ApprovedByAdmin, ApprovedAutomatically} : \A S : S \subseteq T => Override(S, {c \in A : c.type = "Approved"}) \subseteq T
  BY <1>2, <1>4 DEF Override
<1>6. \A A \in {ApprovedByAdmin, ApprovedAutomatically} :
        ConditionSet(<<Default, A>>) \subseteq T /\ ConditionSet(<<Default, A, Banned>>) \subseteq T
  BY <1>1, <1>2, <1>3
<1>. QED
  BY <1>1, <1>2, <1>5, <1>6 DEF T

-----------------------------------------------------------------------------
(* The place of the test after a step.                                      *)

LEMMA SamePlan ==
  ASSUME scenario' = scenario
  PROVE  Plan' = Plan /\ request' = request /\ (WithSpace' <=> WithSpace) /\ Provided' = Provided
  BY DEF Plan, Execute, EnsureMUR, If, WithSpace, request, Provided

LEMMA Still ==
  ASSUME UNCHANGED <<scenario, part, at>>
  PROVE  /\ Part' = Part /\ (Leaving' <=> Leaving) /\ \A x : Behind(x)' <=> Behind(x)
         /\ request' = request /\ (WithSpace' <=> WithSpace) /\ Provided' = Provided
<1>1. Part' = Part
  BY SamePlan DEF Part
<1>. QED
  BY <1>1, SamePlan DEF Leaving, Behind

LEMMA AtTheStep ==
  ASSUME TypeOK, Step # "end"
  PROVE  /\ AtStep /\ Step = Steps(Part)[at] /\ ~failed
         /\ Part = "signup" <=> part = 1
         /\ Part \in {"ensureMURWithoutSpace", "verifyWithoutSpace"} => ~WithSpace
<1>1. Part # "end" /\ ~failed /\ Step = Steps(Part)[at]
  BY DEF Step
<1>. QED
  BY <1>1, PartKnown DEF TypeOK, Placed, AtStep

LEMMA Advance ==
  ASSUME AtStep, scenario' = scenario, Continue, NEW x
  PROVE  \/ /\ part' = part /\ Part' = Part /\ at' = at + 1 /\ at' \in 2..Len(Steps(Part))
            /\ Leaving' <=> Part \in {"deactivate", "ban"}
            /\ Behind(x)' <=> Behind(x) \/ x = Steps(Part)[at]
         \/ /\ at = Len(Steps(Part)) /\ part' = part + 1 /\ at' = 1
            /\ ~Leaving' /\ ~Behind(x)'
<1>1. CASE at < Len(Steps(Part))
  <2>1. at' = at + 1 /\ part' = part /\ Part' = Part
    BY <1>1, SamePlan DEF Continue, Part
  <2>2. Leaving' <=> Part \in {"deactivate", "ban"}
    BY <2>1 DEF Leaving, AtStep
  <2>3. Behind(x)' <=> \E k \in 1..at : Steps(Part)[k] = x
    BY <2>1 DEF Behind, AtStep
  <2>4. (\E k \in 1..at : Steps(Part)[k] = x) <=> Behind(x) \/ x = Steps(Part)[at]
    BY DEF Behind, AtStep
  <2>. QED
    BY <1>1, <2>1, <2>2, <2>3, <2>4 DEF AtStep
<1>2. CASE ~(at < Len(Steps(Part)))
  <2>1. at' = 1 /\ part' = part + 1
    BY <1>2 DEF Continue
  <2>2. ~Leaving' /\ ~Behind(x)'
    BY <2>1 DEF Leaving, Behind
  <2>. QED
    BY <1>2, <2>1, <2>2, Lengths DEF AtStep, PartNames, Verifications, Changes
<1>. QED
  BY <1>1, <1>2

-----------------------------------------------------------------------------
(* Steps of the operators.                                                  *)

OnSignup == HostHold \/ HostLabel \/ HostComplete \/ HostDismiss
OnNote   == HostNotify \/ HostDeleteNote
OnMur    == HostCreateMur \/ HostSyncMur \/ HostDeleteMur \/ HostMurGone
OnSpace  == \/ HostCreateSpace \/ HostBind \/ HostUnbind \/ HostStartSpace \/ HostFinishSpace
            \/ HostCleanSpace \/ HostSpaceGone
OnMember == \/ MemberCreateAccount \/ MemberCreateUser \/ MemberFinishAccount \/ MemberDeleteAccount
            \/ MemberApplyTemplates

LEMMA OperatorGroups ==
  Operators <=> OnSignup \/ OnNote \/ OnMur \/ OnSpace \/ OnMember
  BY DEF Operators, OnSignup, OnNote, OnMur, OnSpace, OnMember

(* An operator leaves the test alone, and what the user asked for.          *)
LEMMA OperatorFrame ==
  ASSUME TypeOK, Operators
  PROVE  /\ UNCHANGED <<scenario, fault, part, at, outer, inner, copy, failed, tasks, banned>>
         /\ signup'.there = signup.there
         /\ signup.there => signup'.states = signup.states
         /\ Doomed' <=> Doomed
<1>. USE DEF External, host, member, test, chosen, position
<1>1. CASE OnSignup
  <2>1. /\ UNCHANGED <<scenario, fault, part, at, outer, inner, copy, failed, tasks, banned>>
        /\ signup'.there = signup.there
        /\ signup'.states = signup.states
    <3>0. signup.there
      BY <1>1 DEF OnSignup, HostHold, HostLabel, HostComplete, HostDismiss, Accepted, Doomed
    <3>. signup \in UserSignup
      BY <3>0 DEF TypeOK, NoSignup
    <3>1. CASE HostHold
      BY <3>1 DEF HostHold, UserSignup
    <3>2. CASE HostLabel
      BY <3>2 DEF HostLabel, UserSignup
    <3>3. CASE HostComplete
      BY <3>3 DEF HostComplete, UserSignup
    <3>4. CASE HostDismiss
      BY <3>4 DEF HostDismiss, UserSignup
    <3>. QED
      BY <1>1, <3>1, <3>2, <3>3, <3>4 DEF OnSignup
  <2>. QED
    BY <2>1 DEF Doomed
<1>2. CASE OnNote \/ OnMur \/ OnSpace \/ OnMember
  <2>1. /\ UNCHANGED <<scenario, fault, part, at, outer, inner, copy, failed, tasks, banned>>
        /\ UNCHANGED signup
    BY <1>2 DEF OnNote, HostNotify, HostDeleteNote, OnMur, HostCreateMur, HostSyncMur, HostDeleteMur, HostMurGone,
                OnSpace, HostCreateSpace, HostBind, HostUnbind, HostStartSpace, HostFinishSpace, HostCleanSpace,
                HostSpaceGone, OnMember, MemberCreateAccount, MemberCreateUser, MemberFinishAccount,
                MemberDeleteAccount, MemberApplyTemplates
  <2>. QED
    BY <2>1 DEF Doomed
<1>. QED
  BY <1>1, <1>2, OperatorGroups

LEMMA OperatorType ==
  ASSUME TypeOK, Operators
  PROVE  TypeOK'
<1>. USE DEF External, host, member
<1>0. Placed'
  <2>1. UNCHANGED <<scenario, part, at, failed>> /\ Part' = Part
    BY OperatorFrame, Still
  <2>. QED
    BY <2>1 DEF TypeOK, Placed
<1>1. Provided' = Provided /\ Tiers' = Tiers /\ banned' = banned
  BY OperatorFrame, Still DEF Tiers
<1>2. CASE OnSignup
  <2>0. signup.there
    BY <1>2 DEF OnSignup, HostHold, HostLabel, HostComplete, HostDismiss, Accepted, Doomed
  <2>. signup \in UserSignup
    BY <2>0 DEF TypeOK, NoSignup
  <2>. ApprovedBy \in {ApprovedByAdmin, ApprovedAutomatically}
    BY DEF ApprovedBy
  <2>1. signup' \in UserSignup
    <3>1. CASE HostHold
      BY <3>1, ConditionTypes DEF HostHold, UserSignup
    <3>2. CASE HostLabel
      BY <3>2, ConditionTypes DEF HostLabel, UserSignup, Accepted, Doomed
    <3>3. CASE HostComplete
      BY <3>3, ConditionTypes DEF HostComplete, UserSignup, WithSpace
    <3>4. CASE HostDismiss
      BY <3>4, ConditionTypes DEF HostDismiss, UserSignup
    <3>. QED
      BY <1>2, <3>1, <3>2, <3>3, <3>4 DEF OnSignup
  <2>. QED
    BY <1>0, <1>1, <1>2, <2>1 DEF OnSignup, HostHold, HostLabel, HostComplete, HostDismiss, TypeOK
<1>3. CASE OnNote
  BY <1>0, <1>1, <1>3 DEF OnNote, HostNotify, HostDeleteNote, TypeOK
<1>4. CASE OnMur
  <2>1. mur' \in [is : {"none", "there", "terminating"}, provisioned : BOOLEAN, account : BOOLEAN]
    <3>0. /\ mur \in [is : {"none", "there", "terminating"}, provisioned : BOOLEAN, account : BOOLEAN]
          /\ binding \in BOOLEAN
      BY DEF TypeOK
    <3>1. CASE HostCreateMur
      BY <3>1 DEF HostCreateMur, NoMur
    <3>4. CASE HostMurGone
      BY <3>4 DEF HostMurGone, NoMur
    <3>2. CASE HostSyncMur
      BY <3>0, <3>2 DEF HostSyncMur
    <3>3. CASE HostDeleteMur
      BY <3>0, <3>3 DEF HostDeleteMur
    <3>. QED
      BY <1>4, <3>1, <3>2, <3>3, <3>4 DEF OnMur
  <2>. QED
    BY <1>0, <1>1, <1>4, <2>1 DEF OnMur, HostCreateMur, HostSyncMur, HostDeleteMur, HostMurGone, TypeOK
<1>5. CASE OnSpace
  <2>. USE DEF NoSpace
  <2>1. space' \in [is : {"none", "there", "terminating"}, tier : Tiers, hash : Tiers, provisioned : BOOLEAN, bound : BOOLEAN]
    <3>0. space \in [is : {"none", "there", "terminating"}, tier : Tiers, hash : Tiers, provisioned : BOOLEAN, bound : BOOLEAN]
          /\ "none" \in Tiers /\ "base" \in Tiers
      BY DEF TypeOK, Tiers
    <3>1. CASE HostCreateSpace
      BY <3>0, <3>1 DEF HostCreateSpace
    <3>2. CASE HostBind
      BY <3>0, <3>2 DEF HostBind
    <3>3. CASE HostUnbind
      BY <3>0, <3>3 DEF HostUnbind
    <3>4. CASE HostStartSpace
      BY <3>0, <3>4 DEF HostStartSpace
    <3>5. CASE HostFinishSpace
      BY <3>0, <3>5 DEF HostFinishSpace
    <3>6. CASE HostCleanSpace
      BY <3>0, <3>6 DEF HostCleanSpace
    <3>7. CASE HostSpaceGone
      BY <3>0, <3>7 DEF HostSpaceGone
    <3>. QED
      BY <1>5, <3>1, <3>2, <3>3, <3>4, <3>5, <3>6, <3>7 DEF OnSpace
  <2>. QED
    BY <1>0, <1>1, <1>5, <2>1
       DEF OnSpace, HostCreateSpace, HostBind, HostUnbind, HostStartSpace, HostFinishSpace, HostCleanSpace, HostSpaceGone, TypeOK
<1>6. CASE OnMember
  <2>1. CASE MemberApplyTemplates
    BY <1>0, <1>1, <2>1 DEF MemberApplyTemplates, TypeOK, Tiers
  <2>2. CASE ~MemberApplyTemplates
    BY <1>0, <1>1, <1>6, <2>2
       DEF OnMember, MemberCreateAccount, MemberCreateUser, MemberFinishAccount, MemberDeleteAccount, TypeOK
  <2>. QED
    BY <2>1, <2>2
<1>. QED
  BY <1>2, <1>3, <1>4, <1>5, <1>6, OperatorGroups

LEMMA OperatorCopy ==
  ASSUME TypeOK, Operators, CopyInv
  PROVE  CopyInv'
<1>1. UNCHANGED <<scenario, part, at, failed, outer, copy>> /\ Part' = Part /\ request' = request
  BY OperatorFrame, Still
<1>2. Step' = Step /\ (NeedsUpdate' <=> NeedsUpdate)
  BY <1>1 DEF Step, NeedsUpdate
<1>. QED
  BY <1>1, <1>2 DEF CopyInv

LEMMA OperatorSignup ==
  ASSUME TypeOK, Operators, SignupInv
  PROVE  SignupInv'
<1>1. /\ UNCHANGED <<part, at, banned>> /\ signup'.there = signup.there
      /\ Doomed' <=> Doomed
  BY OperatorFrame
<1>2. ~signup.there => UNCHANGED <<mur, space, binding>>
  <2>. USE DEF External, host, member
  <2>. SUFFICES ASSUME ~signup.there
                PROVE  UNCHANGED <<mur, space, binding>>
    OBVIOUS
  <2>1. mur = NoMur /\ space = NoSpace /\ ~binding /\ ~Accepted /\ ~Doomed
    BY DEF SignupInv, Accepted, Doomed
  <2>2. CASE OnSignup \/ OnNote \/ OnMember
    BY <2>2 DEF OnSignup, HostHold, HostLabel, HostComplete, HostDismiss, OnNote, HostNotify, HostDeleteNote, OnMember,
                MemberCreateAccount, MemberCreateUser, MemberFinishAccount, MemberDeleteAccount, MemberApplyTemplates
  <2>3. ~OnMur
    BY <2>1 DEF OnMur, HostCreateMur, HostSyncMur, HostDeleteMur, HostMurGone, NoMur
  <2>4. ~OnSpace
    BY <2>1 DEF OnSpace, HostCreateSpace, HostBind, HostUnbind, HostStartSpace, HostFinishSpace, HostCleanSpace,
                HostSpaceGone, NoSpace
  <2>. QED
    BY <2>2, <2>3, <2>4, OperatorGroups
<1>. QED
  BY <1>1, <1>2 DEF SignupInv, NoMur, NoSpace

LEMMA OperatorResource ==
  ASSUME TypeOK, Operators, SignupInv, ResourceInv, LiveInv
  PROVE  ResourceInv'
<1>. USE DEF External, host, member
<1>1. WithSpace' <=> WithSpace
  BY OperatorFrame, Still
<1>2. CASE OnSignup \/ OnNote
  BY <1>1, <1>2 DEF OnSignup, HostHold, HostLabel, HostComplete, HostDismiss, OnNote, HostNotify, HostDeleteNote,
                    ResourceInv, NoMur, NoSpace
<1>3. CASE OnMur
  BY <1>1, <1>3 DEF OnMur, HostCreateMur, HostSyncMur, HostDeleteMur, HostMurGone, ResourceInv, NoMur, NoSpace, TypeOK
<1>4. CASE OnSpace
  <2>. USE <1>1 DEF ResourceInv, NoSpace, NoMur, TypeOK
  <2>1. CASE HostCreateSpace
    BY <2>1 DEF HostCreateSpace
  <2>2. CASE HostBind
    BY <2>2 DEF HostBind
  <2>3. CASE HostUnbind
    BY <2>3 DEF HostUnbind
  <2>4. CASE HostStartSpace
    BY <2>4 DEF HostStartSpace
  <2>7. CASE HostFinishSpace
    BY <2>7 DEF HostFinishSpace
  <2>5. CASE HostCleanSpace
    BY <2>5 DEF HostCleanSpace
  <2>6. CASE HostSpaceGone
    BY <2>6 DEF HostSpaceGone
  <2>. QED
    BY <1>4, <2>1, <2>2, <2>3, <2>4, <2>5, <2>6, <2>7 DEF OnSpace
<1>5. CASE OnMember
  BY <1>1, <1>5 DEF OnMember, MemberCreateAccount, MemberCreateUser, MemberFinishAccount, MemberDeleteAccount,
                    MemberApplyTemplates, ResourceInv, NoMur, NoSpace
<1>. QED
  BY <1>2, <1>3, <1>4, <1>5, OperatorGroups

LEMMA OperatorLive ==
  ASSUME TypeOK, Operators, SignupInv, ResourceInv, LiveInv
  PROVE  LiveInv'
<1>. USE DEF External, host, member
<1>1. signup'.there = signup.there /\ (Doomed' <=> Doomed)
  BY OperatorFrame
<1>2. CASE OnSignup
  <2>0. signup.there /\ UNCHANGED <<mur, space, binding>>
    BY <1>2 DEF OnSignup, HostHold, HostLabel, HostComplete, HostDismiss, Accepted, Doomed
  <2>. signup \in UserSignup
    BY <2>0 DEF TypeOK, NoSignup
  <2>. ApprovedBy \in {ApprovedByAdmin, ApprovedAutomatically}
    BY DEF ApprovedBy
  <2>. DEFINE A == ApprovedBy
  <2>. A \in {ApprovedByAdmin, ApprovedAutomatically}
    OBVIOUS
  <2>. HIDE DEF A
  <2>1. CASE HostHold
    BY <1>1, <2>0, <2>1, WhatIsComplete DEF HostHold, UserSignup, LiveInv
  <2>2. CASE HostLabel
    <3>1. CASE Accepted
      <4>1. /\ signup'.label = "approved" /\ ~Doomed
            /\ signup'.conds = Override(signup.conds, {c \in A : c.type = "Approved"})
        BY <2>2, <3>1 DEF HostLabel, UserSignup, Accepted, A
      <4>2. Complete \in signup'.conds <=> Complete \in signup.conds
        BY <4>1, OverrideApproved
      <4>. QED
        BY <1>1, <2>0, <4>1, <4>2 DEF LiveInv
    <3>2. CASE ~Accepted
      <4>1. signup'.label # "approved" /\ Doomed
        BY <2>2, <3>2 DEF HostLabel, UserSignup
      <4>. QED
        BY <1>1, <2>0, <4>1 DEF LiveInv
    <3>. QED
      BY <3>1, <3>2
  <2>3. CASE HostComplete
    BY <1>1, <2>0, <2>3 DEF HostComplete, UserSignup, LiveInv, Accepted
  <2>4. CASE HostDismiss
    BY <1>1, <2>0, <2>4, WhatIsComplete DEF HostDismiss, UserSignup, LiveInv
  <2>. QED
    BY <1>2, <2>1, <2>2, <2>3, <2>4 DEF OnSignup
<1>3. CASE OnNote
  BY <1>1, <1>3 DEF OnNote, HostNotify, HostDeleteNote, LiveInv
<1>4. CASE OnMur
  <2>0. UNCHANGED <<signup, space, binding>>
    BY <1>4 DEF OnMur, HostCreateMur, HostSyncMur, HostDeleteMur, HostMurGone
  <2>1. CASE HostCreateMur \/ HostSyncMur
    BY <1>1, <2>0, <2>1 DEF HostCreateMur, HostSyncMur, LiveInv, NoMur, TypeOK
  <2>2. CASE HostDeleteMur
    BY <1>1, <2>0, <2>2 DEF HostDeleteMur, LiveInv, TypeOK
  <2>3. CASE HostMurGone
    BY <1>1, <2>0, <2>3 DEF HostMurGone, LiveInv, NoMur, TypeOK
  <2>. QED
    BY <1>4, <2>1, <2>2, <2>3 DEF OnMur
<1>5. CASE OnSpace
  <2>0. UNCHANGED <<signup, mur>>
    BY <1>5 DEF OnSpace, HostCreateSpace, HostBind, HostUnbind, HostStartSpace, HostFinishSpace, HostCleanSpace, HostSpaceGone
  <2>. USE <1>1, <2>0 DEF LiveInv, NoMur, NoSpace, TypeOK
  <2>1. CASE HostCreateSpace
    BY <2>1 DEF HostCreateSpace
  <2>2. CASE HostBind
    BY <2>2 DEF HostBind
  <2>3. CASE HostUnbind
    BY <2>3 DEF HostUnbind
  <2>4. CASE HostStartSpace
    BY <2>4 DEF HostStartSpace
  <2>7. CASE HostFinishSpace
    BY <2>7 DEF HostFinishSpace
  <2>5. CASE HostCleanSpace
    BY <2>5 DEF HostCleanSpace
  <2>6. CASE HostSpaceGone
    BY <2>6 DEF HostSpaceGone
  <2>. QED
    BY <1>5, <2>1, <2>2, <2>3, <2>4, <2>5, <2>6, <2>7 DEF OnSpace
<1>6. CASE OnMember
  BY <1>1, <1>6 DEF OnMember, MemberCreateAccount, MemberCreateUser, MemberFinishAccount, MemberDeleteAccount,
                    MemberApplyTemplates, LiveInv
<1>. QED
  BY <1>2, <1>3, <1>4, <1>5, <1>6, OperatorGroups

(* The operators bring nothing back to a dismissed user.                    *)
LEMMA DismissedStays ==
  ASSUME TypeOK, Operators, Doomed
  PROVE  /\ Relabelled => Relabelled'
         /\ Incomplete => Incomplete'
         /\ mur = NoMur => mur' = NoMur
         /\ space = NoSpace => space' = NoSpace
         /\ ~binding => ~binding'
<1>. USE DEF External, host, member
<1>0. ~Accepted /\ signup.there
  BY DEF Accepted, Doomed
<1>1. CASE OnSignup
  <2>. signup \in UserSignup
    BY <1>0 DEF TypeOK, NoSignup
  <2>. ApprovedBy \in {ApprovedByAdmin, ApprovedAutomatically}
    BY DEF ApprovedBy
  <2>0. UNCHANGED <<mur, space, binding>>
    BY <1>1 DEF OnSignup, HostHold, HostLabel, HostComplete, HostDismiss
  <2>1. CASE HostLabel
    <3>1. signup'.label \in {"deactivated", "banned"} /\ signup'.conds = signup.conds
      BY <1>0, <2>1 DEF HostLabel, UserSignup
    <3>. QED
      BY <2>0, <3>1 DEF Relabelled, Incomplete
  <2>2. CASE HostDismiss
    <3>1. signup'.label = signup.label
      BY <2>2 DEF HostDismiss, UserSignup
    <3>2. Complete \notin signup'.conds
      BY <2>2, WhatIsComplete DEF HostDismiss, UserSignup
    <3>. QED
      BY <2>0, <3>1, <3>2 DEF Relabelled, Incomplete
  <2>. QED
    BY <1>0, <1>1, <2>1, <2>2 DEF OnSignup, HostHold, HostComplete
<1>2. CASE OnNote \/ OnMember
  BY <1>2 DEF OnNote, HostNotify, HostDeleteNote, OnMember, MemberCreateAccount, MemberCreateUser, MemberFinishAccount,
              MemberDeleteAccount, MemberApplyTemplates, Relabelled, Incomplete
<1>3. CASE OnMur
  BY <1>0, <1>3 DEF OnMur, HostCreateMur, HostSyncMur, HostDeleteMur, HostMurGone, Relabelled, Incomplete, NoMur
<1>4. CASE OnSpace
  BY <1>0, <1>4 DEF OnSpace, HostCreateSpace, HostBind, HostUnbind, HostStartSpace, HostFinishSpace, HostCleanSpace,
                    HostSpaceGone, Relabelled, Incomplete, NoSpace
<1>. QED
  BY <1>1, <1>2, <1>3, <1>4, OperatorGroups

(* The operators take nothing away from a user who is not dismissed.        *)
LEMMA ProvidedStays ==
  ASSUME TypeOK, Operators, SignupInv, LiveInv, ~Doomed
  PROVE  /\ space.is = "there" => space'.is = "there"
         /\ space.is = "there" /\ space.provisioned /\ space.hash = space.tier =>
              space'.provisioned /\ space'.tier = space.tier /\ space'.hash = space.hash
         /\ space.is = "there" /\ space.provisioned => set' = set
         /\ mur.is = "there" => mur'.is = "there"
         /\ mur.is = "there" /\ mur.provisioned => mur'.provisioned
         /\ mur.is = "there" /\ binding => binding'
         /\ mur.is = "there" /\ account = "ready" => account' = "ready"
         /\ mur.is = "there" => user \subseteq user'
<1>. USE DEF External, host, member
<1>0. /\ mur.is # "terminating" /\ space.is # "terminating"
      /\ space.bound = binding
  BY DEF LiveInv
<1>1. CASE OnSignup \/ OnNote
  BY <1>1 DEF OnSignup, HostHold, HostLabel, HostComplete, HostDismiss, OnNote, HostNotify, HostDeleteNote
<1>2. CASE OnMur
  <2>1. ~HostDeleteMur /\ ~HostMurGone
    BY <1>0 DEF HostDeleteMur, HostMurGone
  <2>. QED
    BY <1>2, <2>1 DEF OnMur, HostCreateMur, HostSyncMur, NoMur
<1>3. CASE OnSpace
  <2>1. ~HostCleanSpace /\ ~HostSpaceGone
    BY <1>0 DEF HostCleanSpace, HostSpaceGone
  <2>0. UNCHANGED <<mur, account, user, set>>
    BY <1>3 DEF OnSpace, HostCreateSpace, HostBind, HostUnbind, HostStartSpace, HostFinishSpace, HostCleanSpace, HostSpaceGone
  <2>2. CASE HostCreateSpace
    BY <2>0, <2>2 DEF HostCreateSpace, NoSpace
  <2>3. CASE HostBind
    BY <2>0, <2>3 DEF HostBind, TypeOK
  <2>4. CASE HostUnbind
    BY <2>0, <2>4 DEF HostUnbind, NoMur
  <2>5. CASE HostStartSpace
    BY <2>0, <2>5 DEF HostStartSpace, TypeOK
  <2>6. CASE HostFinishSpace
    BY <2>0, <2>6 DEF HostFinishSpace, TypeOK
  <2>. QED
    BY <1>3, <2>1, <2>2, <2>3, <2>4, <2>5, <2>6 DEF OnSpace
<1>4. CASE OnMember
  BY <1>0, <1>4 DEF OnMember, MemberCreateAccount, MemberCreateUser, MemberFinishAccount, MemberDeleteAccount,
                    MemberApplyTemplates
<1>. QED
  BY <1>1, <1>2, <1>3, <1>4, OperatorGroups

LEMMA OperatorDoomed ==
  ASSUME TypeOK, Operators, DoomedInv
  PROVE  DoomedInv'
<1>1. /\ UNCHANGED <<banned>> /\ signup'.there = signup.there
      /\ signup.there => signup'.states = signup.states
      /\ Doomed' <=> Doomed
      /\ Part' = Part /\ (Leaving' <=> Leaving) /\ \A x : Behind(x)' <=> Behind(x)
  BY OperatorFrame, Still
<1>2. Leaving => Doomed
  BY DEF DoomedInv, Doomed
<1>3. CASE ~Doomed
  BY <1>1, <1>2, <1>3 DEF DoomedInv
<1>4. CASE Doomed
  <2>1. (Leaving => signup.there /\ IF Part = "ban" THEN banned ELSE "deactivated" \in signup.states)'
    BY <1>1 DEF DoomedInv
  <2>2. (Doomed /\ ~Leaving => Relabelled /\ Incomplete /\ mur = NoMur /\ space = NoSpace /\ ~binding)'
    BY <1>1, <1>4, DismissedStays DEF DoomedInv, NoMur, NoSpace
  <2>3. Leaving' =>
          /\ Behind("murGone")' \/ Behind("noMur")' => mur' = NoMur
          /\ Behind("spaceGone")' => space' = NoSpace
          /\ Behind("bindingsGone")' \/ Behind("spaceBindingsGone")' => ~binding'
          /\ Behind("deactivated")' \/ Behind("bannedLabel")' => Relabelled'
          /\ Behind("deactivated")' \/ Behind("banned")' => Incomplete'
    BY <1>1, <1>4, DismissedStays DEF DoomedInv
  <2>. QED
    BY <2>1, <2>2, <2>3 DEF DoomedInv, NoMur, NoSpace
<1>. QED
  BY <1>3, <1>4

LEMMA OperatorDeactivated ==
  ASSUME TypeOK, Operators, DeactivatedInv
  PROVE  DeactivatedInv'
<1>1. /\ UNCHANGED <<banned>> /\ signup'.there = signup.there
      /\ signup.there => signup'.states = signup.states
      /\ Part' = Part /\ (Leaving' <=> Leaving) /\ \A x : Behind(x)' <=> Behind(x)
  BY OperatorFrame, Still
<1>. SUFFICES ASSUME signup.there, "deactivated" \in signup.states
              PROVE  DeactivatedInv'
  BY <1>1 DEF DeactivatedInv
<1>2. \/ signup'.conds = signup.conds
      \/ banned /\ signup'.conds = ConditionSet(<<Default, ApprovedAutomatically, Banned>>)
      \/ ~banned /\ signup'.conds = ConditionSet(<<Default, DeactivatedWithoutPreDeactivation>>)
  <2>. USE DEF External, host, member
  <2>. Doomed /\ ~Accepted /\ ApprovedBy = ApprovedAutomatically
    BY DEF Doomed, Accepted, ApprovedBy, DeactivatedInv
  <2>. signup \in UserSignup
    BY DEF TypeOK, NoSignup
  <2>1. CASE HostLabel
    BY <2>1 DEF HostLabel, UserSignup
  <2>2. CASE HostDismiss
    BY <2>2 DEF HostDismiss, UserSignup, TypeOK
  <2>3. ~HostHold /\ ~HostComplete
    BY DEF HostHold, HostComplete
  <2>4. CASE OnNote \/ OnMur \/ OnSpace \/ OnMember
    BY <2>4 DEF OnNote, HostNotify, HostDeleteNote, OnMur, HostCreateMur, HostSyncMur, HostDeleteMur, HostMurGone,
                OnSpace, HostCreateSpace, HostBind, HostUnbind, HostStartSpace, HostFinishSpace, HostCleanSpace,
                HostSpaceGone, OnMember, MemberCreateAccount, MemberCreateUser, MemberFinishAccount,
                MemberDeleteAccount, MemberApplyTemplates
  <2>. QED
    BY <2>1, <2>2, <2>3, <2>4, OperatorGroups DEF OnSignup
<1>. DEFINE Settled == ConditionSet(<<Default, DeactivatedWithoutPreDeactivation>>)
            Rejection == ConditionSet(<<Default, ApprovedAutomatically, Banned>>)
<1>3. Approved(TRUE, "ApprovedByAdmin") \notin Settled /\ Approved(TRUE, "ApprovedByAdmin") \notin Rejection
  BY WhatIsApproved
<1>4. /\ "approved" \notin signup.states
      /\ banned => Leaving /\ ~Behind("notified") /\ ~Behind("banned")
      /\ banned /\ Part = "ban" => Approved(TRUE, "ApprovedByAdmin") \notin signup.conds
      /\ \/ banned
         \/ signup.conds = Settled
         \/ Leaving /\ Part = "deactivate" /\ ~Behind("deactivated")
  BY DEF DeactivatedInv
<1>5. DeactivatedInv' <=>
        /\ "approved" \notin signup.states
        /\ banned => Leaving /\ ~Behind("notified") /\ ~Behind("banned")
        /\ banned /\ Part = "ban" => Approved(TRUE, "ApprovedByAdmin") \notin signup'.conds
        /\ \/ banned
           \/ signup'.conds = Settled
           \/ Leaving /\ Part = "deactivate" /\ ~Behind("deactivated")
  BY <1>1 DEF DeactivatedInv
<1>. HIDE DEF Settled, Rejection
<1>6. \/ signup'.conds = signup.conds
      \/ banned /\ signup'.conds = Rejection
      \/ ~banned /\ signup'.conds = Settled
  BY <1>2 DEF Settled, Rejection
<1>. QED
  BY <1>3, <1>4, <1>5, <1>6

LEMMA OperatorNote ==
  ASSUME TypeOK, Operators, DeactivatedInv, NoteInv
  PROVE  NoteInv'
<1>1. /\ UNCHANGED <<banned>>
      /\ Part' = Part /\ (Leaving' <=> Leaving) /\ \A x : Behind(x)' <=> Behind(x)
  BY OperatorFrame, Still
<1>2. CASE note' = note \/ note' = "none" \/ note # "none"
  BY <1>1, <1>2 DEF NoteInv
<1>3. CASE note = "none" /\ note' # "none"
  <2>. USE DEF External, host, member
  <2>1. HostDismiss
    BY <1>3 DEF Operators, HostHold, HostLabel, HostComplete,
                HostNotify, HostDeleteNote, HostCreateMur, HostSyncMur, HostDeleteMur, HostMurGone,
                HostCreateSpace, HostBind, HostUnbind, HostStartSpace, HostFinishSpace, HostCleanSpace,
                HostSpaceGone, MemberCreateAccount, MemberCreateUser, MemberFinishAccount,
                MemberDeleteAccount, MemberApplyTemplates
  <2>2. /\ ~banned /\ signup.there /\ "deactivated" \in signup.states
        /\ signup.conds # ConditionSet(<<Default, DeactivatedWithoutPreDeactivation>>)
    BY <1>3, <2>1 DEF HostDismiss, Doomed
  <2>3. Leaving /\ Part = "deactivate" /\ ~Behind("deactivated")
    BY <2>2 DEF DeactivatedInv
  <2>4. AtStep
    BY <2>3 DEF TypeOK, Placed, AtStep, PartNames, Changes
  <2>5. ~Behind("notificationGone")
    BY <2>3, <2>4, GoneOrder
  <2>. QED
    BY <1>1, <2>2, <2>3, <2>5 DEF NoteInv
<1>. QED
  BY <1>2, <1>3

LEMMA OperatorVerify ==
  ASSUME TypeOK, Operators, SignupInv, LiveInv, VerifyInv
  PROVE  VerifyInv'
<1>1. /\ UNCHANGED <<scenario, fault>>
      /\ Doomed' <=> Doomed
      /\ request' = request
      /\ (Leaving' <=> Leaving) /\ \A x : Behind(x)' <=> Behind(x)
  BY OperatorFrame, Still
<1>2. CASE Leaving \/ Part = "end"
  <2>1. Part = "end" => \A x : ~Behind(x)
    BY DEF TypeOK, Placed, Behind
  <2>. QED
    BY <1>1, <1>2, <2>1 DEF VerifyInv
<1>3. CASE ~Leaving /\ Part # "end"
  <2>1. AtStep
    BY <1>3, PartKnown DEF TypeOK, Placed, AtStep
  <2>2. /\ \A x \in Verifying : Behind(x) => Behind("complete")
        /\ Behind("nsTemplateSet") => Behind("space")
    BY <2>1, VerificationOrder
  <2>3. CASE Behind("complete")
    <3>1. ~Doomed /\ mur.is = "there"
      BY <1>3, <2>3 DEF VerifyInv
    <3>. QED
      BY <1>1, <1>3, <2>2, <3>1, ProvidedStays DEF VerifyInv
  <2>4. CASE ~Behind("complete")
    <3>1. \A x \in Verifying : ~Behind(x)
      BY <2>2, <2>4
    <3>2. CASE Behind("spaceExists")
      <4>1. ~Doomed
        BY <1>3, <3>2 DEF VerifyInv
      <4>. QED
        BY <1>1, <1>3, <2>4, <3>1, <4>1, ProvidedStays DEF VerifyInv, Verifying
    <3>3. CASE ~Behind("spaceExists")
      BY <1>1, <2>4, <3>1, <3>3 DEF VerifyInv, Verifying
    <3>. QED
      BY <3>2, <3>3
  <2>. QED
    BY <2>3, <2>4
<1>. QED
  BY <1>2, <1>3

-----------------------------------------------------------------------------
(* Steps of the test that leave the cluster alone.                          *)

(* The test goes on.                                                        *)
Passes == SkipUpdate \/ AddTask \/ Await \/ AssertHolds \/ PartDone

(* The test stays where it is, or fails.                                    *)
Stays == UpdateGet \/ UpdateRetry \/ AwaitFails \/ AssertFails

Cluster == <<signup, mur, space, binding, note, account, user, set, banned>>

LEMMA PassFrame ==
  ASSUME TypeOK, CopyInv, Passes
  PROVE  /\ AtStep /\ Step = Steps(Part)[at] /\ Continue
         /\ UNCHANGED <<scenario, fault, failed, copy, Cluster>> /\ copy = NoCopy
         /\ Step \notin {"post", "deactivate", "reactivate", "move", "ban", "unban", "end"}
         /\ Step = "update" => SkipUpdate
         /\ Step \in Waits => Await
         /\ Step \in Asserts => AssertHolds
<1>1. Step \in {"update", "addTask", "provisioned", "gone"} \cup Waits \cup Asserts
  BY DEF Passes, SkipUpdate, AddTask, Await, AssertHolds, PartDone
<1>2. Step \notin {"post", "deactivate", "reactivate", "move", "ban", "unban", "end"}
  BY <1>1 DEF Waits, Asserts
<1>3. Continue /\ UNCHANGED <<scenario, fault, failed, copy, Cluster>>
  BY DEF Passes, SkipUpdate, AddTask, Await, AssertHolds, PartDone, chosen, host, member, Cluster
<1>4. /\ Step = "update" => SkipUpdate
      /\ Step \in Waits => Await
      /\ Step \in Asserts => AssertHolds
  BY DEF Passes, SkipUpdate, AddTask, Await, AssertHolds, PartDone, Waits, Asserts
<1>5. copy = NoCopy
  BY <1>2, <1>4 DEF CopyInv, SkipUpdate, Updates
<1>. QED
  BY <1>2, <1>3, <1>4, <1>5, AtTheStep

(* What a wait or an assertion that passes has seen.                        *)
LEMMA SeenGone ==
  ASSUME TypeOK, CopyInv, Passes
  PROVE  /\ Step \in {"murGone", "noMur"} => mur.is = "none"
         /\ Step = "spaceGone" => space.is = "none"
         /\ Step \in {"bindingsGone", "spaceBindingsGone"} => ~binding
         /\ Step = "notified" => note = "sent"
         /\ Step = "notificationGone" => note = "none"
<1>1. Step \in Waits => Holds(Step)
  BY PassFrame DEF Await
<1>2. Step \in Asserts => True(Step)
  BY PassFrame DEF AssertHolds
<1>3. Step = "murGone" => mur.is = "none"
  BY <1>1 DEF Waits, Holds, MasterUserRecordGone
<1>4. Step = "noMur" => mur.is = "none"
  BY <1>2 DEF Asserts, True
<1>5. Step = "spaceGone" => space.is = "none"
  BY <1>1 DEF Waits, Holds, SpaceGone
<1>6. Step \in {"bindingsGone", "spaceBindingsGone"} => ~binding
  BY <1>1 DEF Waits, Holds, SpaceBindingsGone
<1>7. Step = "notified" => note = "sent"
  BY <1>1 DEF Waits, Holds, NotificationsSent
<1>8. Step = "notificationGone" => note = "none"
  BY <1>1 DEF Waits, Holds, NotificationsGone
<1>. QED
  BY <1>3, <1>4, <1>5, <1>6, <1>7, <1>8

LEMMA Matched ==
  /\ \A object, l : Matches(object, [label |-> l]) => object.label = l
  /\ \A object, s : Matches(object, [conds |-> s]) => object.conds = s
  /\ \A object, s, l : Matches(object, [conds |-> s, label |-> l]) => object.conds = s /\ object.label = l
  /\ \A object, p, a : Matches(object, [provisioned |-> p, account |-> a]) => object.provisioned = p /\ object.account = a
  /\ \A object, t, h, p : Matches(object, [tier |-> t, hash |-> h, provisioned |-> p]) =>
       object.tier = t /\ object.hash = h /\ object.provisioned = p
  BY DEF Matches

LEMMA SeenDismissed ==
  ASSUME TypeOK, CopyInv, Passes
  PROVE  /\ Step = "deactivated" => /\ signup.label = "deactivated"
                                    /\ signup.conds = ConditionSet(<<Default, DeactivatedWithoutPreDeactivation>>)
         /\ Step = "banned" => signup.conds = ConditionSet(<<Default, ApprovedByAdmin, Banned>>)
         /\ Step = "bannedLabel" => signup.label = "banned"
<1>1. Step \in Waits => Holds(Step)
  BY PassFrame DEF Await
<1>2. Step = "deactivated" =>
        Matches(signup, [conds |-> ConditionSet(<<Default, DeactivatedWithoutPreDeactivation>>), label |-> "deactivated"])
  BY <1>1 DEF Waits, Holds, WaitForUserSignup, UserSignupMatches
<1>3. Step = "banned" => Matches(signup, [conds |-> ConditionSet(<<Default, ApprovedByAdmin, Banned>>)])
  BY <1>1 DEF Waits, Holds, WaitForUserSignup, UserSignupMatches
<1>4. Step = "bannedLabel" =>
        Matches(signup, [conds |-> ConditionSet(<<Default, ApprovedByAdmin, Banned>>), label |-> "banned"])
  BY <1>1 DEF Waits, Holds, WaitForUserSignup, UserSignupMatches
<1>. QED
  BY <1>2, <1>3, <1>4, Matched

LEMMA SeenProvided ==
  ASSUME TypeOK, CopyInv, Passes
  PROVE  /\ Step = "spaceExists" => space.is # "none"
         /\ Step = "complete" => signup.there /\ signup.label = "approved" /\ Complete \in signup.conds
         /\ Step = "space" => /\ space.is # "none" /\ space.provisioned
                              /\ space.tier = request.spaceTier /\ space.hash = request.spaceTier
         /\ Step = "binding" => binding
         /\ Step = "nsTemplateSet" => set = request.spaceTier
         /\ Step \in {"murInCluster", "murWithoutAccount"} => mur.provisioned
         /\ Step = "account" => account = "ready"
         /\ Step = "user" /\ ~scenario.skipUsers => "User" \in user
         /\ Step = "identity" /\ ~scenario.skipUsers => "Identity" \in user
<1>1. Step \in Waits => Holds(Step)
  BY PassFrame DEF Await
<1>2. Step = "spaceExists" => space.is # "none"
  BY <1>1 DEF Waits, Holds, WaitForSpace, SpaceMatches
<1>3. Step = "complete" => signup.there /\ signup.label = "approved" /\ Complete \in signup.conds
  <2>1. Step = "complete" => signup.there /\ Matches(signup, [label |-> "approved"]) /\ Complete \in signup.conds
    BY <1>1 DEF Waits, Holds, ApprovedAndComplete, WaitForUserSignup, UserSignupMatches
  <2>. QED
    BY <2>1, Matched
<1>4. Step = "space" => /\ space.is # "none" /\ space.provisioned
                        /\ space.tier = request.spaceTier /\ space.hash = request.spaceTier
  <2>1. Step = "space" =>
          /\ space.is # "none"
          /\ Matches(space, [tier |-> request.spaceTier, hash |-> request.spaceTier, provisioned |-> TRUE])
    BY <1>1 DEF Waits, Holds, ProvisionedSpace, WaitForSpace, SpaceMatches
  <2>. QED
    BY <2>1, Matched
<1>5. Step \in {"murInCluster", "murWithoutAccount"} => mur.provisioned
  <2>1. /\ Step = "murInCluster" => Matches(mur, [provisioned |-> TRUE, account |-> TRUE])
        /\ Step = "murWithoutAccount" => Matches(mur, [provisioned |-> TRUE, account |-> FALSE])
    BY <1>1 DEF Waits, Holds, WaitForMasterUserRecord, MasterUserRecordMatches
  <2>. QED
    BY <2>1, Matched
<1>6. /\ Step = "binding" => binding
      /\ Step = "nsTemplateSet" => set = request.spaceTier
      /\ Step = "account" => account = "ready"
  BY <1>1 DEF Waits, Holds, SpaceBindingMatches, UserAccountMatches
<1>7. /\ Step = "user" /\ ~scenario.skipUsers => "User" \in user
      /\ Step = "identity" /\ ~scenario.skipUsers => "Identity" \in user
  BY <1>1 DEF Waits, Holds, WaitForUser, WaitForIdentity
<1>. QED
  BY <1>2, <1>3, <1>4, <1>5, <1>6, <1>7

LEMMA SameCluster ==
  ASSUME UNCHANGED <<scenario, Cluster>>
  PROVE  /\ Doomed' <=> Doomed
         /\ Relabelled' <=> Relabelled
         /\ Incomplete' <=> Incomplete
         /\ request' = request /\ (WithSpace' <=> WithSpace)
         /\ ResourceInv => ResourceInv'
         /\ LiveInv => LiveInv'
         /\ TypeOK /\ Placed' => TypeOK'
<1>1. /\ Doomed' <=> Doomed
      /\ Relabelled' <=> Relabelled
      /\ Incomplete' <=> Incomplete
      /\ request' = request /\ (WithSpace' <=> WithSpace)
      /\ Provided' = Provided /\ Tiers' = Tiers
  BY SamePlan DEF Cluster, Doomed, Relabelled, Incomplete, Tiers
<1>2. ResourceInv => ResourceInv'
  BY <1>1 DEF Cluster, ResourceInv
<1>3. LiveInv => LiveInv'
  BY <1>1 DEF Cluster, LiveInv
<1>4. TypeOK /\ Placed' => TypeOK'
  BY <1>1 DEF Cluster, TypeOK
<1>. QED
  BY <1>1, <1>2, <1>3, <1>4

(* A part is followed by the next one.                                      *)
LEMMA AdvanceAll ==
  ASSUME AtStep, scenario' = scenario, Continue
  PROVE  \/ /\ part' = part /\ Part' = Part /\ at' = at + 1 /\ at' \in 2..Len(Steps(Part))
            /\ Leaving' <=> Part \in {"deactivate", "ban"}
            /\ \A x : Behind(x)' <=> Behind(x) \/ x = Steps(Part)[at]
         \/ /\ at = Len(Steps(Part)) /\ part' = part + 1 /\ at' = 1
            /\ ~Leaving' /\ \A x : ~Behind(x)'
<1>1. CASE at' = 1
  BY <1>1, Advance
<1>2. CASE at' # 1
  BY <1>2, Advance
<1>. QED
  BY <1>1, <1>2

LEMMA Moves ==
  ASSUME TypeOK, AtStep, scenario' = scenario, failed' = failed, Continue
  PROVE  Placed'
<1>1. scenario \in Scenarios /\ part \in Nat \ {0} /\ failed \in BOOLEAN
  BY DEF TypeOK, Placed
<1>2. CASE at' # 1
  BY <1>1, <1>2, AdvanceAll DEF Placed, AtStep, PartNames, Verifications, Changes
<1>3. CASE at' = 1
  <2>1. part' = part + 1
    BY <1>3, AdvanceAll
  <2>2. Plan' = Plan /\ Headed(Plan)
    BY <1>1, SamePlan, PlanHeaded
  <2>3. Part' = "end" \/ Part' \in PartNames
    BY <1>1, <2>1, <2>2, LenProperties, ElementOfSeq DEF Part, Headed
  <2>4. \A name \in PartNames : Len(Steps(name)) \in {1, 2, 4, 6, 7, 10, 15, 16, 19}
    BY Lengths DEF PartNames, Verifications, Changes
  <2>5. \A n \in {1, 2, 4, 6, 7, 10, 15, 16, 19} : 1 \in 1..n
    OBVIOUS
  <2>6. Part' # "end" => 1 \in 1..Len(Steps(Part'))
    BY <2>3, <2>4, <2>5
  <2>7. part' \in Nat \ {0} /\ scenario' \in Scenarios /\ failed' \in BOOLEAN
    BY <1>1, <2>1
  <2>. QED
    BY <1>3, <2>6, <2>7 DEF Placed
<1>. QED
  BY <1>2, <1>3

LEMMA PassSignup ==
  ASSUME TypeOK, CopyInv, SignupInv, Passes
  PROVE  signup.there /\ SignupInv'
<1>1. /\ AtStep /\ Step = Steps(Part)[at] /\ Continue /\ Step # "post"
      /\ UNCHANGED <<scenario, Cluster>>
      /\ Doomed' <=> Doomed
      /\ Part = "signup" <=> part = 1
  BY PassFrame, SameCluster, AtTheStep
<1>2. signup.there
  BY <1>1, PlaceOf DEF SignupInv
<1>3. part' = 1 => part = 1 /\ at' # 1
  BY <1>1, AdvanceAll DEF TypeOK, Placed
<1>. QED
  BY <1>1, <1>2, <1>3 DEF SignupInv, Cluster

(* Whether a dismissal is under way changes only at the end of its part.    *)
LEMMA PassLeaving ==
  ASSUME TypeOK, CopyInv, Passes, at' # 1
  PROVE  /\ Part' = Part /\ (Leaving' <=> Leaving) /\ \A x : Behind(x)' <=> Behind(x) \/ x = Step
<1>1. /\ AtStep /\ Step = Steps(Part)[at] /\ Continue /\ Step \notin {"deactivate", "ban"}
      /\ scenario' = scenario
  BY PassFrame
<1>2. Part \in {"deactivate", "ban"} => at # 1
  BY <1>1, PlaceOf
<1>. QED
  BY <1>1, <1>2, AdvanceAll DEF Leaving, AtStep

LEMMA PassDoomed ==
  ASSUME TypeOK, CopyInv, SignupInv, ResourceInv, DoomedInv, Passes
  PROVE  DoomedInv'
<1>1. /\ AtStep /\ Step = Steps(Part)[at] /\ Continue
      /\ UNCHANGED <<scenario, Cluster>>
      /\ Doomed' <=> Doomed
      /\ Relabelled' <=> Relabelled
      /\ Incomplete' <=> Incomplete
  BY PassFrame, SameCluster
<1>2. CASE at' # 1
  <2>1. /\ Part' = Part /\ (Leaving' <=> Leaving) /\ \A x : Behind(x)' <=> Behind(x) \/ x = Step
    BY <1>2, PassLeaving
  <2>2. Step \in {"murGone", "noMur"} => mur = NoMur
    BY SeenGone DEF ResourceInv
  <2>3. Step = "spaceGone" => space = NoSpace
    BY SeenGone DEF ResourceInv
  <2>4. Step \in {"deactivated", "bannedLabel"} => Relabelled
    BY SeenDismissed DEF Relabelled
  <2>5. Step \in {"deactivated", "banned"} => Incomplete
    BY SeenDismissed, WhatIsComplete DEF Incomplete
  <2>6. (Leaving => signup.there /\ IF Part = "ban" THEN banned ELSE "deactivated" \in signup.states)'
    BY <1>1, <2>1 DEF DoomedInv, Cluster
  <2>7. (Doomed /\ ~Leaving => Relabelled /\ Incomplete /\ mur = NoMur /\ space = NoSpace /\ ~binding)'
    BY <1>1, <2>1 DEF DoomedInv, NoMur, NoSpace, Cluster
  <2>8. Leaving' =>
          /\ Behind("murGone")' \/ Behind("noMur")' => mur' = NoMur
          /\ Behind("spaceGone")' => space' = NoSpace
          /\ Behind("bindingsGone")' \/ Behind("spaceBindingsGone")' => ~binding'
          /\ Behind("deactivated")' \/ Behind("bannedLabel")' => Relabelled'
          /\ Behind("deactivated")' \/ Behind("banned")' => Incomplete'
    BY <1>1, <2>1, <2>2, <2>3, <2>4, <2>5, SeenGone DEF DoomedInv, Cluster
  <2>. QED
    BY <2>6, <2>7, <2>8 DEF DoomedInv, NoMur, NoSpace
<1>3. CASE at' = 1
  <2>1. at = Len(Steps(Part)) /\ ~Leaving'
    BY <1>1, <1>3, AdvanceAll
  <2>2. Doomed => Relabelled /\ Incomplete /\ mur = NoMur /\ space = NoSpace /\ ~binding
    <3>1. CASE Leaving
      BY <1>1, <2>1, <3>1, GoneOrder DEF DoomedInv, Leaving
    <3>2. CASE ~Leaving
      BY <3>2 DEF DoomedInv
    <3>. QED
      BY <3>1, <3>2
  <2>. QED
    BY <1>1, <2>1, <2>2 DEF DoomedInv, NoMur, NoSpace, Cluster
<1>. QED
  BY <1>2, <1>3

LEMMA PassDeactivated ==
  ASSUME TypeOK, CopyInv, SignupInv, DoomedInv, DeactivatedInv, NoteInv, Passes
  PROVE  DeactivatedInv'
<1>1. /\ AtStep /\ Step = Steps(Part)[at] /\ Continue
      /\ UNCHANGED <<scenario, Cluster>>
  BY PassFrame
<1>. SUFFICES ASSUME signup.there, "deactivated" \in signup.states
              PROVE  DeactivatedInv'
  BY <1>1 DEF DeactivatedInv, Cluster
<1>. DEFINE Settled == ConditionSet(<<Default, DeactivatedWithoutPreDeactivation>>)
<1>2. /\ "approved" \notin signup.states
      /\ banned => Leaving /\ ~Behind("notified") /\ ~Behind("banned")
      /\ banned /\ Part = "ban" => Approved(TRUE, "ApprovedByAdmin") \notin signup.conds
      /\ \/ banned
         \/ signup.conds = Settled
         \/ Leaving /\ Part = "deactivate" /\ ~Behind("deactivated")
  BY DEF DeactivatedInv
<1>3. DeactivatedInv' <=>
        /\ "approved" \notin signup.states
        /\ banned => Leaving' /\ ~Behind("notified")' /\ ~Behind("banned")'
        /\ banned /\ Part' = "ban" => Approved(TRUE, "ApprovedByAdmin") \notin signup.conds
        /\ \/ banned
           \/ signup.conds = Settled
           \/ Leaving' /\ Part' = "deactivate" /\ ~Behind("deactivated")'
  BY <1>1 DEF DeactivatedInv, Cluster
<1>4. /\ Step = "notified" => ~banned
      /\ Step = "banned" => ~banned
      /\ Step = "deactivated" => signup.conds = Settled
  <2>1. Step = "notified" => ~banned
    BY SeenGone DEF NoteInv
  <2>2. Step = "banned" => ~banned
    <3>1. Step = "banned" => Part = "ban" /\ Approved(TRUE, "ApprovedByAdmin") \in signup.conds
      BY <1>1, PlaceOf, SeenDismissed, WhatIsApproved
    <3>. QED
      BY <1>2, <3>1
  <2>3. Step = "deactivated" => signup.conds = Settled
    BY SeenDismissed
  <2>. QED
    BY <2>1, <2>2, <2>3
<1>. HIDE DEF Settled
<1>5. CASE at' # 1
  <2>1. /\ Part' = Part /\ (Leaving' <=> Leaving) /\ \A x : Behind(x)' <=> Behind(x) \/ x = Step
    BY <1>5, PassLeaving
  <2>. QED
    BY <1>2, <1>3, <1>4, <2>1
<1>6. CASE at' = 1
  <2>1. at = Len(Steps(Part)) /\ ~Leaving'
    BY <1>1, <1>6, AdvanceAll
  <2>2. Leaving => /\ Part = "deactivate" => Behind("notified") /\ Behind("deactivated")
                   /\ Part = "ban" => Behind("banned")
    BY <1>1, <2>1, GoneOrder
  <2>3. ~banned
    BY <1>2, <2>2 DEF Leaving
  <2>4. signup.conds = Settled
    BY <1>2, <2>2, <2>3
  <2>. QED
    BY <1>2, <1>3, <2>3, <2>4
<1>. QED
  BY <1>5, <1>6

LEMMA PassNote ==
  ASSUME TypeOK, CopyInv, NoteInv, Passes
  PROVE  NoteInv'
<1>1. /\ AtStep /\ Step = Steps(Part)[at] /\ Continue
      /\ UNCHANGED <<scenario, Cluster>>
  BY PassFrame
<1>2. CASE at' # 1
  BY <1>1, <1>2, PassLeaving, SeenGone DEF NoteInv, Cluster
<1>3. CASE at' = 1
  <2>1. at = Len(Steps(Part))
    BY <1>1, <1>3, AdvanceAll
  <2>2. note = "none"
    BY <1>1, <2>1, GoneOrder DEF NoteInv
  <2>. QED
    BY <1>1, <2>2 DEF NoteInv, Cluster
<1>. QED
  BY <1>2, <1>3

LEMMA PassVerify ==
  ASSUME TypeOK, CopyInv, SignupInv, LiveInv, DoomedInv, VerifyInv, Passes
  PROVE  VerifyInv'
<1>1. /\ AtStep /\ Step = Steps(Part)[at] /\ Continue
      /\ UNCHANGED <<scenario, Cluster>>
      /\ Doomed' <=> Doomed
      /\ request' = request
  BY PassFrame, SameCluster
<1>2. CASE at' # 1
  <2>1. /\ (Leaving' <=> Leaving) /\ \A x : Behind(x)' <=> Behind(x) \/ x = Step
    BY <1>2, PassLeaving
  <2>2. ~Leaving /\ Step = "spaceExists" => ~Doomed /\ space.is = "there"
    <3>. SUFFICES ASSUME ~Leaving, Step = "spaceExists"
                  PROVE  ~Doomed /\ space.is = "there"
      OBVIOUS
    <3>1. space.is # "none"
      BY SeenProvided
    <3>2. ~Doomed
      BY <3>1 DEF DoomedInv, NoSpace
    <3>. QED
      BY <3>1, <3>2 DEF LiveInv, TypeOK
  <2>3. ~Leaving /\ Step = "complete" => ~Doomed /\ mur.is = "there"
    <3>. SUFFICES ASSUME ~Leaving, Step = "complete"
                  PROVE  ~Doomed /\ mur.is = "there"
      OBVIOUS
    <3>1. signup.there /\ signup.label = "approved" /\ Complete \in signup.conds
      BY SeenProvided
    <3>2. ~Doomed
      BY <3>1 DEF DoomedInv, Incomplete
    <3>. QED
      BY <3>1, <3>2 DEF LiveInv
  <2>4. ~Leaving /\ Step = "space" => space.is = "there"
    <3>. SUFFICES ASSUME ~Leaving, Step = "space"
                  PROVE  space.is = "there"
      OBVIOUS
    <3>1. space.is # "none"
      BY SeenProvided
    <3>2. ~Doomed
      BY <3>1 DEF DoomedInv, NoSpace
    <3>. QED
      BY <3>1, <3>2 DEF LiveInv, TypeOK
  <2>. QED
    BY <1>1, <2>1, <2>2, <2>3, <2>4, SeenProvided DEF VerifyInv, Cluster
<1>3. CASE at' = 1
  BY <1>1, <1>3, AdvanceAll DEF VerifyInv
<1>. QED
  BY <1>2, <1>3

(* A step that passes preserves the invariant.                              *)
LEMMA PassInv ==
  ASSUME IInv, Passes
  PROVE  IInv'
<1>. USE DEF IInv
<1>1. UNCHANGED <<scenario, failed, Cluster, copy>> /\ AtStep /\ Continue /\ copy = NoCopy
  BY PassFrame
<1>2. TypeOK'
  BY <1>1, Moves, SameCluster
<1>3. CopyInv'
  BY <1>1 DEF CopyInv
<1>. QED
  BY <1>1, <1>2, <1>3, SameCluster, PassSignup, PassDoomed, PassDeactivated, PassNote, PassVerify

LEMMA StayInv ==
  ASSUME IInv, Stays \/ UNCHANGED vars
  PROVE  IInv'
<1>. USE DEF IInv
<1>1. /\ UNCHANGED <<scenario, part, at, outer, Cluster>> /\ failed' \in BOOLEAN
      /\ \/ UNCHANGED failed /\ (copy' # NoCopy => Step \in Updates /\ (Step = "update" => NeedsUpdate))
         \/ copy' = NoCopy
  <2>1. UNCHANGED <<scenario, part, at, outer, Cluster>>
    BY DEF Stays, UpdateGet, UpdateRetry, AwaitFails, AssertFails, Fail, chosen, position, host, member, Cluster, vars, test
  <2>2. CASE UpdateGet
    BY <2>1, <2>2 DEF UpdateGet, TypeOK, Placed
  <2>3. CASE UpdateRetry
    BY <2>1, <2>3 DEF UpdateRetry, TypeOK, Placed
  <2>4. CASE AwaitFails \/ AssertFails
    <3>1. Step \notin Updates
      BY <2>4 DEF AwaitFails, AssertFails, Waits, Asserts, Updates
    <3>. QED
      BY <2>1, <2>4, <3>1 DEF AwaitFails, AssertFails, Fail, CopyInv
  <2>5. CASE UNCHANGED vars
    BY <2>1, <2>5 DEF vars, test, CopyInv, TypeOK, Placed
  <2>. QED
    BY <2>2, <2>3, <2>4, <2>5 DEF Stays
<1>2. /\ Part' = Part /\ (Leaving' <=> Leaving) /\ \A x : Behind(x)' <=> Behind(x)
      /\ request' = request
  BY <1>1, Still
<1>3. /\ Doomed' <=> Doomed
      /\ Relabelled' <=> Relabelled
      /\ Incomplete' <=> Incomplete
      /\ ResourceInv' /\ LiveInv'
  BY <1>1, SameCluster
<1>4. TypeOK'
  <2>1. Placed'
    BY <1>1, <1>2 DEF TypeOK, Placed
  <2>. QED
    BY <1>1, <2>1, SameCluster
<1>5. CopyInv'
  BY <1>1, <1>2 DEF CopyInv, Step, NeedsUpdate
<1>6. SignupInv'
  BY <1>1, <1>3 DEF SignupInv, Cluster, NoMur, NoSpace
<1>7. DoomedInv'
  BY <1>1, <1>2, <1>3 DEF DoomedInv, Cluster, NoMur, NoSpace
<1>8. DeactivatedInv' /\ NoteInv'
  BY <1>1, <1>2 DEF DeactivatedInv, NoteInv, Cluster
<1>9. VerifyInv'
  BY <1>1, <1>2, <1>3 DEF VerifyInv, Cluster
<1>. QED
  BY <1>3, <1>4, <1>5, <1>6, <1>7, <1>8, <1>9

-----------------------------------------------------------------------------
(* Steps of the test that change the user.                                  *)

ChangeSteps == {"post", "update", "deactivate", "reactivate", "move", "ban", "unban"}

(* A change is where nothing has been verified yet; only a deactivation and *)
(* a ban begin a dismissal.                                                 *)
LEMMA ChangeFrame ==
  ASSUME TypeOK, Step \in ChangeSteps, Continue, UNCHANGED <<scenario, failed>>
  PROVE  /\ Placed'
         /\ ~Leaving
         /\ Step \notin {"deactivate", "ban"} => ~Leaving'
         /\ Step \in {"deactivate", "ban"} => Leaving' /\ Part' = Step /\ Part = Step /\ \A x : Behind(x)' => x = Step
         /\ VerifyInv'
         /\ IF Step = "post" THEN part = 1 /\ at = 1 /\ part' = 1 /\ at' # 1 ELSE part' # 1
         /\ Step = "update" => part = 1 /\ at # 1
         /\ Step \notin {"post", "update"} => part # 1
         /\ Step = "move" => Behind("spaceExists")
<1>1. AtStep /\ Step = Steps(Part)[at] /\ (Part = "signup" <=> part = 1) /\ part \in Nat \ {0}
  BY AtTheStep DEF TypeOK, Placed, ChangeSteps
<1>2. Placed'
  BY <1>1, Moves
<1>3. Step \notin {"deactivate", "ban"} => Part \notin {"deactivate", "ban"}
  BY <1>1, PlaceOf DEF ChangeSteps
<1>4. ~Leaving
  BY <1>1, <1>3, PlaceOf DEF Leaving
<1>5. Step \notin {"deactivate", "ban"} => ~Leaving'
  BY <1>1, <1>3, AdvanceAll
<1>6. Step \in {"deactivate", "ban"} => Leaving' /\ Part' = Step /\ Part = Step /\ \A x : Behind(x)' => x = Step
  <2>. SUFFICES ASSUME Step \in {"deactivate", "ban"}
                PROVE  Leaving' /\ Part' = Step /\ Part = Step /\ \A x : Behind(x)' => x = Step
    OBVIOUS
  <2>1. Part = Step /\ at = 1
    BY <1>1, PlaceOf
  <2>2. Len(Steps(Part)) # 1
    BY <2>1, Lengths
  <2>3. \A x : ~Behind(x)
    BY <2>1 DEF Behind
  <2>. QED
    BY <1>1, <2>1, <2>2, <2>3, AdvanceAll
<1>7. Part = "move" /\ Step = "move" => at = Len(Steps(Part))
  BY <1>1, ShortPlaces, Lengths DEF AtStep
<1>8. VerifyInv'
  <2>1. \A x \in Verifying \cup {"spaceExists", "complete"} : Behind(x)' => Leaving'
    <3>1. CASE Step = "move"
      BY <1>1, <1>7, <3>1, PlaceOf, AdvanceAll
    <3>2. CASE Step # "move"
      <4>1. \A x \in Verifying \cup {"spaceExists", "complete"} : ~Behind(x) /\ x # Step
        BY <1>1, <3>2, VerificationOrder DEF ChangeSteps, Verifying
      <4>. QED
        BY <1>1, <4>1, AdvanceAll
    <3>. QED
      BY <3>1, <3>2
  <2>. QED
    BY <2>1 DEF VerifyInv, Verifying
<1>9. Step = "post" => part = 1 /\ at = 1 /\ part' = 1 /\ at' # 1
  <2>. SUFFICES ASSUME Step = "post"
                PROVE  part = 1 /\ at = 1 /\ part' = 1 /\ at' # 1
    OBVIOUS
  <2>1. Part = "signup" /\ at = 1
    BY <1>1, PlaceOf
  <2>2. Len(Steps(Part)) # 1
    BY <2>1, Lengths
  <2>. QED
    BY <1>1, <2>1, <2>2, AdvanceAll
<1>10. Step = "update" => part = 1 /\ at # 1 /\ part' # 1
  <2>. SUFFICES ASSUME Step = "update"
                PROVE  part = 1 /\ at # 1 /\ part' # 1
    OBVIOUS
  <2>1. Part = "signup"
    BY <1>1, PlaceOf
  <2>2. at = 4 /\ Len(Steps(Part)) = 4
    BY <1>1, <2>1, ShortPlaces, Lengths DEF AtStep
  <2>3. part' = part + 1
    BY <2>2 DEF Continue
  <2>. QED
    BY <1>1, <2>1, <2>2, <2>3
<1>11. Step \notin {"post", "update"} => part # 1 /\ part' # 1
  <2>1. Step \notin {"post", "update"} => Part # "signup"
    BY <1>1, PlaceOf DEF ChangeSteps
  <2>. QED
    BY <1>1, <2>1, AdvanceAll
<1>12. Step = "move" => Behind("spaceExists")
  BY <1>1, VerificationOrder
<1>. QED
  BY <1>2, <1>4, <1>5, <1>6, <1>8, <1>9, <1>10, <1>11, <1>12

(* What a change leaves of the invariant is what it does to the user.       *)
LEMMA ChangeInv ==
  ASSUME IInv, Step \in ChangeSteps, Continue, UNCHANGED <<scenario, failed>>, copy' = NoCopy,
         TypeOK', SignupInv', ResourceInv', LiveInv', DoomedInv', DeactivatedInv', NoteInv'
  PROVE  IInv'
<1>1. CopyInv'
  BY DEF CopyInv
<1>2. VerifyInv'
  BY ChangeFrame DEF IInv
<1>. QED
  BY <1>1, <1>2 DEF IInv

(* A step that writes the signup and the ban alone keeps every type, as far *)
(* as it keeps theirs: what the scenario provides does not change.          *)
LEMMA KeepsTypes ==
  ASSUME TypeOK, Placed', UNCHANGED <<scenario, mur, space, binding, note, account, user, set>>,
         banned' \in BOOLEAN, signup' \in UserSignup \cup {NoSignup}
  PROVE  TypeOK'
<1>1. mur' \in [is : {"none", "there", "terminating"}, provisioned : BOOLEAN, account : BOOLEAN]
  BY DEF TypeOK
<1>2. account' \in {"none", "new", "ready"} /\ user' \subseteq Provided'
  BY DEF TypeOK, Provided
<1>3. /\ space' \in [is : {"none", "there", "terminating"}, tier : Tiers, hash : Tiers,
                    provisioned : BOOLEAN, bound : BOOLEAN]
      /\ set' \in Tiers
  BY DEF TypeOK
<1>4. binding' \in BOOLEAN /\ note' \in {"none", "created", "sent"}
  BY DEF TypeOK
<1>. QED
  BY <1>1, <1>2, <1>3, <1>4, Zenon DEF TypeOK

LEMMA PostInv ==
  ASSUME IInv, Post
  PROVE  IInv'
<1>. USE DEF IInv
<1>1. /\ Step = "post" /\ Continue /\ copy = NoCopy
      /\ UNCHANGED <<scenario, failed, copy, mur, space, binding, note, account, user, set, banned>>
      /\ signup' = [there |-> TRUE, states |-> IF scenario.verification THEN {"verification"} ELSE {}, label |-> "",
                    conds |-> {}, named |-> FALSE, homeSpace |-> FALSE, lastCluster |-> FALSE]
  BY DEF Post, chosen, member, CopyInv, Updates
<1>2. /\ Placed' /\ ~Leaving /\ ~Leaving' /\ part = 1 /\ at = 1 /\ part' = 1 /\ at' # 1
  BY <1>1, ChangeFrame DEF ChangeSteps
<1>3. /\ signup'.there /\ "deactivated" \notin signup'.states /\ signup'.conds = {}
      /\ signup' \in UserSignup
  BY <1>1 DEF UserSignup
<1>4. ~signup.there /\ mur = NoMur /\ space = NoSpace /\ ~binding /\ ~banned
  BY <1>2 DEF SignupInv
<1>5. ~Doomed'
  BY <1>1, <1>3, <1>4 DEF Doomed
<1>6. WithSpace' = WithSpace /\ Provided' = Provided /\ Tiers' = Tiers
  BY <1>1, SamePlan DEF Tiers, WithSpace
<1>7. TypeOK'
  <2>1. /\ TypeOK /\ Placed' /\ UNCHANGED <<scenario, mur, space, binding, note, account, user, set>>
        /\ signup' \in UserSignup \cup {NoSignup}
    BY <1>1, <1>2, <1>3
  <2>2. banned' \in BOOLEAN
    BY <1>1 DEF TypeOK
  <2>. QED
    BY <2>1, <2>2, KeepsTypes
<1>8. SignupInv'
  BY <1>1, <1>2, <1>3, <1>4, <1>5 DEF SignupInv
<1>9. ResourceInv' /\ LiveInv'
  <2>1. ResourceInv'
    BY <1>1, <1>6 DEF ResourceInv
  <2>2. mur'.is # "terminating" /\ space'.is # "terminating" /\ space'.bound = FALSE /\ binding' = FALSE
    BY <1>1, <1>4 DEF NoMur, NoSpace, TypeOK
  <2>. QED
    BY <1>3, <2>1, <2>2 DEF LiveInv
<1>10. DoomedInv' /\ DeactivatedInv'
  BY <1>2, <1>3, <1>5 DEF DoomedInv, DeactivatedInv
<1>11. NoteInv'
  BY <1>1, <1>2 DEF NoteInv
<1>. QED
  BY <1>1, <1>7, <1>8, <1>9, <1>10, <1>11, ChangeInv DEF ChangeSteps

(* What an update that found no conflict does.                              *)
LEMMA Put ==
  ASSUME IInv, UpdatePut
  PROVE  /\ Step \in Updates /\ Step \in ChangeSteps /\ Continue /\ copy' = NoCopy
         /\ UNCHANGED <<scenario, failed, mur, binding, note, account, user, set, banned>>
         /\ Step = "move" => signup' = signup /\ space' = [space EXCEPT !.tier = request.spaceTier]
         /\ Step # "move" => /\ signup.there /\ signup \in UserSignup /\ space' = space
                             /\ signup' = [signup EXCEPT !.states = signup'.states]
         /\ Step = "update" => signup'.states \in {{"approved"}, signup.states}
         /\ Step = "deactivate" => signup'.states = (signup.states \ {"approved"}) \cup {"deactivated"}
         /\ Step = "reactivate" => signup'.states = {"approved"}
<1>. USE DEF IInv
<1>1. Step \in Updates /\ Step \in ChangeSteps
  BY DEF UpdatePut, CopyInv, Updates, ChangeSteps
<1>2. /\ Continue /\ copy' = NoCopy /\ copy = Current
      /\ UNCHANGED <<scenario, failed, mur, binding, note, account, user, set, banned>>
  BY DEF UpdatePut, Conflict, chosen, member
<1>3. Step = "move" => signup' = signup /\ space' = [space EXCEPT !.tier = request.spaceTier]
  BY <1>2 DEF UpdatePut, Current, Modified
<1>4. Step # "move" => signup.there /\ signup \in UserSignup /\ space' = space
  <2>1. Step # "move" => signup.there
    BY <1>1, <1>2, ChangeFrame DEF SignupInv, Updates
  <2>. QED
    BY <2>1 DEF UpdatePut, TypeOK, NoSignup
<1>5. Step = "update" => /\ signup' = [signup EXCEPT !.states = signup'.states]
                         /\ signup'.states \in {{"approved"}, signup.states}
  <2>1. Step = "update" => signup' = [signup EXCEPT !.states = IF request.manuallyApprove THEN {"approved"} ELSE @]
    BY <1>2 DEF UpdatePut, Current, Modified
  <2>. QED
    BY <1>4, <2>1 DEF UserSignup
<1>6. Step = "deactivate" => /\ signup' = [signup EXCEPT !.states = signup'.states]
                             /\ signup'.states = (signup.states \ {"approved"}) \cup {"deactivated"}
  <2>1. Step = "deactivate" => signup' = [signup EXCEPT !.states = (@ \ {"approved"}) \cup {"deactivated"}]
    BY <1>2 DEF UpdatePut, Current, Modified
  <2>. QED
    BY <1>4, <2>1 DEF UserSignup
<1>7. Step = "reactivate" => /\ signup' = [signup EXCEPT !.states = signup'.states]
                             /\ signup'.states = {"approved"}
  <2>1. Step = "reactivate" => signup' = [signup EXCEPT !.states = {"approved"}]
    BY <1>2 DEF UpdatePut, Current, Modified
  <2>. QED
    BY <1>4, <2>1 DEF UserSignup
<1>. QED
  BY <1>1, <1>2, <1>3, <1>4, <1>5, <1>6, <1>7 DEF Updates

(* The updates of the UserSignup change its states.                         *)
LEMMA UpdateInv ==
  ASSUME IInv, UpdatePut, Step = "update"
  PROVE  IInv'
<1>. USE DEF IInv
<1>1. /\ Step \in ChangeSteps /\ Continue /\ copy' = NoCopy
      /\ UNCHANGED <<scenario, failed, mur, space, binding, note, account, user, set, banned>>
      /\ signup.there /\ signup \in UserSignup
      /\ signup' = [signup EXCEPT !.states = signup'.states]
      /\ signup'.states \in {{"approved"}, signup.states}
  BY Put
<1>2. Placed' /\ ~Leaving /\ ~Leaving' /\ part = 1 /\ at # 1 /\ part' # 1
  BY <1>1, ChangeFrame
<1>3. /\ signup' \in UserSignup /\ signup'.there
      /\ signup'.label = signup.label /\ signup'.conds = signup.conds
  BY <1>1 DEF UserSignup
<1>4. ~Doomed /\ ~banned /\ "deactivated" \notin signup.states
  BY <1>1, <1>2 DEF SignupInv, Doomed
<1>5. "deactivated" \notin signup'.states /\ ~Doomed'
  BY <1>1, <1>4 DEF Doomed
<1>6. (WithSpace' <=> WithSpace) /\ Provided' = Provided /\ Tiers' = Tiers
  BY <1>1, SamePlan DEF Tiers
<1>7. TypeOK'
  BY <1>1, <1>2, <1>3, <1>6 DEF TypeOK
<1>8. SignupInv'
  BY <1>2, <1>3 DEF SignupInv
<1>9. ResourceInv'
  BY <1>1, <1>6 DEF ResourceInv
<1>10. LiveInv'
  BY <1>1, <1>3, <1>4, <1>5 DEF LiveInv
<1>11. DoomedInv' /\ DeactivatedInv'
  BY <1>2, <1>5 DEF DoomedInv, DeactivatedInv
<1>12. NoteInv'
  BY <1>1, <1>2 DEF NoteInv
<1>. QED
  BY <1>1, <1>7, <1>8, <1>9, <1>10, <1>11, <1>12, ChangeInv

LEMMA DeactivateInv ==
  ASSUME IInv, UpdatePut, Step = "deactivate"
  PROVE  IInv'
<1>. USE DEF IInv
<1>1. /\ Step \in ChangeSteps /\ Continue /\ copy' = NoCopy
      /\ UNCHANGED <<scenario, failed, mur, space, binding, note, account, user, set, banned>>
      /\ signup.there /\ signup \in UserSignup
      /\ signup' = [signup EXCEPT !.states = signup'.states]
      /\ signup'.states = (signup.states \ {"approved"}) \cup {"deactivated"}
  BY Put
<1>2. Placed' /\ ~Leaving /\ part' # 1
  BY <1>1, ChangeFrame
<1>3. Leaving' /\ Part' = "deactivate" /\ \A x : Behind(x)' => x = "deactivate"
  BY <1>1, ChangeFrame
<1>4. /\ signup' \in UserSignup /\ signup'.there
      /\ signup'.label = signup.label /\ signup'.conds = signup.conds
  BY <1>1 DEF UserSignup
<1>5. "deactivated" \in signup'.states /\ "approved" \notin signup'.states /\ Doomed'
  BY <1>1, <1>4 DEF Doomed
<1>6. (WithSpace' <=> WithSpace) /\ Provided' = Provided /\ Tiers' = Tiers
  BY <1>1, SamePlan DEF Tiers
<1>7. TypeOK'
  BY <1>1, <1>2, <1>4, <1>6 DEF TypeOK
<1>8. SignupInv'
  BY <1>2, <1>4 DEF SignupInv
<1>9. ResourceInv'
  BY <1>1, <1>6 DEF ResourceInv
<1>10. LiveInv'
  BY <1>1, <1>4, <1>5 DEF LiveInv
<1>11. DoomedInv' /\ DeactivatedInv'
  BY <1>1, <1>3, <1>4, <1>5 DEF DoomedInv, DeactivatedInv
<1>12. NoteInv'
  BY <1>1, <1>2 DEF NoteInv
<1>. QED
  BY <1>1, <1>7, <1>8, <1>9, <1>10, <1>11, <1>12, ChangeInv

(* A user who is no longer dismissed starts with nothing.                   *)
LEMMA AllowedLive ==
  ASSUME LiveInv, DoomedInv, TypeOK, ~Leaving, ~Doomed', signup.there,
         signup'.label = signup.label, signup'.conds = signup.conds, signup'.there = signup.there,
         UNCHANGED <<mur, space, binding>>
  PROVE  LiveInv'
<1>1. CASE Doomed
  <2>1. Incomplete /\ mur = NoMur /\ space = NoSpace /\ ~binding
    BY <1>1 DEF DoomedInv
  <2>. QED
    BY <2>1 DEF LiveInv, NoMur, NoSpace, Incomplete, TypeOK
<1>2. CASE ~Doomed
  BY <1>2 DEF LiveInv
<1>. QED
  BY <1>1, <1>2

LEMMA ReactivateInv ==
  ASSUME IInv, UpdatePut, Step = "reactivate"
  PROVE  IInv'
<1>. USE DEF IInv
<1>1. /\ Step \in ChangeSteps /\ Continue /\ copy' = NoCopy
      /\ UNCHANGED <<scenario, failed, mur, space, binding, note, account, user, set, banned>>
      /\ signup.there /\ signup \in UserSignup
      /\ signup' = [signup EXCEPT !.states = signup'.states]
      /\ signup'.states = {"approved"}
  BY Put
<1>2. Placed' /\ ~Leaving /\ ~Leaving' /\ part' # 1
  BY <1>1, ChangeFrame
<1>3. /\ signup' \in UserSignup /\ signup'.there
      /\ signup'.label = signup.label /\ signup'.conds = signup.conds
  BY <1>1 DEF UserSignup
<1>4. "deactivated" \notin signup'.states /\ (Doomed' <=> banned)
  BY <1>1, <1>3 DEF Doomed
<1>5. banned => Doomed
  BY <1>1 DEF Doomed
<1>6. (WithSpace' <=> WithSpace) /\ Provided' = Provided /\ Tiers' = Tiers
  BY <1>1, SamePlan DEF Tiers
<1>7. TypeOK'
  BY <1>1, <1>2, <1>3, <1>6 DEF TypeOK
<1>8. SignupInv'
  BY <1>2, <1>3 DEF SignupInv
<1>9. ResourceInv'
  BY <1>1, <1>6 DEF ResourceInv
<1>10. LiveInv'
  <2>1. CASE banned
    BY <1>1, <1>3, <1>4, <1>5, <2>1 DEF LiveInv
  <2>2. CASE ~banned
    BY <1>1, <1>2, <1>3, <1>4, <2>2, AllowedLive
  <2>. QED
    BY <2>1, <2>2
<1>11. DoomedInv' /\ DeactivatedInv'
  BY <1>1, <1>2, <1>3, <1>4, <1>5 DEF DoomedInv, DeactivatedInv, Relabelled, Incomplete, NoMur, NoSpace
<1>12. NoteInv'
  BY <1>1, <1>2 DEF NoteInv
<1>. QED
  BY <1>1, <1>7, <1>8, <1>9, <1>10, <1>11, <1>12, ChangeInv

(* The update of the Space changes its tier.                                *)
LEMMA MoveInv ==
  ASSUME IInv, UpdatePut, Step = "move"
  PROVE  IInv'
<1>. USE DEF IInv
<1>1. /\ Step \in ChangeSteps /\ Continue /\ copy' = NoCopy
      /\ UNCHANGED <<scenario, failed, signup, mur, binding, note, account, user, set, banned>>
      /\ space' = [space EXCEPT !.tier = request.spaceTier]
  BY Put
<1>2. Placed' /\ ~Leaving /\ ~Leaving' /\ part # 1 /\ part' # 1
  BY <1>1, ChangeFrame
<1>3. ~Doomed /\ space.is = "there"
  BY <1>1, <1>2, ChangeFrame DEF VerifyInv
<1>4. /\ space' \in [is : {"none", "there", "terminating"}, tier : Tiers, hash : Tiers, provisioned : BOOLEAN, bound : BOOLEAN]
      /\ space'.is = "there" /\ space'.bound = space.bound
  <2>1. request.spaceTier \in Tiers
    BY DEF TypeOK, Placed, Tiers, request
  <2>. QED
    BY <1>1, <1>3, <2>1 DEF TypeOK
<1>5. (WithSpace' <=> WithSpace) /\ Provided' = Provided /\ Tiers' = Tiers
  BY <1>1, SamePlan DEF Tiers
<1>6. Doomed' <=> Doomed
  BY <1>1 DEF Doomed
<1>7. TypeOK'
  BY <1>1, <1>2, <1>4, <1>5 DEF TypeOK
<1>8. SignupInv'
  BY <1>1, <1>2 DEF SignupInv
<1>9. ResourceInv'
  BY <1>1, <1>3, <1>4, <1>5 DEF ResourceInv, NoSpace
<1>10. LiveInv'
  BY <1>1, <1>3, <1>4, <1>6 DEF LiveInv
<1>11. DoomedInv' /\ DeactivatedInv'
  BY <1>1, <1>2, <1>3, <1>6 DEF DoomedInv, DeactivatedInv, Doomed
<1>12. NoteInv'
  BY <1>1, <1>2 DEF NoteInv
<1>. QED
  BY <1>1, <1>7, <1>8, <1>9, <1>10, <1>11, <1>12, ChangeInv

LEMMA BanInv ==
  ASSUME IInv, CreateBannedUser
  PROVE  IInv'
<1>. USE DEF IInv
<1>1. /\ Step = "ban" /\ Continue /\ copy = NoCopy /\ banned' = TRUE
      /\ UNCHANGED <<scenario, failed, copy, signup, mur, space, binding, note, account, user, set>>
  BY DEF CreateBannedUser, chosen, host, member, CopyInv, Updates
<1>2. Placed' /\ ~Leaving /\ part # 1 /\ part' # 1
  BY <1>1, ChangeFrame DEF ChangeSteps
<1>3. Leaving' /\ Part' = "ban" /\ \A x : Behind(x)' => x = "ban"
  BY <1>1, ChangeFrame DEF ChangeSteps
<1>4. signup.there /\ Doomed'
  BY <1>1, <1>2 DEF SignupInv, Doomed
<1>5. (WithSpace' <=> WithSpace) /\ Provided' = Provided /\ Tiers' = Tiers
  BY <1>1, SamePlan DEF Tiers
<1>6. TypeOK'
  BY <1>1, <1>2, <1>5 DEF TypeOK
<1>7. SignupInv'
  BY <1>1, <1>2, <1>4 DEF SignupInv
<1>8. ResourceInv'
  BY <1>1, <1>5 DEF ResourceInv
<1>9. LiveInv'
  BY <1>1, <1>4 DEF LiveInv
<1>10. DoomedInv'
  BY <1>1, <1>3, <1>4 DEF DoomedInv
<1>11. DeactivatedInv'
  <2>1. "deactivated" \in signup.states => /\ "approved" \notin signup.states
                                           /\ Approved(TRUE, "ApprovedByAdmin") \notin signup.conds
    BY <1>2, <1>4, WhatIsApproved DEF DeactivatedInv
  <2>. QED
    BY <1>1, <1>3, <2>1 DEF DeactivatedInv
<1>12. NoteInv'
  BY <1>1, <1>2 DEF NoteInv
<1>. QED
  BY <1>1, <1>6, <1>7, <1>8, <1>9, <1>10, <1>11, <1>12, ChangeInv DEF ChangeSteps

LEMMA UnbanInv ==
  ASSUME IInv, DeleteBannedUser
  PROVE  IInv'
<1>. USE DEF IInv
<1>1. /\ Step = "unban" /\ Continue /\ copy = NoCopy /\ banned' = FALSE
      /\ UNCHANGED <<scenario, failed, copy, signup, mur, space, binding, note, account, user, set>>
  BY DEF DeleteBannedUser, chosen, host, member, CopyInv, Updates
<1>2. Placed' /\ ~Leaving /\ ~Leaving' /\ part # 1 /\ part' # 1
  BY <1>1, ChangeFrame DEF ChangeSteps
<1>3. signup.there
  BY <1>2 DEF SignupInv
<1>4. (Doomed' <=> "deactivated" \in signup.states) /\ (Doomed' => Doomed /\ ~banned)
  BY <1>1, <1>2, <1>3 DEF Doomed, DeactivatedInv
<1>5. (WithSpace' <=> WithSpace) /\ Provided' = Provided /\ Tiers' = Tiers
  BY <1>1, SamePlan DEF Tiers
<1>6. TypeOK'
  <2>1. TypeOK /\ Placed' /\ UNCHANGED <<scenario, mur, space, binding, note, account, user, set>>
    BY <1>1, <1>2
  <2>2. banned' \in BOOLEAN /\ signup' \in UserSignup \cup {NoSignup}
    BY <1>1 DEF TypeOK
  <2>. QED
    BY <2>1, <2>2, KeepsTypes
<1>7. SignupInv'
  BY <1>1, <1>2, <1>3 DEF SignupInv
<1>8. ResourceInv'
  BY <1>1, <1>5 DEF ResourceInv
<1>9. LiveInv'
  <2>1. CASE Doomed'
    BY <1>1, <1>4, <2>1 DEF LiveInv
  <2>2. CASE ~Doomed'
    BY <1>1, <1>2, <1>3, <2>2, AllowedLive
  <2>. QED
    BY <2>1, <2>2
<1>10. DoomedInv'
  BY <1>1, <1>2, <1>4 DEF DoomedInv, Relabelled, Incomplete, NoMur, NoSpace
<1>11. DeactivatedInv'
  BY <1>1, <1>2, <1>3, <1>4 DEF DeactivatedInv
<1>12. NoteInv'
  BY <1>1, <1>2 DEF NoteInv
<1>. QED
  BY <1>1, <1>6, <1>7, <1>8, <1>9, <1>10, <1>11, <1>12, ChangeInv DEF ChangeSteps

-----------------------------------------------------------------------------
(* The inductive invariant.                                                 *)

LEMMA InitInv ==
  ASSUME Init
  PROVE  IInv
<1>1. /\ scenario \in Scenarios /\ part = 1 /\ at = 1 /\ failed = FALSE /\ copy = NoCopy
      /\ signup = NoSignup /\ mur = NoMur /\ space = NoSpace /\ binding = FALSE /\ note = "none"
      /\ account = "none" /\ user = {} /\ set = "none" /\ banned = FALSE
  BY DEF Init
<1>2. Part = "signup"
  BY <1>1, PartKnown
<1>3. Placed
  <2>1. Len(Steps(Part)) = 4
    BY <1>2, Lengths
  <2>2. Part # "end" /\ at \in 1..Len(Steps(Part))
    BY <1>1, <1>2, <2>1
  <2>3. 1 \in Nat \ {0}
    OBVIOUS
  <2>4. failed \in BOOLEAN
    BY <1>1
  <2>. QED
    BY <1>1, <2>2, <2>3, <2>4 DEF Placed
<1>4. ~Leaving /\ ~Doomed /\ ~signup.there /\ \A x : ~Behind(x)
  BY <1>1 DEF Leaving, Doomed, NoSignup, Behind
<1>5. TypeOK
  <2>1. mur \in [is : {"none", "there", "terminating"}, provisioned : BOOLEAN, account : BOOLEAN]
    BY <1>1 DEF NoMur
  <2>2. "none" \in Tiers
    BY DEF Tiers
  <2>3. space \in [is : {"none", "there", "terminating"}, tier : Tiers, hash : Tiers, provisioned : BOOLEAN, bound : BOOLEAN]
    BY <1>1, <2>2 DEF NoSpace
  <2>. QED
    BY <1>1, <1>3, <2>1, <2>2, <2>3 DEF TypeOK
<1>6. CopyInv /\ SignupInv
  <2>1. signup.there = FALSE
    BY <1>1 DEF NoSignup
  <2>. QED
    BY <1>1, <1>4, <2>1 DEF CopyInv, SignupInv
<1>7. ResourceInv
  BY <1>1 DEF ResourceInv, NoMur, NoSpace
<1>8. LiveInv
  BY <1>1, <1>4 DEF LiveInv, NoMur, NoSpace
<1>9. DoomedInv /\ DeactivatedInv /\ NoteInv /\ VerifyInv
  BY <1>1, <1>4 DEF DoomedInv, DeactivatedInv, NoteInv, VerifyInv
<1>. QED
  BY <1>5, <1>6, <1>7, <1>8, <1>9 DEF IInv

LEMMA OperatorInv ==
  ASSUME IInv, Operators
  PROVE  IInv'
  BY OperatorType, OperatorCopy, OperatorSignup, OperatorResource, OperatorLive, OperatorDoomed,
     OperatorDeactivated, OperatorNote, OperatorVerify DEF IInv

LEMMA NextInv ==
  ASSUME IInv, [Next]_vars
  PROVE  IInv'
<1>1. CASE Operators
  BY <1>1, OperatorInv
<1>2. CASE Passes
  BY <1>2, PassInv
<1>3. CASE Stays \/ UNCHANGED vars
  BY <1>3, StayInv
<1>4. CASE Post
  BY <1>4, PostInv
<1>5. CASE UpdatePut
  <2>1. Step \in Updates
    BY <1>5, Put
  <2>. QED
    BY <1>5, <2>1, UpdateInv, DeactivateInv, ReactivateInv, MoveInv DEF Updates
<1>6. CASE CreateBannedUser
  BY <1>6, BanInv
<1>7. CASE DeleteBannedUser
  BY <1>7, UnbanInv
<1>. QED
  BY <1>1, <1>2, <1>3, <1>4, <1>5, <1>6, <1>7 DEF Next, TestStep, Passes, Stays

(* Whatever a test does with its user, in whatever order, and whatever the  *)
(* operators fail to do, the invariant holds.                               *)
THEOREM Invariance == Spec => []IInv
<1>1. Init => IInv
  BY InitInv
<1>2. IInv /\ [Next]_vars => IInv'
  BY NextInv
<1>. QED
  BY <1>1, <1>2, PTL DEF Spec

(* The objects have their types and the test is at a step of its plan: no   *)
(* part of the plan is left in the middle or entered past its start.        *)
THEOREM TypeCorrect == Spec => []TypeOK
<1>1. IInv => TypeOK
  BY DEF IInv
<1>. QED
  BY <1>1, Invariance, PTL

(* A verification that passes means that the user has everything at that    *)
(* moment (VerifyResourcesProvisionedForSignup looks at one thing after the *)
(* other, while the operators go on).                                       *)
THEOREM Provisioning == Spec => []VerifiedMeansProvisioned
<1>1. IInv => VerifiedMeansProvisioned
  <2>. SUFFICES ASSUME IInv, Step = "provisioned"
                PROVE  VerifiedMeansProvisioned
    BY DEF VerifiedMeansProvisioned
  <2>. USE DEF IInv
  <2>1. /\ AtStep /\ Steps(Part)[at] = "provisioned"
        /\ Part \in {"ensureMURWithoutSpace", "verifyWithoutSpace"} => ~WithSpace
    BY AtTheStep
  <2>2. ~Leaving /\ Behind("complete")
    BY <2>1, PlaceOf, ProvisionedOrder
  <2>3. mur.is = "there" /\ mur.provisioned
    BY <2>1, <2>2, ProvisionedOrder DEF VerifyInv
  <2>4. CASE WithSpace
    <3>1. /\ Behind("space") /\ Behind("binding") /\ Behind("nsTemplateSet")
          /\ Behind("account") /\ Behind("user") /\ Behind("identity")
      BY <2>1, <2>4, ProvisionedOrder
    <3>2. /\ account = "ready"
          /\ space.is = "there" /\ space.tier = request.spaceTier /\ space.provisioned /\ set = request.spaceTier
          /\ binding
          /\ ~scenario.skipUsers => {"User", "Identity"} \subseteq user
      BY <2>2, <3>1 DEF VerifyInv
    <3>3. user = Provided
      BY <3>2 DEF TypeOK, Provided
    <3>. QED
      BY <2>3, <2>4, <3>2, <3>3 DEF VerifiedMeansProvisioned
  <2>5. CASE ~WithSpace
    BY <2>3, <2>5 DEF VerifiedMeansProvisioned, ResourceInv
  <2>. QED
    BY <2>4, <2>5
<1>. QED
  BY <1>1, Invariance, PTL

(* A deactivation or a ban that passes its checks leaves nothing behind     *)
(* (DeactivateAndCheckUser, and the suite that bans users).                 *)
THEOREM Dismissal == Spec => []DismissedMeansGone
<1>1. IInv => DismissedMeansGone
  <2>. SUFFICES ASSUME IInv, Step = "gone"
                PROVE  mur = NoMur /\ space = NoSpace /\ ~binding /\ note = "none"
    BY DEF DismissedMeansGone
  <2>. USE DEF IInv
  <2>1. AtStep /\ Steps(Part)[at] = "gone"
    BY AtTheStep
  <2>2. Leaving
    BY <2>1, PlaceOf
  <2>3. /\ Behind("spaceGone") /\ Behind("spaceBindingsGone")
        /\ Behind("murGone") \/ Behind("noMur")
        /\ Part = "deactivate" => Behind("notificationGone")
    BY <2>1, <2>2, GoneOrder DEF Leaving
  <2>4. mur = NoMur /\ space = NoSpace /\ ~binding
    BY <2>2, <2>3 DEF DoomedInv
  <2>5. note = "none"
    BY <2>3 DEF NoteInv
  <2>. QED
    BY <2>4, <2>5
<1>. QED
  BY <1>1, Invariance, PTL

(* An update takes back nothing that an operator wrote between its read and *)
(* its write (the waiters' Update reads again after a conflict).            *)
THEOREM NothingLost == Spec => UpdateLosesNothing
<1>1. IInv /\ [Next]_vars =>
        [copy # NoCopy /\ position' # position =>
           /\ signup' = [signup EXCEPT !.states = signup'.states]
           /\ space.is # "none" => space' = [space EXCEPT !.tier = space'.tier]]_vars
  <2>. SUFFICES ASSUME IInv, [Next]_vars, copy # NoCopy, position' # position
                PROVE  /\ signup' = [signup EXCEPT !.states = signup'.states]
                       /\ space.is # "none" => space' = [space EXCEPT !.tier = space'.tier]
    OBVIOUS
  <2>. USE DEF IInv
  <2>1. ~Operators /\ ~Stays /\ ~(UNCHANGED vars)
    BY OperatorFrame DEF Stays, UpdateGet, UpdateRetry, AwaitFails, AssertFails, Fail, vars, test, position
  <2>2. ~Passes
    BY PassFrame
  <2>3. ~Post /\ ~CreateBannedUser /\ ~DeleteBannedUser
    BY DEF CopyInv, Updates, Post, CreateBannedUser, DeleteBannedUser
  <2>4. UpdatePut
    BY <2>1, <2>2, <2>3 DEF Next, TestStep, Passes, Stays
  <2>5. CASE Step = "move"
    <3>1. signup' = signup /\ space' = [space EXCEPT !.tier = request.spaceTier]
      BY <2>4, <2>5, Put
    <3>2. signup \in UserSignup
      <4>1. part # 1
        BY <2>4, <2>5, Put, ChangeFrame
      <4>. QED
        BY <4>1 DEF SignupInv, TypeOK, NoSignup
    <3>3. signup = [signup EXCEPT !.states = signup.states]
      BY <3>2 DEF UserSignup
    <3>4. space' = [space EXCEPT !.tier = space'.tier]
      BY <3>1 DEF TypeOK
    <3>. QED
      BY <3>1, <3>3, <3>4
  <2>6. CASE Step # "move"
    <3>1. signup' = [signup EXCEPT !.states = signup'.states] /\ space' = space
      BY <2>4, <2>6, Put
    <3>2. space = [space EXCEPT !.tier = space.tier]
      BY DEF TypeOK
    <3>. QED
      BY <3>1, <3>2
  <2>. QED
    BY <2>5, <2>6
<1>. QED
  BY <1>1, Invariance, PTL DEF Spec, UpdateLosesNothing

-----------------------------------------------------------------------------
(* The states of a UserSignup that the suites wait for.                     *)

(* What the conditions of the type Complete say in the states of a user who *)
(* is not active.                                                           *)
Reasons == {Completed(FALSE, "PendingApproval"), Completed(FALSE, "VerificationRequired"),
            Completed(FALSE, "NoClusterAvailable"), Completed(TRUE, "Banned"), Completed(TRUE, "Rejected"),
            Completed(FALSE, "MissingUserEmail"), Completed(TRUE, "Deactivated")}

LEMMA ReasonsOf ==
  ASSUME NEW c \in Reasons \cup {Complete}
  PROVE  /\ c \notin Default /\ c \notin PreDeactivation
         /\ c \in ApprovedByAdmin <=> c = Complete
         /\ c \in ApprovedAutomatically <=> c = Complete
         /\ c \in PendingApproval <=> c = Completed(FALSE, "PendingApproval")
         /\ c \in VerificationRequired <=> c = Completed(FALSE, "VerificationRequired")
         /\ c \in PendingApprovalNoCluster <=> c = Completed(FALSE, "NoClusterAvailable")
         /\ c \in Banned <=> c = Completed(TRUE, "Banned")
         /\ c \in Rejected <=> c = Completed(TRUE, "Rejected")
         /\ c \in UserSignupMissingEmail <=> c = Completed(FALSE, "MissingUserEmail")
         /\ c \in DeactivatedWithoutPreDeactivation <=> c = Completed(TRUE, "Deactivated")
         /\ c \in DeactivatedWithoutNotification <=> c = Completed(TRUE, "Deactivated")
         /\ c \in DeactivatedWithoutDeactivating <=> c = Completed(TRUE, "Deactivated")
         /\ c \in Deactivated <=> c = Completed(TRUE, "Deactivated")
         /\ c.type = "Complete"
<1>1. c.type = "Complete"
  <2>1. \A b, r : Completed(b, r).type = "Complete"
    BY DEF Completed, Condition
  <2>. QED
    BY <2>1 DEF Reasons, Complete
<1>2. /\ \A b, r : c # Approved(b, r)
      /\ \A b, r : c # Notified(b, r)
      /\ \A b, r : c # Deactivating(b, r)
  BY <1>1 DEF Approved, Notified, Deactivating, Condition
<1>3. c \notin Default /\ c \notin PreDeactivation
  BY <1>2 DEF Default, PreDeactivation
<1>. QED
  BY <1>1, <1>2, <1>3 DEF ApprovedByAdmin, ApprovedAutomatically, PendingApproval, VerificationRequired,
       PendingApprovalNoCluster, Banned, Rejected, UserSignupMissingEmail, DeactivatedWithoutPreDeactivation,
       DeactivatedWithoutNotification, DeactivatedWithoutDeactivating, Deactivated, Complete

(* By which condition of that type the other states are known.              *)
Reason == <<Completed(FALSE, "PendingApproval"), Completed(FALSE, "VerificationRequired"),
            Completed(FALSE, "NoClusterAvailable"), Completed(FALSE, "NoClusterAvailable"),
            Completed(TRUE, "Banned"), Completed(TRUE, "Rejected"), Completed(FALSE, "MissingUserEmail"),
            Completed(TRUE, "Deactivated"), Completed(TRUE, "Deactivated"), Completed(TRUE, "Deactivated")>>

LEMMA ReasonKnown ==
  ASSUME NEW i \in 1..10
  PROVE  Reason[i] \in Reasons
<1>1. i = 1 \/ i = 2 \/ i = 3 \/ i = 4 \/ i = 5 \/ i = 6 \/ i = 7 \/ i = 8 \/ i = 9 \/ i = 10
  OBVIOUS
<1>2. /\ Reason[1] \in Reasons /\ Reason[2] \in Reasons /\ Reason[3] \in Reasons /\ Reason[4] \in Reasons
      /\ Reason[5] \in Reasons /\ Reason[6] \in Reasons /\ Reason[7] \in Reasons /\ Reason[8] \in Reasons
      /\ Reason[9] \in Reasons /\ Reason[10] \in Reasons
  BY DEF Reason, Reasons
<1>. QED
  BY <1>1, <1>2

LEMMA OtherReasons ==
  ASSUME NEW i \in 1..10, NEW c \in Reasons \cup {Complete}
  PROVE  c \in OtherStates[i] <=> c = Reason[i]
<1>1. ASSUME NEW A, NEW B, \A d \in Reasons \cup {Complete} : d \in B <=> d = Reason[i]
      PROVE  c \in ConditionSet(<<A, B>>) <=> c = Reason[i]
  <2>1. c.type = Reason[i].type /\ Reason[i] \in B
    BY <1>1, ReasonKnown, ReasonsOf
  <2>. QED
    BY <1>1, <2>1, TwoSets
<1>2. ASSUME NEW A, NEW B, NEW C, \A d \in Reasons \cup {Complete} : d \in C <=> d = Reason[i]
      PROVE  c \in ConditionSet(<<A, B, C>>) <=> c = Reason[i]
  <2>1. c.type = Reason[i].type /\ Reason[i] \in C
    BY <1>2, ReasonKnown, ReasonsOf
  <2>. QED
    BY <1>2, <2>1, ThreeSets
<1>3. CASE i = 1
  <2>1. OtherStates[i] = ConditionSet(<<Default, PendingApproval>>) /\ Reason[i] = Completed(FALSE, "PendingApproval")
    BY <1>3 DEF OtherStates, Reason
  <2>2. \A d \in Reasons \cup {Complete} : d \in PendingApproval <=> d = Reason[i]
    BY <2>1, ReasonsOf
  <2>. QED
    BY <1>1, <2>1, <2>2
<1>4. CASE i = 2
  BY <1>1, <1>4, ReasonsOf DEF OtherStates, Reason
<1>5. CASE i = 3
  BY <1>2, <1>5, ReasonsOf DEF OtherStates, Reason
<1>6. CASE i = 4
  BY <1>2, <1>6, ReasonsOf DEF OtherStates, Reason
<1>7. CASE i = 5
  BY <1>2, <1>7, ReasonsOf DEF OtherStates, Reason
<1>8. CASE i = 6
  BY <1>1, <1>8, ReasonsOf DEF OtherStates, Reason
<1>9. CASE i = 7
  BY <1>1, <1>9, ReasonsOf DEF OtherStates, Reason
<1>10. CASE i = 8
  <2>1. /\ OtherStates[i] = DeactivatedWithoutDeactivating
        /\ Reason[i] = Completed(TRUE, "Deactivated")
    BY <1>10, OneSet DEF OtherStates, Reason
  <2>2. c \in DeactivatedWithoutDeactivating <=> c = Completed(TRUE, "Deactivated")
    BY ReasonsOf
  <2>. QED
    BY <2>1, <2>2
<1>11. CASE i = 9
  BY <1>1, <1>11, ReasonsOf DEF OtherStates, Reason
<1>12. CASE i = 10
  BY <1>1, <1>12, ReasonsOf DEF OtherStates, Reason
<1>. QED
  BY <1>3, <1>4, <1>5, <1>6, <1>7, <1>8, <1>9, <1>10, <1>11, <1>12

LEMMA CompleteOnlyActive ==
  ASSUME NEW i \in 1..10
  PROVE  Complete \notin OtherStates[i]
<1>1. \A r \in Reasons : r # Complete
  <2>1. \A b, r : Completed(b, r).reason = r
    BY DEF Completed, Condition
  <2>2. Complete.reason = ""
    BY <2>1 DEF Complete
  <2>3. \A r \in Reasons : r.reason # ""
    <3>1. /\ Completed(FALSE, "PendingApproval").reason # "" /\ Completed(FALSE, "VerificationRequired").reason # ""
          /\ Completed(FALSE, "NoClusterAvailable").reason # "" /\ Completed(TRUE, "Banned").reason # ""
          /\ Completed(TRUE, "Rejected").reason # "" /\ Completed(FALSE, "MissingUserEmail").reason # ""
          /\ Completed(TRUE, "Deactivated").reason # ""
      BY DEF Completed, Condition
    <3>. QED
      BY <3>1 DEF Reasons
  <2>. QED
    BY <2>2, <2>3
<1>. QED
  BY <1>1, OtherReasons, ReasonKnown

(* The states of users without a cluster, before and after the approval.    *)
LEMMA NoClusterStates == OtherStates[3] # OtherStates[4]
<1>. DEFINE approved == Approved(TRUE, "ApprovedByAdmin")
<1>1. /\ OtherStates[3] = ConditionSet(<<Default, ApprovedByAdmin, PendingApprovalNoCluster>>)
      /\ OtherStates[4] = ConditionSet(<<Default, PendingApproval, PendingApprovalNoCluster>>)
  BY DEF OtherStates
<1>2. /\ approved \in ApprovedByAdmin /\ approved \notin PendingApproval /\ approved \notin Default
      /\ approved \notin PendingApprovalNoCluster /\ \A d \in PendingApprovalNoCluster : approved.type # d.type
  BY DEF ApprovedByAdmin, PendingApproval, PendingApprovalNoCluster, Default, Approved, Completed, Notified, Deactivating,
         Condition
<1>. HIDE DEF approved
<1>3. approved \in OtherStates[3] /\ approved \notin OtherStates[4]
  BY <1>1, <1>2, ThreeSets
<1>. QED
  BY <1>3

(* The states of deactivated users, with and without the notifications.     *)
LEMMA DeactivatedStates ==
  OtherStates[8] # OtherStates[9] /\ OtherStates[8] # OtherStates[10] /\ OtherStates[9] # OtherStates[10]
<1>. DEFINE notified == Notified(TRUE, "NotificationCRCreated")
            deactivating == Deactivating(TRUE, "NotificationCRCreated")
<1>1. /\ OtherStates[8] = ConditionSet(<<DeactivatedWithoutDeactivating>>)
      /\ OtherStates[9] = ConditionSet(<<Default, DeactivatedWithoutNotification>>)
      /\ OtherStates[10] = ConditionSet(<<ApprovedAutomatically, Deactivated>>)
  BY DEF OtherStates
<1>2. notified \in DeactivatedWithoutDeactivating /\ notified \in Deactivated
  BY DEF DeactivatedWithoutDeactivating, Deactivated, DeactivatedWithoutPreDeactivation
<1>3. notified \notin Default /\ notified \notin DeactivatedWithoutNotification
  BY DEF Default, DeactivatedWithoutNotification, Approved, Completed, Notified, Deactivating, Condition
<1>4. deactivating \notin DeactivatedWithoutDeactivating
  BY DEF DeactivatedWithoutDeactivating, DeactivatedWithoutPreDeactivation, Approved, Completed, Notified, Deactivating,
         Condition
<1>5. deactivating \in Deactivated
  BY DEF Deactivated, PreDeactivation
<1>. HIDE DEF notified, deactivating
<1>6. notified \in OtherStates[8] /\ notified \notin OtherStates[9] /\ notified \in OtherStates[10]
  BY <1>1, <1>2, <1>3, OneSet, TwoSets
<1>7. deactivating \notin OtherStates[8] /\ deactivating \in OtherStates[10]
  BY <1>1, <1>4, <1>5, OneSet, TwoSets
<1>. QED
  BY <1>6, <1>7

LEMMA OtherStatesDiffer ==
  ASSUME NEW i \in 1..10, NEW j \in 1..10, i # j
  PROVE  OtherStates[i] # OtherStates[j]
<1>1. CASE Reason[i] # Reason[j]
  <2>1. Reason[i] \in OtherStates[i] /\ Reason[i] \notin OtherStates[j]
    BY <1>1, OtherReasons, ReasonKnown
  <2>. QED
    BY <2>1
<1>2. CASE Reason[i] = Reason[j]
  <2>1. \/ i \in {3, 4} /\ j \in {3, 4}
        \/ i \in {8, 9, 10} /\ j \in {8, 9, 10}
    <3>1. i = 1 \/ i = 2 \/ i = 3 \/ i = 4 \/ i = 5 \/ i = 6 \/ i = 7 \/ i = 8 \/ i = 9 \/ i = 10
      OBVIOUS
    <3>2. j = 1 \/ j = 2 \/ j = 3 \/ j = 4 \/ j = 5 \/ j = 6 \/ j = 7 \/ j = 8 \/ j = 9 \/ j = 10
      OBVIOUS
    <3>. QED
      BY <1>2, <3>1, <3>2 DEF Reason, Completed, Condition
  <2>. QED
    BY <2>1, NoClusterStates, DeactivatedStates
<1>. QED
  BY <1>1, <1>2

LEMMA ActiveComplete ==
  ASSUME NEW active \in ActiveStates
  PROVE  Complete \in active
<1>1. \A A \in {ApprovedByAdmin, ApprovedAutomatically} : Complete \in A
  BY DEF ApprovedByAdmin, ApprovedAutomatically, Complete
<1>2. \A d \in PreDeactivation : d.type # Complete.type
  BY DEF PreDeactivation, Deactivating, Complete, Completed, Condition
<1>3. \A A \in {ApprovedByAdmin, ApprovedAutomatically} :
        /\ Complete \in ConditionSet(<<Default, A>>)
        /\ Complete \in ConditionSet(<<Default, A, PreDeactivation>>)
  BY <1>1, <1>2, TwoSets, ThreeSets
<1>. QED
  BY <1>3 DEF ActiveStates

(* What a verification waits for first means that there is a                *)
(* MasterUserRecord, and the sets of conditions that the suites wait for    *)
(* tell the states of a user apart (wait/conditions.go).                    *)
THEOREM ToldApart == Spec => []StatesToldApart
<1>1. DOMAIN OtherStates = 1..10
  BY DEF OtherStates
<1>2. IInv => StatesToldApart
  <2>1. IInv => (signup.there /\ signup.label = "approved" /\ Complete \in signup.conds => mur.is # "none")
    BY DEF IInv, LiveInv
  <2>. QED
    BY <1>1, <2>1, ActiveComplete, CompleteOnlyActive, OtherStatesDiffer DEF StatesToldApart
<1>. QED
  BY <1>2, Invariance, PTL

-----------------------------------------------------------------------------
(* Copies, names and assertions.                                            *)

Rejection == Completed(TRUE, "Banned")

LEMMA WhatIsBanned ==
  /\ \A A \in {ApprovedByAdmin, ApprovedAutomatically} :
       /\ Rejection \notin ConditionSet(<<Default, A>>)
       /\ Rejection \in ConditionSet(<<Default, A, Banned>>)
       /\ \A S : Rejection \in Override(S, {c \in A : c.type = "Approved"}) => Rejection \in S
  /\ Rejection \notin ConditionSet(<<Default, PendingApproval>>)
  /\ Rejection \notin ConditionSet(<<Default, VerificationRequired>>)
  /\ Rejection \notin ConditionSet(<<Default, DeactivatedWithoutPreDeactivation>>)
<1>. USE DEF Rejection, Completed, Approved, Notified, Deactivating, Condition
<1>1. Rejection \in Banned
  BY DEF Banned
<1>2. /\ Rejection \notin Default /\ Rejection \notin PendingApproval /\ Rejection \notin VerificationRequired
      /\ Rejection \notin DeactivatedWithoutPreDeactivation
      /\ Rejection \notin ApprovedByAdmin /\ Rejection \notin ApprovedAutomatically
  BY DEF Default, PendingApproval, VerificationRequired, DeactivatedWithoutPreDeactivation, ApprovedByAdmin,
         ApprovedAutomatically
<1>. HIDE DEF Rejection
<1>3. \A A \in {ApprovedByAdmin, ApprovedAutomatically} :
        /\ Rejection \notin ConditionSet(<<Default, A>>)
        /\ Rejection \in ConditionSet(<<Default, A, Banned>>)
  BY <1>1, <1>2, TwoSets, ThreeSets
<1>4. \A A \in {ApprovedByAdmin, ApprovedAutomatically} :
        \A S : Rejection \in Override(S, {c \in A : c.type = "Approved"}) => Rejection \in S
  <2>. TAKE A \in {ApprovedByAdmin, ApprovedAutomatically}
  <2>. TAKE S
  <2>1. Rejection \notin {c \in A : c.type = "Approved"}
    BY <1>2
  <2>. QED
    BY <2>1, TwoSets DEF Override
<1>5. /\ Rejection \notin ConditionSet(<<Default, PendingApproval>>)
      /\ Rejection \notin ConditionSet(<<Default, VerificationRequired>>)
      /\ Rejection \notin ConditionSet(<<Default, DeactivatedWithoutPreDeactivation>>)
  BY <1>2, TwoSets
<1>. QED
  BY <1>3, <1>4, <1>5

(* A request with conditions waits for them in its second part.             *)
LEMMA ConditionsSecond ==
  ASSUME scenario \in Scenarios, request.conditions # {}
  PROVE  Len(Plan) >= 2 /\ Plan[2] = "conditions"
<1>. DEFINE Second(s) == s \in Seq(PartNames) /\ Len(s) >= 2 /\ s[2] = "conditions"
<1>1. ASSUME NEW s, NEW t, Second(s), t \in Seq(PartNames)
      PROVE  Second(s \o t)
  <2>1. Len(s) \in Nat /\ Len(t) \in Nat
    BY <1>1, LenProperties
  <2>. QED
    BY <1>1, <2>1, ConcatProperties
<1>2. Second(<<"signup">> \o If(request.conditions # {}, <<"conditions">>))
  BY DEF If, PartNames
<1>3. If(request.waitForMUR, <<"murExists">>) \in Seq(PartNames)
  <2>1. <<"murExists">> \in Seq(PartNames)
    BY DEF PartNames
  <2>. QED
    BY <2>1, Optional
<1>4. If(request.ensureMUR, EnsureMUR) \in Seq(PartNames)
  <2>1. /\ <<"move">> \in Seq(PartNames) /\ <<"ensureMUR">> \in Seq(PartNames)
        /\ <<"ensureMURWithoutSpace">> \in Seq(PartNames)
    BY DEF PartNames
  <2>2. EnsureMUR \in Seq(PartNames)
    <3>1. If(request.spaceTier # "base", <<"move">>) \in Seq(PartNames)
      BY <2>1, Optional
    <3>. QED
      BY <2>1, <3>1, ConcatProperties DEF EnsureMUR
  <2>. QED
    BY <2>2, Optional
<1>5. <<"addTask">> \in Seq(PartNames)
  BY DEF PartNames
<1>6. scenario.steps \in Seq(PartNames)
  <2>1. Later \subseteq PartNames
    BY DEF Later
  <2>. QED
    BY <2>1, ScenarioSteps, SeqMonotonic
<1>. HIDE DEF Second
<1>7. Second(Plan)
  BY <1>1, <1>2, <1>3, <1>4, <1>5, <1>6 DEF Plan, Execute
<1>. QED
  BY <1>7 DEF Second

(* When a step looks at a copy, the wait that returned it is behind.        *)
LEMMA CopyOrder ==
  ASSUME AtStep
  PROVE  LET s == Steps(Part)[at] IN
         /\ s = "home" => ~Leaving /\ Behind("complete") /\ Behind("space")
         /\ s \in NamedByInner \cup {"lastCluster"} => Behind("complete")
         /\ s = "assertActive" => Part = "reactivate" /\ Behind("approvedByAdmin")
         /\ s = "assertDeactivated" => Part = "deactivate" /\ Behind("deactivated")
         /\ s = "noMur" => Part = "ban" /\ Behind("banned")
         /\ s = "noSpace" => Part = "verifyWithoutSpace"
         /\ s = "conditions" <=> Part = "conditions"
         /\ s \in NamedByOuter => Part \notin {"signup", "conditions"}
         /\ Part = "unban" /\ at = Len(Steps(Part)) => Behind("approvedByAdmin")
         /\ Part = "reactivate" /\ Behind("approvedByAdmin") => s \notin {"reread", "reactivate", "approvedByAdmin"}
<1>. USE DEF NamedByInner, NamedByOuter, Leaving
<1>1. CASE Part \in Short
  <2>1. Part = "unban" /\ at = Len(Steps(Part)) => Behind("approvedByAdmin")
    <3>. SUFFICES ASSUME Part = "unban", at = Len(Steps(Part))
                  PROVE  Behind("approvedByAdmin")
      OBVIOUS
    <3>1. at = 4 /\ Steps(Part)[3] = "approvedByAdmin"
      BY ShortSteps
    <3>2. 3 \in 1..(at - 1)
      BY <3>1
    <3>. QED
      BY <3>1, <3>2 DEF Behind
  <2>2. LET s == Steps(Part)[at] IN
        /\ s \in {"post", "created", "noAutoApproval", "update", "conditions", "murExists", "spaceExists", "move",
                  "addTask", "unban", "bannedUserGone", "approvedByAdmin"}
        /\ s = "conditions" <=> Part = "conditions"
        /\ s \in {"murExists", "spaceExists"} => Part \notin {"signup", "conditions"}
    <3>1. CASE Part = "signup"
      BY <3>1, ShortPlaces DEF AtStep
    <3>2. CASE Part \in {"conditions", "murExists", "addTask"}
      BY <3>2, ShortPlaces DEF AtStep
    <3>3. CASE Part = "move"
      BY <3>3, ShortPlaces DEF AtStep
    <3>4. CASE Part = "unban"
      BY <3>4, ShortPlaces DEF AtStep
    <3>. QED
      BY <1>1, <3>1, <3>2, <3>3, <3>4 DEF Short
  <2>3. Part # "reactivate"
    BY <1>1 DEF Short
  <2>. QED
    BY <2>1, <2>2, <2>3
<1>2. CASE Part = "ensureMUR" /\ at \in 1..16
  BY <1>2, EnsureMURPlaces, EnsureMUROrder
<1>3. CASE Part = "ensureMURWithoutSpace" /\ at \in 1..6
  BY <1>3, EnsureMURWithoutSpacePlaces, EnsureMURWithoutSpaceOrder
<1>4. CASE Part = "verify" /\ at \in 1..15
  BY <1>4, VerifyPlaces, VerifyOrder
<1>5. CASE Part = "verifyWithoutSpace" /\ at \in 1..6
  BY <1>5, VerifyWithoutSpacePlaces, VerifyWithoutSpaceOrder
<1>6. CASE Part = "deactivate" /\ at \in 1..10
  BY <1>6, DeactivatePlaces, DeactivateOrder
<1>7. CASE Part = "reactivate" /\ at \in 1..19
  BY <1>7, ReactivatePlaces, ReactivateOrder
<1>8. CASE Part = "ban" /\ at \in 1..7
  BY <1>8, BanPlaces, BanOrder
<1>. QED
  BY <1>1, <1>2, <1>3, <1>4, <1>5, <1>6, <1>7, <1>8, AnyPart

(* What the operators write into the status.                                *)
LEMMA OperatorStatus ==
  ASSUME TypeOK, LiveInv, StatusInv, Operators, signup.there
  PROVE  /\ StatusInv'
         /\ signup.named => signup'.named
         /\ Banished' => Banished \/ (Doomed /\ mur' = mur /\ (mur = NoMur \/ ~Does("delete")))
         /\ Banished /\ Doomed /\ banned => Banished'
<1>. USE DEF External, host, member
<1>1. WithSpace' <=> WithSpace
  BY OperatorFrame, SamePlan
<1>2. CASE ~OnSignup
  <2>1. UNCHANGED signup
    BY <1>2, OperatorGroups DEF OnNote, HostNotify, HostDeleteNote, OnMur, HostCreateMur, HostSyncMur, HostDeleteMur,
         HostMurGone, OnSpace, HostCreateSpace, HostBind, HostUnbind, HostStartSpace, HostFinishSpace, HostCleanSpace,
         HostSpaceGone, OnMember, MemberCreateAccount, MemberCreateUser, MemberFinishAccount, MemberDeleteAccount,
         MemberApplyTemplates
  <2>. QED
    BY <1>1, <2>1 DEF StatusInv, Banished
<1>3. CASE OnSignup
  <2>. signup \in UserSignup
    BY DEF TypeOK, NoSignup
  <2>. ApprovedBy \in {ApprovedByAdmin, ApprovedAutomatically}
    BY DEF ApprovedBy
  <2>1. CASE HostHold
    <3>1. /\ ~Doomed
          /\ signup'.label # "approved" /\ signup'.named = signup.named
          /\ Complete \notin signup'.conds /\ Rejection \notin signup'.conds
      BY <2>1, WhatIsComplete, WhatIsBanned DEF HostHold, UserSignup
    <3>. QED
      BY <3>1 DEF StatusInv, Banished, Rejection
  <2>2. CASE HostLabel
    <3>1. /\ signup'.named = signup.named /\ signup'.homeSpace = signup.homeSpace
          /\ signup.lastCluster => signup'.lastCluster
          /\ signup'.label = "approved" => signup'.lastCluster
          /\ Complete \in signup'.conds => Complete \in signup.conds
          /\ Rejection \in signup'.conds => Rejection \in signup.conds
          /\ Doomed => signup'.conds = signup.conds
      BY <2>2, OverrideApproved, WhatIsBanned DEF HostLabel, UserSignup, Accepted
    <3>. QED
      BY <1>1, <3>1 DEF StatusInv, Banished, Rejection
  <2>3. CASE HostComplete
    <3>1. /\ ~Doomed
          /\ signup'.label = signup.label /\ signup'.lastCluster = signup.lastCluster
          /\ signup'.named /\ (signup'.homeSpace <=> WithSpace)
          /\ Rejection \notin signup'.conds
      BY <2>3, WhatIsBanned DEF HostComplete, UserSignup, Accepted
    <3>. QED
      BY <1>1, <3>1 DEF StatusInv, Banished, Rejection
  <2>4. CASE HostDismiss
    <3>1. /\ signup'.label # "approved" /\ signup'.named = signup.named
          /\ Complete \notin signup'.conds
          /\ Doomed /\ mur' = mur /\ (mur = NoMur \/ ~Does("delete"))
          /\ banned => Rejection \in signup'.conds
      BY <2>4, WhatIsComplete, WhatIsBanned DEF HostDismiss, UserSignup
    <3>. QED
      BY <3>1 DEF StatusInv, Banished, Rejection
  <2>. QED
    BY <1>3, <2>1, <2>2, <2>3, <2>4 DEF OnSignup
<1>. QED
  BY <1>2, <1>3

LEMMA OperatorSeen ==
  ASSUME IInv, SeenInv, Operators
  PROVE  SeenInv'
<1>. USE DEF IInv, SeenInv
<1>1. /\ UNCHANGED <<scenario, fault, part, at, outer, inner, banned>>
      /\ signup'.there = signup.there
      /\ Doomed' <=> Doomed
      /\ Part' = Part /\ \A x : Behind(x)' <=> Behind(x)
      /\ request' = request /\ (WithSpace' <=> WithSpace)
  BY OperatorFrame, Still
<1>2. CASE signup.there
  <2>1. /\ StatusInv'
        /\ signup.named => signup'.named
        /\ Banished' => Banished \/ (Doomed /\ mur' = mur /\ (mur = NoMur \/ ~Does("delete")))
        /\ Banished /\ Doomed /\ banned => Banished'
    BY <1>2, OperatorStatus
  <2>2. Doomed /\ mur = NoMur => mur' = NoMur
    BY DismissedStays
  <2>3. BannedInv'
    BY <1>1, <1>2, <2>1, <2>2 DEF BannedInv, Does, NoMur
  <2>4. Part = "ban" /\ Behind("banned") => Doomed /\ banned
    BY <1>2 DEF DoomedInv, Leaving, Behind, Doomed, TypeOK, Placed
  <2>5. HeldInv'
    BY <1>1, <2>1, <2>4 DEF HeldInv
  <2>. QED
    BY <2>1, <2>3, <2>5
<1>3. CASE ~signup.there
  <2>1. part = 1 /\ at = 1
    BY <1>3 DEF SignupInv
  <2>2. \A x : ~Behind(x)
    BY <2>1 DEF Behind
  <2>. QED
    BY <1>1, <1>3, <2>1, <2>2 DEF StatusInv, BannedInv, HeldInv
<1>. QED
  BY <1>2, <1>3

(* What a wait returns.                                                     *)
LEMMA Returned ==
  ASSUME TypeOK, CopyInv, Passes
  PROVE  /\ outer' = IF Step \in {"created", "reread", "conditions", "deactivated", "approvedByAdmin", "bannedLabel"}
                     THEN signup ELSE outer
         /\ inner' = IF Step = "complete" THEN signup ELSE inner
         /\ Step = "approvedByAdmin" => signup.conds = ConditionSet(<<Default, ApprovedByAdmin>>)
         /\ Step = "conditions" => signup.conds = request.conditions
<1>1. Step \in Waits => Await
  BY PassFrame
<1>2. CASE Step \in Waits
  <2>1. Step = "approvedByAdmin" =>
          Matches(signup, [conds |-> ConditionSet(<<Default, ApprovedByAdmin>>), label |-> "approved"])
    BY <1>1, <1>2 DEF Await, Holds, WaitForUserSignup, UserSignupMatches
  <2>2. Step = "conditions" => Matches(signup, [conds |-> request.conditions])
    BY <1>1, <1>2 DEF Await, Holds, WaitForUserSignup, UserSignupMatches
  <2>. QED
    BY <1>1, <1>2, <2>1, <2>2, Matched DEF Await
<1>3. CASE Step \notin Waits
  BY <1>3 DEF Passes, SkipUpdate, AddTask, Await, AssertHolds, PartDone, Waits
<1>. QED
  BY <1>2, <1>3

(* A step that follows the conditions finds the name.                       *)
LEMMA AdvanceNamed ==
  ASSUME TypeOK, AtStep, scenario' = scenario, Continue, Complete \in request.conditions, part' > 2,
         Part = "signup" <=> part = 1
  PROVE  part > 2 \/ (part = 2 /\ Part = "conditions" /\ Steps(Part)[at] = "conditions")
<1>1. part \in Nat \ {0} /\ scenario \in Scenarios
  BY DEF TypeOK, Placed
<1>2. part' \in {part, part + 1}
  BY DEF Continue
<1>3. part >= 2
  BY <1>1, <1>2
<1>4. part = 2 => Part = "conditions"
  BY <1>1, ConditionsSecond, PartKnown DEF Part
<1>. QED
  BY <1>1, <1>3, <1>4, CopyOrder

LEMMA PassSeen ==
  ASSUME IInv, SeenInv, Passes
  PROVE  SeenInv'
<1>. USE DEF IInv, SeenInv
<1>1. /\ AtStep /\ Step = Steps(Part)[at] /\ Continue
      /\ UNCHANGED <<scenario, fault, Cluster>>
      /\ Part = "signup" <=> part = 1
      /\ (Doomed' <=> Doomed) /\ request' = request /\ (WithSpace' <=> WithSpace)
      /\ signup.there
  BY PassFrame, SameCluster, AtTheStep, PassSignup
<1>2. StatusInv'
  BY <1>1 DEF StatusInv, Cluster
<1>3. /\ Step = "approvedByAdmin" => ~Banished
      /\ Step = "approvedByAdmin" => "deactivated" \notin signup.states \/ Leaving
      /\ Step = "banned" => Banished
      /\ Step = "complete" => signup.named /\ signup.lastCluster /\ (signup.homeSpace <=> WithSpace)
  <2>1. Step = "banned" => Banished
    BY SeenDismissed, WhatIsBanned DEF Banished, Rejection
  <2>2. Step = "complete" => signup.named /\ signup.lastCluster /\ (signup.homeSpace <=> WithSpace)
    BY SeenProvided DEF StatusInv
  <2>3. Step = "approvedByAdmin" => ~Banished
    BY Returned, WhatIsBanned DEF Banished, Rejection
  <2>4. Step = "approvedByAdmin" => "deactivated" \notin signup.states \/ Leaving
    <3>1. ConditionSet(<<Default, ApprovedByAdmin>>) # ConditionSet(<<Default, DeactivatedWithoutPreDeactivation>>)
      BY WhatIsComplete
    <3>. QED
      BY <1>1, <3>1, Returned DEF DeactivatedInv
  <2>. QED
    BY <2>1, <2>2, <2>3, <2>4
<1>4. Complete \in request.conditions /\ part' > 2 => outer'.named /\ signup'.named
  <2>. SUFFICES ASSUME Complete \in request.conditions, part' > 2
                PROVE  outer'.named /\ signup.named
    BY <1>1 DEF Cluster
  <2>1. CASE part > 2
    BY <2>1, Returned DEF HeldInv
  <2>2. CASE ~(part > 2)
    <3>1. Step = "conditions"
      BY <1>1, <2>2, AdvanceNamed
    <3>. QED
      BY <1>1, <3>1, Returned DEF StatusInv
  <2>. QED
    BY <2>1, <2>2
<1>5. CASE at' # 1
  <2>1. Part' = Part /\ (Leaving' <=> Leaving) /\ \A x : Behind(x)' <=> Behind(x) \/ x = Step
    BY <1>5, PassLeaving
  <2>2. BannedInv'
    BY <1>1, <1>3, <2>1, PlaceOf DEF BannedInv, Banished, Cluster, Does, NoMur, Leaving
  <2>3. (Part = "ban" /\ Behind("banned"))' => Banished'
    BY <1>1, <1>3, <2>1 DEF HeldInv, Banished, Cluster
  <2>4. (Part = "deactivate" /\ Behind("deactivated"))' => "deactivated" \in outer'.states
    <3>. SUFFICES ASSUME Part = "deactivate", Behind("deactivated") \/ Step = "deactivated"
                  PROVE  "deactivated" \in outer'.states
      BY <2>1
    <3>1. Leaving
      BY <1>1, PlaceOf DEF Leaving, Behind, AtStep
    <3>2. "deactivated" \in signup.states
      BY <3>1 DEF DoomedInv
    <3>. QED
      BY <3>2, Returned DEF HeldInv
  <2>5. (Part = "reactivate" /\ Behind("approvedByAdmin"))' => "deactivated" \notin outer'.states
    <3>. SUFFICES ASSUME Part = "reactivate", Behind("approvedByAdmin") \/ Step = "approvedByAdmin"
                  PROVE  "deactivated" \notin outer'.states
      BY <2>1
    <3>1. CASE Behind("approvedByAdmin")
      <4>1. Step \notin {"reread", "reactivate", "approvedByAdmin"}
        BY <1>1, <3>1, CopyOrder
      <4>2. Step \notin {"created", "conditions", "deactivated", "bannedLabel"}
        BY <1>1, ReactivatePlaces, Lengths DEF AtStep
      <4>. QED
        BY <3>1, <4>1, <4>2, Returned DEF HeldInv
    <3>2. CASE Step = "approvedByAdmin"
      BY <1>3, <3>2, Returned DEF Leaving
    <3>. QED
      BY <3>1, <3>2
  <2>6. Behind("complete")' => inner'.named /\ inner'.lastCluster /\ (inner'.homeSpace <=> WithSpace')
    BY <1>1, <1>3, <2>1, Returned DEF HeldInv
  <2>. QED
    BY <1>1, <1>2, <1>4, <2>2, <2>3, <2>4, <2>5, <2>6 DEF HeldInv
<1>6. CASE at' = 1
  <2>1. /\ at = Len(Steps(Part)) /\ \A x : ~Behind(x)'
    BY <1>1, <1>6, AdvanceAll
  <2>2. Part = "unban" => Behind("approvedByAdmin")
    BY <1>1, <2>1, CopyOrder
  <2>3. BannedInv'
    BY <1>1, <2>2 DEF BannedInv, Banished, Cluster, Does, NoMur
  <2>. QED
    BY <1>1, <1>2, <1>4, <2>1, <2>3 DEF HeldInv
<1>. QED
  BY <1>5, <1>6

LEMMA StaySeen ==
  ASSUME IInv, SeenInv, Stays \/ UNCHANGED vars
  PROVE  SeenInv'
<1>. USE DEF SeenInv
<1>1. UNCHANGED <<scenario, fault, part, at, outer, inner, Cluster>>
  BY DEF Stays, UpdateGet, UpdateRetry, AwaitFails, AssertFails, Fail, chosen, position, host, member, Cluster, vars, test
<1>2. /\ Part' = Part /\ \A x : Behind(x)' <=> Behind(x)
      /\ request' = request /\ (WithSpace' <=> WithSpace) /\ (Doomed' <=> Doomed)
  BY <1>1, Still, SameCluster
<1>3. StatusInv' /\ HeldInv'
  BY <1>1, <1>2 DEF StatusInv, HeldInv, Banished, Cluster
<1>4. BannedInv'
  BY <1>1, <1>2 DEF BannedInv, Banished, Cluster, Does, NoMur
<1>. QED
  BY <1>3, <1>4

(* A change keeps the name, and nothing that it outdates is behind.         *)
LEMMA ChangeHeld ==
  ASSUME IInv, SeenInv, Step \in ChangeSteps, Continue, UNCHANGED <<scenario, failed, inner>>,
         signup.there => signup'.named = signup.named, outer' \in {outer, signup'}
  PROVE  /\ HeldInv'
         /\ request' = request /\ (WithSpace' <=> WithSpace)
         /\ Step = "unban" => Part' = "unban" /\ ~Behind("approvedByAdmin")'
         /\ Step \in {"update", "deactivate", "reactivate", "move", "ban"} => Part # "unban"
<1>. USE DEF IInv, SeenInv
<1>1. /\ AtStep /\ Step = Steps(Part)[at] /\ (Part = "signup" <=> part = 1)
      /\ request' = request /\ (WithSpace' <=> WithSpace)
  BY AtTheStep, SamePlan DEF ChangeSteps
<1>2. ~Leaving /\ ~Behind("complete")
  BY <1>1, ChangeFrame, VerificationOrder, PlaceOf DEF ChangeSteps, Behind, AtStep
<1>3. \/ at' = 1 /\ \A x : ~Behind(x)'
      \/ Part' = Part /\ \A x : Behind(x)' <=> Behind(x) \/ x = Step
  BY <1>1, AdvanceAll
<1>4. Part \in {"ban", "deactivate"} => \A x : ~Behind(x)
  BY <1>1, <1>2 DEF Leaving, Behind, AtStep
<1>5. Part = "reactivate" => ~Behind("approvedByAdmin")
  <2>1. Part = "reactivate" => Step = "reactivate"
    BY <1>1, ReactivatePlaces, Lengths DEF AtStep, ChangeSteps
  <2>. QED
    BY <1>1, <2>1, CopyOrder
<1>6. Complete \in request.conditions /\ part' > 2 => outer'.named /\ signup'.named
  <2>. SUFFICES ASSUME Complete \in request.conditions, part' > 2
                PROVE  outer'.named /\ signup'.named
    OBVIOUS
  <2>1. Step # "conditions"
    BY DEF ChangeSteps
  <2>2. part > 2
    BY <1>1, <2>1, AdvanceNamed
  <2>3. outer.named /\ signup.named /\ signup.there
    BY <2>2 DEF HeldInv, SignupInv
  <2>. QED
    BY <2>3
<1>7. HeldInv'
  <2>1. ~Behind("complete")'
    BY <1>2, <1>3 DEF ChangeSteps
  <2>2. /\ ~(Part = "ban" /\ Behind("banned"))'
        /\ ~(Part = "deactivate" /\ Behind("deactivated"))'
        /\ ~(Part = "reactivate" /\ Behind("approvedByAdmin"))'
    BY <1>3, <1>4, <1>5 DEF ChangeSteps
  <2>. QED
    BY <1>1, <1>6, <2>1, <2>2 DEF HeldInv
<1>8. Step = "unban" => Part' = "unban" /\ ~Behind("approvedByAdmin")'
  <2>. SUFFICES ASSUME Step = "unban"
                PROVE  Part' = "unban" /\ ~Behind("approvedByAdmin")'
    OBVIOUS
  <2>1. Part = "unban" /\ at = 1
    <3>1. Part = "unban"
      BY <1>1, PlaceOf
    <3>2. at \in 1..4 /\ Steps(Part)[2] # "unban" /\ Steps(Part)[3] # "unban" /\ Steps(Part)[4] # "unban"
      BY <1>1, <3>1, ShortSteps DEF AtStep
    <3>. QED
      BY <1>1, <3>1, <3>2
  <2>2. at < Len(Steps(Part))
    <3>1. Len(Steps(Part)) = 4
      BY <2>1, Lengths
    <3>. QED
      BY <2>1, <3>1
  <2>3. at' # 1
    BY <2>1, <2>2 DEF Continue
  <2>4. ~Behind("approvedByAdmin")
    BY <2>1 DEF Behind
  <2>. QED
    BY <1>3, <2>1, <2>3, <2>4
<1>9. Step \in {"update", "deactivate", "reactivate", "move", "ban"} => Part # "unban"
  BY <1>1, ShortPlaces, Lengths DEF AtStep
<1>. QED
  BY <1>1, <1>7, <1>8, <1>9

LEMMA PutSeen ==
  ASSUME IInv, SeenInv, UpdatePut
  PROVE  SeenInv'
<1>. USE DEF IInv, SeenInv
<1>1. /\ Step \in Updates /\ Step \in ChangeSteps /\ Continue
      /\ UNCHANGED <<scenario, failed, mur, banned>>
  BY Put
<1>2. UNCHANGED <<fault, inner>> /\ outer' \in {outer, signup'}
  BY DEF UpdatePut, chosen
<1>3. signup.there => /\ signup'.there
                      /\ signup'.label = signup.label /\ signup'.conds = signup.conds /\ signup'.named = signup.named
                      /\ signup'.homeSpace = signup.homeSpace /\ signup'.lastCluster = signup.lastCluster
  BY Put DEF UserSignup
<1>4. signup.there
  <2>1. part # 1 \/ at # 1
    BY <1>1, ChangeFrame DEF Updates
  <2>. QED
    BY <2>1 DEF SignupInv
<1>5. HeldInv' /\ (WithSpace' <=> WithSpace) /\ Part # "unban"
  BY <1>1, <1>2, <1>3, ChangeHeld DEF Updates
<1>6. StatusInv'
  BY <1>3, <1>4, <1>5 DEF StatusInv
<1>7. BannedInv'
  <2>. SUFFICES ASSUME Banished, Does("delete")
                PROVE  Doomed' /\ mur = NoMur
    BY <1>1, <1>2, <1>3, <1>4 DEF BannedInv, Banished, Does, NoMur
  <2>1. Doomed /\ mur = NoMur
    BY <1>4, <1>5 DEF BannedInv
  <2>2. CASE banned
    BY <1>1, <1>3, <1>4, <2>1, <2>2 DEF Doomed
  <2>3. CASE ~banned
    <3>1. "deactivated" \in signup.states
      BY <2>1, <2>3 DEF Doomed
    <3>2. ~Leaving
      BY <1>1, ChangeFrame
    <3>3. FALSE
      BY <1>4, <2>3, <3>1, <3>2, WhatIsBanned DEF DeactivatedInv, Banished, Rejection
    <3>. QED
      BY <3>3
  <2>. QED
    BY <2>2, <2>3
<1>. QED
  BY <1>5, <1>6, <1>7

LEMMA BanSeen ==
  ASSUME IInv, SeenInv, CreateBannedUser \/ DeleteBannedUser
  PROVE  SeenInv'
<1>. USE DEF IInv, SeenInv
<1>1. /\ Step \in {"ban", "unban"} /\ Step \in ChangeSteps /\ Continue
      /\ UNCHANGED <<scenario, fault, failed, inner, outer, signup, mur>>
      /\ banned' = (Step = "ban")
  BY DEF CreateBannedUser, DeleteBannedUser, chosen, host, ChangeSteps
<1>2. signup.there
  BY <1>1, ChangeFrame DEF SignupInv
<1>3. /\ HeldInv' /\ (WithSpace' <=> WithSpace)
      /\ Step = "unban" => Part' = "unban" /\ ~Behind("approvedByAdmin")'
      /\ Step = "ban" => Part # "unban"
  BY <1>1, ChangeHeld
<1>4. StatusInv'
  BY <1>1, <1>3 DEF StatusInv
<1>5. Doomed' => Doomed \/ Step = "ban"
  BY <1>1 DEF Doomed
<1>6. Step = "ban" => Doomed'
  BY <1>1, <1>2 DEF Doomed
<1>7. BannedInv'
  BY <1>1, <1>2, <1>3, <1>5, <1>6 DEF BannedInv, Banished, Does, NoMur
<1>. QED
  BY <1>3, <1>4, <1>7

LEMMA PostSeen ==
  ASSUME IInv, SeenInv, Post
  PROVE  SeenInv'
<1>. USE DEF IInv, SeenInv
<1>1. /\ Step = "post" /\ Step \in ChangeSteps /\ Continue
      /\ UNCHANGED <<scenario, failed, inner, outer>>
      /\ signup'.label = "" /\ signup'.conds = {}
  BY DEF Post, chosen, ChangeSteps
<1>2. ~signup.there
  BY <1>1, ChangeFrame DEF SignupInv
<1>3. HeldInv'
  BY <1>1, <1>2, ChangeHeld
<1>. QED
  BY <1>1, <1>3 DEF StatusInv, BannedInv, Banished

LEMMA SeenStep ==
  ASSUME IInv, SeenInv, [Next]_vars
  PROVE  SeenInv'
<1>1. CASE Operators
  BY <1>1, OperatorSeen
<1>2. CASE Passes
  BY <1>2, PassSeen
<1>3. CASE Stays \/ UNCHANGED vars
  BY <1>3, StaySeen
<1>4. CASE Post
  BY <1>4, PostSeen
<1>5. CASE UpdatePut
  BY <1>5, PutSeen
<1>6. CASE CreateBannedUser \/ DeleteBannedUser
  BY <1>6, BanSeen
<1>. QED
  BY <1>1, <1>2, <1>3, <1>4, <1>5, <1>6 DEF Next, TestStep, Passes, Stays

(* No assertion fails a test of correct operators: the copy it looks at was *)
(* returned by a wait that saw what the assertion is about; and no wait     *)
(* looks for a name that its copy does not have yet.                        *)
THEOREM Informed == Spec => []NothingTooEarly
<1>1. Init => SeenInv
  <2>. SUFFICES ASSUME Init
                PROVE  SeenInv
    OBVIOUS
  <2>1. ~signup.there /\ part = 1 /\ at = 1
    BY DEF Init, NoSignup
  <2>2. \A x : ~Behind(x)
    BY <2>1 DEF Behind
  <2>. QED
    BY <2>1, <2>2 DEF SeenInv, StatusInv, BannedInv, HeldInv
<1>2. IInv /\ SeenInv => NothingTooEarly
  <2>. SUFFICES ASSUME IInv, SeenInv, Step # "end"
                PROVE  NothingTooEarly
    BY DEF NothingTooEarly, Asserts, NamedByInner, NamedByOuter
  <2>. USE DEF IInv, SeenInv
  <2>1. /\ AtStep /\ Step = Steps(Part)[at] /\ (Part = "signup" <=> part = 1)
        /\ Part \in {"ensureMURWithoutSpace", "verifyWithoutSpace"} => ~WithSpace
    BY AtTheStep
  <2>2. Step = "home" => True(Step)
    <3>1. Step = "home" => Behind("complete") /\ space.is = "there"
      BY <2>1, CopyOrder DEF VerifyInv
    <3>. QED
      BY <3>1 DEF True, HeldInv, ResourceInv, NoSpace
  <2>3. Step = "lastCluster" => True(Step)
    BY <2>1, CopyOrder DEF True, HeldInv
  <2>4. Step = "assertDeactivated" => True(Step)
    BY <2>1, CopyOrder DEF True, HeldInv
  <2>5. Step = "assertActive" => True(Step)
    BY <2>1, CopyOrder DEF True, HeldInv
  <2>6. Step = "noMur" => True(Step) \/ ~Does("delete")
    <3>1. Step = "noMur" => Leaving /\ Banished
      BY <2>1, CopyOrder DEF HeldInv, Leaving, Behind, AtStep
    <3>2. Leaving => signup.there /\ Doomed
      BY DEF DoomedInv, Doomed
    <3>3. Step = "noMur" /\ Does("delete") => mur = NoMur
      BY <3>1, <3>2 DEF BannedInv
    <3>. QED
      BY <3>3 DEF True, NoMur
  <2>7. Step = "noSpace" => True(Step)
    BY <2>1, CopyOrder DEF True, ResourceInv, NoSpace
  <2>8. Step \in NamedByInner => inner.named
    BY <2>1, CopyOrder DEF HeldInv
  <2>9. Step \in NamedByOuter /\ Complete \in request.conditions => outer.named
    <3>. SUFFICES ASSUME Step \in NamedByOuter, Complete \in request.conditions
                  PROVE  outer.named
      OBVIOUS
    <3>1. part \in Nat \ {0} /\ scenario \in Scenarios /\ Part \notin {"signup", "conditions"}
      BY <2>1, CopyOrder DEF TypeOK, Placed
    <3>2. part # 1
      BY <2>1, <3>1
    <3>3. part # 2
      BY <3>1, ConditionsSecond DEF Part, AtStep
    <3>. QED
      BY <3>1, <3>2, <3>3 DEF HeldInv
  <2>. QED
    BY <2>2, <2>3, <2>4, <2>5, <2>6, <2>7, <2>8, <2>9 DEF NothingTooEarly, Asserts
<1>3. IInv /\ SeenInv /\ [Next]_vars => SeenInv'
  BY SeenStep
<1>. QED
  BY <1>1, <1>2, <1>3, Invariance, PTL DEF Spec
=============================================================================
