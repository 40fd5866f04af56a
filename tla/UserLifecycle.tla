---------------------------- MODULE UserLifecycle ----------------------------
(***************************************************************************)
(* One user of a test: signed up (testsupport/signup_request.go), verified *)
(* (testsupport/user_assertions.go), deactivated and reactivated           *)
(* (testsupport/deactivation.go), banned and unbanned                      *)
(* (testsupport/banneduser.go and the suite that uses it).                 *)
(*                                                                         *)
(* The test is a sequence of steps: updates of the cluster, waits that     *)
(* poll until they hold or time out, and assertions on what a wait         *)
(* returned, which look only once.                                         *)
(*                                                                         *)
(* External: the registration service, the host operator and the member    *)
(* operator, which may do without one of the things they should do.        *)
(* Which namespaces a tier has and how its NSTemplateSet is verified is in *)
(* TierChecks.                                                             *)
(***************************************************************************)
EXTENDS Conditions

CONSTANTS
  Scenarios,  (* what a test does with its user: records with the request,  *)
              (* the steps after it, and the configuration of the operators *)
  Faults      (* what the operators may fail to do, or "none"               *)

(* The steps of a scenario.  A test verifies that there is no space only    *)
(* where it has asked for none.                                             *)
Verifications == {"verify", "verifyWithoutSpace"}
Changes       == {"deactivate", "reactivate", "ban", "unban"}

ASSUME ScenariosAssumption ==
  \A s \in Scenarios :
    /\ s.steps \in Seq(Verifications \cup Changes)
    /\ \A i \in DOMAIN s.steps : s.steps[i] = "verifyWithoutSpace" => s.request.noSpace

VARIABLES
  scenario,  (* chosen once                                                 *)
  fault,     (* chosen once                                                 *)
  part,      (* the part of the test's plan under way                       *)
  at,        (* and the step of it                                          *)
  outer,     (* the UserSignup the test holds                               *)
  inner,     (* the one a verification holds                                *)
  copy,      (* the one an update has read and modifies                     *)
  failed,    (* the test failed and has ended                               *)
  tasks,     (* objects with a cleanup task                                 *)
  signup,    (* the UserSignup                                              *)
  banned,    (* there is a BannedUser with the user's email                 *)
  mur,       (* the MasterUserRecord                                        *)
  account,   (* the UserAccount: none, new or ready                         *)
  user,      (* the User and the Identity that are there                    *)
  space,     (* the Space                                                   *)
  set,       (* the tier its NSTemplateSet is provisioned with, or none     *)
  binding,   (* there is a SpaceBinding                                     *)
  note       (* the notification of the deactivation: none, created or sent *)

position == <<part, at>>
test    == <<position, outer, inner, copy, failed, tasks>>
host    == <<signup, mur, space, binding, note>>
member  == <<account, user, set>>
chosen  == <<scenario, fault>>
vars    == <<chosen, test, host, member, banned>>

Does(what) == fault # what

request == scenario.request

NoSignup == [there |-> FALSE]
NoCopy   == [read |-> FALSE]
NoMur    == [is |-> "none", provisioned |-> FALSE, account |-> FALSE]
NoSpace  == [is |-> "none", tier |-> "none", hash |-> "none", provisioned |-> FALSE, bound |-> FALSE]

-----------------------------------------------------------------------------
(* The host operator and the UserSignup (external).                        *)

Doomed   == signup.there /\ (banned \/ "deactivated" \in signup.states)
Accepted == /\ signup.there
            /\ ~Doomed
            /\ "approved" \in signup.states \/ (scenario.autoApproval /\ signup.states = {})

WithSpace == ~request.noSpace

ApprovedBy == IF "approved" \in signup.states THEN ApprovedByAdmin ELSE ApprovedAutomatically

External(changed) == UNCHANGED <<chosen, test, banned>> /\ UNCHANGED changed

(* Neither approved nor deactivated.                                        *)
HostHold ==
  LET conds == ConditionSet(<<Default, IF "verification" \in signup.states THEN VerificationRequired ELSE PendingApproval>>)
  IN  /\ signup.there /\ ~Accepted /\ ~Doomed
      /\ signup.conds # conds
      /\ signup' = [signup EXCEPT !.conds = conds,
                                  !.label = IF "verification" \in signup.states THEN "not-ready" ELSE "pending"]
      /\ External(<<member, mur, space, binding, note>>)

(* The label comes first; what was complete before still is.                *)
HostLabel ==
  LET label == IF Accepted THEN "approved" ELSE IF banned THEN "banned" ELSE "deactivated"
  IN  /\ Accepted \/ Doomed
      /\ signup.label # label
      /\ signup' = [signup EXCEPT !.label = label,
                                  !.lastCluster = @ \/ Accepted,
                                  !.conds = IF Accepted THEN Override(@, {c \in ApprovedBy : c.type = "Approved"}) ELSE @]
      /\ External(<<member, mur, space, binding, note>>)

HostCreateMur == /\ Accepted /\ signup.label = "approved"
                 /\ mur = NoMur
                 /\ mur' = [NoMur EXCEPT !.is = "there"]
                 /\ External(<<member, signup, space, binding, note>>)

HostCreateSpace == /\ Accepted /\ signup.label = "approved"
                   /\ mur.is = "there"
                   /\ WithSpace /\ Does("space")
                   /\ space = NoSpace
                   /\ space' = [NoSpace EXCEPT !.is = "there", !.tier = "base"]
                   /\ External(<<member, signup, mur, binding, note>>)

HostBind == /\ Accepted /\ signup.label = "approved"
            /\ mur.is = "there" /\ space.is = "there"
            /\ Does("binding")
            /\ ~binding
            /\ binding' = TRUE
            /\ space' = [space EXCEPT !.bound = TRUE]
            /\ External(<<member, signup, mur, note>>)

HostComplete ==
  LET conds == ConditionSet(<<Default, ApprovedBy>>)
  IN  /\ Accepted /\ signup.label = "approved"
      /\ mur.is = "there"
      /\ WithSpace => (space.is = "there" \/ ~Does("space")) /\ (binding \/ ~Does("binding") \/ ~Does("space"))
      /\ signup.conds # conds
      /\ signup' = [signup EXCEPT !.conds = conds, !.named = TRUE, !.homeSpace = WithSpace]
      /\ External(<<member, mur, space, binding, note>>)

(* A deactivated or banned user is complete when the MasterUserRecord is    *)
(* gone; the deactivated one is notified.                                   *)
HostDismiss ==
  LET conds == IF banned THEN ConditionSet(<<Default, ApprovedBy, Banned>>)
               ELSE ConditionSet(<<Default, DeactivatedWithoutPreDeactivation>>)
  IN  /\ Doomed /\ signup.label \in {"deactivated", "banned"}
      /\ mur = NoMur \/ ~Does("delete")
      /\ signup.conds # conds
      /\ signup' = [signup EXCEPT !.conds = conds, !.homeSpace = FALSE]
      /\ note' = IF banned THEN note ELSE "created"
      /\ External(<<member, mur, space, binding>>)

HostNotify == /\ note = "created" /\ Does("notify")
              /\ note' = "sent"
              /\ External(<<member, signup, mur, space, binding>>)

-----------------------------------------------------------------------------
(* The host operator and the user's resources (external).                  *)

(* The status of the MasterUserRecord follows that of the account.          *)
HostSyncMur ==
  LET synced == [is |-> "there", provisioned |-> TRUE, account |-> binding]
  IN  /\ mur.is = "there" /\ mur # synced
      /\ binding => account = "ready" \/ ~Does("account")
      /\ mur' = synced
      /\ External(<<member, signup, space, binding, note>>)

HostDeleteMur == /\ Doomed /\ signup.label \in {"deactivated", "banned"}
                 /\ mur.is = "there" /\ Does("delete")
                 /\ mur' = [mur EXCEPT !.is = "terminating"]
                 /\ External(<<member, signup, space, binding, note>>)

HostMurGone == /\ mur.is = "terminating" /\ account = "none"
               /\ mur' = NoMur
               /\ External(<<member, signup, space, binding, note>>)

HostUnbind == /\ binding /\ mur = NoMur /\ Does("unbind")
              /\ binding' = FALSE
              /\ External(<<member, signup, mur, space, note>>)

(* A change of the tier makes the Space unready until it is applied.        *)
HostStartSpace == /\ space.is = "there" /\ space.provisioned /\ space.hash # space.tier
                  /\ space' = [space EXCEPT !.provisioned = FALSE]
                  /\ External(<<member, signup, mur, binding, note>>)

HostFinishSpace == /\ space.is = "there" /\ ~space.provisioned
                   /\ set = space.tier \/ ~Does("templates")
                   /\ space' = [space EXCEPT !.provisioned = TRUE, !.hash = space.tier]
                   /\ External(<<member, signup, mur, binding, note>>)

(* A Space that lost its last binding is deleted after a while.             *)
HostCleanSpace == /\ space.is = "there" /\ space.bound /\ ~binding /\ Does("clean")
                  /\ space' = [space EXCEPT !.is = "terminating"]
                  /\ External(<<member, signup, mur, binding, note>>)

HostSpaceGone == /\ space.is = "terminating" /\ set = "none"
                 /\ space' = NoSpace
                 /\ External(<<member, signup, mur, binding, note>>)

(* The member operator (external).                                          *)
MemberCreateAccount == /\ account = "none" /\ mur.is = "there" /\ binding /\ Does("account")
                       /\ account' = "new"
                       /\ External(<<host, user, set>>)

Provided == IF scenario.skipUsers THEN {} ELSE {"User", "Identity"}

MemberCreateUser == /\ account = "new" /\ Does("user")
                    /\ \E object \in Provided \ user : user' = user \cup {object}
                    /\ External(<<host, account, set>>)

MemberFinishAccount == /\ account = "new"
                       /\ user = Provided \/ ~Does("user")
                       /\ account' = "ready"
                       /\ External(<<host, user, set>>)

MemberDeleteAccount == /\ mur.is = "terminating" /\ account # "none"
                       /\ account' = "none"
                       /\ user' = {}
                       /\ External(<<host, set>>)

MemberApplyTemplates == /\ \/ space.is = "there" /\ ~space.provisioned /\ set # space.tier /\ Does("templates")
                              /\ set' = space.tier
                           \/ space.is = "terminating" /\ set # "none"
                              /\ set' = "none"
                        /\ External(<<host, account, user>>)

-----------------------------------------------------------------------------
(* The plan of the test.                                                   *)

(* Faulty variant: the Space is believed without a look at its NSTemplateSet*)
SpaceResourcesUnchecked ==
  <<"complete", "space", "murInCluster", "binding", "home", "spaceAgain">>

(* VerifySpaceRelatedResources                                              *)
VerifySpaceRelatedResources ==
  <<"complete", "space", "murInCluster", "binding", "nsTemplateSet", "home", "spaceAgain">>

(* VerifyUserRelatedResources and verifyUserAccount                         *)
VerifyUserRelatedResources(expectAccount) ==
  <<"complete">> \o (IF expectAccount
                     THEN <<"murInCluster", "lastCluster", "account", "user", "identity", "murStatuses">>
                     ELSE <<"murWithoutAccount", "lastCluster", "noUser">>)

VerifyResourcesProvisionedForSignup ==
  VerifySpaceRelatedResources \o VerifyUserRelatedResources(TRUE) \o <<"provisioned">>

VerifyResourcesProvisionedForSignupWithoutSpace ==
  VerifyUserRelatedResources(FALSE) \o <<"noSpace", "provisioned">>

If(condition, steps) == IF condition THEN steps ELSE <<>>

EnsureMUR ==
  IF WithSpace THEN If(request.spaceTier # "base", <<"move">>) \o <<"ensureMUR">> ELSE <<"ensureMURWithoutSpace">>

(* Faulty variant: the conditions are not waited for.                       *)
ExecuteUnchecked ==
  <<"signup">> \o If(request.waitForMUR, <<"murExists">>) \o If(request.ensureMUR, EnsureMUR) \o <<"addTask">>

(* Execute of the SignupRequest, as the parts that one request has          *)
Execute ==
  <<"signup">>
  \o If(request.conditions # {}, <<"conditions">>)
  \o If(request.waitForMUR, <<"murExists">>)
  \o If(request.ensureMUR, EnsureMUR)
  \o <<"addTask">>

(* Faulty variant: the Space is not waited for.                             *)
DeactivateOnly ==
  <<"deactivate", "murGone", "bindingsGone", "notified", "deactivated", "assertDeactivated",
    "notificationGone", "gone">>

DeactivateAndCheckUser ==
  <<"deactivate", "murGone", "bindingsGone", "notified", "deactivated", "assertDeactivated",
    "notificationGone", "spaceGone", "spaceBindingsGone", "gone">>

ReactivateAndCheckUser ==
  <<"reread", "reactivate", "approvedByAdmin", "assertActive">> \o VerifyResourcesProvisionedForSignup

(* The suite that bans and unbans a provisioned user.                       *)
Ban   == <<"ban", "banned", "noMur", "bannedLabel", "spaceGone", "spaceBindingsGone", "gone">>
Unban == <<"unban", "bannedUserGone", "approvedByAdmin", "murExists">>

(* The parts of a test: those of Execute, then the steps of the scenario.   *)
Plan == Execute \o scenario.steps

Steps(name) ==
  CASE name = "signup"                -> <<"post", "created", "noAutoApproval", "update">>
    [] name = "conditions"            -> <<"conditions">>
    [] name = "murExists"             -> <<"murExists">>
    [] name = "move"                  -> <<"spaceExists", "move">>
    [] name = "ensureMUR"             -> VerifySpaceRelatedResources \o VerifyUserRelatedResources(TRUE)
                                           \o <<"murExists", "provisioned">>
    [] name = "ensureMURWithoutSpace" -> VerifyUserRelatedResources(FALSE) \o <<"murExists", "provisioned">>
    [] name = "addTask"               -> <<"addTask">>
    [] name = "verify"                -> VerifyResourcesProvisionedForSignup
    [] name = "verifyWithoutSpace"    -> VerifyResourcesProvisionedForSignupWithoutSpace
    [] name = "deactivate"            -> DeactivateAndCheckUser
    [] name = "reactivate"            -> ReactivateAndCheckUser
    [] name = "ban"                   -> Ban
    [] name = "unban"                 -> Unban

Part  == IF part > Len(Plan) THEN "end" ELSE Plan[part]
Step  == IF failed \/ Part = "end" THEN "end" ELSE Steps(Part)[at]
Ended == Step = "end"

(* The step is done: the next one of the part, or the next part.            *)
Continue == IF at < Len(Steps(Part)) THEN at' = at + 1 /\ UNCHANGED part
                                     ELSE at' = 1 /\ part' = part + 1

(* The notification of a deactivation is deleted a while after it was sent, *)
(* not before the test looks for it.                                        *)
HostDeleteNote == /\ note = "sent"
                  /\ Step \notin {"deactivate", "murGone", "bindingsGone", "notified"}
                  /\ note' = "none"
                  /\ External(<<member, signup, mur, space, binding>>)

Operators == \/ HostHold \/ HostLabel \/ HostCreateMur \/ HostCreateSpace \/ HostBind \/ HostComplete
             \/ HostDismiss \/ HostNotify \/ HostDeleteNote \/ HostSyncMur \/ HostDeleteMur \/ HostMurGone
             \/ HostUnbind \/ HostStartSpace \/ HostFinishSpace \/ HostCleanSpace \/ HostSpaceGone
             \/ MemberCreateAccount \/ MemberCreateUser \/ MemberFinishAccount \/ MemberDeleteAccount
             \/ MemberApplyTemplates

(* Nothing is left to do: a wait that does not hold now times out.          *)
Quiet == ~ENABLED Operators

-----------------------------------------------------------------------------
(* The steps that change the cluster.                                      *)

(* The signup is posted; the registration service creates the UserSignup.   *)
Post == /\ Step = "post"
        /\ signup' = [there |-> TRUE, states |-> IF scenario.verification THEN {"verification"} ELSE {}, label |-> "",
                      conds |-> {}, named |-> FALSE, homeSpace |-> FALSE, lastCluster |-> FALSE]
        /\ Continue
        /\ UNCHANGED <<chosen, outer, inner, copy, failed, tasks, member, mur, space, binding, note, banned>>

(* An update is due when the request asks for what the signup does not have.*)
NeedsUpdate == \/ request.manuallyApprove
               \/ request.targetCluster
               \/ request.verificationRequired # ("verification" \in outer.states)

Updates == {"update", "deactivate", "reactivate", "move"}

SkipUpdate == /\ Step = "update" /\ ~NeedsUpdate
              /\ Continue
              /\ UNCHANGED <<chosen, outer, inner, copy, failed, tasks, host, member, banned>>

(* What the update does to the copy it read.  The verification-required     *)
(* state goes to the object the test held before, not to this one.          *)
Modified(step, object) ==
  CASE step = "update"     -> [object EXCEPT !.states = IF request.manuallyApprove THEN {"approved"} ELSE @]
    [] step = "deactivate" -> [object EXCEPT !.states = (@ \ {"approved"}) \cup {"deactivated"}]
    [] step = "reactivate" -> [object EXCEPT !.states = {"approved"}]
    [] step = "move"       -> [object EXCEPT !.tier = request.spaceTier]

Current == IF Step = "move" THEN space ELSE signup

(* Update reads the latest version first.                                   *)
UpdateGet == /\ Step \in Updates /\ (Step = "update" => NeedsUpdate)
             /\ copy = NoCopy
             /\ copy' = Current
             /\ UNCHANGED <<chosen, position, outer, inner, failed, tasks, host, member, banned>>

(* Faulty variant: the write does not look at the version it replaces.      *)
NoConflict == FALSE

(* The object was modified since it was read (the resource version).        *)
Conflict == copy # Current

UpdatePut == /\ copy # NoCopy
             /\ ~Conflict
             /\ copy' = NoCopy
             /\ Continue
             /\ IF Step = "move" THEN /\ space' = Modified(Step, copy)
                                      /\ UNCHANGED <<signup, outer>>
                ELSE /\ signup' = Modified(Step, copy)
                     /\ outer' = signup'
                     /\ UNCHANGED space
             /\ UNCHANGED <<chosen, inner, failed, tasks, member, mur, binding, note, banned>>

(* doUpdate reads and writes again.  The conflicts are finitely many, so    *)
(* that they do not last until its timeout, and the object is there to be   *)
(* read.                                                                    *)
UpdateRetry == /\ copy # NoCopy
               /\ Conflict
               /\ copy' = NoCopy
               /\ UNCHANGED <<chosen, position, outer, inner, failed, tasks, host, member, banned>>

(* CreateBannedUser, with its cleanup task, and the deletion of it.         *)
CreateBannedUser == /\ Step = "ban"
                    /\ banned' = TRUE
                    /\ tasks' = tasks \cup {"bannedUser"}
                    /\ Continue
                    /\ UNCHANGED <<chosen, outer, inner, copy, failed, host, member>>

DeleteBannedUser == /\ Step = "unban"
                    /\ banned' = FALSE
                    /\ Continue
                    /\ UNCHANGED <<chosen, outer, inner, copy, failed, tasks, host, member>>

(* Unless the cleanup is disabled, the UserSignup is deleted at the end of  *)
(* the test.                                                                *)
AddTask == /\ Step = "addTask"
           /\ tasks' = IF request.cleanupDisabled THEN tasks ELSE tasks \cup {"signup"}
           /\ Continue
           /\ UNCHANGED <<chosen, outer, inner, copy, failed, host, member, banned>>

-----------------------------------------------------------------------------
(* The waits.                                                              *)

Matches(object, criteria) == \A c \in DOMAIN criteria : object[c] = criteria[c]

(* The criteria of the waiters, each compared with the object of a poll.    *)
UserSignupMatches(criteria)       == signup.there /\ Matches(signup, criteria)
MasterUserRecordMatches(criteria) == mur.is # "none" /\ Matches(mur, criteria)
SpaceMatches(criteria)            == space.is # "none" /\ Matches(space, criteria)

WaitForUserSignup(criteria)              == UserSignupMatches(criteria)
WaitForMasterUserRecord(named, criteria) == named /\ MasterUserRecordMatches(criteria)
WaitForSpace(criteria)                   == SpaceMatches(criteria)

(* A verified signup is labelled approved and complete.                     *)
ApprovedAndComplete == WaitForUserSignup([label |-> "approved"]) /\ Complete \in signup.conds

(* Criteria of the Space of a user.                                         *)
ProvisionedSpace == WaitForSpace([tier |-> request.spaceTier, hash |-> request.spaceTier, provisioned |-> TRUE])

(* The spec, the conditions and the claims of the MasterUserRecord.         *)
UserAccountMatches == account = "ready"

WaitForUser     == IF scenario.skipUsers THEN "User" \notin user ELSE "User" \in user
WaitForIdentity == IF scenario.skipUsers THEN "Identity" \notin user ELSE "Identity" \in user

SpaceBindingMatches == binding

MasterUserRecordGone == outer.named /\ mur.is = "none"
SpaceGone            == outer.named /\ space.is = "none"
SpaceBindingsGone    == ~binding
BannedUserGone       == ~banned

NotificationsSent == outer.named /\ note = "sent"
NotificationsGone == note = "none"

Waits ==
  {"created", "conditions", "murExists", "spaceExists", "complete", "space", "murInCluster", "murWithoutAccount",
   "binding", "nsTemplateSet", "spaceAgain", "account", "user", "identity", "murStatuses", "noUser", "murGone",
   "bindingsGone", "notified", "deactivated", "notificationGone", "spaceGone", "spaceBindingsGone", "reread",
   "approvedByAdmin", "banned", "bannedLabel", "bannedUserGone"}

Holds(step) ==
  CASE step \in {"created", "reread"} -> WaitForUserSignup(<<>>)
    [] step = "conditions"        -> WaitForUserSignup([conds |-> request.conditions])
    [] step = "approvedByAdmin"   -> WaitForUserSignup([conds |-> ConditionSet(<<Default, ApprovedByAdmin>>), label |-> "approved"])
    [] step = "deactivated"       -> WaitForUserSignup([conds |-> ConditionSet(<<Default, DeactivatedWithoutPreDeactivation>>),
                                                        label |-> "deactivated"])
    [] step = "banned"            -> WaitForUserSignup([conds |-> ConditionSet(<<Default, ApprovedByAdmin, Banned>>)])
    [] step = "bannedLabel"       -> WaitForUserSignup([conds |-> ConditionSet(<<Default, ApprovedByAdmin, Banned>>), label |-> "banned"])
    [] step = "complete"          -> ApprovedAndComplete
    [] step = "murExists"         -> WaitForMasterUserRecord(outer.named, <<>>)
    [] step = "murInCluster"      -> WaitForMasterUserRecord(inner.named, [provisioned |-> TRUE, account |-> TRUE])
    [] step = "murWithoutAccount" -> WaitForMasterUserRecord(inner.named, [provisioned |-> TRUE, account |-> FALSE])
    [] step = "murStatuses"       -> WaitForMasterUserRecord(TRUE, [provisioned |-> TRUE, account |-> UserAccountMatches])
    [] step = "murGone"           -> MasterUserRecordGone
    [] step = "spaceExists"       -> outer.named /\ WaitForSpace(<<>>)
    [] step = "space"             -> ProvisionedSpace
    [] step = "spaceAgain"        -> WaitForSpace([tier |-> request.spaceTier, provisioned |-> TRUE])
    [] step = "spaceGone"         -> SpaceGone
    [] step \in {"bindingsGone", "spaceBindingsGone"} -> SpaceBindingsGone
    [] step = "binding"           -> SpaceBindingMatches
    [] step = "nsTemplateSet"     -> set = request.spaceTier
    [] step = "account"           -> UserAccountMatches
    [] step = "user"              -> WaitForUser
    [] step = "identity"          -> WaitForIdentity
    [] step = "noUser"            -> "User" \notin user
    [] step = "notified"          -> NotificationsSent
    [] step = "notificationGone"  -> NotificationsGone
    [] step = "bannedUserGone"    -> BannedUserGone

(* A wait returns the object that it saw last.                              *)
Await == /\ Step \in Waits
         /\ Holds(Step)
         /\ outer' = IF Step \in {"created", "reread", "conditions", "deactivated", "approvedByAdmin", "bannedLabel"}
                     THEN signup ELSE outer
         /\ inner' = IF Step = "complete" THEN signup ELSE inner
         /\ Continue
         /\ UNCHANGED <<chosen, copy, failed, tasks, host, member, banned>>

Fail == /\ failed' = TRUE
        /\ UNCHANGED <<chosen, position, outer, inner, copy, tasks, host, member, banned>>

(* Faulty variant: the wait polls without a timeout.                        *)
AwaitForever == Step = "never" /\ UNCHANGED vars

AwaitFails == /\ Quiet
              /\ Step \in Waits
              /\ ~Holds(Step)
              /\ Fail

-----------------------------------------------------------------------------
(* The assertions, on what a wait returned or on what must not be there.    *)

Asserts == {"noAutoApproval", "home", "lastCluster", "assertDeactivated", "assertActive", "noMur", "noSpace"}

(* noMur and noSpace stand for polls of a few seconds that must not         *)
(* succeed: the model looks once, at any time.                              *)
True(step) ==
  CASE step = "noAutoApproval"    -> ~(request.targetCluster /\ scenario.autoApproval)
    [] step = "home"              -> inner.homeSpace
    [] step = "lastCluster"       -> inner.lastCluster
    [] step = "assertDeactivated" -> "deactivated" \in outer.states
    [] step = "assertActive"      -> "deactivated" \notin outer.states
    [] step = "noMur"             -> mur.is = "none"
    [] step = "noSpace"           -> space.is = "none"

AssertHolds == /\ Step \in Asserts
               /\ True(Step)
               /\ Continue
               /\ UNCHANGED <<chosen, outer, inner, copy, failed, tasks, host, member, banned>>

AssertFails == /\ Step \in Asserts
               /\ ~True(Step)
               /\ Fail

(* What a part was to verify is verified.                                   *)
PartDone == /\ Step \in {"provisioned", "gone"}
            /\ Continue
            /\ UNCHANGED <<chosen, outer, inner, copy, failed, tasks, host, member, banned>>

-----------------------------------------------------------------------------
Init == /\ scenario \in Scenarios
        /\ fault \in Faults
        /\ part = 1 /\ at = 1
        /\ outer = NoSignup /\ inner = NoSignup /\ copy = NoCopy
        /\ failed = FALSE
        /\ tasks = {}
        /\ signup = NoSignup /\ mur = NoMur /\ space = NoSpace /\ binding = FALSE /\ note = "none"
        /\ account = "none" /\ user = {} /\ set = "none"
        /\ banned = FALSE

TestStep == \/ Post \/ SkipUpdate \/ UpdateGet \/ UpdatePut \/ UpdateRetry \/ CreateBannedUser \/ DeleteBannedUser
            \/ AddTask \/ Await \/ AwaitFails \/ AssertHolds \/ AssertFails \/ PartDone

Next == Operators \/ TestStep

Spec == Init /\ [][Next]_vars

(* The operators reconcile until nothing is left to do; a wait polls until  *)
(* it holds or times out.                                                   *)
FairSpec == Spec /\ WF_vars(Operators) /\ WF_vars(TestStep)

-----------------------------------------------------------------------------
(* Properties.                                                             *)

(* A verification that passes means that the user has everything at that    *)
(* moment, nothing of it on its way out: an account that is ready, the User *)
(* and Identity unless they are switched off, and a Space of the tier that  *)
(* was asked for, provisioned and bound; or none of it without a space.     *)
VerifiedMeansProvisioned ==
  Step = "provisioned" =>
    /\ mur.is = "there" /\ mur.provisioned
    /\ IF WithSpace
       THEN /\ account = "ready" /\ user = Provided
            /\ space.is = "there" /\ space.tier = request.spaceTier /\ space.provisioned /\ set = request.spaceTier
            /\ binding
       ELSE account = "none" /\ user = {} /\ space = NoSpace /\ ~binding

(* A deactivation or a ban that passes its checks leaves no MasterUserRecord,*)
(* no Space, no SpaceBinding and no notification behind.                    *)
DismissedMeansGone ==
  Step = "gone" => mur = NoMur /\ space = NoSpace /\ ~binding /\ note = "none"

(* The test fails only when an operator failed: no wait looks for a name    *)
(* that is not known yet, and no assertion looks at a copy too early.       *)
NoFalseAlarm == failed => fault # "none"

(* The waits that look for the name of the user in a copy the test holds.   *)
NamedByInner == {"murInCluster", "murWithoutAccount"}
NamedByOuter == {"murExists", "spaceExists", "murGone", "spaceGone", "notified"}

(* What a test looks at is known by then.  An assertion that looks at a copy *)
(* is made on one that is not too old, so that none of them fails a test of *)
(* correct operators, but for the one on a request that the configuration   *)
(* does not allow; and no wait looks for a name that its copy does not have *)
(* yet, if the request waits for the conditions of an active user.          *)
NothingTooEarly ==
  /\ Step \in Asserts \ {"noAutoApproval"} => True(Step) \/ (Step = "noMur" /\ ~Does("delete"))
  /\ Step \in NamedByInner => inner.named
  /\ Step \in NamedByOuter /\ Complete \in request.conditions => outer.named

(* An update never takes back what an operator wrote since the object was   *)
(* read: only the states, or the tier, change.                              *)
UpdateLosesNothing ==
  [][copy # NoCopy /\ position' # position =>
       /\ signup' = [signup EXCEPT !.states = signup'.states]
       /\ space.is # "none" => space' = [space EXCEPT !.tier = space'.tier]]_vars

(* What a verification waits for first, the approved label and Complete,    *)
(* means that there is a MasterUserRecord: the conditions that are left of  *)
(* a ban or a deactivation do not pass for those of an active user, and the *)
(* exact sets that are waited for tell the other states apart.              *)
StatesToldApart ==
  /\ signup.there /\ signup.label = "approved" /\ Complete \in signup.conds => mur.is # "none"
  /\ \A active \in ActiveStates : Complete \in active
  /\ \A i \in DOMAIN OtherStates : Complete \notin OtherStates[i]
  /\ \A i, j \in DOMAIN OtherStates : i # j => OtherStates[i] # OtherStates[j]

(* The test ends, whatever the operators fail to do.                        *)
TestEnds == <>Ended

(* What the comment of VerificationRequired says: the state is set for the  *)
(* new UserSignup unless it is also approved.                               *)
VerificationSet ==
  signup.there /\ Step \notin {"post", "created", "noAutoApproval", "update"} =>
    (request.verificationRequired /\ ~request.manuallyApprove => "verification" \in signup.states)

(* What the comment at the end of Execute says: unless the cleanup is       *)
(* disabled, the UserSignup is deleted at the end of the test.              *)
CleanupEnsured == Ended /\ signup.there /\ ~request.cleanupDisabled => "signup" \in tasks

-----------------------------------------------------------------------------
(* The inductive invariant behind the safety properties.                    *)

Tiers == {"none", "base"} \cup {s.request.spaceTier : s \in Scenarios}

SignupConditions ==
  UNION {Default, PendingApproval, VerificationRequired, ApprovedByAdmin, ApprovedAutomatically, Banned,
         DeactivatedWithoutPreDeactivation}

UserSignup ==
  [there : {TRUE}, states : SUBSET {"verification", "approved", "deactivated"},
   label : {"", "not-ready", "pending", "approved", "banned", "deactivated"},
   conds : SUBSET SignupConditions,
   named : BOOLEAN, homeSpace : BOOLEAN, lastCluster : BOOLEAN]

(* The test is at a step of its plan, or past it.                           *)
Placed == /\ scenario \in Scenarios
          /\ part \in Nat \ {0}
          /\ IF Part = "end" THEN at = 1 ELSE at \in 1..Len(Steps(Part))
          /\ failed \in BOOLEAN

(* The variables have the types of the objects they stand for.              *)
TypeOK ==
  /\ Placed
  /\ signup \in UserSignup \cup {NoSignup}
  /\ mur \in [is : {"none", "there", "terminating"}, provisioned : BOOLEAN, account : BOOLEAN]
  /\ account \in {"none", "new", "ready"} /\ user \subseteq Provided
  /\ space \in [is : {"none", "there", "terminating"}, tier : Tiers, hash : Tiers, provisioned : BOOLEAN, bound : BOOLEAN]
  /\ set \in Tiers
  /\ binding \in BOOLEAN /\ banned \in BOOLEAN
  /\ note \in {"none", "created", "sent"}

(* The step has been done in this part.                                     *)
Behind(step) == \E k \in 1..(at - 1) : Steps(Part)[k] = step

(* Whoever updates an object is at the step that does, with cause.          *)
CopyInv == copy # NoCopy => Step \in Updates /\ (Step = "update" => NeedsUpdate)

(* There is nothing before the signup, and nobody is dismissed during it.   *)
SignupInv ==
  /\ part = 1 => /\ signup.there = (at # 1)
                 /\ ~Doomed /\ ~banned
  /\ ~signup.there => /\ part = 1
                      /\ mur = NoMur /\ space = NoSpace /\ ~binding

(* What is gone has left nothing, and without a space there is no account.  *)
ResourceInv ==
  /\ mur.is = "none" => mur = NoMur /\ account = "none"
  /\ account = "none" => user = {}
  /\ space.is = "none" => space = NoSpace
  /\ ~WithSpace => space = NoSpace /\ ~binding /\ account = "none"

(* Nothing of a user who is not dismissed is on its way out, and whoever is *)
(* complete has a MasterUserRecord.                                         *)
LiveInv ==
  /\ ~Doomed => /\ mur.is # "terminating" /\ space.is # "terminating"
                /\ space.bound = binding
                /\ binding => mur.is = "there" /\ space.is = "there"
  /\ signup.there /\ Complete \in signup.conds /\ (~Doomed \/ signup.label = "approved") => mur.is = "there"

(* A dismissed user has nothing left, except while the part that dismisses  *)
(* the user waits for it: then what it has seen gone stays gone.            *)
Leaving == Part \in {"deactivate", "ban"} /\ at > 1

Relabelled == signup.label \in {"deactivated", "banned"}
Incomplete == Complete \notin signup.conds

DoomedInv ==
  /\ Leaving => signup.there /\ IF Part = "ban" THEN banned ELSE "deactivated" \in signup.states
  /\ Doomed /\ ~Leaving => Relabelled /\ Incomplete /\ mur = NoMur /\ space = NoSpace /\ ~binding
  /\ Leaving => /\ Behind("murGone") \/ Behind("noMur") => mur = NoMur
                /\ Behind("spaceGone") => space = NoSpace
                /\ Behind("bindingsGone") \/ Behind("spaceBindingsGone") => ~binding
                /\ Behind("deactivated") \/ Behind("bannedLabel") => Relabelled
                /\ Behind("deactivated") \/ Behind("banned") => Incomplete

(* A user is not banned and deactivated, except where the test will fail.   *)
DeactivatedInv ==
  signup.there /\ "deactivated" \in signup.states =>
    /\ "approved" \notin signup.states
    /\ banned => Leaving /\ ~Behind("notified") /\ ~Behind("banned")
    /\ banned /\ Part = "ban" => Approved(TRUE, "ApprovedByAdmin") \notin signup.conds
    /\ \/ banned
       \/ signup.conds = ConditionSet(<<Default, DeactivatedWithoutPreDeactivation>>)
       \/ Leaving /\ Part = "deactivate" /\ ~Behind("deactivated")

(* A notification is there only while a deactivation waits for its end.     *)
NoteInv ==
  note # "none" => ~banned /\ Leaving /\ Part = "deactivate" /\ ~Behind("notificationGone")

(* What a verification has seen stays so, as nobody dismisses the user.     *)
VerifyInv ==
  ~Leaving =>
    /\ Behind("spaceExists") => ~Doomed /\ space.is = "there"
    /\ Behind("complete") => ~Doomed /\ mur.is = "there"
    /\ Behind("space") => /\ space.is = "there" /\ space.provisioned
                          /\ space.tier = request.spaceTier /\ space.hash = request.spaceTier
    /\ Behind("binding") => binding
    /\ Behind("nsTemplateSet") => set = request.spaceTier
    /\ Behind("murInCluster") \/ Behind("murWithoutAccount") => mur.provisioned
    /\ Behind("account") => account = "ready"
    /\ Behind("user") /\ ~scenario.skipUsers => "User" \in user
    /\ Behind("identity") /\ ~scenario.skipUsers => "Identity" \in user

IInv == /\ TypeOK /\ CopyInv /\ SignupInv /\ ResourceInv /\ LiveInv
        /\ DoomedInv /\ DeactivatedInv /\ NoteInv /\ VerifyInv

-----------------------------------------------------------------------------
(* What NothingTooEarly needs besides.                                      *)

(* The status is filled before the conditions say so.                       *)
StatusInv ==
  signup.there =>
    /\ signup.label = "approved" => signup.lastCluster
    /\ Complete \in signup.conds => signup.named /\ (signup.homeSpace <=> WithSpace)

(* A banned user has no MasterUserRecord once the conditions say so, and    *)
(* nobody else has these conditions but a user who is being unbanned.       *)
Banished == Completed(TRUE, "Banned") \in signup.conds

BannedInv ==
  signup.there /\ Banished /\ Does("delete") =>
    IF Doomed THEN mur = NoMur ELSE Part = "unban" /\ ~Behind("approvedByAdmin")

(* What a wait has seen is in the copy it returned.                         *)
HeldInv ==
  /\ Part = "ban" /\ Behind("banned") => Banished
  /\ Part = "deactivate" /\ Behind("deactivated") => "deactivated" \in outer.states
  /\ Part = "reactivate" /\ Behind("approvedByAdmin") => "deactivated" \notin outer.states
  /\ Behind("complete") => inner.named /\ inner.lastCluster /\ (inner.homeSpace <=> WithSpace)
  /\ Complete \in request.conditions /\ part > 2 => outer.named /\ signup.named

SeenInv == StatusInv /\ BannedInv /\ HeldInv
=============================================================================
