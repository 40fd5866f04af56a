------------------------------ MODULE CleanTask ------------------------------
(***************************************************************************)
(* One cleaning task of testsupport/cleanup/clean.go: an object a test has *)
(* created is deleted, and the task waits until the object and what the    *)
(* operators made of it are gone.  The dependents of a UserSignup are its  *)
(* MasterUserRecord and its Space, those of an NSTemplateTier its          *)
(* TierTemplateRevisions.                                                  *)
(*                                                                         *)
(* External: the API server, where an object with finalizers stays for a   *)
(* while after its deletion, and the operators, which create dependents as *)
(* long as the object is there and remove them when it is not.             *)
(***************************************************************************)
EXTENDS Naturals

CONSTANT Kinds      (* the kinds of objects the tests hand over              *)

ASSUME KindsAssumption == Kinds \subseteq {"UserSignup", "NSTemplateTier", "Other"}

Dependent == {"mur", "space", "ttrs"}

(* What the operators make of an object of a kind.                          *)
DependentsOf(k) == CASE k = "UserSignup"     -> {"mur", "space"}
                     [] k = "NSTemplateTier" -> {"ttrs"}
                     [] k = "Other"          -> {}

VARIABLES kind,     (* of the object                                         *)
          faults,   (* may the calls fail and the poll time out?             *)
          known,    (* does the test's copy of the UserSignup hold the       *)
                    (* CompliantUsername, the name of the MUR and the Space? *)
          place,    (* where cleanObject is                                  *)
          left,     (* dependents the current round still has to look at     *)
          orphans,  (* a dependent was still there in the early check        *)
          early,    (* history: the first Delete answered NotFound           *)
          object,   (* "present", "deleting" or "gone"                       *)
          dep       (* the same for each dependent                           *)

given    == <<kind, faults, known>>   (* chosen once, for the whole behaviour *)
taskVars == <<given, place, left, orphans, early, object, dep>>

Phase == {"present", "deleting", "gone"}

(* The dependents that verifyMurDeleted and verifySpaceDeleted look at.     *)
Verified == IF kind = "UserSignup" /\ known THEN {"mur", "space"} ELSE {}

(* The test hands over an object in any phase.                              *)
TaskInit == /\ kind \in Kinds
            /\ faults \in BOOLEAN
            /\ place = "delete"
            /\ known \in BOOLEAN
            /\ left = {}
            /\ orphans = FALSE
            /\ early = FALSE
            /\ object \in Phase
            /\ dep \in {f \in [Dependent -> Phase] :
                          \A d \in Dependent \ DependentsOf(kind) : f[d] = "gone"}

Goto(label) == place' = label

(* verifyMurDeleted comes before verifySpaceDeleted.                        *)
First == IF "mur" \in left THEN "mur" ELSE "space"

Deleted(phase) == IF phase = "present" THEN "deleting" ELSE phase

-----------------------------------------------------------------------------
(* The first Delete.                                                        *)

Delete == /\ place = "delete"
          /\ object # "gone"
          /\ object' = "deleting"
          /\ Goto("list")
          /\ UNCHANGED <<given, left, orphans, early, dep>>

(* Faulty variant: any error counts as NotFound.                            *)
DeleteFailsNotFound == /\ faults
                       /\ place = "delete"
                       /\ left' = Verified
                       /\ Goto("early")
                       /\ UNCHANGED <<given, orphans, early, object, dep>>

(* An error other than NotFound is not looked at.                           *)
DeleteFails == /\ faults
               /\ place = "delete"
               /\ Goto("list")
               /\ UNCHANGED <<given, left, orphans, early, object, dep>>

DeleteNotFound == /\ place = "delete"
                  /\ object = "gone"
                  /\ early' = TRUE
                  /\ left' = Verified
                  /\ Goto("early")
                  /\ UNCHANGED <<given, orphans, object, dep>>

-----------------------------------------------------------------------------
(* verifyMurDeleted and verifySpaceDeleted with delete = true.              *)

EarlyGet == /\ place = "early"
            /\ left # {}
            /\ IF dep[First] = "gone"
               THEN left' = left \ {First} /\ UNCHANGED place
               ELSE Goto("earlyDelete") /\ UNCHANGED left
            /\ UNCHANGED <<given, orphans, early, object, dep>>

(* The dependent may be gone since the Get: then it counts as deleted.      *)
EarlyDelete == /\ place = "earlyDelete"
               /\ orphans' = (orphans \/ dep[First] # "gone")
               /\ dep' = [dep EXCEPT ![First] = Deleted(@)]
               /\ left' = left \ {First}
               /\ Goto("early")
               /\ UNCHANGED <<given, early, object>>

(* Nothing is left to wait for: for another kind than UserSignup at once.   *)
EarlyReturn == /\ place = "early"
               /\ left = {}
               /\ Goto(IF orphans THEN "list" ELSE "ok")
               /\ UNCHANGED <<given, left, orphans, early, object, dep>>

-----------------------------------------------------------------------------
(* verifyTierTemplateRevisionsDeleted with delete = true.                   *)

List == /\ place = "list"
        /\ Goto(IF kind = "NSTemplateTier" /\ dep["ttrs"] # "gone" THEN "deleteAll" ELSE "poll")
        /\ UNCHANGED <<given, left, orphans, early, object, dep>>

DeleteAll == /\ place = "deleteAll"
             /\ dep' = [dep EXCEPT !["ttrs"] = Deleted(@)]
             /\ Goto("poll")
             /\ UNCHANGED <<given, left, orphans, early, object>>

-----------------------------------------------------------------------------
(* The poll.                                                                *)

(* The object is still there; encourageDeletion changes an annotation only. *)
PollFound == /\ place = "poll"
             /\ object # "gone"
             /\ UNCHANGED taskVars

(* Faulty variant: the poll ends when the object itself is gone.            *)
PollNotFoundDone == /\ place = "poll"
                    /\ object = "gone"
                    /\ left' = {}
                    /\ Goto("verify")
                    /\ UNCHANGED <<given, orphans, early, object, dep>>

PollNotFound == /\ place = "poll"
                /\ object = "gone"
                /\ left' = IF kind = "NSTemplateTier" THEN {"ttrs"} ELSE Verified
                /\ Goto("verify")
                /\ UNCHANGED <<given, orphans, early, object, dep>>

(* Faulty variant: the answers of the check are mixed up.                   *)
VerifyNextSwapped == LET d == IF kind = "NSTemplateTier" THEN "ttrs" ELSE First IN
                     /\ place = "verify"
                     /\ left # {}
                     /\ IF dep[d] # "gone"
                        THEN left' = left \ {d} /\ UNCHANGED place
                        ELSE left' = {} /\ Goto("poll")
                     /\ UNCHANGED <<given, orphans, early, object, dep>>

(* The next dependent of the round: one that is there ends the round.       *)
VerifyNext == LET d == IF kind = "NSTemplateTier" THEN "ttrs" ELSE First IN
              /\ place = "verify"
              /\ left # {}
              /\ IF dep[d] = "gone"
                 THEN left' = left \ {d} /\ UNCHANGED place
                 ELSE left' = {} /\ Goto("poll")
              /\ UNCHANGED <<given, orphans, early, object, dep>>

PollDone == /\ place = "verify"
            /\ left = {}
            /\ Goto("ok")
            /\ UNCHANGED <<given, left, orphans, early, object, dep>>

(* Faulty variant: a poll that has timed out starts over.                   *)
CallFailsOver == /\ faults
                 /\ place \in {"early", "earlyDelete", "list", "deleteAll", "poll", "verify"}
                 /\ Goto("delete")
                 /\ left' = {}
                 /\ UNCHANGED <<given, orphans, early, object, dep>>

(* An error of a call, or the poll's timeout, fails the test.               *)
CallFails == /\ faults
             /\ place \in {"early", "earlyDelete", "list", "deleteAll", "poll", "verify"}
             /\ Goto("failed")
             /\ UNCHANGED <<given, left, orphans, early, object, dep>>

-----------------------------------------------------------------------------
(* The operators and the rest of the test.                                  *)

(* Someone else deletes the object before the task does.                    *)
DeletedElsewhere == /\ object = "present"
                    /\ object' = "deleting"
                    /\ UNCHANGED <<given, place, left, orphans, early, dep>>

Finalized == /\ object = "deleting"
             /\ object' = "gone"
             /\ UNCHANGED <<given, place, left, orphans, early, dep>>

(* A dependent is made only from an object that is there to stay.           *)
CreateDependent(d) == /\ d \in DependentsOf(kind)
                      /\ object = "present"
                      /\ dep[d] = "gone"
                      /\ dep' = [dep EXCEPT ![d] = "present"]
                      /\ UNCHANGED <<given, place, left, orphans, early, object>>

(* The operators follow the deletion of the object.                         *)
DeleteDependent(d) == /\ object # "present"
                      /\ dep[d] = "present"
                      /\ dep' = [dep EXCEPT ![d] = "deleting"]
                      /\ UNCHANGED <<given, place, left, orphans, early, object>>

DependentFinalized(d) == /\ dep[d] = "deleting"
                         /\ dep' = [dep EXCEPT ![d] = "gone"]
                         /\ UNCHANGED <<given, place, left, orphans, early, object>>

-----------------------------------------------------------------------------
TaskStep == \/ Delete
            \/ DeleteNotFound
            \/ EarlyGet
            \/ EarlyDelete
            \/ EarlyReturn
            \/ List
            \/ DeleteAll
            \/ PollNotFound
            \/ VerifyNext
            \/ PollDone

TaskOver == place \in {"ok", "failed"} /\ UNCHANGED taskVars

Removal == \/ Finalized
           \/ \E d \in Dependent : DeleteDependent(d) \/ DependentFinalized(d)

TaskNext == \/ TaskStep
            \/ PollFound
            \/ DeleteFails
            \/ CallFails
            \/ Removal
            \/ DeletedElsewhere
            \/ \E d \in Dependent : CreateDependent(d)
            \/ TaskOver

TaskSpec == TaskInit /\ [][TaskNext]_taskVars

(* The goroutine of the task runs, and the timeout of its poll comes when   *)
(* calls may fail.                                                          *)
FairTask == TaskSpec /\ WF_taskVars(TaskStep) /\ WF_taskVars(CallFails)

(* The operators remove what is deleted.                                    *)
OperatorsWork == /\ WF_taskVars(Finalized)
                 /\ \A d \in Dependent : /\ WF_taskVars(DeleteDependent(d))
                                         /\ WF_taskVars(DependentFinalized(d))

-----------------------------------------------------------------------------
(* Properties.                                                              *)

(* The variables have the types of the Go values they stand for.            *)
TaskTypeOK == /\ kind \in Kinds
              /\ faults \in BOOLEAN
              /\ place \in {"delete", "early", "earlyDelete", "list", "deleteAll", "poll",
                            "verify", "ok", "failed"}
              /\ known \in BOOLEAN
              /\ left \subseteq DependentsOf(kind)
              /\ orphans \in BOOLEAN
              /\ early \in BOOLEAN
              /\ object \in Phase
              /\ dep \in [Dependent -> Phase]

(* A task that has succeeded has left nothing behind: neither the object,   *)
(* nor the MUR and Space of a UserSignup whose CompliantUsername the test   *)
(* knows, nor the revisions of a tier it has deleted itself.  The operators *)
(* create and remove all of them while the task looks at one at a time.     *)
CleanLeavesNothing ==
  place = "ok" => /\ object = "gone"
                  /\ kind = "UserSignup" /\ known => \A d \in DependentsOf(kind) : dep[d] = "gone"
                  /\ kind = "NSTemplateTier" /\ ~early => dep["ttrs"] = "gone"

(* The task never removes the MUR or the Space of a UserSignup that is      *)
(* still there: the operator would make them again, forever.                *)
OnlyOrphansDeleted ==
  [][\A d \in {"mur", "space"} :
       dep[d] = "present" /\ dep'[d] = "deleting" => object # "present"]_taskVars

(* A task whose poll may time out comes to an end, whatever the operators   *)
(* do.                                                                      *)
CleanEnds == faults => <>(place \in {"ok", "failed"})

(* When the operators do their work and no call fails, the object is        *)
(* cleaned, in whatever phase the task finds it and its dependents.         *)
CleanSucceeds == OperatorsWork /\ ~faults => <>(place = "ok")

(* "if the object was NSTemplateTier, then let's check that the             *)
(* TierTemplateRevisions were deleted as well" (clean.go).                  *)
RevisionsDeleted == place = "ok" /\ kind = "NSTemplateTier" => dep["ttrs"] = "gone"

-----------------------------------------------------------------------------
(* The inductive invariant behind the safety properties: once the object is *)
(* gone no dependent is made, so what a round has looked at stays gone.     *)

(* The dependents a task has to see gone.                                   *)
Awaited == IF kind = "NSTemplateTier" THEN {"ttrs"} ELSE Verified

EarlyInv == place \in {"early", "earlyDelete"} =>
              /\ object = "gone"
              /\ early
              /\ left \subseteq Verified
              /\ place = "earlyDelete" => left # {}
              /\ ~orphans => \A d \in Verified \ left : dep[d] = "gone"

RoundInv == place = "verify" => /\ object = "gone"
                                /\ left \subseteq Awaited
                                /\ \A d \in Awaited \ left : dep[d] = "gone"

CleanInv == TaskTypeOK /\ EarlyInv /\ RoundInv /\ CleanLeavesNothing
=============================================================================
