--------------------------- MODULE OperatorInstall ---------------------------
(***************************************************************************)
(* Installing the operators before the users are set up                    *)
(* (setup/operators/operators.go, with the polls of setup/wait/wait.go):   *)
(* for one template after the other the objects are applied, then the      *)
(* Subscription is polled; each round takes the name of its current CSV    *)
(* and polls that CSV for a while until it has succeeded.                  *)
(*                                                                         *)
(* External: OLM, which installs the version the Subscription names and,   *)
(* when the catalog has a newer one, moves the Subscription on to it and   *)
(* replaces the CSV.                                                       *)
(***************************************************************************)
EXTENDS Naturals, Sequences

CONSTANTS Templates,   (* the number of templates to install                 *)
          Versions     (* bound: the CSVs a Subscription goes through        *)

ASSUME InstallAssumption == /\ Templates \in Nat \ {0}
                            /\ Versions \in Nat \ {0}

Template == 1..Templates
Version  == 1..Versions
NoCSV    == 0

VARIABLES faults,      (* may calls fail, polls time out and CSVs fail?      *)
                       (* chosen once, for the whole behaviour               *)
          pc,          (* where EnsureOperatorsInstalled is                  *)
          cur,         (* the template it works on                           *)
          sub,         (* the Subscription as the round has read it          *)
          lastCSVs,    (* the CSVs seen for the template, in order           *)
          csverr,      (* the poll of a CSV has failed                       *)
          err,         (* the poll of the Subscription has failed            *)
          applied,     (* the templates whose objects were applied           *)
          currentCSV,  (* Status.CurrentCSV of each Subscription             *)
          phase,       (* the phase of each CSV, "none" if there is none     *)
          verified     (* history: the CSV each finished round has approved  *)

localVars == <<cur, sub, lastCSVs, csverr, err>>
olmVars   == <<currentCSV, phase>>
vars      == <<faults, pc, localVars, applied, olmVars, verified>>

Init == /\ faults \in BOOLEAN
        /\ pc = "verify"
        /\ cur = 1
        /\ sub = NoCSV
        /\ lastCSVs = <<>>
        /\ csverr = FALSE
        /\ err = FALSE
        /\ applied = {}
        /\ currentCSV = [t \in Template |-> NoCSV]
        /\ phase = [t \in Template |-> [v \in Version |-> "none"]]
        /\ verified = [t \in Template |-> NoCSV]

-----------------------------------------------------------------------------
(* VerifySandboxOperatorsInstalled: both Subscriptions are found or not.    *)
VerifySandbox == /\ pc = "verify"
                 /\ \E found \in {TRUE} \cup (IF faults THEN {FALSE} ELSE {}) :
                      pc' = IF found THEN "apply" ELSE "failed"
                 /\ UNCHANGED <<faults, localVars, applied, olmVars, verified>>

(* The template is read, its Subscription found and its objects applied.    *)
ApplyTemplate == /\ pc = "apply"
                 /\ applied' = applied \cup {cur}
                 /\ lastCSVs' = <<>>
                 /\ csverr' = FALSE
                 /\ err' = FALSE
                 /\ pc' = "getSub"
                 /\ UNCHANGED <<faults, cur, sub, olmVars, verified>>

(* An invalid template, one without a Subscription or a refused object.     *)
ApplyFails == /\ faults
              /\ pc = "apply"
              /\ pc' = "failed"
              /\ UNCHANGED <<faults, localVars, applied, olmVars, verified>>

(* HasSubscriptionWithCriteria and the start of its criterion.              *)
GetSubscription ==
  LET csv == currentCSV[cur] IN
  /\ pc = "getSub"
  /\ csv # NoCSV
  /\ sub' = csv
  /\ lastCSVs' = IF lastCSVs # <<>> /\ lastCSVs[Len(lastCSVs)] = csv
                 THEN lastCSVs ELSE Append(lastCSVs, csv)
  /\ pc' = "getCSV"
  /\ UNCHANGED <<faults, cur, csverr, err, applied, olmVars, verified>>

(* No Subscription, or no CSV yet: the next round.                          *)
NoSubscriptionYet == /\ pc = "getSub"
                     /\ currentCSV[cur] = NoCSV
                     /\ UNCHANGED vars

(* Faulty variant: any phase of the CSV will do.                            *)
CSVFound == /\ pc = "getCSV"
            /\ phase[cur][sub] # "none"
            /\ csverr' = FALSE
            /\ pc' = "sleep"
            /\ UNCHANGED <<faults, cur, sub, lastCSVs, err, applied, olmVars, verified>>

(* Faulty variant: the error of an earlier round is kept.                   *)
CSVSucceededStale == /\ pc = "getCSV"
                     /\ phase[cur][sub] = "Succeeded"
                     /\ pc' = "sleep"
                     /\ UNCHANGED <<faults, cur, sub, lastCSVs, csverr, err, applied, olmVars, verified>>

(* The CSV has the phase the criterion asks for.                            *)
CSVSucceeded == /\ pc = "getCSV"
                /\ phase[cur][sub] = "Succeeded"
                /\ csverr' = FALSE
                /\ pc' = "sleep"
                /\ UNCHANGED <<faults, cur, sub, lastCSVs, err, applied, olmVars, verified>>

(* Faulty variant: the poll of the CSV has no timeout of its own.           *)
CSVTimeoutNever == /\ pc = "getCSV"
                   /\ phase[cur][sub] # "Succeeded"
                   /\ csverr' = TRUE
                   /\ UNCHANGED <<faults, pc, cur, sub, lastCSVs, err, applied, olmVars, verified>>

(* csvTimeout is over, or a Get has failed: the next round.                 *)
CSVTimeout == /\ pc = "getCSV"
              /\ phase[cur][sub] # "Succeeded" \/ faults
              /\ csverr' = TRUE
              /\ pc' = "getSub"
              /\ UNCHANGED <<faults, cur, sub, lastCSVs, err, applied, olmVars, verified>>

(* After the sleep the criterion compares the last CSV with what it has     *)
(* read at the start of the round: the Subscription is not read again.      *)
RoundDone == /\ pc = "sleep"
             /\ sub = lastCSVs[Len(lastCSVs)]
             /\ verified' = [verified EXCEPT ![cur] = sub]
             /\ pc' = "result"
             /\ UNCHANGED <<faults, localVars, applied, olmVars>>

(* The timeout of the Subscription, or a Get that fails, ends the poll.     *)
SubscriptionFails == /\ faults
                     /\ pc = "getSub"
                     /\ err' = TRUE
                     /\ pc' = "result"
                     /\ UNCHANGED <<faults, cur, sub, lastCSVs, csverr, applied, olmVars, verified>>

(* The operator is verified, the next template's turn.                      *)
NextTemplate == /\ pc = "result"
                /\ ~csverr
                /\ ~err
                /\ IF cur = Templates
                   THEN pc' = "installed" /\ cur' = cur
                   ELSE pc' = "apply" /\ cur' = cur + 1
                /\ UNCHANGED <<faults, sub, lastCSVs, csverr, err, applied, olmVars, verified>>

(* The error of the CSV is reported before that of the Subscription.        *)
ReportError == /\ pc = "result"
               /\ csverr \/ err
               /\ pc' = "failed"
               /\ UNCHANGED <<faults, localVars, applied, olmVars, verified>>

-----------------------------------------------------------------------------
(* OLM.                                                                     *)

(* A first version is resolved once the Subscription is there, and a newer  *)
(* one once the current version has succeeded.                              *)
Resolve(t) == LET v == currentCSV[t] IN
              /\ t \in applied
              /\ v < Versions
              /\ v # NoCSV => phase[t][v] = "Succeeded"
              /\ currentCSV' = [currentCSV EXCEPT ![t] = v + 1]
              /\ UNCHANGED <<faults, pc, localVars, applied, phase, verified>>

InstallCSV(t) == LET v == currentCSV[t] IN
                 /\ v # NoCSV
                 /\ phase[t][v] = "none"
                 /\ phase' = [phase EXCEPT ![t][v] = "Installing"]
                 /\ UNCHANGED <<faults, pc, localVars, applied, currentCSV, verified>>

(* The new version has succeeded: the one it replaces is deleted.           *)
CSVSucceeds(t) == LET v == currentCSV[t] IN
                  /\ v # NoCSV
                  /\ phase[t][v] = "Installing"
                  /\ phase' = [phase EXCEPT ![t] =
                       [w \in Version |-> CASE w = v -> "Succeeded"
                                            [] w < v -> "none"
                                            [] OTHER -> @[w]]]
                  /\ UNCHANGED <<faults, pc, localVars, applied, currentCSV, verified>>

CSVFails(t) == LET v == currentCSV[t] IN
               /\ faults
               /\ v # NoCSV
               /\ phase[t][v] = "Installing"
               /\ phase' = [phase EXCEPT ![t][v] = "Failed"]
               /\ UNCHANGED <<faults, pc, localVars, applied, currentCSV, verified>>

-----------------------------------------------------------------------------
Terminated == pc \in {"installed", "failed"} /\ UNCHANGED vars

SetupStep == \/ VerifySandbox
             \/ ApplyTemplate
             \/ GetSubscription
             \/ CSVSucceeded
             \/ RoundDone
             \/ NextTemplate
             \/ ReportError

Next == \/ SetupStep
        \/ NoSubscriptionYet
        \/ ApplyFails
        \/ CSVTimeout
        \/ SubscriptionFails
        \/ \E t \in Template : \/ Resolve(t)
                               \/ InstallCSV(t)
                               \/ CSVSucceeds(t)
                               \/ CSVFails(t)
        \/ Terminated

Spec == Init /\ [][Next]_vars

(* The command runs and its polls time out when calls may fail.             *)
FairSpec == /\ Spec
            /\ WF_vars(SetupStep)
            /\ WF_vars(CSVTimeout)
            /\ SF_vars(SubscriptionFails)

(* OLM installs what a Subscription names, and a CSV that has succeeded is  *)
(* seen by one of the rounds, which come every second of a poll of minutes. *)
OLMWorks == /\ SF_vars(CSVSucceeded)
            /\ \A t \in Template : /\ WF_vars(Resolve(t))
                                   /\ WF_vars(InstallCSV(t))
                                   /\ WF_vars(CSVSucceeds(t))

-----------------------------------------------------------------------------
(* Properties.                                                              *)

(* The variables have the types of the Go values they stand for.            *)
TypeOK == /\ faults \in BOOLEAN
          /\ pc \in {"verify", "apply", "getSub", "getCSV", "sleep", "result",
                     "installed", "failed"}
          /\ cur \in Template
          /\ sub \in Version \cup {NoCSV}
          /\ lastCSVs \in Seq(Version)
          /\ csverr \in BOOLEAN
          /\ err \in BOOLEAN
          /\ applied \subseteq Template
          /\ currentCSV \in [Template -> Version \cup {NoCSV}]
          /\ phase \in [Template -> [Version -> {"none", "Installing", "Succeeded", "Failed"}]]
          /\ verified \in [Template -> Version \cup {NoCSV}]

(* A version is out once it has been replaced or has succeeded.             *)
WasInstalled(t, v) == v < currentCSV[t] \/ phase[t][v] = "Succeeded"

(* The users are provisioned only when every operator was installed, in a   *)
(* version that had succeeded: no round ends with a CSV that is installing, *)
(* failed or gone, although OLM upgrades it between the two polls.          *)
InstalledMeansSucceeded ==
  pc = "installed" => \A t \in Template : /\ verified[t] # NoCSV
                                          /\ WasInstalled(t, verified[t])

(* The operators are installed one after the other: no template is applied  *)
(* before the one before it has been verified.                              *)
OneAtATime == \A t \in Template : t + 1 \in applied => verified[t] # NoCSV

(* The versions seen by the rounds of a template only go forward.           *)
UpgradesInOrder == \A i \in 1..(Len(lastCSVs) - 1) : lastCSVs[i] < lastCSVs[i + 1]

(* When OLM does its work and nothing fails, the operators get installed,   *)
(* upgrades or not.                                                         *)
InstallSucceeds == OLMWorks /\ ~faults => <>(pc = "installed")

(* When the polls may time out the command goes on or fails, whatever OLM   *)
(* does.                                                                    *)
InstallEnds == faults => <>(pc \in {"installed", "failed"})

(* "return true only if the CurrentCSV has not changed. ie. no upgrade      *)
(* needed" (operators.go).                                                  *)
NoUpgradePending ==
  [][pc = "sleep" /\ pc' = "result" => currentCSV[cur] = lastCSVs[Len(lastCSVs)]]_vars

-----------------------------------------------------------------------------
(* The inductive invariant.                                                 *)

(* The round works on a version that exists, and after its poll on one that *)
(* had succeeded.                                                           *)
RoundInv ==
  /\ pc \in {"getCSV", "sleep"} => sub \in Version
  /\ pc = "sleep" => WasInstalled(cur, sub)

(* What was approved had succeeded, every template before the one at hand   *)
(* was approved, and so was that one when its round ended without an error. *)
VerifiedInv ==
  /\ \A t \in Template : verified[t] # NoCSV => WasInstalled(t, verified[t])
  /\ \A t \in Template : t < cur => verified[t] # NoCSV
  /\ pc = "result" /\ ~err => verified[cur] # NoCSV
  /\ pc = "installed" => cur = Templates /\ verified[cur] # NoCSV
  /\ \A t \in applied : t <= cur

(* The versions seen go forward, the last one up to the current one.        *)
SeenInv ==
  /\ UpgradesInOrder
  /\ pc \notin {"verify", "apply", "failed", "installed"} /\ lastCSVs # <<>> =>
       lastCSVs[Len(lastCSVs)] <= currentCSV[cur]

IInv == TypeOK /\ RoundInv /\ VerifiedInv /\ SeenInv
=============================================================================
