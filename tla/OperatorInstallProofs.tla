------------------------ MODULE OperatorInstallProofs ------------------------
(***************************************************************************)
(* Proofs about OperatorInstall.  What carries them is that OLM never      *)
(* takes back that a version has succeeded: it deletes a CSV only when a   *)
(* newer one has taken its place (StaysInstalled).                         *)
(***************************************************************************)
EXTENDS OperatorInstall, TLAPS

(* A step of OLM on one Subscription.                                       *)
OLMStep(t) == Resolve(t) \/ InstallCSV(t) \/ CSVSucceeds(t) \/ CSVFails(t)

-----------------------------------------------------------------------------
(* The types of what OLM keeps, with the bounds on versions taken apart.    *)
LEMMA OLMTypes ==
  ASSUME TypeOK
  PROVE  /\ \A v \in Version : v \in Nat /\ v # NoCSV
         /\ \A t \in Template : currentCSV[t] \in Nat
         /\ \A t \in Template : currentCSV[t] # NoCSV => currentCSV[t] \in Version
         /\ \A t \in Template : currentCSV[t] < Versions => currentCSV[t] + 1 \in Version
  <1>1. currentCSV \in [Template -> Version \cup {NoCSV}]
    BY DEF TypeOK
  <1>2. \A t \in Template : currentCSV[t] \in Version \cup {NoCSV}
    BY <1>1
  <1>3. \A v \in Version : v \in Nat /\ v # NoCSV
    BY InstallAssumption DEF Version, NoCSV
  <1>4. \A n \in Nat : n < Versions => n + 1 \in Version
    BY InstallAssumption DEF Version
  <1>5. NoCSV \in Nat
    BY DEF NoCSV
  <1> QED BY <1>2, <1>3, <1>4, <1>5

(* What a sequence holds stays of one kind when a round adds to it.         *)
LEMMA AppendKeeps ==
  ASSUME NEW S, NEW seq \in Seq(S), NEW e \in S, NEW seq2,
         seq2 = seq \/ seq2 = Append(seq, e)
  PROVE  seq2 \in Seq(S)
  OBVIOUS

(* The types hold in every reachable state.                                 *)
LEMMA TypeStep == TypeOK /\ [Next]_vars => TypeOK'
  <1> SUFFICES ASSUME TypeOK, [Next]_vars PROVE TypeOK'
    OBVIOUS
  <1> USE InstallAssumption DEF TypeOK, Template, Version, NoCSV, localVars, olmVars
  <1>1. CASE VerifySandbox
    BY <1>1 DEF VerifySandbox
  <1>2. CASE ApplyTemplate
    <2>1. applied' \subseteq Template
      BY <1>2 DEF ApplyTemplate
    <2>2. lastCSVs' \in Seq(Version)
      <3>1. lastCSVs' = <<>>
        BY <1>2 DEF ApplyTemplate
      <3> QED BY <3>1
    <2> QED BY <1>2, <2>1, <2>2 DEF ApplyTemplate
  <1>3. CASE GetSubscription
    <2>1. currentCSV[cur] \in Version
      <3>1. currentCSV[cur] # NoCSV /\ cur \in Template
        BY <1>3 DEF GetSubscription
      <3> QED BY <3>1, OLMTypes
    <2>2. lastCSVs' = lastCSVs \/ lastCSVs' = Append(lastCSVs, currentCSV[cur])
      BY <1>3 DEF GetSubscription
    <2>3. lastCSVs' \in Seq(Version)
      <3> HIDE DEF Version
      <3>1. lastCSVs \in Seq(Version)
        BY DEF TypeOK
      <3> QED BY ONLY <2>1, <2>2, <3>1, AppendKeeps
    <2> QED BY <1>3, <2>1, <2>3 DEF GetSubscription
  <1>4. CASE CSVSucceeded
    BY <1>4 DEF CSVSucceeded
  <1>5. CASE RoundDone
    BY <1>5 DEF RoundDone
  <1>6. CASE NextTemplate
    <2>1. cur' \in Template
      BY <1>6 DEF NextTemplate
    <2> QED BY <1>6, <2>1 DEF NextTemplate
  <1>7. CASE ReportError
    BY <1>7 DEF ReportError
  <1>8. CASE ApplyFails
    BY <1>8 DEF ApplyFails
  <1>9. CASE CSVTimeout
    BY <1>9 DEF CSVTimeout
  <1>10. CASE SubscriptionFails
    BY <1>10 DEF SubscriptionFails
  <1>11. ASSUME NEW t \in Template, Resolve(t) PROVE TypeOK'
    <2>1. currentCSV[t] + 1 \in Version
      BY <1>11, OLMTypes DEF Resolve
    <2> QED BY <1>11, <2>1 DEF Resolve
  <1>12. ASSUME NEW t \in Template, InstallCSV(t) PROVE TypeOK'
    BY <1>12 DEF InstallCSV
  <1>13. ASSUME NEW t \in Template, CSVSucceeds(t) PROVE TypeOK'
    <2>1. phase' = [phase EXCEPT ![t] = [w \in Version |-> CASE w = currentCSV[t] -> "Succeeded"
                                                             [] w < currentCSV[t] -> "none"
                                                             [] OTHER -> phase[t][w]]]
      BY <1>13 DEF CSVSucceeds
    <2>2. phase' \in [Template -> [Version -> {"none", "Installing", "Succeeded", "Failed"}]]
      BY <2>1
    <2> QED BY <1>13, <2>2 DEF CSVSucceeds
  <1>14. ASSUME NEW t \in Template, CSVFails(t) PROVE TypeOK'
    BY <1>14 DEF CSVFails
  <1>15. CASE UNCHANGED vars
    BY <1>15 DEF vars
  <1> QED BY <1>1, <1>2, <1>3, <1>4, <1>5, <1>6, <1>7, <1>8, <1>9, <1>10, <1>11, <1>12, <1>13, <1>14, <1>15
          DEF Next, SetupStep, NoSubscriptionYet, Terminated

(* OLM deletes no version that has succeeded before a newer one took over,  *)
(* and moves a Subscription only forward.                                   *)
LEMMA StaysInstalled ==
  ASSUME TypeOK, NEW t \in Template, OLMStep(t)
  PROVE  /\ \A s \in Template, v \in Version : WasInstalled(s, v) => WasInstalled(s, v)'
         /\ \A s \in Template : currentCSV'[s] \in Nat /\ currentCSV[s] <= currentCSV'[s]
         /\ UNCHANGED <<faults, pc, localVars, applied, verified>>
  <1> USE DEF localVars, WasInstalled
  <1>0. /\ \A v \in Version : v \in Nat
        /\ \A s \in Template : currentCSV[s] \in Nat
        /\ DOMAIN currentCSV = Template
        /\ phase \in [Template -> [Version -> {"none", "Installing", "Succeeded", "Failed"}]]
    BY OLMTypes DEF TypeOK
  <1>1. CASE Resolve(t)
    <2>1. /\ currentCSV' = [currentCSV EXCEPT ![t] = currentCSV[t] + 1]
          /\ UNCHANGED <<faults, pc, localVars, applied, phase, verified>>
      BY <1>1 DEF Resolve
    <2>2. \A s \in Template : currentCSV'[s] = IF s = t THEN currentCSV[s] + 1 ELSE currentCSV[s]
      BY <1>0, <2>1
    <2> QED BY <1>0, <2>1, <2>2
  <1>2. CASE InstallCSV(t)
    BY <1>0, <1>2 DEF InstallCSV
  <1>3. CASE CSVSucceeds(t)
    <2>1. phase' = [phase EXCEPT ![t] = [w \in Version |-> CASE w = currentCSV[t] -> "Succeeded"
                                                             [] w < currentCSV[t] -> "none"
                                                             [] OTHER -> phase[t][w]]]
      BY <1>3 DEF CSVSucceeds
    <2>2. UNCHANGED <<faults, pc, localVars, applied, currentCSV, verified>>
      BY <1>3 DEF CSVSucceeds
    <2>4. ASSUME NEW s \in Template, NEW v \in Version, WasInstalled(s, v)
          PROVE  WasInstalled(s, v)'
      <3>1. CASE s # t
        BY <2>1, <2>2, <2>4, <3>1
      <3>2. CASE s = t /\ v < currentCSV[t]
        BY <2>2, <3>2
      <3>3. CASE s = t /\ phase[t][v] = "Succeeded" /\ ~(v < currentCSV[t])
        BY <1>0, <2>1, <2>2, <3>3
      <3> QED BY <2>4, <3>1, <3>2, <3>3
    <2> QED BY <1>0, <2>2, <2>4
  <1>4. CASE CSVFails(t)
    BY <1>0, <1>4 DEF CSVFails
  <1> QED BY <1>1, <1>2, <1>3, <1>4 DEF OLMStep

(* The other parts survive what OLM does.                                   *)
LEMMA OLMInvariant ==
  ASSUME IInv, NEW t \in Template, OLMStep(t)
  PROVE  (RoundInv /\ VerifiedInv /\ SeenInv)'
  <1> USE InstallAssumption DEF IInv, TypeOK, Template, Version, NoCSV, localVars
  <1>1. /\ \A s \in Template, v \in Version : WasInstalled(s, v) => WasInstalled(s, v)'
        /\ \A s \in Template : currentCSV'[s] \in Nat /\ currentCSV[s] <= currentCSV'[s]
        /\ UNCHANGED <<faults, pc, localVars, applied, verified>>
    BY StaysInstalled
  <1>2. RoundInv'
    <2>1. ASSUME pc = "sleep" PROVE WasInstalled(cur, sub)'
      BY <1>1, <2>1 DEF RoundInv, WasInstalled
    <2> QED BY <1>1, <2>1 DEF RoundInv
  <1>3. VerifiedInv'
    <2>1. \A s \in Template : verified'[s] # NoCSV => WasInstalled(s, verified[s])'
      BY <1>1 DEF VerifiedInv, WasInstalled
    <2> QED BY <1>1, <2>1 DEF VerifiedInv
  <1>4. SeenInv'
    <2>1. UpgradesInOrder'
      BY <1>1 DEF SeenInv, UpgradesInOrder
    <2>2. ASSUME pc \notin {"verify", "apply", "failed", "installed"}, lastCSVs # <<>>
          PROVE  lastCSVs[Len(lastCSVs)] <= currentCSV'[cur]
      <3>1. lastCSVs[Len(lastCSVs)] \in Version
        BY <2>2
      <3>2. currentCSV[cur] <= currentCSV'[cur]
        BY <1>1
      <3>3. lastCSVs[Len(lastCSVs)] <= currentCSV[cur]
        BY <2>2 DEF SeenInv
      <3>4. currentCSV[cur] \in Nat /\ currentCSV'[cur] \in Nat
        BY <1>1, OLMTypes
      <3> QED BY <3>1, <3>2, <3>3, <3>4
    <2> QED BY <1>1, <2>1, <2>2 DEF SeenInv
  <1> QED BY <1>2, <1>3, <1>4

-----------------------------------------------------------------------------
(* A round that sees another CSV sees a later one.                          *)
LEMMA SeenStep == IInv /\ GetSubscription => SeenInv'
  <1> SUFFICES ASSUME IInv, GetSubscription PROVE SeenInv'
    OBVIOUS
  <1> DEFINE csv == currentCSV[cur]
             n   == Len(lastCSVs)
  <1>1. /\ lastCSVs \in Seq(Version) /\ n \in Nat
        /\ cur \in Template
        /\ csv \in Nat /\ csv \in Version
        /\ \A v \in Version : v \in Nat
    BY OLMTypes DEF IInv, TypeOK, GetSubscription
  <1>2. UNCHANGED <<cur, currentCSV>> /\ pc = "getSub" /\ pc' = "getCSV"
    BY DEF GetSubscription, olmVars
  <1>3. CASE lastCSVs # <<>> /\ lastCSVs[n] = csv
    <2>1. lastCSVs' = lastCSVs
      BY <1>3 DEF GetSubscription
    <2> QED BY <1>1, <1>2, <1>3, <2>1 DEF IInv, SeenInv, UpgradesInOrder
  <1>4. CASE ~(lastCSVs # <<>> /\ lastCSVs[n] = csv)
    <2>1. lastCSVs' = Append(lastCSVs, csv)
      BY <1>4 DEF GetSubscription
    <2>2. Len(lastCSVs') = n + 1 /\ lastCSVs'[n + 1] = csv
      BY <1>1, <2>1
    <2>3. \A i \in 1..n : lastCSVs'[i] = lastCSVs[i]
      BY <1>1, <2>1
    <2>4. n # 0 => lastCSVs[n] < csv
      <3>1. n # 0 => lastCSVs # <<>> /\ lastCSVs[n] \in Version
        BY <1>1
      <3>2. n # 0 => lastCSVs[n] <= csv
        BY <1>2, <3>1 DEF IInv, SeenInv
      <3> QED BY <1>1, <1>4, <3>1, <3>2
    <2>5. UpgradesInOrder'
      <3> SUFFICES ASSUME NEW i \in 1..n PROVE lastCSVs'[i] < lastCSVs'[i + 1]
        BY <1>1, <2>2 DEF UpgradesInOrder
      <3>1. CASE i = n
        BY <1>1, <2>2, <2>3, <2>4, <3>1
      <3>2. CASE i # n
        <4>1. i \in 1..(n - 1) /\ i + 1 \in 1..n
          BY <1>1, <3>2
        <4> QED BY <2>3, <4>1 DEF IInv, SeenInv, UpgradesInOrder
      <3> QED BY <3>1, <3>2
    <2> QED BY <1>1, <1>2, <2>2, <2>5 DEF SeenInv
  <1> QED BY <1>3, <1>4

(* The steps of the command other than the start of a round.                *)
LEMMA CommandInvariant ==
  ASSUME IInv,
         \/ VerifySandbox \/ ApplyTemplate \/ CSVSucceeded \/ RoundDone
         \/ NextTemplate \/ ReportError \/ ApplyFails \/ CSVTimeout
         \/ SubscriptionFails \/ UNCHANGED vars
  PROVE  (RoundInv /\ VerifiedInv /\ SeenInv)'
  <1> USE InstallAssumption DEF IInv, RoundInv, VerifiedInv, SeenInv, WasInstalled,
                                localVars, olmVars
  <1>0. /\ cur \in Template
        /\ Template \subseteq Nat
        /\ DOMAIN verified = Template
        /\ \A t \in Template : t <= Templates
        /\ Templates \in Template
        /\ \A v \in Version : v # NoCSV
    BY OLMTypes DEF TypeOK, Template
  <1>1. CASE VerifySandbox
    BY <1>0, <1>1 DEF VerifySandbox, UpgradesInOrder
  <1>2. CASE ApplyTemplate
    <2>1. RoundInv' /\ SeenInv'
      BY <1>2 DEF ApplyTemplate, UpgradesInOrder
    <2>2. VerifiedInv'
      BY <1>0, <1>2 DEF ApplyTemplate
    <2> QED BY <2>1, <2>2
  <1>3. CASE CSVSucceeded
    BY <1>0, <1>3 DEF CSVSucceeded, UpgradesInOrder
  <1>4. CASE RoundDone
    <2>1. /\ pc = "sleep" /\ pc' = "result"
          /\ verified' = [verified EXCEPT ![cur] = sub]
          /\ UNCHANGED <<cur, sub, lastCSVs, csverr, err, applied, currentCSV, phase>>
      BY <1>4 DEF RoundDone
    <2>2. sub # NoCSV /\ WasInstalled(cur, sub)
      BY <1>0, <2>1
    <2>3. \A t \in Template : verified'[t] = IF t = cur THEN sub ELSE verified[t]
      BY <1>0, <2>1
    <2>4. VerifiedInv'
      BY <1>0, <2>1, <2>2, <2>3
    <2>5. RoundInv' /\ SeenInv'
      BY <2>1 DEF UpgradesInOrder
    <2> QED BY <2>4, <2>5
  <1>5. CASE NextTemplate
    <2>1. \A t \in Template : cur # Templates /\ t < cur + 1 => t < cur \/ t = cur
      BY <1>0
    <2>2. cur # Templates => \A t \in applied : t <= cur + 1
      BY <1>0 DEF TypeOK
    <2>3. VerifiedInv'
      BY <1>0, <1>5, <2>1, <2>2 DEF NextTemplate
    <2>4. RoundInv' /\ SeenInv'
      BY <1>5 DEF NextTemplate, UpgradesInOrder
    <2> QED BY <2>3, <2>4
  <1>6. CASE ReportError
    BY <1>0, <1>6 DEF ReportError, UpgradesInOrder
  <1>7. CASE ApplyFails
    BY <1>0, <1>7 DEF ApplyFails, UpgradesInOrder
  <1>8. CASE CSVTimeout
    BY <1>0, <1>8 DEF CSVTimeout, UpgradesInOrder
  <1>9. CASE SubscriptionFails
    BY <1>0, <1>9 DEF SubscriptionFails, UpgradesInOrder
  <1>10. CASE UNCHANGED vars
    BY <1>10 DEF vars, UpgradesInOrder
  <1> QED BY <1>1, <1>2, <1>3, <1>4, <1>5, <1>6, <1>7, <1>8, <1>9, <1>10

(* Every step keeps the invariant.                                          *)
LEMMA IInvStep == IInv /\ [Next]_vars => IInv'
  <1> SUFFICES ASSUME IInv, [Next]_vars PROVE IInv'
    OBVIOUS
  <1>1. TypeOK'
    BY TypeStep DEF IInv
  <1>2. CASE GetSubscription
    <2>1. SeenInv'
      BY <1>2, SeenStep
    <2>2. currentCSV[cur] \in Version
      BY <1>2, OLMTypes DEF GetSubscription, IInv, TypeOK
    <2>3. RoundInv'
      BY <1>2, <2>2 DEF GetSubscription, RoundInv
    <2>4. VerifiedInv'
      BY <1>2 DEF GetSubscription, IInv, VerifiedInv, WasInstalled, olmVars
    <2> QED BY <1>1, <2>1, <2>3, <2>4 DEF IInv
  <1>3. ASSUME NEW t \in Template, OLMStep(t) PROVE IInv'
    BY <1>1, <1>3, OLMInvariant DEF IInv
  <1>4. CASE ~GetSubscription /\ ~(\E t \in Template : OLMStep(t))
    <2>1. \/ VerifySandbox \/ ApplyTemplate \/ CSVSucceeded \/ RoundDone
          \/ NextTemplate \/ ReportError \/ ApplyFails \/ CSVTimeout
          \/ SubscriptionFails \/ UNCHANGED vars
      BY <1>4 DEF Next, SetupStep, NoSubscriptionYet, Terminated, OLMStep
    <2> QED BY <1>1, <2>1, CommandInvariant DEF IInv
  <1> QED BY <1>2, <1>3, <1>4

(* It holds when the command starts.                                        *)
LEMMA IInvInit == Init => IInv
  <1> SUFFICES ASSUME Init PROVE IInv
    OBVIOUS
  <1>1. lastCSVs = <<>> /\ lastCSVs \in Seq(Version)
    BY DEF Init
  <1>2. 1 \in Template /\ \A t \in Template : ~(t < 1)
    BY InstallAssumption DEF Template
  <1>3. TypeOK
    BY <1>1, <1>2 DEF Init, TypeOK
  <1>4. RoundInv /\ VerifiedInv
    BY <1>2 DEF Init, RoundInv, VerifiedInv
  <1>5. SeenInv
    BY <1>1 DEF Init, SeenInv, UpgradesInOrder
  <1> QED BY <1>3, <1>4, <1>5 DEF IInv

-----------------------------------------------------------------------------
(* The inductive invariant holds in every reachable state.                  *)
THEOREM Invariance == Spec => []IInv
  BY IInvInit, IInvStep, PTL DEF Spec

(* The variables keep their types.                                          *)
THEOREM TypeCorrect == Spec => []TypeOK
  <1>1. IInv => TypeOK
    BY DEF IInv
  <1> QED BY <1>1, Invariance, PTL

(* For any number of operators and of upgrades, the setup goes on only when *)
(* each operator was installed in a version that had succeeded, however OLM *)
(* interleaves its upgrades with the rounds.                                *)
THEOREM InstalledSucceeded == Spec => []InstalledMeansSucceeded
  <1>1. IInv => InstalledMeansSucceeded
    <2> SUFFICES ASSUME IInv, pc = "installed", NEW t \in Template
                 PROVE  verified[t] # NoCSV /\ WasInstalled(t, verified[t])
      BY DEF InstalledMeansSucceeded
    <2>1. t < Templates \/ t = Templates
      BY InstallAssumption DEF Template
    <2> QED BY <2>1 DEF IInv, VerifiedInv
  <1> QED BY <1>1, Invariance, PTL

(* No template is applied before the one before it has been verified.       *)
THEOREM OneByOne == Spec => []OneAtATime
  <1>1. IInv => OneAtATime
    <2> SUFFICES ASSUME IInv, NEW t \in Template, t + 1 \in applied
                 PROVE  verified[t] # NoCSV
      BY DEF OneAtATime
    <2>1. t < cur
      BY InstallAssumption DEF IInv, TypeOK, VerifiedInv, Template
    <2> QED BY <2>1 DEF IInv, VerifiedInv
  <1> QED BY <1>1, Invariance, PTL

(* The rounds of a template see its versions only go forward.               *)
THEOREM UpgradesForward == Spec => []UpgradesInOrder
  <1>1. IInv => UpgradesInOrder
    BY DEF IInv, SeenInv
  <1> QED BY <1>1, Invariance, PTL
=============================================================================
