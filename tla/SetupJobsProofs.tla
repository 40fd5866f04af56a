--------------------------- MODULE SetupJobsProofs ---------------------------
(***************************************************************************)
(* Proofs about SetupJobs, for any set of jobs, of routines and of totals. *)
(* Every step of the program is one of three kinds as far as the sharing   *)
(* of the user numbers goes: a routine takes the next number, a routine is *)
(* finished with its number, or nothing changes.                           *)
(***************************************************************************)
EXTENDS SetupJobs, FiniteSetTheorems, TLAPS

USE JobsAssumption DEF JobsAssumption

SameNumbers == /\ \A s \in Routine : Held(s)' = Held(s)
               /\ current' = current
               /\ processed' = processed

TakeNumber(r) ==
  LET j == JobOf[r] IN
    /\ Held(r) = 0
    /\ current[j] < Total[j]
    /\ current' = [current EXCEPT ![j] = @ + 1]
    /\ \A s \in Routine : Held(s)' = IF s = r THEN current[j] + 1 ELSE Held(s)
    /\ processed' = processed

FinishNumber(r) ==
  /\ Held(r) # 0
  /\ current' = current
  /\ \A s \in Routine : Held(s)' = IF s = r THEN 0 ELSE Held(s)
  /\ processed' = [processed EXCEPT ![JobOf[r]] = @ \cup {Held(r)}]

-----------------------------------------------------------------------------
(* The three kinds of steps.                                                *)

(* A routine that moves between two places without taking, reading or       *)
(* finishing a number leaves the sharing as it is.                          *)
LEMMA MoveKeepsNumbers ==
  ASSUME TypeOK, NEW r \in Routine, NEW to \in Positions,
         pc' = [pc EXCEPT ![r] = to], UNCHANGED <<hasMore, curUserNum, current, processed>>,
         pc[r] # "current", to # "current",
         pc[r] \in Working \cup {"fatal"} <=> to \in Working \cup {"fatal"}
  PROVE  SameNumbers
  BY DEF SameNumbers, Held, TypeOK

(* Every step but bar.Incr and the end of an action leaves it as it is.     *)
LEMMA StepKinds ==
  ASSUME TypeOK, LockInv, BarInv, GroupInv, [Next]_vars
  PROVE  \/ SameNumbers
         \/ \E r \in Routine : TakeNumber(r) \/ FinishNumber(r)
<1>1. CASE UNCHANGED vars
  BY <1>1 DEF vars, barVars, SameNumbers, Held
<1>2. ASSUME NEW j \in Job, Launch(j) \/ SubgroupWait(j)
      PROVE  SameNumbers
  BY <1>2 DEF Launch, SubgroupWait, barVars, SameNumbers, Held
<1>3. ASSUME NEW j \in Job, StartRoutines(j)
      PROVE  SameNumbers
  <2>1. \A r \in Routine : pc[r] = pc'[r] \/ (pc[r] = "off" /\ pc'[r] = "client")
    BY <1>3 DEF StartRoutines, GroupInv, RoutinesOf
  <2>2. UNCHANGED <<hasMore, curUserNum, current, processed>>
    BY <1>3 DEF StartRoutines, barVars
  <2>. QED
    BY <2>1, <2>2 DEF SameNumbers, Held, Working
<1>4. CASE WgWait \/ Report \/ Exit \/ ProvisionSpace \/ RunIdler \/ Terminated
  BY <1>4 DEF WgWait, Report, Exit, ProvisionSpace, RunIdler, Terminated, vars, barVars,
              SameNumbers, Held
<1>5. ASSUME NEW r \in Routine,
             NewClient(r) \/ IncrLock(r) \/ CreateSignup(r) \/ UserReady(r)
               \/ AddTimeLock(r) \/ AddTimeUnlock(r) \/ SubgroupDone(r) \/ WaitFails(r)
      PROVE  SameNumbers
  <2>. USE MoveKeepsNumbers DEF Transition, barVars, Positions, Working
  <2>1. CASE NewClient(r) \/ IncrLock(r) \/ CreateSignup(r)
    BY <2>1 DEF NewClient, IncrLock, CreateSignup
  <2>2. CASE UserReady(r) \/ WaitFails(r) \/ SubgroupDone(r)
    BY <2>2 DEF UserReady, WaitFails, SubgroupDone
  <2>3. CASE AddTimeLock(r) \/ AddTimeUnlock(r)
    BY <2>3 DEF AddTimeLock, AddTimeUnlock
  <2>. QED
    BY <1>5, <2>1, <2>2, <2>3
<1>6. ASSUME NEW r \in Routine, CallFails(r)
      PROVE  SameNumbers
  BY <1>6 DEF CallFails, Transition, barVars, SameNumbers, Held, BarInv, TypeOK, Working
<1>7. ASSUME NEW r \in Routine, BarCurrent(r)
      PROVE  SameNumbers
  BY <1>7 DEF BarCurrent, Transition, FirstStep, SameNumbers, Held, BarInv, TypeOK, Working
<1>8. ASSUME NEW r \in Routine, BarIncr(r)
      PROVE  SameNumbers \/ TakeNumber(r)
  <2>. DEFINE j == JobOf[r]
              left == current[j] + 1 <= Total[j]
  <2>1. /\ pc[r] = "incr" /\ mu[j] = r
        /\ pc' = [pc EXCEPT ![r] = "current"]
        /\ hasMore' = [hasMore EXCEPT ![r] = left]
        /\ current' = IF left THEN [current EXCEPT ![j] = current[j] + 1] ELSE current
        /\ curUserNum' = curUserNum /\ processed' = processed
    BY <1>8 DEF BarIncr, Transition, LockInv
  <2>2. \A s \in Routine \ {r} : pc[s] = "current" => JobOf[s] # j
    BY <2>1 DEF LockInv
  <2>3. \A s \in Routine \ {r} : Held(s)' = Held(s)
    BY <2>1, <2>2 DEF TypeOK, Held
  <2>4. Held(r) = 0 /\ Held(r)' = IF left THEN current[j] + 1 ELSE 0
    BY <2>1 DEF TypeOK, Held, Working
  <2>5. CASE left
    BY <2>1, <2>3, <2>4, <2>5 DEF TakeNumber, TypeOK
  <2>6. CASE ~left
    BY <2>1, <2>3, <2>4, <2>6 DEF SameNumbers
  <2>. QED
    BY <2>5, <2>6
<1>9. ASSUME NEW r \in Routine, SignupReady(r) \/ ApplyChange(r)
      PROVE  FinishNumber(r)
  <2>1. /\ pc[r] \in Working /\ Held(r) = curUserNum[r] /\ curUserNum[r] # 0
        /\ pc' = [pc EXCEPT ![r] = "time"]
        /\ UNCHANGED <<hasMore, curUserNum, current>>
        /\ processed' = [processed EXCEPT ![JobOf[r]] = @ \cup {curUserNum[r]}]
    BY <1>9 DEF SignupReady, ApplyChange, Finish, Transition, barVars, Held, BarInv, Working
  <2>. QED
    BY <2>1 DEF FinishNumber, Held, TypeOK, Working
<1>. QED
  BY <1>1, <1>2, <1>3, <1>4, <1>5, <1>6, <1>7, <1>8, <1>9 DEF Next, MainStep, RoutineStep

-----------------------------------------------------------------------------
(* The inductive invariant, part by part.                                   *)

(* The mutex of a bar has one holder.                                       *)
LEMMA LockStep == TypeOK /\ LockInv /\ [Next]_vars => LockInv'
<1>. SUFFICES ASSUME TypeOK, LockInv, [Next]_vars, NEW s \in Routine,
                     pc'[s] \in {"incr", "current", "timing"}
              PROVE  mu'[JobOf[s]] = s
  BY DEF LockInv
<1>. USE DEF TypeOK, LockInv
<1>1. CASE UNCHANGED vars
  BY <1>1 DEF vars, barVars
<1>2. CASE MainStep \/ Exit \/ ProvisionSpace \/ RunIdler \/ Terminated
  <2>1. CASE \E j \in Job : StartRoutines(j)
    BY <2>1 DEF StartRoutines, barVars
  <2>. QED
    BY <1>2, <2>1 DEF MainStep, Launch, SubgroupWait, WgWait, Report, Exit, ProvisionSpace,
                      RunIdler, Terminated, vars, barVars
<1>3. ASSUME NEW r \in Routine, RoutineStep(r) \/ CallFails(r) \/ WaitFails(r)
      PROVE  mu'[JobOf[s]] = s
  <2>. USE <1>3 DEF Transition, FirstStep
  <2>1. CASE NewClient(r) \/ CreateSignup(r) \/ SignupReady(r) \/ UserReady(r)
               \/ ApplyChange(r) \/ SubgroupDone(r) \/ CallFails(r) \/ WaitFails(r) \/ BarIncr(r)
    BY <2>1 DEF NewClient, CreateSignup, SignupReady, UserReady, ApplyChange, SubgroupDone,
                CallFails, WaitFails, BarIncr, barVars
  <2>2. CASE IncrLock(r) \/ AddTimeLock(r)
    BY <2>2 DEF IncrLock, AddTimeLock
  <2>3. CASE BarCurrent(r) \/ AddTimeUnlock(r)
    BY <2>3 DEF BarCurrent, AddTimeUnlock
  <2>. QED
    BY <2>1, <2>2, <2>3 DEF RoutineStep
<1>. QED
  BY <1>1, <1>2, <1>3 DEF Next

(* The bar stays within its total.                                          *)
LEMMA BarStep == TypeOK /\ LockInv /\ BarInv /\ GroupInv /\ [Next]_vars => BarInv'
<1>. SUFFICES ASSUME TypeOK, LockInv, BarInv, GroupInv, [Next]_vars
              PROVE  BarInv'
  OBVIOUS
<1>. USE DEF TypeOK, BarInv, Working
<1>1. CASE UNCHANGED vars
  BY <1>1 DEF vars, barVars
<1>2. CASE MainStep \/ Exit \/ ProvisionSpace \/ RunIdler \/ Terminated
  <2>1. CASE \E j \in Job : StartRoutines(j)
    <3>1. \A r \in Routine : pc[r] = pc'[r] \/ (pc[r] = "off" /\ pc'[r] = "client")
      BY <2>1 DEF StartRoutines, GroupInv, RoutinesOf
    <3>. QED
      BY <2>1, <3>1 DEF StartRoutines, barVars
  <2>. QED
    BY <1>2, <2>1 DEF MainStep, Launch, SubgroupWait, WgWait, Report, Exit, ProvisionSpace,
                      RunIdler, Terminated, vars, barVars
<1>3. ASSUME NEW r \in Routine, RoutineStep(r) \/ CallFails(r) \/ WaitFails(r)
      PROVE  BarInv'
  <2>. USE <1>3 DEF Transition
  <2>1. CASE NewClient(r) \/ CreateSignup(r) \/ SignupReady(r) \/ UserReady(r) \/ ApplyChange(r)
    BY <2>1 DEF NewClient, CreateSignup, SignupReady, UserReady, ApplyChange, barVars
  <2>2. CASE SubgroupDone(r) \/ CallFails(r) \/ WaitFails(r)
    BY <2>2 DEF SubgroupDone, CallFails, WaitFails, barVars
  <2>3. CASE IncrLock(r) \/ AddTimeLock(r) \/ AddTimeUnlock(r)
    BY <2>3 DEF IncrLock, AddTimeLock, AddTimeUnlock
  <2>4. CASE BarIncr(r)
    <3>1. \A s \in Routine \ {r} : pc[s] = "current" => JobOf[s] # JobOf[r]
      BY <2>4 DEF BarIncr, LockInv
    <3>. DEFINE j == JobOf[r]
                left == current[j] + 1 <= Total[j]
    <3>2. /\ pc[r] = "incr" /\ pc' = [pc EXCEPT ![r] = "current"]
          /\ hasMore' = [hasMore EXCEPT ![r] = left]
          /\ current' = IF left THEN [current EXCEPT ![j] = current[j] + 1] ELSE current
          /\ curUserNum' = curUserNum
      BY <2>4 DEF BarIncr
    <3>3. \A k \in Job : current'[k] <= Total[k] /\ current'[k] >= current[k]
      BY <3>2
    <3>4. ASSUME NEW s \in Routine \ {r}
          PROVE  BarInv!2!(s)'
      <4>1. pc'[s] = pc[s] /\ curUserNum'[s] = curUserNum[s] /\ hasMore'[s] = hasMore[s]
        BY <3>2
      <4>2. pc[s] \in {"current", "fin", "ended"} => current'[JobOf[s]] = current[JobOf[s]]
        BY <3>1, <3>2
      <4>. QED
        BY <4>1, <4>2
    <3>5. pc'[r] = "current" /\ hasMore'[r] = left /\ (left => current'[j] # 0)
      BY <3>2
    <3>6. ~left => current'[j] = Total[j]
      BY <3>2
    <3>. QED
      BY <3>3, <3>4, <3>5, <3>6
  <2>5. CASE BarCurrent(r)
    BY <2>5 DEF BarCurrent, FirstStep
  <2>. QED
    BY <2>1, <2>2, <2>3, <2>4, <2>5 DEF RoutineStep
<1>. QED
  BY <1>1, <1>2, <1>3 DEF Next

(* A number is held by one routine or processed, and every number the bar   *)
(* has handed out is one of the two.                                        *)
LEMMA ShareStep == TypeOK /\ LockInv /\ BarInv /\ GroupInv /\ ShareInv /\ [Next]_vars => ShareInv'
<1>. SUFFICES ASSUME TypeOK, LockInv, BarInv, GroupInv, ShareInv, [Next]_vars
              PROVE  ShareInv'
  OBVIOUS
<1>0. \A r \in Routine : Held(r) \in Nat
  BY DEF Held, TypeOK
<1>1. CASE SameNumbers
  BY <1>1 DEF SameNumbers, ShareInv, RoutinesOf
<1>2. ASSUME NEW r \in Routine, TakeNumber(r)
      PROVE  ShareInv'
  <2>. DEFINE j == JobOf[r]
  <2>. USE DEF RoutinesOf
  <2>1. /\ j \in Job /\ current[j] \in Nat
        /\ \A k \in Job : current'[k] = IF k = j THEN current[j] + 1 ELSE current[k]
        /\ processed' = processed
        /\ \A s \in Routine : Held(s)' = IF s = r THEN current[j] + 1 ELSE Held(s)
        /\ Held(r) = 0
    BY <1>2 DEF TakeNumber, TypeOK
  <2>2. ASSUME NEW k \in Job
        PROVE  processed'[k] \subseteq 1..current'[k]
    <3>1. current[k] \in Nat /\ current'[k] \in Nat /\ current[k] <= current'[k]
      BY <2>1 DEF TypeOK
    <3>2. processed[k] \subseteq 1..current[k]
      BY DEF ShareInv
    <3>. QED
      BY <2>1, <3>1, <3>2
  <2>3. ASSUME NEW k \in Job, NEW n \in 1..current'[k]
        PROVE  n \in processed'[k] \/ \E s \in RoutinesOf(k) : Held(s)' = n
    <3>1. CASE k = j /\ n = current[j] + 1
      BY <2>1, <3>1
    <3>2. CASE ~(k = j /\ n = current[j] + 1)
      <4>1. n \in 1..current[k]
        BY <2>1, <3>2 DEF TypeOK
      <4>. QED
        BY <2>1, <4>1 DEF ShareInv
    <3>. QED
      BY <3>1, <3>2
  <2>4. ASSUME NEW s \in Routine, Held(s)' # 0
        PROVE  /\ Held(s)' \in 1..current'[JobOf[s]] \ processed'[JobOf[s]]
               /\ \A t \in Routine \ {s} : JobOf[t] = JobOf[s] => Held(t)' # Held(s)'
    BY <1>0, <2>1, <2>4 DEF ShareInv, TypeOK
  <2>. QED
    BY <2>2, <2>3, <2>4 DEF ShareInv
<1>3. ASSUME NEW r \in Routine, FinishNumber(r)
      PROVE  ShareInv'
  <2>. DEFINE j == JobOf[r]
  <2>. USE DEF RoutinesOf
  <2>1. /\ j \in Job /\ current' = current
        /\ \A k \in Job : processed'[k] = IF k = j THEN processed[j] \cup {Held(r)}
                                                   ELSE processed[k]
        /\ \A s \in Routine : Held(s)' = IF s = r THEN 0 ELSE Held(s)
        /\ Held(r) # 0
    BY <1>3 DEF FinishNumber, TypeOK
  <2>2. ASSUME NEW k \in Job
        PROVE  processed'[k] \subseteq 1..current'[k]
    BY <2>1 DEF ShareInv
  <2>3. ASSUME NEW k \in Job, NEW n \in 1..current'[k]
        PROVE  n \in processed'[k] \/ \E s \in RoutinesOf(k) : Held(s)' = n
    <3>1. n \in processed[k] \/ \E s \in RoutinesOf(k) : Held(s) = n
      BY <2>1 DEF ShareInv
    <3>2. CASE n \in processed[k]
      BY <2>1, <3>2
    <3>3. ASSUME NEW s \in RoutinesOf(k), Held(s) = n
          PROVE  n \in processed'[k] \/ \E t \in RoutinesOf(k) : Held(t)' = n
      <4>1. CASE s = r
        BY <2>1, <3>3, <4>1
      <4>2. CASE s # r
        BY <2>1, <3>3, <4>2
      <4>. QED
        BY <4>1, <4>2
    <3>. QED
      BY <3>1, <3>2, <3>3
  <2>4. ASSUME NEW s \in Routine, Held(s)' # 0
        PROVE  /\ Held(s)' \in 1..current'[JobOf[s]] \ processed'[JobOf[s]]
               /\ \A t \in Routine \ {s} : JobOf[t] = JobOf[s] => Held(t)' # Held(s)'
    BY <1>0, <2>1, <2>4 DEF ShareInv
  <2>. QED
    BY <2>2, <2>3, <2>4 DEF ShareInv
<1>. QED
  BY <1>1, <1>2, <1>3, StepKinds

-----------------------------------------------------------------------------
(* The wait groups.                                                         *)

LEMMA CountersFinite == /\ IsFiniteSet(Pending)
                        /\ \A j \in Job : IsFiniteSet(RoutinesOf(j)) /\ IsFiniteSet(Unfinished(j))
<1>1. Pending \subseteq Job
  BY DEF Pending
<1>2. \A j \in Job : RoutinesOf(j) \subseteq Routine /\ Unfinished(j) \subseteq Routine
  BY DEF RoutinesOf, Unfinished
<1>. QED
  BY <1>1, <1>2, FS_Subset

(* A routine that may call subgroup.Done is counted, a pool that may call   *)
(* parent.Done is counted: the counters do not become negative.             *)
LEMMA DoneIsCounted ==
  ASSUME TypeOK, GroupInv
  PROVE  /\ \A j \in Job : group[j] = "wait" => wg # 0
         /\ \A r \in Routine : pc[r] = "fin" =>
              group[JobOf[r]] = "wait" /\ r \in Unfinished(JobOf[r]) /\ subgroup[JobOf[r]] # 0
<1>1. ASSUME NEW j \in Job, group[j] = "wait"
      PROVE  wg # 0
  <2>1. j \in Pending
    BY <1>1 DEF Pending
  <2>. QED
    BY <2>1, CountersFinite, FS_EmptySet DEF GroupInv
<1>2. ASSUME NEW r \in Routine, pc[r] = "fin"
      PROVE  group[JobOf[r]] = "wait" /\ r \in Unfinished(JobOf[r]) /\ subgroup[JobOf[r]] # 0
  <2>1. JobOf[r] \in Job /\ r \in RoutinesOf(JobOf[r]) /\ r \in Unfinished(JobOf[r])
    BY <1>2 DEF Unfinished, RoutinesOf
  <2>2. group[JobOf[r]] = "wait"
    BY <1>2, <2>1 DEF GroupInv, TypeOK
  <2>. QED
    BY <2>1, <2>2, CountersFinite, FS_EmptySet DEF GroupInv
<1>. QED
  BY <1>1, <1>2

(* Steps of a routine between its start and its end.                        *)
LEMMA GroupsUnchanged ==
  ASSUME GroupInv, UNCHANGED <<wg, group, subgroup>>, main' = main,
         \A r \in Routine : /\ pc'[r] = "ended" <=> pc[r] = "ended"
                            /\ pc'[r] = "off" <=> pc[r] = "off"
  PROVE  GroupInv'
<1>1. Pending' = Pending /\ \A j \in Job : Unfinished(j)' = Unfinished(j)
  BY DEF Pending, Unfinished, RoutinesOf
<1>. QED
  BY <1>1 DEF GroupInv, RoutinesOf

(* The type invariant.                                                      *)
LEMMA TypeStep == TypeOK /\ GroupInv /\ [Next]_vars => TypeOK'
<1>. SUFFICES ASSUME TypeOK, GroupInv, [Next]_vars
              PROVE  TypeOK'
  OBVIOUS
<1>. USE DEF TypeOK, Positions, Working, barVars, mainVars, hostVars
<1>1. CASE UNCHANGED vars
  BY <1>1 DEF vars
<1>2. ASSUME NEW j \in Job, Launch(j) \/ StartRoutines(j) \/ SubgroupWait(j)
      PROVE  TypeOK'
  <2>1. CASE Launch(j)
    BY <2>1 DEF Launch
  <2>2. CASE StartRoutines(j)
    <3>1. Cardinality(RoutinesOf(j)) \in Nat
      BY CountersFinite, FS_CardinalityType
    <3>. QED
      BY <2>2, <3>1 DEF StartRoutines
  <2>3. CASE SubgroupWait(j)
    BY <2>3, DoneIsCounted DEF SubgroupWait
  <2>. QED
    BY <1>2, <2>1, <2>2, <2>3
<1>3. CASE WgWait \/ Report \/ Exit \/ ProvisionSpace \/ RunIdler \/ Terminated
  BY <1>3 DEF WgWait, Report, Exit, ProvisionSpace, RunIdler, Terminated, vars
<1>4. ASSUME NEW r \in Routine, RoutineStep(r) \/ CallFails(r) \/ WaitFails(r)
      PROVE  TypeOK'
  <2>. USE DEF Transition
  <2>1. CASE NewClient(r) \/ UserReady(r) \/ CallFails(r) \/ WaitFails(r)
    BY <2>1 DEF NewClient, UserReady, CallFails, WaitFails
  <2>2. CASE IncrLock(r)
    BY <2>2 DEF IncrLock
  <2>3. CASE AddTimeLock(r)
    BY <2>3 DEF AddTimeLock
  <2>4. CASE AddTimeUnlock(r)
    BY <2>4 DEF AddTimeUnlock
  <2>5. CASE BarIncr(r)
    <3>1. pc' \in [Routine -> Positions] /\ hasMore' \in [Routine -> BOOLEAN]
      BY <2>5 DEF BarIncr
    <3>2. current' \in [Job -> Nat]
      BY <2>5 DEF BarIncr
    <3>. QED
      BY <2>5, <3>1, <3>2 DEF BarIncr
  <2>6. CASE BarCurrent(r)
    BY <2>6 DEF BarCurrent, FirstStep
  <2>7. CASE SubgroupDone(r)
    <3>1. JobOf[r] \in Job /\ subgroup[JobOf[r]] \in Nat \ {0}
      BY <2>7, DoneIsCounted DEF SubgroupDone
    <3>2. subgroup' = [subgroup EXCEPT ![JobOf[r]] = subgroup[JobOf[r]] - 1]
      BY <2>7 DEF SubgroupDone
    <3>3. subgroup[JobOf[r]] - 1 \in Nat
      BY <3>1
    <3>4. subgroup' \in [Job -> Nat]
      BY <3>1, <3>2, <3>3, Zenon
    <3>. QED
      BY <2>7, <3>4 DEF SubgroupDone
  <2>8. CASE SignupReady(r)
    <3>1. processed' \in [Job -> SUBSET Nat]
      BY <2>8 DEF SignupReady, Finish
    <3>. QED
      BY <2>8, <3>1 DEF SignupReady
  <2>9. CASE ApplyChange(r)
    <3>1. processed' \in [Job -> SUBSET Nat]
      BY <2>9 DEF ApplyChange, Finish
    <3>. QED
      BY <2>9, <3>1 DEF ApplyChange
  <2>10. CASE CreateSignup(r)
    <3>1. curUserNum[r] \in Nat /\ signups' = signups \cup {curUserNum[r]}
      BY <2>10 DEF CreateSignup
    <3>2. signups' \subseteq Nat /\ spaces \subseteq signups' /\ idlers \subseteq signups'
      BY <3>1
    <3>. QED
      BY <2>10, <3>2 DEF CreateSignup
  <2>. QED
    BY <1>4, <2>1, <2>2, <2>3, <2>4, <2>5, <2>6, <2>7, <2>8, <2>9, <2>10 DEF RoutineStep
<1>. QED
  BY <1>1, <1>2, <1>3, <1>4 DEF Next, MainStep

(* The counters keep counting the pools and the routines that are not done. *)
LEMMA GroupStep == TypeOK /\ GroupInv /\ [Next]_vars => GroupInv'
<1>. SUFFICES ASSUME TypeOK, GroupInv, [Next]_vars
              PROVE  GroupInv'
  OBVIOUS
<1>1. CASE UNCHANGED vars
  BY <1>1, GroupsUnchanged DEF vars, mainVars
<1>2. CASE Report \/ Exit \/ ProvisionSpace \/ RunIdler \/ Terminated
  <2>1. UNCHANGED <<wg, group, subgroup, pc>> /\ (main' = "launch" <=> main = "launch")
    BY <1>2 DEF Report, Exit, ProvisionSpace, RunIdler, Terminated, vars, mainVars
  <2>2. Pending' = Pending /\ \A j \in Job : Unfinished(j)' = Unfinished(j)
    BY <2>1 DEF Pending, Unfinished, RoutinesOf
  <2>. QED
    BY <2>1, <2>2 DEF GroupInv
<1>3. CASE WgWait
  <2>1. UNCHANGED <<wg, group, subgroup, pc>> /\ wg = 0 /\ \A j \in Job : group[j] # "off"
    BY <1>3 DEF WgWait
  <2>2. Pending = {}
    BY <2>1, CountersFinite, FS_EmptySet DEF GroupInv
  <2>3. \A j \in Job : group[j] = "done"
    BY <2>1, <2>2 DEF Pending, TypeOK
  <2>4. Pending' = Pending /\ \A j \in Job : Unfinished(j)' = Unfinished(j)
    BY <2>1 DEF Pending, Unfinished, RoutinesOf
  <2>. QED
    BY <2>1, <2>3, <2>4 DEF GroupInv
<1>4. ASSUME NEW j \in Job, Launch(j)
      PROVE  GroupInv'
  <2>1. /\ main' = main /\ main = "launch" /\ wg' = wg + 1 /\ UNCHANGED <<subgroup, pc>>
        /\ group[j] = "off" /\ group' = [group EXCEPT ![j] = "start"]
    BY <1>4 DEF Launch
  <2>2. Pending' = Pending \cup {j} /\ j \notin Pending
    BY <2>1 DEF Pending, TypeOK
  <2>3. wg' = Cardinality(Pending')
    BY <2>1, <2>2, CountersFinite, FS_AddElement DEF GroupInv
  <2>4. \A k \in Job : Unfinished(k)' = Unfinished(k)
    BY <2>1 DEF Unfinished, RoutinesOf
  <2>. QED
    BY <2>1, <2>3, <2>4 DEF GroupInv, TypeOK
<1>5. ASSUME NEW j \in Job, StartRoutines(j)
      PROVE  GroupInv'
  <2>1. /\ group[j] = "start" /\ group' = [group EXCEPT ![j] = "wait"]
        /\ subgroup' = [subgroup EXCEPT ![j] = Cardinality(RoutinesOf(j))]
        /\ pc' = [r \in Routine |-> IF JobOf[r] = j THEN "client" ELSE pc[r]]
        /\ UNCHANGED <<main, wg>>
    BY <1>5 DEF StartRoutines
  <2>2. Pending' = Pending
    BY <2>1 DEF Pending, TypeOK
  <2>3. Unfinished(j)' = RoutinesOf(j)
    BY <2>1 DEF Unfinished, RoutinesOf
  <2>4. \A k \in Job \ {j} : Unfinished(k)' = Unfinished(k)
    BY <2>1 DEF Unfinished, RoutinesOf
  <2>. QED
    BY <2>1, <2>2, <2>3, <2>4 DEF GroupInv, TypeOK, RoutinesOf
<1>6. ASSUME NEW j \in Job, SubgroupWait(j)
      PROVE  GroupInv'
  <2>1. /\ group[j] = "wait" /\ subgroup[j] = 0 /\ group' = [group EXCEPT ![j] = "done"]
        /\ wg' = wg - 1 /\ UNCHANGED <<main, subgroup, pc>>
    BY <1>6 DEF SubgroupWait
  <2>2. Pending' = Pending \ {j} /\ j \in Pending
    BY <2>1 DEF Pending, TypeOK
  <2>3. wg' = Cardinality(Pending')
    BY <2>1, <2>2, CountersFinite, FS_RemoveElement DEF GroupInv
  <2>4. \A k \in Job : Unfinished(k)' = Unfinished(k)
    BY <2>1 DEF Unfinished, RoutinesOf
  <2>5. Unfinished(j) = {}
    BY <2>1, CountersFinite, FS_EmptySet DEF GroupInv
  <2>. QED
    BY <2>1, <2>3, <2>4, <2>5 DEF GroupInv, TypeOK, RoutinesOf
<1>7. ASSUME NEW r \in Routine, SubgroupDone(r)
      PROVE  GroupInv'
  <2>. DEFINE j == JobOf[r]
  <2>1. /\ pc[r] = "fin" /\ pc' = [pc EXCEPT ![r] = "ended"]
        /\ subgroup' = [subgroup EXCEPT ![j] = subgroup[j] - 1]
        /\ UNCHANGED <<main, wg, group>>
    BY <1>7 DEF SubgroupDone, Transition, TypeOK
  <2>2. group[j] = "wait" /\ r \in Unfinished(j) /\ j \in Job
    BY <2>1, DoneIsCounted
  <2>3. Unfinished(j)' = Unfinished(j) \ {r}
    BY <2>1 DEF Unfinished, RoutinesOf, TypeOK
  <2>4. \A k \in Job \ {j} : Unfinished(k)' = Unfinished(k)
    BY <2>1 DEF Unfinished, RoutinesOf, TypeOK
  <2>5. Pending' = Pending
    BY <2>1 DEF Pending
  <2>6. subgroup'[j] = Cardinality(Unfinished(j)')
    <3>1. subgroup'[j] = Cardinality(Unfinished(j)) - 1
      BY <2>1, <2>2 DEF GroupInv, TypeOK
    <3>2. Cardinality(Unfinished(j) \ {r}) = Cardinality(Unfinished(j)) - 1
      BY <2>2, CountersFinite, FS_RemoveElement
    <3>. QED
      BY <2>3, <3>1, <3>2
  <2>. QED
    BY <2>1, <2>2, <2>4, <2>5, <2>6 DEF GroupInv, TypeOK, RoutinesOf
<1>8. ASSUME NEW r \in Routine,
             NewClient(r) \/ IncrLock(r) \/ BarIncr(r) \/ BarCurrent(r) \/ CreateSignup(r)
               \/ SignupReady(r) \/ UserReady(r) \/ ApplyChange(r) \/ AddTimeLock(r)
               \/ AddTimeUnlock(r) \/ CallFails(r) \/ WaitFails(r)
      PROVE  GroupInv'
  <2>1. UNCHANGED <<wg, group, subgroup, main>>
    BY <1>8 DEF NewClient, IncrLock, BarIncr, BarCurrent, CreateSignup, SignupReady, UserReady,
                ApplyChange, AddTimeLock, AddTimeUnlock, CallFails, WaitFails, mainVars
  <2>2. \E from, to \in Positions \ {"off", "ended"} : Transition(r, from, to)
    BY <1>8 DEF NewClient, IncrLock, BarIncr, BarCurrent, CreateSignup, SignupReady, UserReady,
                ApplyChange, AddTimeLock, AddTimeUnlock, CallFails, WaitFails, FirstStep,
                Positions, Working
  <2>. QED
    BY <2>1, <2>2, GroupsUnchanged DEF Transition, TypeOK
<1>. QED
  BY <1>1, <1>2, <1>3, <1>4, <1>5, <1>6, <1>7, <1>8 DEF Next, MainStep, RoutineStep

-----------------------------------------------------------------------------
(* The safety theorems.                                                     *)

LEMMA InitInv == Init => IInv
<1>. SUFFICES ASSUME Init
              PROVE  IInv
  OBVIOUS
<1>. USE DEF Init
<1>1. TypeOK
  BY DEF TypeOK, Positions
<1>2. LockInv /\ BarInv
  BY DEF LockInv, BarInv, Working
<1>3. GroupInv
  <2>1. Pending = {} /\ \A j \in Job : Unfinished(j) = RoutinesOf(j)
    BY DEF Pending, Unfinished, RoutinesOf
  <2>. QED
    BY <2>1, FS_EmptySet DEF GroupInv, RoutinesOf
<1>4. ShareInv
  BY DEF ShareInv, Held, Working, RoutinesOf
<1>. QED
  BY <1>1, <1>2, <1>3, <1>4 DEF IInv

(* IInv is an invariant of the pools.                                       *)
THEOREM Invariance == Spec => []IInv
<1>1. IInv /\ [Next]_vars => IInv'
  BY TypeStep, LockStep, BarStep, GroupStep, ShareStep DEF IInv
<1>. QED
  BY InitInv, <1>1, PTL DEF Spec

(* The variables keep the types of the program: in particular no counter of *)
(* a wait group becomes negative, which would be a panic.                   *)
THEOREM TypeCorrect == Spec => []TypeOK
<1>1. IInv => TypeOK
  BY DEF IInv
<1>. QED
  BY <1>1, Invariance, PTL

(* No user is handled twice, whatever the number of routines and users.     *)
THEOREM UserHandledOnce == Spec => []EachUserOnce
<1>1. IInv => EachUserOnce
  <2>. SUFFICES ASSUME IInv, NEW r \in Routine, pc[r] \in Working
                PROVE  /\ curUserNum[r] \notin processed[JobOf[r]]
                       /\ \A s \in RoutinesOf(JobOf[r]) \ {r} :
                            pc[s] \in Working => curUserNum[s] # curUserNum[r]
    BY DEF EachUserOnce
  <2>1. \A s \in Routine : pc[s] \in Working => Held(s) = curUserNum[s] /\ curUserNum[s] # 0
    BY DEF Held, Working, IInv, BarInv
  <2>. QED
    BY <2>1 DEF IInv, ShareInv, RoutinesOf
<1>. QED
  BY <1>1, Invariance, PTL

(* A job whose routines have all ended has handled all of its users.        *)
LEMMA EndedJobs ==
  ASSUME IInv, NEW j \in Job, Unfinished(j) = {}
  PROVE  processed[j] = 1..Total[j]
<1>1. \A r \in RoutinesOf(j) : pc[r] = "ended"
  BY DEF Unfinished
<1>2. current[j] = Total[j]
  BY <1>1 DEF IInv, BarInv, RoutinesOf
<1>3. \A r \in RoutinesOf(j) : Held(r) = 0
  BY <1>1 DEF Held, Working
<1>4. ASSUME NEW n \in 1..current[j]
      PROVE  n \in processed[j]
  BY <1>3 DEF IInv, ShareInv, TypeOK
<1>. QED
  BY <1>2, <1>4 DEF IInv, ShareInv

(* When main is past its wait group, every user of every job is handled.    *)
THEOREM NoUserLeftOut == Spec => []AllUsersSetUp
<1>1. IInv => AllUsersSetUp
  BY EndedJobs DEF IInv, GroupInv, AllUsersSetUp
<1>. QED
  BY <1>1, Invariance, PTL

-----------------------------------------------------------------------------
(* The sums of the bars.                                                    *)

LEMMA NumbersFinite ==
  ASSUME NEW n \in Nat
  PROVE  IsFiniteSet(1..n)
<1>1. 1 \in Int /\ n \in Int
  OBVIOUS
<1>. QED
  BY ONLY <1>1, FS_Interval

LEMMA SumsFinite ==
  ASSUME TypeOK, ShareInv, NEW j \in Job
  PROVE  IsFiniteSet(Adding(j)) /\ IsFiniteSet(processed[j])
<1>1. Adding(j) \subseteq Routine
  BY DEF Adding, RoutinesOf
<1>2. processed[j] \subseteq 1..current[j] /\ current[j] \in Nat
  BY DEF ShareInv, TypeOK
<1>3. IsFiniteSet(1..current[j])
  BY <1>2, NumbersFinite
<1>. QED
  BY <1>1, <1>2, <1>3, FS_Subset

(* A step that changes no sum and no history keeps TimeInv when it moves no *)
(* routine in or out of AddTimeSpent.                                       *)
LEMMA SumsUnchanged ==
  ASSUME TypeOK, TimeInv, UNCHANGED <<timeSpent, seen, processed, reported>>,
         main' = "done" <=> main = "done",
         \A r \in Routine : /\ pc'[r] \in {"time", "timing"} <=> pc[r] \in {"time", "timing"}
                            /\ pc'[r] = "timing" => pc[r] = "timing"
  PROVE  TimeInv'
<1>1. \A j \in Job : Adding(j)' = Adding(j)
  BY DEF Adding, RoutinesOf
<1>2. NoTimeLost'
  BY DEF TimeInv, NoTimeLost
<1>. QED
  BY <1>1, <1>2 DEF TimeInv

(* Every user's time is added once, by the routine that handled the user.   *)
LEMMA TimeStep == IInv /\ TimeInv /\ [Next]_vars => TimeInv'
<1>. SUFFICES ASSUME IInv, TimeInv, [Next]_vars
              PROVE  TimeInv'
  OBVIOUS
<1>0. TypeOK /\ LockInv /\ GroupInv /\ ShareInv
  BY DEF IInv
<1>1. CASE \/ UNCHANGED vars
           \/ WgWait \/ Exit \/ ProvisionSpace \/ RunIdler \/ Terminated
           \/ \E j \in Job : Launch(j) \/ SubgroupWait(j)
  BY <1>0, <1>1, SumsUnchanged
     DEF vars, mainVars, barVars, WgWait, Exit, ProvisionSpace, RunIdler, Terminated, Launch,
         SubgroupWait
<1>2. ASSUME NEW j \in Job, StartRoutines(j)
      PROVE  TimeInv'
  <2>1. \A r \in Routine : pc[r] = pc'[r] \/ (pc[r] = "off" /\ pc'[r] = "client")
    BY <1>0, <1>2 DEF StartRoutines, GroupInv, RoutinesOf
  <2>. QED
    BY <1>0, <1>2, <2>1, SumsUnchanged DEF StartRoutines, barVars
<1>3. CASE Report
  <2>1. /\ main = "report" /\ reported' = timeSpent
        /\ UNCHANGED <<pc, timeSpent, seen, processed>>
    BY <1>3 DEF Report, barVars
  <2>2. ASSUME NEW j \in Job
        PROVE  timeSpent[j] = Total[j]
    <3>1. Unfinished(j) = {}
      BY <1>0, <2>1 DEF GroupInv
    <3>2. processed[j] = 1..Total[j] /\ Total[j] \in Nat
      BY <3>1, EndedJobs
    <3>3. Cardinality(processed[j]) = Total[j]
      BY <3>2, FS_Interval
    <3>4. Cardinality(Adding(j)) = 0
      BY <3>1, FS_EmptySet DEF Unfinished, Adding
    <3>. QED
      BY <1>0, <3>2, <3>3, <3>4 DEF TimeInv, TypeOK
  <2>3. \A j \in Job : Adding(j)' = Adding(j)
    BY <2>1 DEF Adding, RoutinesOf
  <2>. QED
    BY <2>1, <2>2, <2>3 DEF TimeInv, NoTimeLost
<1>4. ASSUME NEW r \in Routine,
             NewClient(r) \/ IncrLock(r) \/ BarIncr(r) \/ BarCurrent(r) \/ CreateSignup(r)
               \/ UserReady(r) \/ SubgroupDone(r) \/ CallFails(r) \/ WaitFails(r)
      PROVE  TimeInv'
  <2>1. UNCHANGED <<timeSpent, seen, processed, reported, main>>
    BY <1>4 DEF NewClient, IncrLock, BarIncr, BarCurrent, CreateSignup, UserReady, SubgroupDone,
                CallFails, WaitFails, mainVars, barVars
  <2>2. \E from, to \in Positions \ {"time", "timing"} : Transition(r, from, to)
    BY <1>4 DEF NewClient, IncrLock, BarIncr, BarCurrent, CreateSignup, UserReady, SubgroupDone,
                CallFails, WaitFails, FirstStep, Positions, Working
  <2>. QED
    BY <1>0, <2>1, <2>2, SumsUnchanged DEF Transition, TypeOK
<1>5. ASSUME NEW r \in Routine, SignupReady(r) \/ ApplyChange(r)
      PROVE  TimeInv'
  <2>. DEFINE j == JobOf[r]
  <2>1. /\ pc[r] \in Working /\ pc' = [pc EXCEPT ![r] = "time"]
        /\ processed' = [processed EXCEPT ![j] = @ \cup {curUserNum[r]}]
        /\ UNCHANGED <<timeSpent, seen, reported, main>>
    BY <1>5 DEF SignupReady, ApplyChange, Finish, Transition, Working, barVars, mainVars
  <2>2. curUserNum[r] \notin processed[j] /\ j \in Job
    <3>1. Held(r) = curUserNum[r] /\ curUserNum[r] # 0
      BY <2>1 DEF Held, IInv, BarInv, Working
    <3>. QED
      BY <1>0, <3>1 DEF ShareInv
  <2>3. Adding(j)' = Adding(j) \cup {r} /\ r \notin Adding(j)
    BY <1>0, <2>1 DEF Adding, RoutinesOf, TypeOK, Working
  <2>4. /\ Cardinality(Adding(j)') = Cardinality(Adding(j)) + 1
        /\ Cardinality(processed'[j]) = Cardinality(processed[j]) + 1
    <3>1. processed'[j] = processed[j] \cup {curUserNum[r]}
      BY <1>0, <2>1, <2>2 DEF TypeOK
    <3>. QED
      BY <1>0, <2>2, <2>3, <3>1, SumsFinite, FS_AddElement
  <2>5. timeSpent[j] + Cardinality(Adding(j)') = Cardinality(processed'[j])
    <3>1. Cardinality(Adding(j)) \in Nat /\ timeSpent[j] \in Nat
      BY <1>0, <2>2, SumsFinite, FS_CardinalityType DEF TypeOK
    <3>2. timeSpent[j] + Cardinality(Adding(j)) = Cardinality(processed[j])
      BY <2>2 DEF TimeInv
    <3>. QED
      BY <2>4, <3>1, <3>2
  <2>6. \A k \in Job \ {j} : Adding(k)' = Adding(k) /\ processed'[k] = processed[k]
    BY <1>0, <2>1 DEF Adding, RoutinesOf, TypeOK
  <2>7. \A s \in Routine : pc'[s] = "timing" => pc[s] = "timing"
    BY <1>0, <2>1 DEF TypeOK
  <2>. QED
    BY <2>1, <2>5, <2>6, <2>7 DEF TimeInv, NoTimeLost
<1>6. ASSUME NEW r \in Routine, AddTimeLock(r)
      PROVE  TimeInv'
  <2>1. /\ pc[r] = "time" /\ pc' = [pc EXCEPT ![r] = "timing"]
        /\ seen' = [seen EXCEPT ![r] = timeSpent[JobOf[r]]]
        /\ UNCHANGED <<timeSpent, processed, reported, main>>
    BY <1>6 DEF AddTimeLock, Transition, mainVars
  <2>2. \A j \in Job : Adding(j)' = Adding(j)
    BY <1>0, <2>1 DEF Adding, RoutinesOf, TypeOK
  <2>. QED
    BY <1>0, <2>1, <2>2 DEF TimeInv, NoTimeLost, TypeOK
<1>7. ASSUME NEW r \in Routine, AddTimeUnlock(r)
      PROVE  TimeInv'
  <2>. DEFINE j == JobOf[r]
  <2>1. /\ pc[r] = "timing" /\ pc' = [pc EXCEPT ![r] = "lock"]
        /\ timeSpent' = [timeSpent EXCEPT ![j] = seen[r] + 1]
        /\ UNCHANGED <<seen, processed, reported, main>>
    BY <1>7 DEF AddTimeUnlock, Transition, mainVars
  <2>2. seen[r] = timeSpent[j] /\ j \in Job /\ timeSpent[j] \in Nat
    BY <1>0, <2>1 DEF TimeInv, TypeOK
  <2>3. Adding(j)' = Adding(j) \ {r} /\ r \in Adding(j)
    BY <1>0, <2>1 DEF Adding, RoutinesOf, TypeOK
  <2>4. Cardinality(Adding(j)') = Cardinality(Adding(j)) - 1 /\ Cardinality(Adding(j)) \in Nat
    BY <1>0, <2>2, <2>3, SumsFinite, FS_RemoveElement, FS_CardinalityType
  <2>5. timeSpent'[j] = timeSpent[j] + 1
    BY <1>0, <2>1, <2>2 DEF TypeOK
  <2>6. timeSpent'[j] + Cardinality(Adding(j)') = Cardinality(processed[j])
    BY <2>2, <2>4, <2>5 DEF TimeInv
  <2>7. \A k \in Job \ {j} : Adding(k)' = Adding(k) /\ timeSpent'[k] = timeSpent[k]
    BY <1>0, <2>1 DEF Adding, RoutinesOf, TypeOK
  <2>8. ASSUME NEW s \in Routine, pc'[s] = "timing"
        PROVE  seen[s] = timeSpent'[JobOf[s]]
    <3>1. s # r /\ pc[s] = "timing"
      BY <1>0, <2>1, <2>8 DEF TypeOK
    <3>2. JobOf[s] # j
      BY <1>0, <2>1, <3>1 DEF LockInv
    <3>. QED
      BY <2>7, <3>1, <3>2 DEF TimeInv
  <2>. QED
    BY <2>1, <2>6, <2>7, <2>8 DEF TimeInv, NoTimeLost
<1>. QED
  BY <1>1, <1>2, <1>3, <1>4, <1>5, <1>6, <1>7 DEF Next, MainStep, RoutineStep

(* Once the command has its report, the sums in it are complete.            *)
THEOREM TimesComplete == Spec => []NoTimeLost
<1>1. Init => TimeInv
  <2>. SUFFICES ASSUME Init
                PROVE  TimeInv
    OBVIOUS
  <2>1. ASSUME NEW j \in Job
        PROVE  timeSpent[j] + Cardinality(Adding(j)) = Cardinality(processed[j])
    <3>1. Adding(j) = {} /\ processed[j] = {} /\ timeSpent[j] = 0
      BY DEF Init, Adding, RoutinesOf
    <3>2. Cardinality(Adding(j)) = 0 /\ Cardinality(processed[j]) = 0
      BY <3>1, FS_EmptySet, Zenon
    <3>. QED
      BY <3>1, <3>2
  <2>. QED
    BY <2>1 DEF Init, TimeInv, NoTimeLost
<1>2. TimeInv => NoTimeLost
  BY DEF TimeInv
<1>. QED
  BY <1>1, <1>2, TimeStep, Invariance, PTL DEF Spec

-----------------------------------------------------------------------------
(* The operators and the jobs that wait for them.                           *)

LEMMA ReadyStep == TypeOK /\ ReadyInv /\ [Next]_vars => ReadyInv'
<1>. SUFFICES ASSUME TypeOK, ReadyInv, [Next]_vars
              PROVE  ReadyInv'
  OBVIOUS
<1>. USE DEF TypeOK
<1>1. \A j \in Job : ReadyFor(j) \subseteq ReadyFor(j)'
  BY DEF Next, MainStep, Launch, StartRoutines, SubgroupWait, WgWait, Report, RoutineStep,
         NewClient, IncrLock, BarIncr, BarCurrent, CreateSignup, SignupReady, UserReady,
         ApplyChange, AddTimeLock, AddTimeUnlock, SubgroupDone, CallFails, WaitFails, Exit,
         ProvisionSpace, RunIdler, Terminated, vars, hostVars, ReadyFor
<1>2. CASE \/ UNCHANGED vars \/ MainStep
           \/ Exit \/ ProvisionSpace \/ RunIdler \/ Terminated
  <2>1. processed' = processed /\ curUserNum' = curUserNum
    BY <1>2 DEF MainStep, Launch, StartRoutines, SubgroupWait, WgWait, Report, Exit,
                ProvisionSpace, RunIdler, Terminated, vars, barVars
  <2>2. \A r \in Routine : pc'[r] = "apply" => pc[r] = "apply"
    BY <1>2 DEF MainStep, Launch, StartRoutines, SubgroupWait, WgWait, Report, Exit,
                ProvisionSpace, RunIdler, Terminated, vars
  <2>. QED
    BY <1>1, <2>1, <2>2 DEF ReadyInv, NothingBeforeReady
<1>3. ASSUME NEW r \in Routine,
             NewClient(r) \/ IncrLock(r) \/ BarIncr(r) \/ BarCurrent(r) \/ CreateSignup(r)
               \/ AddTimeLock(r) \/ AddTimeUnlock(r) \/ SubgroupDone(r)
               \/ CallFails(r) \/ WaitFails(r)
      PROVE  ReadyInv'
  <2>1. processed' = processed /\ \A s \in Routine \ {r} : curUserNum'[s] = curUserNum[s]
    BY <1>3 DEF NewClient, IncrLock, BarIncr, BarCurrent, CreateSignup, AddTimeLock,
                AddTimeUnlock, SubgroupDone, CallFails, WaitFails, barVars
  <2>2. \E from, to \in Positions : to # "apply" /\ Transition(r, from, to)
    BY <1>3 DEF NewClient, IncrLock, BarIncr, BarCurrent, CreateSignup, AddTimeLock,
                AddTimeUnlock, SubgroupDone, CallFails, WaitFails, FirstStep, Positions, Working
  <2>3. \A s \in Routine : pc'[s] = "apply" => pc[s] = "apply" /\ s # r
    BY <2>2 DEF Transition
  <2>. QED
    BY <1>1, <2>1, <2>3 DEF ReadyInv, NothingBeforeReady
<1>4. ASSUME NEW r \in Routine, UserReady(r)
      PROVE  ReadyInv'
  <2>1. /\ pc' = [pc EXCEPT ![r] = "apply"] /\ curUserNum[r] \in ReadyFor(JobOf[r])
        /\ processed' = processed /\ curUserNum' = curUserNum
    BY <1>4 DEF UserReady, Transition, barVars
  <2>. QED
    BY <1>1, <2>1 DEF ReadyInv, NothingBeforeReady
<1>5. ASSUME NEW r \in Routine, SignupReady(r) \/ ApplyChange(r)
      PROVE  ReadyInv'
  <2>1. /\ pc' = [pc EXCEPT ![r] = "time"] /\ curUserNum[r] \in ReadyFor(JobOf[r])
        /\ processed' = [processed EXCEPT ![JobOf[r]] = @ \cup {curUserNum[r]}]
        /\ curUserNum' = curUserNum
    BY <1>5 DEF SignupReady, ApplyChange, Finish, Transition, barVars, ReadyInv
  <2>2. \A j \in Job : processed'[j] \subseteq processed[j] \cup
                         (IF j = JobOf[r] THEN {curUserNum[r]} ELSE {})
    BY <2>1
  <2>. QED
    BY <1>1, <2>1, <2>2 DEF ReadyInv, NothingBeforeReady
<1>. QED
  BY <1>2, <1>3, <1>4, <1>5 DEF Next, RoutineStep

(* No job changes anything for a user who is not ready.                     *)
THEOREM NobodyOvertaken == Spec => []NothingBeforeReady
<1>1. Init => ReadyInv
  BY DEF Init, ReadyInv, NothingBeforeReady
<1>2. ReadyInv => NothingBeforeReady
  BY DEF ReadyInv
<1>. QED
  BY <1>1, <1>2, ReadyStep, TypeCorrect, PTL DEF Spec

-----------------------------------------------------------------------------
(* The pools implement WorkSharing.                                         *)

(* Every behaviour of the pools is one of the abstract sharing of numbers.  *)
THEOREM PoolsShareWork == Spec => SharesWork
<1>. DEFINE todo    == [j \in Job |-> (current[j] + 1)..Total[j]]
            held    == [r \in Routine |-> Held(r)]
            over    == main # "launch"
<1>1. Init => Sharing!Init
  BY DEF Init, Sharing!Init, Held, Working
<1>2. IInv /\ [Next]_vars => [Sharing!Next]_(Sharing!workVars)
  <2>. SUFFICES ASSUME IInv, [Next]_vars
                PROVE  Sharing!Next \/ UNCHANGED Sharing!workVars
    OBVIOUS
  <2>1. CASE WgWait
    <3>1. UNCHANGED <<current, processed, pc, hasMore, curUserNum, group>> /\ wg = 0
          /\ main = "launch" /\ main' = "report" /\ \A j \in Job : group[j] # "off"
      BY <2>1 DEF WgWait, barVars
    <3>2. Pending = {}
      BY <3>1, CountersFinite, FS_EmptySet DEF IInv, GroupInv
    <3>3. \A j \in Job : processed[j] = 1..Total[j]
      BY <3>1, <3>2, EndedJobs DEF Pending, IInv, GroupInv, TypeOK
    <3>4. \A r \in Routine : Held(r)' = Held(r)
      BY <3>1 DEF Held
    <3>5. Sharing!GoOn
      BY <3>1, <3>3, <3>4 DEF Sharing!GoOn
    <3>. QED
      BY <3>5 DEF Sharing!Next
  <2>2. CASE ~WgWait
    <3>1. over' = over
      BY <2>2 DEF Next, MainStep, Launch, StartRoutines, SubgroupWait, Report, RoutineStep,
                  NewClient, IncrLock, BarIncr, BarCurrent, CreateSignup, SignupReady, UserReady,
                  ApplyChange, AddTimeLock, AddTimeUnlock, SubgroupDone, CallFails, WaitFails,
                  Exit, ProvisionSpace, RunIdler, Terminated, vars, mainVars
    <3>2. CASE SameNumbers
      BY <3>1, <3>2 DEF SameNumbers, Sharing!workVars
    <3>3. ASSUME NEW r \in Routine, TakeNumber(r)
          PROVE  Sharing!Take(r)
      <4>. DEFINE n == current[JobOf[r]] + 1
      <4>1. JobOf[r] \in Job /\ current[JobOf[r]] \in Nat /\ Total[JobOf[r]] \in Nat
            /\ n \in n..Total[JobOf[r]] /\ held[r] = 0
        BY <3>3 DEF TakeNumber, IInv, TypeOK
      <4>2. todo' = [todo EXCEPT ![JobOf[r]] = @ \ {n}]
        <5>1. \A k \in Job : current'[k] = IF k = JobOf[r] THEN n ELSE current[k]
          BY <3>3 DEF TakeNumber, IInv, TypeOK
        <5>2. ((n + 1)..Total[JobOf[r]]) = (n..Total[JobOf[r]]) \ {n}
          BY <4>1
        <5>. QED
          BY <5>1, <5>2, <4>1
      <4>3. held' = [held EXCEPT ![r] = n]
        BY <3>3 DEF TakeNumber
      <4>. QED
        BY <3>1, <3>3, <4>1, <4>2, <4>3 DEF TakeNumber, Sharing!Take
    <3>4. ASSUME NEW r \in Routine, FinishNumber(r)
          PROVE  Sharing!Handle(r)
      <4>1. todo' = todo /\ held[r] # 0
        BY <3>4 DEF FinishNumber
      <4>2. held' = [held EXCEPT ![r] = 0]
        BY <3>4 DEF FinishNumber
      <4>3. processed' = [processed EXCEPT ![JobOf[r]] = @ \cup {held[r]}]
        BY <3>4 DEF FinishNumber
      <4>. QED
        BY <3>1, <4>1, <4>2, <4>3 DEF Sharing!Handle
    <3>. QED
      BY <3>2, <3>3, <3>4, StepKinds DEF IInv, Sharing!Next
  <2>. QED
    BY <2>1, <2>2
<1>. QED
  BY <1>1, <1>2, Invariance, PTL DEF Spec, SharesWork, Sharing!Spec
=============================================================================
