------------------------------ MODULE SetupJobs ------------------------------
(***************************************************************************)
(* The concurrent part of the setup command (setup/cmd/root.go): the main  *)
(* goroutine launches one pool of goroutines per job (user signups, idler  *)
(* updates, default and custom templates).  The routines of a pool share   *)
(* the job's progress bar, which hands out the user numbers: a routine     *)
(* asks the bar for the next number, handles that user, adds the time it   *)
(* took to the bar and asks again.  A pool is over when its subgroup       *)
(* counter is down to zero, main goes on when the counter of the pools is. *)
(*                                                                         *)
(* External: the host and member operators, which make the Space of a user *)
(* ready and its Idler running some time after the UserSignup was created; *)
(* uiprogress.Bar, whose Incr refuses to go past the bar's total.          *)
(***************************************************************************)
EXTENDS Naturals, FiniteSets

CONSTANTS Job,        (* the jobs that run: a skipped one is not in the set  *)
          SignupJob,  (* the job that creates the UserSignups                *)
          IdlerJob,   (* the job that updates the Idlers (may be skipped)    *)
          Routine,    (* the goroutines of all the pools                     *)
          JobOf,      (* the job a routine works for                         *)
          Total,      (* the total of each job's progress bar                *)
          Free,       (* a mutex nobody holds                                *)
          Faults      (* may calls to the cluster fail or time out?          *)

ASSUME JobsAssumption ==
         /\ IsFiniteSet(Job)
         /\ IsFiniteSet(Routine)
         /\ SignupJob \in Job
         /\ JobOf \in [Routine -> Job]
         /\ \A j \in Job : \E r \in Routine : JobOf[r] = j
         /\ Total \in [Job -> Nat]
         /\ Free \notin Routine
         /\ Faults \in BOOLEAN

VARIABLES main,       (* "launch": up to wg.Wait, then "report", "done"      *)
          wg,         (* the counter of the pools                            *)
          group,      (* the goroutine of splitToMultipleRoutines, per job   *)
          subgroup,   (* its counter of routines                             *)
          pc,         (* where each routine is                               *)
          hasMore,    (* what bar.Incr returned to the routine               *)
          curUserNum, (* the user number the routine works on                *)
          mu,         (* the holder of each bar's mutex                      *)
          current,    (* the bar's current value                             *)
          timeSpent,  (* the bar's sum of times, one unit per user           *)
          seen,       (* the sum a routine has read and will add to          *)
          reported,   (* the sums main puts into the results                 *)
          exited,     (* os.Exit(1) was reached                              *)
          signups,    (* the users with a UserSignup                         *)
          spaces,     (* the users whose Space is provisioned                *)
          idlers,     (* the users whose Idler is running                    *)
          processed   (* history: the users each job is finished with        *)

mainVars == <<main, wg, group, subgroup, reported>>
barVars  == <<hasMore, curUserNum, mu, current, timeSpent, seen>>
hostVars == <<signups, spaces, idlers>>
vars     == <<mainVars, pc, barVars, exited, hostVars, processed>>

RoutinesOf(j) == {r \in Routine : JobOf[r] = j}

(* What a routine does with a user: the signup job creates the UserSignup   *)
(* and then waits, the other jobs wait and then change something.           *)
FirstStep(j) == IF j = SignupJob THEN "create" ELSE "await"

(* The users an action of the job stops waiting for: getIdler polls for the *)
(* running Idler, the other actions poll for the provisioned Space.         *)
ReadyFor(j) == IF j = IdlerJob THEN idlers ELSE spaces

Transition(r, from, to) == /\ ~exited
                           /\ pc[r] = from
                           /\ pc' = [pc EXCEPT ![r] = to]

Init == /\ main = "launch"
        /\ wg = 0
        /\ group = [j \in Job |-> "off"]
        /\ subgroup = [j \in Job |-> 0]
        /\ pc = [r \in Routine |-> "off"]
        /\ hasMore = [r \in Routine |-> FALSE]
        /\ curUserNum = [r \in Routine |-> 0]
        /\ mu = [j \in Job |-> Free]
        /\ current = [j \in Job |-> 0]
        /\ timeSpent = [j \in Job |-> 0]
        /\ seen = [r \in Routine |-> 0]
        /\ reported = [j \in Job |-> 0]
        /\ exited = FALSE
        /\ signups = {}
        /\ spaces = {}
        /\ idlers = {}
        /\ processed = [j \in Job |-> {}]

-----------------------------------------------------------------------------
(* splitToMultipleRoutines and the main goroutine.  The order in which main *)
(* launches the jobs is left open.                                          *)

Launch(j) == /\ ~exited
             /\ main = "launch"
             /\ group[j] = "off"
             /\ wg' = wg + 1
             /\ group' = [group EXCEPT ![j] = "start"]
             /\ UNCHANGED <<main, subgroup, reported, pc, barVars, exited, hostVars, processed>>

StartRoutines(j) == /\ ~exited
                    /\ group[j] = "start"
                    /\ subgroup' = [subgroup EXCEPT ![j] = Cardinality(RoutinesOf(j))]
                    /\ pc' = [r \in Routine |-> IF JobOf[r] = j THEN "client" ELSE pc[r]]
                    /\ group' = [group EXCEPT ![j] = "wait"]
                    /\ UNCHANGED <<main, wg, reported, barVars, exited, hostVars, processed>>

(* Faulty variant: the pool's goroutine does not wait for its routines.     *)
SubgroupNoWait(j) ==
  /\ ~exited
  /\ group[j] = "wait"
  /\ wg' = wg - 1
  /\ group' = [group EXCEPT ![j] = "done"]
  /\ UNCHANGED <<main, subgroup, reported, pc, barVars, exited, hostVars, processed>>


SubgroupWait(j) == /\ ~exited
                   /\ group[j] = "wait"
                   /\ subgroup[j] = 0
                   /\ wg' = wg - 1
                   /\ group' = [group EXCEPT ![j] = "done"]
                   /\ UNCHANGED <<main, subgroup, reported, pc, barVars, exited, hostVars, processed>>

(* Faulty variant: main does not wait for the pools.                        *)
NoWgWait ==
  /\ ~exited
  /\ main = "launch"
  /\ \A j \in Job : group[j] # "off"
  /\ main' = "report"
  /\ UNCHANGED <<wg, group, subgroup, reported, pc, barVars, exited, hostVars, processed>>


WgWait == /\ ~exited
          /\ main = "launch"
          /\ \A j \in Job : group[j] # "off"
          /\ wg = 0
          /\ main' = "report"
          /\ UNCHANGED <<wg, group, subgroup, reported, pc, barVars, exited, hostVars, processed>>

(* main reads the sums of the bars without their mutexes.                   *)
Report == /\ ~exited
          /\ main = "report"
          /\ reported' = timeSpent
          /\ main' = "done"
          /\ UNCHANGED <<wg, group, subgroup, pc, barVars, exited, hostVars, processed>>

-----------------------------------------------------------------------------
(* userRoutine and userProgressBar.                                         *)

NewClient(r) == /\ Transition(r, "client", "lock")
                /\ UNCHANGED <<mainVars, barVars, exited, hostVars, processed>>

(* Faulty variant: Incr does not take the mutex.                            *)
IncrNoLock(r) == /\ Transition(r, "lock", "incr")
                 /\ UNCHANGED <<mainVars, barVars, exited, hostVars, processed>>


IncrLock(r) == /\ Transition(r, "lock", "incr")
               /\ mu[JobOf[r]] = Free
               /\ mu' = [mu EXCEPT ![JobOf[r]] = r]
               /\ UNCHANGED <<mainVars, hasMore, curUserNum, current, timeSpent, seen,
                              exited, hostVars, processed>>

(* uiprogress: Bar.Incr counts up to the total and then returns false.      *)
BarIncr(r) == /\ Transition(r, "incr", "current")
              /\ LET n == current[JobOf[r]] + 1
                     left == n <= Total[JobOf[r]]
                 IN  /\ hasMore' = [hasMore EXCEPT ![r] = left]
                     /\ current' = IF left THEN [current EXCEPT ![JobOf[r]] = n] ELSE current
              /\ UNCHANGED <<mainVars, curUserNum, mu, timeSpent, seen, exited, hostVars, processed>>

(* Bar.Current, the deferred Unlock and the loop's test.                    *)
BarCurrent(r) == /\ Transition(r, "current", IF hasMore[r] THEN FirstStep(JobOf[r]) ELSE "fin")
                 /\ curUserNum' = [curUserNum EXCEPT ![r] = current[JobOf[r]]]
                 /\ mu' = [mu EXCEPT ![JobOf[r]] = Free]
                 /\ UNCHANGED <<mainVars, hasMore, current, timeSpent, seen, exited, hostVars, processed>>

(* Faulty variant: AddTimeSpent does not take the mutex.                    *)
AddTimeNoLock(r) ==
  /\ Transition(r, "time", "timing")
  /\ seen' = [seen EXCEPT ![r] = timeSpent[JobOf[r]]]
  /\ UNCHANGED <<mainVars, hasMore, curUserNum, mu, current, timeSpent,
                 exited, hostVars, processed>>


AddTimeLock(r) == /\ Transition(r, "time", "timing")
                  /\ mu[JobOf[r]] = Free
                  /\ mu' = [mu EXCEPT ![JobOf[r]] = r]
                  /\ seen' = [seen EXCEPT ![r] = timeSpent[JobOf[r]]]
                  /\ UNCHANGED <<mainVars, hasMore, curUserNum, current, timeSpent,
                                 exited, hostVars, processed>>

(* Faulty variant: AddTimeSpent does not give the mutex back.               *)
AddTimeKeepsLock(r) == /\ Transition(r, "timing", "lock")
                       /\ timeSpent' = [timeSpent EXCEPT ![JobOf[r]] = seen[r] + 1]
                       /\ UNCHANGED <<mainVars, hasMore, curUserNum, mu, current, seen,
                                      exited, hostVars, processed>>

AddTimeUnlock(r) == /\ Transition(r, "timing", "lock")
                    /\ timeSpent' = [timeSpent EXCEPT ![JobOf[r]] = seen[r] + 1]
                    /\ mu' = [mu EXCEPT ![JobOf[r]] = Free]
                    /\ UNCHANGED <<mainVars, hasMore, curUserNum, current, seen,
                                   exited, hostVars, processed>>

(* Faulty variant: the routine ends without subgroup.Done.                  *)
NoSubgroupDone(r) == /\ Transition(r, "fin", "ended")
                     /\ UNCHANGED <<mainVars, barVars, exited, hostVars, processed>>


SubgroupDone(r) == /\ Transition(r, "fin", "ended")
                   /\ subgroup' = [subgroup EXCEPT ![JobOf[r]] = @ - 1]
                   /\ UNCHANGED <<main, wg, group, reported, barVars, exited, hostVars, processed>>

-----------------------------------------------------------------------------
(* The user actions.                                                        *)

Finish(r) == processed' = [processed EXCEPT ![JobOf[r]] = @ \cup {curUserNum[r]}]

(* users.Create.                                                            *)
CreateSignup(r) == /\ Transition(r, "create", "await")
                   /\ curUserNum[r] \notin signups
                   /\ signups' = signups \cup {curUserNum[r]}
                   /\ UNCHANGED <<mainVars, barVars, exited, spaces, idlers, processed>>

(* wait.ForSpace after users.Create: the end of the signup action.          *)
SignupReady(r) == /\ JobOf[r] = SignupJob
                  /\ Transition(r, "await", "time")
                  /\ curUserNum[r] \in ReadyFor(JobOf[r])
                  /\ Finish(r)
                  /\ UNCHANGED <<mainVars, barVars, exited, hostVars>>

(* wait.ForSpace or getIdler before the change of another job.              *)
UserReady(r) == /\ JobOf[r] # SignupJob
                /\ Transition(r, "await", "apply")
                /\ curUserNum[r] \in ReadyFor(JobOf[r])
                /\ UNCHANGED <<mainVars, barVars, exited, hostVars, processed>>

(* The update of the Idler, or the objects of the user's templates.         *)
ApplyChange(r) == /\ Transition(r, "apply", "time")
                  /\ Finish(r)
                  /\ UNCHANGED <<mainVars, barVars, exited, hostVars>>

(* A failed call ends in Fatalf.                                            *)
CallFails(r) == /\ Faults
                /\ \E at \in {"client", "create", "apply"} : Transition(r, at, "fatal")
                /\ UNCHANGED <<mainVars, barVars, exited, hostVars, processed>>

(* The poll runs into its timeout, or into an error other than NotFound.    *)
WaitFails(r) == /\ Faults
                /\ Transition(r, "await", "fatal")
                /\ UNCHANGED <<mainVars, barVars, exited, hostVars, processed>>

(* Fatalf: the hooks have run, os.Exit ends all goroutines.                 *)
Exit == /\ ~exited
        /\ \E r \in Routine : pc[r] = "fatal"
        /\ exited' = TRUE
        /\ UNCHANGED <<mainVars, pc, barVars, hostVars, processed>>

-----------------------------------------------------------------------------
(* The operators.                                                           *)

ProvisionSpace == \E u \in signups \ spaces :
                    /\ spaces' = spaces \cup {u}
                    /\ UNCHANGED <<mainVars, pc, barVars, exited, signups, idlers, processed>>

RunIdler == \E u \in signups \ idlers :
              /\ idlers' = idlers \cup {u}
              /\ UNCHANGED <<mainVars, pc, barVars, exited, signups, spaces, processed>>

(* The process is over: main has returned or the process has exited.        *)
Terminated == /\ exited \/ main = "done"
              /\ UNCHANGED vars

RoutineStep(r) == \/ NewClient(r)
                  \/ IncrLock(r)
                  \/ BarIncr(r)
                  \/ BarCurrent(r)
                  \/ CreateSignup(r)
                  \/ SignupReady(r)
                  \/ UserReady(r)
                  \/ ApplyChange(r)
                  \/ AddTimeLock(r)
                  \/ AddTimeUnlock(r)
                  \/ SubgroupDone(r)

MainStep == \/ \E j \in Job : Launch(j) \/ StartRoutines(j) \/ SubgroupWait(j)
            \/ WgWait
            \/ Report

Next == \/ MainStep
        \/ \E r \in Routine : RoutineStep(r) \/ CallFails(r) \/ WaitFails(r)
        \/ Exit
        \/ ProvisionSpace
        \/ RunIdler
        \/ Terminated

Spec == Init /\ [][Next]_vars

(* The Go scheduler runs every goroutine that can run.                      *)
Scheduling == /\ WF_vars(MainStep)
              /\ WF_vars(Exit)
              /\ \A r \in Routine : WF_vars(RoutineStep(r))

(* The operators get their work done.                                       *)
Operators == WF_vars(ProvisionSpace) /\ WF_vars(RunIdler)

(* A poll that is never satisfied times out.                                *)
Timeouts == \A r \in Routine : WF_vars(WaitFails(r))

TimeoutSpec == Spec /\ Scheduling /\ Timeouts

-----------------------------------------------------------------------------
(* Properties.                                                              *)

Working   == {"create", "await", "apply"}
Positions == Working \cup {"off", "client", "lock", "incr", "current", "time", "timing",
                           "fin", "ended", "fatal"}

(* The state variables have the types of the Go variables they stand for.   *)
TypeOK == /\ main \in {"launch", "report", "done"}
          /\ wg \in Nat
          /\ group \in [Job -> {"off", "start", "wait", "done"}]
          /\ subgroup \in [Job -> Nat]
          /\ pc \in [Routine -> Positions]
          /\ hasMore \in [Routine -> BOOLEAN]
          /\ curUserNum \in [Routine -> Nat]
          /\ mu \in [Job -> Routine \cup {Free}]
          /\ current \in [Job -> Nat]
          /\ timeSpent \in [Job -> Nat]
          /\ seen \in [Routine -> Nat]
          /\ reported \in [Job -> Nat]
          /\ exited \in BOOLEAN
          /\ signups \subseteq Nat
          /\ spaces \subseteq signups
          /\ idlers \subseteq signups
          /\ processed \in [Job -> SUBSET Nat]

(* No user is handled twice by a job: two routines of a pool never work on  *)
(* the same user, and none works on a user the job is already finished      *)
(* with.  This is what userProgressBar.Incr needs its mutex for.            *)
EachUserOnce ==
  \A r \in Routine : pc[r] \in Working =>
     /\ curUserNum[r] \notin processed[JobOf[r]]
     /\ \A s \in RoutinesOf(JobOf[r]) \ {r} :
           pc[s] \in Working => curUserNum[s] # curUserNum[r]

(* main gets past wg.Wait only when every job has handled all of its users: *)
(* no routine is left behind by the two levels of wait groups and no number *)
(* is skipped by the bar.                                                   *)
AllUsersSetUp == main # "launch" => \A j \in Job : processed[j] = 1..Total[j]

(* The averages main computes from the bars' sums lack no user's time: the  *)
(* sums are complete when they are read outside of their mutexes.           *)
NoTimeLost == main = "done" => \A j \in Job : reported[j] = Total[j]

(* A job changes nothing for a user whose Space (or Idler) is not there     *)
(* yet, although the pools of the jobs run ahead of each other: "the setup  *)
(* job can progress beyond the usersignup job" (create_resources.go).       *)
NothingBeforeReady == \A j \in Job : processed[j] \subseteq ReadyFor(j)

(* When the operators do their work and no call fails, the command gets to  *)
(* its report.                                                              *)
SetupCompletes ==
  Operators /\ [](\A r \in Routine : pc[r] # "fatal") => <>(main = "done")

(* Whatever fails, the command comes to an end: no goroutine waits forever  *)
(* for a mutex, a wait group or the operators.                              *)
SetupEnds == <>(exited \/ main = "done")

(* The pools implement the sharing of the user numbers.  A routine holds a  *)
(* number from bar.Incr on, before it has read it with bar.Current, and one *)
(* that ended in Fatalf keeps the number it was working on.                 *)
Held(r) == IF pc[r] = "current" /\ hasMore[r] THEN current[JobOf[r]]
           ELSE IF pc[r] \in Working \cup {"fatal"} THEN curUserNum[r]
           ELSE 0

Sharing == INSTANCE WorkSharing WITH
             todo    <- [j \in Job |-> (current[j] + 1)..Total[j]],
             held    <- [r \in Routine |-> Held(r)],
             handled <- processed,
             over    <- main # "launch"

(* Every behaviour of the pools is one of the abstract sharing of numbers.  *)
SharesWork == Sharing!Spec

-----------------------------------------------------------------------------
(* The inductive invariant behind the safety properties.                    *)

(* A routine between Lock and Unlock holds the mutex of its bar.            *)
LockInv == \A r \in Routine :
             pc[r] \in {"incr", "current", "timing"} => mu[JobOf[r]] = r

(* The bar stays within its total, a routine that was refused a number has  *)
(* seen it full, and only a routine that works on a user has a number.      *)
BarInv == /\ \A j \in Job : current[j] <= Total[j]
          /\ \A r \in Routine :
               /\ pc[r] = "current" /\ hasMore[r] => current[JobOf[r]] # 0
               /\ pc[r] = "current" /\ ~hasMore[r] => current[JobOf[r]] = Total[JobOf[r]]
               /\ pc[r] \in {"fin", "ended"} => current[JobOf[r]] = Total[JobOf[r]]
               /\ pc[r] \in {"off", "client"} => curUserNum[r] = 0
               /\ pc[r] \in Working => curUserNum[r] # 0

Unfinished(j) == {r \in RoutinesOf(j) : pc[r] # "ended"}
Pending       == {j \in Job : group[j] \in {"start", "wait"}}

(* The wait groups count the pools and the routines that are not done.      *)
GroupInv == /\ wg = Cardinality(Pending)
            /\ main # "launch" => \A j \in Job : group[j] = "done"
            /\ \A j \in Job :
                 /\ group[j] = "wait" => subgroup[j] = Cardinality(Unfinished(j))
                 /\ group[j] = "done" => Unfinished(j) = {}
                 /\ \A r \in RoutinesOf(j) :
                      group[j] \in {"off", "start"} <=> pc[r] = "off"

(* The numbers the bar has handed out are those the job is finished with    *)
(* and those its routines hold, and no number is both or held twice.        *)
ShareInv == /\ \A j \in Job :
                 /\ processed[j] \subseteq 1..current[j]
                 /\ \A n \in 1..current[j] :
                      n \in processed[j] \/ \E r \in RoutinesOf(j) : Held(r) = n
            /\ \A r \in Routine : Held(r) # 0 =>
                 /\ Held(r) \in 1..current[JobOf[r]] \ processed[JobOf[r]]
                 /\ \A s \in Routine \ {r} : JobOf[s] = JobOf[r] => Held(s) # Held(r)

(* The routines that are finished with a user and have not added the time.  *)
Adding(j) == {r \in RoutinesOf(j) : pc[r] \in {"time", "timing"}}

(* The sum of a bar lacks the times of these routines only, a routine that  *)
(* will write it has read its latest value, and main has read it in full.   *)
TimeInv == /\ \A j \in Job : timeSpent[j] + Cardinality(Adding(j)) = Cardinality(processed[j])
           /\ \A r \in Routine : pc[r] = "timing" => seen[r] = timeSpent[JobOf[r]]
           /\ NoTimeLost

(* A user an action has stopped waiting for stays ready.                    *)
ReadyInv == /\ NothingBeforeReady
            /\ \A r \in Routine : pc[r] = "apply" => curUserNum[r] \in ReadyFor(JobOf[r])

IInv == TypeOK /\ LockInv /\ BarInv /\ GroupInv /\ ShareInv
=============================================================================
