----------------------------- MODULE CleanManager -----------------------------
(***************************************************************************)
(* The cleanup manager of testsupport/cleanup/clean.go: the tests of a     *)
(* package, which run in parallel, register the objects they create, and   *)
(* the tasks of a test run together in one goroutine each when the test is *)
(* over or when it asks for it with ExecuteAllCleanTasks.  One lock covers *)
(* the registry and is held while the tasks of a test run.                 *)
(***************************************************************************)
EXTENDS Naturals, FiniteSets

CONSTANTS Test,        (* the tests that run in parallel                     *)
          Task,        (* the cleaning tasks                                 *)
          Owner,       (* the test that registers the task                   *)
          Nobody,      (* a lock that is free                                *)
          MayFail      (* may a test, or a task, fail?                       *)

ASSUME ManagerAssumption == /\ IsFiniteSet(Task)
                            /\ Owner \in [Task -> Test]
                            /\ Nobody \notin Test
                            /\ MayFail \in BOOLEAN

VARIABLES pc,          (* where each test is                                 *)
          failed,      (* t.Failed()                                         *)
          cleanups,    (* t.Cleanup functions registered and not yet run     *)
          lock,        (* the test that holds the lock of the manager        *)
          cleanTasks,  (* the tasks registered for each test                 *)
          wg,          (* the wait group of the clean call of each test      *)
          task         (* what has become of each task                       *)

vars == <<pc, failed, cleanups, lock, cleanTasks, wg, task>>

Init == /\ pc = [t \in Test |-> "body"]
        /\ failed = [t \in Test |-> FALSE]
        /\ cleanups = [t \in Test |-> 0]
        /\ lock = Nobody
        /\ cleanTasks = [t \in Test |-> {}]
        /\ wg = [t \in Test |-> 0]
        /\ task = [k \in Task |-> "new"]

-----------------------------------------------------------------------------
(* The body of a test.                                                      *)

(* Faulty variant: the test of the registry is the wrong way round.         *)
AddCleanTaskInverted(t) ==
  /\ pc[t] = "body"
  /\ lock = Nobody
  /\ \E k \in Task :
       /\ Owner[k] = t /\ task[k] = "new"
       /\ cleanups' = IF cleanTasks[t] # {} THEN [cleanups EXCEPT ![t] = @ + 1] ELSE cleanups
       /\ cleanTasks' = [cleanTasks EXCEPT ![t] = @ \cup {k}]
       /\ task' = [task EXCEPT ![k] = "registered"]
  /\ UNCHANGED <<pc, failed, lock, wg>>

(* AddCleanTasks: the first task registered for a test, or the first since  *)
(* its tasks were executed, adds a function to t.Cleanup.                   *)
AddCleanTask(t) ==
  /\ pc[t] = "body"
  /\ lock = Nobody
  /\ \E k \in Task :
       /\ Owner[k] = t /\ task[k] = "new"
       /\ cleanups' = IF cleanTasks[t] = {} THEN [cleanups EXCEPT ![t] = @ + 1] ELSE cleanups
       /\ cleanTasks' = [cleanTasks EXCEPT ![t] = @ \cup {k}]
       /\ task' = [task EXCEPT ![k] = "registered"]
  /\ UNCHANGED <<pc, failed, lock, wg>>

(* The test fails and its body ends.                                        *)
TestFails(t) == /\ MayFail
                /\ pc[t] = "body"
                /\ failed' = [failed EXCEPT ![t] = TRUE]
                /\ pc' = [pc EXCEPT ![t] = "cleanup"]
                /\ UNCHANGED <<cleanups, lock, cleanTasks, wg, task>>

TestEnds(t) == /\ pc[t] = "body"
               /\ pc' = [pc EXCEPT ![t] = "cleanup"]
               /\ UNCHANGED <<failed, cleanups, lock, cleanTasks, wg, task>>

-----------------------------------------------------------------------------
(* cleanManager.clean, called from the body or as a t.Cleanup function.     *)

(* The tasks that run, none when the test has failed.  A task is a          *)
(* sync.Once: one that is through is not run again.                         *)
Launched(t) == IF failed[t] THEN {} ELSE {k \in cleanTasks[t] : task[k] = "registered"}

(* Faulty variant: clean registers itself with t.Cleanup again.             *)
CleanReregisters(t) ==
  /\ pc[t] = "body" \/ (pc[t] = "cleanup" /\ cleanups[t] > 0)
  /\ lock = Nobody
  /\ lock' = t
  /\ pc' = [pc EXCEPT ![t] = IF pc[t] = "body" THEN "execute" ELSE "clean"]
  /\ wg' = [wg EXCEPT ![t] = Cardinality(Launched(t))]
  /\ task' = [k \in Task |-> IF k \in Launched(t) THEN "running" ELSE task[k]]
  /\ UNCHANGED <<failed, cleanups, cleanTasks>>

(* The lock is taken and a goroutine started for each task of the test,     *)
(* unless the test has failed.                                              *)
Clean(t) ==
  /\ pc[t] = "body" \/ (pc[t] = "cleanup" /\ cleanups[t] > 0)
  /\ lock = Nobody
  /\ lock' = t
  /\ pc' = [pc EXCEPT ![t] = IF pc[t] = "body" THEN "execute" ELSE "clean"]
  /\ cleanups' = IF pc[t] = "body" THEN cleanups ELSE [cleanups EXCEPT ![t] = @ - 1]
  /\ wg' = [wg EXCEPT ![t] = Cardinality(Launched(t))]
  /\ task' = [k \in Task |-> IF k \in Launched(t) THEN "running" ELSE task[k]]
  /\ UNCHANGED <<failed, cleanTasks>>

(* A task of the test is through; the deferred Done comes also when a       *)
(* failed requirement ends its goroutine and fails the test.                *)
TaskEnds(k) ==
  LET t == Owner[k] IN
  /\ task[k] = "running"
  /\ \E ok \in {TRUE} \cup (IF MayFail THEN {FALSE} ELSE {}) :
       /\ task' = [task EXCEPT ![k] = IF ok THEN "cleaned" ELSE "left"]
       /\ failed' = IF ok THEN failed ELSE [failed EXCEPT ![t] = TRUE]
  /\ wg' = [wg EXCEPT ![t] = @ - 1]
  /\ UNCHANGED <<pc, cleanups, lock, cleanTasks>>

(* Faulty variant: the tasks are started and not waited for.                *)
CleanReturnsAtOnce(t) ==
  /\ pc[t] \in {"execute", "clean"}
  /\ cleanTasks' = [cleanTasks EXCEPT ![t] = {}]
  /\ lock' = Nobody
  /\ pc' = [pc EXCEPT ![t] = IF pc[t] = "execute" THEN "body" ELSE "cleanup"]
  /\ UNCHANGED <<failed, cleanups, wg, task>>

(* The wait group is down to zero, the tasks leave the registry and the     *)
(* deferred Unlock gives back the lock.                                     *)
CleanReturns(t) ==
  /\ pc[t] \in {"execute", "clean"}
  /\ wg[t] = 0
  /\ cleanTasks' = [cleanTasks EXCEPT ![t] = {}]
  /\ lock' = Nobody
  /\ pc' = [pc EXCEPT ![t] = IF pc[t] = "execute" THEN "body" ELSE "cleanup"]
  /\ UNCHANGED <<failed, cleanups, wg, task>>

(* All functions registered with t.Cleanup have run.                        *)
TestOver(t) == /\ pc[t] = "cleanup"
               /\ cleanups[t] = 0
               /\ pc' = [pc EXCEPT ![t] = "over"]
               /\ UNCHANGED <<failed, cleanups, lock, cleanTasks, wg, task>>

-----------------------------------------------------------------------------
Terminated == (\A t \in Test : pc[t] = "over") /\ UNCHANGED vars

Next == \/ \E t \in Test : \/ AddCleanTask(t)
                           \/ TestFails(t)
                           \/ TestEnds(t)
                           \/ Clean(t)
                           \/ CleanReturns(t)
                           \/ TestOver(t)
        \/ \E k \in Task : TaskEnds(k)
        \/ Terminated

Spec == Init /\ [][Next]_vars

(* A mutex that is free again and again is got in the end (Go's mutexes do  *)
(* not starve a goroutine); every body ends, it cannot execute the clean    *)
(* tasks forever; every task ends (CleanTask).                              *)
FairSpec == /\ Spec
            /\ \A t \in Test : /\ SF_vars(TestEnds(t))
                               /\ SF_vars(pc[t] = "cleanup" /\ Clean(t))
                               /\ WF_vars(CleanReturns(t))
                               /\ WF_vars(TestOver(t))
            /\ \A k \in Task : WF_vars(TaskEnds(k))

-----------------------------------------------------------------------------
(* Properties.                                                              *)

(* The variables have the types of the Go values they stand for.            *)
TypeOK == /\ pc \in [Test -> {"body", "execute", "cleanup", "clean", "over"}]
          /\ failed \in [Test -> BOOLEAN]
          /\ cleanups \in [Test -> Nat]
          /\ lock \in Test \cup {Nobody}
          /\ cleanTasks \in [Test -> SUBSET Task]
          /\ wg \in [Test -> Nat]
          /\ task \in [Task -> {"new", "registered", "running", "cleaned", "left"}]

(* A test that passed has had every object cleaned that it registered, no   *)
(* matter how registrations and clean calls alternate.                      *)
PassedMeansClean ==
  \A k \in Task : pc[Owner[k]] = "over" /\ ~failed[Owner[k]] => task[k] \in {"new", "cleaned"}

(* The objects of a failed test stay for those who look into the failure:   *)
(* no task starts after the test has failed.                                *)
FailedTestKept ==
  [][\A k \in Task : task[k] # "running" /\ task'[k] = "running" => ~failed[Owner[k]]]_vars

(* The tests do not disturb each other: the tasks that run belong to the    *)
(* test that holds the lock, and a test is not over while one of its tasks  *)
(* runs.                                                                    *)
TasksUnderLock ==
  \A k \in Task : task[k] = "running" => lock = Owner[k] /\ pc[Owner[k]] \in {"execute", "clean"}

(* Every test gets to its end: neither the lock nor a wait group is waited  *)
(* for forever.                                                             *)
TestsEnd == \A t \in Test : <>(pc[t] = "over")

-----------------------------------------------------------------------------
(* The inductive invariant behind the safety properties.                    *)

Running(t) == {k \in Task : Owner[k] = t /\ task[k] = "running"}

(* A test in a clean call holds the lock, its wait group counts its tasks   *)
(* that run, and no task runs for a test that is not in a clean call.       *)
LockInv == \A t \in Test :
             /\ pc[t] \in {"execute", "clean"} <=> lock = t
             /\ wg[t] = Cardinality(Running(t))
             /\ lock # t => Running(t) = {}

(* The registry holds the tasks of a test that are not through; as long as  *)
(* it holds one, a function registered with t.Cleanup will find it there.   *)
RegistryInv ==
  /\ \A t \in Test : \A k \in cleanTasks[t] : Owner[k] = t
  /\ \A k \in Task :
       LET t == Owner[k] IN
       /\ task[k] = "new" => k \notin cleanTasks[t]
       /\ task[k] = "registered" =>
            /\ ~failed[t] => k \in cleanTasks[t]
            /\ k \in cleanTasks[t] =>
                 /\ pc[t] \in {"execute", "clean"} => failed[t]
                 /\ pc[t] \in {"body", "cleanup"} => cleanups[t] > 0
            /\ pc[t] = "over" => failed[t]
       /\ task[k] = "running" => k \in cleanTasks[t]
       /\ task[k] \in {"cleaned", "left"} /\ k \in cleanTasks[t] =>
            pc[t] \in {"execute", "clean"}
       /\ task[k] = "left" => failed[t]

IInv == TypeOK /\ LockInv /\ RegistryInv
=============================================================================
