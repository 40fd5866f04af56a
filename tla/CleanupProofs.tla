---------------------------- MODULE CleanupProofs ----------------------------
(***************************************************************************)
(* Proofs about the two components of testsupport/cleanup.  The manager,   *)
(* for any number of tests and of tasks: its inductive invariant has two   *)
(* parts, the lock, with the tasks that run under it, and the registry,    *)
(* with what has become of the tasks in it.  A task, for any set of kinds  *)
(* of objects: the operators may create, delete and finalize dependents    *)
(* between any two steps of it, but none of them comes back once the       *)
(* object is gone.                                                         *)
(***************************************************************************)
EXTENDS CleanManager, CleanTask, FiniteSetTheorems, TLAPS

-----------------------------------------------------------------------------
(* The manager.                                                             *)

USE ManagerAssumption DEF ManagerAssumption

LEMMA TasksFinite == \A S \in SUBSET Task : IsFiniteSet(S) /\ Cardinality(S) \in Nat
  BY FS_Subset, FS_CardinalityType

LEMMA RunningFinite == \A t \in Test : IsFiniteSet(Running(t)) /\ Cardinality(Running(t)) \in Nat
<1>1. \A t \in Test : Running(t) \in SUBSET Task
  BY DEF Running
<1>. QED
  BY <1>1, TasksFinite

(* The wait group of a test with a task that runs is not down to zero.      *)
LEMMA RunningCounted ==
  ASSUME TypeOK, LockInv, NEW k \in Task, task[k] = "running"
  PROVE  /\ Owner[k] \in Test
         /\ k \in Running(Owner[k])
         /\ wg[Owner[k]] \in Nat \ {0}
         /\ lock = Owner[k]
         /\ pc[Owner[k]] \in {"execute", "clean"}
<1>1. Owner[k] \in Test /\ k \in Running(Owner[k])
  BY DEF Running
<1>2. Cardinality(Running(Owner[k])) # 0
  BY <1>1, RunningFinite, FS_EmptySet
<1>. QED
  BY <1>1, <1>2 DEF LockInv, TypeOK

(* A task in the registry waits to be cleaned when no clean call is active. *)
LEMMA RegisteredTasks ==
  ASSUME TypeOK, LockInv, RegistryInv, lock = Nobody, NEW t \in Test, NEW k \in cleanTasks[t]
  PROVE  k \in Task /\ Owner[k] = t /\ task[k] = "registered"
<1>1. k \in Task /\ Owner[k] = t
  BY DEF TypeOK, RegistryInv
<1>2. task[k] # "running"
  BY <1>1, RunningCounted
<1>3. pc[t] \notin {"execute", "clean"}
  BY DEF LockInv
<1>. QED
  BY <1>1, <1>2, <1>3 DEF RegistryInv, TypeOK

-----------------------------------------------------------------------------
(* The types.                                                               *)

LEMMA TypeStep == TypeOK /\ LockInv /\ [Next]_vars => TypeOK'
<1>. SUFFICES ASSUME TypeOK, LockInv, [Next]_vars
              PROVE  TypeOK'
  OBVIOUS
<1>. USE DEF TypeOK
<1>1. CASE UNCHANGED vars \/ Terminated
  BY <1>1 DEF Terminated, vars
<1>2. ASSUME NEW t \in Test,
             TestFails(t) \/ TestEnds(t) \/ CleanReturns(t) \/ TestOver(t)
      PROVE  TypeOK'
  <2>1. CASE TestFails(t) \/ TestEnds(t) \/ TestOver(t)
    BY <2>1 DEF TestFails, TestEnds, TestOver
  <2>2. CASE CleanReturns(t)
    BY <2>2 DEF CleanReturns
  <2>. QED
    BY <1>2, <2>1, <2>2
<1>5. ASSUME NEW t \in Test, AddCleanTask(t)
      PROVE  TypeOK'
  <2>1. PICK k \in Task :
          /\ cleanups' = IF cleanTasks[t] = {} THEN [cleanups EXCEPT ![t] = @ + 1] ELSE cleanups
          /\ cleanTasks' = [cleanTasks EXCEPT ![t] = @ \cup {k}]
          /\ task' = [task EXCEPT ![k] = "registered"]
    BY <1>5 DEF AddCleanTask
  <2>2. cleanups' \in [Test -> Nat]
    BY <2>1
  <2>3. cleanTasks' \in [Test -> SUBSET Task]
    BY <2>1
  <2>. QED
    BY <1>5, <2>1, <2>2, <2>3 DEF AddCleanTask
<1>3. ASSUME NEW t \in Test, Clean(t)
      PROVE  TypeOK'
  <2>1. Cardinality(Launched(t)) \in Nat
    BY TasksFinite DEF Launched
  <2>2. wg' \in [Test -> Nat] /\ lock' \in Test \cup {Nobody}
        /\ pc' \in [Test -> {"body", "execute", "cleanup", "clean", "over"}]
    BY <1>3, <2>1 DEF Clean
  <2>3. cleanups' \in [Test -> Nat]
    BY <1>3 DEF Clean
  <2>4. task' \in [Task -> {"new", "registered", "running", "cleaned", "left"}]
    BY <1>3 DEF Clean
  <2>. QED
    BY <1>3, <2>2, <2>3, <2>4 DEF Clean
<1>4. ASSUME NEW k \in Task, TaskEnds(k)
      PROVE  TypeOK'
  <2>1. wg[Owner[k]] - 1 \in Nat /\ Owner[k] \in Test
    BY <1>4, RunningCounted DEF TaskEnds
  <2>2. wg' = [wg EXCEPT ![Owner[k]] = wg[Owner[k]] - 1]
    BY <1>4 DEF TaskEnds
  <2>3. wg' \in [Test -> Nat]
    BY <2>1, <2>2, Zenon
  <2>. QED
    BY <1>4, <2>3 DEF TaskEnds
<1>. QED
  BY <1>1, <1>2, <1>3, <1>4, <1>5 DEF Next

-----------------------------------------------------------------------------
(* The lock.                                                                *)

LEMMA LockUnchanged ==
  ASSUME LockInv, UNCHANGED <<lock, wg>>,
         \A t \in Test : pc'[t] \in {"execute", "clean"} <=> pc[t] \in {"execute", "clean"},
         \A k \in Task : task'[k] = "running" <=> task[k] = "running"
  PROVE  LockInv'
<1>1. \A t \in Test : Running(t)' = Running(t)
  BY DEF Running
<1>. QED
  BY <1>1 DEF LockInv

LEMMA LockStep == TypeOK /\ LockInv /\ RegistryInv /\ [Next]_vars => LockInv'
<1>. SUFFICES ASSUME TypeOK, LockInv, RegistryInv, [Next]_vars
              PROVE  LockInv'
  OBVIOUS
<1>1. CASE UNCHANGED vars \/ Terminated
  BY <1>1, LockUnchanged DEF Terminated, vars
<1>2. ASSUME NEW t \in Test, AddCleanTask(t)
      PROVE  LockInv'
  <2>1. PICK k \in Task : task[k] = "new" /\ task' = [task EXCEPT ![k] = "registered"]
    BY <1>2 DEF AddCleanTask
  <2>2. UNCHANGED <<lock, wg, pc>>
    BY <1>2 DEF AddCleanTask
  <2>. QED
    BY <2>1, <2>2, LockUnchanged DEF TypeOK
<1>3. ASSUME NEW t \in Test, TestFails(t) \/ TestEnds(t) \/ TestOver(t)
      PROVE  LockInv'
  BY <1>3, LockUnchanged DEF TestFails, TestEnds, TestOver, TypeOK
<1>4. ASSUME NEW t \in Test, Clean(t)
      PROVE  LockInv'
  <2>1. /\ lock = Nobody /\ lock' = t
        /\ \A s \in Test : pc'[s] = IF s = t THEN (IF pc[t] = "body" THEN "execute" ELSE "clean")
                                             ELSE pc[s]
        /\ \A s \in Test : wg'[s] = IF s = t THEN Cardinality(Launched(t)) ELSE wg[s]
        /\ \A k \in Task : task'[k] = IF k \in Launched(t) THEN "running" ELSE task[k]
    BY <1>4 DEF Clean, TypeOK
  <2>2. \A s \in Test : pc[s] \notin {"execute", "clean"} /\ Running(s) = {}
    BY <2>1 DEF LockInv
  <2>3. \A k \in Launched(t) : k \in Task /\ Owner[k] = t
    BY DEF Launched, RegistryInv, TypeOK
  <2>4. Running(t)' = Launched(t)
    BY <2>1, <2>2, <2>3 DEF Running
  <2>5. \A s \in Test \ {t} : Running(s)' = Running(s)
    BY <2>1, <2>3 DEF Running
  <2>. QED
    BY <2>1, <2>2, <2>4, <2>5 DEF LockInv
<1>5. ASSUME NEW k \in Task, TaskEnds(k)
      PROVE  LockInv'
  <2>. DEFINE t == Owner[k]
  <2>1. /\ task[k] = "running" /\ UNCHANGED <<pc, lock>>
        /\ wg' = [wg EXCEPT ![t] = @ - 1]
        /\ \A m \in Task : task'[m] = "running" <=> m # k /\ task[m] = "running"
    BY <1>5 DEF TaskEnds, TypeOK
  <2>2. t \in Test /\ k \in Running(t) /\ lock = t
    BY <2>1, RunningCounted
  <2>3. Running(t)' = Running(t) \ {k} /\ \A s \in Test \ {t} : Running(s)' = Running(s)
    BY <2>1 DEF Running
  <2>4. Cardinality(Running(t)') = Cardinality(Running(t)) - 1
    <3>1. IsFiniteSet(Running(t))
      BY <2>2, RunningFinite
    <3>2. Cardinality(Running(t) \ {k}) = Cardinality(Running(t)) - 1
      BY <2>2, <3>1, FS_RemoveElement
    <3>. QED
      BY <2>3, <3>2, Zenon
  <2>5. wg'[t] = wg[t] - 1 /\ \A s \in Test \ {t} : wg'[s] = wg[s]
    BY <2>1, <2>2 DEF TypeOK
  <2>. QED
    BY <2>1, <2>2, <2>3, <2>4, <2>5 DEF LockInv
<1>6. ASSUME NEW t \in Test, CleanReturns(t)
      PROVE  LockInv'
  <2>1. /\ pc[t] \in {"execute", "clean"} /\ wg[t] = 0 /\ lock' = Nobody
        /\ \A s \in Test : pc'[s] = IF s = t THEN (IF pc[t] = "execute" THEN "body" ELSE "cleanup")
                                             ELSE pc[s]
        /\ UNCHANGED <<wg, task>>
    BY <1>6 DEF CleanReturns, TypeOK
  <2>2. Running(t) = {} /\ lock = t
    BY <2>1, RunningFinite, FS_EmptySet DEF LockInv
  <2>3. \A s \in Test : Running(s)' = Running(s)
    BY <2>1 DEF Running
  <2>. QED
    BY <2>1, <2>2, <2>3 DEF LockInv
<1>. QED
  BY <1>1, <1>2, <1>3, <1>4, <1>5, <1>6 DEF Next

-----------------------------------------------------------------------------
(* The registry.                                                            *)

(* What RegistryInv says of one task.                                       *)
TaskInv(k) ==
  LET t == Owner[k] IN
  /\ task[k] = "new" => k \notin cleanTasks[t]
  /\ task[k] = "registered" =>
       /\ ~failed[t] => k \in cleanTasks[t]
       /\ k \in cleanTasks[t] =>
            /\ pc[t] \in {"execute", "clean"} => failed[t]
            /\ pc[t] \in {"body", "cleanup"} => cleanups[t] > 0
       /\ pc[t] = "over" => failed[t]
  /\ task[k] = "running" => k \in cleanTasks[t]
  /\ task[k] \in {"cleaned", "left"} /\ k \in cleanTasks[t] =>
       pc[t] \in {"execute", "clean"}
  /\ task[k] = "left" => failed[t]

LEMMA RegistryParts ==
  RegistryInv <=> /\ \A t \in Test : \A k \in cleanTasks[t] : Owner[k] = t
                  /\ \A k \in Task : TaskInv(k)
  BY DEF RegistryInv, TaskInv

(* The steps of a test leave the tasks of the other tests alone.            *)
LEMMA OtherTasks ==
  ASSUME NEW k \in Task, TaskInv(k), task'[k] = task[k],
         pc'[Owner[k]] = pc[Owner[k]], failed'[Owner[k]] = failed[Owner[k]],
         cleanups'[Owner[k]] = cleanups[Owner[k]],
         cleanTasks'[Owner[k]] = cleanTasks[Owner[k]]
  PROVE  TaskInv(k)'
  BY DEF TaskInv

LEMMA RegistryStep == TypeOK /\ LockInv /\ RegistryInv /\ [Next]_vars => RegistryInv'
<1>. SUFFICES ASSUME TypeOK, LockInv, RegistryInv, [Next]_vars
              PROVE  RegistryInv'
  OBVIOUS
<1>0. \A k \in Task : TaskInv(k) /\ Owner[k] \in Test
  BY RegistryParts
<1>o. \A t \in Test : \A k \in cleanTasks[t] : Owner[k] = t
  BY RegistryParts
<1>p. ASSUME \A t \in Test : \A k \in cleanTasks'[t] : Owner[k] = t,
             \A k \in Task : TaskInv(k)'
      PROVE  RegistryInv'
  BY <1>p DEF RegistryInv, TaskInv
<1>1. CASE UNCHANGED vars \/ Terminated
  BY <1>1 DEF Terminated, vars, RegistryInv
<1>2. ASSUME NEW t \in Test, AddCleanTask(t)
      PROVE  RegistryInv'
  <2>1. PICK k \in Task :
          /\ Owner[k] = t /\ task[k] = "new"
          /\ cleanups' = IF cleanTasks[t] = {} THEN [cleanups EXCEPT ![t] = @ + 1] ELSE cleanups
          /\ cleanTasks' = [cleanTasks EXCEPT ![t] = @ \cup {k}]
          /\ task' = [task EXCEPT ![k] = "registered"]
    BY <1>2 DEF AddCleanTask
  <2>2. pc[t] = "body" /\ lock = Nobody /\ UNCHANGED <<pc, failed>>
    BY <1>2 DEF AddCleanTask
  <2>3. cleanups'[t] > 0 /\ cleanups'[t] >= cleanups[t]
    <3>1. CASE cleanTasks[t] = {}
      BY <2>1, <3>1 DEF TypeOK
    <3>2. ASSUME NEW m \in cleanTasks[t]
          PROVE  cleanups[t] > 0
      <4>1. m \in Task /\ Owner[m] = t /\ task[m] = "registered"
        BY <2>2, RegisteredTasks
      <4>. QED
        BY <1>0, <2>2, <4>1 DEF TaskInv
    <3>. QED
      BY <2>1, <3>1, <3>2 DEF TypeOK
  <2>4. \A m \in Task \ {k} : TaskInv(m)'
    <3>. SUFFICES ASSUME NEW m \in Task \ {k}
                  PROVE  TaskInv(m)'
      OBVIOUS
    <3>1. /\ task'[m] = task[m]
          /\ m \in cleanTasks'[Owner[m]] <=> m \in cleanTasks[Owner[m]]
          /\ cleanups[Owner[m]] > 0 => cleanups'[Owner[m]] > 0
      BY <1>0, <2>1, <2>2, <2>3 DEF TypeOK
    <3>. QED
      BY <1>0, <2>2, <3>1 DEF TaskInv
  <2>5. TaskInv(k)'
    BY <1>0, <2>1, <2>2, <2>3 DEF TaskInv, TypeOK
  <2>6. \A s \in Test : \A m \in cleanTasks'[s] : Owner[m] = s
    BY <1>o, <2>1 DEF TypeOK
  <2>. QED
    BY <1>p, <2>4, <2>5, <2>6
<1>3. ASSUME NEW t \in Test, TestFails(t) \/ TestEnds(t)
      PROVE  RegistryInv'
  <2>1. /\ pc[t] = "body" /\ pc' = [pc EXCEPT ![t] = "cleanup"]
        /\ UNCHANGED <<cleanups, cleanTasks, task>>
        /\ \A s \in Test : failed[s] => failed'[s]
        /\ \A s \in Test \ {t} : failed'[s] = failed[s]
    BY <1>3 DEF TestFails, TestEnds, TypeOK
  <2>2. \A k \in Task : TaskInv(k)'
    <3>. SUFFICES ASSUME NEW k \in Task
                  PROVE  TaskInv(k)'
      OBVIOUS
    <3>1. CASE Owner[k] = t
      BY <1>0, <2>1, <3>1 DEF TaskInv, TypeOK
    <3>2. CASE Owner[k] # t
      BY <1>0, <2>1, <3>2, OtherTasks DEF TypeOK
    <3>. QED
      BY <3>1, <3>2
  <2>. QED
    BY <1>o, <1>p, <2>1, <2>2
<1>4. ASSUME NEW t \in Test, Clean(t)
      PROVE  RegistryInv'
  <2>1. /\ lock = Nobody /\ UNCHANGED <<failed, cleanTasks>>
        /\ pc'[t] \in {"execute", "clean"}
        /\ \A s \in Test \ {t} : pc'[s] = pc[s] /\ cleanups'[s] = cleanups[s]
        /\ \A k \in Task : task'[k] = IF k \in Launched(t) THEN "running" ELSE task[k]
    BY <1>4 DEF Clean, TypeOK
  <2>2. \A k \in cleanTasks[t] : k \in Task /\ Owner[k] = t /\ task[k] = "registered"
    BY <2>1, RegisteredTasks
  <2>3. \A k \in Task : TaskInv(k)'
    <3>. SUFFICES ASSUME NEW k \in Task
                  PROVE  TaskInv(k)'
      OBVIOUS
    <3>1. CASE Owner[k] = t /\ k \in Launched(t)
      BY <2>1, <2>2, <3>1 DEF TaskInv, Launched
    <3>2. CASE Owner[k] = t /\ k \notin Launched(t)
      BY <1>0, <2>1, <2>2, <3>2 DEF TaskInv, Launched
    <3>3. CASE Owner[k] # t
      BY <1>0, <2>1, <2>2, <3>3, OtherTasks DEF Launched
    <3>. QED
      BY <3>1, <3>2, <3>3
  <2>. QED
    BY <1>o, <1>p, <2>1, <2>3
<1>5. ASSUME NEW k \in Task, TaskEnds(k)
      PROVE  RegistryInv'
  <2>. DEFINE t == Owner[k]
  <2>1. /\ task[k] = "running" /\ UNCHANGED <<pc, cleanups, cleanTasks>>
        /\ task'[k] \in {"cleaned", "left"}
        /\ task'[k] = "left" => failed'[t]
        /\ \A m \in Task \ {k} : task'[m] = task[m]
        /\ \A s \in Test : failed[s] => failed'[s]
        /\ \A s \in Test \ {t} : failed'[s] = failed[s]
    BY <1>5 DEF TaskEnds, TypeOK
  <2>2. t \in Test /\ pc[t] \in {"execute", "clean"}
    BY <2>1, RunningCounted
  <2>3. TaskInv(k)'
    BY <1>0, <2>1, <2>2 DEF TaskInv
  <2>4. \A m \in Task \ {k} : TaskInv(m)'
    <3>. SUFFICES ASSUME NEW m \in Task \ {k}
                  PROVE  TaskInv(m)'
      OBVIOUS
    <3>1. CASE Owner[m] = t
      BY <1>0, <2>1, <2>2, <3>1 DEF TaskInv
    <3>2. CASE Owner[m] # t
      BY <1>0, <2>1, <3>2, OtherTasks
    <3>. QED
      BY <3>1, <3>2
  <2>. QED
    BY <1>o, <1>p, <2>1, <2>3, <2>4
<1>6. ASSUME NEW t \in Test, CleanReturns(t)
      PROVE  RegistryInv'
  <2>1. /\ pc[t] \in {"execute", "clean"} /\ wg[t] = 0
        /\ pc'[t] \in {"body", "cleanup"} /\ cleanTasks'[t] = {}
        /\ \A s \in Test \ {t} : pc'[s] = pc[s] /\ cleanTasks'[s] = cleanTasks[s]
        /\ UNCHANGED <<failed, cleanups, task>>
    BY <1>6 DEF CleanReturns, TypeOK
  <2>2. \A k \in Task : Owner[k] = t => task[k] # "running"
    BY <2>1, RunningCounted
  <2>3. \A k \in Task : TaskInv(k)'
    <3>. SUFFICES ASSUME NEW k \in Task
                  PROVE  TaskInv(k)'
      OBVIOUS
    <3>1. CASE Owner[k] = t
      BY <1>0, <2>1, <2>2, <3>1 DEF TaskInv
    <3>2. CASE Owner[k] # t
      BY <1>0, <2>1, <3>2, OtherTasks
    <3>. QED
      BY <3>1, <3>2
  <2>. QED
    BY <1>o, <1>p, <2>1, <2>3
<1>7. ASSUME NEW t \in Test, TestOver(t)
      PROVE  RegistryInv'
  <2>1. /\ pc[t] = "cleanup" /\ cleanups[t] = 0 /\ pc' = [pc EXCEPT ![t] = "over"]
        /\ UNCHANGED <<failed, cleanups, cleanTasks, task>>
    BY <1>7 DEF TestOver
  <2>2. \A k \in Task : TaskInv(k)'
    <3>. SUFFICES ASSUME NEW k \in Task
                  PROVE  TaskInv(k)'
      OBVIOUS
    <3>1. CASE Owner[k] = t
      BY <1>0, <2>1, <3>1 DEF TaskInv, TypeOK
    <3>2. CASE Owner[k] # t
      BY <1>0, <2>1, <3>2, OtherTasks DEF TypeOK
    <3>. QED
      BY <3>1, <3>2
  <2>. QED
    BY <1>o, <1>p, <2>1, <2>2
<1>. QED
  BY <1>1, <1>2, <1>3, <1>4, <1>5, <1>6, <1>7 DEF Next

-----------------------------------------------------------------------------
(* The theorems.                                                            *)

LEMMA InitInv == Init => IInv
<1>. SUFFICES ASSUME Init
              PROVE  IInv
  OBVIOUS
<1>1. \A t \in Test : Running(t) = {}
  BY DEF Init, Running
<1>2. \A t \in Test : Cardinality(Running(t)) = 0
  BY <1>1, FS_EmptySet
<1>3. TypeOK
  BY DEF Init, TypeOK
<1>4. LockInv
  BY <1>1, <1>2 DEF Init, LockInv
<1>5. RegistryInv
  BY DEF Init, RegistryInv
<1>. QED
  BY <1>3, <1>4, <1>5 DEF IInv

(* IInv is an invariant of the manager.                                     *)
THEOREM Invariance == Spec => []IInv
<1>1. IInv /\ [Next]_vars => IInv'
  BY TypeStep, LockStep, RegistryStep DEF IInv
<1>. QED
  BY InitInv, <1>1, PTL DEF Spec

(* The types hold for any number of tests and tasks: no wait group counter  *)
(* becomes negative.                                                        *)
THEOREM TypeCorrect == Spec => []TypeOK
<1>1. IInv => TypeOK
  BY DEF IInv
<1>. QED
  BY <1>1, Invariance, PTL

(* Every object a passed test has registered was cleaned.                   *)
THEOREM PassedTestsClean == Spec => []PassedMeansClean
<1>1. IInv => PassedMeansClean
  <2>. SUFFICES ASSUME IInv, NEW k \in Task, pc[Owner[k]] = "over", ~failed[Owner[k]]
                PROVE  task[k] \in {"new", "cleaned"}
    BY DEF PassedMeansClean
  <2>1. task[k] # "running"
    BY RunningCounted DEF IInv
  <2>2. task[k] \notin {"registered", "left"}
    BY DEF IInv, RegistryInv
  <2>. QED
    BY <2>1, <2>2 DEF IInv, TypeOK
<1>. QED
  BY <1>1, Invariance, PTL

(* A task runs only while its own test holds the lock.                      *)
THEOREM TasksHoldLock == Spec => []TasksUnderLock
<1>1. IInv => TasksUnderLock
  BY RunningCounted DEF IInv, TasksUnderLock
<1>. QED
  BY <1>1, Invariance, PTL

(* No task of a failed test is started.                                     *)
THEOREM FailedTestsKept == Spec => FailedTestKept
<1>1. IInv /\ [Next]_vars =>
        [\A k \in Task : task[k] # "running" /\ task'[k] = "running" => ~failed[Owner[k]]]_vars
  <2>. SUFFICES ASSUME IInv, Next,
                       NEW k \in Task, task[k] # "running", task'[k] = "running"
                PROVE  ~failed[Owner[k]]
    OBVIOUS
  <2>1. PICK t \in Test : Clean(t)
    BY DEF Next, AddCleanTask, TestFails, TestEnds, CleanReturns, TestOver, TaskEnds,
           Terminated, vars, IInv, TypeOK
  <2>2. k \in Launched(t)
    BY <2>1 DEF Clean
  <2>. QED
    BY <2>2 DEF Launched, IInv, RegistryInv
<1>. QED
  BY <1>1, Invariance, PTL DEF Spec, FailedTestKept

-----------------------------------------------------------------------------
(* The task.                                                                *)

USE KindsAssumption DEF KindsAssumption

LEMMA Dependents ==
  ASSUME TaskTypeOK
  PROVE  /\ Verified \subseteq DependentsOf(kind)
         /\ Awaited \subseteq DependentsOf(kind)
         /\ DependentsOf(kind) \subseteq Dependent
         /\ kind = "NSTemplateTier" => Verified = {} /\ Awaited = {"ttrs"}
         /\ Verified \subseteq {"mur", "space"}
  BY DEF TaskTypeOK, Verified, Awaited, DependentsOf, Dependent

(* The dependent of the next step is one of those left.                     *)
LEMMA FirstIsLeft ==
  ASSUME left # {}, left \subseteq {"mur", "space"}
  PROVE  First \in left
  BY DEF First

(* The object and its dependents do not come back.                          *)
LEMMA NothingComesBack ==
  ASSUME TaskTypeOK, [TaskNext]_taskVars, object # "present"
  PROVE  /\ object' # "present"
         /\ object = "gone" => object' = "gone"
         /\ \A d \in Dependent : dep[d] = "gone" => dep'[d] = "gone"
<1>. USE DEF TaskTypeOK, Phase
<1>1. CASE TaskStep \/ PollFound \/ DeleteFails \/ CallFails \/ TaskOver
  BY <1>1 DEF TaskStep, Delete, DeleteNotFound, EarlyGet, EarlyDelete, EarlyReturn, List,
              DeleteAll, PollNotFound, VerifyNext, PollDone, PollFound, DeleteFails, CallFails,
              TaskOver, Deleted, taskVars
<1>2. CASE Removal \/ DeletedElsewhere \/ \E d \in Dependent : CreateDependent(d)
  BY <1>2 DEF Removal, Finalized, DeleteDependent, DependentFinalized, DeletedElsewhere,
              CreateDependent
<1>. QED
  BY <1>1, <1>2 DEF TaskNext, taskVars

LEMMA TaskTypeStep == CleanInv /\ [TaskNext]_taskVars => TaskTypeOK'
<1>. SUFFICES ASSUME CleanInv, [TaskNext]_taskVars
              PROVE  TaskTypeOK'
  OBVIOUS
<1>0. TaskTypeOK
  BY DEF CleanInv
<1>. USE DEF TaskTypeOK, Goto, given, Phase
<1>1. CASE UNCHANGED taskVars \/ PollFound \/ TaskOver
  BY <1>0, <1>1 DEF PollFound, TaskOver, taskVars
<1>2. CASE Delete \/ DeleteFails \/ CallFails \/ List \/ PollDone \/ DeletedElsewhere \/ Finalized
  BY <1>0, <1>2 DEF Delete, DeleteFails, CallFails, List, PollDone, DeletedElsewhere, Finalized
<1>3. CASE DeleteNotFound \/ PollNotFound
  <2>1. left' \subseteq DependentsOf(kind)
    BY <1>0, <1>3, Dependents DEF DeleteNotFound, PollNotFound, Awaited
  <2>. QED
    BY <1>0, <1>3, <2>1 DEF DeleteNotFound, PollNotFound
<1>4. CASE EarlyGet \/ EarlyReturn \/ VerifyNext
  <2>1. left' \subseteq left
    BY <1>4 DEF EarlyGet, EarlyReturn, VerifyNext
  <2>. QED
    BY <1>0, <1>4, <2>1 DEF EarlyGet, EarlyReturn, VerifyNext
<1>5. CASE EarlyDelete \/ DeleteAll
  <2>1. dep' \in [Dependent -> Phase]
    BY <1>0, <1>5 DEF EarlyDelete, DeleteAll, Deleted
  <2>. QED
    BY <1>0, <1>5, <2>1 DEF EarlyDelete, DeleteAll
<1>6. ASSUME NEW d \in Dependent,
             DeleteDependent(d) \/ DependentFinalized(d) \/ CreateDependent(d)
      PROVE  TaskTypeOK'
  BY <1>0, <1>6 DEF DeleteDependent, DependentFinalized, CreateDependent
<1>. QED
  BY <1>1, <1>2, <1>3, <1>4, <1>5, <1>6 DEF TaskNext, TaskStep, Removal

(* The steps of the operators keep what the task has seen.                  *)
LEMMA OperatorStep ==
  ASSUME CleanInv, [TaskNext]_taskVars, UNCHANGED <<given, place, left, orphans, early>>
  PROVE  EarlyInv' /\ RoundInv' /\ CleanLeavesNothing'
<1>1. Verified' = Verified /\ Awaited' = Awaited /\ DependentsOf(kind)' = DependentsOf(kind)
  BY DEF Verified, Awaited, DependentsOf, given
<1>2. TaskTypeOK
  BY DEF CleanInv
<1>3. Verified \subseteq Dependent /\ Awaited \subseteq Dependent
      /\ DependentsOf(kind) \subseteq Dependent /\ "ttrs" \in Dependent
  BY <1>2, Dependents DEF Dependent
<1>4. EarlyInv'
  BY <1>1, <1>2, <1>3, NothingComesBack DEF CleanInv, EarlyInv
<1>5. RoundInv'
  BY <1>1, <1>2, <1>3, NothingComesBack DEF CleanInv, RoundInv
<1>6. CleanLeavesNothing'
  <2>1. CASE place = "ok"
    <3>1. object = "gone" /\ object' = "gone"
      BY <1>2, <2>1, NothingComesBack DEF CleanInv, CleanLeavesNothing
    <3>. QED
      BY <1>1, <1>2, <1>3, <2>1, <3>1, NothingComesBack DEF CleanInv, CleanLeavesNothing, given
  <2>2. CASE place # "ok"
    BY <2>2 DEF CleanLeavesNothing
  <2>. QED
    BY <2>1, <2>2
<1>. QED
  BY <1>4, <1>5, <1>6

LEMMA TaskStepKeeps == CleanInv /\ [TaskNext]_taskVars => EarlyInv' /\ RoundInv' /\ CleanLeavesNothing'
<1>. SUFFICES ASSUME CleanInv, [TaskNext]_taskVars
              PROVE  EarlyInv' /\ RoundInv' /\ CleanLeavesNothing'
  OBVIOUS
<1>0. TaskTypeOK /\ EarlyInv /\ RoundInv /\ CleanLeavesNothing
  BY DEF CleanInv
<1>s. ASSUME UNCHANGED given
      PROVE  Verified' = Verified /\ Awaited' = Awaited /\ DependentsOf(kind)' = DependentsOf(kind)
  BY <1>s DEF Verified, Awaited, DependentsOf, given
<1>1. CASE UNCHANGED taskVars \/ PollFound \/ TaskOver \/ Removal \/ DeletedElsewhere
           \/ \E d \in Dependent : CreateDependent(d)
  <2>1. UNCHANGED <<given, place, left, orphans, early>>
    BY <1>1 DEF PollFound, TaskOver, Removal, Finalized, DeleteDependent, DependentFinalized,
                DeletedElsewhere, CreateDependent, taskVars
  <2>. QED
    BY <2>1, OperatorStep
<1>2. CASE Delete \/ DeleteFails \/ CallFails \/ List \/ DeleteAll
  <2>1. place' \notin {"early", "earlyDelete", "verify", "ok"}
    BY <1>2 DEF Delete, DeleteFails, CallFails, List, DeleteAll, Goto
  <2>. QED
    BY <2>1 DEF EarlyInv, RoundInv, CleanLeavesNothing
<1>3. CASE DeleteNotFound
  BY <1>3, <1>s DEF DeleteNotFound, Goto, EarlyInv, RoundInv, CleanLeavesNothing
<1>4. CASE EarlyGet
  <2>1. First \in left
    BY <1>0, <1>4, Dependents, FirstIsLeft DEF EarlyGet, EarlyInv
  <2>. QED
    BY <1>0, <1>4, <1>s, <2>1 DEF EarlyGet, Goto, EarlyInv, RoundInv, CleanLeavesNothing, given
<1>5. CASE EarlyDelete
  <2>1. First \in left /\ left \subseteq Verified /\ Verified \subseteq Dependent
    BY <1>0, <1>5, Dependents, FirstIsLeft DEF EarlyDelete, EarlyInv
  <2>2. \A d \in Dependent : dep[d] = "gone" => dep'[d] = "gone"
    BY <1>0, <1>5 DEF EarlyDelete, Deleted, TaskTypeOK
  <2>3. ~orphans' => ~orphans /\ dep'[First] = "gone"
    BY <1>0, <1>5, <2>1, <2>2 DEF EarlyDelete
  <2>4. /\ place = "earlyDelete" /\ place' = "early" /\ left' = left \ {First} /\ object' = object
        /\ early' = early /\ UNCHANGED given
    BY <1>5 DEF EarlyDelete, Goto
  <2>5. EarlyInv'
    BY <1>0, <1>s, <2>1, <2>2, <2>3, <2>4 DEF EarlyInv
  <2>. QED
    BY <2>4, <2>5 DEF RoundInv, CleanLeavesNothing
<1>6. CASE EarlyReturn
  <2>1. /\ place = "early" /\ left = {} /\ place' = (IF orphans THEN "list" ELSE "ok")
        /\ UNCHANGED <<given, object, dep, early>>
    BY <1>6 DEF EarlyReturn, Goto
  <2>2. CleanLeavesNothing'
    BY <1>0, <1>s, <2>1 DEF EarlyInv, CleanLeavesNothing, Verified, DependentsOf, given
  <2>. QED
    BY <2>1, <2>2 DEF EarlyInv, RoundInv
<1>7. CASE PollNotFound
  BY <1>7, <1>s DEF PollNotFound, Goto, EarlyInv, RoundInv, CleanLeavesNothing, Awaited
<1>8. CASE VerifyNext
  <2>. DEFINE d == IF kind = "NSTemplateTier" THEN "ttrs" ELSE First
  <2>0. left # {} /\ left \subseteq Awaited
    BY <1>0, <1>8 DEF VerifyNext, RoundInv
  <2>1. d \in left
    <3>1. CASE kind = "NSTemplateTier"
      BY <1>0, <2>0, <3>1, Dependents
    <3>2. CASE kind # "NSTemplateTier"
      <4>1. left \subseteq {"mur", "space"}
        BY <1>0, <2>0, <3>2, Dependents DEF Awaited
      <4>. QED
        BY <2>0, <3>2, <4>1, FirstIsLeft
    <3>. QED
      BY <3>1, <3>2
  <2>2. /\ place = "verify" /\ UNCHANGED <<given, object, dep>>
        /\ IF dep[d] = "gone" THEN left' = left \ {d} /\ place' = place ELSE place' = "poll"
    BY <1>8 DEF VerifyNext, Goto
  <2>. QED
    BY <1>0, <1>s, <2>1, <2>2 DEF EarlyInv, RoundInv, CleanLeavesNothing
<1>9. CASE PollDone
  <2>1. /\ place = "verify" /\ left = {} /\ place' = "ok" /\ UNCHANGED <<given, object, dep, early>>
    BY <1>9 DEF PollDone, Goto
  <2>2. CleanLeavesNothing'
    BY <1>0, <1>s, <2>1 DEF RoundInv, CleanLeavesNothing, Awaited, Verified, DependentsOf, given
  <2>. QED
    BY <2>1, <2>2 DEF EarlyInv, RoundInv
<1>. QED
  BY <1>1, <1>2, <1>3, <1>4, <1>5, <1>6, <1>7, <1>8, <1>9 DEF TaskNext, TaskStep

-----------------------------------------------------------------------------
(* The theorems.                                                            *)

(* CleanInv is an invariant of the task.                                    *)
THEOREM TaskInvariance == TaskSpec => []CleanInv
<1>1. TaskInit => CleanInv
  BY DEF TaskInit, CleanInv, TaskTypeOK, EarlyInv, RoundInv, CleanLeavesNothing
<1>2. CleanInv /\ [TaskNext]_taskVars => CleanInv'
  BY TaskTypeStep, TaskStepKeeps DEF CleanInv
<1>. QED
  BY <1>1, <1>2, PTL DEF TaskSpec

(* The types hold for any set of kinds.                                     *)
THEOREM TaskTypeCorrect == TaskSpec => []TaskTypeOK
<1>1. CleanInv => TaskTypeOK
  BY DEF CleanInv
<1>. QED
  BY <1>1, TaskInvariance, PTL

(* A task that has succeeded has left nothing behind.                       *)
THEOREM NothingLeft == TaskSpec => []CleanLeavesNothing
<1>1. CleanInv => CleanLeavesNothing
  BY DEF CleanInv
<1>. QED
  BY <1>1, TaskInvariance, PTL

(* Neither the task nor an operator takes the MUR or the Space away from a  *)
(* UserSignup that is there.                                                *)
THEOREM OrphansOnly == TaskSpec => OnlyOrphansDeleted
<1>1. CleanInv /\ [TaskNext]_taskVars =>
        [\A d \in {"mur", "space"} :
           dep[d] = "present" /\ dep'[d] = "deleting" => object # "present"]_taskVars
  <2>. SUFFICES ASSUME CleanInv, TaskNext, NEW d \in {"mur", "space"},
                       dep[d] = "present", dep'[d] = "deleting"
                PROVE  object # "present"
    OBVIOUS
  <2>0. dep \in [Dependent -> Phase] /\ d \in Dependent /\ d # "ttrs"
    BY DEF CleanInv, TaskTypeOK, Dependent
  <2>1. CASE EarlyDelete
    BY <2>1 DEF EarlyDelete, CleanInv, EarlyInv
  <2>2. CASE DeleteAll
    BY <2>0, <2>2 DEF DeleteAll
  <2>3. CASE Removal \/ \E e \in Dependent : CreateDependent(e)
    BY <2>0, <2>3 DEF Removal, Finalized, DeleteDependent, DependentFinalized, CreateDependent
  <2>4. CASE ~EarlyDelete /\ ~DeleteAll /\ ~Removal /\ ~\E e \in Dependent : CreateDependent(e)
    BY <2>4 DEF TaskNext, TaskStep, Delete, DeleteNotFound, EarlyGet, EarlyReturn, List, PollNotFound,
                VerifyNext, PollDone, PollFound, DeleteFails, CallFails, DeletedElsewhere,
                TaskOver, taskVars
  <2>. QED
    BY <2>1, <2>2, <2>3, <2>4
<1>. QED
  BY <1>1, TaskInvariance, PTL DEF TaskSpec, OnlyOrphansDeleted
=============================================================================
