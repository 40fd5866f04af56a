# toolchain-e2e in TLA+

This directory holds a formal model of the programs in this repository: the
`setup` command, which fills a cluster with users and measures it, and
`testsupport`, the library that the end-to-end tests of the Developer Sandbox
operators are written with. Both are clients of a Kubernetes API server. What
makes them hard is that they are concurrent (pools of goroutines, parallel
tests, goroutines per object), that the state they look at is changed by
operators at the same time, and that almost everything they do is a poll that
may time out.

## 1. Inventory

### The `setup` command (`setup/`)

| Component | State it keeps | Operations | What can go wrong | What makes it correct |
|---|---|---|---|---|
| Worker pools (`setup/cmd/root.go`, `setup/users`, `setup/idlers`, `setup/resources`, `setup/wait`) | one `userProgressBar` per job (mutex, current value, sum of times), a wait group of the pools and one per pool | launch the jobs, `Incr`, one user action, `AddTimeSpent`, `Done`, `Wait` | pools run side by side and overtake each other; a failed routine never calls `Done` | every user handled exactly once per job; main goes on only when all are; no time lost; the command ends |
| Terminal, results, metrics (`setup/terminal`, `setup/results`, `setup/metrics`) | the exit hooks, the redirected stdout, the rows of the results, the map of samples | `Fatalf`, the two hooks, `AddResults`, `OutputResults`, one sample | several goroutines run the hooks at once, sampling goes on meanwhile, writing the results may itself call `Fatalf` | the process ends with code 1, the results hold the metrics |
| Applying templates (`setup/templates`) | channels: source, one per processor, one combined | distribute, apply, copy, collect | unbuffered channels closed by different goroutines; refused objects | each object applied once, each error reported, no goroutine left |
| Template cache (`setup/resources`, not modelled) | a package map of parsed templates | look up or parse | the map has no lock | one parsed template per file |
| Operators (`setup/operators`) | the CSVs seen so far, two error variables | apply a template, poll its Subscription and the CSV it names | OLM upgrades the operator between two polls | an operator counts as installed only when its CSV has succeeded |
| Configuration, auth, Prometheus client | none | reads and single updates | I/O errors | - |

### The test library (`testsupport/`)

| Component | State it keeps | Operations | What can go wrong | What makes it correct |
|---|---|---|---|---|
| Cleanup manager (`testsupport/cleanup/clean.go`) | tasks per test, one lock, `t.Cleanup` | register, execute, clean at the end | parallel tests, registrations after a clean, tests and tasks that fail | objects of a passed test are cleaned before it is over, those of a failed one stay; tasks of two tests never run together |
| Cleanup task (the same file) | one object | delete, early check, list of revisions, poll | operators create, remove and finalize dependents meanwhile | a task that succeeds leaves nothing behind |
| Waiters (`testsupport/wait`) | clients and the baseline of metrics | polls with criteria; optimistic updates with retry | conflicts, timeouts, observations of several objects at different times | the returned object fulfils the criteria |
| Configuration changes (`wait/host.go`, `spaceprovisionerconfig`) | a copy of the shared object | update, restore at the end | two tests change the same object | the configuration is put back |
| Operator initialisation (`init.go`, not modelled) | three waits behind one `sync.Once`, package variables | wait for the deployments | a failed first call counts as done | callers get initialised clients |
| Signup requests (`signup_request.go`, `user_setup.go`) | the request, a registry of names | sign up, approve, wait, disable, register cleanup | parallel tests with equal names, failures half way | the user asked for, cleaned up in the end |
| Users (`user_assertions.go`, `deactivation.go`, `banneduser.go`) | copies of a UserSignup, MasterUserRecord and Space | verify, deactivate, reactivate, ban | what is left of the state before passes for the new one; an assertion on a copy that is too old | what passes is provisioned, or gone; a correct operator fails no test |
| Spaces and tiers (`space/`, `tiers/`) | copies of a Space and its NSTemplateSet, a custom tier, check goroutines | create and change tiers, move, verify | operators apply a change object by object; checks outlive the wait that started them | a verified space has exactly the objects of its tier |
| Metrics, migration (`metrics/`, `test/migration`; not modelled) | baselines, deltas | set up, compare | as for the waiters | the assertions they state |

Not part of the model are the generated `appstudio` API types, the tests under
`test/` (clients of the above), the scripts, make targets and manifests, the
browser support and the construction of clients, tokens and objects. The list
with a reason for each is in `PROJECT.json` under `components`.

### How the parts interact

* main (`root.go`) installs the operators, starts the metrics gatherer,
  launches the pools, waits, reports. All goroutines share the terminal: any of
  them may end the process through `Fatalf`, which runs hooks registered by main.
* The template jobs call the template package, whose goroutines share one client.
* The pools and the tests see the host and member operators only through the
  API server; the models contain the operators as separate actions with no more
  fairness than a property names.
* Tests share the cleanup manager, the registry of names, the clients and the
  configuration objects.

### Hard behaviours

`PROJECT.json` lists them under `hazards`, each at its line: interleavings of
routines on a bar, on the shared rows, on the map of samples and of templates;
hooks that call each other; polls in polls; a stale Subscription, a stale copy
of a UserSignup, of a configuration, of a tier; early returns that skip a check;
errors that are dropped; locks held over long waits.

## 2. Modules and the code they model

| Module | Code | State and actions |
|---|---|---|
| `WorkSharing` | (abstract) | numbers are taken and handled, then it is over |
| `SetupJobs` | `splitToMultipleRoutines`, `userRoutine`, `userProgressBar` of `root.go`, the user actions, `wait.ForSpace`, `getIdler` | `pc` of each routine, the bars (`mu`, `current`, `timeSpent`), wait groups (`wg`, `subgroup`), the cluster (`signups`, `spaces`, `idlers`). `Incr` is three actions (lock, `Bar.Incr`, `Bar.Current` with the unlock), `AddTimeSpent` two |
| `FatalExit` | `terminal.go`, `results.go`, `gather.go`, the end of `root.go` | stack depth of `Fatalf`, the shared rows and the copy `append` works on, where stdout goes, what console and file hold, the exit code |
| `ApplyConcurrently` | `template.go` | the caller, the distributor, a processor and a copier per object; a send and its receive are one step, as the channels are unbuffered |
| `OperatorInstall` | `operators.go`, `wait.go` of `setup`; OLM is external | the template at hand, the Subscription as read in a round, `lastCSVs`, `csverr`, `err` |
| `CleanManager` | `clean.go` up to line 89 | registry, `t.Cleanup` counter, lock, wait group, state of each task |
| `CleanTask` | `clean.go` from line 91 | one object of any kind, its dependents, the position in `cleanObject` |
| `TierCatalogue` | the tables of `tiers/checks.go` | no state: for each of the eight tiers the objects looked for in its namespaces, for its roles and for the cluster, and the numbers of objects expected, as sets of records |
| `TierChecks` | `space/space.go`, `tiers/nstemplateset.go`, `tiers/templaterefs.go`, `tiers/tier_setup.go`, the goroutines of `tiers/checks.go`, the waits of `wait/member.go` and `wait/host.go` they call | a journey of moves, custom tiers and new bindings; `pc` of the main goroutine, the check goroutines (`running`), the Space, its NSTemplateSet, namespace labels and the objects in the cluster (`world`); the operators are external actions |
| `Conditions` | `wait/conditions.go` | no state: the sets of conditions of a UserSignup, put together by overriding |
| `UserLifecycle` | `signup_request.go`, `user_assertions.go`, `deactivation.go`, `banneduser.go`, `doUpdate` of `wait/awaitility.go`, the waits of `wait/host.go` and `wait/member.go` they call | the test as a `Plan`, a sequence of parts (those of `Execute`, then what the scenario does with the user), each a sequence of `Steps` (`DeactivateAndCheckUser`...); `part` and `at` are the place in it, the copies of the UserSignup it holds (`outer`, `inner`, and `copy` inside an update), and the objects of one user, which the operators create, change and remove |
| `SharedConfig` | `UpdateToolchainConfig` and its retries in `wait/host.go`, `WaitForMemberOperatorConfig` in `wait/member.go` | the configuration and the spec of its status, the members' copy, the stack of nested tests and of cleanup functions, the update under way (`call`, `read`) |

Each `MC...` module extends the module of its name and gives its constants
values for TLC. Each `...Proofs` module extends the module of its name with
theorems; `CleanupProofs` extends both modules of the cleanup, whose names are
therefore distinct (`TaskSpec`, `TaskNext`, `CleanInv` in `CleanTask`).
`TierChecks` extends `TierCatalogue`, `UserLifecycle` extends `Conditions`; `SetupJobs` and `ApplyConcurrently` instantiate `WorkSharing` as
the abstract specification they implement.

Operators named as "Faulty variant" are not part of any specification. Each is
a plausible mistake in the operator that follows; substituting it must make
the property named in `PROJECT.json` fail, which shows that the property says something
about that piece of code.

What is abstracted: user names are numbers, times are one unit per user, rows
are blocks of rows, an API object is its phase (present, being deleted, gone),
an error is refused or not, and a poll is "the condition holds" or "it has timed
out". Messages, logging and formatting are left out. More of it, by module:

* `TierChecks`: the fields of an object are one value (`content`), which is
  right or wrong; a journey follows the kinds of objects that make it
  interesting. Roles of the space are sequences, as in the code: the host
  operator lists them by name and so does a test that binds users
  (`space.go` 65), while `UntilNSTemplateSetHasSpaceRolesFromBindings` lists them
  in the random order of a Go map (`member.go` 654). Every wait has a timeout; it
  fires when the operators have nothing left to do, or at any time once one of
  them was too late (`Late`) or got something wrong. A tier that disables the
  inheritance of bindings is a journey without the wait for any roles
  (`nstemplateset.go` 22).
* `FatalExit` starts when both hooks are registered. A query that fails in the
  instant between the start of the gatherer (`root.go` 263) and the second hook
  (272) ends the process without the metrics, which `MetricsDumpedAlone` leaves
  out. Every query of the command has one of the three result types, so the
  `Fatalf` of `ComputeResults` (`gather.go` 171) is not reached.
* `ApplyConcurrently`: the one modifier of the program, `NamespaceModifier`,
  returns no error, so an object is always sent (`template.go` 136).
* `CleanManager`: a task is a `sync.Once`, one that is through does nothing when
  it is launched again, and its goroutine ends at once.
* `UserLifecycle`: one member cluster, so that `TargetCluster` matters only for
  the guard of the update; the wait for the base tier, the registry of names,
  the contents of claims and annotations are left out; the ToolchainCluster is
  always ready. How an NSTemplateSet is verified is in `TierChecks`, here it is
  provisioned or not. A sent notification is kept until the test has seen it: in
  the operator that is a setting. `DismissedMeansGone` says nothing of the
  UserAccount and User, as the code does not wait for them. That a UserSignup
  becomes banned only after its MasterUserRecord is gone is an assumption on the
  host operator. An update reads an object that is there and meets finitely many
  conflicts, so its own timeout and a failed `Get` (`awaitility.go` 917-922) do not
  occur. The waits for what must not come (`user_assertions.go` 45, the
  MasterUserRecord of a banned user) look once, at any time: the looks of their
  few seconds are among these, but a test that looks longer may notice more.
* `SharedConfig`: tests that change the ToolchainConfig do not run in parallel
  (one of them is parallel, the others are not, and Go runs parallel tests only
  after the sequential ones); they do nest. A spec is a function of settings. The
  rounds of an update end in failure only after a lost answer, as any other
  error that lasts would end them (`GiveUp`), and `ConfigInEffect` says nothing
  of a test that gave up. The restore that creates a configuration again
  (`host.go` 1825) has no action, as `ConfigThere` shows that it is not reached.

## 3. What the runs check

| Run | Instance | Shows |
|---|---|---|
| `setup` | signups of three users shared by two routines, next to the idler job with one; any call may fail, the operators may omit anything | `EachUserOnce`, `AllUsersSetUp`, `NoTimeLost`; the pools implement `WorkSharing`; `SetupEnds` whatever fails, `SetupCompletes` when nothing does |
| `fatal_any` | a worker and the gatherer may fail, main reports, the disk may be full | the process ends, one goroutine that leaves alone dumps a full table, never to the log |
| `apply` | three objects, any of them refused | each object is applied and every error is collected, nobody blocks; implements `WorkSharing` |
| `install` | two operators, up to two upgrades each, CSVs that fail | installed means succeeded, and the setup always ends |
| `install_upgrade` | one operator, one upgrade | **violation**: an upgrade during the sleep is not noticed, the comparison is of a value with itself |
| `cleanmanager` | two parallel tests, one with two objects | passed tests leave nothing, tasks run only under the lock of their own test (`TasksUnderLock`), every test ends |
| `cleantask` | an object of any kind in any phase | nothing is left behind, only orphans are deleted, the task ends |
| `tiers` | eleven journeys through the eight tiers, a custom one, other roles and users, shared spaces; the member operator may report a phase done with one object wrong, missing or left over, and any operator may be too late | `VerifiedMeansExact`: what is verified is exactly what was asked for, in the kinds the code counts; `NoFalseAlarm`: without a fault or lateness no test fails, except for the order in which a shared space's roles happened to be listed; `NoChangeUnderChecks`; `VerificationEnds`; the tables agree with their counts and name only objects they have, except that a viewer's binding never resolves (`CountsAgree`, `BindingsResolve`) |
| `tiers_status` | the same, no faults | **violation**: the wait for the refs of the status compares the space roles of the status with themselves |
| `lifecycle` | six scenarios (below), each with no fault or one of nine | `VerifiedMeansProvisioned`, `DismissedMeansGone`: what passes is there, or gone; `NoFalseAlarm`; `UpdateLosesNothing`: an update with conflicts never takes back what an operator wrote; `StatesToldApart`; `TestEnds` |
| `signup_verification` | a request that needs verification | **violation**: the state is set on an object that is not sent |
| `config` | up to three tests, nested or not, three updates, one lost answer; any initial configuration, or none | `ConfigInEffect`: the restores form a chain back to the original; `ConfigThere`: no update or restore ever meets a missing configuration; `VerifiedMeansSynced`; `TestsEnd` |

Six more configurations reproduce the findings of section 6 that have no run
in the list: `FatalExitTwo.cfg`, `FatalExitCode.cfg`,
`ApplyConcurrentlyRetry.cfg`, `CleanTaskRevisions.cfg`, `TierChecksBack.cfg`, `TierChecksOrder.cfg`. TLC
finds their one property violated.

### Bounds and why they are enough

Two routines on one bar show every race on it, as its lock and sums are per
bar; the second pool, of the idlers, shows the interplay of pools and waits for
what the first one causes. Totals of 3 and 1 let a routine handle two users
while the other has one, find the bar full and compete for a number; nothing in
`SetupJobs` depends on a total otherwise, and the main safety properties are
proved for every number. In `ApplyConcurrently` three objects let one processor take two objects and another one
none. In `FatalExit` `MaxDepth` stands for the size of the stack: one or two
nested calls show both outcomes of the recursion. In `OperatorInstall` three `Versions` allow for two
upgrades, one of them between any two polls, and two templates for a stale
error of the template before. In `CleanManager` the tasks of one test run in
parallel and the other test competes for the lock; three tasks are enough for
a registration before, between and after clean calls. `CleanTask` has no bound:
one object, all kinds and all phases.

`TierChecks` takes eleven journeys (`MCJourneys`) of one or two changes: up and
down in the sizes of quotas, to a tier with other namespaces, to a tier without
cluster resources of the kinds followed, to a custom tier that is then changed
itself, to other roles and users, bound by the test or by a shared space with
one role or two, and in a tier whose spaces inherit no bindings. One fault
(`MaxFaults`) shows whether the checks of the wrong phase notice; two at once
would only help them. One late operator makes every later wait of the test
free to time out. The tables are checked for all eight tiers and seven sets of
grants, a viewer's among them. `UserLifecycle` takes six scenarios: a
user approved by an admin who is deactivated and reactivated, or banned and
unbanned; one with another tier and without cleanup; one approved automatically
without a space; one on a cluster that creates no Users; one that is verified
later while verification is switched on. The faults are the nine things an
operator can leave undone, one at a time, as every wait looks at one of them.
`SharedConfig` needs two updates in one test and one in a nested test for a
wrong order of the restores, hence `MaxUpdates` = 3 and `MaxTests` = 3; its
safety is proved without these bounds.

### Fairness

Goroutines that can run do run (weak fairness of their steps). A poll has a
timeout, so its failure is weakly fair (`Timeouts`, `CallFails`,
`CSVTimeout`) where the property is about ending, and strongly fair for the poll of the
Subscription, whose condition is evaluated again and again. The lock of the
cleanup manager is strongly fair: Go's mutexes hand over to a waiter after a
millisecond. Fairness of the operators, of OLM and of the absence of failures
is no part of a specification: it is the hypothesis of the properties that need
it (`SetupCompletes`, `InstallSucceeds`, `CleanSucceeds`), so the others hold
without. In `FatalExit` no worker is bound to finish. In `TierChecks`, `UserLifecycle`
and `SharedConfig` the operators are weakly fair in what they do (what they
leave undone is a fault, chosen beforehand) and so are the steps of a test,
whose waits fail when nothing they wait for can happen any more: the timeouts
of the code are long against the operators, and short against a test. In
`TierChecks` an operator may also be late, once, and then any wait or check may
fail before its time. In
`SharedConfig` the end of a test function is strongly fair, because a test
function is finite.

## 4. What is proved

TLAPS checks every proof to its last leaf. The theorems hold for every value of
the constants that satisfies the named assumption of the module: any finite
number of jobs, routines and users (`JobsAssumption`), of goroutines that may
fail and of nested calls (`ExitAssumption`), of objects
(`ApplyAssumption`), of tests and tasks (`ManagerAssumption`), any set of kinds
(`KindsAssumption`), any specs, changes to them and numbers of tests, updates
and lost answers (`SharedConfigAssumption`), of operators and versions
(`InstallAssumption`), any journeys of a test through the eight tiers and the custom one
(`JourneysAssumption`; a test creates its space in a built-in tier, and somebody
has a role its templates know unless inheritance is disabled) and any number of
faults and delays (`MaxFaultsAssumption`), any
requests and any sequences of verifications, deactivations, reactivations, bans
and unbans of a user (`ScenariosAssumption`; a test verifies that a user has no
space only where it asked for none), with any of the faults of the operators.
Nothing else is assumed, in particular no fairness.

| Module | Theorems | Property |
|---|---|---|
| `SetupJobsProofs` | `TypeCorrect`, `UserHandledOnce`, `NoUserLeftOut`, `TimesComplete`, `NobodyOvertaken`, `PoolsShareWork` | `TypeOK`, `EachUserOnce`, `AllUsersSetUp`, `NoTimeLost`, `NothingBeforeReady`, the refinement `SharesWork` |
| `FatalExitProofs` | `Invariance`, `TypeCorrect`, `AloneMeansDumped`, `AloneMeansOneTable`, `AlwaysVisible` | `IInv`, `TypeOK`, `MetricsDumpedAlone`, `OneTable`, `ResultsVisible` |
| `ApplyConcurrentlyProofs` | `TypeCorrect`, `NoSecondCall`, `EveryObjectApplied`, `AllGoroutinesEnd`, `ChannelsShareWork` | `TypeOK`, `AppliedOnce`, `AllApplied`, `NoGoroutineLeft`, the refinement `SharesWork` |
| `CleanupProofs` | `TypeCorrect`, `PassedTestsClean`, `TasksHoldLock`, `FailedTestsKept` of the manager | `TypeOK`, `PassedMeansClean`, `TasksUnderLock`, `FailedTestKept` |
| | `TaskTypeCorrect`, `NothingLeft`, `OrphansOnly` of a task | `TaskTypeOK`, `CleanLeavesNothing`, `OnlyOrphansDeleted` |
| `SharedConfigProofs` | `TypeCorrect`, `TestsRestore`, `NeverGone`, `VerifiedAreSynced` | `TypeOK`, `ConfigInEffect`, `ConfigThere`, `VerifiedMeansSynced` |
| `OperatorInstallProofs` | `TypeCorrect`, `InstalledSucceeded`, `OneByOne`, `UpgradesForward` | `TypeOK`, `InstalledMeansSucceeded`, `OneAtATime`, `UpgradesInOrder` |
| `TierChecksProofs` | `VerifiedAreExact`, `CountedChecksTellTruth`, `ChecksUndisturbed`, `CountsAlwaysAgree`, `RolesCounted`, `BindingsAlwaysResolve`, `RolesResolve` | `VerifiedMeansExact`, `NoFalseAlarm` for the counted kinds, `NoChangeUnderChecks`, `CountsAgree`, `NumbersAgree`, `BindingsResolve`, `Resolves` |
| `UserLifecycleProofs` | `Invariance`, `TypeCorrect`, `Provisioning`, `Dismissal`, `NothingLost`, `ToldApart`, `Informed` | `IInv`, `TypeOK`, `VerifiedMeansProvisioned`, `DismissedMeansGone`, `UpdateLosesNothing`, `StatesToldApart`, `NothingTooEarly` |

Every module follows one argument: an inductive invariant `IInv` (`CleanInv` of a
cleanup task), defined at the end of the component's module, a lemma per part of it that every step keeps that
part, the theorem `Invariance` and the properties as consequences.

* `SetupJobs`. None of the properties is inductive: that a number is handed out
  once depends on who holds the mutex between `Incr` and `Current`, that main
  goes on last depends on the counters. `LockInv` says that a routine between
  lock and unlock holds the mutex of its bar, `BarInv` that the bar stays within
  its total and that a refused routine has seen it full, `GroupInv` that each
  counter of a wait group is the number of pools or routines that are not done
  (so it never becomes negative), `ShareInv` that a number the bar has handed out
  is processed or held by exactly one routine. For `ShareInv` and for the
  refinement a step is one of three kinds (`StepKinds`): it takes a number, finishes
  one, or leaves the numbers alone. `TimeInv` adds that the sum of a bar lacks
  exactly the times of the routines between their user and `AddTimeSpent`,
  `ReadyInv` that a user who was waited for stays ready.
* `ApplyConcurrently`. `EndInv` orders the ends: source, processors, copiers,
  common channel, caller. `StageInv` puts every object at exactly one stage, and
  an object is with the API server only while a processor has it. When the
  common channel is closed, `EndInv` empties all stages, so `StageInv` leaves
  only the results of the caller.
* `CleanManager`. `LockInv` ties the lock and the wait group to the tasks that
  run, `RegistryInv` the registry to what has become of each task, and says that
  a `t.Cleanup` function is pending as long as a task of a test that has not failed is
  registered.
* `CleanTask`. The operators may change a dependent between any two steps of the
  task; what saves it is that an operator makes none once the object is gone
  (`NothingComesBack`). So a dependent that was seen gone stays gone: `EarlyInv`
  and `RoundInv` say this of the part of a round that is behind the task.
* `SharedConfig`. `ConfigInEffect` is not inductive: while an update is under
  way the configuration may be either of two, and a lost answer leaves the new
  one with an update that will be sent again. `Chain` says that each cleanup
  function restores what the one below it had written, `OnlyFirstCreates` that
  only the first of them may delete the configuration, so that none of the
  others can find it gone. A cleanup that restores shortens the chain
  (`ChainShortened`), an update extends it (`ChainExtended`).
* `OperatorInstall`. OLM may move the Subscription on and replace the CSV
  between any two steps of a round. What was seen stays true because OLM deletes
  a CSV only when a newer one has taken its place (`StaysInstalled`): `RoundInv`
  keeps this for the CSV of the round at hand, `VerifiedInv` for the templates
  before it, `SeenInv` bounds the versions a round has seen by the current one.
* `FatalExit`. None of the properties is inductive: they speak of a goroutine
  that leaves alone, `Leaving = {p}`. `PlaceInv` says that whoever is not on its
  way out holds no copy of the rows, `StartInv` that nothing is written before
  somebody leaves, `AloneInv` that a goroutine that leaves alone finds the rows
  as it left them, with the metrics from its third append on, `TableInv` what
  rows, console and file hold at each place it passes, `ConsoleInv` that whoever
  is past its first hook has given stdout back, `EndInv` that the process ends
  by somebody's last step.
* `SharedConfig`, the wait for the members: `ExpectInv` says that the spec a call
  waits for is the one the configuration has in effect, as nothing else writes
  it while the call is under way.
* `TierChecks`. `VerifiedMeansExact` speaks of the cluster at the end of a
  verification, while every check looks at it once, at some time before. What
  connects them is that the operator has nothing to do in the first two phases
  from the wait for the template refs to the next change of the test: `RestInv`
  (the spec has the refs of the space, and both phases are reported), which
  needs `SyncInv` (refs change only from such a state) and `TierInv` (which tier
  the test believes in). Then the counted objects are frozen (`Frozen`), so a
  check of them that passed still would (`CheckedInv`), and the tables turn
  checks that pass into equality of sets: all named objects are there, and no
  more than their number (`NamespaceCounts`, `ClusterCounts`, `Exactly`). That
  none is left over follows only because the numbers of the tables are those of
  the named objects. `RunningInv` alone gives `ChecksUndisturbed`. For
  `CountedChecksTellTruth` the invariant is `AlarmInv`. As long as there is no
  fault, a phase that is reported is applied (`Applied`, `Marked`), so that every
  check that runs passes (`ChecksPass`). A wait times out without a fault only
  when the operators have nothing left to do, and then all waits but one hold
  (`WaitsHold`): the namespaces reported are those that are there
  (`FinishedInv`), the tier of the set is the one asked for, and somebody has a
  role that its templates know (`JourneyInv`). The one that remains is for the roles of a
  shared space, and it can fail for nothing but the order: the roles it
  lists are those of the tier (`ListedInv`), and one role has one order
  (`OneOrder`).
* `UserLifecycle`. `VerifiedMeansProvisioned` and `DismissedMeansGone` speak of
  one moment, while the test has looked at one object after the other and the
  operators have gone on. So the invariant says, for each step that is behind
  the test in its part (`Behind`), that what it saw is still so: `VerifyInv` for
  a user who is to be provisioned, `DoomedInv` for one who is being dismissed.
  The first holds because operators take nothing from a user who is neither
  banned nor deactivated (`ProvidedStays`, from `LiveInv`: nothing of such a
  user is on its way out, and a binding has a MasterUserRecord and a Space), the
  second because they bring nothing back to one who is (`DismissedStays`). What
  connects the parts is that a dismissed user has nothing left once the part
  that dismisses the user has passed (`DoomedInv`), so that a reactivation
  starts from nothing: a part relies on none but the invariant before it, which
  is why the scenarios may be any sequence. `DeactivatedInv` excludes a user who
  is banned as well as deactivated, except where the test is about to fail: the
  wait for the notification or for the conditions of the ban cannot hold then.
  `NoteInv` keeps a notification from outliving its deactivation,
  `SignupInv` says that nothing exists before the signup, `ResourceInv` that
  what is gone has left nothing. The order of the steps in each part is what
  these arguments need of it and a lemma each (`ProvisionedOrder`,
  `GoneOrder`, ...): a verification that asks for a Space looks at the Space,
  its NSTemplateSet and its binding before it passes.
  `Informed` adds `SeenInv` to this: the status is filled before the conditions
  say so (`StatusInv`), the copy a wait returned holds what the wait saw
  (`HeldInv`), and the conditions of a ban outlive the ban only while the user
  is being unbanned (`BannedInv`).
* The sets of `Conditions`. `ConditionSet` is stated by what it returns: a
  condition of one set counts unless a later set has one of its type. Each of
  the ten states of users who are not active has one condition of type
  `Complete`, and never the one of an active user (`OtherReasons`); the states
  that share it differ in their approval or in the notifications
  (`NoClusterStates`, `DeactivatedStates`).
* The tables of `TierCatalogue`. `CountsAgree` and `BindingsResolve` are
  statements about constants, which TLC evaluates for seven sets of grants.
  `RolesCounted` proves the first for any finite set of users with one role
  each, by counting two bindings per user that never coincide (`TwoEach`), and
  `RolesResolve` the second for any grants. A viewer is the exception of both:
  `appstudioViewerUserActionsRole` (`checks.go:1807`) looks for the role of a
  contributor, while the binding checked for a viewer (`checks.go:395`) names
  `appstudio-viewer-user-actions`, which no check looks for. So the binding of a
  viewer resolves to nothing, which the second states as well, and a viewer next
  to a contributor is counted as two roles where one is looked for.

`TypeOK`, `AppliedOnce`, `NoGoroutineLeft`, `NothingBeforeReady`,
`FailedTestKept`, `OneAtATime`, `UpgradesInOrder` and
`NothingTooEarly` hold for all instances by these proofs
and are in no run's list.

## 5. What is only model-checked

Liveness (`SetupEnds`, `SetupCompletes`, `FatalEnds`, `Returns`, `InstallEnds`,
`InstallSucceeds`, `CleanEnds`, `CleanSucceeds`, `TestsEnd`) needs fairness and
ENABLED, which the prover does not handle; `VerificationEnds`, `TestEnds` and
the liveness of `SharedConfig` likewise.

`NoFalseAlarm` of `TierChecks` is proved for journeys that follow the counted
kinds, waits for roles included, and checked on the journeys of the run for the
checks of roles and role bindings. For
those it is no theorem: a test that takes new bindings back before the member
operator has reported them meets an operator that believes the old ones are
still applied, and its check of the roles fails (`TierChecksBack.cfg`). It is
the consequence of the second finding of section 6. The exception of
`NoFalseAlarm`, a wait for roles in another order, is not a weakness of the proof:
without it (`NoAlarmAtAll`) the property is false (`TierChecksOrder.cfg`).

`NoFalseAlarm` of `UserLifecycle` is checked on the scenarios of section 3. A wait
times out when the operators have nothing left to do (`Quiet`), which is a
statement about ENABLED, so that this property is as much out of the prover's
reach as the liveness is. What does not depend on a timeout is proved: no
assertion looks at a copy too early and no wait for a name that is not known
(`NothingTooEarly`). It excludes what a test itself gets wrong: a request for a
cluster under automatic approval (`noAutoApproval`), and waits that need the
name although the request did not wait for the conditions of an active user.

The properties of the violation runs are false. No module has a recursive
operator, so nothing stays unproved for that reason.

## 6. Findings

Disagreements between the code and a comment next to it, or what it is for. Those with a
run are listed with both lines under `findings` in `PROJECT.json`:

* `setup/operators/operators.go` 129: the Subscription is compared with the
  object that was read before the sleep (`install_upgrade`).
* `testsupport/tiers/nstemplateset.go` 167: `Status.SpaceRoles` is compared with
  itself (`tiers_status`). A verification may therefore end before the roles are
  reported, and a test that goes back to the bindings of before may fail
  although no operator got anything wrong (`TierChecksBack.cfg`, with the member
  operator as it is modelled).
* `testsupport/wait/member.go` 654: the roles a shared space is expected to have
  are listed in the order of a Go map, which is random, and compared with the
  sequence in the NSTemplateSet (672). With two roles in use, as in
  `proxy_test.go` 613, the wait of `user_assertions.go` 265 can time out although
  every operator has done its work (`TierChecksOrder.cfg`).
* `testsupport/signup_request.go` 271: `VerificationRequired` is set on the
  object read before the update (`signup_verification`).
* `setup/results/results.go` 48: two workers that fail together overwrite each
  other's rows, the metrics are lost, though the comment at `root.go` 271
  promises them "even if there's a fatal error" (`FatalExitTwo.cfg`).
* `setup/terminal/terminal.go` 83: a fatal error during a sample, or with a full
  disk, ends the process with another code than the 1 of line 82
  (`FatalExitCode.cfg`).
* `setup/templates/template.go` 146: an apply refused with a conflict is not
  retried, against the comment at line 142 (`ApplyConcurrentlyRetry.cfg`).
* `testsupport/cleanup/clean.go` 140: the revisions of a tier that is already
  gone are not looked at, against the comment at line 146
  (`CleanTaskRevisions.cfg`).

Met on the way and neither checked nor modelled: a UserSignup is left behind
when `Execute` fails before it registers the cleanup (`signup_request.go` 325);
`CreateNamespace` polls the object of the create call (`awaitility.go` 449);
`UpdateSpaceBindingRequest` says it retries and does not (`member.go` 1384);
a query that fails before the second exit hook is registered loses the metrics
(`root.go` 263-272); the branch of
`UpdateToolchainConfig` that creates the configuration again during the restore
is unreachable (`ConfigThere`) and would be refused, since it sends a resource
version; `appstudioViewerUserActionsRole` looks for the role of a contributor
(`checks.go` 1807).

## 7. Not modelled

The authentication, configuration and Prometheus parts of `setup` and the kube
clients are I/O around single calls; the unlocked map of parsed templates is a
data race, for which Go promises nothing a model could state. In `testsupport`
the start-up in `init.go`, the metrics baseline, SpaceRequests and
SpaceBindingRequests, the SpaceProvisionerConfigs (the update of `doUpdate`,
which `UserLifecycle` has), the migration setup and the waits for pods,
workloads, webhooks and routes are lists of single polls of objects that no
modelled part touches. The suites under `test/` are clients; the steps of the
user management suite that ban a user are part of `UserLifecycle`.

## 8. What could follow

`NoFalseAlarm` of `TierChecks` for roles needs a hypothesis on journeys
that excludes the one of `TierChecksBack.cfg`.
`CreateSpaceAndSpaceBinding` next to the operator that
removes Spaces without a binding is the next part worth a module.
