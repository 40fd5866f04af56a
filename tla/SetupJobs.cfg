SPECIFICATION TimeoutSpec
CONSTANTS
  Job <- MCJob
  SignupJob = "signup"
  IdlerJob = "idler"
  Routine <- MCRoutine
  JobOf <- MCJobOf
  Total <- MCTotal
  Free = Free
  Faults = TRUE
  s1 = s1
  s2 = s2
  i1 = i1
INVARIANTS EachUserOnce AllUsersSetUp NoTimeLost
PROPERTIES SharesWork SetupEnds SetupCompletes
