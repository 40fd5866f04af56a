------------------------- MODULE SharedConfigProofs -------------------------
(***************************************************************************)
(* The shared configuration is what the open tests made of it, and there   *)
(* whenever it is updated, for all specs, options and numbers of tests.    *)
(***************************************************************************)
EXTENDS SharedConfig, SequenceTheorems, TLAPS

(* The inductive invariant: the cleanup functions are a chain, the update   *)
(* under way continues or undoes it, and only its first link may have       *)
(* created the configuration.                                               *)
Chain == \A i \in 1..Len(cleanups) :
           cleanups[i].original = IF i = 1 THEN initial ELSE cleanups[i - 1].applied

OnlyFirstCreates == \A i \in 2..Len(cleanups) : cleanups[i].original \in Specs

IInv ==
  /\ TypeOK
  /\ ~failed => Chain
  /\ ~failed /\ call = NoCall => spec = Effective
  /\ ~failed /\ call.is = "update" => call.original = Effective
  /\ call.is = "restore" => cleanups # <<>> /\ call.spec = Latest.original
  /\ spec = Absent => cleanups = <<>> /\ call = NoCall
  /\ OnlyFirstCreates
  /\ ending \/ call # NoCall => tests # <<>>
  /\ read # NoRead => call # NoCall

-----------------------------------------------------------------------------
(* A sequence without its last element.                                     *)
LEMMA FrontFacts ==
  ASSUME NEW S, NEW s \in Seq(S), s # <<>>, NEW t, t = SubSeq(s, 1, Len(s) - 1)
  PROVE  /\ t \in Seq(S)
         /\ Len(t) = Len(s) - 1
         /\ \A i \in 1..Len(t) : t[i] = s[i]
         /\ t = <<>> <=> Len(s) = 1
  <1>1. PICK n \in Nat : n = Len(s) - 1 /\ Len(s) = n + 1
    BY EmptySeq
  <1>2. \A i \in 1..n : s[i] \in S
    BY <1>1
  <1>3. t = SubSeq(s, 1, n)
    BY <1>1
  <1>4. /\ t \in Seq(S)
        /\ Len(t) = IF 1 <= n THEN n - 1 + 1 ELSE 0
        /\ \A i \in 1..(n - 1 + 1) : t[i] = s[1 + i - 1]
    BY <1>2, <1>3, SubSeqProperties
  <1>5. Len(t) = n
    <2>1. Len(t) = IF 1 <= n THEN n - 1 + 1 ELSE 0
      BY <1>4
    <2>2. CASE 1 <= n
      BY <2>1, <2>2
    <2>3. CASE n = 0
      BY <2>1, <2>3
    <2> QED BY <2>2, <2>3
  <1>6. \A i \in 1..n : t[i] = s[i]
    BY <1>4
  <1>7. t = <<>> <=> n = 0
    BY <1>4, <1>5, EmptySeq
  <1> QED BY <1>1, <1>4, <1>5, <1>6, <1>7

(* A sequence with one more element.                                        *)
LEMMA AppendFacts ==
  ASSUME NEW S, NEW s \in Seq(S), NEW e \in S, NEW t, t = Append(s, e)
  PROVE  /\ t \in Seq(S)
         /\ Len(t) = Len(s) + 1
         /\ t # <<>>
         /\ \A i \in 1..Len(s) : t[i] = s[i]
         /\ t[Len(t)] = e
  OBVIOUS

(* An update that is done extends the chain.                                *)
LEMMA ChainExtended ==
  ASSUME TypeOK, NEW e \in Entries, cleanups' = Append(cleanups, e), initial' = initial,
         OnlyFirstCreates, cleanups # <<>> => e.original \in Specs
  PROVE  /\ Chain /\ e.original = Effective => Chain'
         /\ OnlyFirstCreates'
         /\ cleanups' # <<>> /\ cleanups' \in Seq(Entries)
         /\ Effective' = e.applied
  <1>1. cleanups \in Seq(Entries)
    BY DEF TypeOK
  <1>2. /\ cleanups' \in Seq(Entries) /\ cleanups' # <<>>
        /\ Len(cleanups') = Len(cleanups) + 1
        /\ \A i \in 1..Len(cleanups) : cleanups'[i] = cleanups[i]
        /\ cleanups'[Len(cleanups')] = e
    BY <1>1, AppendFacts
  <1>3. cleanups = <<>> <=> Len(cleanups) = 0
    BY <1>1
  <1>4. OnlyFirstCreates'
    BY <1>1, <1>2, <1>3 DEF OnlyFirstCreates
  <1>5. Effective' = e.applied
    BY <1>2 DEF Effective, Latest
  <1>6. ASSUME Chain, e.original = Effective PROVE Chain'
    <2> SUFFICES ASSUME NEW i \in 1..Len(cleanups')
                 PROVE  cleanups'[i].original = IF i = 1 THEN initial ELSE cleanups'[i - 1].applied
      BY DEF Chain
    <2>1. CASE i \in 1..Len(cleanups)
      BY <1>1, <1>2, <1>6, <2>1 DEF Chain
    <2>2. CASE i = Len(cleanups')
      BY <1>1, <1>2, <1>3, <1>6, <2>2 DEF Effective, Latest
    <2> QED BY <1>1, <1>2, <2>1, <2>2
  <1> QED BY <1>2, <1>4, <1>5, <1>6

(* A cleanup function that is done takes the last link off the chain.       *)
LEMMA ChainShortened ==
  ASSUME TypeOK, cleanups # <<>>, cleanups' = SubSeq(cleanups, 1, Len(cleanups) - 1), initial' = initial,
         OnlyFirstCreates
  PROVE  /\ Chain => Chain' /\ Latest.original = Effective'
         /\ OnlyFirstCreates'
         /\ cleanups' \in Seq(Entries)
         /\ Latest.original = Absent => cleanups' = <<>>
  <1>1. cleanups \in Seq(Entries) /\ Len(cleanups) \in Nat /\ Len(cleanups) > 0
    BY DEF TypeOK
  <1>2. /\ cleanups' \in Seq(Entries)
        /\ Len(cleanups') = Len(cleanups) - 1
        /\ \A i \in 1..Len(cleanups') : cleanups'[i] = cleanups[i]
        /\ cleanups' = <<>> <=> Len(cleanups) = 1
    BY <1>1, FrontFacts
  <1>4. OnlyFirstCreates'
    BY <1>1, <1>2 DEF OnlyFirstCreates
  <1>5. Chain => Chain'
    BY <1>1, <1>2 DEF Chain
  <1>6. ASSUME Chain PROVE Latest.original = Effective'
    BY <1>1, <1>2, <1>6 DEF Chain, Latest, Effective
  <1>7. ASSUME Latest.original = Absent PROVE cleanups' = <<>>
    <2>1. Len(cleanups) \notin 2..Len(cleanups)
      BY <1>7, SharedConfigAssumption DEF OnlyFirstCreates, Latest
    <2> QED BY <1>1, <1>2, <2>1
  <1> QED BY <1>2, <1>4, <1>5, <1>6, <1>7

-----------------------------------------------------------------------------
(* The invariant holds at the start.                                        *)
LEMMA InitInvariant == Init => IInv
  <1> SUFFICES ASSUME Init PROVE IInv
    OBVIOUS
  <1>1. TypeOK
    <2>1. tests \in Seq(Nat) /\ cleanups \in Seq(Entries)
      BY EmptySeq DEF Init
    <2>2. call \in Updates \cup {NoCall}
      BY DEF Init
    <2>3. ending \in BOOLEAN /\ failed \in BOOLEAN
      BY DEF Init
    <2>4. started \in Nat /\ updates \in Nat /\ lost \in Nat
      BY DEF Init
    <2> QED BY <2>1, <2>2, <2>3, <2>4 DEF Init, TypeOK
  <1>2. Chain /\ OnlyFirstCreates
    BY DEF Init, Chain, OnlyFirstCreates
  <1>3. spec = Effective
    BY DEF Init, Effective
  <1>4. ~ending /\ call = NoCall /\ call.is = "none" /\ read = NoRead /\ cleanups = <<>>
    BY DEF Init, NoCall
  <1> QED BY <1>1, <1>2, <1>3, <1>4 DEF IInv

(* What a step that leaves the chain and the update alone keeps.            *)
LEMMA Untouched ==
  ASSUME IInv, UNCHANGED <<initial, spec, cleanups, call, failed>>, TypeOK',
         ending' \/ call' # NoCall => tests' # <<>>, read' # NoRead => call' # NoCall
  PROVE  IInv'
  BY DEF IInv, Chain, OnlyFirstCreates, Effective, Latest

LEMMA UpdateInvariant == IInv /\ UpdateToolchainConfig => IInv'
  <1> SUFFICES ASSUME IInv, UpdateToolchainConfig PROVE IInv'
    OBVIOUS
  <1> USE DEF IInv
  <1>1. PICK option \in Options : UpdateExisting(option) \/ CreateNew(option)
    BY DEF UpdateToolchainConfig
  <1>2. option \in [Specs -> Specs]
    BY SharedConfigAssumption
  <1>3. /\ call = NoCall /\ tests # <<>>
        /\ UNCHANGED <<initial, member, tests, ending, read, failed, started, lost>> /\ updates' = updates + 1
    BY DEF UpdateToolchainConfig, Running, Idle
  <1>4. CASE UpdateExisting(option)
    <2>1. /\ call' = [is |-> "update", spec |-> option[spec], original |-> spec]
          /\ spec \in Specs /\ UNCHANGED <<spec, synced, cleanups>>
      BY <1>4 DEF UpdateExisting, TypeOK, config
    <2>2. call' \in Updates
      BY <1>2, <2>1 DEF Updates
    <2>3. TypeOK'
      BY <1>3, <2>1, <2>2 DEF TypeOK
    <2>4. spec # Absent
      BY <2>1, SharedConfigAssumption
    <2> QED BY <1>3, <2>1, <2>3, <2>4 DEF Chain, OnlyFirstCreates, Effective, Latest, NoCall
  <1>5. CASE CreateNew(option)
    <2> DEFINE e == [original |-> Absent, applied |-> option[Blank]]
    <2>1. /\ spec = Absent /\ cleanups = <<>>
          /\ spec' = option[Blank] /\ synced' = Absent /\ cleanups' = Append(cleanups, e) /\ call' = call
      BY <1>5 DEF CreateNew
    <2>2. e \in Entries /\ spec' \in Specs
      BY <1>2, <2>1, SharedConfigAssumption DEF Entries
    <2>3. /\ Chain /\ e.original = Effective => Chain'
          /\ OnlyFirstCreates' /\ cleanups' # <<>> /\ cleanups' \in Seq(Entries)
          /\ Effective' = e.applied
      <3> HIDE DEF e
      <3> QED BY <1>3, <2>1, <2>2, ChainExtended
    <2>4. TypeOK'
      BY <1>3, <2>1, <2>2, <2>3 DEF TypeOK
    <2>5. spec' # Absent
      BY <2>2, SharedConfigAssumption
    <2>6. ~failed => e.original = Effective
      BY <1>3, <2>1
    <2> QED BY <1>3, <2>1, <2>3, <2>4, <2>5, <2>6 DEF NoCall
  <1> QED BY <1>1, <1>4, <1>5

LEMMA CleanUpInvariant == IInv /\ CleanUp => IInv'
  <1> SUFFICES ASSUME IInv, CleanUp PROVE IInv'
    OBVIOUS
  <1> USE DEF IInv
  <1>1. /\ call = NoCall /\ tests # <<>> /\ ending
        /\ UNCHANGED <<initial, member, tests, ending, read, failed, started, updates, lost>>
    BY DEF CleanUp, Idle, budget
  <1>2. cleanups # <<>>
    <2>1. Innermost \in Nat
      BY <1>1 DEF Innermost, TypeOK
    <2> QED BY <2>1 DEF CleanUp, TypeOK
  <1>3. Latest \in Entries
    BY <1>2 DEF Latest, TypeOK
  <1>4. spec # Absent
    BY <1>2
  <1>5. CASE Latest.original = Absent
    <2>1. /\ spec' = Absent /\ synced' = Absent /\ call' = call
          /\ cleanups' = SubSeq(cleanups, 1, Len(cleanups) - 1)
      BY <1>5 DEF CleanUp
    <2>2. /\ Chain => Chain' /\ Latest.original = Effective'
          /\ OnlyFirstCreates' /\ cleanups' \in Seq(Entries)
          /\ cleanups' = <<>>
      BY <1>1, <1>2, <1>5, <2>1, ChainShortened
    <2>3. TypeOK'
      BY <1>1, <2>1, <2>2 DEF TypeOK
    <2> QED BY <1>1, <1>5, <2>1, <2>2, <2>3 DEF NoCall
  <1>6. CASE Latest.original # Absent
    <2>1. /\ call' = [is |-> "restore", spec |-> Latest.original, original |-> Latest.original]
          /\ UNCHANGED <<spec, synced, cleanups>>
      BY <1>6 DEF CleanUp, config
    <2>2. call' \in Updates
      BY <1>3, <1>6, <2>1 DEF Updates, Entries
    <2>3. TypeOK'
      BY <1>1, <2>1, <2>2 DEF TypeOK
    <2> QED BY <1>1, <1>2, <1>4, <2>1, <2>3 DEF Chain, OnlyFirstCreates, Effective, Latest, NoCall
  <1> QED BY <1>5, <1>6

LEMMA PutInvariant == IInv /\ Put => IInv'
  <1> SUFFICES ASSUME IInv, Put PROVE IInv'
    OBVIOUS
  <1>0. call # NoCall
    BY DEF IInv, Put
  <1> USE DEF IInv
  <1>1. /\ spec' = call.spec /\ call' = NoCall /\ read' = NoRead
        /\ UNCHANGED <<initial, synced, member, tests, ending, failed, started, updates, lost>>
        /\ cleanups' = IF call.is = "update" THEN Append(cleanups, [original |-> call.original, applied |-> call.spec])
                       ELSE SubSeq(cleanups, 1, Len(cleanups) - 1)
    BY DEF Put, Finish, budget
  <1>2. /\ call \in Updates /\ call.spec \in Specs /\ call.original \in Specs /\ call.is \in {"update", "restore"}
        /\ call.spec # Absent
    BY <1>0, SharedConfigAssumption DEF TypeOK, Updates
  <1>3. CASE call.is = "update"
    <2> DEFINE e == [original |-> call.original, applied |-> call.spec]
    <2>1. e \in Entries /\ cleanups' = Append(cleanups, e) /\ e.original \in Specs
      BY <1>1, <1>2, <1>3 DEF Entries
    <2>2. /\ Chain /\ e.original = Effective => Chain'
          /\ OnlyFirstCreates' /\ cleanups' # <<>> /\ cleanups' \in Seq(Entries)
          /\ Effective' = e.applied
      <3> HIDE DEF e
      <3> QED BY <1>1, <2>1, ChainExtended
    <2>3. TypeOK'
      BY <1>1, <1>2, <2>2 DEF TypeOK
    <2> QED BY <1>1, <1>2, <1>3, <2>2, <2>3 DEF NoCall
  <1>4. CASE call.is = "restore"
    <2>1. cleanups # <<>> /\ cleanups' = SubSeq(cleanups, 1, Len(cleanups) - 1)
      BY <1>1, <1>4
    <2>2. /\ Chain => Chain' /\ Latest.original = Effective'
          /\ OnlyFirstCreates' /\ cleanups' \in Seq(Entries)
      BY <1>1, <2>1, ChainShortened
    <2>3. TypeOK'
      BY <1>1, <1>2, <2>2 DEF TypeOK
    <2> QED BY <1>1, <1>2, <1>4, <2>2, <2>3 DEF NoCall
  <1> QED BY <1>2, <1>3, <1>4

LEMMA AnswerLostInvariant == IInv /\ PutAnswerLost => IInv'
  <1> SUFFICES ASSUME IInv, PutAnswerLost PROVE IInv'
    OBVIOUS
  <1> USE DEF IInv
  <1>1. /\ call # NoCall /\ spec' = call.spec /\ read' = NoRead /\ lost' = lost + 1
        /\ UNCHANGED <<initial, synced, member, tests, ending, cleanups, call, failed, started, updates>>
    BY DEF PutAnswerLost, runner
  <1>2. call \in Updates /\ call.spec \in Specs /\ call.spec # Absent
    BY <1>1, SharedConfigAssumption DEF TypeOK, Updates
  <1>3. TypeOK'
    BY <1>1, <1>2 DEF TypeOK
  <1> QED BY <1>1, <1>2, <1>3 DEF Chain, OnlyFirstCreates, Effective, Latest

LEMMA GiveUpInvariant == IInv /\ GiveUp => IInv'
  <1> SUFFICES ASSUME IInv, GiveUp PROVE IInv'
    OBVIOUS
  <1> USE DEF IInv
  <1>1. /\ call # NoCall /\ read = NoRead /\ failed' = TRUE /\ call' = NoCall /\ ending' = TRUE
        /\ UNCHANGED <<initial, spec, synced, member, tests, read, started, updates, lost>>
        /\ cleanups' = IF call.is = "restore" THEN SubSeq(cleanups, 1, Len(cleanups) - 1) ELSE cleanups
    BY DEF GiveUp, config, budget
  <1>2. OnlyFirstCreates' /\ cleanups' \in Seq(Entries)
    <2>1. CASE call.is = "restore"
      BY <1>1, <2>1, ChainShortened
    <2>2. CASE call.is # "restore"
      BY <1>1, <2>2 DEF OnlyFirstCreates, TypeOK
    <2> QED BY <2>1, <2>2
  <1>3. TypeOK'
    BY <1>1, <1>2 DEF TypeOK
  <1> QED BY <1>1, <1>2, <1>3 DEF NoCall

(* The steps of tests that leave the chain and the update alone.            *)
LEMMA TestInvariant == IInv /\ (StartTest \/ EndTest \/ TestOver) => IInv'
  <1> SUFFICES ASSUME IInv, StartTest \/ EndTest \/ TestOver PROVE IInv'
    OBVIOUS
  <1>1. tests \in Seq(Nat) /\ Len(cleanups) \in Nat
    BY DEF IInv, TypeOK
  <1>2. CASE StartTest
    <2>1. tests' \in Seq(Nat) /\ tests' # <<>>
      BY <1>1, <1>2, AppendFacts DEF StartTest
    <2>2. TypeOK'
      BY <1>2, <2>1 DEF IInv, TypeOK, StartTest, config
    <2> QED BY <1>2, <2>1, <2>2, Untouched DEF IInv, StartTest, config
  <1>3. CASE EndTest
    <2>1. TypeOK' /\ tests # <<>>
      BY <1>3 DEF IInv, TypeOK, EndTest, Running, config, budget
    <2> QED BY <1>3, <2>1, Untouched DEF IInv, EndTest, config, budget
  <1>4. CASE TestOver
    <2>1. tests # <<>> /\ call' = NoCall /\ call = NoCall
      BY <1>4 DEF IInv, TestOver, Idle
    <2>2. tests' \in Seq(Nat)
      BY <1>1, <1>4, <2>1, FrontFacts DEF TestOver
    <2>3. TypeOK'
      BY <1>4, <2>2 DEF IInv, TypeOK, TestOver, config, budget
    <2> QED BY <1>4, <2>1, <2>3, Untouched DEF IInv, TestOver, config, budget
  <1> QED BY <1>2, <1>3, <1>4

(* The steps that only read, and those of the operator.                     *)
LEMMA OtherInvariant ==
  IInv /\ (Get \/ PutConflicts \/ Verify \/ WaitForMemberOperatorConfig \/ Operator \/ UNCHANGED vars) => IInv'
  <1> SUFFICES ASSUME IInv,
                      Get \/ PutConflicts \/ Verify \/ WaitForMemberOperatorConfig \/ Operator \/ UNCHANGED vars
               PROVE  IInv'
    OBVIOUS
  <1>1. UNCHANGED <<initial, spec, tests, ending, cleanups, call, failed, started, updates, lost>>
    BY DEF Get, PutConflicts, Verify, WaitForMemberOperatorConfig, Operator, SyncMember, SyncStatus,
           vars, config, runner, budget
  <1>2. read' # NoRead => call' # NoCall
    BY DEF IInv, Get, PutConflicts, Verify, WaitForMemberOperatorConfig, Operator, SyncMember, SyncStatus,
           vars, runner
  <1>3. TypeOK'
    <2>1. synced' \in Specs \cup {Absent} /\ member' \in Specs
      BY DEF IInv, TypeOK, Get, PutConflicts, Verify, WaitForMemberOperatorConfig, Operator, SyncMember, SyncStatus,
             vars, config
    <2> QED BY <1>1, <2>1 DEF IInv, TypeOK
  <1> QED BY <1>1, <1>2, <1>3, Untouched DEF IInv

LEMMA NextInvariant == IInv /\ [Next]_vars => IInv'
  BY UpdateInvariant, CleanUpInvariant, PutInvariant, AnswerLostInvariant, GiveUpInvariant, TestInvariant,
     OtherInvariant DEF Next, TestStep

-----------------------------------------------------------------------------
(* The types hold for all specs, options and numbers of tests.              *)
THEOREM TypeCorrect == Spec => []TypeOK
  <1>1. IInv => TypeOK
    BY DEF IInv
  <1> QED BY <1>1, InitInvariant, NextInvariant, PTL DEF Spec

(* Unless an update was given up, the configuration is what the open tests  *)
(* made of it, and what it was before when there is none.                   *)
THEOREM TestsRestore == Spec => []ConfigInEffect
  <1>1. IInv => ConfigInEffect
    BY DEF IInv, ConfigInEffect, Chain
  <1> QED BY <1>1, InitInvariant, NextInvariant, PTL DEF Spec

(* No round of an update, and no restore, finds that there is no            *)
(* configuration.                                                           *)
THEOREM NeverGone == Spec => []ConfigThere
  <1>1. IInv => ConfigThere
    BY DEF IInv, ConfigThere
  <1> QED BY <1>1, InitInvariant, NextInvariant, PTL DEF Spec
-----------------------------------------------------------------------------
(* A verification expects what the configuration is, which nobody changes   *)
(* until it ends: no update is under way.                                   *)
ExpectInv == expected # Nothing => expected = <<spec>> /\ call = NoCall

LEMMA ExpectStep == IInv /\ ExpectInv /\ [Next]_vars => ExpectInv'
  <1> SUFFICES ASSUME IInv, ExpectInv, [Next]_vars PROVE ExpectInv'
    OBVIOUS
  <1> USE DEF ExpectInv
  <1>1. CASE Verify
    BY <1>1 DEF Verify, Running, Idle, config
  <1>2. CASE WaitForMemberOperatorConfig
    BY <1>2 DEF WaitForMemberOperatorConfig
  <1>3. CASE UpdateToolchainConfig \/ CleanUp \/ EndTest \/ TestOver
    <2>1. expected = Nothing /\ expected' = expected
      BY <1>3 DEF UpdateToolchainConfig, CleanUp, EndTest, TestOver, Running, Idle
    <2> QED BY <2>1
  <1>4. CASE Put \/ PutAnswerLost \/ GiveUp \/ Get \/ PutConflicts
    <2>1. call # NoCall /\ expected' = expected
      BY <1>4 DEF IInv, Put, PutAnswerLost, GiveUp, Get, PutConflicts
    <2> QED BY <2>1
  <1>5. CASE StartTest \/ Operator \/ UNCHANGED vars
    BY <1>5 DEF StartTest, Operator, SyncMember, SyncStatus, vars, config
  <1> QED BY <1>1, <1>2, <1>3, <1>4, <1>5 DEF Next, TestStep

(* When the wait of a verification ends, the members have the spec of the   *)
(* configuration at that moment: no update comes between the two reads.     *)
THEOREM VerifiedAreSynced == Spec => VerifiedMeansSynced
  <1>1. Init => ExpectInv
    BY DEF Init, ExpectInv
  <1>2. IInv /\ ExpectInv /\ [Next]_vars => [expected # Nothing /\ expected' = Nothing => member = spec]_vars
    <2> SUFFICES ASSUME ExpectInv, Next, expected # Nothing, expected' = Nothing
                 PROVE  member = spec
      OBVIOUS
    <2>1. WaitForMemberOperatorConfig
      BY DEF Next, TestStep, Operator, StartTest, EndTest, UpdateToolchainConfig, CleanUp, TestOver, Get, Put,
             PutConflicts, PutAnswerLost, GiveUp, Verify, SyncMember, SyncStatus, Nothing
    <2>2. member = expected[1] /\ expected = <<spec>>
      BY <2>1 DEF WaitForMemberOperatorConfig, MemberConfigMatches, ExpectInv
    <2> QED BY <2>2
  <1> QED BY <1>1, <1>2, InitInvariant, NextInvariant, ExpectStep, PTL DEF Spec, VerifiedMeansSynced
=============================================================================
