---------------------------- MODULE SharedConfig ----------------------------
(***************************************************************************)
(* The ToolchainConfig that all tests share (testsupport/wait/host.go):    *)
(* UpdateToolchainConfig changes it for a test, retries the update on a    *)
(* fresh copy while the host operator writes its status, and puts the      *)
(* original back when the test ends.  A test may update it several times   *)
(* and run subtests that update it too, one after the other; the tests     *)
(* that change it do not run next to each other.                           *)
(*                                                                         *)
(* External: the host operator, which hands the configuration to the       *)
(* member clusters, and the API server, which may lose an answer.          *)
(***************************************************************************)
EXTENDS Naturals, Sequences

CONSTANTS
  Specs,       (* the specs a configuration can have                        *)
  Options,     (* what tests do to a spec: functions on Specs               *)
  Blank,       (* the spec of a configuration that a test creates           *)
  Absent,      (* no configuration                                          *)
  MaxTests,    (* bound: tests and subtests                                 *)
  MaxUpdates,  (* bound: updates                                            *)
  MaxLost      (* bound: answers that get lost                              *)

ASSUME SharedConfigAssumption ==
  /\ Options \subseteq [Specs -> Specs]
  /\ Blank \in Specs
  /\ Absent \notin Specs
  /\ MaxTests \in Nat /\ MaxUpdates \in Nat /\ MaxLost \in Nat

VARIABLES
  initial,   (* the spec before the tests, or Absent                        *)
  spec,      (* the spec of the configuration, or Absent                    *)
  synced,    (* the spec of the operator's last status                      *)
  member,    (* the spec that the members have                              *)
  tests,     (* the tests that run, outermost first: how many cleanup       *)
             (* functions were registered before each of them               *)
  ending,    (* the innermost test runs its cleanup functions               *)
  cleanups,  (* the cleanup functions: what to put back, and what the       *)
             (* update that registered each of them had written             *)
  call,      (* the update with retries under way                           *)
  read,      (* the configuration it has read                               *)
  expected,  (* what a verification expects on the members                  *)
  failed,    (* an update was given up                                      *)
  started, updates, lost

config == <<spec, synced>>
runner == <<tests, ending, cleanups>>
budget == <<started, updates, lost>>
vars   == <<initial, spec, synced, member, runner, call, read, expected, failed, budget>>

Updates == [is : {"update", "restore"}, spec : Specs, original : Specs]
NoCall  == [is |-> "none"]
NoRead  == <<>>
Nothing == <<>>

Entries == [original : Specs \cup {Absent}, applied : Specs]

TypeOK ==
  /\ initial \in Specs \cup {Absent}
  /\ spec \in Specs \cup {Absent} /\ synced \in Specs \cup {Absent} /\ member \in Specs
  /\ tests \in Seq(Nat)
  /\ ending \in BOOLEAN /\ failed \in BOOLEAN
  /\ cleanups \in Seq(Entries)
  /\ call \in Updates \cup {NoCall}
  /\ started \in Nat /\ updates \in Nat /\ lost \in Nat

-----------------------------------------------------------------------------
Init == /\ initial \in Specs \cup {Absent}
        /\ spec = initial /\ synced = initial
        /\ member \in Specs
        /\ tests = <<>> /\ ending = FALSE /\ cleanups = <<>>
        /\ call = NoCall /\ read = NoRead
        /\ expected = Nothing
        /\ failed = FALSE
        /\ started = 0 /\ updates = 0 /\ lost = 0

Innermost == tests[Len(tests)]
Latest    == cleanups[Len(cleanups)]
Idle      == call = NoCall /\ expected = Nothing

(* What is in effect as long as nothing else is written.                    *)
Effective == IF cleanups = <<>> THEN initial ELSE Latest.applied

(* The body of the innermost test runs.                                     *)
Running == tests # <<>> /\ ~ending /\ Idle

(* A test starts, or a subtest of the one that runs.                        *)
StartTest == /\ started < MaxTests
             /\ tests = <<>> \/ Running
             /\ tests' = Append(tests, Len(cleanups))
             /\ started' = started + 1
             /\ UNCHANGED <<initial, config, member, ending, cleanups, call, read, expected, failed, updates, lost>>

EndTest == /\ Running
           /\ ending' = TRUE
           /\ UNCHANGED <<initial, config, member, tests, cleanups, call, read, expected, failed, budget>>

(* Faulty variant: the original is not a copy, and gets the options too.    *)
UpdateWithoutCopy(option) ==
  /\ spec # Absent
  /\ call' = [is |-> "update", spec |-> option[spec], original |-> option[spec]]
  /\ UNCHANGED <<config, cleanups>>

(* UpdateToolchainConfig of an existing configuration: the update itself is *)
(* done in rounds.                                                          *)
UpdateExisting(option) ==
  /\ spec # Absent
  /\ call' = [is |-> "update", spec |-> option[spec], original |-> spec]
  /\ UNCHANGED <<config, cleanups>>

CreateNew(option) ==
  /\ spec = Absent
  /\ spec' = option[Blank]
  /\ synced' = Absent
  /\ cleanups' = Append(cleanups, [original |-> Absent, applied |-> option[Blank]])
  /\ UNCHANGED call

UpdateToolchainConfig == /\ Running
                         /\ updates < MaxUpdates
                         /\ updates' = updates + 1
                         /\ \E option \in Options : UpdateExisting(option) \/ CreateNew(option)
                         /\ UNCHANGED <<initial, member, tests, ending, read, expected, failed, started, lost>>

(* Faulty variant: one cleanup function runs at the end of a test.          *)
CleanUpOnce == /\ ending /\ Idle
               /\ Len(cleanups) > Innermost
               /\ cleanups' = SubSeq(cleanups, 1, Len(cleanups) - 1)
               /\ tests' = SubSeq(tests, 1, Len(tests) - 1)
               /\ ending' = FALSE
               /\ spec' = Latest.original
               /\ UNCHANGED <<initial, synced, member, call, read, expected, failed, budget>>

(* Faulty variant: the cleanup function registered first runs first.        *)
CleanUpInOrder == /\ ending /\ Idle
                  /\ Len(cleanups) > Innermost
                  /\ LET first == cleanups[Innermost + 1]
                     IN  IF first.original = Absent
                         THEN spec' = Absent /\ UNCHANGED call
                         ELSE call' = [is |-> "restore", spec |-> first.original, original |-> first.original] /\ UNCHANGED spec
                  /\ cleanups' = SubSeq(cleanups, 1, Innermost) \o SubSeq(cleanups, Innermost + 2, Len(cleanups))
                  /\ UNCHANGED <<initial, synced, member, tests, ending, read, expected, failed, budget>>

(* The cleanup functions run last in, first out, when the test ends: one    *)
(* deletes the configuration its test created, the others update it (it is  *)
(* there: ConfigThere; the code would create one that is gone).             *)
CleanUp == /\ ending /\ Idle
           /\ Len(cleanups) > Innermost
           /\ IF Latest.original = Absent
              THEN /\ spec' = Absent
                   /\ synced' = Absent
                   /\ cleanups' = SubSeq(cleanups, 1, Len(cleanups) - 1)
                   /\ UNCHANGED call
              ELSE /\ call' = [is |-> "restore", spec |-> Latest.original, original |-> Latest.original]
                   /\ UNCHANGED <<config, cleanups>>
           /\ UNCHANGED <<initial, member, tests, ending, read, expected, failed, budget>>

TestOver == /\ ending /\ Idle
            /\ Len(cleanups) <= Innermost
            /\ tests' = SubSeq(tests, 1, Len(tests) - 1)
            /\ ending' = FALSE
            /\ UNCHANGED <<initial, config, member, cleanups, call, read, expected, failed, budget>>

-----------------------------------------------------------------------------
(* updateToolchainConfigWithRetry                                          *)

Get == /\ call # NoCall /\ read = NoRead
       /\ read' = config
       /\ UNCHANGED <<initial, config, member, runner, call, expected, failed, budget>>

(* What follows the update: its cleanup function is registered, or the one  *)
(* that made it is done.                                                    *)
Finish == /\ call' = NoCall
          /\ cleanups' = IF call.is = "update" THEN Append(cleanups, [original |-> call.original, applied |-> call.spec])
                         ELSE SubSeq(cleanups, 1, Len(cleanups) - 1)

Put == /\ read # NoRead /\ read = config
       /\ spec' = call.spec
       /\ Finish
       /\ read' = NoRead
       /\ UNCHANGED <<initial, synced, member, tests, ending, expected, failed, budget>>

(* The object was modified since it was read.                               *)
PutConflicts == /\ read # NoRead /\ read # config
                /\ read' = NoRead
                /\ UNCHANGED <<initial, config, member, runner, call, expected, failed, budget>>

(* The update is made and its answer lost: the next round makes it again.   *)
PutAnswerLost == /\ read # NoRead /\ read = config
                 /\ lost < MaxLost
                 /\ lost' = lost + 1
                 /\ spec' = call.spec
                 /\ read' = NoRead
                 /\ UNCHANGED <<initial, synced, member, runner, call, expected, failed, started, updates>>

(* The rounds time out after an answer got lost (or after any other error   *)
(* that lasts): the test, or the cleanup function, ends at the failed       *)
(* requirement.                                                             *)
GiveUp == /\ call # NoCall /\ read = NoRead
          /\ lost = MaxLost /\ MaxLost > 0
          /\ failed' = TRUE
          /\ call' = NoCall
          /\ ending' = TRUE
          /\ cleanups' = IF call.is = "restore" THEN SubSeq(cleanups, 1, Len(cleanups) - 1) ELSE cleanups
          /\ UNCHANGED <<initial, config, member, tests, read, expected, budget>>

-----------------------------------------------------------------------------
(* VerifyToolchainConfig and VerifyMemberOperatorConfig                    *)

(* The condition of a synced status does not tell of which spec.            *)
Verify == /\ Running
          /\ spec # Absent
          /\ synced # Absent
          /\ expected' = <<spec>>
          /\ UNCHANGED <<initial, config, member, runner, call, read, failed, budget>>

(* Faulty variant: the condition of a synced status is enough.              *)
TrustStatus == synced # Absent

(* UntilMemberConfigMatches                                                 *)
MemberConfigMatches == member = expected[1]

WaitForMemberOperatorConfig == /\ expected # Nothing
                               /\ MemberConfigMatches
                               /\ expected' = Nothing
                               /\ UNCHANGED <<initial, config, member, runner, call, read, failed, budget>>

(* The host operator (external).                                            *)
SyncMember == /\ spec # Absent /\ member # spec
              /\ member' = spec
              /\ UNCHANGED <<initial, config, runner, call, read, expected, failed, budget>>

SyncStatus == /\ spec # Absent /\ member = spec /\ synced # spec
              /\ synced' = spec
              /\ UNCHANGED <<initial, spec, member, runner, call, read, expected, failed, budget>>

-----------------------------------------------------------------------------
Operator == SyncMember \/ SyncStatus

TestStep == \/ StartTest \/ EndTest \/ UpdateToolchainConfig \/ CleanUp \/ TestOver
            \/ Get \/ Put \/ PutConflicts \/ PutAnswerLost \/ GiveUp
            \/ Verify \/ WaitForMemberOperatorConfig

Next == Operator \/ TestStep

Spec == Init /\ [][Next]_vars

(* The operator syncs, a test goes on whenever it can, and the body of a    *)
(* test, which may verify again and again, has an end.                      *)
FairSpec == Spec /\ WF_vars(Operator) /\ WF_vars(TestStep) /\ SF_vars(EndTest)

-----------------------------------------------------------------------------
(* Properties.                                                             *)

(* Unless an update was given up, the configuration is at any time the one  *)
(* that the latest update wrote that was not restored yet, each one knows   *)
(* what the one before it wrote, and without any of them it is what it was  *)
(* before the tests, or absent again (what UpdateToolchainConfig promises). *)
ConfigInEffect ==
  ~failed =>
    /\ call = NoCall => spec = Effective
    /\ \A i \in 1..Len(cleanups) :
         cleanups[i].original = IF i = 1 THEN initial ELSE cleanups[i - 1].applied

(* Whatever was given up before, no round of an update finds that there is  *)
(* no configuration (the code would dereference nil), and no restore has to *)
(* create it (it would be refused, for its resource version).               *)
ConfigThere == call # NoCall => spec # Absent

(* When the wait for the members ends, they have the spec that the          *)
(* configuration has now, not one that was synced before.                   *)
VerifiedMeansSynced == [][expected # Nothing /\ expected' = Nothing => member = spec]_vars

(* Every test ends, with all its cleanup functions run.                     *)
TestsEnd == []<>(tests = <<>> /\ cleanups = <<>>)
=============================================================================
