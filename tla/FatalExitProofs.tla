--------------------------- MODULE FatalExitProofs ---------------------------
(***************************************************************************)
(* Proofs about FatalExit.  A goroutine never comes back from its way out, *)
(* so one that leaves alone at the end was alone all the way: the shared   *)
(* rows are those it has appended itself (AloneInv, TableInv).             *)
(***************************************************************************)
EXTENDS FatalExit, FiniteSetTheorems, SequenceTheorems, TLAPS

Places == Outgoing \cup {"work", "sampling", "done"}

(* What a step does to the place of its goroutine, the others stay.         *)
Moves(p, from, to) == /\ p \in Proc
                      /\ code = Running
                      /\ pc[p] = from
                      /\ \A q \in Proc : pc'[q] = IF q = p THEN to ELSE pc[q]

(* A step on the way out of p leaves the other goroutines alone.            *)
StaysOut(p) == /\ p \in Proc
               /\ pc[p] \in Outgoing /\ pc'[p] \in Outgoing
               /\ \A q \in Proc \ {p} : /\ pc'[q] = pc[q]
                                        /\ depth'[q] = depth[q]
                                        /\ copy'[q] = copy[q]

-----------------------------------------------------------------------------
LEMMA Procs == Main \in Proc /\ Gatherer \in Proc /\ Worker \subseteq Proc
  BY DEF Proc

LEMMA TransitionMoves ==
  ASSUME TypeOK, NEW p \in Proc, NEW from, NEW to, Transition(p, from, to)
  PROVE  Moves(p, from, to)
  BY DEF Transition, Moves, TypeOK

(* Sequences of blocks.                                                     *)
LEMMA BlockSeqs ==
  /\ <<>> \in Seq(Blocks)
  /\ \A s \in Seq(Blocks), b \in Blocks : Append(s, b) \in Seq(Blocks)
  /\ \A s, t \in Seq(Blocks) : s \o t \in Seq(Blocks)
  OBVIOUS

LEMMA AfterBlocks ==
  /\ AfterBlock("header") = "general"
  /\ AfterBlock("general") = "compute"
  /\ AfterBlock("metrics") = "print"
  BY DEF AfterBlock

(* The kinds in a sequence of rows that grows.                              *)
LEMMA KindsAppend ==
  ASSUME NEW s \in Seq(Blocks), NEW b \in Blocks
  PROVE  b \in Kinds(Append(s, b))
  <1>1. Len(Append(s, b)) \in 1..Len(Append(s, b)) /\ Append(s, b)[Len(Append(s, b))] = b
    OBVIOUS
  <1> QED BY <1>1 DEF Kinds

LEMMA KindsConcat ==
  ASSUME NEW s \in Seq(Blocks), NEW t \in Seq(Blocks), NEW b \in Kinds(s) \cup Kinds(t)
  PROVE  b \in Kinds(s \o t)
  <1>1. CASE b \in Kinds(s)
    <2>1. PICK i \in 1..Len(s) : b = s[i]
      BY <1>1 DEF Kinds
    <2>2. i \in 1..Len(s \o t) /\ (s \o t)[i] = b
      BY <2>1
    <2> QED BY <2>2 DEF Kinds
  <1>2. CASE b \in Kinds(t)
    <2>1. PICK i \in 1..Len(t) : b = t[i]
      BY <1>2 DEF Kinds
    <2>2. Len(s) + i \in 1..Len(s \o t) /\ (s \o t)[Len(s) + i] = b
      BY <2>1
    <2> QED BY <2>2 DEF Kinds
  <1> QED BY <1>1, <1>2

-----------------------------------------------------------------------------
(* The types hold in every reachable state.                                 *)
LEMMA TypeStep == TypeOK /\ [Next]_vars => TypeOK'
  <1> SUFFICES ASSUME TypeOK, [Next]_vars PROVE TypeOK'
    OBVIOUS
  <1> USE ExitAssumption, Procs DEF TypeOK, Transition, Outgoing
  <1>1. ASSUME NEW w \in Worker, WorkerDone(w) PROVE TypeOK'
    BY <1>1 DEF WorkerDone
  <1>2. CASE MainGoesOn
    BY <1>2 DEF MainGoesOn
  <1>3. CASE MainReturns
    BY <1>3 DEF MainReturns
  <1>4. CASE SampleBegin \/ SampleEnd
    BY <1>4 DEF SampleBegin, SampleEnd
  <1>5. ASSUME NEW p \in Proc, RestoreHook(p) \/ ComputeResults(p) \/ Errorf(p) PROVE TypeOK'
    BY <1>5 DEF RestoreHook, ComputeResults, Errorf
  <1>6. ASSUME NEW p \in Proc, AppendRead(p) PROVE TypeOK'
    BY <1>6 DEF AppendRead
  <1>7. ASSUME NEW p \in Proc, AppendWrite(p) PROVE TypeOK'
    <2>1. copy[p] \in Seq(Blocks) /\ pc[p] \in Blocks
      BY <1>7 DEF AppendWrite
    <2>2. rows' \in Seq(Blocks)
      BY <1>7, <2>1, BlockSeqs DEF AppendWrite
    <2>3. AfterBlock(pc[p]) \in Outgoing
      BY <2>1, AfterBlocks DEF Blocks
    <2> QED BY <1>7, <2>2, <2>3 DEF AppendWrite
  <1>8. ASSUME NEW p \in Proc, WriteConsole(p) PROVE TypeOK'
    <2>1. console' \in Seq(Blocks)
      BY <1>8, BlockSeqs DEF WriteConsole
    <2> QED BY <1>8, <2>1 DEF WriteConsole
  <1>9. ASSUME NEW p \in Proc, WriteFile(p) PROVE TypeOK'
    <2>1. file' \in Seq(Blocks)
      BY <1>9, BlockSeqs DEF WriteFile
    <2> QED BY <1>9, <2>1 DEF WriteFile
  <1>10. ASSUME NEW p \in Proc, ExitOne(p) \/ MapRace(p) \/ StackOverflow(p) PROVE TypeOK'
    BY <1>10 DEF ExitOne, MapRace, StackOverflow
  <1>11. ASSUME NEW p \in Proc, Fatalf(p) PROVE TypeOK'
    BY <1>11 DEF Fatalf
  <1>12. ASSUME NEW p \in Proc, WriteFileFails(p) PROVE TypeOK'
    BY <1>12 DEF WriteFileFails
  <1>13. CASE UNCHANGED vars
    BY <1>13 DEF vars
  <1> QED BY <1>1, <1>2, <1>3, <1>4, <1>5, <1>6, <1>7, <1>8, <1>9, <1>10, <1>11, <1>12, <1>13
          DEF Next, Ending, Terminated
-----------------------------------------------------------------------------
(* The steps are of four kinds: nobody leaves, somebody starts to leave, a  *)
(* goroutine takes a step on its way out, or the process ends.              *)

Unmoved == UNCHANGED <<depth, copy, rows, redirected, console, file, code>>

Stays == /\ Unmoved
         /\ \A q \in Proc : \/ pc'[q] = pc[q]
                            \/ pc[q] \notin Outgoing /\ pc'[q] \notin Outgoing

Leaves(p) == /\ Moves(p, "work", IF p = Main THEN "header" ELSE "restore")
             /\ \A q \in Proc : depth'[q] = IF q = p /\ p # Main THEN 1 ELSE depth[q]
             /\ redirected' = IF p = Main THEN FALSE ELSE redirected
             /\ UNCHANGED <<copy, rows, console, file, code>>

Ends == /\ UNCHANGED <<pc, depth, copy, rows, redirected, console, file>>
        /\ code' \in {Ok, Failed} => \E p \in Proc : pc[p] \in {"exit", "return"}

OnTheWay(p) == \/ RestoreHook(p) \/ AppendRead(p) \/ AppendWrite(p) \/ ComputeResults(p)
               \/ WriteConsole(p) \/ WriteFile(p) \/ Errorf(p) \/ WriteFileFails(p)

LEMMA StepKinds ==
  ASSUME TypeOK, Next
  PROVE  \/ Stays
         \/ \E p \in Proc : Leaves(p)
         \/ \E p \in Proc : OnTheWay(p)
         \/ Ends
         \/ UNCHANGED vars
  <1> USE ExitAssumption, Procs
  <1>1. ASSUME NEW w \in Worker, WorkerDone(w) PROVE Stays
    <2>1. Moves(w, "work", "done")
      BY <1>1, TransitionMoves DEF WorkerDone
    <2> QED BY <1>1, <2>1 DEF Stays, Moves, Unmoved, WorkerDone, Outgoing
  <1>2. CASE SampleBegin \/ SampleEnd
    <2>1. Moves(Gatherer, "work", "sampling") \/ Moves(Gatherer, "sampling", "work")
      BY <1>2, TransitionMoves DEF SampleBegin, SampleEnd
    <2> QED BY <1>2, <2>1 DEF Stays, Moves, Unmoved, SampleBegin, SampleEnd, Outgoing
  <1>3. CASE MainGoesOn
    <2>1. Moves(Main, "work", "header")
      BY <1>3, TransitionMoves DEF MainGoesOn
    <2> QED BY <1>3, <2>1 DEF Leaves, MainGoesOn
  <1>4. ASSUME NEW p \in Proc, Fatalf(p) PROVE Leaves(p)
    <2>1. Moves(p, "work", "restore") /\ p # Main
      BY <1>4, TransitionMoves DEF Fatalf
    <2> QED BY <1>4, <2>1 DEF Leaves, Fatalf, TypeOK
  <1>5. CASE MainReturns
    BY <1>5 DEF MainReturns, Ends
  <1>6. ASSUME NEW p \in Proc, ExitOne(p) \/ MapRace(p) \/ StackOverflow(p) PROVE Ends
    BY <1>6 DEF ExitOne, MapRace, StackOverflow, Ends, Ok, Failed, Crashed
  <1> QED BY <1>1, <1>2, <1>3, <1>4, <1>5, <1>6 DEF Next, Ending, OnTheWay, Terminated

(* A step on the way out keeps the process running, and only the first hook *)
(* changes where stdout goes.                                               *)
LEMMA WayOut ==
  ASSUME TypeOK, NEW p \in Proc, OnTheWay(p)
  PROVE  /\ StaysOut(p)
         /\ code = Running /\ code' = Running
         /\ depth[p] \in Nat /\ depth'[p] \in Nat /\ depth'[p] >= depth[p]
         /\ IF pc[p] = "restore" THEN redirected' = FALSE ELSE redirected' = redirected
  <1> USE ExitAssumption DEF OnTheWay, StaysOut, Transition, Outgoing
  <1>0. depth[p] \in Nat /\ depth[p] + 1 >= depth[p] /\ depth[p] >= depth[p]
    BY DEF TypeOK
  <1>1. CASE RestoreHook(p)
    BY <1>0, <1>1 DEF TypeOK, RestoreHook
  <1>2. CASE AppendRead(p)
    BY <1>0, <1>2 DEF TypeOK, AppendRead, Blocks
  <1>3. CASE AppendWrite(p)
    <2>1. AfterBlock(pc[p]) \in {"general", "compute", "print"}
      BY <1>3, AfterBlocks DEF AppendWrite, Blocks
    <2> QED BY <1>0, <1>3, <2>1 DEF TypeOK, AppendWrite, Blocks
  <1>4. CASE ComputeResults(p)
    BY <1>0, <1>4 DEF TypeOK, ComputeResults
  <1>5. CASE WriteConsole(p)
    BY <1>0, <1>5 DEF TypeOK, WriteConsole
  <1>6. CASE WriteFile(p)
    BY <1>0, <1>6 DEF TypeOK, WriteFile
  <1>7. CASE Errorf(p)
    BY <1>0, <1>7 DEF TypeOK, Errorf
  <1>8. CASE WriteFileFails(p)
    BY <1>0, <1>8 DEF TypeOK, WriteFileFails
  <1> QED BY <1>1, <1>2, <1>3, <1>4, <1>5, <1>6, <1>7, <1>8

(* Where the goroutines are, and the console, in every reachable state.     *)
LEMMA PlaceStep ==
  ASSUME TypeOK, PlaceInv, ConsoleInv, EndInv, Next
  PROVE  (PlaceInv /\ ConsoleInv /\ EndInv)'
  <1> USE DEF PlaceInv, ConsoleInv, EndInv, Ended, Outgoing
  <1>1. CASE Stays
    <2>1. (PlaceInv /\ ConsoleInv)'
      BY <1>1 DEF Stays, Unmoved
    <2>2. EndInv'
      BY <1>1 DEF Stays, Unmoved
    <2> QED BY <2>1, <2>2
  <1>2. ASSUME NEW p \in Proc, Leaves(p) PROVE (PlaceInv /\ ConsoleInv /\ EndInv)'
    BY <1>2 DEF Leaves, Moves, Running, Ok, Failed
  <1>3. ASSUME NEW p \in Proc, OnTheWay(p) PROVE (PlaceInv /\ ConsoleInv /\ EndInv)'
    <2>1. StaysOut(p)
      BY <1>3, WayOut
    <2>2. PlaceInv'
      <3>1. depth'[p] >= depth[p] /\ depth[p] \in Nat /\ depth'[p] \in Nat
        BY <1>3, WayOut
      <3> QED BY <2>1, <3>1 DEF StaysOut
    <2>3. ConsoleInv'
      <3>1. IF pc[p] = "restore" THEN redirected' = FALSE ELSE redirected' = redirected
        BY <1>3, WayOut
      <3> QED BY <2>1, <3>1 DEF StaysOut
    <2>4. EndInv'
      BY <1>3, WayOut DEF Running, Ok, Failed
    <2> QED BY <2>2, <2>3, <2>4
  <1>4. CASE Ends
    BY <1>4 DEF Ends
  <1>5. CASE UNCHANGED vars
    BY <1>5 DEF vars
  <1> QED BY <1>1, <1>2, <1>3, <1>4, <1>5, StepKinds
-----------------------------------------------------------------------------
(* Who is on the way out.                                                   *)
LEMMA LeavingGrows ==
  ASSUME TypeOK, Next
  PROVE  /\ Stays => Leaving' = Leaving
         /\ \A p \in Proc : Leaves(p) => Leaving' = Leaving \cup {p} /\ p \notin Leaving
         /\ \A p \in Proc : OnTheWay(p) => Leaving' = Leaving /\ p \in Leaving
         /\ Ends => Leaving' = Leaving
  <1>1. Stays => Leaving' = Leaving
    BY DEF Stays, Leaving
  <1>2. ASSUME NEW p \in Proc, Leaves(p) PROVE Leaving' = Leaving \cup {p} /\ p \notin Leaving
    BY <1>2 DEF Leaves, Moves, Leaving, Outgoing
  <1>3. ASSUME NEW p \in Proc, OnTheWay(p) PROVE Leaving' = Leaving /\ p \in Leaving
    <2>1. StaysOut(p)
      BY <1>3, WayOut
    <2> QED BY <2>1 DEF StaysOut, Leaving
  <1>4. Ends => Leaving' = Leaving
    BY DEF Ends, Leaving
  <1> QED BY <1>1, <1>2, <1>3, <1>4

(* A file that could not be written is not forgotten.                       *)
LEMMA FileStaysFailed ==
  ASSUME TypeOK, PlaceInv, Next
  PROVE  FileFailed => FileFailed'
  <1> USE ExitAssumption, Procs
  <1>1. ASSUME NEW p \in Proc, OnTheWay(p) PROVE \A q \in Proc : depth'[q] \in Nat /\ depth'[q] >= depth[q]
    <2>1. StaysOut(p) /\ depth'[p] \in Nat /\ depth'[p] >= depth[p]
      BY <1>1, WayOut
    <2>2. \A q \in Proc : depth[q] \in Nat
      BY DEF TypeOK
    <2> QED BY <2>1, <2>2 DEF StaysOut
  <1>2. ASSUME NEW p \in Proc, Leaves(p) PROVE FileFailed => FileFailed'
    <2>1. depth[p] = 0
      BY <1>2 DEF Leaves, Moves, PlaceInv, Outgoing
    <2> QED BY <1>2, <2>1 DEF Leaves, FileFailed
  <1>3. ASSUME NEW p \in Proc, OnTheWay(p) PROVE FileFailed => FileFailed'
    <2>1. \A q \in Proc : depth'[q] \in Nat /\ depth[q] \in Nat /\ depth'[q] >= depth[q]
      BY <1>1, <1>3 DEF TypeOK
    <2> QED BY <2>1 DEF FileFailed
  <1>4. Stays \/ Ends \/ UNCHANGED vars => depth' = depth
    BY DEF Stays, Unmoved, Ends, vars
  <1> QED BY <1>2, <1>3, <1>4, StepKinds DEF FileFailed

(* Rows are appended in their order.                                        *)
LEMMA RowsGrow ==
  /\ \A b \in Blocks : Append(RowsAt(b), b) = RowsAt(AfterBlock(b))
  /\ <<>> \o Table = Table
  <1>1. /\ Append(RowsAt("header"), "header") = RowsAt("general")
        /\ Append(RowsAt("general"), "general") = RowsAt("compute")
        /\ Append(RowsAt("metrics"), "metrics") = RowsAt("print")
    <2>1. /\ RowsAt("header") = <<>> /\ RowsAt("general") = <<"header">>
          /\ RowsAt("compute") = <<"header", "general">> /\ RowsAt("metrics") = <<"header", "general">>
          /\ RowsAt("print") = <<"header", "general", "metrics">>
      BY DEF RowsAt, Table
    <2>2. /\ Append(<<>>, "header") = <<"header">>
          /\ Append(<<"header">>, "general") = <<"header", "general">>
          /\ Append(<<"header", "general">>, "metrics") = <<"header", "general", "metrics">>
      <3>1. Append(<<>>, "header") = <<"header">>
        OBVIOUS
      <3>2. Append(<<"header">>, "general") = <<"header", "general">>
        <4> DEFINE s == Append(<<"header">>, "general")
                   t == <<"header", "general">>
        <4>1. s \in Seq(Blocks) /\ t \in Seq(Blocks)
          BY DEF Blocks
        <4>2. Len(s) = 2 /\ Len(t) = 2
          OBVIOUS
        <4>3. \A i \in 1..2 : s[i] = t[i]
          OBVIOUS
        <4>4. s = t
          <5> HIDE DEF s, t
          <5> QED BY <4>1, <4>2, <4>3, SeqEqual
        <4> QED BY <4>4
      <3>3. Append(<<"header", "general">>, "metrics") = <<"header", "general", "metrics">>
        <4> DEFINE s == Append(<<"header", "general">>, "metrics")
                   t == <<"header", "general", "metrics">>
        <4>1. s \in Seq(Blocks) /\ t \in Seq(Blocks)
          BY DEF Blocks
        <4>2. Len(s) = 3 /\ Len(t) = 3
          OBVIOUS
        <4>3. \A i \in 1..3 : s[i] = t[i]
          OBVIOUS
        <4>4. s = t
          <5> HIDE DEF s, t
          <5> QED BY <4>1, <4>2, <4>3, SeqEqual
        <4> QED BY <4>4
      <3> QED BY <3>1, <3>2, <3>3
    <2> QED BY <2>1, <2>2
  <1>2. <<>> \o Table = Table
    BY DEF Table
  <1> QED BY <1>1, <1>2, AfterBlocks DEF Blocks

(* The step of a goroutine that leaves alone.                               *)
LEMMA AloneOnTheWay ==
  ASSUME TypeOK, PlaceInv, ConsoleInv, AloneInv, TableInv, Next,
         NEW p \in Proc, OnTheWay(p), Leaving = {p}
  PROVE  /\ copy'[p] # NoCopy => copy'[p] = rows'
         /\ pc'[p] \in {"print", "csv"} => "metrics" \in Kinds(rows)'
         /\ pc'[p] \in {"error", "exit", "return"} => "metrics" \in Kinds(file)'
         /\ ~FileFailed' =>
              /\ rows' = RowsAt(pc'[p])
              /\ console' = IF pc'[p] \in {"csv", "error", "exit", "return"} THEN Table ELSE <<>>
              /\ file' = IF pc'[p] \in {"error", "exit", "return"} THEN Table ELSE <<>>
  <1>0. /\ copy[p] # NoCopy => copy[p] = rows
        /\ pc[p] \in {"print", "csv"} => "metrics" \in Kinds(rows)
        /\ pc[p] \in {"error", "exit", "return"} => "metrics" \in Kinds(file)
        /\ ~FileFailed' =>
              /\ rows = RowsAt(pc[p])
              /\ console = IF pc[p] \in {"csv", "error", "exit", "return"} THEN Table ELSE <<>>
              /\ file = IF pc[p] \in {"error", "exit", "return"} THEN Table ELSE <<>>
    BY FileStaysFailed DEF AloneInv, TableInv
  <1>t. /\ pc \in [Proc -> Places] /\ copy \in [Proc -> Seq(Blocks) \cup {NoCopy}]
        /\ depth \in [Proc -> 0..MaxDepth]
        /\ rows \in Seq(Blocks) /\ file \in Seq(Blocks)
    BY DEF TypeOK, Places
  <1> USE DEF Transition
  <1>1. CASE RestoreHook(p)
    BY <1>0, <1>t, <1>1 DEF RestoreHook, RowsAt, Kinds
  <1>2. CASE AppendRead(p)
    BY <1>0, <1>t, <1>2 DEF AppendRead, Blocks, Kinds
  <1>3. CASE AppendWrite(p)
    <2>1. /\ pc[p] \in Blocks /\ copy[p] = rows
          /\ rows' = Append(rows, pc[p])
          /\ pc'[p] = AfterBlock(pc[p])
          /\ copy'[p] = NoCopy
          /\ console' = console /\ file' = file
      BY <1>0, <1>t, <1>3 DEF AppendWrite
    <2>2. pc'[p] \in {"general", "compute", "print"} /\ (pc'[p] = "print" => pc[p] = "metrics")
      BY <2>1, AfterBlocks DEF Blocks
    <2>3. pc'[p] = "print" => "metrics" \in Kinds(rows)'
      <3> SUFFICES ASSUME pc'[p] = "print" PROVE "metrics" \in Kinds(rows')
        BY DEF Kinds
      <3>1. pc[p] \in Blocks /\ pc[p] = "metrics"
        BY <2>1, <2>2
      <3> QED BY <3>1, <2>1, <1>t, KindsAppend
    <2>4. ~FileFailed' => rows' = RowsAt(pc'[p])
      BY <1>0, <2>1, RowsGrow
    <2>5. pc[p] \notin {"csv", "error", "exit", "return"}
      BY <2>1 DEF Blocks
    <2> QED BY <1>0, <2>1, <2>2, <2>3, <2>4, <2>5
  <1>4. CASE ComputeResults(p)
    BY <1>0, <1>t, <1>4 DEF ComputeResults, RowsAt, Kinds
  <1>5. CASE WriteConsole(p)
    <2>1. /\ pc[p] = "print" /\ pc'[p] = "csv"
          /\ console' = console \o rows
          /\ copy' = copy /\ rows' = rows /\ file' = file
      BY <1>t, <1>5 DEF WriteConsole, ConsoleInv, Outgoing
    <2>2. ~FileFailed' => console' = Table
      BY <1>0, <2>1, RowsGrow DEF RowsAt
    <2>3. RowsAt("csv") = RowsAt("print")
      BY DEF RowsAt
    <2>4. Kinds(rows)' = Kinds(rows)
      BY <2>1 DEF Kinds
    <2> QED BY <1>0, <2>1, <2>2, <2>3, <2>4
  <1>6. CASE WriteFile(p)
    <2>1. /\ pc[p] = "csv" /\ pc'[p] \in {"return", "error"}
          /\ file' = file \o rows
          /\ copy' = copy /\ rows' = rows /\ console' = console
      BY <1>t, <1>6 DEF WriteFile
    <2>2. "metrics" \in Kinds(file')
      <3>1. "metrics" \in Kinds(rows)
        BY <1>0, <2>1
      <3> QED BY <2>1, <3>1, <1>t, KindsConcat
    <2>3. ~FileFailed' => file' = Table
      BY <1>0, <2>1, RowsGrow DEF RowsAt
    <2>4. RowsAt("csv") = Table /\ RowsAt("return") = Table /\ RowsAt("error") = Table
      BY DEF RowsAt
    <2>5. Kinds(file)' = Kinds(file')
      BY DEF Kinds
    <2> QED BY <1>0, <2>1, <2>2, <2>3, <2>4, <2>5
  <1>7. CASE Errorf(p)
    BY <1>0, <1>t, <1>7 DEF Errorf, RowsAt, Kinds
  <1>8. CASE WriteFileFails(p)
    <2>1. /\ pc[p] = "csv" /\ pc'[p] = "restore"
          /\ depth'[p] = depth[p] + 1
          /\ copy' = copy /\ rows' = rows
      BY <1>t, <1>8 DEF WriteFileFails
    <2>2. depth[p] \in Nat /\ (p # Main => depth[p] > 0)
      BY <2>1, <1>t, ExitAssumption DEF PlaceInv, Outgoing
    <2>3. FileFailed'
      BY <2>1, <2>2 DEF FileFailed
    <2> QED BY <1>0, <2>1, <2>3
  <1> QED BY <1>1, <1>2, <1>3, <1>4, <1>5, <1>6, <1>7, <1>8 DEF OnTheWay

(* Whoever leaves alone, and what is there before anybody leaves.           *)
LEMMA AloneStep ==
  ASSUME TypeOK, PlaceInv, ConsoleInv, StartInv, AloneInv, TableInv, Next
  PROVE  (StartInv /\ AloneInv /\ TableInv)'
  <1>1. CASE Stays
    <2>1. Leaving' = Leaving /\ \A q \in Leaving : pc'[q] = pc[q]
      BY <1>1, LeavingGrows DEF Stays, Leaving
    <2> QED BY <1>1, <2>1 DEF Stays, Unmoved, StartInv, AloneInv, TableInv, FileFailed, Kinds
  <1>2. ASSUME NEW p \in Proc, Leaves(p) PROVE (StartInv /\ AloneInv /\ TableInv)'
    <2>1. Leaving' = Leaving \cup {p} /\ p \notin Leaving
      BY <1>2, LeavingGrows
    <2>2. \A q \in Proc : Leaving' = {q} => q = p /\ Leaving = {}
      BY <2>1
    <2>3. /\ pc'[p] \in {"restore", "header"}
          /\ rows' = rows /\ console' = console /\ file' = file /\ copy'[p] = NoCopy
      BY <1>2 DEF Leaves, Moves, PlaceInv, Outgoing
    <2> QED BY <2>1, <2>2, <2>3 DEF StartInv, AloneInv, TableInv, RowsAt
  <1>3. ASSUME NEW p \in Proc, OnTheWay(p) PROVE (StartInv /\ AloneInv /\ TableInv)'
    <2>1. Leaving' = Leaving /\ p \in Leaving
      BY <1>3, LeavingGrows
    <2>2. \A q \in Proc : Leaving' = {q} => q = p /\ Leaving = {p}
      BY <2>1
    <2> QED BY <1>3, <2>1, <2>2, AloneOnTheWay DEF StartInv, AloneInv, TableInv
  <1>4. CASE Ends \/ UNCHANGED vars
    BY <1>4 DEF Ends, vars, StartInv, AloneInv, TableInv, Leaving, FileFailed, Kinds
  <1> QED BY <1>1, <1>2, <1>3, <1>4, StepKinds

-----------------------------------------------------------------------------
LEMMA IInvInit == Init => IInv
  <1> SUFFICES ASSUME Init PROVE IInv
    OBVIOUS
  <1> USE ExitAssumption, Procs DEF Init, Outgoing
  <1>1. TypeOK
    BY BlockSeqs DEF TypeOK
  <1>2. PlaceInv /\ ConsoleInv /\ EndInv
    BY DEF PlaceInv, ConsoleInv, EndInv, Ended, Running, Ok, Failed
  <1>3. Leaving = {}
    BY DEF Leaving
  <1>4. StartInv /\ AloneInv /\ TableInv
    BY <1>3 DEF StartInv, AloneInv, TableInv
  <1> QED BY <1>1, <1>2, <1>4 DEF IInv

LEMMA IInvStep == IInv /\ [Next]_vars => IInv'
  <1> SUFFICES ASSUME IInv, [Next]_vars PROVE IInv'
    OBVIOUS
  <1>1. TypeOK'
    BY TypeStep DEF IInv
  <1>2. CASE Next
    BY <1>1, <1>2, PlaceStep, AloneStep DEF IInv
  <1>3. CASE UNCHANGED vars
    BY <1>1, <1>3 DEF IInv, vars, PlaceInv, ConsoleInv, EndInv, Ended, StartInv, AloneInv, TableInv,
                      Leaving, FileFailed, Kinds
  <1> QED BY <1>2, <1>3

(* The inductive invariant holds in every reachable state.                  *)
THEOREM Invariance == Spec => []IInv
  BY IInvInit, IInvStep, PTL DEF Spec

(* The variables keep their types.                                          *)
THEOREM TypeCorrect == Spec => []TypeOK
  <1>1. IInv => TypeOK
    BY DEF IInv
  <1> QED BY <1>1, Invariance, PTL

(* If exactly one goroutine is on its way out, it is somebody.              *)
LEMMA OneLeaving ==
  ASSUME Cardinality(Leaving) = 1
  PROVE  \E p \in Proc : Leaving = {p}
  <1>1. IsFiniteSet(Proc)
    <2>1. IsFiniteSet({Main, Gatherer}) /\ IsFiniteSet(Worker)
      <3>1. {Main, Gatherer} = {Main} \cup {Gatherer}
        OBVIOUS
      <3>2. IsFiniteSet({Main})
        BY FS_Singleton
      <3>3. IsFiniteSet({Main} \cup {Gatherer})
        BY <3>2, FS_AddElement
      <3> QED BY <3>1, <3>3, ExitAssumption
    <2> QED BY <2>1, FS_Union DEF Proc
  <1>2. IsFiniteSet(Leaving)
    BY <1>1, FS_Subset DEF Leaving
  <1> QED BY <1>2, FS_Singleton DEF Leaving

(* Whatever is done with the metrics meanwhile, and however often the file  *)
(* cannot be written, a goroutine that leaves alone does not end the        *)
(* process before the metrics are in the file.                              *)
THEOREM AloneMeansDumped == Spec => []MetricsDumpedAlone
  <1>1. IInv => MetricsDumpedAlone
    <2> SUFFICES ASSUME IInv, Cardinality(Leaving) = 1, Ended PROVE "metrics" \in Kinds(file)
      BY DEF MetricsDumpedAlone, MetricsDumped
    <2>1. PICK p \in Proc : Leaving = {p}
      BY OneLeaving
    <2>2. PICK q \in Proc : pc[q] \in {"exit", "return"}
      BY DEF IInv, EndInv
    <2>3. q = p
      BY <2>1, <2>2 DEF Leaving, Outgoing
    <2> QED BY <2>1, <2>2, <2>3 DEF IInv, AloneInv
  <1> QED BY <1>1, Invariance, PTL

(* For any number of workers: one complete table in the file and the same   *)
(* one on the console, when one goroutine leaves and can write the file.    *)
THEOREM AloneMeansOneTable == Spec => []OneTable
  <1>1. IInv => OneTable
    <2> SUFFICES ASSUME IInv, Ended, Cardinality(Leaving) = 1, ~FileFailed
                 PROVE  file = Table /\ console = file
      BY DEF OneTable, Table
    <2>1. PICK p \in Proc : Leaving = {p}
      BY OneLeaving
    <2>2. PICK q \in Proc : pc[q] \in {"exit", "return"}
      BY DEF IInv, EndInv
    <2>3. q = p
      BY <2>1, <2>2 DEF Leaving, Outgoing
    <2> QED BY <2>1, <2>2, <2>3 DEF IInv, TableInv
  <1> QED BY <1>1, Invariance, PTL

(* No table goes to the log file, however many goroutines leave at once.    *)
THEOREM AlwaysVisible == Spec => []ResultsVisible
  <1>1. IInv => ResultsVisible
    BY DEF IInv, ConsoleInv, ResultsVisible, Outgoing
  <1> QED BY <1>1, Invariance, PTL
=============================================================================
