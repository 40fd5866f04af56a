------------------------------ MODULE FatalExit ------------------------------
(***************************************************************************)
(* How the setup command ends (setup/terminal, setup/results,              *)
(* setup/metrics and the end of setup/cmd/root.go).  Any goroutine may     *)
(* call Fatalf: it runs the two hooks registered by the command - give     *)
(* stdout back to the console, then write the results - prints the error   *)
(* and exits with code 1.  The goroutine that gathers the metrics keeps    *)
(* sampling until the process is gone.  Nothing here is locked: the rows   *)
(* of the results are appended to a shared slice and the samples live in a *)
(* shared map.  The model starts when both hooks are registered; in the    *)
(* code the gatherer is started just before the second one.                *)
(***************************************************************************)
EXTENDS Naturals, Sequences, FiniteSets

CONSTANTS Worker,     (* the goroutines of the worker pools                  *)
          Main,       (* the goroutine that runs the command                 *)
          Gatherer,   (* the goroutine started by StartGathering             *)
          MayFail,    (* the goroutines whose calls may fail                 *)
          DiskFails,  (* may writing the results file fail?                  *)
          MaxDepth    (* bound: nested calls of Fatalf the stack has room for *)

Proc == Worker \cup {Main, Gatherer}

ASSUME ExitAssumption == /\ IsFiniteSet(Worker)
                         /\ Main \notin Worker \cup {Gatherer}
                         /\ Gatherer \notin Worker
                         /\ MayFail \subseteq Worker \cup {Gatherer}
                         /\ DiskFails \in BOOLEAN
                         /\ MaxDepth \in Nat \ {0}

VARIABLES pc,         (* where each goroutine is                             *)
          depth,      (* how many calls of Fatalf it is in                   *)
          copy,       (* the slice it has read and will append to            *)
          rows,       (* Results.results: the kinds of rows, in order        *)
          redirected, (* is os.Stdout the log file?                          *)
          console,    (* the rows printed to the console                     *)
          file,       (* the rows written to the results file                *)
          code        (* the exit code, Running before the end               *)

vars == <<pc, depth, copy, rows, redirected, console, file, code>>

Running == "running"
Ok      == "0"                (* main has returned                          *)
Failed  == "1"                (* os.Exit(1)                                 *)
Crashed == "crashed"          (* the Go runtime gives up: no hook is run     *)
NoCopy  == <<"none">>

(* The blocks of rows addAndOutputResults appends: the header, the general  *)
(* information and what ComputeResults makes of the samples.                *)
Blocks == {"header", "general", "metrics"}

(* What follows the append of a block.                                      *)
AfterBlock(b) == CASE b = "header"  -> "general"
                   [] b = "general" -> "compute"
                   [] b = "metrics" -> "print"

Init == /\ pc = [p \in Proc |-> "work"]
        /\ depth = [p \in Proc |-> 0]
        /\ copy = [p \in Proc |-> NoCopy]
        /\ rows = <<>>
        /\ redirected = TRUE
        /\ console = <<>>
        /\ file = <<>>
        /\ code = Running

Transition(p, from, to) == /\ code = Running
                           /\ pc[p] = from
                           /\ pc' = [pc EXCEPT ![p] = to]

-----------------------------------------------------------------------------
(* Work: the worker pools, main's wait for them and the samples.            *)

WorkerDone(w) == /\ Transition(w, "work", "done")
                 /\ UNCHANGED <<depth, copy, rows, redirected, console, file, code>>

(* main has passed wg.Wait and has given stdout back.                       *)
MainGoesOn == /\ \A w \in Worker : pc[w] = "done"
              /\ Transition(Main, "work", "header")
              /\ redirected' = FALSE
              /\ UNCHANGED <<depth, copy, rows, console, file, code>>

(* Gatherer.sample: the update of the map g.results has a beginning and an  *)
(* end, nothing keeps another goroutine from reading in between.            *)
SampleBegin == /\ Transition(Gatherer, "work", "sampling")
               /\ UNCHANGED <<depth, copy, rows, redirected, console, file, code>>

SampleEnd == /\ Transition(Gatherer, "sampling", "work")
             /\ UNCHANGED <<depth, copy, rows, redirected, console, file, code>>

-----------------------------------------------------------------------------
(* DefaultTerminal.Fatalf.                                                  *)

(* Faulty variant: the hooks are not run.                                   *)
FatalfNoHooks(p) == /\ p \in MayFail
                    /\ Transition(p, "work", "error")
                    /\ depth' = [depth EXCEPT ![p] = 1]
                    /\ UNCHANGED <<copy, rows, redirected, console, file, code>>

(* A call of the goroutine has failed for good: Fatalf starts its hooks.    *)
Fatalf(p) == /\ p \in MayFail
             /\ Transition(p, "work", "restore")
             /\ depth' = [depth EXCEPT ![p] = 1]
             /\ UNCHANGED <<copy, rows, redirected, console, file, code>>

(* Faulty variant: the hooks are registered in the other order.             *)
RestoreHookLast(p) == /\ Transition(p, "restore", "header")
                      /\ UNCHANGED <<depth, copy, rows, redirected, console, file, code>>

(* The first hook.                                                          *)
RestoreHook(p) == /\ Transition(p, "restore", "header")
                  /\ redirected' = FALSE
                  /\ UNCHANGED <<depth, copy, rows, console, file, code>>

(* Errorf prints the error that was passed to Fatalf.                       *)
Errorf(p) == /\ Transition(p, "error", "exit")
             /\ UNCHANGED <<depth, copy, rows, redirected, console, file, code>>

(* Faulty variant: the goroutine that called Fatalf just ends.              *)
ExitGoroutineOnly(p) == /\ Transition(p, "exit", "done")
                        /\ UNCHANGED <<depth, copy, rows, redirected, console, file, code>>

(* The deferred os.Exit(1).                                                 *)
ExitOne(p) == /\ code = Running
              /\ pc[p] = "exit"
              /\ code' = Failed
              /\ UNCHANGED <<pc, depth, copy, rows, redirected, console, file>>

(* main returns from the command.                                           *)
MainReturns == /\ code = Running
               /\ pc[Main] = "return"
               /\ code' = Ok
               /\ UNCHANGED <<pc, depth, copy, rows, redirected, console, file>>

-----------------------------------------------------------------------------
(* addAndOutputResults, the second hook and the last call of main.          *)

(* append(r.results, ...): the shared slice is read ...                     *)
AppendRead(p) == /\ code = Running
                 /\ pc[p] \in Blocks
                 /\ copy[p] = NoCopy
                 /\ copy' = [copy EXCEPT ![p] = rows]
                 /\ UNCHANGED <<pc, depth, rows, redirected, console, file, code>>

(* Faulty variant: AddResults replaces the rows instead of appending.       *)
AppendWriteOnly(p) == /\ pc[p] \in Blocks
                      /\ copy[p] # NoCopy
                      /\ Transition(p, pc[p], AfterBlock(pc[p]))
                      /\ rows' = <<pc[p]>>
                      /\ copy' = [copy EXCEPT ![p] = NoCopy]
                      /\ UNCHANGED <<depth, redirected, console, file, code>>

(* ... and written back with the new rows.                                  *)
AppendWrite(p) == /\ pc[p] \in Blocks
                  /\ copy[p] # NoCopy
                  /\ Transition(p, pc[p], AfterBlock(pc[p]))
                  /\ rows' = Append(copy[p], pc[p])
                  /\ copy' = [copy EXCEPT ![p] = NoCopy]
                  /\ UNCHANGED <<depth, redirected, console, file, code>>

(* Gatherer.ComputeResults reads the map g.results (every query has a type, *)
(* so that its own Fatalf is not reached) ...                               *)
ComputeResults(p) == /\ Transition(p, "compute", "metrics")
                     /\ UNCHANGED <<depth, copy, rows, redirected, console, file, code>>

(* ... and the runtime may notice that it is being written.                 *)
MapRace(p) == /\ code = Running
              /\ pc[p] = "compute"
              /\ pc[Gatherer] = "sampling"
              /\ code' = Crashed
              /\ UNCHANGED <<pc, depth, copy, rows, redirected, console, file>>

(* writeResults: the rows go to the terminal first, that cannot fail.       *)
WriteConsole(p) == /\ Transition(p, "print", "csv")
                   /\ console' = IF redirected THEN console ELSE console \o rows
                   /\ UNCHANGED <<depth, copy, rows, redirected, file, code>>

(* The rows go to the results file; then main returns from the command and  *)
(* a hook returns to Fatalf.                                                *)
WriteFile(p) == /\ Transition(p, "csv", IF depth[p] = 0 THEN "return" ELSE "error")
                /\ file' = file \o rows
                /\ UNCHANGED <<depth, copy, rows, redirected, console, code>>

(* The file cannot be written: OutputResults calls Fatalf, whose hooks      *)
(* output the results again.                                                *)
WriteFileFails(p) == /\ DiskFails
                     /\ depth[p] < MaxDepth
                     /\ Transition(p, "csv", "restore")
                     /\ depth' = [depth EXCEPT ![p] = @ + 1]
                     /\ UNCHANGED <<copy, rows, redirected, console, file, code>>

(* There is no room left for the call.                                      *)
StackOverflow(p) == /\ DiskFails
                    /\ code = Running
                    /\ pc[p] = "csv"
                    /\ depth[p] = MaxDepth
                    /\ code' = Crashed
                    /\ UNCHANGED <<pc, depth, copy, rows, redirected, console, file>>

-----------------------------------------------------------------------------
Terminated == code # Running /\ UNCHANGED vars

(* The steps of a goroutine that is on its way out.                         *)
Ending(p) == \/ RestoreHook(p)
             \/ AppendRead(p)
             \/ AppendWrite(p)
             \/ ComputeResults(p)
             \/ WriteConsole(p)
             \/ WriteFile(p)
             \/ Errorf(p)
             \/ ExitOne(p)

Next == \/ \E w \in Worker : WorkerDone(w)
        \/ MainGoesOn
        \/ MainReturns
        \/ SampleBegin
        \/ SampleEnd
        \/ \E p \in Proc : \/ Ending(p)
                           \/ Fatalf(p)
                           \/ MapRace(p)
                           \/ WriteFileFails(p)
                           \/ StackOverflow(p)
        \/ Terminated

Spec == Init /\ [][Next]_vars

(* The Go scheduler runs every goroutine that can run.  A worker is not     *)
(* bound to be done: its calls may take any time.                           *)
FairSpec == /\ Spec
            /\ \A p \in Proc : WF_vars(Ending(p))
            /\ WF_vars(MainReturns)

-----------------------------------------------------------------------------
(* Properties.                                                              *)

Kinds(s) == {s[i] : i \in 1..Len(s)}
Ended    == code \in {Ok, Failed}
Outgoing == {"restore", "header", "general", "compute", "metrics", "print", "csv",
             "error", "exit", "return"}

(* The variables have the types of the Go variables they stand for.         *)
TypeOK == /\ pc \in [Proc -> Outgoing \cup {"work", "sampling", "done"}]
          /\ depth \in [Proc -> 0..MaxDepth]
          /\ copy \in [Proc -> Seq(Blocks) \cup {NoCopy}]
          /\ rows \in Seq(Blocks)
          /\ redirected \in BOOLEAN
          /\ console \in Seq(Blocks)
          /\ file \in Seq(Blocks)
          /\ code \in {Ok, Failed, Running, Crashed}

(* The goroutines on their way out, and whether one of them could not write *)
(* the results file.                                                        *)
Leaving    == {p \in Proc : pc[p] \in Outgoing}
FileFailed == depth[Main] > 0 \/ \E p \in Proc : depth[p] > 1

(* "ensure metrics are dumped even if there's a fatal error" (root.go):     *)
(* whether the command returns or exits with code 1, the metrics are in the *)
(* results file.                                                            *)
MetricsDumped == Ended => "metrics" \in Kinds(file)

(* The same as long as one goroutine at a time leaves: no sample, no other  *)
(* worker and no failure to write the file takes the metrics away from it.  *)
MetricsDumpedAlone == Cardinality(Leaving) = 1 => MetricsDumped

(* The file holds one complete table, and the console shows the same one,   *)
(* when one goroutine leaves and can write the file.                        *)
OneTable == Ended /\ Cardinality(Leaving) = 1 /\ ~FileFailed =>
              /\ file = <<"header", "general", "metrics">>
              /\ console = file

(* The table never goes to the log file that replaces stdout: from the      *)
(* moment a goroutine prints the results, stdout is the console again.      *)
ResultsVisible == \A p \in Proc : pc[p] \in {"print", "csv"} => ~redirected

(* "exits the program with a `1` return code" (terminal.go): no other code  *)
(* once some goroutine is in Fatalf.                                        *)
FatalExitsWithOne == (\E p \in Proc : depth[p] > 0) => code \in {Running, Failed}

(* A goroutine in Fatalf ends the process, whatever the other goroutines    *)
(* and the disk do meanwhile.                                               *)
FatalEnds == (\E p \in Proc : depth[p] > 0) ~> (code # Running)
-----------------------------------------------------------------------------
(* The inductive invariant.                                                 *)

(* A goroutine that is not on its way out has called nothing and holds no   *)
(* slice; one that is, is in Fatalf, unless it is main.                     *)
PlaceInv == \A p \in Proc :
  /\ pc[p] \notin Outgoing => depth[p] = 0 /\ copy[p] = NoCopy
  /\ pc[p] \in Outgoing /\ p # Main => depth[p] > 0

(* Stdout was given back by whoever is past its first hook.                 *)
ConsoleInv == \A p \in Proc : pc[p] \in Outgoing \ {"restore"} => ~redirected

(* The process ends by the last step of a goroutine.                        *)
EndInv == Ended => \E p \in Proc : pc[p] \in {"exit", "return"}

(* Nothing is written before somebody leaves.                               *)
StartInv == Leaving = {} => rows = <<>> /\ console = <<>> /\ file = <<>>

(* A goroutine that leaves alone finds the rows as it has left them, with   *)
(* the metrics from its third append on.                                    *)
AloneInv == \A p \in Proc : Leaving = {p} =>
  /\ copy[p] # NoCopy => copy[p] = rows
  /\ pc[p] \in {"print", "csv"} => "metrics" \in Kinds(rows)
  /\ pc[p] \in {"error", "exit", "return"} => "metrics" \in Kinds(file)

(* What it has appended on the way to a place.                              *)
Table         == <<"header", "general", "metrics">>
RowsAt(place) == IF place \in {"restore", "header"} THEN <<>>
                 ELSE IF place = "general" THEN <<"header">>
                 ELSE IF place \in {"compute", "metrics"} THEN <<"header", "general">>
                 ELSE Table

(* As long as the file could be written, it has gone that way once.         *)
TableInv == \A p \in Proc : Leaving = {p} /\ ~FileFailed =>
  /\ rows = RowsAt(pc[p])
  /\ console = IF pc[p] \in {"csv", "error", "exit", "return"} THEN Table ELSE <<>>
  /\ file = IF pc[p] \in {"error", "exit", "return"} THEN Table ELSE <<>>

IInv == TypeOK /\ PlaceInv /\ ConsoleInv /\ EndInv /\ StartInv /\ AloneInv /\ TableInv
=============================================================================
