----------------------------- MODULE WorkSharing -----------------------------
(***************************************************************************)
(* What the worker pools of the setup command promise, without locks,      *)
(* progress bars or wait groups: the user numbers 1..Total[j] of a job j   *)
(* are shared out among the routines of the job, each number is taken by   *)
(* one routine and at most once, and the command goes on to its report     *)
(* only when every number of every job has been handled.                   *)
(***************************************************************************)
EXTENDS Naturals

CONSTANTS Job,      (* the jobs of the command, one progress bar each        *)
          Routine,  (* the goroutines of all the pools                       *)
          JobOf,    (* the job a routine works for                           *)
          Total     (* the number of users each job has to handle            *)

VARIABLES todo,     (* the numbers of each job nobody has taken yet          *)
          held,     (* the number a routine is working on, 0 for none        *)
          handled,  (* the numbers of each job that have been handled        *)
          over      (* the command has gone past the pools                   *)

workVars == <<todo, held, handled, over>>

Init == /\ todo = [j \in Job |-> 1..Total[j]]
        /\ held = [r \in Routine |-> 0]
        /\ handled = [j \in Job |-> {}]
        /\ over = FALSE

(* A routine takes a number that is left.                                   *)
Take(r) == \E n \in todo[JobOf[r]] :
             /\ held[r] = 0
             /\ todo' = [todo EXCEPT ![JobOf[r]] = @ \ {n}]
             /\ held' = [held EXCEPT ![r] = n]
             /\ UNCHANGED <<handled, over>>

(* A routine has handled the number it took.                                *)
Handle(r) == /\ held[r] # 0
             /\ handled' = [handled EXCEPT ![JobOf[r]] = @ \cup {held[r]}]
             /\ held' = [held EXCEPT ![r] = 0]
             /\ UNCHANGED <<todo, over>>

(* All numbers of all jobs are handled: the command goes on.                *)
GoOn == /\ ~over
        /\ \A j \in Job : handled[j] = 1..Total[j]
        /\ over' = TRUE
        /\ UNCHANGED <<todo, held, handled>>

Next == \/ \E r \in Routine : Take(r) \/ Handle(r)
        \/ GoOn

Spec == Init /\ [][Next]_workVars
=============================================================================
