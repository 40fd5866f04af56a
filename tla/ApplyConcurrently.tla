-------------------------- MODULE ApplyConcurrently --------------------------
(***************************************************************************)
(* ApplyObjectsConcurrently of setup/templates/template.go: the objects of *)
(* a user's templates are fed into a channel by one goroutine, taken out   *)
(* of it by as many processors as there are objects, and the result of     *)
(* each is passed on through the processor's own channel, a goroutine that *)
(* copies it and a common channel to the caller.  All the channels are     *)
(* unbuffered: a send and its receive are one step.                        *)
(***************************************************************************)
EXTENDS Naturals, FiniteSets

CONSTANTS N,        (* the number of objects, and of processors              *)
          Faults    (* may the API server refuse an object?                  *)

ASSUME ApplyAssumption == N \in Nat \ {0} /\ Faults \in BOOLEAN

Object    == 1..N   (* the objects in the order they are distributed         *)
Processor == 1..N
Nothing   == 0

VARIABLES caller,   (* "start", "collect", "done"                            *)
          started,  (* the processors the caller has started                 *)
          next,     (* the object the distributor offers                     *)
          srcOpen,  (* is the channel of the objects open?                   *)
          proc,     (* where each processor is                               *)
          obj,      (* the object it works on                                *)
          copier,   (* where the goroutine that copies its results is        *)
          held,     (* the object whose result the copier holds              *)
          outOpen,  (* is the common channel of the results open?            *)
          attempts, (* the calls of ApplyObject for each object              *)
          refused,  (* the objects whose last call failed, with the reason   *)
          errs,     (* the objects whose errors the caller has collected     *)
          got       (* the objects whose results the caller has collected    *)

procVars   == <<proc, obj>>
copyVars   == <<copier, held>>
callerVars == <<caller, started, errs, got>>
apiVars    == <<attempts, refused>>
srcVars    == <<next, srcOpen>>
vars == <<callerVars, srcVars, procVars, copyVars, outOpen, apiVars>>

Init == /\ caller = "start"
        /\ started = 0
        /\ next = 1
        /\ srcOpen = TRUE
        /\ proc = [i \in Processor |-> "off"]
        /\ obj = [i \in Processor |-> Nothing]
        /\ copier = [i \in Processor |-> "off"]
        /\ held = [i \in Processor |-> Nothing]
        /\ outOpen = TRUE
        /\ attempts = [o \in Object |-> 0]
        /\ refused = [o \in Object |-> "no"]
        /\ errs = {}
        /\ got = {}

-----------------------------------------------------------------------------
(* The caller.                                                              *)

(* startObjectProcessor, once per object; the processors already started    *)
(* take objects while the caller sleeps before the next start.              *)
StartProcessor == /\ caller = "start"
                  /\ started < N
                  /\ started' = started + 1
                  /\ proc' = [proc EXCEPT ![started + 1] = "recv"]
                  /\ UNCHANGED <<caller, errs, got, srcVars, obj, copyVars, outOpen, apiVars>>

(* combineResults starts one copier per processor.                          *)
CombineResults == /\ caller = "start"
                  /\ started = N
                  /\ caller' = "collect"
                  /\ copier' = [i \in Processor |-> "recv"]
                  /\ UNCHANGED <<started, errs, got, srcVars, procVars, held, outOpen, apiVars>>

(* Faulty variant: the caller stops at the first error.                     *)
CollectFirstError(i) ==
  /\ caller = "collect"
  /\ copier[i] = "send"
  /\ got' = got \cup {held[i]}
  /\ errs' = IF refused[held[i]] = "no" \/ errs # {} THEN errs ELSE {held[i]}
  /\ copier' = [copier EXCEPT ![i] = "recv"]
  /\ UNCHANGED <<caller, started, srcVars, procVars, held, outOpen, apiVars>>

(* A result arrives on the common channel.                                  *)
Collect(i) == /\ caller = "collect"
              /\ copier[i] = "send"
              /\ got' = got \cup {held[i]}
              /\ errs' = IF refused[held[i]] = "no" THEN errs ELSE errs \cup {held[i]}
              /\ copier' = [copier EXCEPT ![i] = "recv"]
              /\ UNCHANGED <<caller, started, srcVars, procVars, held, outOpen, apiVars>>

Return == /\ caller = "collect"
          /\ ~outOpen
          /\ caller' = "done"
          /\ UNCHANGED <<started, errs, got, srcVars, procVars, copyVars, outOpen, apiVars>>

-----------------------------------------------------------------------------
(* distribute.                                                              *)

(* Faulty variant: the distributor offers the same object to another one.   *)
DistributeAgain(i) == /\ next <= N
                      /\ proc[i] = "recv"
                      /\ obj' = [obj EXCEPT ![i] = next]
                      /\ proc' = [proc EXCEPT ![i] = "apply"]
                      /\ \E n \in {next, next + 1} : next' = n
                      /\ UNCHANGED <<callerVars, srcOpen, copyVars, outOpen, apiVars>>

Distribute(i) == /\ next <= N
                 /\ proc[i] = "recv"
                 /\ obj' = [obj EXCEPT ![i] = next]
                 /\ proc' = [proc EXCEPT ![i] = "apply"]
                 /\ next' = next + 1
                 /\ UNCHANGED <<callerVars, srcOpen, copyVars, outOpen, apiVars>>

CloseSource == /\ next > N
               /\ srcOpen
               /\ srcOpen' = FALSE
               /\ UNCHANGED <<callerVars, next, procVars, copyVars, outOpen, apiVars>>

-----------------------------------------------------------------------------
(* startObjectProcessor and applyObject.                                    *)

(* Faulty variant: a refused object is applied again and again.             *)
ApplyUntilAccepted(i) ==
  /\ proc[i] = "apply"
  /\ attempts' = [attempts EXCEPT ![obj[i]] = 1]
  /\ \E answer \in {"no"} \cup (IF Faults THEN {"conflict", "error"} ELSE {}) :
        /\ refused' = [refused EXCEPT ![obj[i]] = answer]
        /\ proc' = IF answer = "no" THEN [proc EXCEPT ![i] = "send"] ELSE proc
  /\ UNCHANGED <<callerVars, srcVars, obj, copyVars, outOpen>>

(* The poll around ApplyObject ends at the first answer: a condition that   *)
(* returns an error is not polled again, whatever the error is.  The only   *)
(* modifier, NamespaceModifier, never fails.                                *)
Apply(i) == /\ proc[i] = "apply"
            /\ attempts' = [attempts EXCEPT ![obj[i]] = @ + 1]
            /\ \E answer \in {"no"} \cup (IF Faults THEN {"conflict", "error"} ELSE {}) :
                  refused' = [refused EXCEPT ![obj[i]] = answer]
            /\ proc' = [proc EXCEPT ![i] = "send"]
            /\ UNCHANGED <<callerVars, srcVars, obj, copyVars, outOpen>>

ProcessorEnds(i) == /\ proc[i] = "recv"
                    /\ ~srcOpen
                    /\ proc' = [proc EXCEPT ![i] = "closed"]
                    /\ UNCHANGED <<callerVars, srcVars, obj, copyVars, outOpen, apiVars>>

-----------------------------------------------------------------------------
(* combineResults.                                                          *)

(* The processor's result goes to its copier.                               *)
Copy(i) == /\ proc[i] = "send"
           /\ copier[i] = "recv"
           /\ held' = [held EXCEPT ![i] = obj[i]]
           /\ copier' = [copier EXCEPT ![i] = "send"]
           /\ obj' = [obj EXCEPT ![i] = Nothing]
           /\ proc' = [proc EXCEPT ![i] = "recv"]
           /\ UNCHANGED <<callerVars, srcVars, outOpen, apiVars>>

CopierEnds(i) == /\ copier[i] = "recv"
                 /\ proc[i] = "closed"
                 /\ copier' = [copier EXCEPT ![i] = "done"]
                 /\ UNCHANGED <<callerVars, srcVars, procVars, held, outOpen, apiVars>>

(* The wait group of the copiers is down to zero.                           *)
CloseOut == /\ \A i \in Processor : copier[i] = "done"
            /\ outOpen
            /\ outOpen' = FALSE
            /\ UNCHANGED <<callerVars, srcVars, procVars, copyVars, apiVars>>

-----------------------------------------------------------------------------
Terminated == caller = "done" /\ UNCHANGED vars

Step == \/ StartProcessor
        \/ CombineResults
        \/ Return
        \/ CloseSource
        \/ CloseOut
        \/ \E i \in Processor : \/ Collect(i)
                                \/ Distribute(i)
                                \/ Apply(i)
                                \/ ProcessorEnds(i)
                                \/ Copy(i)
                                \/ CopierEnds(i)

Next == Step \/ Terminated

(* Every call of the API server is answered, and as long as some goroutine  *)
(* can run one does.                                                        *)
Spec == Init /\ [][Next]_vars /\ WF_vars(Step)

-----------------------------------------------------------------------------
(* Properties.                                                              *)

(* The variables have the types of the Go values they stand for.            *)
TypeOK == /\ caller \in {"start", "collect", "done"}
          /\ started \in 0..N
          /\ next \in 1..(N + 1)
          /\ srcOpen \in BOOLEAN
          /\ proc \in [Processor -> {"off", "recv", "apply", "send", "closed"}]
          /\ obj \in [Processor -> 0..N]
          /\ copier \in [Processor -> {"off", "recv", "send", "done"}]
          /\ held \in [Processor -> 0..N]
          /\ outOpen \in BOOLEAN
          /\ attempts \in [Object -> Nat]
          /\ refused \in [Object -> {"no", "conflict", "error"}]
          /\ errs \subseteq Object
          /\ got \subseteq Object

(* When the caller returns every object was sent to the API server, once,   *)
(* and its error holds exactly the objects that were refused: no result is  *)
(* lost between the three stages of channels.                               *)
AllApplied == caller = "done" => /\ \A o \in Object : attempts[o] = 1
                                 /\ errs = {o \in Object : refused[o] # "no"}

(* No object is sent to the API server twice, by one or two processors.     *)
AppliedOnce == \A o \in Object : attempts[o] <= 1

(* The caller leaves no goroutine behind: the processors, which keep a      *)
(* client, and the copiers have ended when the common channel is closed.    *)
NoGoroutineLeft == caller = "done" => /\ ~srcOpen
                                      /\ \A i \in Processor : /\ proc[i] = "closed"
                                                              /\ copier[i] = "done"

(* The caller gets its answer: the processors that wait for a copier while  *)
(* the caller still starts others do not block it.                          *)
Returns == <>(caller = "done")

(* "retry the apply in case it fails due to errors like the following: ...  *)
(* the object has been modified": a conflict is not what is reported after  *)
(* a single attempt.                                                        *)
ConflictRetried == \A o \in got : refused[o] = "conflict" => attempts[o] > 1

-----------------------------------------------------------------------------
(* The channels implement the sharing of work: the objects not yet offered  *)
(* are to do, the one a processor works on is held, and an object is        *)
(* handled when its result has left the processor.                          *)
Left    == next..N
Sharing == INSTANCE WorkSharing WITH
             Job     <- {"objects"},
             Routine <- Processor,
             JobOf   <- [i \in Processor |-> "objects"],
             Total   <- [j \in {"objects"} |-> N],
             todo    <- [j \in {"objects"} |-> Left],
             held    <- obj,
             handled <- [j \in {"objects"} |-> (1..(next - 1)) \ {obj[i] : i \in Processor}],
             over    <- caller = "done"

(* Every behaviour of the channels is one of the abstract sharing of work.  *)
SharesWork == Sharing!Spec

-----------------------------------------------------------------------------
(* The inductive invariant behind the safety properties.                    *)

(* The goroutines end from the source on: a processor when the source is    *)
(* closed and empty, a copier after its processor, the common channel after *)
(* the copiers, the caller after the channel.                               *)
EndInv == /\ ~srcOpen => next = N + 1
          /\ caller # "start" => started = N
          /\ caller = "done" => ~outOpen
          /\ ~outOpen => \A i \in Processor : copier[i] = "done"
          /\ \A i \in Processor :
               /\ proc[i] = "off" <=> i > started
               /\ proc[i] = "closed" => ~srcOpen
               /\ copier[i] = "off" <=> caller = "start"
               /\ copier[i] = "done" => proc[i] = "closed"

(* A result on its way from the copier to the caller.                       *)
Copied(i) == copier[i] = "send"

(* An object that was offered is with one processor, with one copier or     *)
(* with the caller; it is sent to the API server while a processor has it.  *)
StageInv == /\ \A o \in Object :
                 /\ o >= next => attempts[o] = 0 /\ o \notin got
                 /\ o < next => \/ o \in got
                                \/ \E i \in Processor : obj[i] = o \/ (Copied(i) /\ held[i] = o)
                 /\ o \in got => attempts[o] = 1
            /\ \A i \in Processor :
                 /\ obj[i] # Nothing <=> proc[i] \in {"apply", "send"}
                 /\ obj[i] # Nothing =>
                      /\ obj[i] < next /\ obj[i] \notin got
                      /\ attempts[obj[i]] = IF proc[i] = "apply" THEN 0 ELSE 1
                      /\ \A k \in Processor : /\ k # i => obj[k] # obj[i]
                                              /\ Copied(k) => held[k] # obj[i]
                 /\ Copied(i) =>
                      /\ held[i] \in Object
                      /\ held[i] < next /\ held[i] \notin got
                      /\ attempts[held[i]] = 1
                      /\ \A k \in Processor \ {i} : Copied(k) => held[k] # held[i]
            /\ errs = {o \in got : refused[o] # "no"}

IInv == TypeOK /\ EndInv /\ StageInv
=============================================================================
