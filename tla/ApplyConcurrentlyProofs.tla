----------------------- MODULE ApplyConcurrentlyProofs -----------------------
(***************************************************************************)
(* Proofs about ApplyConcurrently, for any number of objects: whatever the *)
(* order in which the goroutines run, each object gets through the stages  *)
(* of channels once, and the channels implement the sharing of work.       *)
(***************************************************************************)
EXTENDS ApplyConcurrently, TLAPS

USE ApplyAssumption DEF ApplyAssumption, Nothing

LEMMA Ranges == Processor = 1..N /\ Object = 1..N /\ \A o \in Object : o \in Nat /\ o # 0
  BY DEF Processor, Object

LEMMA TypeStep == TypeOK /\ StageInv /\ [Next]_vars => TypeOK'
<1>. SUFFICES ASSUME TypeOK, StageInv, [Next]_vars
              PROVE  TypeOK'
  OBVIOUS
<1>. USE DEF TypeOK, callerVars, srcVars, procVars, copyVars, apiVars
<1>1. CASE UNCHANGED vars \/ Terminated
  BY <1>1 DEF Terminated, vars
<1>2. CASE CombineResults \/ Return \/ CloseSource \/ CloseOut
  BY <1>2 DEF CombineResults, Return, CloseSource, CloseOut
<1>3. CASE StartProcessor
  <2>1. started' \in 0..N
    BY <1>3 DEF StartProcessor
  <2>2. proc' \in [Processor -> {"off", "recv", "apply", "send", "closed"}]
    BY <1>3 DEF StartProcessor
  <2>. QED
    BY <1>3, <2>1, <2>2 DEF StartProcessor
<1>4. ASSUME NEW i \in Processor, Distribute(i)
      PROVE  TypeOK'
  <2>1. next \in Object /\ next \in 0..N /\ next' \in 1..(N + 1)
    BY <1>4 DEF Distribute, Object
  <2>2. obj' \in [Processor -> 0..N]
    BY <1>4, <2>1 DEF Distribute
  <2>. QED
    BY <1>4, <2>1, <2>2 DEF Distribute
<1>5. ASSUME NEW i \in Processor, Collect(i)
      PROVE  TypeOK'
  <2>1. held[i] \in Object
    BY <1>5 DEF Collect, StageInv, Copied
  <2>2. got' \subseteq Object /\ errs' \subseteq Object
    BY <1>5, <2>1 DEF Collect
  <2>. QED
    BY <1>5, <2>2 DEF Collect
<1>6. ASSUME NEW i \in Processor, Apply(i)
      PROVE  TypeOK'
  <2>1. obj[i] \in Object
    BY <1>6 DEF Apply, StageInv, Object
  <2>2. attempts' \in [Object -> Nat]
    BY <1>6, <2>1 DEF Apply
  <2>3. refused' \in [Object -> {"no", "conflict", "error"}]
    BY <1>6 DEF Apply
  <2>4. proc' \in [Processor -> {"off", "recv", "apply", "send", "closed"}]
    BY <1>6 DEF Apply
  <2>. QED
    BY <1>6, <2>2, <2>3, <2>4 DEF Apply
<1>7. ASSUME NEW i \in Processor, Copy(i)
      PROVE  TypeOK'
  <2>1. held' \in [Processor -> 0..N] /\ obj' \in [Processor -> 0..N]
    BY <1>7 DEF Copy
  <2>. QED
    BY <1>7, <2>1 DEF Copy
<1>8. ASSUME NEW i \in Processor, ProcessorEnds(i) \/ CopierEnds(i)
      PROVE  TypeOK'
  BY <1>8 DEF ProcessorEnds, CopierEnds
<1>. QED
  BY <1>1, <1>2, <1>3, <1>4, <1>5, <1>6, <1>7, <1>8 DEF Next, Step

(* The goroutines end one after the other.                                  *)
LEMMA EndStep == TypeOK /\ EndInv /\ [Next]_vars => EndInv'
<1>. SUFFICES ASSUME TypeOK, EndInv, [Next]_vars
              PROVE  EndInv'
  OBVIOUS
<1>. USE DEF TypeOK, EndInv, callerVars, srcVars, procVars, copyVars, apiVars
<1>0. 1 \in Processor /\ \A i \in Processor : i \in Nat
  BY DEF Processor
<1>1. CASE UNCHANGED vars \/ Terminated
  BY <1>1 DEF Terminated, vars
<1>2. CASE StartProcessor
  <2>1. started + 1 \in Processor /\ started \in Nat
    BY <1>2 DEF StartProcessor, Processor
  <2>2. \A i \in Processor : proc'[i] = IF i = started + 1 THEN "recv" ELSE proc[i]
    BY <1>2 DEF StartProcessor
  <2>3. \A i \in Processor : /\ proc'[i] = "off" <=> i > started'
                             /\ proc'[i] = "closed" <=> proc[i] = "closed" /\ i # started + 1
    BY <1>0, <1>2, <2>1, <2>2 DEF StartProcessor
  <2>4. \A i \in Processor : copier[i] = "off"
    BY <1>2 DEF StartProcessor
  <2>. QED
    BY <1>2, <2>3, <2>4 DEF StartProcessor
<1>3. CASE CombineResults
  <2>1. outOpen
    BY <1>0, <1>3 DEF CombineResults
  <2>. QED
    BY <1>3, <2>1 DEF CombineResults
<1>4. CASE Return \/ CloseSource \/ CloseOut
  BY <1>4 DEF Return, CloseSource, CloseOut
<1>5. ASSUME NEW i \in Processor, Collect(i) \/ CopierEnds(i)
      PROVE  EndInv'
  BY <1>5 DEF Collect, CopierEnds
<1>6. ASSUME NEW i \in Processor, Distribute(i)
      PROVE  EndInv'
  <2>1. srcOpen
    BY <1>6 DEF Distribute
  <2>. QED
    BY <1>6, <2>1 DEF Distribute
<1>7. ASSUME NEW i \in Processor, Apply(i) \/ ProcessorEnds(i)
      PROVE  EndInv'
  BY <1>7 DEF Apply, ProcessorEnds
<1>8. ASSUME NEW i \in Processor, Copy(i)
      PROVE  EndInv'
  BY <1>8 DEF Copy
<1>. QED
  BY <1>1, <1>2, <1>3, <1>4, <1>5, <1>6, <1>7, <1>8 DEF Next, Step

(* Every object is at one stage.                                            *)
LEMMA StageStep == TypeOK /\ EndInv /\ StageInv /\ [Next]_vars => StageInv'
<1>. SUFFICES ASSUME TypeOK, EndInv, StageInv, [Next]_vars
              PROVE  StageInv'
  OBVIOUS
<1>. USE DEF callerVars, srcVars, procVars, copyVars, apiVars
<1>0. \A o \in Object : o \in Nat /\ o # 0
  BY DEF Object
<1>1. CASE UNCHANGED vars \/ Terminated \/ Return \/ CloseSource \/ CloseOut
  BY <1>1 DEF Terminated, vars, Return, CloseSource, CloseOut, StageInv, Copied
<1>2. CASE StartProcessor
  <2>1. \A i \in Processor : /\ proc'[i] \in {"apply", "send"} <=> proc[i] \in {"apply", "send"}
                             /\ proc'[i] = "apply" <=> proc[i] = "apply"
    BY <1>2 DEF StartProcessor, TypeOK, EndInv, Processor
  <2>2. UNCHANGED <<next, obj, copier, held, attempts, refused, errs, got>>
    BY <1>2 DEF StartProcessor
  <2>. QED
    BY <2>1, <2>2 DEF StageInv, Copied
<1>3. CASE CombineResults
  <2>1. \A i \in Processor : ~Copied(i) /\ ~Copied(i)'
    BY <1>3 DEF CombineResults, EndInv, Copied
  <2>2. UNCHANGED <<next, obj, proc, held, attempts, refused, errs, got>>
    BY <1>3 DEF CombineResults
  <2>. QED
    BY <2>1, <2>2 DEF StageInv
<1>4. ASSUME NEW i \in Processor, ProcessorEnds(i) \/ CopierEnds(i)
      PROVE  StageInv'
  <2>1. \A k \in Processor : /\ proc'[k] \in {"apply", "send"} <=> proc[k] \in {"apply", "send"}
                             /\ proc'[k] = "apply" <=> proc[k] = "apply"
                             /\ Copied(k)' <=> Copied(k)
    BY <1>4 DEF ProcessorEnds, CopierEnds, TypeOK, Copied
  <2>2. UNCHANGED <<next, obj, held, attempts, refused, errs, got>>
    BY <1>4 DEF ProcessorEnds, CopierEnds
  <2>. QED
    BY <2>1, <2>2 DEF StageInv
<1>5. ASSUME NEW i \in Processor, Distribute(i)
      PROVE  StageInv'
  <2>1. /\ next \in Object /\ next' = next + 1 /\ proc[i] = "recv"
        /\ \A k \in Processor : obj'[k] = IF k = i THEN next ELSE obj[k]
        /\ \A k \in Processor : proc'[k] = IF k = i THEN "apply" ELSE proc[k]
        /\ UNCHANGED <<copier, held, attempts, refused, errs, got>>
    BY <1>5 DEF Distribute, TypeOK, Object
  <2>2. \A k \in Processor : Copied(k)' <=> Copied(k)
    BY <2>1 DEF Copied
  <2>3. obj[i] = 0
    BY <2>1 DEF StageInv
  <2>4. \A k \in Processor : obj[k] \in Nat /\ held[k] \in Nat
    BY DEF TypeOK
  <2>5. ASSUME NEW o \in Object
        PROVE  StageInv!1!(o)'
    BY <1>0, <2>1, <2>2, <2>3, <2>5 DEF StageInv
  <2>6. ASSUME NEW k \in Processor
        PROVE  StageInv!2!(k)'
    <3>1. CASE k = i
      BY <1>0, <2>1, <2>2, <2>3, <2>4, <3>1 DEF StageInv
    <3>2. CASE k # i
      BY <1>0, <2>1, <2>2, <2>3, <2>4, <3>2 DEF StageInv
    <3>. QED
      BY <3>1, <3>2
  <2>. QED
    BY <2>1, <2>5, <2>6 DEF StageInv
<1>6. ASSUME NEW i \in Processor, Apply(i)
      PROVE  StageInv'
  <2>1. /\ proc[i] = "apply" /\ obj[i] \in Object
        /\ \A k \in Processor : proc'[k] = IF k = i THEN "send" ELSE proc[k]
        /\ \A o \in Object : attempts'[o] = IF o = obj[i] THEN attempts[o] + 1 ELSE attempts[o]
        /\ \A o \in Object \ {obj[i]} : refused'[o] = refused[o]
        /\ UNCHANGED <<next, obj, copier, held, errs, got>>
    BY <1>6 DEF Apply, TypeOK, StageInv, Object
  <2>2. \A k \in Processor : Copied(k)' <=> Copied(k)
    BY <2>1 DEF Copied
  <2>3. attempts[obj[i]] = 0 /\ obj[i] \notin got /\ obj[i] < next
    BY <1>0, <2>1 DEF StageInv
  <2>4. \A k \in Processor : obj[k] \in Nat /\ (obj[k] # 0 => obj[k] \in Object)
    BY DEF TypeOK, Object
  <2>5. ASSUME NEW o \in Object
        PROVE  StageInv!1!(o)'
    <3>1. CASE o = obj[i]
      BY <1>0, <2>1, <2>2, <2>3, <3>1 DEF StageInv, TypeOK
    <3>2. CASE o # obj[i]
      BY <1>0, <2>1, <2>2, <3>2 DEF StageInv
    <3>. QED
      BY <3>1, <3>2
  <2>6. ASSUME NEW k \in Processor
        PROVE  StageInv!2!(k)'
    <3>1. CASE k = i
      BY <1>0, <2>1, <2>2, <2>3, <2>4, <3>1 DEF StageInv
    <3>2. CASE k # i
      <4>1. obj[k] # 0 => obj[k] # obj[i]
        BY <3>2 DEF StageInv
      <4>2. Copied(k) => held[k] # obj[i]
        BY <1>0, <2>1 DEF StageInv
      <4>. QED
        BY <1>0, <2>1, <2>2, <2>4, <3>2, <4>1, <4>2 DEF StageInv
    <3>. QED
      BY <3>1, <3>2
  <2>7. errs' = {o \in got' : refused'[o] # "no"}
    BY <2>1, <2>3 DEF StageInv, TypeOK
  <2>. QED
    BY <2>5, <2>6, <2>7 DEF StageInv
<1>7. ASSUME NEW i \in Processor, Copy(i)
      PROVE  StageInv'
  <2>1. /\ proc[i] = "send" /\ copier[i] = "recv"
        /\ \A k \in Processor : held'[k] = IF k = i THEN obj[i] ELSE held[k]
        /\ \A k \in Processor : obj'[k] = IF k = i THEN 0 ELSE obj[k]
        /\ \A k \in Processor : proc'[k] = IF k = i THEN "recv" ELSE proc[k]
        /\ \A k \in Processor : copier'[k] = IF k = i THEN "send" ELSE copier[k]
        /\ UNCHANGED <<next, attempts, refused, errs, got>>
    BY <1>7 DEF Copy, TypeOK
  <2>2. \A k \in Processor : Copied(k)' <=> (k = i \/ Copied(k))
    BY <2>1 DEF Copied
  <2>3. obj[i] \in Object /\ obj[i] # 0 /\ obj[i] < next /\ obj[i] \notin got
        /\ attempts[obj[i]] = 1 /\ ~Copied(i)
    BY <2>1 DEF StageInv, TypeOK, Object, Copied
  <2>4. \A k \in Processor : k # i => obj[k] # obj[i] /\ (Copied(k) => held[k] # obj[i])
    BY <2>3 DEF StageInv
  <2>5. ASSUME NEW o \in Object
        PROVE  StageInv!1!(o)'
    BY <1>0, <2>1, <2>2, <2>3, <2>5 DEF StageInv
  <2>6. ASSUME NEW k \in Processor
        PROVE  StageInv!2!(k)'
    <3>1. CASE k = i
      BY <2>1, <2>2, <2>3, <2>4, <3>1
    <3>2. CASE k # i
      BY <2>1, <2>2, <2>3, <2>4, <3>2 DEF StageInv
    <3>. QED
      BY <3>1, <3>2
  <2>. QED
    BY <2>1, <2>5, <2>6 DEF StageInv
<1>8. ASSUME NEW i \in Processor, Collect(i)
      PROVE  StageInv'
  <2>1. /\ Copied(i) /\ got' = got \cup {held[i]}
        /\ errs' = IF refused[held[i]] = "no" THEN errs ELSE errs \cup {held[i]}
        /\ \A k \in Processor : copier'[k] = IF k = i THEN "recv" ELSE copier[k]
        /\ UNCHANGED <<next, proc, obj, held, attempts, refused>>
    BY <1>8 DEF Collect, TypeOK, Copied
  <2>2. \A k \in Processor : Copied(k)' <=> (k # i /\ Copied(k))
    BY <2>1 DEF Copied
  <2>3. held[i] \in Object /\ held[i] < next /\ attempts[held[i]] = 1
    BY <2>1 DEF StageInv
  <2>4. \A k \in Processor : /\ obj[k] # 0 => obj[k] # held[i]
                             /\ k # i /\ Copied(k) => held[k] # held[i]
    BY <2>1 DEF StageInv
  <2>5. ASSUME NEW o \in Object
        PROVE  StageInv!1!(o)'
    <3>1. o # held[i] => (o \in got' <=> o \in got)
      BY <2>1
    <3>. QED
      BY <1>0, <2>1, <2>2, <2>3, <3>1 DEF StageInv, TypeOK
  <2>6. ASSUME NEW k \in Processor
        PROVE  StageInv!2!(k)'
    BY <2>1, <2>2, <2>3, <2>4 DEF StageInv
  <2>7. errs' = {o \in got' : refused'[o] # "no"}
    BY <2>1 DEF StageInv
  <2>. QED
    BY <2>5, <2>6, <2>7 DEF StageInv
<1>. QED
  BY <1>1, <1>2, <1>3, <1>4, <1>5, <1>6, <1>7, <1>8 DEF Next, Step

-----------------------------------------------------------------------------
(* The theorems.                                                            *)

LEMMA InitInv == Init => IInv
<1>. SUFFICES ASSUME Init
              PROVE  IInv
  OBVIOUS
<1>1. TypeOK
  BY DEF Init, TypeOK
<1>2. EndInv
  BY DEF Init, EndInv, Processor
<1>3. StageInv
  BY DEF Init, StageInv, Copied, Object
<1>. QED
  BY <1>1, <1>2, <1>3 DEF IInv

(* IInv is an invariant of the goroutines.                                  *)
THEOREM Invariance == Spec => []IInv
<1>1. IInv /\ [Next]_vars => IInv'
  BY TypeStep, EndStep, StageStep DEF IInv
<1>. QED
  BY InitInv, <1>1, PTL DEF Spec

(* The types hold for any number of objects.                                *)
THEOREM TypeCorrect == Spec => []TypeOK
<1>1. IInv => TypeOK
  BY DEF IInv
<1>. QED
  BY <1>1, Invariance, PTL

(* No object is sent to the API server twice.                               *)
THEOREM NoSecondCall == Spec => []AppliedOnce
<1>1. IInv => AppliedOnce
  <2>. SUFFICES ASSUME IInv, NEW o \in Object
                PROVE  attempts[o] <= 1
    BY DEF AppliedOnce
  <2>1. attempts[o] = 0 \/ attempts[o] = 1
    <3>1. o # 0 /\ (o >= next \/ o < next)
      BY DEF IInv, TypeOK, Object
    <3>2. CASE o >= next \/ o \in got
      BY <3>2 DEF IInv, StageInv
    <3>3. ASSUME NEW i \in Processor, obj[i] = o
          PROVE  attempts[o] = 0 \/ attempts[o] = 1
      BY <3>1, <3>3 DEF IInv, StageInv
    <3>4. ASSUME NEW i \in Processor, Copied(i), held[i] = o
          PROVE  attempts[o] = 1
      BY <3>4 DEF IInv, StageInv
    <3>. QED
      BY <3>1, <3>2, <3>3, <3>4 DEF IInv, StageInv
  <2>. QED
    BY <2>1
<1>. QED
  BY <1>1, Invariance, PTL

(* When the caller has its answer nothing is left in the channels.          *)
LEMMA ChannelsEmpty ==
  ASSUME IInv, ~outOpen
  PROVE  /\ ~srcOpen /\ next = N + 1
         /\ \A i \in Processor : /\ proc[i] = "closed" /\ copier[i] = "done"
                                 /\ obj[i] = 0 /\ ~Copied(i)
<1>1. \A i \in Processor : copier[i] = "done" /\ proc[i] = "closed"
  BY DEF IInv, EndInv
<1>2. 1 \in Processor
  BY DEF Processor
<1>3. ~srcOpen /\ next = N + 1
  BY <1>1, <1>2 DEF IInv, EndInv
<1>. QED
  BY <1>1, <1>3 DEF IInv, StageInv, Copied

(* No object and no error is lost between the channels.                     *)
THEOREM EveryObjectApplied == Spec => []AllApplied
<1>1. IInv => AllApplied
  <2>. SUFFICES ASSUME IInv, caller = "done"
                PROVE  /\ \A o \in Object : attempts[o] = 1
                       /\ errs = {o \in Object : refused[o] # "no"}
    BY DEF AllApplied
  <2>1. ~outOpen
    BY DEF IInv, EndInv
  <2>2. \A o \in Object : o < next /\ o # 0
    BY <2>1, ChannelsEmpty DEF Object
  <2>3. ASSUME NEW o \in Object
        PROVE  o \in got
    <3>1. \A i \in Processor : obj[i] # o /\ ~Copied(i)
      BY <2>1, <2>2, ChannelsEmpty
    <3>. QED
      BY <2>2, <3>1 DEF IInv, StageInv
  <2>4. got = Object
    BY <2>3 DEF IInv, TypeOK
  <2>. QED
    BY <2>4 DEF IInv, StageInv
<1>. QED
  BY <1>1, Invariance, PTL

(* No goroutine outlives the call.                                          *)
THEOREM AllGoroutinesEnd == Spec => []NoGoroutineLeft
<1>1. IInv => NoGoroutineLeft
  BY ChannelsEmpty DEF IInv, EndInv, NoGoroutineLeft
<1>. QED
  BY <1>1, Invariance, PTL

-----------------------------------------------------------------------------
(* The channels implement WorkSharing.                                      *)

InProcessor == {obj[i] : i \in Processor}
Handled     == (1..(next - 1)) \ InProcessor

(* Every behaviour of the channels is one of the abstract sharing of work.  *)
THEOREM ChannelsShareWork == Spec => SharesWork
<1>. DEFINE todo == [j \in {"objects"} |-> Left]
            handled == [j \in {"objects"} |-> (1..(next - 1)) \ {obj[i] : i \in Processor}]
            jobOf == [i \in Processor |-> "objects"]
            over == caller = "done"
<1>1. Init => Sharing!Init
  BY DEF Init, Sharing!Init, Left
<1>2. IInv /\ [Next]_vars => [Sharing!Next]_(Sharing!workVars)
  <2>. SUFFICES ASSUME IInv, [Next]_vars
                PROVE  Sharing!Next \/ UNCHANGED Sharing!workVars
    OBVIOUS
  <2>. USE DEF callerVars, srcVars, procVars, copyVars, apiVars
  <2>1. CASE Return
    <3>1. over' /\ ~over /\ UNCHANGED <<next, obj>> /\ ~outOpen
      BY <2>1 DEF Return
    <3>2. Handled = 1..N
      BY <3>1, ChannelsEmpty DEF Handled, InProcessor
    <3>3. Sharing!GoOn
      BY <3>1, <3>2 DEF Sharing!GoOn, Left, Handled, InProcessor
    <3>. QED
      BY <3>3 DEF Sharing!Next
  <2>2. ASSUME NEW i \in Processor, Distribute(i)
        PROVE  Sharing!Take(i)
    <3>1. /\ next \in 1..N /\ next' = next + 1 /\ caller' = caller /\ obj[i] = 0
          /\ obj' = [obj EXCEPT ![i] = next]
          /\ \A k \in Processor : obj'[k] = IF k = i THEN next ELSE obj[k]
      BY <2>2 DEF Distribute, IInv, TypeOK, StageInv
    <3>2. next \in Left /\ Left' = Left \ {next}
      BY <3>1 DEF Left
    <3>3. Handled' = Handled
      <4>1. ASSUME NEW n \in 1..(next - 1)
            PROVE  n \in InProcessor' <=> n \in InProcessor
        BY <3>1 DEF InProcessor
      <4>2. next \in InProcessor'
        BY <3>1 DEF InProcessor
      <4>. QED
        BY <3>1, <4>1, <4>2 DEF Handled
    <3>. QED
      BY <3>1, <3>2, <3>3 DEF Sharing!Take, Handled, InProcessor
  <2>3. ASSUME NEW i \in Processor, Copy(i)
        PROVE  Sharing!Handle(i)
    <3>1. /\ UNCHANGED <<next, caller>> /\ obj[i] # 0 /\ obj[i] \in 1..(next - 1)
          /\ obj' = [obj EXCEPT ![i] = 0]
          /\ \A k \in Processor : obj'[k] = IF k = i THEN 0 ELSE obj[k]
          /\ \A k \in Processor \ {i} : obj[k] # obj[i]
      BY <2>3 DEF Copy, IInv, TypeOK, StageInv
    <3>2. Handled' = Handled \cup {obj[i]}
      <4>1. ASSUME NEW n \in 1..(next - 1)
            PROVE  n \in InProcessor' <=> n \in InProcessor /\ n # obj[i]
        BY <3>1 DEF InProcessor
      <4>. QED
        BY <3>1, <4>1 DEF Handled
    <3>. QED
      BY <3>1, <3>2 DEF Sharing!Handle, Handled, InProcessor, Left
  <2>4. CASE ~Return /\ \A i \in Processor : ~Distribute(i) /\ ~Copy(i)
    <3>1. UNCHANGED <<next, obj>> /\ over' = over
      BY <2>4 DEF Next, Step, Terminated, vars, StartProcessor, CombineResults, CloseSource,
                  CloseOut, Collect, Apply, ProcessorEnds, CopierEnds
    <3>. QED
      BY <3>1 DEF Sharing!workVars, Left
  <2>. QED
    BY <2>1, <2>2, <2>3, <2>4 DEF Sharing!Next
<1>. QED
  BY <1>1, <1>2, Invariance, PTL DEF Spec, SharesWork, Sharing!Spec
=============================================================================
