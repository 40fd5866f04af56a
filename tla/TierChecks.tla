----------------------------- MODULE TierChecks -----------------------------
(***************************************************************************)
(* The verification of a provisioned space: testsupport/space/space.go,    *)
(* tiers/nstemplateset.go, tiers/templaterefs.go, tiers/tier_setup.go and  *)
(* the checks of tiers/checks.go (their tables are in TierCatalogue).      *)
(*                                                                         *)
(* A test changes a space (moves it to another tier, updates its custom    *)
(* tier, binds users in other roles) and verifies it after every change:   *)
(* the main goroutine waits for the Space, the NSTemplateSet and the       *)
(* namespaces one after the other, and starts a goroutine for every check. *)
(*                                                                         *)
(* External: the host operator, which turns the Space into the spec of its *)
(* NSTemplateSet and copies the outcome back, and the member operator,     *)
(* which applies the templates object by object.  An operator may be       *)
(* faulty: it reports a phase done although one object is wrong, or is too *)
(* late for the timeouts.  Without a fault the waits last until the        *)
(* operators have nothing left to do.                                      *)
(***************************************************************************)
EXTENDS TierCatalogue, SequencesExt

CONSTANTS
  Journeys,   (* what a test does: records with the tier and the bindings   *)
              (* it starts from, the steps, the kinds of objects that are   *)
              (* followed, and whether the space inherits bindings          *)
  MaxFaults   (* bound: what faulty operators get wrong, or too late        *)

ASSUME MaxFaultsAssumption == MaxFaults \in Nat

(* A test creates its space in one of the built-in tiers, and moves it to   *)
(* others, or to its custom tier.  Somebody always has a role that the      *)
(* templates in use know, unless inheritance is disabled: the wait for any  *)
(* roles expects it.                                                        *)
StepsThat(j, do) == {s \in {j.steps[i] : i \in DOMAIN j.steps} : s.do \in do}
BindingsOf(j) == {j.bindings} \cup {s.bindings : s \in StepsThat(j, {"bind", "share"})}
TemplatesOf(j) == {j.tier} \cup {s.tier : s \in StepsThat(j, {"move"})} \cup {s.parts["roles"] : s \in StepsThat(j, {"tier"})}

ASSUME JourneysAssumption ==
  \A j \in Journeys :
    /\ j.tier \in Tiers
    /\ j.steps \in Seq({j.steps[i] : i \in DOMAIN j.steps}) /\ j.steps # <<>>
    /\ \A i \in DOMAIN j.steps : j.steps[i].do \in {"move", "tier", "bind", "share"}
    /\ \A s \in StepsThat(j, {"move"}) : s.tier \in Tiers
    /\ j.inherits => \A b \in BindingsOf(j), t \in TemplatesOf(j) :
                       IsFiniteSet(b) /\ \E one \in b : one.role \in KnownRoles(t)

VARIABLES
  journey,   (* chosen once                                                 *)
  round,     (* the step of the journey under way                           *)
  pc,        (* where the main goroutine of the test is                     *)
  local,     (* what it has read: the refs, the roles and tier of the set;  *)
             (* before that, the roles it expects from the bindings         *)
  left,      (* types of namespaces it still has to wait for                *)
  running,   (* check goroutines                                            *)
  failed,    (* the test is marked failed                                   *)
  custom,    (* the custom NSTemplateTier: parts and revised parts          *)
  bindings,  (* the SpaceBindings: who has which role                       *)
  space,     (* the Space: tier, and provisioned, hash, namespaces          *)
  set,       (* the NSTemplateSet: spec and status                          *)
  labels,    (* namespaces: the templateref label or Unlabelled         *)
  world,     (* the objects that are there                                  *)
  faults     (* what an operator got wrong so far, or too late              *)

test     == <<journey, round, pc, local, left, running, failed>>
cluster  == <<space, set, labels, world, faults>>
vars     == <<test, custom, bindings, cluster>>

Phase == {"cluster", "namespaces", "roles"}

-----------------------------------------------------------------------------
(* Tiers and the template refs they stand for.                             *)

(* A template ref: the tier it belongs to and the built-in tier whose       *)
(* template it is (the same, but for a copy in a custom tier).              *)
Ref(tier, basis) == [tier |-> tier, basis |-> basis]
Unlabelled       == Ref("", "")

Parts(tier) == IF tier = "custom" THEN custom.parts ELSE [p \in Phase |-> tier]
Refs(tier)  == [p \in Phase |-> Ref(tier, Parts(tier)[p])]
Hash(tier)  == <<tier, Parts(tier)>>

(* HasStatusTierTemplateRevisionKeys                                        *)
Revised(tier) == tier = "custom" => custom.revised = custom.parts

(* The roles of the bindings that the tier has templates for (those its     *)
(* checks know), with their users.                                          *)
FromBindings(all, basis) ==
  {[role |-> r, users |-> {b.user : b \in {c \in all : c.role = r}}] :
     r \in {b.role : b \in all} \cap KnownRoles(basis)}

(* The host operator lists them in the order of the names of the roles.     *)
Rank == [admin |-> 1, contributor |-> 2, maintainer |-> 3, viewer |-> 4]
InOrder(roles) ==
  [i \in 1..Cardinality(roles) |->
     CHOOSE r \in roles : Cardinality({q \in roles : Rank[q.role] < Rank[r.role]}) = i - 1]

RolesIn(tier) == FromBindings(bindings, Parts(tier)["roles"])
Desired == [tier |-> space.tier, refs |-> Refs(space.tier), roles |-> InOrder(RolesIn(space.tier))]

-----------------------------------------------------------------------------
(* What the templates of a spec hold (external): the objects the checks     *)
(* name.                                                                    *)

NoNamespace == ""   \* of what belongs to the cluster
Followed(objects) == {o \in objects : o.kind \in journey.kinds}
Place(phase, at, objects) == {[by |-> phase, at |-> at, object |-> o] : o \in Followed(objects)}

Quota(q, tier) == Object("ClusterResourceQuota", <<q[1]>>, q \o <<tier>>)
Idler(i, timeout, tier) == Object("Idler", <<i>>, <<timeout, tier>>)

ClusterObjects(spec) ==
  LET checks == GetClusterObjectChecks(spec.refs["cluster"].basis) IN
  {Quota(q, spec.tier) : q \in checks.quotas} \cup {Idler(i, checks.timeout, spec.tier) : i \in checks.idlers}

Types(spec) == NsTypes(spec.refs["namespaces"].basis)

Wanted(phase, spec) ==
  CASE phase = "cluster"    -> Place("cluster", NoNamespace, ClusterObjects(spec))
    [] phase = "namespaces" ->
         UNION {Place("namespaces", n, GetNamespaceObjectChecks(spec.refs["namespaces"].basis, n).named) : n \in Types(spec)}
    [] phase = "roles"      ->
         UNION {Place("roles", n, GetSpaceRoleChecks(spec.refs["roles"].basis, ToSet(spec.roles)).named) : n \in Types(spec)}

Current(phase) == {w \in world : w.by = phase}

-----------------------------------------------------------------------------
(* The host operator (external).                                           *)

HostRevise == /\ ~Revised("custom")
              /\ custom' = [custom EXCEPT !.revised = custom.parts]
              /\ UNCHANGED <<test, bindings, cluster>>

HostSync == /\ Revised(space.tier)
            /\ set.spec # Desired
            /\ set' = [set EXCEPT !.spec = Desired]
            /\ space' = [space EXCEPT !.provisioned = FALSE]
            /\ UNCHANGED <<test, custom, bindings, labels, world, faults>>

(* The condition of the NSTemplateSet may still be the one of before.       *)
Outcome == [tier |-> space.tier, provisioned |-> TRUE, hash |-> Hash(space.tier), namespaces |-> set.namespaces]

HostFinish == /\ Revised(space.tier)
              /\ set.spec = Desired
              /\ set.provisioned
              /\ space # Outcome
              /\ space' = Outcome
              /\ UNCHANGED <<test, custom, bindings, set, labels, world, faults>>

HostIdle == /\ Revised("custom")
            /\ set.spec = Desired
            /\ set.provisioned => space = Outcome

-----------------------------------------------------------------------------
(* The member operator (external): cluster resources, namespaces, roles.   *)

Done(phase) == CASE phase = "roles" -> set.status["roles"] = <<set.spec.refs["roles"], set.spec.roles>>
                 [] OTHER           -> set.status[phase] = set.spec.refs[phase]

Settled == \A p \in Phase : Done(p)

Turn(phase) == /\ ~set.provisioned
               /\ ~Done(phase)
               /\ phase \in {"namespaces", "roles"} => Done("cluster")
               /\ phase = "roles" => Done("namespaces")

MemberStart == /\ set.provisioned
               /\ ~Settled
               /\ set' = [set EXCEPT !.provisioned = FALSE]
               /\ UNCHANGED <<test, custom, bindings, space, labels, world, faults>>

(* A namespace the tier does not have goes with all that is in it.          *)
MemberDeleteNamespace == /\ Turn("namespaces")
                         /\ \E n \in DOMAIN labels \ Types(set.spec) :
                              /\ labels' = [m \in DOMAIN labels \ {n} |-> labels[m]]
                              /\ world' = {w \in world : w.at # n}
                         /\ UNCHANGED <<test, custom, bindings, space, set, faults>>

MemberCreateNamespace == /\ Turn("namespaces")
                         /\ \E n \in Types(set.spec) \ DOMAIN labels :
                              labels' = [m \in DOMAIN labels \cup {n} |-> IF m = n THEN Unlabelled ELSE labels[m]]
                         /\ UNCHANGED <<test, custom, bindings, space, set, world, faults>>

Same(v, w) == v.at = w.at /\ v.object.kind = w.object.kind /\ v.object.name = w.object.name

(* One object is created, or replaces the one of its name, or is removed.   *)
MemberApply ==
  \E p \in Phase :
    /\ Turn(p)
    /\ p = "namespaces" => DOMAIN labels = Types(set.spec)
    /\ \/ \E w \in Wanted(p, set.spec) \ world : world' = {v \in world : ~Same(v, w)} \cup {w}
       \/ \E w \in Current(p) : /\ \A v \in Wanted(p, set.spec) : ~Same(v, w)
                                /\ world' = world \ {w}
    /\ UNCHANGED <<test, custom, bindings, space, set, labels, faults>>

(* What a faulty operator may leave: one object missing, of before, or too  *)
(* many.                                                                    *)
Difference(phase) == (Wanted(phase, set.spec) \ Current(phase)) \cup (Current(phase) \ Wanted(phase, set.spec))
OneWrong(phase)   == /\ Difference(phase) # {}
                     /\ \A v, w \in Difference(phase) : Same(v, w)

(* The phase is reported in the status; the labels of the namespaces come   *)
(* with theirs (a faulty operator may miss one), and the roles are applied  *)
(* again after the namespaces.                                              *)
StatusAfter(phase) ==
  CASE phase = "cluster"    -> [set.status EXCEPT !["cluster"] = set.spec.refs["cluster"]]
    [] phase = "namespaces" -> [set.status EXCEPT !["namespaces"] = set.spec.refs["namespaces"], !["roles"] = <<>>]
    [] phase = "roles"      -> [set.status EXCEPT !["roles"] = <<set.spec.refs["roles"], set.spec.roles>>]

Labelled(types) == [n \in DOMAIN labels |-> IF n \in types THEN set.spec.refs["namespaces"] ELSE Unlabelled]

MemberSettle ==
  \E p \in Phase :
    /\ Turn(p)
    /\ p = "namespaces" => DOMAIN labels = Types(set.spec)
    /\ Difference(p) = {}
    /\ set' = [set EXCEPT !.status = StatusAfter(p)]
    /\ labels' = IF p = "namespaces" THEN Labelled(DOMAIN labels) ELSE labels
    /\ UNCHANGED <<test, custom, bindings, space, world, faults>>

MemberSettleWrongly ==
  \E p \in Phase :
    /\ Turn(p)
    /\ p = "namespaces" => DOMAIN labels = Types(set.spec)
    /\ faults < MaxFaults
    /\ faults' = faults + 1
    /\ set' = [set EXCEPT !.status = StatusAfter(p)]
    /\ \/ /\ OneWrong(p)
          /\ labels' = IF p = "namespaces" THEN Labelled(DOMAIN labels) ELSE labels
       \/ /\ p = "namespaces"
          /\ Difference(p) = {}
          /\ \E n \in DOMAIN labels : labels' = Labelled(DOMAIN labels \ {n})
    /\ UNCHANGED <<test, custom, bindings, space, world>>

MemberFinish == /\ ~set.provisioned
                /\ Settled
                /\ set' = [set EXCEPT !.provisioned = TRUE, !.namespaces = DOMAIN labels]
                /\ UNCHANGED <<test, custom, bindings, space, labels, world, faults>>

Operators == \/ HostRevise \/ HostSync \/ HostFinish
             \/ MemberStart \/ MemberDeleteNamespace \/ MemberCreateNamespace \/ MemberApply
             \/ MemberSettle \/ MemberSettleWrongly \/ MemberFinish

(* An operator is too late: what a test waits for may time out.             *)
Late == /\ faults < MaxFaults
        /\ faults' = faults + 1
        /\ UNCHANGED <<test, custom, bindings, space, set, labels, world>>

(* Nothing is left to do: what a test still waits for will not come.        *)
Quiet    == HostIdle /\ set.provisioned /\ Settled
TimedOut == Quiet \/ faults > 0

-----------------------------------------------------------------------------
(* The test changes something, then verifies.                              *)

(* WaitForSpace and WaitForNSTmplSet: the criteria are the values wanted of *)
(* what the test can see.                                                   *)
WaitForSpace(criteria) == \A c \in DOMAIN criteria : space[c] = criteria[c]

NSTemplateSetCriteria ==
  [tier |-> set.spec.tier, provisioned |-> set.provisioned, roles |-> set.spec.roles,
   anyRoles |-> set.spec.roles # <<>>, namespaces |-> set.namespaces]
WaitForNSTmplSet(criteria) == \A c \in DOMAIN criteria : NSTemplateSetCriteria[c] = criteria[c]

Goto(label) == pc' = label

Step == journey.steps[round]

(* CreateCustomNSTemplateTier and UpdateCustomNSTemplateTier: the parts are *)
(* copies of templates of built-in tiers; then the revisions are awaited.   *)
ChangeTier == /\ pc = "step"
              /\ Step.do = "tier"
              /\ custom' = [custom EXCEPT !.parts = [p \in Phase |-> Step.parts[p]]]
              /\ Goto("revised")
              /\ UNCHANGED <<journey, round, local, left, running, failed, bindings, cluster>>

AwaitRevised == /\ pc = "revised"
                /\ Revised("custom")
                /\ Goto("move")
                /\ UNCHANGED <<journey, round, local, left, running, failed, custom, bindings, cluster>>

(* MoveSpaceToTier                                                          *)
MoveSpaceToTier == /\ \/ pc = "step" /\ Step.do = "move"
                      \/ pc = "move"
                   /\ space' = [space EXCEPT !.tier = IF Step.do = "move" THEN Step.tier ELSE "custom"]
                   /\ Goto("space")
                   /\ UNCHANGED <<journey, round, local, left, running, failed, custom, bindings, set, labels, world, faults>>

(* The SpaceBindings are changed, one at a time in the code; a shared space *)
(* is verified by VerifySpaceRelatedResources.                              *)
Bind == /\ pc = "step"
        /\ Step.do \in {"bind", "share"}
        /\ bindings' = Step.bindings
        /\ Goto(IF Step.do = "bind" THEN "bound" ELSE "space")
        /\ UNCHANGED <<journey, round, local, left, running, failed, custom, cluster>>

(* Faulty variant: the wait for the space roles is skipped.                 *)
AwaitNothing == /\ pc = "bound"
                /\ Goto("space")
                /\ UNCHANGED <<journey, round, local, left, running, failed, custom, bindings, cluster>>

(* UntilNSTemplateSetHasSpaceRoles: a test lists the roles it expects in    *)
(* the order of their names.                                                *)
Bound == WaitForNSTmplSet([provisioned |-> TRUE, roles |-> InOrder(RolesIn(space.tier))])
AwaitSpaceRoles == /\ pc = "bound"
                   /\ Bound
                   /\ Goto("space")
                   /\ UNCHANGED <<journey, round, local, left, running, failed, custom, bindings, cluster>>

-----------------------------------------------------------------------------
(* verifyResourcesProvisionedForSpace, VerifySpaceRelatedResources and     *)
(* VerifyNSTemplateSet.                                                    *)

Tier == IF Step.do = "tier" THEN "custom" ELSE space.tier

Main(next) == /\ Goto(next)
              /\ UNCHANGED <<journey, round, failed, custom, bindings, cluster>>

SpaceThere == WaitForSpace([tier |-> Tier, hash |-> Hash(Tier), provisioned |-> TRUE])
AwaitSpace == /\ pc = "space"
              /\ SpaceThere
              /\ Main(IF Step.do = "share" THEN "list" ELSE "set")
              /\ UNCHANGED <<local, left, running>>

(* ListSpaceBindings; UntilNSTemplateSetHasSpaceRolesFromBindings lists the *)
(* roles in the random order of a map.                                      *)
ListSpaceBindings == /\ pc = "list"
                     /\ \E s \in SetToSeqs(RolesIn(Tier)) : local' = [expected |-> s]
                     /\ Main("roles")
                     /\ UNCHANGED <<left, running>>

RolesAsListed == WaitForNSTmplSet([tier |-> Tier, roles |-> local.expected])
AwaitRolesFromBindings == /\ pc = "roles"
                          /\ RolesAsListed
                          /\ Main("refs")
                          /\ UNCHANGED <<local, left, running>>

SetThere == WaitForNSTmplSet([tier |-> Tier, provisioned |-> TRUE])
AwaitNSTemplateSet == /\ pc = "set"
                      /\ SetThere
                      /\ Main("refs")
                      /\ UNCHANGED <<local, left, running>>

(* UntilNSTemplateSetHasStatusTemplateRefs: the space roles of the status   *)
(* are compared with themselves.                                            *)
HasStatusTemplateRefs == /\ set.status["cluster"] = set.spec.refs["cluster"]
                         /\ set.status["namespaces"] = set.spec.refs["namespaces"]
                         /\ set.status["roles"] = set.status["roles"]

(* UntilNSTemplateSetHasTemplateRefs; a role's ref is the one of its tier.  *)
HasTemplateRefs(refs) == set.spec.refs = refs

(* GetTemplateRefs, then the wait for the NSTemplateSet; the copy it        *)
(* returns is used from here on.                                            *)
RefsThere == /\ Revised(Tier)
             /\ HasTemplateRefs(Refs(Tier))
             /\ journey.inherits => WaitForNSTmplSet([anyRoles |-> TRUE])
             /\ HasStatusTemplateRefs
AwaitTemplateRefs == /\ pc = "refs"
                     /\ RefsThere
                     /\ local' = [refs |-> Refs(Tier), tier |-> set.spec.tier, roles |-> set.spec.roles]
                     /\ left' = NsTypes(Parts(Tier)["namespaces"])
                     /\ Main("namespaces")
                     /\ UNCHANGED running

(* Faulty variant: nothing is counted.                                      *)
CountNothing(at, number) == {}

NamedChecks(at, objects) == {[look |-> "named", at |-> at, object |-> o] : o \in Followed(objects)}
CountChecks(at, number)  ==
  {[look |-> "number", at |-> at, kind |-> k, number |-> number[k]] : k \in DOMAIN number \cap journey.kinds}

NamespaceGoroutines(n) ==
  LET checks == GetNamespaceObjectChecks(local.refs["namespaces"].basis, n)
      roles  == GetSpaceRoleChecks(local.refs["roles"].basis, ToSet(local.roles))
  IN  NamedChecks(n, checks.named) \cup CountChecks(n, checks.number)
      \cup NamedChecks(n, roles.named) \cup CountChecks(n, roles.number)

WaitForNamespace(n) == n \in DOMAIN labels /\ labels[n] = local.refs["namespaces"]

(* The namespace has the labels that are waited for; its checks are started *)
(* before the next namespace is waited for.                                 *)
AwaitNamespace == /\ pc = "namespaces"
                  /\ \E n \in left : /\ WaitForNamespace(n)
                                     /\ left' = left \ {n}
                                     /\ running' = running \cup NamespaceGoroutines(n)
                  /\ Main("namespaces")
                  /\ UNCHANGED local

ClusterGoroutines ==
  LET checks == GetClusterObjectChecks(local.refs["cluster"].basis) IN
  NamedChecks(NoNamespace, {Quota(q, local.tier) : q \in checks.quotas})
  \cup CountChecks(NoNamespace, [ClusterResourceQuota |-> checks.number])
  \cup {[look |-> "idlers", at |-> NoNamespace, objects |-> {Idler(i, checks.timeout, local.tier) : i \in checks.idlers}] :
          k \in journey.kinds \cap {"Idler"}}

StartClusterChecks == /\ pc = "namespaces"
                      /\ left = {}
                      /\ running' = running \cup ClusterGoroutines
                      /\ Main("join")
                      /\ UNCHANGED <<local, left>>

(* Faulty variant: the checks are not waited for.                           *)
JoinNothing == /\ pc = "join"
               /\ Main("provisioned")
               /\ UNCHANGED <<local, left, running>>

(* Both WaitGroups.                                                         *)
Join == /\ pc = "join"
        /\ running = {}
        /\ Main("provisioned")
        /\ UNCHANGED <<local, left, running>>

(* All the namespaces that were waited for.                                 *)
GetExpectedProvisionedNamespaces == NsTypes(local.refs["namespaces"].basis)

SetNamespaces == WaitForNSTmplSet([namespaces |-> GetExpectedProvisionedNamespaces])
AwaitProvisionedNamespaces == /\ pc = "provisioned"
                              /\ SetNamespaces
                              /\ Main("spaceNamespaces")
                              /\ UNCHANGED <<local, left, running>>

(* Of a shared space any namespaces will do.                                *)
SpaceNamespaces == IF Step.do = "share"
                   THEN WaitForSpace([tier |-> Tier, provisioned |-> TRUE]) /\ space.namespaces # {}
                   ELSE WaitForSpace([namespaces |-> GetExpectedProvisionedNamespaces])
AwaitSpaceNamespaces == /\ pc = "spaceNamespaces"
                        /\ SpaceNamespaces
                        /\ Main("verified")
                        /\ UNCHANGED <<local, left, running>>

NextStep == /\ pc = "verified"
            /\ round < Len(journey.steps)
            /\ round' = round + 1
            /\ Goto("step")
            /\ UNCHANGED <<journey, local, left, running, failed, custom, bindings, cluster>>

(* What the main goroutine waits for does not hold.                         *)
Unanswered == \/ pc = "revised" /\ ~Revised("custom")
              \/ pc = "bound" /\ ~Bound
              \/ pc = "space" /\ ~SpaceThere
              \/ pc = "roles" /\ ~RolesAsListed
              \/ pc = "set" /\ ~SetThere
              \/ pc = "refs" /\ ~RefsThere
              \/ pc = "namespaces" /\ \E n \in left : ~WaitForNamespace(n)
              \/ pc = "provisioned" /\ ~SetNamespaces
              \/ pc = "spaceNamespaces" /\ ~SpaceNamespaces

(* Faulty variant: a wait polls without a timeout.                          *)
AwaitForever == pc = "never" /\ UNCHANGED vars

(* A wait times out and ends the test, while the checks that were started   *)
(* go on.                                                                   *)
AwaitFails == /\ Unanswered
              /\ TimedOut
              /\ failed' = TRUE
              /\ Goto("ended")
              /\ UNCHANGED <<journey, round, local, left, running, custom, bindings, cluster>>

-----------------------------------------------------------------------------
(* The check goroutines.                                                   *)

At(check) == {w.object : w \in {v \in world : v.at = check.at}}

WaitForIdlers(check)  == check.objects \subseteq At(check)
Number(check, kind)   == Cardinality({o \in At(check) : o.kind = kind})

(* Kinds whose content is not waited for, only that the object exists.      *)
AssertedKinds == {"LimitRange", "NetworkPolicy", "Role", "RoleBinding"}

Found(check)   == {o \in At(check) : o.kind = check.object.kind /\ o.name = check.object.name}
Matches(check) == check.object \in At(check)

Passes(check) ==
  CASE check.look = "named"  -> Matches(check)
    [] check.look = "number" -> Number(check, check.kind) = check.number
    [] check.look = "idlers" -> WaitForIdlers(check) /\ Number(check, "Idler") = Cardinality(check.objects)

(* The object is there, and not as it should be; or there are idlers too    *)
(* many, which are counted once.                                            *)
Asserts(check) ==
  CASE check.look = "named"  -> check.object.kind \in AssertedKinds /\ Found(check) # {} /\ ~Matches(check)
    [] check.look = "number" -> FALSE
    [] check.look = "idlers" -> WaitForIdlers(check) /\ ~Passes(check)

CheckEnds(check) == /\ running' = running \ {check}
                    /\ UNCHANGED <<journey, round, pc, local, left, custom, bindings, cluster>>

CheckPasses == \E c \in running : /\ Passes(c)
                                  /\ failed' = failed
                                  /\ CheckEnds(c)

CheckFails == \E c \in running : /\ Asserts(c) \/ (TimedOut /\ ~Passes(c))
                                 /\ failed' = TRUE
                                 /\ CheckEnds(c)

-----------------------------------------------------------------------------
Spec0(j) == [tier |-> j.tier, refs |-> [p \in Phase |-> Ref(j.tier, j.tier)],
             roles |-> InOrder(FromBindings(j.bindings, j.tier))]

(* The space is provisioned in its first tier.                              *)
Init == /\ journey \in Journeys
        /\ round = 1
        /\ pc = "step"
        /\ local = <<>>
        /\ left = {}
        /\ running = {}
        /\ failed = FALSE
        /\ custom = [parts |-> [p \in Phase |-> "none"], revised |-> [p \in Phase |-> "none"]]
        /\ bindings = journey.bindings
        /\ space = [tier |-> journey.tier, provisioned |-> TRUE, namespaces |-> NsTypes(journey.tier),
                    hash |-> <<journey.tier, [p \in Phase |-> journey.tier]>>]
        /\ set = [spec |-> Spec0(journey), provisioned |-> TRUE, namespaces |-> NsTypes(journey.tier),
                  status |-> [p \in Phase |-> IF p = "roles" THEN <<Ref(journey.tier, journey.tier), Spec0(journey).roles>>
                                              ELSE Ref(journey.tier, journey.tier)]]
        /\ labels = [n \in NsTypes(journey.tier) |-> Ref(journey.tier, journey.tier)]
        /\ world = UNION {Wanted(p, Spec0(journey)) : p \in Phase}
        /\ faults = 0

MainStep == \/ ChangeTier \/ AwaitRevised \/ MoveSpaceToTier \/ Bind \/ AwaitSpaceRoles
            \/ AwaitSpace \/ ListSpaceBindings \/ AwaitRolesFromBindings
            \/ AwaitNSTemplateSet \/ AwaitTemplateRefs \/ AwaitNamespace \/ StartClusterChecks
            \/ Join \/ AwaitProvisionedNamespaces \/ AwaitSpaceNamespaces \/ NextStep \/ AwaitFails

Next == Operators \/ Late \/ MainStep \/ CheckPasses \/ CheckFails

Spec == Init /\ [][Next]_vars

(* The operators reconcile until nothing is left to do, and a wait polls    *)
(* until it holds or times out.                                             *)
FairSpec == /\ Spec
            /\ WF_vars(Operators)
            /\ WF_vars(MainStep)
            /\ WF_vars(CheckPasses \/ CheckFails)

-----------------------------------------------------------------------------
(* Properties.                                                             *)

Asked == [tier |-> Tier, refs |-> Refs(Tier), roles |-> InOrder(RolesIn(Tier))]
Counted(phase, placed) ==
  LET kinds == IF phase = "cluster" THEN {"ClusterResourceQuota", "Idler"} ELSE {"LimitRange", "NetworkPolicy"} IN
  {w \in placed : w.object.kind \in kinds}

(* A verification that ends without a failure means that the counted kinds  *)
(* of objects are exactly those of the tier that was asked for, none        *)
(* missing, none outdated and none left over, even when the member operator *)
(* reports a phase done that is not.                                        *)
VerifiedMeansExact ==
  pc = "verified" /\ ~failed =>
    \A p \in {"cluster", "namespaces"} : Counted(p, Current(p)) = Counted(p, Wanted(p, Asked))

(* The roles that are waited for are those of the NSTemplateSet, in another *)
(* order: the one in which a map happened to list them.                     *)
Misordered == /\ pc = "roles"
              /\ set.spec = Desired
              /\ local.expected \in SetToSeqs(RolesIn(space.tier))
              /\ local.expected # set.spec.roles
              /\ Cardinality(RolesIn(space.tier)) # 1

(* The verification fails only when an operator got something wrong or was  *)
(* too late, with one exception: a wait that lists several roles in another *)
(* order than the host operator times out.  Otherwise no wait passes on     *)
(* what is left of before the change, so no check that looks only once      *)
(* comes too early, and none waits for what does not come.  That holds of   *)
(* the kinds the code counts in every journey; of roles not when a test     *)
(* takes new bindings back before the member operator has reported them,    *)
(* for which no wait looks.                                                 *)
NoFalseAlarm == [][failed' /\ ~failed => faults > 0 \/ Misordered]_vars

(* The same without the exception.                                          *)
NoAlarmAtAll == [][failed' /\ ~failed => faults > 0]_vars

(* The test never changes the tier or the bindings while check goroutines   *)
(* of the verification before still look at the space.                      *)
NoChangeUnderChecks ==
  [][space'.tier # space.tier \/ bindings' # bindings \/ custom'.parts # custom.parts => running = {}]_vars

(* The numbers that a tier's counting checks expect are those of the        *)
(* objects its other checks name, whoever has a role in the space; but a    *)
(* viewer next to a contributor counts as a second role, and the role that  *)
(* is looked for is the same.                                               *)
NumberOf(kind, objects) == Cardinality({o \in objects : o.kind = kind})
Grant(role, users) == [role |-> role, users |-> users]
AnyGrants == {{Grant("admin", {"u1"})}, {Grant("admin", {"u1", "u2"})}, {Grant("maintainer", {"u1"})},
              {Grant("viewer", {"u1"})}, {Grant("admin", {"u1"}), Grant("viewer", {"u2"})},
              {Grant("admin", {"u1"}), Grant("contributor", {"u2", "u3"})},
              {Grant("contributor", {"u2"}), Grant("viewer", {"u1"})}}
GrantsOf(tier) == {g \in AnyGrants : Granted(g) \subseteq KnownRoles(tier)}
ViewerAsContributor(g) == {"contributor", "viewer"} \subseteq Granted(g)
CountsAgree ==
  \A tier \in Tiers :
    /\ Cardinality(GetClusterObjectChecks(tier).quotas) = GetClusterObjectChecks(tier).number
    /\ \A n \in NsTypes(tier) :
         LET namespace == GetNamespaceObjectChecks(tier, n) IN
         /\ \A k \in DOMAIN namespace.number : NumberOf(k, namespace.named) = namespace.number[k]
         /\ \A g \in GrantsOf(tier) :
              LET roles == GetSpaceRoleChecks(tier, g) IN
              ~ViewerAsContributor(g) =>
                \A k \in DOMAIN roles.number : NumberOf(k, namespace.named \cup roles.named) = roles.number[k]

(* A role binding that is looked for binds to a role that is looked for in  *)
(* the same namespace; except, always, the viewer's: the role in its place  *)
(* is a contributor's.                                                      *)
BindingsResolve ==
  \A tier \in Tiers : \A n \in NsTypes(tier), g \in GrantsOf(tier) :
    LET objects == GetNamespaceObjectChecks(tier, n).named \cup GetSpaceRoleChecks(tier, g).named IN
    \A o \in objects : o.kind = "RoleBinding" /\ o.content[2] = "Role" =>
      (o.content[3] # "appstudio-viewer-user-actions" <=> \E r \in objects : r.kind = "Role" /\ r.name = <<o.content[3]>>)

(* The test ends: no wait and no check is left hanging.                     *)
VerificationEnds == <>(pc = "ended" \/ (pc = "verified" /\ round = Len(journey.steps)))

(* What the comment of UntilNSTemplateSetHasStatusTemplateRefs says: when   *)
(* the wait for the refs passes, those of the status are the expected ones, *)
(* the space roles' too.                                                    *)
StatusAwaited ==
  [][pc = "refs" /\ pc' = "namespaces" => set.status["roles"] = <<set.spec.refs["roles"], set.spec.roles>>]_vars
-----------------------------------------------------------------------------
(* The inductive invariant of VerifiedMeansExact.                           *)

ShapeInv ==
  /\ custom = [parts |-> custom.parts, revised |-> custom.revised]
  /\ space = [tier |-> space.tier, provisioned |-> space.provisioned, namespaces |-> space.namespaces, hash |-> space.hash]
  /\ set = [spec |-> set.spec, provisioned |-> set.provisioned, namespaces |-> set.namespaces, status |-> set.status]
  /\ set.status = [p \in Phase |-> set.status[p]]

(* Check goroutines run only while the main goroutine starts them, waits    *)
(* for them, or has given up.                                               *)
RunningInv == running # {} => pc \in {"namespaces", "join", "ended"}

(* Between the wait for the template refs and the next change.              *)
Verifying == {"namespaces", "join", "provisioned", "spaceNamespaces", "verified"}

(* The tier that is verified is the one the space was moved to.             *)
TierInv == /\ pc \in {"revised", "move"} => Step.do = "tier"
           /\ pc = "bound" => Step.do = "bind"
           /\ pc \in {"space", "list", "roles", "set", "refs"} \cup Verifying => Tier = space.tier
           /\ pc \in {"refs"} \cup Verifying => set.spec.tier = space.tier

(* The member operator has nothing to do in the first two phases until the  *)
(* refs of the space change and the host operator has put them in the spec. *)
Rested   == Done("cluster") /\ Done("namespaces")
RestInv  == pc \in Verifying \cup {"step"} \/ (pc \in {"revised", "move"} /\ space.tier # "custom")
              => set.spec.refs = Refs(space.tier) /\ Rested
SyncInv  == set.spec.refs # Refs(space.tier) => Rested
TypesInv == Done("namespaces") => DOMAIN labels = Types(set.spec)

(* What is where: which phase applies which kinds in which namespaces.      *)
ClusterKinds   == {"ClusterResourceQuota", "Idler"}
NamespaceKinds == {"LimitRange", "NetworkPolicy"}
CountedKinds   == ClusterKinds \cup NamespaceKinds
Placed(w) ==
  /\ w = [by |-> w.by, at |-> w.at, object |-> w.object]
  /\ w.by \in Phase
  /\ w.object.kind \in journey.kinds
  /\ w.by = "cluster" => w.at = NoNamespace /\ w.object.kind \in ClusterKinds
  /\ w.by = "namespaces" => w.at # NoNamespace /\ w.at \in DOMAIN labels /\ w.object.kind \notin ClusterKinds
  /\ w.by = "roles" => w.object.kind \in {"Role", "RoleBinding"}
OfKinds(kinds) == {w \in world : w.object.kind \in kinds}
WorldInv == (\A w \in world : Placed(w)) /\ IsFiniteSet(OfKinds(CountedKinds))

(* The checks of the counted kinds that were started run, have failed, or   *)
(* hold from then on.                                                       *)
CountedChecks(n) ==
  LET checks == GetNamespaceObjectChecks(local.refs["namespaces"].basis, n) IN
  NamedChecks(n, {o \in checks.named : o.kind \in NamespaceKinds}) \cup CountChecks(n, checks.number)
Checked(check) == check \in running \/ failed \/ Passes(check)
LocalInv == pc \in Verifying => /\ local.refs = Refs(space.tier)
                                /\ local.tier = space.tier
                                /\ pc # "namespaces" => left = {}
CheckedInv ==
  pc \in Verifying =>
    /\ \A n \in NsTypes(local.refs["namespaces"].basis) \ left : \A c \in CountedChecks(n) : Checked(c)
    /\ pc # "namespaces" => \A c \in ClusterGoroutines : Checked(c)

IInv == /\ ShapeInv /\ RunningInv /\ TierInv /\ RestInv /\ SyncInv /\ TypesInv /\ WorldInv /\ LocalInv /\ CheckedInv

(* As long as the member operator gets nothing wrong, what it reports is    *)
(* there, and every check that runs passes.                                 *)
AllChecks == ClusterGoroutines \cup UNION {NamespaceGoroutines(n) : n \in NsTypes(local.refs["namespaces"].basis)}
RefsInv   == \A p \in Phase : set.spec.refs[p].tier = set.spec.tier
PlacesInv == NoNamespace \notin DOMAIN labels
ChecksInv == pc \in Verifying => running \subseteq AllChecks /\ left \subseteq NsTypes(local.refs["namespaces"].basis)
Applied(phase) == Done(phase) => Current(phase) = Wanted(phase, set.spec)
Marked    == Done("namespaces") => \A n \in DOMAIN labels : labels[n] = set.spec.refs["namespaces"]
CleanInv  ==
  journey.kinds \subseteq CountedKinds /\ faults = 0 => Applied("cluster") /\ Applied("namespaces") /\ Marked

(* What the waits rely on: the member operator has reported the namespaces  *)
(* that are there, the roles that are waited for are those of the tier, and *)
(* somebody has a role that its templates know.                             *)
EndedInv    == pc = "ended" => failed
FinishedInv == set.provisioned => set.namespaces = DOMAIN labels
ListedInv   == pc = "roles" => local.expected \in SetToSeqs(RolesIn(space.tier))
JourneyInv  ==
  /\ journey \in Journeys
  /\ round \in DOMAIN journey.steps
  /\ bindings \in BindingsOf(journey)
  /\ space.tier # "custom" => space.tier \in TemplatesOf(journey)
  /\ space.tier = "custom" \/ pc \in {"revised", "move"} => custom.parts["roles"] \in TemplatesOf(journey)

AlarmInv == /\ IInv /\ faults \in Nat /\ RefsInv /\ PlacesInv /\ ChecksInv /\ CleanInv
            /\ EndedInv /\ FinishedInv /\ ListedInv /\ JourneyInv
=============================================================================
