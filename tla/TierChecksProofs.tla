--------------------------- MODULE TierChecksProofs ---------------------------
(***************************************************************************)
(* Proofs about TierChecks and the tables of TierCatalogue.                *)
(***************************************************************************)
EXTENDS TierChecks, FiniteSetTheorems, TLAPS

-----------------------------------------------------------------------------
(* The tables of TierCatalogue.                                             *)

LEMMA Families ==
  ASSUME NEW tier
  PROVE  /\ NsTypes(tier) \in {{"dev", "stage"}, {"tenant"}, {"env"}, {"claw"}, {"dev"}}
         /\ GetClusterObjectChecks(tier) \in {BaseClusterChecks, Base1nsClusterChecks, Base1nsnoidlingClusterChecks,
              Base1ns6didlerClusterChecks, AppstudioClusterChecks, AppstudiolargeClusterChecks,
              AppstudioEnvClusterChecks, ClawClusterChecks}
         /\ \A n : GetNamespaceObjectChecks(tier, n) \in {BaseNamespaceChecks(n), AppstudioNamespaceChecks,
              AppstudiolargeNamespaceChecks, AppstudioEnvNamespaceChecks, ClawNamespaceChecks, Base1nsNamespaceChecks}
         /\ \A g : GetSpaceRoleChecks(tier, g) \in {AppstudioSpaceRoleChecks(g), AppstudioEnvSpaceRoleChecks,
              ClawSpaceRoleChecks(g), BaseSpaceRoleChecks(g)}
  <1>1. NsTypes(tier) \in {{"dev", "stage"}, {"tenant"}, {"env"}, {"claw"}, {"dev"}}
    BY DEF NsTypes
  <1>2. GetClusterObjectChecks(tier) \in {BaseClusterChecks, Base1nsClusterChecks, Base1nsnoidlingClusterChecks,
              Base1ns6didlerClusterChecks, AppstudioClusterChecks, AppstudiolargeClusterChecks,
              AppstudioEnvClusterChecks, ClawClusterChecks}
    BY DEF GetClusterObjectChecks
  <1>3. ASSUME NEW n
        PROVE  GetNamespaceObjectChecks(tier, n) \in {BaseNamespaceChecks(n), AppstudioNamespaceChecks,
                 AppstudiolargeNamespaceChecks, AppstudioEnvNamespaceChecks, ClawNamespaceChecks, Base1nsNamespaceChecks}
    BY DEF GetNamespaceObjectChecks
  <1>4. ASSUME NEW g
        PROVE  GetSpaceRoleChecks(tier, g) \in {AppstudioSpaceRoleChecks(g), AppstudioEnvSpaceRoleChecks,
                 ClawSpaceRoleChecks(g), BaseSpaceRoleChecks(g)}
    BY DEF GetSpaceRoleChecks
  <1> QED BY <1>1, <1>2, <1>3, <1>4

LEMMA CountAdd ==
  ASSUME NEW S, NEW n \in Nat, IsFiniteSet(S) /\ Cardinality(S) = n, NEW a, a \notin S
  PROVE  IsFiniteSet(S \cup {a}) /\ Cardinality(S \cup {a}) = n + 1
  BY FS_AddElement

LEMMA PairCount ==
  ASSUME NEW a, NEW b, a # b
  PROVE  IsFiniteSet({a, b}) /\ Cardinality({a, b}) = 2
  <1>1. IsFiniteSet({a}) /\ Cardinality({a}) = 1
    BY FS_Singleton
  <1>2. IsFiniteSet({a} \cup {b}) /\ Cardinality({a} \cup {b}) = 1 + 1
    BY <1>1, b \notin {a}, CountAdd
  <1>3. {a} \cup {b} = {a, b}
    OBVIOUS
  <1> QED BY <1>2, <1>3

(* As many as a one-to-one function has arguments.                          *)
LEMMA ImageCount ==
  ASSUME NEW S, IsFiniteSet(S), NEW f, f = [a \in S |-> f[a]], \A a, b \in S : f[a] = f[b] => a = b
  PROVE  IsFiniteSet({f[a] : a \in S}) /\ Cardinality({f[a] : a \in S}) = Cardinality(S)
  <1> DEFINE T == {f[a] : a \in S}
  <1>1. f \in [S -> T]
    OBVIOUS
  <1>2. f \in Surjection(S, T)
    BY <1>1 DEF Surjection
  <1>3. f \in Injection(S, T)
    BY <1>1 DEF Injection, IsInjective
  <1> QED BY <1>2, <1>3, FS_Surjection

LEMMA PolicyNames ==
  /\ SameNamespace.name[1] = "allow-same-namespace"
  /\ FromIngress.name[1] = "allow-from-openshift-ingress"
  /\ FromMonitoring.name[1] = "allow-from-openshift-monitoring"
  /\ FromOlm.name[1] = "allow-from-olm-namespaces"
  /\ FromConsole.name[1] = "allow-from-console-namespaces"
  /\ FromDevSandbox.name[1] = "allow-from-dev-sandbox-managed-ns"
  /\ FromCRW.name[1] = "allow-from-codeready-workspaces-operator"
  /\ FromModelMesh.name[1] = "allow-from-redhat-ods-app-to-mm"
  /\ FromMariaDB.name[1] = "allow-from-redhat-ods-app-to-mariadb"
  /\ FromVirtualization.name[1] = "allow-from-openshift-virtualization-namespaces"
  /\ \A other : FromOtherNamespace(other).name[1] = "allow-from-other-user-namespaces"
  BY DEF SameNamespace, FromIngress, FromMonitoring, FromOlm, FromConsole, FromDevSandbox, FromCRW, FromModelMesh,
     FromMariaDB, FromVirtualization, FromOtherNamespace, NetworkPolicy, Object

(* Policies have different names, so they are counted one by one.           *)
LEMMA PolicyCounts ==
  /\ IsFiniteSet(CommonNetworkPolicies \cup {FromCRW}) /\ Cardinality(CommonNetworkPolicies \cup {FromCRW}) = 7
  /\ LET S == CommonNetworkPolicies \cup {FromCRW, FromVirtualization, FromModelMesh, FromMariaDB}
     IN  /\ IsFiniteSet(S) /\ Cardinality(S) = 10
         /\ \A other : /\ IsFiniteSet(S \cup {FromOtherNamespace(other)})
                       /\ Cardinality(S \cup {FromOtherNamespace(other)}) = 11
  /\ LET S == {SameNamespace, FromIngress, FromMonitoring, FromOlm, FromConsole}
     IN  IsFiniteSet(S) /\ Cardinality(S) = 5
  <1> DEFINE S1 == {SameNamespace}
             S2 == S1 \cup {FromIngress}
             S3 == S2 \cup {FromMonitoring}
             S4 == S3 \cup {FromOlm}
             S5 == S4 \cup {FromConsole}
             S6 == S5 \cup {FromDevSandbox}
             S7 == S6 \cup {FromCRW}
             S8 == S7 \cup {FromVirtualization}
             S9 == S8 \cup {FromModelMesh}
             S10 == S9 \cup {FromMariaDB}
  <1>1. IsFiniteSet(S1) /\ Cardinality(S1) = 1
    BY FS_Singleton
  <1>2. IsFiniteSet(S2) /\ Cardinality(S2) = 2
    <2>1. FromIngress \notin S1
      BY PolicyNames
    <2> HIDE DEF S1
    <2> QED BY <2>1, <1>1, CountAdd
  <1>3. IsFiniteSet(S3) /\ Cardinality(S3) = 3
    <2>1. FromMonitoring \notin S2
      BY PolicyNames
    <2> HIDE DEF S2
    <2> QED BY <2>1, <1>2, CountAdd
  <1>4. IsFiniteSet(S4) /\ Cardinality(S4) = 4
    <2>1. FromOlm \notin S3
      BY PolicyNames
    <2> HIDE DEF S3
    <2> QED BY <2>1, <1>3, CountAdd
  <1>5. IsFiniteSet(S5) /\ Cardinality(S5) = 5
    <2>1. FromConsole \notin S4
      BY PolicyNames
    <2> HIDE DEF S4
    <2> QED BY <2>1, <1>4, CountAdd
  <1>6. IsFiniteSet(S6) /\ Cardinality(S6) = 6
    <2>1. FromDevSandbox \notin S5
      BY PolicyNames
    <2> HIDE DEF S5
    <2> QED BY <2>1, <1>5, CountAdd
  <1>7. IsFiniteSet(S7) /\ Cardinality(S7) = 7
    <2>1. FromCRW \notin S6
      BY PolicyNames
    <2> HIDE DEF S6
    <2> QED BY <2>1, <1>6, CountAdd
  <1>8. IsFiniteSet(S8) /\ Cardinality(S8) = 8
    <2>1. FromVirtualization \notin S7
      BY PolicyNames
    <2> HIDE DEF S7
    <2> QED BY <2>1, <1>7, CountAdd
  <1>9. IsFiniteSet(S9) /\ Cardinality(S9) = 9
    <2>1. FromModelMesh \notin S8
      BY PolicyNames
    <2> HIDE DEF S8
    <2> QED BY <2>1, <1>8, CountAdd
  <1>10. IsFiniteSet(S10) /\ Cardinality(S10) = 10
    <2>1. FromMariaDB \notin S9
      BY PolicyNames
    <2> HIDE DEF S9
    <2> QED BY <2>1, <1>9, CountAdd
  <1>11. ASSUME NEW other
         PROVE  IsFiniteSet(S10 \cup {FromOtherNamespace(other)}) /\ Cardinality(S10 \cup {FromOtherNamespace(other)}) = 11
    <2>1. FromOtherNamespace(other) \notin S10
      BY PolicyNames
    <2> HIDE DEF S10
    <2> QED BY <2>1, <1>10, CountAdd
  <1>12. /\ S5 = {SameNamespace, FromIngress, FromMonitoring, FromOlm, FromConsole}
         /\ S7 = CommonNetworkPolicies \cup {FromCRW}
         /\ S10 = CommonNetworkPolicies \cup {FromCRW, FromVirtualization, FromModelMesh, FromMariaDB}
    BY DEF CommonNetworkPolicies
  <1> HIDE DEF S5, S7, S10
  <1> QED BY <1>5, <1>7, <1>10, <1>11, <1>12
(* What kinds the groups of objects are of.                                 *)
LEMMA PolicyKinds ==
  /\ \A o \in CommonNetworkPolicies \cup {FromCRW, FromVirtualization, FromModelMesh, FromMariaDB} : o.kind = "NetworkPolicy"
  /\ \A other : FromOtherNamespace(other).kind = "NetworkPolicy"
  BY DEF CommonNetworkPolicies, SameNamespace, FromIngress, FromMonitoring, FromOlm, FromConsole, FromDevSandbox,
     FromCRW, FromModelMesh, FromMariaDB, FromVirtualization, FromOtherNamespace, NetworkPolicy, Object

LEMMA QuotaKinds ==
  /\ \A hard, extra : ComputeDeploy(hard, extra).kind = "ResourceQuota" /\ ComputeBuild(hard, extra).kind = "ResourceQuota"
  /\ \A hard : ComputeDeployNoScope(hard).kind = "ResourceQuota" /\ Storage(hard).kind = "ResourceQuota"
  /\ SpaceRequests.kind = "ResourceQuota"
  /\ \A o \in AppstudioCrdQuotas : o.kind = "ResourceQuota"
  /\ \A def : LimitRange(def).kind = "LimitRange"
  BY DEF ComputeDeploy, ComputeBuild, ComputeDeployNoScope, Storage, SpaceRequests, AppstudioCrdQuotas, CrdQuota,
     LimitRange, Object

Uncounted == {"Role", "RoleBinding", "ServiceAccount", "ConfigMap", "NamespaceLabel", "Environment"}

LEMMA GroupKinds ==
  \A o \in Sandbox \cup NamespaceManager \cup PipelineRunner \cup AppstudioLabels \cup {DevelopmentEnvironment} :
    o.kind \in Uncounted
  <1>1. \A o \in Sandbox : o.kind \in Uncounted
    BY DEF Sandbox, ExecPodsRole, CrtadminPods, CrtadminView, Role, RoleBinding, Object, Uncounted
  <1>2. \A o \in NamespaceManager : o.kind \in Uncounted
    BY DEF NamespaceManager, Role, RoleBinding, Object, Uncounted
  <1>3. \A o \in PipelineRunner : o.kind \in Uncounted
    BY DEF PipelineRunner, RoleBinding, Object, Uncounted
  <1>4. \A o \in AppstudioLabels : o.kind \in Uncounted
    <2>1. \A name, content : Object("NamespaceLabel", name, content).kind \in Uncounted
      BY DEF Object, Uncounted
    <2> QED BY <2>1, Zenon DEF AppstudioLabels
  <1>5. DevelopmentEnvironment.kind \in Uncounted
    BY DEF DevelopmentEnvironment, Object, Uncounted
  <1> QED BY <1>1, <1>2, <1>3, <1>4, <1>5


Named(objects, kind) == {o \in objects : o.kind = kind}

(* Checks that name one limit range, some policies, and nothing else that   *)
(* is counted.                                                              *)
Counting(checks, limitRange, policies) ==
  /\ checks = [named |-> checks.named, number |-> [LimitRange |-> 1, NetworkPolicy |-> Cardinality(policies)]]
  /\ IsFiniteSet(policies)
  /\ \A o \in policies : o.kind = "NetworkPolicy"
  /\ limitRange.kind = "LimitRange"
  /\ \E rest : /\ checks.named = rest \cup {limitRange} \cup policies
               /\ \A o \in rest : o.kind \in Uncounted \cup {"ResourceQuota"}

LEMMA CountingKinds ==
  ASSUME NEW c, NEW l, NEW s, Counting(c, l, s)
  PROVE  /\ Named(c.named, "LimitRange") = {l}
         /\ Named(c.named, "NetworkPolicy") = s
         /\ \A o \in c.named : o.kind \notin ClusterKinds
  BY DEF Counting, Named, Uncounted, ClusterKinds

LEMMA CountingChecks ==
  /\ \A n : \E l, s : Counting(BaseNamespaceChecks(n), l, s)
  /\ \E l, s : Counting(Base1nsNamespaceChecks, l, s)
  /\ \E l, s : Counting(AppstudioNamespaceChecks, l, s)
  /\ \E l, s : Counting(AppstudiolargeNamespaceChecks, l, s)
  /\ \E l, s : Counting(AppstudioEnvNamespaceChecks, l, s)
  /\ \E l, s : Counting(ClawNamespaceChecks, l, s)
  <1> DEFINE common == CommonNetworkPolicies \cup {FromCRW}
             more   == CommonNetworkPolicies \cup {FromCRW, FromVirtualization, FromModelMesh, FromMariaDB}
             few    == {SameNamespace, FromIngress, FromMonitoring, FromOlm, FromConsole}
             large  == LimitRange(<<"2", "2Gi", "10m", "256Mi">>)
  <1>1. ASSUME NEW n PROVE \E l, s : Counting(BaseNamespaceChecks(n), l, s)
    <2> DEFINE other == IF n = "dev" THEN "stage" ELSE "dev"
               l     == LimitRange(<<"1", "1Gi", "10m", "64Mi">>)
               s     == more \cup {FromOtherNamespace(other)}
               rest  == {SpaceRequests} \cup Sandbox
               c     == BaseNamespaceChecks(n)
    <2>1. c = [named |-> rest \cup {l} \cup s, number |-> [LimitRange |-> 1, NetworkPolicy |-> 11]]
      BY Zenon DEF BaseNamespaceChecks, NamespaceChecks
    <2>2. IsFiniteSet(s) /\ Cardinality(s) = 11 /\ \A o \in s : o.kind = "NetworkPolicy"
      BY PolicyCounts, PolicyKinds
    <2>3. l.kind = "LimitRange" /\ \A o \in rest : o.kind \in Uncounted \cup {"ResourceQuota"}
      BY QuotaKinds, GroupKinds
    <2> HIDE DEF l, s, rest, c
    <2>4. Counting(c, l, s)
      BY <2>1, <2>2, <2>3 DEF Counting
    <2> QED BY <2>4 DEF c
  <1>2. \E l, s : Counting(Base1nsNamespaceChecks, l, s)
    <2> DEFINE l     == LimitRange(<<"1", "1000Mi", "10m", "64Mi">>)
               rest  == {ComputeDeploy(<<"30", "30Gi", "3", "30Gi">>, Gpu), ComputeBuild(<<"20", "14Gi", "3", "14Gi">>, Gpu),
                         Storage(<<"15Gi", "80Gi", "15Gi", "10">>), SpaceRequests} \cup Sandbox
               c     == Base1nsNamespaceChecks
    <2>1. c = [named |-> rest \cup {l} \cup more, number |-> [LimitRange |-> 1, NetworkPolicy |-> 10]]
      BY Zenon DEF Base1nsNamespaceChecks, NamespaceChecks
    <2>2. IsFiniteSet(more) /\ Cardinality(more) = 10 /\ \A o \in more : o.kind = "NetworkPolicy"
      BY PolicyCounts, PolicyKinds
    <2>3. l.kind = "LimitRange" /\ \A o \in rest : o.kind \in Uncounted \cup {"ResourceQuota"}
      BY QuotaKinds, GroupKinds
    <2> HIDE DEF l, more, rest, c
    <2>4. Counting(c, l, more)
      BY <2>1, <2>2, <2>3 DEF Counting
    <2> QED BY <2>4 DEF c
  <1>3. /\ IsFiniteSet(common) /\ Cardinality(common) = 7 /\ \A o \in common : o.kind = "NetworkPolicy"
        /\ large.kind = "LimitRange"
    BY PolicyCounts, PolicyKinds, QuotaKinds
  <1>4. \E l, s : Counting(AppstudioNamespaceChecks, l, s)
    <2> DEFINE rest  == {Storage(<<"50Gi", "200Gi", "50Gi", "90">>), ComputeBuild(<<"120", "128Gi", "60", "64Gi">>, <<>>),
                         ComputeDeploy(<<"20", "32Gi", "1750m", "32Gi">>, <<>>), DevelopmentEnvironment}
                        \cup AppstudioLabels \cup AppstudioCrdQuotas \cup PipelineRunner
               c     == AppstudioNamespaceChecks
    <2>1. c = [named |-> rest \cup {large} \cup common, number |-> [LimitRange |-> 1, NetworkPolicy |-> 7]]
      BY Zenon DEF AppstudioNamespaceChecks, NamespaceChecks, CommonAppstudioChecks
    <2>2. \A o \in rest : o.kind \in Uncounted \cup {"ResourceQuota"}
      BY QuotaKinds, GroupKinds
    <2> HIDE DEF large, common, rest, c
    <2>3. Counting(c, large, common)
      BY <2>1, <2>2, <1>3 DEF Counting
    <2> QED BY <2>3 DEF c
  <1>5. \E l, s : Counting(AppstudiolargeNamespaceChecks, l, s)
    <2> DEFINE rest  == {ComputeBuild(<<"480", "512Gi", "240", "256Gi">>, <<>>), Storage(<<"50Gi", "400Gi", "50Gi", "180">>),
                         ComputeDeploy(<<"20", "32Gi", "1750m", "32Gi">>, <<>>), DevelopmentEnvironment}
                        \cup AppstudioLabels \cup AppstudioCrdQuotas \cup PipelineRunner
               c     == AppstudiolargeNamespaceChecks
    <2>1. c = [named |-> rest \cup {large} \cup common, number |-> [LimitRange |-> 1, NetworkPolicy |-> 7]]
      BY Zenon DEF AppstudiolargeNamespaceChecks, NamespaceChecks, CommonAppstudioChecks
    <2>2. \A o \in rest : o.kind \in Uncounted \cup {"ResourceQuota"}
      BY QuotaKinds, GroupKinds
    <2> HIDE DEF large, common, rest, c
    <2>3. Counting(c, large, common)
      BY <2>1, <2>2, <1>3 DEF Counting
    <2> QED BY <2>3 DEF c
  <1>6. \E l, s : Counting(AppstudioEnvNamespaceChecks, l, s)
    <2> DEFINE rest  == {ComputeDeploy(<<"20", "32Gi", "1750m", "32Gi">>, <<>>), ComputeBuild(<<"0", "0", "0">>, <<>>),
                         Storage(<<"50Gi", "50Gi", "50Gi", "12">>)} \cup NamespaceManager \cup AppstudioLabels
               c     == AppstudioEnvNamespaceChecks
    <2>1. c = [named |-> rest \cup {large} \cup common, number |-> [LimitRange |-> 1, NetworkPolicy |-> 7]]
      BY Zenon DEF AppstudioEnvNamespaceChecks, NamespaceChecks
    <2>2. \A o \in rest : o.kind \in Uncounted \cup {"ResourceQuota"}
      BY QuotaKinds, GroupKinds
    <2> HIDE DEF large, common, rest, c
    <2>3. Counting(c, large, common)
      BY <2>1, <2>2, <1>3 DEF Counting
    <2> QED BY <2>3 DEF c
  <1>7. \E l, s : Counting(ClawNamespaceChecks, l, s)
    <2> DEFINE l     == LimitRange(<<"500m", "512Mi", "10m", "64Mi">>)
               rest  == {ComputeDeployNoScope(<<"8", "10Gi", "1", "3Gi">>), Storage(<<"5Gi", "15Gi", "5Gi", "1">>)} \cup Sandbox
               c     == ClawNamespaceChecks
    <2>1. c = [named |-> rest \cup {l} \cup few, number |-> [LimitRange |-> 1, NetworkPolicy |-> 5]]
      BY Zenon DEF ClawNamespaceChecks, NamespaceChecks
    <2>2. IsFiniteSet(few) /\ Cardinality(few) = 5 /\ \A o \in few : o.kind = "NetworkPolicy"
      BY PolicyCounts, PolicyKinds DEF CommonNetworkPolicies
    <2>3. l.kind = "LimitRange" /\ \A o \in rest : o.kind \in Uncounted \cup {"ResourceQuota"}
      BY QuotaKinds, GroupKinds
    <2> HIDE DEF l, few, rest, c
    <2>4. Counting(c, l, few)
      BY <2>1, <2>2, <2>3 DEF Counting
    <2> QED BY <2>4 DEF c
  <1> QED BY <1>1, <1>2, <1>4, <1>5, <1>6, <1>7

(* Every tier names as many limit ranges and network policies as it counts, *)
(* and nothing that belongs to the cluster.                                 *)
LEMMA NamespaceCounts ==
  ASSUME NEW tier, NEW n
  PROVE  LET checks == GetNamespaceObjectChecks(tier, n) IN
         /\ DOMAIN checks.number = NamespaceKinds
         /\ \A k \in NamespaceKinds : /\ IsFiniteSet(Named(checks.named, k))
                                      /\ Cardinality(Named(checks.named, k)) = checks.number[k]
         /\ \A o \in checks.named : o.kind \notin ClusterKinds
  <1> DEFINE checks == GetNamespaceObjectChecks(tier, n)
  <1>1. PICK l, s : Counting(checks, l, s)
    BY Families, CountingChecks, Zenon
  <1> HIDE DEF checks
  <1>2. checks.number = [LimitRange |-> 1, NetworkPolicy |-> Cardinality(s)] /\ IsFiniteSet(s)
    BY <1>1 DEF Counting
  <1>3. /\ Named(checks.named, "LimitRange") = {l}
        /\ Named(checks.named, "NetworkPolicy") = s
        /\ \A o \in checks.named : o.kind \notin ClusterKinds
    BY <1>1, CountingKinds
  <1>4. IsFiniteSet({l}) /\ Cardinality({l}) = 1
    BY FS_Singleton
  <1>5. DOMAIN checks.number = NamespaceKinds
    BY <1>2 DEF NamespaceKinds
  <1>6. \A k \in NamespaceKinds : /\ IsFiniteSet(Named(checks.named, k))
                                  /\ Cardinality(Named(checks.named, k)) = checks.number[k]
    BY <1>2, <1>3, <1>4 DEF NamespaceKinds
  <1> QED BY <1>3, <1>5, <1>6 DEF checks
(* Quotas have different names, too.                                        *)
QuotaNames == {"deployments", "replicas", "routes", "jobs", "services", "bc", "secrets", "cm"}
NamesApart(quotas) == \A q, r \in quotas : q[1] = r[1] => q = r

LEMMA EightNames == IsFiniteSet(QuotaNames) /\ Cardinality(QuotaNames) = 8
  <1> DEFINE N2 == {"deployments", "replicas"}
             N3 == N2 \cup {"routes"}
             N4 == N3 \cup {"jobs"}
             N5 == N4 \cup {"services"}
             N6 == N5 \cup {"bc"}
             N7 == N6 \cup {"secrets"}
             N8 == N7 \cup {"cm"}
  <1>1. "routes" \notin N2 /\ "jobs" \notin N3 /\ "services" \notin N4 /\ "bc" \notin N5 /\ "secrets" \notin N6 /\ "cm" \notin N7
    OBVIOUS
  <1>2. N8 = QuotaNames
    BY DEF QuotaNames
  <1>3. IsFiniteSet(N2) /\ Cardinality(N2) = 2
    BY PairCount
  <1> HIDE DEF N2
  <1>4. IsFiniteSet(N3) /\ Cardinality(N3) = 2 + 1
    BY <1>1, <1>3, CountAdd
  <1> HIDE DEF N3
  <1>5. IsFiniteSet(N4) /\ Cardinality(N4) = 3 + 1
    BY <1>1, <1>4, CountAdd
  <1> HIDE DEF N4
  <1>6. IsFiniteSet(N5) /\ Cardinality(N5) = 4 + 1
    BY <1>1, <1>5, CountAdd
  <1> HIDE DEF N5
  <1>7. IsFiniteSet(N6) /\ Cardinality(N6) = 5 + 1
    BY <1>1, <1>6, CountAdd
  <1> HIDE DEF N6
  <1>8. IsFiniteSet(N7) /\ Cardinality(N7) = 6 + 1
    BY <1>1, <1>7, CountAdd
  <1> HIDE DEF N7
  <1>9. IsFiniteSet(N8) /\ Cardinality(N8) = 7 + 1
    BY <1>1, <1>8, CountAdd
  <1> HIDE DEF N8
  <1> QED BY <1>2, <1>9

Eight(quotas) == NamesApart(quotas) /\ {q[1] : q \in quotas} = QuotaNames

LEMMA EightQuotas ==
  ASSUME NEW S, Eight(S)
  PROVE  IsFiniteSet(S) /\ Cardinality(S) = 8
  <1> DEFINE f == [q \in S |-> q[1]]
  <1>1. f \in [S -> QuotaNames]
    BY DEF Eight
  <1>2. \A q, r \in S : f[q] = f[r] => q = r
    BY DEF Eight, NamesApart
  <1>3. \A t \in QuotaNames : \E q \in S : f[q] = t
    BY DEF Eight
  <1> HIDE DEF f
  <1>4. f \in Injection(S, QuotaNames) /\ f \in Surjection(S, QuotaNames)
    BY <1>1, <1>2, <1>3 DEF Injection, Surjection, IsInjective
  <1> QED BY <1>4, EightNames, FS_Injection

LEMMA QuotaFirsts ==
  /\ \A p, d, v : DeploymentCount(p, d, v)[1] = "deployments"
  /\ Deployments[1] = "deployments" /\ Jobs[1] = "jobs" /\ BuildConfig[1] = "bc"
  /\ \A n : ReplicaCount(n)[1] = "replicas" /\ RouteCount(n)[1] = "routes" /\ SecretCount(n)[1] = "secrets"
            /\ ConfigMapCount(n)[1] = "cm"
  /\ \A n, b : ServiceCount(n, b)[1] = "services"
  BY DEF DeploymentCount, Deployments, Jobs, BuildConfig, ReplicaCount, RouteCount, SecretCount, ConfigMapCount,
     ServiceCount

LEMMA ComputeFirst == Compute[1] = "compute"
  BY DEF Compute, Gpu

(* What the checks of a cluster need: quotas told apart by their names, as  *)
(* many as are counted, and finitely many idlers.                           *)
Sound(checks) ==
  /\ IsFiniteSet(checks.quotas) /\ Cardinality(checks.quotas) = checks.number
  /\ NamesApart(checks.quotas)
  /\ IsFiniteSet(checks.idlers)

LEMMA ClusterFields ==
  /\ BaseClusterChecks.quotas = {Compute} \cup Base1nsQuotas /\ BaseClusterChecks.number = 9
  /\ BaseClusterChecks.idlers = {"dev", "stage"}
  /\ Base1nsClusterChecks.quotas = Base1nsQuotas /\ Base1nsClusterChecks.number = 8
  /\ Base1nsClusterChecks.idlers = {"dev"}
  /\ Base1nsnoidlingClusterChecks.quotas = Base1nsQuotas /\ Base1nsnoidlingClusterChecks.number = 8
  /\ Base1nsnoidlingClusterChecks.idlers = {"dev"}
  /\ Base1ns6didlerClusterChecks.quotas = Base1nsQuotas /\ Base1ns6didlerClusterChecks.number = 8
  /\ Base1ns6didlerClusterChecks.idlers = {"dev"}
  /\ AppstudioClusterChecks.quotas =
       {DeploymentCount("600", "30", ""), ReplicaCount("30"), RouteCount("30"), Jobs, ServiceCount("30", ""),
        BuildConfig, SecretCount("300"), ConfigMapCount("100")}
  /\ AppstudioClusterChecks.number = 8 /\ AppstudioClusterChecks.idlers = {""}
  /\ AppstudiolargeClusterChecks.quotas =
       {DeploymentCount("600", "100", ""), ReplicaCount("100"), RouteCount("100"), Jobs,
        ServiceCount("100", ""), BuildConfig, SecretCount("900"), ConfigMapCount("300")}
  /\ AppstudiolargeClusterChecks.number = 8 /\ AppstudiolargeClusterChecks.idlers = {""}
  /\ AppstudioEnvClusterChecks.quotas =
       {DeploymentCount("150", "30", ""), ReplicaCount("30"), RouteCount("30"), Jobs, ServiceCount("30", ""),
        BuildConfig, SecretCount("100"), ConfigMapCount("100")}
  /\ AppstudioEnvClusterChecks.number = 8 /\ AppstudioEnvClusterChecks.idlers = {"env"}
  /\ ClawClusterChecks.quotas = {Claw} /\ ClawClusterChecks.number = 1 /\ ClawClusterChecks.idlers = {"claw"}
  BY DEF BaseClusterChecks, Base1nsClusterChecks, Base1nsnoidlingClusterChecks, Base1ns6didlerClusterChecks,
     AppstudioClusterChecks, AppstudiolargeClusterChecks, AppstudioEnvClusterChecks, ClawClusterChecks, ClusterChecks

LEMMA ClusterCounts == ASSUME NEW tier PROVE Sound(GetClusterObjectChecks(tier))
  <1>0. ASSUME NEW p, NEW d, NEW v, NEW r, NEW o, NEW n, NEW b, NEW s, NEW c
        PROVE  Eight({DeploymentCount(p, d, v), ReplicaCount(r), RouteCount(o), Jobs, ServiceCount(n, b), BuildConfig,
                      SecretCount(s), ConfigMapCount(c)})
    BY QuotaFirsts DEF Eight, NamesApart, QuotaNames
  <1>1. IsFiniteSet({"dev"}) /\ IsFiniteSet({""}) /\ IsFiniteSet({"env"}) /\ IsFiniteSet({"claw"})
    BY FS_Singleton
  <1>2. IsFiniteSet({"dev", "stage"})
    BY PairCount
  <1>3. Eight(Base1nsQuotas)
    BY QuotaFirsts DEF Eight, Base1nsQuotas, NamesApart, QuotaNames
  <1>4. Eight(AppstudioClusterChecks.quotas)
    <2>1. Eight({DeploymentCount("600", "30", ""), ReplicaCount("30"), RouteCount("30"), Jobs, ServiceCount("30", ""),
                 BuildConfig, SecretCount("300"), ConfigMapCount("100")})
      BY <1>0, Zenon
    <2> QED BY <2>1, ClusterFields, Zenon
  <1>5. Eight(AppstudiolargeClusterChecks.quotas)
    <2>1. Eight({DeploymentCount("600", "100", ""), ReplicaCount("100"), RouteCount("100"), Jobs,
                 ServiceCount("100", ""), BuildConfig, SecretCount("900"), ConfigMapCount("300")})
      BY <1>0, Zenon
    <2> QED BY <2>1, ClusterFields, Zenon
  <1>6. Eight(AppstudioEnvClusterChecks.quotas)
    <2>1. Eight({DeploymentCount("150", "30", ""), ReplicaCount("30"), RouteCount("30"), Jobs, ServiceCount("30", ""),
                 BuildConfig, SecretCount("100"), ConfigMapCount("100")})
      BY <1>0, Zenon
    <2> QED BY <2>1, ClusterFields, Zenon
  <1>7. IsFiniteSet(Base1nsQuotas) /\ Cardinality(Base1nsQuotas) = 8
    BY <1>3, EightQuotas
  <1>8. Sound(BaseClusterChecks)
    <2>1. \A q \in Base1nsQuotas : q[1] # "compute"
      BY QuotaFirsts DEF Base1nsQuotas
    <2>2. Compute \notin Base1nsQuotas
      BY <2>1, ComputeFirst
    <2>3. IsFiniteSet(Base1nsQuotas \cup {Compute}) /\ Cardinality(Base1nsQuotas \cup {Compute}) = 8 + 1
      BY <1>7, <2>2, CountAdd
    <2>4. NamesApart({Compute} \cup Base1nsQuotas)
      BY <1>3, <2>1, ComputeFirst DEF Eight, NamesApart
    <2>5. /\ BaseClusterChecks.quotas = {Compute} \cup Base1nsQuotas
          /\ BaseClusterChecks.number = 8 + 1
          /\ BaseClusterChecks.idlers = {"dev", "stage"}
      BY DEF BaseClusterChecks, ClusterChecks
    <2>6. {Compute} \cup Base1nsQuotas = Base1nsQuotas \cup {Compute}
      OBVIOUS
    <2> QED BY <1>2, <2>3, <2>4, <2>5, <2>6, Zenon DEF Sound
  <1>9. Sound(Base1nsClusterChecks) /\ Sound(Base1nsnoidlingClusterChecks) /\ Sound(Base1ns6didlerClusterChecks)
    BY <1>1, <1>3, <1>7, ClusterFields DEF Sound, Eight
  <1>10. Sound(AppstudioClusterChecks)
    BY <1>1, <1>4, EightQuotas, ClusterFields DEF Sound, Eight
  <1>11. Sound(AppstudiolargeClusterChecks)
    BY <1>1, <1>5, EightQuotas, ClusterFields DEF Sound, Eight
  <1>12. Sound(AppstudioEnvClusterChecks)
    BY <1>1, <1>6, EightQuotas, ClusterFields DEF Sound, Eight
  <1>13. Sound(ClawClusterChecks)
    <2>1. NamesApart({Claw}) /\ IsFiniteSet({Claw}) /\ Cardinality({Claw}) = 1
      BY FS_Singleton DEF NamesApart
    <2> QED BY <1>1, <2>1, ClusterFields DEF Sound, Eight
  <1> DEFINE checks == GetClusterObjectChecks(tier)
  <1>14. checks \in {BaseClusterChecks, Base1nsClusterChecks, Base1nsnoidlingClusterChecks, Base1ns6didlerClusterChecks,
           AppstudioClusterChecks, AppstudiolargeClusterChecks, AppstudioEnvClusterChecks, ClawClusterChecks}
    BY Families
  <1> HIDE DEF checks
  <1>15. Sound(checks)
    BY <1>8, <1>9, <1>10, <1>11, <1>12, <1>13, <1>14
  <1> QED BY <1>15 DEF checks

-----------------------------------------------------------------------------
(* Roles and role bindings.                                                 *)

LEMMA TierTables ==
  ASSUME NEW tier \in Tiers, NEW n, NEW g
  PROVE  LET checks == GetNamespaceObjectChecks(tier, n)
             roles  == GetSpaceRoleChecks(tier, g)
         IN  \/ /\ checks \in {BaseNamespaceChecks(n), Base1nsNamespaceChecks}
                /\ roles = BaseSpaceRoleChecks(g)
                /\ KnownRoles(tier) = {"admin"}
             \/ /\ checks = ClawNamespaceChecks
                /\ roles = ClawSpaceRoleChecks(g)
                /\ KnownRoles(tier) = {"admin"}
             \/ /\ checks \in {AppstudioNamespaceChecks, AppstudiolargeNamespaceChecks}
                /\ roles = AppstudioSpaceRoleChecks(g)
                /\ KnownRoles(tier) = {"admin", "maintainer", "viewer", "contributor"}
             \/ /\ checks = AppstudioEnvNamespaceChecks
                /\ roles = AppstudioEnvSpaceRoleChecks
                /\ KnownRoles(tier) = {"admin", "maintainer", "contributor"}
  <1>1. CASE tier \in {"base", "base1ns", "base1nsnoidling", "base1ns6didler"}
    BY <1>1 DEF GetNamespaceObjectChecks, GetSpaceRoleChecks, KnownRoles, Appstudio
  <1>2. CASE tier = "claw"
    BY <1>2 DEF GetNamespaceObjectChecks, GetSpaceRoleChecks, KnownRoles, Appstudio
  <1>3. CASE tier \in Appstudio
    BY <1>3 DEF GetNamespaceObjectChecks, GetSpaceRoleChecks, KnownRoles, Appstudio
  <1>4. CASE tier = "appstudio-env"
    BY <1>4 DEF GetNamespaceObjectChecks, GetSpaceRoleChecks, KnownRoles, Appstudio
  <1> QED BY <1>1, <1>2, <1>3, <1>4 DEF Tiers, Appstudio

(* The roles and bindings that are in a namespace whoever has the space.    *)
LEMMA SandboxRoles ==
  /\ Named(Sandbox, "Role") = {ExecPodsRole}
  /\ Named(Sandbox, "RoleBinding") = {CrtadminPods, CrtadminView}
  BY DEF Named, Sandbox, ExecPodsRole, CrtadminPods, CrtadminView, Role, RoleBinding, Object

Runner == RoleBinding(<<"appstudio-pipelines-runner-rolebinding">>, "appstudio-pipeline", "ClusterRole",
                      "appstudio-pipelines-runner")
ArgoRole    == Role("additional-argocd-read")
ArgoBinding == RoleBinding(<<"additional-argocd-read">>, "namespace-manager", "Role", "additional-argocd-read")
EditBinding == RoleBinding(<<"namespace-manager">>, "namespace-manager", "ClusterRole", "edit")

LEMMA AppstudioRoles ==
  /\ Named(PipelineRunner, "Role") = {} /\ Named(PipelineRunner, "RoleBinding") = {Runner}
  /\ Named(NamespaceManager, "Role") = {ArgoRole}
  /\ Named(NamespaceManager, "RoleBinding") = {ArgoBinding, EditBinding}
  /\ \A o \in AppstudioLabels \cup {DevelopmentEnvironment} : o.kind \notin {"Role", "RoleBinding"}
  BY DEF Named, PipelineRunner, NamespaceManager, AppstudioLabels, DevelopmentEnvironment, Runner, ArgoRole,
     ArgoBinding, EditBinding, Role, RoleBinding, Object

LEMMA NamespaceRoles ==
  ASSUME NEW kind \in {"Role", "RoleBinding"}
  PROVE  /\ \A n : Named(BaseNamespaceChecks(n).named, kind) = Named(Sandbox, kind)
         /\ Named(Base1nsNamespaceChecks.named, kind) = Named(Sandbox, kind)
         /\ Named(ClawNamespaceChecks.named, kind) = Named(Sandbox, kind)
         /\ Named(AppstudioNamespaceChecks.named, kind) = Named(PipelineRunner, kind)
         /\ Named(AppstudiolargeNamespaceChecks.named, kind) = Named(PipelineRunner, kind)
         /\ Named(AppstudioEnvNamespaceChecks.named, kind) = Named(NamespaceManager, kind)
  <1>1. ASSUME NEW n PROVE Named(BaseNamespaceChecks(n).named, kind) = Named(Sandbox, kind)
    BY PolicyKinds, QuotaKinds DEF Named, BaseNamespaceChecks, NamespaceChecks
  <1>2. Named(Base1nsNamespaceChecks.named, kind) = Named(Sandbox, kind)
    BY PolicyKinds, QuotaKinds DEF Named, Base1nsNamespaceChecks, NamespaceChecks
  <1>3. Named(ClawNamespaceChecks.named, kind) = Named(Sandbox, kind)
    BY PolicyKinds, QuotaKinds DEF Named, ClawNamespaceChecks, NamespaceChecks, CommonNetworkPolicies
  <1>4. Named(AppstudioNamespaceChecks.named, kind) = Named(PipelineRunner, kind)
    BY PolicyKinds, QuotaKinds, AppstudioRoles DEF Named, AppstudioNamespaceChecks, NamespaceChecks,
       CommonAppstudioChecks
  <1>5. Named(AppstudiolargeNamespaceChecks.named, kind) = Named(PipelineRunner, kind)
    BY PolicyKinds, QuotaKinds, AppstudioRoles DEF Named, AppstudiolargeNamespaceChecks, NamespaceChecks,
       CommonAppstudioChecks
  <1>6. Named(AppstudioEnvNamespaceChecks.named, kind) = Named(NamespaceManager, kind)
    BY PolicyKinds, QuotaKinds, AppstudioRoles DEF Named, AppstudioEnvNamespaceChecks, NamespaceChecks
  <1> QED BY <1>1, <1>2, <1>3, <1>4, <1>5, <1>6

(* Two objects for every grant, and the ones that are always there.         *)
LEMMA TwoEach ==
  ASSUME NEW G, IsFiniteSet(G), NEW always, IsFiniteSet(always),
         NEW f, f = [a \in G |-> f[a]], \A a, b \in G : f[a] = f[b] => a = b,
         NEW h, h = [a \in G |-> h[a]], \A a, b \in G : h[a] = h[b] => a = b,
         \A a, b \in G : f[a] # h[b],
         \A a \in G : f[a] \notin always /\ h[a] \notin always
  PROVE  Cardinality(always \cup UNION {{f[a], h[a]} : a \in G}) = 2 * Cardinality(G) + Cardinality(always)
  <1> DEFINE F == {f[a] : a \in G}
             H == {h[a] : a \in G}
  <1>1. IsFiniteSet(F) /\ Cardinality(F) = Cardinality(G)
    BY ImageCount
  <1>2. IsFiniteSet(H) /\ Cardinality(H) = Cardinality(G)
    BY ImageCount
  <1>3. F \cap H = {} /\ always \cap (F \cup H) = {}
    OBVIOUS
  <1>4. always \cup UNION {{f[a], h[a]} : a \in G} = always \cup (F \cup H)
    OBVIOUS
  <1> DEFINE FH == F \cup H
  <1>5. Cardinality(G) \in Nat /\ Cardinality(always) \in Nat /\ Cardinality({}) = 0
    BY FS_CardinalityType, FS_EmptySet
  <1>6. IsFiniteSet(FH) /\ Cardinality(FH) = 2 * Cardinality(G)
    <2>1. Cardinality(F \cup H) = Cardinality(F) + Cardinality(H) - Cardinality(F \cap H) /\ IsFiniteSet(F \cup H)
      BY <1>1, <1>2, FS_Union
    <2>2. Cardinality(F \cap H) = 0
      BY <1>3, <1>5, Zenon
    <2> QED BY <1>1, <1>2, <1>5, <2>1, <2>2
  <1>7. always \cap FH = {} /\ always \cup UNION {{f[a], h[a]} : a \in G} = always \cup FH
    BY <1>3, <1>4
  <1> HIDE DEF FH
  <1>8. Cardinality(always \cup FH) = Cardinality(always) + Cardinality(FH) - Cardinality(always \cap FH)
    BY <1>6, FS_Union
  <1>9. Cardinality(always \cup FH) = 2 * Cardinality(G) + Cardinality(always)
    <2>1. Cardinality(always \cap FH) = 0
      BY <1>5, <1>7, Zenon
    <2> QED BY <1>5, <1>6, <1>8, <2>1
  <1> QED BY <1>7, <1>9, Zenon

(* What a set of grants must be like: finitely many, of roles that the tier *)
(* knows and that have checks of their own, and one role for a user.        *)
Apart(g) == \A a, b \in Grants(g) : a.user = b.user => a = b
Sensible(tier, g) == /\ IsFiniteSet(Grants(g))
                     /\ Apart(g)
                     /\ Granted(g) \subseteq KnownRoles(tier)
                     /\ ~ViewerAsContributor(g)

LEMMA GrantRole == ASSUME NEW g, NEW a \in Grants(g) PROVE a = [role |-> a.role, user |-> a.user] /\ a.role \in Granted(g)
  BY DEF Grants, Granted

LEMMA BindingNames ==
  /\ \A u : /\ RbacEditBinding(u).name = <<"rbac-edit", u>>
            /\ UserEditBinding(u).name = <<"edit", u>>
            /\ ClawUserBinding(u).name = <<"claw-user", u>>
            /\ ClawViewBinding(u).name = <<"view", u>>
            /\ AppstudioViewBinding(u).name = <<"view", u>>
            /\ \A r : UserActionsBinding(u, r).name = <<r, u>>
  /\ CrtadminPods.name = <<"crtadmin-pods">> /\ CrtadminView.name = <<"crtadmin-view">>
  /\ Runner.name = <<"appstudio-pipelines-runner-rolebinding">>
  /\ ArgoBinding.name = <<"additional-argocd-read">> /\ EditBinding.name = <<"namespace-manager">>
  /\ ExecPodsRole.name = <<"exec-pods">> /\ RbacEditRole.name = <<"rbac-edit">> /\ ClawUserRole.name = <<"claw-user">>
  BY DEF RbacEditBinding, UserEditBinding, ClawUserBinding, ClawViewBinding, AppstudioViewBinding, UserActionsBinding,
     CrtadminPods, CrtadminView, Runner, ArgoBinding, EditBinding, ExecPodsRole, RbacEditRole, ClawUserRole, Role,
     RoleBinding, Object

LEMMA BindingKinds ==
  /\ \A u : /\ RbacEditBinding(u).kind = "RoleBinding"
            /\ UserEditBinding(u).kind = "RoleBinding"
            /\ ClawUserBinding(u).kind = "RoleBinding"
            /\ ClawViewBinding(u).kind = "RoleBinding"
            /\ AppstudioViewBinding(u).kind = "RoleBinding"
            /\ \A r : UserActionsBinding(u, r).kind = "RoleBinding"
  /\ ExecPodsRole.kind = "Role" /\ RbacEditRole.kind = "Role" /\ ClawUserRole.kind = "Role"
  /\ \A r : UserActions(r).kind = "Role"
  <1>1. \A r : UserActions(r) \in {AdminUserActions, MaintainerUserActions, ContributorUserActions}
    BY DEF UserActions
  <1> QED BY <1>1 DEF RbacEditBinding, UserEditBinding, ClawUserBinding, ClawViewBinding, AppstudioViewBinding,
        UserActionsBinding, ExecPodsRole, RbacEditRole, ClawUserRole, AdminUserActions, MaintainerUserActions,
        ContributorUserActions, Role, RoleBinding, Object

(* Two bindings for every user, all of different names.                     *)
Differ(g, f, h, always) ==
  /\ f = [a \in Grants(g) |-> f[a]]
  /\ h = [a \in Grants(g) |-> h[a]]
  /\ \A a \in Grants(g) : f[a].name[2] = a.user /\ h[a].name[2] = a.user
  /\ \A a, b \in Grants(g) : f[a].name[1] # h[b].name[1]
  /\ \A a \in Grants(g), b \in always : f[a].name[1] # b.name[1] /\ h[a].name[1] # b.name[1]

LEMMA BindingsCount ==
  ASSUME NEW g, IsFiniteSet(Grants(g)), Apart(g), NEW always, IsFiniteSet(always), NEW f, NEW h, Differ(g, f, h, always)
  PROVE  Cardinality(always \cup UNION {{f[a], h[a]} : a \in Grants(g)}) = 2 * Cardinality(Grants(g)) + Cardinality(always)
  <1>1. \A a, b \in Grants(g) : (f[a] = f[b] => a = b) /\ (h[a] = h[b] => a = b)
    BY DEF Apart, Differ
  <1>2. \A a, b \in Grants(g) : f[a] # h[b]
    BY DEF Differ
  <1>3. \A a \in Grants(g) : f[a] \notin always /\ h[a] \notin always
    BY DEF Differ
  <1>4. f = [a \in Grants(g) |-> f[a]] /\ h = [a \in Grants(g) |-> h[a]]
    BY DEF Differ
  <1> DEFINE G == Grants(g)
  <1> HIDE DEF G
  <1>5. Cardinality(always \cup UNION {{f[a], h[a]} : a \in G}) = 2 * Cardinality(G) + Cardinality(always)
    BY <1>1, <1>2, <1>3, <1>4, TwoEach DEF G
  <1> QED BY <1>5 DEF G

NumbersAgree(checks, roles) ==
  \A k \in DOMAIN roles.number : NumberOf(k, checks.named \cup roles.named) = roles.number[k]

LEMMA NumbersWhen ==
  ASSUME NEW c, NEW named, NEW m, NEW n,
         NEW roles, roles = [named |-> named, number |-> [Role |-> m, RoleBinding |-> n]],
         Cardinality(Named(c.named \cup named, "Role")) = m,
         Cardinality(Named(c.named \cup named, "RoleBinding")) = n
  PROVE  NumbersAgree(c, roles)
  <1>1. /\ roles.named = named
        /\ DOMAIN roles.number = {"Role", "RoleBinding"}
        /\ roles.number["Role"] = m /\ roles.number["RoleBinding"] = n
    OBVIOUS
  <1>2. ASSUME NEW k \in {"Role", "RoleBinding"} PROVE NumberOf(k, c.named \cup named) = roles.number[k]
    <2>1. NumberOf(k, c.named \cup named) = Cardinality(Named(c.named \cup named, k))
      BY Zenon DEF NumberOf, Named
    <2>2. Cardinality(Named(c.named \cup named, k)) = roles.number[k]
      BY <1>1
    <2> QED BY <2>1, <2>2
  <1> QED BY <1>1, <1>2, Zenon DEF NumbersAgree

LEMMA BaseNumbers ==
  ASSUME NEW g, IsFiniteSet(Grants(g)), Apart(g), Granted(g) \subseteq {"admin"},
         NEW c, \A k \in {"Role", "RoleBinding"} : Named(c.named, k) = Named(Sandbox, k)
  PROVE  NumbersAgree(c, BaseSpaceRoleChecks(g))
  <1> DEFINE named  == BaseSpaceRoleChecks(g).named
             f      == [a \in Grants(g) |-> RbacEditBinding(a.user)]
             h      == [a \in Grants(g) |-> UserEditBinding(a.user)]
             always == {CrtadminPods, CrtadminView}
  <1>1. BaseSpaceRoleChecks(g) = [named |-> named, number |-> [Role |-> Cardinality(Granted(g)) + 1,
                                                             RoleBinding |-> 2 * Cardinality(Grants(g)) + 2]]
    BY DEF BaseSpaceRoleChecks, SpaceRoleChecks
  <1>2. Named(c.named \cup named, "Role") = {ExecPodsRole} \cup {RbacEditRole : r \in Granted(g)}
    BY SandboxRoles, BindingKinds DEF Named, BaseSpaceRoleChecks, SpaceRoleChecks
  <1>3. Named(c.named \cup named, "RoleBinding") = always \cup UNION {{f[a], h[a]} : a \in Grants(g)}
    BY SandboxRoles, BindingKinds DEF Named, BaseSpaceRoleChecks, SpaceRoleChecks
  <1>4. Cardinality(Named(c.named \cup named, "Role")) = Cardinality(Granted(g)) + 1
    <2>1. CASE Granted(g) = {}
      <3>1. Named(c.named \cup named, "Role") = {ExecPodsRole}
        BY <1>2, <2>1
      <3>2. Cardinality({ExecPodsRole}) = 1 /\ Cardinality({}) = 0
        BY FS_Singleton, FS_EmptySet
      <3>3. Cardinality(Named(c.named \cup named, "Role")) = 1 /\ Cardinality(Granted(g)) = 0
        BY <2>1, <3>1, <3>2, Zenon
      <3> QED BY <3>3
    <2>2. CASE Granted(g) = {"admin"}
      <3>1. Named(c.named \cup named, "Role") = {ExecPodsRole, RbacEditRole}
        BY <1>2, <2>2
      <3>2. ExecPodsRole # RbacEditRole
        BY BindingNames
      <3>3. Cardinality({ExecPodsRole, RbacEditRole}) = 2
        BY <3>2, PairCount
      <3>4. Cardinality({"admin"}) = 1
        BY FS_Singleton
      <3>5. Cardinality(Named(c.named \cup named, "Role")) = 2 /\ Cardinality(Granted(g)) = 1
        BY <2>2, <3>1, <3>3, <3>4, Zenon
      <3> QED BY <3>5
    <2>3. Granted(g) \in {{}, {"admin"}}
      OBVIOUS
    <2> QED BY <2>1, <2>2, <2>3
  <1>5. Cardinality(Named(c.named \cup named, "RoleBinding")) = 2 * Cardinality(Grants(g)) + 2
    <2>1. IsFiniteSet(always) /\ Cardinality(always) = 2
      BY BindingNames, CrtadminPods # CrtadminView, PairCount
    <2>2. Differ(g, f, h, always)
      BY BindingNames DEF Differ
    <2> HIDE DEF f, h, always
    <2>3. Cardinality(always \cup UNION {{f[a], h[a]} : a \in Grants(g)}) = 2 * Cardinality(Grants(g)) + Cardinality(always)
      BY <2>1, <2>2, BindingsCount
    <2> QED BY <1>3, <2>1, <2>3, Zenon
  <1> HIDE DEF named
  <1> QED BY <1>1, <1>4, <1>5, NumbersWhen

LEMMA ClawNumbers ==
  ASSUME NEW g, IsFiniteSet(Grants(g)), Apart(g), Granted(g) \subseteq {"admin"},
         NEW c, \A k \in {"Role", "RoleBinding"} : Named(c.named, k) = Named(Sandbox, k)
  PROVE  NumbersAgree(c, ClawSpaceRoleChecks(g))
  <1> DEFINE named  == ClawSpaceRoleChecks(g).named
             f      == [a \in Grants(g) |-> ClawUserBinding(a.user)]
             h      == [a \in Grants(g) |-> ClawViewBinding(a.user)]
             always == {CrtadminPods, CrtadminView}
  <1>1. ClawSpaceRoleChecks(g) = [named |-> named, number |-> [Role |-> Cardinality(Granted(g)) + 1,
                                                             RoleBinding |-> 2 * Cardinality(Grants(g)) + 2]]
    BY DEF ClawSpaceRoleChecks, SpaceRoleChecks
  <1>2. Named(c.named \cup named, "Role") = {ExecPodsRole} \cup {ClawUserRole : r \in Granted(g)}
    BY SandboxRoles, BindingKinds DEF Named, ClawSpaceRoleChecks, SpaceRoleChecks
  <1>3. Named(c.named \cup named, "RoleBinding") = always \cup UNION {{f[a], h[a]} : a \in Grants(g)}
    BY SandboxRoles, BindingKinds DEF Named, ClawSpaceRoleChecks, SpaceRoleChecks
  <1>4. Cardinality(Named(c.named \cup named, "Role")) = Cardinality(Granted(g)) + 1
    <2>1. CASE Granted(g) = {}
      <3>1. Named(c.named \cup named, "Role") = {ExecPodsRole}
        BY <1>2, <2>1
      <3>2. Cardinality({ExecPodsRole}) = 1 /\ Cardinality({}) = 0
        BY FS_Singleton, FS_EmptySet
      <3>3. Cardinality(Named(c.named \cup named, "Role")) = 1 /\ Cardinality(Granted(g)) = 0
        BY <2>1, <3>1, <3>2, Zenon
      <3> QED BY <3>3
    <2>2. CASE Granted(g) = {"admin"}
      <3>1. Named(c.named \cup named, "Role") = {ExecPodsRole, ClawUserRole}
        BY <1>2, <2>2
      <3>2. ExecPodsRole # ClawUserRole
        BY BindingNames
      <3>3. Cardinality({ExecPodsRole, ClawUserRole}) = 2
        BY <3>2, PairCount
      <3>4. Cardinality({"admin"}) = 1
        BY FS_Singleton
      <3>5. Cardinality(Named(c.named \cup named, "Role")) = 2 /\ Cardinality(Granted(g)) = 1
        BY <2>2, <3>1, <3>3, <3>4, Zenon
      <3> QED BY <3>5
    <2>3. Granted(g) \in {{}, {"admin"}}
      OBVIOUS
    <2> QED BY <2>1, <2>2, <2>3
  <1>5. Cardinality(Named(c.named \cup named, "RoleBinding")) = 2 * Cardinality(Grants(g)) + 2
    <2>1. IsFiniteSet(always) /\ Cardinality(always) = 2
      BY BindingNames, CrtadminPods # CrtadminView, PairCount
    <2>2. Differ(g, f, h, always)
      BY BindingNames DEF Differ
    <2> HIDE DEF f, h, always
    <2>3. Cardinality(always \cup UNION {{f[a], h[a]} : a \in Grants(g)}) = 2 * Cardinality(Grants(g)) + Cardinality(always)
      BY <2>1, <2>2, BindingsCount
    <2> QED BY <1>3, <2>1, <2>3, Zenon
  <1> HIDE DEF named
  <1> QED BY <1>1, <1>4, <1>5, NumbersWhen

LEMMA AppstudioNumbers ==
  ASSUME NEW g, IsFiniteSet(Grants(g)), Apart(g), ~ViewerAsContributor(g),
         Granted(g) \subseteq {"admin", "maintainer", "viewer", "contributor"},
         NEW c, \A k \in {"Role", "RoleBinding"} : Named(c.named, k) = Named(PipelineRunner, k)
  PROVE  NumbersAgree(c, AppstudioSpaceRoleChecks(g))
  <1> DEFINE named  == AppstudioSpaceRoleChecks(g).named
             f      == [a \in Grants(g) |-> UserActionsBinding(a.user, a.role)]
             h      == [a \in Grants(g) |-> AppstudioViewBinding(a.user)]
             actions == [r \in Granted(g) |-> UserActions(r)]
             always == {Runner}
  <1>1. AppstudioSpaceRoleChecks(g) = [named |-> named, number |-> [Role |-> Cardinality(Granted(g)),
                                                                  RoleBinding |-> 2 * Cardinality(Grants(g)) + 1]]
    BY DEF AppstudioSpaceRoleChecks, SpaceRoleChecks
  <1>2. Named(c.named \cup named, "Role") = {actions[r] : r \in Granted(g)}
    BY AppstudioRoles, BindingKinds DEF Named, AppstudioSpaceRoleChecks, SpaceRoleChecks
  <1>3. Named(c.named \cup named, "RoleBinding") = always \cup UNION {{f[a], h[a]} : a \in Grants(g)}
    BY AppstudioRoles, BindingKinds DEF Named, AppstudioSpaceRoleChecks, SpaceRoleChecks
  <1>4. Cardinality(Named(c.named \cup named, "Role")) = Cardinality(Granted(g))
    <2>1. IsFiniteSet(Granted(g))
      <3>1. IsFiniteSet({"admin", "maintainer"})
        BY PairCount
      <3>2. IsFiniteSet({"admin", "maintainer"} \cup {"contributor"})
        BY <3>1, FS_AddElement
      <3>3. IsFiniteSet(({"admin", "maintainer"} \cup {"contributor"}) \cup {"viewer"})
        BY <3>2, FS_AddElement
      <3>4. Granted(g) \subseteq ({"admin", "maintainer"} \cup {"contributor"}) \cup {"viewer"}
        OBVIOUS
      <3> QED BY <3>3, <3>4, FS_Subset
    <2>2. /\ UserActions("admin") = AdminUserActions
          /\ UserActions("maintainer") = MaintainerUserActions
          /\ UserActions("contributor") = ContributorUserActions
          /\ UserActions("viewer") = ContributorUserActions
      BY DEF UserActions
    <2>3. /\ AdminUserActions.name = <<"appstudio-admin-user-actions">>
          /\ MaintainerUserActions.name = <<"appstudio-maintainer-user-actions">>
          /\ ContributorUserActions.name = <<"appstudio-contributor-user-actions">>
      BY DEF AdminUserActions, MaintainerUserActions, ContributorUserActions, Role, Object
    <2>4. \A q, r \in Granted(g) : actions[q] = actions[r] => q = r
      BY <2>2, <2>3 DEF ViewerAsContributor
    <2>5. actions = [r \in Granted(g) |-> actions[r]]
      OBVIOUS
    <2> HIDE DEF actions
    <2>6. Cardinality({actions[r] : r \in Granted(g)}) = Cardinality(Granted(g))
      BY <2>1, <2>4, <2>5, ImageCount
    <2> QED BY <1>2, <2>6, Zenon
  <1>5. Cardinality(Named(c.named \cup named, "RoleBinding")) = 2 * Cardinality(Grants(g)) + 1
    <2>1. IsFiniteSet(always) /\ Cardinality(always) = 1
      BY FS_Singleton
    <2>2. \A a \in Grants(g) : a.role \in {"admin", "maintainer", "viewer", "contributor"}
      BY GrantRole
    <2>3. Differ(g, f, h, always)
      BY <2>2, BindingNames DEF Differ
    <2> HIDE DEF f, h, always
    <2>4. Cardinality(always \cup UNION {{f[a], h[a]} : a \in Grants(g)}) = 2 * Cardinality(Grants(g)) + Cardinality(always)
      BY <2>1, <2>3, BindingsCount
    <2> QED BY <1>3, <2>1, <2>4, Zenon
  <1> HIDE DEF named
  <1> QED BY <1>1, <1>4, <1>5, NumbersWhen

LEMMA EnvNumbers ==
  ASSUME NEW c, \A k \in {"Role", "RoleBinding"} : Named(c.named, k) = Named(NamespaceManager, k)
  PROVE  NumbersAgree(c, AppstudioEnvSpaceRoleChecks)
  <1>1. AppstudioEnvSpaceRoleChecks = [named |-> {}, number |-> [Role |-> 1, RoleBinding |-> 2]]
    BY DEF AppstudioEnvSpaceRoleChecks, SpaceRoleChecks
  <1>2. Cardinality({ArgoRole}) = 1
    BY FS_Singleton
  <1>3. Cardinality({ArgoBinding, EditBinding}) = 2
    BY BindingNames, ArgoBinding # EditBinding, PairCount
  <1>4. /\ Named(c.named \cup {}, "Role") = {ArgoRole}
        /\ Named(c.named \cup {}, "RoleBinding") = {ArgoBinding, EditBinding}
    BY AppstudioRoles DEF Named
  <1>5. /\ Cardinality(Named(c.named \cup {}, "Role")) = 1
        /\ Cardinality(Named(c.named \cup {}, "RoleBinding")) = 2
    BY <1>2, <1>3, <1>4, Zenon
  <1> QED BY <1>1, <1>5, NumbersWhen

(* The counts of every tier agree with what is looked for by name, for any  *)
(* finite set of grants with one role per user, unless a viewer is next to  *)
(* a contributor.                                                           *)
THEOREM RolesCounted ==
  ASSUME NEW tier \in Tiers, NEW n, NEW g, Sensible(tier, g)
  PROVE  NumbersAgree(GetNamespaceObjectChecks(tier, n), GetSpaceRoleChecks(tier, g))
  <1> DEFINE checks == GetNamespaceObjectChecks(tier, n)
             roles  == GetSpaceRoleChecks(tier, g)
  <1>1. CASE /\ checks \in {BaseNamespaceChecks(n), Base1nsNamespaceChecks}
             /\ roles = BaseSpaceRoleChecks(g)
             /\ KnownRoles(tier) = {"admin"}
    <2>1. \A k \in {"Role", "RoleBinding"} : Named(checks.named, k) = Named(Sandbox, k)
      BY <1>1, NamespaceRoles
    <2> QED BY <1>1, <2>1, BaseNumbers DEF Sensible
  <1>2. CASE /\ checks = ClawNamespaceChecks
             /\ roles = ClawSpaceRoleChecks(g)
             /\ KnownRoles(tier) = {"admin"}
    <2>1. \A k \in {"Role", "RoleBinding"} : Named(checks.named, k) = Named(Sandbox, k)
      BY <1>2, NamespaceRoles
    <2> QED BY <1>2, <2>1, ClawNumbers DEF Sensible
  <1>3. CASE /\ checks \in {AppstudioNamespaceChecks, AppstudiolargeNamespaceChecks}
             /\ roles = AppstudioSpaceRoleChecks(g)
             /\ KnownRoles(tier) = {"admin", "maintainer", "viewer", "contributor"}
    <2>1. \A k \in {"Role", "RoleBinding"} : Named(checks.named, k) = Named(PipelineRunner, k)
      BY <1>3, NamespaceRoles
    <2> QED BY <1>3, <2>1, AppstudioNumbers DEF Sensible
  <1>4. CASE checks = AppstudioEnvNamespaceChecks /\ roles = AppstudioEnvSpaceRoleChecks
    <2>1. \A k \in {"Role", "RoleBinding"} : Named(checks.named, k) = Named(NamespaceManager, k)
      BY <1>4, NamespaceRoles
    <2> QED BY <1>4, <2>1, EnvNumbers
  <1> QED BY <1>1, <1>2, <1>3, <1>4, TierTables

LEMMA AnySensible == ASSUME NEW tier \in Tiers, NEW g \in GrantsOf(tier), ~ViewerAsContributor(g) PROVE Sensible(tier, g)
  <1>1. \A h \in AnyGrants : Apart(h)
    BY DEF AnyGrants, Grant, Apart, Grants
  <1> DEFINE two   == {[role |-> "admin", user |-> "u1"], [role |-> "admin", user |-> "u2"]}
             three == two \cup {[role |-> "maintainer", user |-> "u1"]}
             four  == three \cup {[role |-> "contributor", user |-> "u2"]}
             five  == four \cup {[role |-> "contributor", user |-> "u3"]}
             six   == five \cup {[role |-> "viewer", user |-> "u1"]}
             all   == six \cup {[role |-> "viewer", user |-> "u2"]}
  <1>2. \A h \in AnyGrants : Grants(h) \subseteq all
    BY DEF AnyGrants, Grant, Grants
  <1>3. IsFiniteSet(all)
    <2>1. IsFiniteSet(two)
      BY PairCount
    <2> HIDE DEF two
    <2>2. IsFiniteSet(three)
      BY <2>1, FS_AddElement
    <2> HIDE DEF three
    <2>3. IsFiniteSet(four)
      BY <2>2, FS_AddElement
    <2> HIDE DEF four
    <2>4. IsFiniteSet(five)
      BY <2>3, FS_AddElement
    <2> HIDE DEF five
    <2>5. IsFiniteSet(six)
      BY <2>4, FS_AddElement
    <2> HIDE DEF six
    <2> QED BY <2>5, FS_AddElement
  <1> HIDE DEF all
  <1>4. \A h \in AnyGrants : IsFiniteSet(Grants(h))
    BY <1>2, <1>3, FS_Subset
  <1> QED BY <1>1, <1>4 DEF GrantsOf, Sensible

(* The numbers that a tier's counting checks expect are those of the        *)
(* objects its other checks name, but for the role of a viewer next to a    *)
(* contributor.                                                             *)
THEOREM CountsAlwaysAgree == CountsAgree
  <1>1. ASSUME NEW tier \in Tiers
        PROVE  Cardinality(GetClusterObjectChecks(tier).quotas) = GetClusterObjectChecks(tier).number
    BY ClusterCounts DEF Sound
  <1>2. ASSUME NEW tier \in Tiers, NEW n \in NsTypes(tier),
               NEW k \in DOMAIN GetNamespaceObjectChecks(tier, n).number
        PROVE  NumberOf(k, GetNamespaceObjectChecks(tier, n).named) = GetNamespaceObjectChecks(tier, n).number[k]
    BY NamespaceCounts DEF NumberOf, Named
  <1>3. ASSUME NEW tier \in Tiers, NEW n \in NsTypes(tier), NEW g \in GrantsOf(tier), ~ViewerAsContributor(g)
        PROVE  NumbersAgree(GetNamespaceObjectChecks(tier, n), GetSpaceRoleChecks(tier, g))
    <2>1. Sensible(tier, g)
      BY <1>3, AnySensible
    <2> QED BY <2>1, RolesCounted
  <1> QED BY <1>1, <1>2, <1>3 DEF CountsAgree, NumbersAgree

(* Bindings to roles of the namespace find their roles there, but for the   *)
(* viewer's.                                                                *)
ViewerRole == "appstudio-viewer-user-actions"
Resolves(objects) ==
  \A o \in objects : o.kind = "RoleBinding" /\ o.content[2] = "Role" =>
    (o.content[3] # ViewerRole <=> \E r \in objects : r.kind = "Role" /\ r.name = <<o.content[3]>>)

LEMMA ResolvesWhen ==
  ASSUME NEW objects, NEW roles, roles = Named(objects, "Role"),
         \A b \in Named(objects, "RoleBinding") :
           b.content[2] = "Role" => (b.content[3] # ViewerRole <=> \E r \in roles : r.name = <<b.content[3]>>)
  PROVE  Resolves(objects)
  BY DEF Resolves, Named

(* The contents of the bindings, and whom the ones to a role need.          *)
LEMMA BindingContents ==
  /\ CrtadminPods.content[2] = "Role" /\ CrtadminPods.content[3] = "exec-pods"
  /\ CrtadminView.content[2] = "ClusterRole" /\ Runner.content[2] = "ClusterRole" /\ EditBinding.content[2] = "ClusterRole"
  /\ ArgoBinding.content[3] = "additional-argocd-read" /\ ArgoRole.name = <<"additional-argocd-read">>
  /\ ArgoRole.kind = "Role"
  /\ \A u : /\ RbacEditBinding(u).content[3] = "rbac-edit"
            /\ ClawUserBinding(u).content[3] = "claw-user"
            /\ UserEditBinding(u).content[2] = "ClusterRole"
            /\ ClawViewBinding(u).content[2] = "ClusterRole"
            /\ AppstudioViewBinding(u).content[2] = "ClusterRole"
            /\ \A r \in {"admin", "maintainer", "contributor"} :
                 /\ UserActions(r).name = <<UserActionsBinding(u, r).content[3]>>
                 /\ UserActionsBinding(u, r).content[3] # ViewerRole
            /\ UserActionsBinding(u, "viewer").content[3] = ViewerRole
  /\ \A r : UserActions(r).name # <<ViewerRole>>
  <1>1. /\ UserActions("admin") = AdminUserActions
        /\ UserActions("maintainer") = MaintainerUserActions
        /\ UserActions("contributor") = ContributorUserActions
    BY DEF UserActions
  <1>2. \A u : \A r \in {"admin", "maintainer", "contributor"} :
          /\ UserActions(r).name = <<UserActionsBinding(u, r).content[3]>>
          /\ UserActionsBinding(u, r).content[3] # ViewerRole
    BY <1>1 DEF UserActionsBinding, UserActionsRoleName, AdminUserActions, MaintainerUserActions,
       ContributorUserActions, Role, RoleBinding, Object, ViewerRole
  <1>3. \A u : UserActionsBinding(u, "viewer").content[3] = ViewerRole
    BY DEF UserActionsBinding, UserActionsRoleName, RoleBinding, Object, ViewerRole
  <1>4. \A r : UserActions(r).name # <<ViewerRole>>
    <2>1. \A r : UserActions(r) \in {AdminUserActions, MaintainerUserActions, ContributorUserActions}
      BY DEF UserActions
    <2> QED BY <2>1 DEF AdminUserActions, MaintainerUserActions, ContributorUserActions, Role, Object, ViewerRole
  <1> QED BY <1>2, <1>3, <1>4 DEF CrtadminPods, CrtadminView, Runner, EditBinding, ArgoBinding, ArgoRole, RbacEditBinding,
        ClawUserBinding, UserEditBinding, ClawViewBinding, AppstudioViewBinding, Role, RoleBinding, Object

(* For any grants of roles the tier knows, a role binding that is looked    *)
(* for binds to a role that is looked for in the same namespace, if and     *)
(* only if it is not a viewer's.                                            *)
THEOREM RolesResolve ==
  ASSUME NEW tier \in Tiers, NEW n, NEW g, Granted(g) \subseteq KnownRoles(tier)
  PROVE  Resolves(GetNamespaceObjectChecks(tier, n).named \cup GetSpaceRoleChecks(tier, g).named)
  <1> DEFINE checks  == GetNamespaceObjectChecks(tier, n)
             roles   == GetSpaceRoleChecks(tier, g)
             objects == checks.named \cup roles.named
  <1>1. CASE checks \in {BaseNamespaceChecks(n), Base1nsNamespaceChecks} /\ roles = BaseSpaceRoleChecks(g)
    <2>1. \A k \in {"Role", "RoleBinding"} : Named(checks.named, k) = Named(Sandbox, k)
      BY <1>1, NamespaceRoles
    <2>2. roles.named = {RbacEditRole : r \in Granted(g)}
                        \cup UNION {{RbacEditBinding(a.user), UserEditBinding(a.user)} : a \in Grants(g)}
      BY <1>1 DEF BaseSpaceRoleChecks, SpaceRoleChecks
    <2> DEFINE found == {ExecPodsRole} \cup {RbacEditRole : r \in Granted(g)}
    <2>3. found = Named(objects, "Role")
      BY <2>1, <2>2, SandboxRoles, BindingKinds DEF Named
    <2>4. \A b \in Named(objects, "RoleBinding") :
            \/ b \in {CrtadminPods, CrtadminView}
            \/ \E a \in Grants(g) : b \in {RbacEditBinding(a.user), UserEditBinding(a.user)}
      BY <2>1, <2>2, SandboxRoles, BindingKinds DEF Named
    <2>5. \A b \in Named(objects, "RoleBinding") :
            b.content[2] = "Role" => b.content[3] # ViewerRole /\ \E r \in found : r.name = <<b.content[3]>>
      BY <2>4, BindingContents, BindingNames, GrantRole DEF ViewerRole
    <2> QED BY <2>3, <2>5, ResolvesWhen
  <1>2. CASE checks = ClawNamespaceChecks /\ roles = ClawSpaceRoleChecks(g)
    <2>1. \A k \in {"Role", "RoleBinding"} : Named(checks.named, k) = Named(Sandbox, k)
      BY <1>2, NamespaceRoles
    <2>2. roles.named = {ClawUserRole : r \in Granted(g)}
                        \cup UNION {{ClawUserBinding(a.user), ClawViewBinding(a.user)} : a \in Grants(g)}
      BY <1>2 DEF ClawSpaceRoleChecks, SpaceRoleChecks
    <2> DEFINE found == {ExecPodsRole} \cup {ClawUserRole : r \in Granted(g)}
    <2>3. found = Named(objects, "Role")
      BY <2>1, <2>2, SandboxRoles, BindingKinds DEF Named
    <2>4. \A b \in Named(objects, "RoleBinding") :
            \/ b \in {CrtadminPods, CrtadminView}
            \/ \E a \in Grants(g) : b \in {ClawUserBinding(a.user), ClawViewBinding(a.user)}
      BY <2>1, <2>2, SandboxRoles, BindingKinds DEF Named
    <2>5. \A b \in Named(objects, "RoleBinding") :
            b.content[2] = "Role" => b.content[3] # ViewerRole /\ \E r \in found : r.name = <<b.content[3]>>
      BY <2>4, BindingContents, BindingNames, GrantRole DEF ViewerRole
    <2> QED BY <2>3, <2>5, ResolvesWhen
  <1>3. CASE /\ checks \in {AppstudioNamespaceChecks, AppstudiolargeNamespaceChecks}
             /\ roles = AppstudioSpaceRoleChecks(g)
             /\ KnownRoles(tier) = {"admin", "maintainer", "viewer", "contributor"}
    <2>1. \A k \in {"Role", "RoleBinding"} : Named(checks.named, k) = Named(PipelineRunner, k)
      BY <1>3, NamespaceRoles
    <2>2. roles.named = {UserActions(r) : r \in Granted(g)}
                        \cup UNION {{UserActionsBinding(a.user, a.role), AppstudioViewBinding(a.user)} : a \in Grants(g)}
      BY <1>3 DEF AppstudioSpaceRoleChecks, SpaceRoleChecks
    <2> DEFINE found == {UserActions(r) : r \in Granted(g)}
    <2>3. found = Named(objects, "Role")
      BY <2>1, <2>2, AppstudioRoles, BindingKinds DEF Named
    <2>4. \A b \in Named(objects, "RoleBinding") :
            \/ b = Runner
            \/ \E a \in Grants(g) : b \in {UserActionsBinding(a.user, a.role), AppstudioViewBinding(a.user)}
      BY <2>1, <2>2, AppstudioRoles, BindingKinds DEF Named
    <2>5. \A a \in Grants(g) : a.role \in Granted(g) /\ a.role \in {"admin", "maintainer", "viewer", "contributor"}
      BY <1>3, GrantRole
    <2>6. \A b \in Named(objects, "RoleBinding") :
            b.content[2] = "Role" => (b.content[3] # ViewerRole <=> \E r \in found : r.name = <<b.content[3]>>)
      BY <2>4, <2>5, BindingContents
    <2> QED BY <2>3, <2>6, ResolvesWhen
  <1>4. CASE checks = AppstudioEnvNamespaceChecks /\ roles = AppstudioEnvSpaceRoleChecks
    <2>1. \A k \in {"Role", "RoleBinding"} : Named(checks.named, k) = Named(NamespaceManager, k)
      BY <1>4, NamespaceRoles
    <2>2. roles.named = {}
      BY <1>4 DEF AppstudioEnvSpaceRoleChecks, SpaceRoleChecks
    <2>3. {ArgoRole} = Named(objects, "Role") /\ Named(objects, "RoleBinding") = {ArgoBinding, EditBinding}
      BY <2>1, <2>2, AppstudioRoles DEF Named
    <2>4. \A b \in Named(objects, "RoleBinding") :
            b.content[2] = "Role" => b.content[3] # ViewerRole /\ \E r \in {ArgoRole} : r.name = <<b.content[3]>>
      BY <2>3, BindingContents DEF ViewerRole
    <2> QED BY <2>3, <2>4, ResolvesWhen
  <1> QED BY <1>1, <1>2, <1>3, <1>4, TierTables

(* The same for the grants the run goes through.                            *)
THEOREM BindingsAlwaysResolve == BindingsResolve
  <1> SUFFICES ASSUME NEW tier \in Tiers, NEW n \in NsTypes(tier), NEW g \in GrantsOf(tier)
               PROVE  Resolves(GetNamespaceObjectChecks(tier, n).named \cup GetSpaceRoleChecks(tier, g).named)
    BY Zenon DEF BindingsResolve, Resolves, ViewerRole
  <1>1. Granted(g) \subseteq KnownRoles(tier)
    BY DEF GrantsOf
  <1> QED BY <1>1, RolesResolve
-----------------------------------------------------------------------------
(* The records of the state, and the status the member operator reports.    *)

LEMMA Phases == "cluster" \in Phase /\ "namespaces" \in Phase /\ "roles" \in Phase
  BY DEF Phase

LEMMA DoneWhen ==
  /\ Done("cluster")    <=> set.status["cluster"] = set.spec.refs["cluster"]
  /\ Done("namespaces") <=> set.status["namespaces"] = set.spec.refs["namespaces"]
  BY DEF Done

LEMMA StatusWhen ==
  /\ StatusAfter("cluster")    = [set.status EXCEPT !["cluster"] = set.spec.refs["cluster"]]
  /\ StatusAfter("namespaces") = [set.status EXCEPT !["namespaces"] = set.spec.refs["namespaces"], !["roles"] = <<>>]
  /\ StatusAfter("roles")      = [set.status EXCEPT !["roles"] = <<set.spec.refs["roles"], set.spec.roles>>]
  BY DEF StatusAfter

(* A report leaves the phases it is not about as they were.                 *)
LEMMA StatusReported ==
  ASSUME ShapeInv, NEW p \in Phase
  PROVE  /\ StatusAfter(p) = [q \in Phase |-> StatusAfter(p)[q]]
         /\ p # "roles" => StatusAfter(p)[p] = set.spec.refs[p]
         /\ \A q \in {"cluster", "namespaces"} \ {p} : StatusAfter(p)[q] = set.status[q]
  <1>0. DOMAIN set.status = Phase
    BY DEF ShapeInv
  <1>1. CASE p = "cluster"
    BY <1>0, <1>1, StatusWhen, Phases DEF ShapeInv
  <1>2. CASE p = "namespaces"
    BY <1>0, <1>2, StatusWhen, Phases DEF ShapeInv
  <1>3. CASE p = "roles"
    BY <1>0, <1>3, StatusWhen, Phases DEF ShapeInv
  <1> QED BY <1>1, <1>2, <1>3 DEF Phase

LEMMA ShapeInit == Init => ShapeInv
  BY DEF Init, ShapeInv

LEMMA ShapeStep == ShapeInv /\ [Next]_vars => ShapeInv'
  <1> SUFFICES ASSUME ShapeInv, [Next]_vars PROVE ShapeInv'
    OBVIOUS
  <1> USE DEF ShapeInv
  <1>1. CASE HostRevise \/ HostSync \/ HostFinish \/ MemberStart \/ MemberFinish
    BY <1>1 DEF HostRevise, HostSync, HostFinish, MemberStart, MemberFinish, Outcome, cluster
  <1>2. CASE MemberDeleteNamespace \/ MemberCreateNamespace \/ MemberApply
    BY <1>2 DEF MemberDeleteNamespace, MemberCreateNamespace, MemberApply
  <1>3. CASE MemberSettle \/ MemberSettleWrongly
    <2>1. PICK p \in Phase : set' = [set EXCEPT !.status = StatusAfter(p)]
      BY <1>3 DEF MemberSettle, MemberSettleWrongly
    <2>2. set'.status = StatusAfter(p)
      BY <2>1
    <2>3. set'.status = [q \in Phase |-> set'.status[q]]
      BY <2>2, StatusReported, Zenon
    <2>4. custom' = custom /\ space' = space
      BY <1>3 DEF MemberSettle, MemberSettleWrongly
    <2> QED BY <2>1, <2>3, <2>4
  <1>4. CASE MainStep
    BY <1>4 DEF MainStep, ChangeTier, AwaitRevised, MoveSpaceToTier, Bind, AwaitSpaceRoles, AwaitSpace,
       ListSpaceBindings, AwaitRolesFromBindings, AwaitNSTemplateSet, AwaitTemplateRefs, AwaitNamespace,
       StartClusterChecks, Join, AwaitProvisionedNamespaces, AwaitSpaceNamespaces, NextStep, AwaitFails, Main, Goto,
       cluster
  <1>5. CASE CheckPasses \/ CheckFails \/ Late \/ UNCHANGED vars
    BY <1>5 DEF CheckPasses, CheckFails, Late, CheckEnds, cluster, vars, test
  <1> QED BY <1>1, <1>2, <1>3, <1>4, <1>5 DEF Next, Operators

-----------------------------------------------------------------------------
(* The test and its goroutines.                                             *)

LEMMA RunningStep == RunningInv /\ [Next]_vars => RunningInv'
  <1> SUFFICES ASSUME RunningInv, [Next]_vars PROVE RunningInv'
    OBVIOUS
  <1>1. CASE Operators
    BY <1>1 DEF Operators, HostRevise, HostSync, HostFinish, MemberStart, MemberDeleteNamespace, MemberCreateNamespace,
       MemberApply, MemberSettle, MemberSettleWrongly, MemberFinish, RunningInv, test
  <1>2. CASE MainStep
    BY <1>2 DEF MainStep, ChangeTier, AwaitRevised, MoveSpaceToTier, Bind, AwaitSpaceRoles, AwaitSpace,
       ListSpaceBindings, AwaitRolesFromBindings, AwaitNSTemplateSet, AwaitTemplateRefs, AwaitNamespace,
       StartClusterChecks, Join, AwaitProvisionedNamespaces, AwaitSpaceNamespaces, NextStep, AwaitFails, Main, Goto,
       RunningInv
  <1>3. CASE CheckPasses \/ CheckFails
    BY <1>3 DEF CheckPasses, CheckFails, CheckEnds, RunningInv
  <1>4. CASE Late \/ UNCHANGED vars
    BY <1>4 DEF Late, vars, test, RunningInv
  <1> QED BY <1>1, <1>2, <1>3, <1>4 DEF Next

(* What the operators leave alone.                                          *)
LEMMA OperatorsStep ==
  ShapeInv /\ Operators => /\ UNCHANGED <<test, bindings>>
                           /\ space'.tier = space.tier
                           /\ custom'.parts = custom.parts
  BY DEF Operators, HostRevise, HostSync, HostFinish, MemberStart, MemberDeleteNamespace, MemberCreateNamespace,
     MemberApply, MemberSettle, MemberSettleWrongly, MemberFinish, Outcome, ShapeInv, cluster

(* The test never changes the tier, the bindings or the custom tier while   *)
(* goroutines of the verification before still look at the space, for all   *)
(* journeys and however many phases the member operator gets wrong.         *)
THEOREM ChecksUndisturbed == Spec => NoChangeUnderChecks
  <1>1. Init => RunningInv /\ ShapeInv
    BY ShapeInit DEF Init, RunningInv
  <1>2. RunningInv /\ ShapeInv /\ [Next]_vars =>
          [space'.tier # space.tier \/ bindings' # bindings \/ custom'.parts # custom.parts => running = {}]_vars
    <2> SUFFICES ASSUME RunningInv, ShapeInv, Next,
                        space'.tier # space.tier \/ bindings' # bindings \/ custom'.parts # custom.parts
                 PROVE  running = {}
      OBVIOUS
    <2>1. CASE MainStep
      BY <2>1 DEF MainStep, ChangeTier, AwaitRevised, MoveSpaceToTier, Bind, AwaitSpaceRoles, AwaitSpace,
         ListSpaceBindings, AwaitRolesFromBindings, AwaitNSTemplateSet, AwaitTemplateRefs, AwaitNamespace,
         StartClusterChecks, Join, AwaitProvisionedNamespaces, AwaitSpaceNamespaces, NextStep, AwaitFails, Main,
         cluster, RunningInv
    <2>2. CASE CheckPasses \/ CheckFails \/ Late
      BY <2>2 DEF CheckPasses, CheckFails, Late, CheckEnds, cluster
    <2> QED BY <2>1, <2>2, OperatorsStep DEF Next, test
  <1> QED BY <1>1, <1>2, RunningStep, ShapeStep, PTL DEF Spec, NoChangeUnderChecks

(* What the test and the checks leave alone.                                *)
LEMMA OthersWorld ==
  ASSUME [Next]_vars, ~Operators
  PROVE  UNCHANGED <<set, labels, world>>
  BY DEF Next, MainStep, ChangeTier, AwaitRevised, MoveSpaceToTier, Bind, AwaitSpaceRoles, AwaitSpace,
     ListSpaceBindings, AwaitRolesFromBindings, AwaitNSTemplateSet, AwaitTemplateRefs, AwaitNamespace,
     StartClusterChecks, Join, AwaitProvisionedNamespaces, AwaitSpaceNamespaces, NextStep, AwaitFails, Late,
     CheckPasses, CheckFails, CheckEnds, Main, cluster, vars, test

-----------------------------------------------------------------------------
(* The tier of the space, the refs in the spec, and those in the status.    *)

LEMMA RefsSame ==
  ASSUME space'.tier = space.tier, custom'.parts = custom.parts \/ space.tier # "custom"
  PROVE  Refs(space.tier)' = Refs(space.tier)
  BY DEF Refs, Parts

LEMMA TierStep == ShapeInv /\ TierInv /\ [Next]_vars => TierInv'
  <1> SUFFICES ASSUME ShapeInv, TierInv, [Next]_vars PROVE TierInv'
    OBVIOUS
  <1>1. CASE Operators
    <2>1. CASE HostSync
      BY <2>1, OperatorsStep, <1>1 DEF HostSync, Desired, ShapeInv, test, TierInv, Tier, Step
    <2>2. CASE ~HostSync
      <3>1. set'.spec = set.spec
        BY <1>1, <2>2 DEF Operators, HostRevise, HostFinish, MemberStart, MemberDeleteNamespace, MemberCreateNamespace,
           MemberApply, MemberSettle, MemberSettleWrongly, MemberFinish, ShapeInv, cluster
      <3> QED BY <3>1, <1>1, OperatorsStep DEF test, TierInv, Tier, Step
    <2> QED BY <2>1, <2>2
  <1>2. CASE ChangeTier \/ AwaitRevised \/ MoveSpaceToTier \/ Bind \/ AwaitSpaceRoles \/ AwaitSpace \/ NextStep
    BY <1>2 DEF ChangeTier, AwaitRevised, MoveSpaceToTier, Bind, AwaitSpaceRoles, AwaitSpace, NextStep, Main, Goto,
       cluster, TierInv, Tier, Step, Verifying, ShapeInv
  <1>3. CASE AwaitNSTemplateSet \/ AwaitRolesFromBindings
    <2>1. set.spec.tier = Tier
      BY <1>3 DEF AwaitNSTemplateSet, SetThere, AwaitRolesFromBindings, RolesAsListed, WaitForNSTmplSet,
         NSTemplateSetCriteria
    <2> QED BY <2>1, <1>3 DEF AwaitNSTemplateSet, AwaitRolesFromBindings, Main, Goto, cluster, TierInv, Tier, Step, Verifying
  <1>4. CASE ListSpaceBindings \/ AwaitTemplateRefs \/ AwaitNamespace \/ StartClusterChecks \/ Join
             \/ AwaitProvisionedNamespaces \/ AwaitSpaceNamespaces \/ AwaitFails
    BY <1>4 DEF ListSpaceBindings, AwaitTemplateRefs, AwaitNamespace, StartClusterChecks, Join,
       AwaitProvisionedNamespaces, AwaitSpaceNamespaces, AwaitFails, Main, Goto, cluster, TierInv, Tier, Step,
       Verifying
  <1>5. CASE CheckPasses \/ CheckFails \/ Late \/ UNCHANGED vars
    BY <1>5 DEF CheckPasses, CheckFails, Late, CheckEnds, cluster, vars, test, TierInv, Tier, Step
  <1> QED BY <1>1, <1>2, <1>3, <1>4, <1>5 DEF Next, MainStep

(* What the operators do to the refs, the status and the namespaces: the    *)
(* host operator puts the refs of the space in the spec, and a phase is     *)
(* reported only when it is its turn.                                       *)
LEMMA OperatorsRefs ==
  ASSUME ShapeInv, Operators
  PROVE  \/ /\ set'.spec.refs = Refs(space.tier)
            /\ UNCHANGED <<set.status, labels>>
         \/ /\ set'.spec = set.spec
            /\ ~Done("namespaces")
            /\ UNCHANGED set.status
         \/ /\ set'.spec = set.spec
            /\ UNCHANGED <<set.status, labels>>
         \/ /\ set'.spec = set.spec
            /\ \E p \in Phase : /\ ~Done(p)
                                /\ p = "namespaces" => DOMAIN labels = Types(set.spec) /\ DOMAIN labels' = DOMAIN labels
                                /\ p # "namespaces" => labels' = labels
                                /\ set'.status = StatusAfter(p)
  <1>1. CASE HostRevise \/ HostFinish \/ MemberStart \/ MemberApply \/ MemberFinish
    BY <1>1 DEF HostRevise, HostFinish, MemberStart, MemberApply, MemberFinish, ShapeInv, cluster
  <1>2. CASE HostSync
    BY <1>2 DEF HostSync, Desired, ShapeInv
  <1>3. CASE MemberDeleteNamespace \/ MemberCreateNamespace
    BY <1>3 DEF MemberDeleteNamespace, MemberCreateNamespace, Turn
  <1>4. CASE MemberSettle \/ MemberSettleWrongly
    <2>1. PICK p \in Phase : /\ Turn(p)
                             /\ p = "namespaces" => DOMAIN labels = Types(set.spec)
                             /\ set' = [set EXCEPT !.status = StatusAfter(p)]
                             /\ p # "namespaces" => labels' = labels
                             /\ DOMAIN labels' = DOMAIN labels
      BY <1>4 DEF MemberSettle, MemberSettleWrongly, Labelled
    <2> QED BY <2>1 DEF Turn, ShapeInv
  <1> QED BY <1>1, <1>2, <1>3, <1>4 DEF Operators

(* Where the spec has the refs of the space already, the phases that are    *)
(* done stay done.                                                          *)
LEMMA RestedStays ==
  ASSUME ShapeInv, Operators, Rested
  PROVE  /\ set'.spec.refs = set.spec.refs => Rested'
         /\ set'.spec.refs # set.spec.refs => set'.spec.refs = Refs(space.tier)
         /\ UNCHANGED <<set.status["cluster"], set.status["namespaces"]>>
  <1>1. UNCHANGED <<set.status["cluster"], set.status["namespaces"]>>
    BY OperatorsRefs, StatusReported DEF Phase, Rested
  <1> QED BY <1>1, OperatorsRefs, DoneWhen DEF Rested, Done

LEMMA RestStep ==
  ShapeInv /\ TierInv /\ RestInv /\ [Next]_vars => RestInv'
  <1> SUFFICES ASSUME ShapeInv, TierInv, RestInv, [Next]_vars PROVE RestInv'
    OBVIOUS
  <1>1. CASE Operators
    <2>1. /\ UNCHANGED pc /\ space'.tier = space.tier
          /\ Refs(space.tier)' = Refs(space.tier)
      BY <1>1, OperatorsStep, RefsSame DEF test
    <2>2. set.spec.refs = Refs(space.tier) /\ Rested => set'.spec.refs = Refs(space.tier) /\ Rested'
      BY <1>1, RestedStays
    <2> QED BY <2>1, <2>2 DEF RestInv
  <1>2. CASE ~Operators
    <2>1. UNCHANGED set
      BY <1>2, OthersWorld
    <2>2. Rested' = Rested
      BY <2>1 DEF Rested, Done
    <2>3. CASE ChangeTier
      <3>1. pc = "step" /\ pc' = "revised" /\ space' = space
        BY <2>3 DEF ChangeTier, Goto, cluster
      <3> QED BY <3>1, <2>1, <2>2, RefsSame DEF RestInv, Verifying
    <2>4. CASE AwaitTemplateRefs
      <3>1. /\ pc = "refs" /\ space' = space /\ custom' = custom /\ pc' = "namespaces"
            /\ set.spec.refs = Refs(Tier) /\ Rested
        BY <2>4, DoneWhen DEF AwaitTemplateRefs, RefsThere, Main, Goto, cluster, HasTemplateRefs,
           HasStatusTemplateRefs, Rested
      <3> QED BY <3>1, <2>1, <2>2, RefsSame DEF TierInv, RestInv
    <2>5. CASE MoveSpaceToTier \/ Bind \/ AwaitSpaceRoles \/ AwaitSpace \/ ListSpaceBindings \/ AwaitRolesFromBindings
               \/ AwaitNSTemplateSet \/ AwaitFails
      <3>1. pc' \in {"space", "bound", "list", "roles", "set", "refs", "ended"}
        BY <2>5 DEF MoveSpaceToTier, Bind, AwaitSpaceRoles, AwaitSpace, ListSpaceBindings, AwaitRolesFromBindings,
           AwaitNSTemplateSet, AwaitFails, Main, Goto
      <3> QED BY <3>1 DEF RestInv, Verifying
    <2>6. CASE AwaitRevised \/ AwaitNamespace \/ StartClusterChecks \/ Join \/ AwaitProvisionedNamespaces
               \/ AwaitSpaceNamespaces \/ NextStep \/ CheckPasses \/ CheckFails \/ Late \/ UNCHANGED vars
      <3>1. UNCHANGED <<space, custom>>
        BY <2>6 DEF AwaitRevised, AwaitNamespace, StartClusterChecks, Join, AwaitProvisionedNamespaces,
           AwaitSpaceNamespaces, NextStep, CheckPasses, CheckFails, Late, CheckEnds, Main, cluster, vars, test
      <3>2. \/ pc = "revised" /\ pc' = "move"
            \/ pc \in Verifying /\ pc' \in Verifying \cup {"step"}
            \/ pc' = pc
        BY <2>6 DEF AwaitRevised, AwaitNamespace, StartClusterChecks, Join, AwaitProvisionedNamespaces,
           AwaitSpaceNamespaces, NextStep, CheckPasses, CheckFails, Late, CheckEnds, Main, Goto, Verifying, vars, test
      <3> QED BY <3>1, <3>2, <2>1, <2>2, RefsSame DEF RestInv, Verifying
    <2> QED BY <1>2, <2>3, <2>4, <2>5, <2>6 DEF Next, MainStep
  <1> QED BY <1>1, <1>2

LEMMA SyncStep == ShapeInv /\ TierInv /\ RestInv /\ SyncInv /\ [Next]_vars => SyncInv'
  <1> SUFFICES ASSUME ShapeInv, TierInv, RestInv, SyncInv, [Next]_vars PROVE SyncInv'
    OBVIOUS
  <1>1. CASE Operators
    <2>1. Refs(space.tier)' = Refs(space.tier)
      BY <1>1, OperatorsStep, RefsSame
    <2>2. CASE set.spec.refs # Refs(space.tier)
      BY <2>1, <2>2, <1>1, RestedStays DEF SyncInv
    <2>3. CASE set.spec.refs = Refs(space.tier)
      BY <2>1, <2>3, <1>1, OperatorsRefs DEF SyncInv
    <2> QED BY <2>2, <2>3
  <1>2. CASE ~Operators
    <2>1. UNCHANGED set
      BY <1>2, OthersWorld
    <2>2. Rested' = Rested
      BY <2>1 DEF Rested, Done
    <2>3. CASE ChangeTier \/ MoveSpaceToTier
      <3>1. Rested \/ (space'.tier = space.tier /\ custom' = custom)
        BY <2>3 DEF ChangeTier, MoveSpaceToTier, TierInv, RestInv, ShapeInv, cluster, Step
      <3> QED BY <3>1, <2>1, <2>2, RefsSame DEF SyncInv
    <2>4. CASE ~ChangeTier /\ ~MoveSpaceToTier
      <3>1. UNCHANGED <<space, custom>>
        BY <1>2, <2>4 DEF Next, MainStep, AwaitRevised, Bind, AwaitSpaceRoles, AwaitSpace, ListSpaceBindings,
           AwaitRolesFromBindings, AwaitNSTemplateSet, AwaitTemplateRefs, AwaitNamespace, StartClusterChecks, Join,
           AwaitProvisionedNamespaces, AwaitSpaceNamespaces, NextStep, AwaitFails, Late, CheckPasses, CheckFails,
           CheckEnds, Main, cluster, vars, test
      <3> QED BY <3>1, <2>1, <2>2, RefsSame DEF SyncInv
    <2> QED BY <2>3, <2>4
  <1> QED BY <1>1, <1>2

LEMMA TypesStep == ShapeInv /\ SyncInv /\ TypesInv /\ [Next]_vars => TypesInv'
  <1> SUFFICES ASSUME ShapeInv, SyncInv, TypesInv, [Next]_vars PROVE TypesInv'
    OBVIOUS
  <1>1. CASE Operators
    <2>1. CASE set'.spec.refs = Refs(space.tier) /\ UNCHANGED <<set.status, labels>>
      <3>1. CASE set.spec.refs = Refs(space.tier)
        BY <2>1, <3>1, DoneWhen DEF TypesInv, Types, Done
      <3>2. CASE set.spec.refs # Refs(space.tier)
        <4>1. Done("namespaces") /\ DOMAIN labels = NsTypes(set.spec.refs["namespaces"].basis)
          BY <3>2 DEF SyncInv, Rested, TypesInv, Types
        <4>2. Done("namespaces")' => set'.spec.refs["namespaces"] = set.spec.refs["namespaces"]
          BY <4>1, <2>1, DoneWhen DEF Done
        <4> QED BY <4>1, <4>2, <2>1 DEF TypesInv, Types
      <3> QED BY <3>1, <3>2
    <2>2. CASE set'.spec = set.spec /\ ~Done("namespaces") /\ UNCHANGED set.status
      BY <2>2, DoneWhen DEF TypesInv, Done
    <2>3. CASE set'.spec = set.spec /\ UNCHANGED <<set.status, labels>>
      BY <2>3, DoneWhen DEF TypesInv, Done, Types
    <2>4. ASSUME set'.spec = set.spec,
                 NEW p \in Phase, p = "namespaces" => DOMAIN labels = Types(set.spec) /\ DOMAIN labels' = DOMAIN labels,
                 p # "namespaces" => labels' = labels,
                 set'.status = StatusAfter(p)
          PROVE  TypesInv'
      <3>1. CASE p = "namespaces"
        BY <2>4, <3>1 DEF TypesInv, Types
      <3>2. CASE p # "namespaces"
        <4>1. set'.status["namespaces"] = set.status["namespaces"]
          BY <2>4, <3>2, StatusReported
        <4> QED BY <4>1, <2>4, <3>2, DoneWhen DEF TypesInv, Done, Types
      <3> QED BY <3>1, <3>2
    <2> QED BY <1>1, <2>1, <2>2, <2>3, <2>4, OperatorsRefs
  <1>2. CASE ~Operators
    <2>1. UNCHANGED <<set, labels>>
      BY <1>2, OthersWorld
    <2> QED BY <2>1 DEF TypesInv, Done, Types
  <1> QED BY <1>1, <1>2

-----------------------------------------------------------------------------
(* What is in the cluster: the templates put every object in its place.     *)

LEMMA NoNamespaceType == ASSUME NEW tier PROVE NoNamespace \notin NsTypes(tier)
  <1>1. NoNamespace # "dev" /\ NoNamespace # "stage" /\ NoNamespace # "tenant" /\ NoNamespace # "env" /\ NoNamespace # "claw"
    BY Zenon DEF NoNamespace
  <1> QED BY <1>1, Families

LEMMA RoleKinds ==
  ASSUME NEW tier, NEW g, NEW o \in GetSpaceRoleChecks(tier, g).named
  PROVE  o.kind \in {"Role", "RoleBinding"}
  <1> DEFINE checks == GetSpaceRoleChecks(tier, g)
  <1>1. checks \in {AppstudioSpaceRoleChecks(g), AppstudioEnvSpaceRoleChecks, ClawSpaceRoleChecks(g), BaseSpaceRoleChecks(g)}
    BY Families
  <1>2. CASE checks = AppstudioSpaceRoleChecks(g)
    BY <1>2, BindingKinds DEF AppstudioSpaceRoleChecks, SpaceRoleChecks
  <1>3. CASE checks = AppstudioEnvSpaceRoleChecks
    BY <1>3 DEF AppstudioEnvSpaceRoleChecks, SpaceRoleChecks
  <1>4. CASE checks = ClawSpaceRoleChecks(g)
    BY <1>4, BindingKinds DEF ClawSpaceRoleChecks, SpaceRoleChecks
  <1>5. CASE checks = BaseSpaceRoleChecks(g)
    BY <1>5, BindingKinds DEF BaseSpaceRoleChecks, SpaceRoleChecks
  <1> QED BY <1>1, <1>2, <1>3, <1>4, <1>5

LEMMA ClusterObjectKinds == ASSUME NEW spec, NEW o \in ClusterObjects(spec) PROVE o.kind \in ClusterKinds
  BY DEF ClusterObjects, Quota, Idler, Object, ClusterKinds

(* The Wanted of a phase.                                                   *)
LEMMA WantedWhen ==
  ASSUME NEW spec
  PROVE  /\ Wanted("cluster", spec) = Place("cluster", NoNamespace, ClusterObjects(spec))
         /\ Wanted("namespaces", spec) =
              UNION {Place("namespaces", n, GetNamespaceObjectChecks(spec.refs["namespaces"].basis, n).named) : n \in Types(spec)}
         /\ Wanted("roles", spec) =
              UNION {Place("roles", n, GetSpaceRoleChecks(spec.refs["roles"].basis, ToSet(spec.roles)).named) : n \in Types(spec)}
  BY Zenon DEF Wanted

LEMMA PlacedBy ==
  ASSUME NEW phase, NEW at, NEW objects, NEW w \in Place(phase, at, objects)
  PROVE  /\ w = [by |-> w.by, at |-> w.at, object |-> w.object]
         /\ w.by = phase /\ w.at = at /\ w.object \in objects /\ w.object.kind \in journey.kinds
  BY DEF Place, Followed

LEMMA WantedPlaced ==
  ASSUME NEW p \in Phase, NEW spec, NEW w \in Wanted(p, spec)
  PROVE  /\ w = [by |-> w.by, at |-> w.at, object |-> w.object]
         /\ w.by = p
         /\ w.object.kind \in journey.kinds
         /\ p = "cluster" => w.at = NoNamespace /\ w.object.kind \in ClusterKinds
         /\ p = "namespaces" => w.at # NoNamespace /\ w.at \in Types(spec) /\ w.object.kind \notin ClusterKinds
         /\ p = "roles" => w.object.kind \in {"Role", "RoleBinding"}
  <1>1. CASE p = "cluster"
    BY <1>1, WantedWhen, PlacedBy, ClusterObjectKinds
  <1>2. CASE p = "namespaces"
    <2>1. PICK n \in Types(spec) :
            w \in Place("namespaces", n, GetNamespaceObjectChecks(spec.refs["namespaces"].basis, n).named)
      BY <1>2, WantedWhen
    <2>2. w.object.kind \notin ClusterKinds
      BY <2>1, PlacedBy, NamespaceCounts
    <2> QED BY <1>2, <2>1, <2>2, PlacedBy, NoNamespaceType DEF Types
  <1>3. CASE p = "roles"
    <2>1. PICK n \in Types(spec) : w \in Place("roles", n, GetSpaceRoleChecks(spec.refs["roles"].basis, ToSet(spec.roles)).named)
      BY <1>3, WantedWhen
    <2> QED BY <1>3, <2>1, PlacedBy, RoleKinds
  <1> QED BY <1>1, <1>2, <1>3 DEF Phase

LEMMA KindsApart == "Role" \notin CountedKinds /\ "RoleBinding" \notin CountedKinds /\ ClusterKinds \cap NamespaceKinds = {}
  BY DEF CountedKinds, ClusterKinds, NamespaceKinds

(* What the operators do to the objects: nothing, a namespace goes with     *)
(* what is in it, or one object of the phase whose turn it is changes.      *)
LEMMA OperatorsWorld ==
  ASSUME Operators
  PROVE  \/ world' = world /\ DOMAIN labels \subseteq DOMAIN labels'
         \/ /\ ~Done("namespaces")
            /\ \E n \in DOMAIN labels : DOMAIN labels' = DOMAIN labels \ {n} /\ world' = {w \in world : w.at # n}
         \/ /\ labels' = labels
            /\ \E p \in Phase :
                 /\ Turn(p)
                 /\ p = "namespaces" => DOMAIN labels = Types(set.spec)
                 /\ \/ \E w \in Wanted(p, set.spec) : world' = {v \in world : ~Same(v, w)} \cup {w}
                    \/ \E w \in Current(p) : world' = world \ {w}
  <1>1. CASE HostRevise \/ HostSync \/ HostFinish \/ MemberStart \/ MemberFinish
    BY <1>1 DEF HostRevise, HostSync, HostFinish, MemberStart, MemberFinish, cluster
  <1>2. CASE MemberDeleteNamespace
    BY <1>2 DEF MemberDeleteNamespace, Turn
  <1>3. CASE MemberCreateNamespace
    BY <1>3 DEF MemberCreateNamespace
  <1>4. CASE MemberApply
    BY <1>4 DEF MemberApply
  <1>5. CASE MemberSettle \/ MemberSettleWrongly
    BY <1>5 DEF MemberSettle, MemberSettleWrongly, Labelled
  <1> QED BY <1>1, <1>2, <1>3, <1>4, <1>5 DEF Operators

LEMMA JourneySame == [Next]_vars => journey' = journey
  <1>1. CASE Operators
    BY <1>1 DEF Operators, HostRevise, HostSync, HostFinish, MemberStart, MemberDeleteNamespace, MemberCreateNamespace,
       MemberApply, MemberSettle, MemberSettleWrongly, MemberFinish, test
  <1>2. CASE [Next]_vars /\ ~Operators
    BY <1>2 DEF Next, MainStep, ChangeTier, AwaitRevised, MoveSpaceToTier, Bind, AwaitSpaceRoles, AwaitSpace,
       ListSpaceBindings, AwaitRolesFromBindings, AwaitNSTemplateSet, AwaitTemplateRefs, AwaitNamespace,
       StartClusterChecks, Join, AwaitProvisionedNamespaces, AwaitSpaceNamespaces, NextStep, AwaitFails, Late,
       CheckPasses, CheckFails, CheckEnds, Main, vars, test
  <1> QED BY <1>1, <1>2

LEMMA WorldStep == WorldInv /\ [Next]_vars => WorldInv'
  <1> SUFFICES ASSUME WorldInv, [Next]_vars PROVE WorldInv'
    OBVIOUS
  <1>0. journey' = journey
    BY JourneySame
  <1>1. ASSUME world' \subseteq world, \A w \in world' : w.by = "namespaces" => w.at \in DOMAIN labels'
        PROVE  WorldInv'
    <2>1. \A w \in world' : Placed(w)'
      BY <1>0, <1>1 DEF WorldInv, Placed
    <2>2. OfKinds(CountedKinds)' \subseteq OfKinds(CountedKinds)
      BY <1>1 DEF OfKinds, CountedKinds, ClusterKinds, NamespaceKinds
    <2>3. IsFiniteSet(OfKinds(CountedKinds)')
      BY <2>2, FS_Subset DEF WorldInv
    <2> QED BY <2>1, <2>3 DEF WorldInv
  <1>2. ASSUME labels' = labels,
               NEW p \in Phase, p = "namespaces" => DOMAIN labels = Types(set.spec),
               NEW w \in Wanted(p, set.spec), world' = {v \in world : ~Same(v, w)} \cup {w}
        PROVE  WorldInv'
    <2>1. Placed(w)
      BY <1>2, WantedPlaced DEF Placed
    <2>2. \A v \in world' : Placed(v)'
      BY <1>0, <1>2, <2>1 DEF WorldInv, Placed
    <2>3. OfKinds(CountedKinds)' \subseteq OfKinds(CountedKinds) \cup {w}
      BY <1>2 DEF OfKinds, CountedKinds, ClusterKinds, NamespaceKinds
    <2>4. IsFiniteSet(OfKinds(CountedKinds) \cup {w})
      BY FS_AddElement DEF WorldInv
    <2>5. IsFiniteSet(OfKinds(CountedKinds)')
      BY <2>3, <2>4, FS_Subset
    <2> QED BY <2>2, <2>5 DEF WorldInv
  <1>3. CASE Operators
    <2>1. CASE world' = world /\ DOMAIN labels \subseteq DOMAIN labels'
      BY <2>1, <1>1 DEF WorldInv, Placed
    <2>2. CASE \E n \in DOMAIN labels : DOMAIN labels' = DOMAIN labels \ {n} /\ world' = {w \in world : w.at # n}
      BY <2>2, <1>1 DEF WorldInv, Placed
    <2>3. ASSUME labels' = labels, NEW p \in Phase, NEW w \in Current(p), world' = world \ {w}
          PROVE  WorldInv'
      BY <2>3, <1>1 DEF WorldInv, Placed
    <2> QED BY <1>3, <1>2, <2>1, <2>2, <2>3, OperatorsWorld
  <1>4. CASE ~Operators
    BY <1>4, <1>1, OthersWorld DEF WorldInv, Placed
  <1> QED BY <1>3, <1>4

-----------------------------------------------------------------------------
(* The counted objects do not change while the space is verified.           *)

LEMMA Frozen ==
  ASSUME RestInv, WorldInv, pc \in Verifying, [Next]_vars
  PROVE  OfKinds(CountedKinds)' = OfKinds(CountedKinds)
  <1>0. Rested
    BY DEF RestInv
  <1>1. CASE Operators
    <2>1. \A p \in Phase : Turn(p) => p = "roles"
      BY <1>0 DEF Rested, Turn, Phase
    <2>2. ASSUME NEW w \in Wanted("roles", set.spec), world' = {v \in world : ~Same(v, w)} \cup {w}
          PROVE  OfKinds(CountedKinds)' = OfKinds(CountedKinds)
      <3>1. w.object.kind \notin CountedKinds
        BY WantedPlaced, KindsApart, Phases
      <3> QED BY <2>2, <3>1 DEF OfKinds, Same, CountedKinds, ClusterKinds, NamespaceKinds
    <2>3. ASSUME NEW w \in Current("roles"), world' = world \ {w}
          PROVE  OfKinds(CountedKinds)' = OfKinds(CountedKinds)
      <3>1. w.object.kind \notin CountedKinds
        BY KindsApart DEF Current, WorldInv, Placed
      <3> QED BY <2>3, <3>1 DEF OfKinds, CountedKinds, ClusterKinds, NamespaceKinds
    <2>4. CASE world' = world
      BY <2>4 DEF OfKinds, CountedKinds, ClusterKinds, NamespaceKinds
    <2> QED BY <1>0, <1>1, <2>1, <2>2, <2>3, <2>4, OperatorsWorld DEF Rested
  <1>2. CASE ~Operators
    BY <1>2, OthersWorld DEF OfKinds, CountedKinds, ClusterKinds, NamespaceKinds
  <1> QED BY <1>1, <1>2

-----------------------------------------------------------------------------
(* The checks of the counted kinds.                                         *)

LEMMA PassesWhen ==
  ASSUME NEW c
  PROVE  /\ c.look = "named" => (Passes(c) <=> Matches(c))
         /\ c.look = "number" => (Passes(c) <=> Number(c, c.kind) = c.number)
         /\ c.look = "idlers" => (Passes(c) <=> WaitForIdlers(c) /\ Number(c, "Idler") = Cardinality(c.objects))
  BY Zenon DEF Passes

LookAtCounted(c) == \/ c.look = "named"  /\ c.object.kind \in CountedKinds
                    \/ c.look = "number" /\ c.kind \in CountedKinds
                    \/ c.look = "idlers" /\ \A o \in c.objects : o.kind = "Idler"

(* They look at the counted kinds of objects only.                          *)
LEMMA PassesFrozen ==
  ASSUME OfKinds(CountedKinds)' = OfKinds(CountedKinds), NEW c, LookAtCounted(c), Passes(c)
  PROVE  Passes(c)'
  <1>1. "Idler" \in CountedKinds
    BY DEF CountedKinds, ClusterKinds
  <1>2. \A o : o.kind \in CountedKinds => (o \in At(c)' <=> o \in At(c))
    BY DEF OfKinds, At, CountedKinds, ClusterKinds, NamespaceKinds
  <1>3. ASSUME NEW k \in CountedKinds PROVE Number(c, k)' = Number(c, k)
    <2>1. {o \in At(c)' : o.kind = k} = {o \in At(c) : o.kind = k}
      BY <1>2
    <2> QED BY <2>1, Zenon DEF Number
  <1>4. CASE c.look = "named" /\ c.object.kind \in CountedKinds
    <2>1. Matches(c)'
      BY <1>2, <1>4, PassesWhen DEF Matches
    <2> QED BY <1>4, <2>1, Zenon DEF Passes
  <1>5. CASE c.look = "number" /\ c.kind \in CountedKinds
    <2>1. c.look = "number" /\ Number(c, c.kind)' = c.number
      BY <1>3, <1>5, PassesWhen
    <2> QED BY <2>1, Zenon DEF Passes
  <1>6. CASE c.look = "idlers" /\ \A o \in c.objects : o.kind = "Idler"
    <2>1. WaitForIdlers(c)'
      BY <1>1, <1>2, <1>6, PassesWhen DEF WaitForIdlers
    <2>2. c.look = "idlers" /\ Number(c, "Idler")' = Cardinality(c.objects)
      BY <1>1, <1>3, <1>6, PassesWhen
    <2> QED BY <2>1, <2>2, Zenon DEF Passes
  <1> QED BY <1>4, <1>5, <1>6 DEF LookAtCounted

LEMMA CountedLook ==
  /\ \A n : \A c \in CountedChecks(n) : LookAtCounted(c)
  /\ \A c \in ClusterGoroutines : LookAtCounted(c)
  <1>1. ASSUME NEW n, NEW c \in CountedChecks(n) PROVE LookAtCounted(c)
    <2> DEFINE checks == GetNamespaceObjectChecks(local.refs["namespaces"].basis, n)
    <2>1. DOMAIN checks.number = NamespaceKinds
      BY NamespaceCounts
    <2> HIDE DEF checks
    <2>2. c \in NamedChecks(n, {o \in checks.named : o.kind \in NamespaceKinds}) \cup CountChecks(n, checks.number)
      BY DEF CountedChecks, checks
    <2> QED BY <2>1, <2>2 DEF NamedChecks, CountChecks, Followed, LookAtCounted, CountedKinds
  <1>2. ASSUME NEW c \in ClusterGoroutines PROVE LookAtCounted(c)
    <2> DEFINE checks == GetClusterObjectChecks(local.refs["cluster"].basis)
    <2>1. \/ c \in NamedChecks(NoNamespace, {Quota(q, local.tier) : q \in checks.quotas})
          \/ c \in CountChecks(NoNamespace, [ClusterResourceQuota |-> checks.number])
          \/ c = [look |-> "idlers", at |-> NoNamespace, objects |-> {Idler(i, checks.timeout, local.tier) : i \in checks.idlers}]
      BY DEF ClusterGoroutines
    <2> HIDE DEF checks
    <2> QED BY <2>1 DEF NamedChecks, CountChecks, Followed, LookAtCounted, CountedKinds, ClusterKinds, Quota, Idler, Object
  <1> QED BY <1>1, <1>2

(* A check ends passed or failed, and a failure is never taken back.        *)
LEMMA ChecksEnd ==
  ASSUME [Next]_vars
  PROVE  /\ failed => failed'
         /\ \A c \in running : c \in running' \/ failed' \/ Passes(c)
  <1>1. CASE Operators \/ Late \/ UNCHANGED vars
    BY <1>1 DEF Operators, HostRevise, HostSync, HostFinish, MemberStart, MemberDeleteNamespace, MemberCreateNamespace,
       MemberApply, MemberSettle, MemberSettleWrongly, MemberFinish, Late, vars, test
  <1>2. CASE MainStep
    BY <1>2 DEF MainStep, ChangeTier, AwaitRevised, MoveSpaceToTier, Bind, AwaitSpaceRoles, AwaitSpace,
       ListSpaceBindings, AwaitRolesFromBindings, AwaitNSTemplateSet, AwaitTemplateRefs, AwaitNamespace,
       StartClusterChecks, Join, AwaitProvisionedNamespaces, AwaitSpaceNamespaces, NextStep, AwaitFails, Main
  <1>3. CASE CheckPasses \/ CheckFails
    BY <1>3 DEF CheckPasses, CheckFails, CheckEnds
  <1> QED BY <1>1, <1>2, <1>3 DEF Next

LEMMA CheckedStays ==
  ASSUME [Next]_vars, OfKinds(CountedKinds)' = OfKinds(CountedKinds), NEW c, LookAtCounted(c), Checked(c)
  PROVE  Checked(c)'
  <1>1. CASE Passes(c)
    BY <1>1, PassesFrozen DEF Checked
  <1>2. CASE ~Passes(c)
    BY <1>2, ChecksEnd DEF Checked
  <1> QED BY <1>1, <1>2

-----------------------------------------------------------------------------
(* What the main goroutine has read, and the checks it has started.         *)

(* The steps from one point of the verification to the next.                *)
LEMMA VerifyingStep ==
  ASSUME ShapeInv, [Next]_vars, pc' \in Verifying
  PROVE  \/ AwaitTemplateRefs
         \/ /\ pc \in Verifying
            /\ UNCHANGED <<local, space.tier, custom.parts>>
            /\ \/ UNCHANGED <<pc, left>>
               \/ AwaitNamespace
               \/ StartClusterChecks
               \/ pc # "namespaces" /\ pc' # "namespaces" /\ left' = left
  <1>1. CASE Operators
    BY <1>1, OperatorsStep DEF test
  <1>2. CASE MainStep
    <2>1. CASE \/ ChangeTier \/ AwaitRevised \/ MoveSpaceToTier \/ Bind \/ AwaitSpaceRoles \/ AwaitSpace
               \/ ListSpaceBindings \/ AwaitRolesFromBindings \/ AwaitNSTemplateSet \/ NextStep \/ AwaitFails
      BY <2>1 DEF ChangeTier, AwaitRevised, MoveSpaceToTier, Bind, AwaitSpaceRoles, AwaitSpace, ListSpaceBindings,
         AwaitRolesFromBindings, AwaitNSTemplateSet, NextStep, AwaitFails, Main, Goto, Verifying
    <2>2. CASE AwaitNamespace \/ StartClusterChecks \/ Join \/ AwaitProvisionedNamespaces \/ AwaitSpaceNamespaces
      BY <2>2 DEF AwaitNamespace, StartClusterChecks, Join, AwaitProvisionedNamespaces, AwaitSpaceNamespaces, Main,
         Goto, Verifying, cluster
    <2> QED BY <1>2, <2>1, <2>2 DEF MainStep
  <1>3. CASE CheckPasses \/ CheckFails \/ Late \/ UNCHANGED vars
    BY <1>3 DEF CheckPasses, CheckFails, CheckEnds, Late, cluster, vars, test
  <1> QED BY <1>1, <1>2, <1>3 DEF Next

LEMMA LocalStep == ShapeInv /\ TierInv /\ LocalInv /\ [Next]_vars => LocalInv'
  <1> SUFFICES ASSUME ShapeInv, TierInv, LocalInv, [Next]_vars, pc' \in Verifying
               PROVE  LocalInv'
    BY DEF LocalInv, Verifying
  <1>1. CASE AwaitTemplateRefs
    <2>1. /\ pc = "refs" /\ pc' = "namespaces" /\ UNCHANGED <<space, custom>>
          /\ local' = [refs |-> Refs(Tier), tier |-> set.spec.tier, roles |-> set.spec.roles]
      BY <1>1 DEF AwaitTemplateRefs, Main, Goto, cluster
    <2>2. local'.refs = Refs(space.tier) /\ local'.tier = space.tier
      BY <2>1 DEF TierInv
    <2> QED BY <2>1, <2>2, RefsSame DEF LocalInv
  <1>2. ASSUME pc \in Verifying, UNCHANGED <<local, space.tier, custom.parts>>,
               pc' # "namespaces" => left' = {}
        PROVE  LocalInv'
    BY <1>2, RefsSame DEF LocalInv
  <1>3. CASE AwaitNamespace
    BY <1>2, <1>3, VerifyingStep DEF AwaitNamespace, AwaitTemplateRefs, Main, Goto, LocalInv
  <1>4. CASE StartClusterChecks
    BY <1>2, <1>4, VerifyingStep DEF StartClusterChecks, AwaitTemplateRefs, Main, Goto, LocalInv
  <1> QED BY <1>1, <1>2, <1>3, <1>4, VerifyingStep DEF LocalInv

LEMMA CheckedStep ==
  ShapeInv /\ RestInv /\ WorldInv /\ CheckedInv /\ [Next]_vars => CheckedInv'
  <1> SUFFICES ASSUME ShapeInv, RestInv, WorldInv, CheckedInv, [Next]_vars, pc' \in Verifying
               PROVE  CheckedInv'
    BY DEF CheckedInv, Verifying
  <1> DEFINE types == NsTypes(local.refs["namespaces"].basis)
  <1>1. CASE AwaitTemplateRefs
    <2>1. /\ pc' = "namespaces"
          /\ local'.refs = Refs(Tier)
          /\ left' = NsTypes(Parts(Tier)["namespaces"])
      BY <1>1 DEF AwaitTemplateRefs, Main, Goto
    <2>2. local'.refs["namespaces"].basis = Parts(Tier)["namespaces"]
      BY <2>1, Phases DEF Refs, Ref
    <2> QED BY <2>1, <2>2 DEF CheckedInv
  <1>2. ASSUME pc \in Verifying, local' = local, ~AwaitTemplateRefs
        PROVE  CheckedInv'
    <2>1. OfKinds(CountedKinds)' = OfKinds(CountedKinds) /\ journey' = journey
      BY <1>2, Frozen, JourneySame
    <2>2. types' = types
      BY <1>2
    <2>3. ClusterGoroutines' = ClusterGoroutines /\ \A n : CountedChecks(n)' = CountedChecks(n)
      BY <1>2, <2>1 DEF ClusterGoroutines, CountedChecks, NamedChecks, CountChecks, Followed, NamespaceKinds
    <2>4. ASSUME NEW n \in types \ left, NEW c \in CountedChecks(n) PROVE Checked(c)'
      BY <1>2, <2>1, <2>4, CheckedStays, CountedLook DEF CheckedInv
    <2>5. ASSUME pc # "namespaces", NEW c \in ClusterGoroutines PROVE Checked(c)'
      BY <1>2, <2>1, <2>5, CheckedStays, CountedLook DEF CheckedInv
    <2> HIDE DEF types
    <2>6. ASSUME types \ left' \subseteq types \ left, pc' # "namespaces" => pc # "namespaces"
          PROVE  CheckedInv'
      BY <2>2, <2>3, <2>4, <2>5, <2>6 DEF CheckedInv, types
    <2>7. CASE AwaitNamespace
      <3>1. PICK n \in left : left' = left \ {n} /\ running' = running \cup NamespaceGoroutines(n)
        BY <2>7 DEF AwaitNamespace
      <3>2. pc' = "namespaces"
        BY <2>7 DEF AwaitNamespace, Main, Goto
      <3>3. CountedChecks(n) \subseteq NamespaceGoroutines(n)
        BY DEF CountedChecks, NamespaceGoroutines, NamedChecks, Followed
      <3>4. \A c \in CountedChecks(n) : Checked(c)'
        BY <3>1, <3>3 DEF Checked
      <3> QED BY <2>2, <2>3, <2>4, <3>1, <3>2, <3>4 DEF CheckedInv, types
    <2>8. CASE StartClusterChecks
      <3>1. left' = left /\ running' = running \cup ClusterGoroutines
        BY <2>8 DEF StartClusterChecks
      <3>2. \A c \in ClusterGoroutines : Checked(c)'
        BY <3>1 DEF Checked
      <3> QED BY <2>2, <2>3, <2>4, <3>1, <3>2 DEF CheckedInv, types
    <2> QED BY <1>2, <2>6, <2>7, <2>8, VerifyingStep
  <1> QED BY <1>1, <1>2, VerifyingStep

-----------------------------------------------------------------------------
(* The first state: the space is provisioned in its first tier.             *)

LEMMA ImageFinite ==
  ASSUME NEW S, IsFiniteSet(S), NEW f, f = [a \in S |-> f[a]]
  PROVE  IsFiniteSet({f[a] : a \in S})
  <1> DEFINE T == {f[a] : a \in S}
  <1>1. f \in Surjection(S, T)
    BY DEF Surjection
  <1> QED BY <1>1, FS_Surjection

LEMMA TypesFinite == ASSUME NEW tier PROVE IsFiniteSet(NsTypes(tier))
  <1>1. \A x, y : IsFiniteSet({x}) /\ IsFiniteSet({x} \cup {y})
    BY FS_Singleton, FS_Union
  <1>2. NsTypes(tier) \in {{"dev"} \cup {"stage"}, {"tenant"}, {"env"}, {"claw"}, {"dev"}}
    BY Families
  <1> QED BY <1>1, <1>2

(* The templates hold finitely many objects of the counted kinds.           *)
LEMMA WantedFinite ==
  ASSUME NEW p \in Phase, NEW spec
  PROVE  IsFiniteSet({w \in Wanted(p, spec) : w.object.kind \in CountedKinds})
  <1> DEFINE counted == {w \in Wanted(p, spec) : w.object.kind \in CountedKinds}
  <1>1. ASSUME NEW at, NEW objects, IsFiniteSet(objects)
        PROVE  IsFiniteSet({[by |-> p, at |-> at, object |-> o] : o \in objects})
    <2> DEFINE f == [o \in objects |-> [by |-> p, at |-> at, object |-> o]]
    <2>1. IsFiniteSet({f[o] : o \in objects})
      BY <1>1, ImageFinite
    <2>2. {f[o] : o \in objects} = {[by |-> p, at |-> at, object |-> o] : o \in objects}
      OBVIOUS
    <2> QED BY <2>1, <2>2, Zenon
  <1>2. CASE p = "cluster"
    <2> DEFINE checks == GetClusterObjectChecks(spec.refs["cluster"].basis)
               quotas == [q \in checks.quotas |-> Quota(q, spec.tier)]
               idlers == [i \in checks.idlers |-> Idler(i, checks.timeout, spec.tier)]
    <2>1. IsFiniteSet(checks.quotas) /\ IsFiniteSet(checks.idlers)
      BY ClusterCounts DEF Sound
    <2> HIDE DEF checks
    <2>2. IsFiniteSet({quotas[q] : q \in checks.quotas}) /\ IsFiniteSet({idlers[i] : i \in checks.idlers})
      BY <2>1, ImageFinite
    <2>3. ClusterObjects(spec) = {quotas[q] : q \in checks.quotas} \cup {idlers[i] : i \in checks.idlers}
      BY DEF ClusterObjects, checks
    <2>4. IsFiniteSet({quotas[q] : q \in checks.quotas} \cup {idlers[i] : i \in checks.idlers})
      BY <2>2, FS_Union
    <2>5. IsFiniteSet(ClusterObjects(spec))
      BY <2>3, <2>4, Zenon
    <2>6. counted \subseteq {[by |-> p, at |-> NoNamespace, object |-> o] : o \in ClusterObjects(spec)}
      BY <1>2, WantedWhen DEF Place, Followed
    <2>7. IsFiniteSet({[by |-> p, at |-> NoNamespace, object |-> o] : o \in ClusterObjects(spec)})
      BY <2>5, <1>1
    <2> QED BY <2>6, <2>7, FS_Subset
  <1>3. CASE p = "namespaces"
    <2> DEFINE named(n)  == GetNamespaceObjectChecks(spec.refs["namespaces"].basis, n).named
               of(n)     == Named(named(n), "LimitRange") \cup Named(named(n), "NetworkPolicy")
               placed(n) == {[by |-> p, at |-> n, object |-> o] : o \in of(n)}
               all       == {placed(n) : n \in Types(spec)}
    <2>1. \A n : IsFiniteSet(Named(named(n), "LimitRange")) /\ IsFiniteSet(Named(named(n), "NetworkPolicy"))
      BY NamespaceCounts DEF NamespaceKinds
    <2>2. ASSUME NEW n PROVE IsFiniteSet(of(n))
      BY <2>1, FS_Union
    <2> HIDE DEF named
    <2>3. ASSUME NEW n PROVE IsFiniteSet(placed(n))
      BY <2>2, <1>1
    <2>4. IsFiniteSet(all)
      <3> DEFINE f == [n \in Types(spec) |-> placed(n)]
      <3>1. IsFiniteSet(Types(spec))
        BY TypesFinite DEF Types
      <3>2. IsFiniteSet({f[n] : n \in Types(spec)})
        BY <3>1, ImageFinite
      <3>3. {f[n] : n \in Types(spec)} = all
        OBVIOUS
      <3> QED BY <3>2, <3>3, Zenon
    <2>5. IsFiniteSet(UNION all)
      <3>1. \A T \in all : IsFiniteSet(T)
        BY <2>3, Zenon
      <3> HIDE DEF all
      <3> QED BY <3>1, <2>4, FS_UNION
    <2>6. counted \subseteq UNION all
      <3> SUFFICES ASSUME NEW w \in counted PROVE \E n \in Types(spec) : w \in placed(n)
        OBVIOUS
      <3>1. PICK n \in Types(spec) : w \in Place("namespaces", n, named(n))
        BY <1>3, WantedWhen DEF named
      <3>2. w.object \in named(n) /\ w = [by |-> p, at |-> n, object |-> w.object]
        BY <1>3, <3>1, PlacedBy
      <3>3. w.object.kind \in NamespaceKinds
        BY <1>3, WantedPlaced DEF CountedKinds
      <3>4. w.object \in of(n)
        BY <3>2, <3>3 DEF NamespaceKinds, Named
      <3> QED BY <3>2, <3>4
    <2> QED BY <2>5, <2>6, FS_Subset
  <1>4. CASE p = "roles"
    <2>1. counted = {}
      BY <1>4, WantedPlaced, KindsApart
    <2> QED BY <2>1, FS_EmptySet
  <1> QED BY <1>2, <1>3, <1>4 DEF Phase

LEMMA FirstSpec ==
  ASSUME NEW j
  PROVE  /\ Spec0(j).tier = j.tier
         /\ Spec0(j).refs = [p \in Phase |-> Ref(j.tier, j.tier)]
         /\ Types(Spec0(j)) = NsTypes(j.tier)
  BY Phases DEF Spec0, Types, Ref

LEMMA WorldInit == Init => WorldInv
  <1> SUFFICES ASSUME Init PROVE WorldInv
    OBVIOUS
  <1> DEFINE first == Spec0(journey)
  <1>1. world = UNION {Wanted(p, first) : p \in Phase} /\ DOMAIN labels = Types(first)
    BY FirstSpec DEF Init
  <1> HIDE DEF first
  <1>2. \A w \in world : Placed(w)
    BY <1>1, WantedPlaced DEF Placed
  <1> DEFINE counted(p) == {w \in Wanted(p, first) : w.object.kind \in CountedKinds}
  <1>3. \A p \in Phase : IsFiniteSet(counted(p))
    BY WantedFinite
  <1>4. OfKinds(CountedKinds) = (counted("cluster") \cup counted("namespaces")) \cup counted("roles")
    BY <1>1 DEF OfKinds, Phase
  <1>5. IsFiniteSet((counted("cluster") \cup counted("namespaces")) \cup counted("roles"))
    <2>1. IsFiniteSet(counted("cluster")) /\ IsFiniteSet(counted("namespaces")) /\ IsFiniteSet(counted("roles"))
      BY <1>3, Phases
    <2> HIDE DEF counted
    <2>2. IsFiniteSet(counted("cluster") \cup counted("namespaces"))
      BY <2>1, FS_Union
    <2> QED BY <2>1, <2>2, FS_Union
  <1>6. IsFiniteSet(OfKinds(CountedKinds))
    BY <1>4, <1>5, Zenon
  <1> QED BY <1>2, <1>6 DEF WorldInv

LEMMA RestInit == Init => RestInv /\ SyncInv /\ TypesInv
  <1> SUFFICES ASSUME Init PROVE RestInv /\ SyncInv /\ TypesInv
    OBVIOUS
  <1>1. /\ set.spec.refs = [p \in Phase |-> Ref(journey.tier, journey.tier)]
        /\ space.tier = journey.tier /\ journey.tier # "custom"
        /\ set.status["cluster"] = Ref(journey.tier, journey.tier)
        /\ set.status["namespaces"] = Ref(journey.tier, journey.tier)
        /\ DOMAIN labels = Types(set.spec)
    BY FirstSpec, JourneysAssumption, Phases DEF Init, Tiers
  <1>2. set.spec.refs = Refs(space.tier)
    BY <1>1 DEF Refs, Parts
  <1>3. Rested
    BY <1>1, DoneWhen, Phases DEF Rested
  <1> QED BY <1>1, <1>2, <1>3 DEF RestInv, SyncInv, TypesInv

LEMMA FirstIInv == Init => IInv
  <1>1. Init => RunningInv /\ TierInv /\ LocalInv /\ CheckedInv
    BY DEF Init, RunningInv, TierInv, LocalInv, CheckedInv, Verifying
  <1> QED BY <1>1, ShapeInit, WorldInit, RestInit DEF IInv

LEMMA NextIInv == IInv /\ [Next]_vars => IInv'
  BY ShapeStep, RunningStep, TierStep, RestStep, SyncStep, TypesStep, WorldStep, LocalStep, CheckedStep DEF IInv

LEMMA Invariance == Spec => []IInv
  BY FirstIInv, NextIInv, PTL DEF Spec

-----------------------------------------------------------------------------
(* What the checks that passed say of the counted objects.                  *)

(* The objects of a kind in a namespace, or in none.                        *)
Present(at, kind) == {w.object : w \in {v \in world : v.at = at /\ v.object.kind = kind}}

LEMMA PresentFinite ==
  ASSUME WorldInv, NEW at, NEW kind \in CountedKinds
  PROVE  IsFiniteSet(Present(at, kind))
  <1> DEFINE S == {v \in world : v.at = at /\ v.object.kind = kind}
             f == [v \in S |-> v.object]
  <1>1. S \subseteq OfKinds(CountedKinds)
    BY DEF OfKinds
  <1>2. IsFiniteSet(S)
    BY <1>1, FS_Subset DEF WorldInv
  <1>3. f = [v \in S |-> f[v]] /\ {f[v] : v \in S} = Present(at, kind)
    BY DEF Present
  <1> HIDE DEF S, f
  <1>4. IsFiniteSet({f[v] : v \in S})
    BY <1>2, <1>3, ImageFinite
  <1> QED BY <1>3, <1>4, Zenon

(* All of the named ones are there, and no more than were counted.          *)
LEMMA Exactly ==
  ASSUME WorldInv, NEW at, NEW kind \in CountedKinds, NEW named,
         named \subseteq Present(at, kind), Cardinality(Present(at, kind)) = Cardinality(named)
  PROVE  Present(at, kind) = named
  BY PresentFinite, FS_Subset

LEMMA NumberPresent ==
  ASSUME NEW c, NEW kind
  PROVE  Number(c, kind) = Cardinality(Present(c.at, kind))
  <1>1. {o \in At(c) : o.kind = kind} = Present(c.at, kind)
    BY DEF At, Present
  <1> QED BY <1>1, Zenon DEF Number

LEMMA NamespaceExact ==
  ASSUME WorldInv, NEW n, NEW kind \in NamespaceKinds, kind \in journey.kinds, \A c \in CountedChecks(n) : Passes(c)
  PROVE  Present(n, kind) = Named(GetNamespaceObjectChecks(local.refs["namespaces"].basis, n).named, kind)
  <1> DEFINE checks == GetNamespaceObjectChecks(local.refs["namespaces"].basis, n)
  <1>1. DOMAIN checks.number = NamespaceKinds /\ Cardinality(Named(checks.named, kind)) = checks.number[kind]
    BY NamespaceCounts
  <1>2. CountedChecks(n) =
          NamedChecks(n, {o \in checks.named : o.kind \in NamespaceKinds}) \cup CountChecks(n, checks.number)
    BY DEF CountedChecks
  <1> HIDE DEF checks
  <1>3. Named(checks.named, kind) \subseteq Present(n, kind)
    <2> SUFFICES ASSUME NEW o \in Named(checks.named, kind) PROVE o \in Present(n, kind)
      OBVIOUS
    <2> DEFINE c == [look |-> "named", at |-> n, object |-> o]
    <2>1. c \in CountedChecks(n) /\ o.kind = kind
      BY <1>2 DEF NamedChecks, Followed, Named
    <2>2. Matches(c)
      BY <2>1, PassesWhen
    <2> QED BY <2>1, <2>2 DEF Matches, At, Present
  <1>4. Cardinality(Present(n, kind)) = Cardinality(Named(checks.named, kind))
    <2> DEFINE c == [look |-> "number", at |-> n, kind |-> kind, number |-> checks.number[kind]]
    <2>1. c \in CountedChecks(n)
      BY <1>1, <1>2 DEF CountChecks
    <2>2. Passes(c) /\ c.look = "number" /\ c.kind = kind /\ c.number = checks.number[kind] /\ c.at = n
      BY <2>1
    <2> HIDE DEF c
    <2>3. Number(c, kind) = checks.number[kind]
      BY <2>2, PassesWhen
    <2> QED BY <1>1, <2>2, <2>3, NumberPresent
  <1> QED BY <1>3, <1>4, Exactly DEF CountedKinds, checks

LEMMA QuotaCount ==
  ASSUME NEW checks, Sound(checks), NEW tier
  PROVE  Cardinality({Quota(q, tier) : q \in checks.quotas}) = checks.number
  <1> DEFINE S == checks.quotas
             f == [q \in S |-> Quota(q, tier)]
  <1>1. f = [q \in S |-> f[q]] /\ {f[q] : q \in S} = {Quota(q, tier) : q \in S}
    OBVIOUS
  <1>2. \A a, b \in S : f[a] = f[b] => a = b
    BY DEF Sound, NamesApart, Quota, Object
  <1>3. IsFiniteSet(S) /\ Cardinality(S) = checks.number
    BY DEF Sound
  <1> HIDE DEF S, f
  <1>4. Cardinality({f[q] : q \in S}) = checks.number
    BY <1>1, <1>2, <1>3, ImageCount
  <1>5. Cardinality({Quota(q, tier) : q \in S}) = checks.number
    BY <1>1, <1>4, Zenon
  <1> QED BY <1>5 DEF S

LEMMA QuotaExact ==
  ASSUME WorldInv, "ClusterResourceQuota" \in journey.kinds, \A c \in ClusterGoroutines : Passes(c)
  PROVE  Present(NoNamespace, "ClusterResourceQuota")
           = {Quota(q, local.tier) : q \in GetClusterObjectChecks(local.refs["cluster"].basis).quotas}
  <1> DEFINE checks == GetClusterObjectChecks(local.refs["cluster"].basis)
             quotas == {Quota(q, local.tier) : q \in checks.quotas}
             there  == Present(NoNamespace, "ClusterResourceQuota")
  <1>1. Sound(checks)
    BY ClusterCounts
  <1>2. NamedChecks(NoNamespace, quotas) \cup CountChecks(NoNamespace, [ClusterResourceQuota |-> checks.number])
          \subseteq ClusterGoroutines
    BY DEF ClusterGoroutines
  <1> HIDE DEF checks
  <1>4. Cardinality(quotas) = checks.number
    BY <1>1, QuotaCount
  <1>5. quotas \subseteq there
    <2> SUFFICES ASSUME NEW o \in quotas PROVE o \in there
      OBVIOUS
    <2> DEFINE c == [look |-> "named", at |-> NoNamespace, object |-> o]
    <2>1. o.kind = "ClusterResourceQuota"
      BY DEF Quota, Object
    <2>2. c \in ClusterGoroutines
      BY <1>2, <2>1 DEF NamedChecks, Followed
    <2>3. Passes(c) /\ c.look = "named" /\ c.at = NoNamespace /\ c.object = o
      BY <2>2
    <2> HIDE DEF c
    <2>4. Matches(c)
      BY <2>3, PassesWhen
    <2> QED BY <2>1, <2>3, <2>4 DEF Matches, At, Present
  <1>6. Cardinality(there) = Cardinality(quotas)
    <2> DEFINE c == [look |-> "number", at |-> NoNamespace, kind |-> "ClusterResourceQuota", number |-> checks.number]
    <2>1. c \in ClusterGoroutines
      <3> DEFINE numbers == [ClusterResourceQuota |-> checks.number]
      <3>1. "ClusterResourceQuota" \in DOMAIN numbers /\ numbers["ClusterResourceQuota"] = checks.number
        OBVIOUS
      <3>2. CountChecks(NoNamespace, numbers) \subseteq ClusterGoroutines
        BY <1>2
      <3> HIDE DEF numbers
      <3> QED BY <3>1, <3>2 DEF CountChecks
    <2>2. Passes(c) /\ c.look = "number" /\ c.kind = "ClusterResourceQuota" /\ c.number = checks.number /\ c.at = NoNamespace
      BY <2>1
    <2> HIDE DEF c
    <2>3. Number(c, "ClusterResourceQuota") = checks.number
      BY <2>2, PassesWhen
    <2>4. Number(c, "ClusterResourceQuota") = Cardinality(there)
      BY <2>2, NumberPresent
    <2> QED BY <1>4, <2>3, <2>4
  <1>7. "ClusterResourceQuota" \in CountedKinds
    BY DEF CountedKinds, ClusterKinds
  <1> HIDE DEF quotas
  <1>8. there = quotas
    BY <1>5, <1>6, <1>7, Exactly
  <1> QED BY <1>8 DEF quotas, checks

LEMMA IdlerExact ==
  ASSUME WorldInv, "Idler" \in journey.kinds, \A c \in ClusterGoroutines : Passes(c)
  PROVE  LET checks == GetClusterObjectChecks(local.refs["cluster"].basis) IN
         Present(NoNamespace, "Idler") = {Idler(i, checks.timeout, local.tier) : i \in checks.idlers}
  <1> DEFINE checks == GetClusterObjectChecks(local.refs["cluster"].basis)
             idlers == {Idler(i, checks.timeout, local.tier) : i \in checks.idlers}
             c      == [look |-> "idlers", at |-> NoNamespace, objects |-> idlers]
  <1>1. c \in ClusterGoroutines
    BY DEF ClusterGoroutines
  <1>2. \A o \in idlers : o.kind = "Idler"
    BY DEF Idler, Object
  <1>3. Passes(c) /\ c.look = "idlers" /\ c.at = NoNamespace /\ c.objects = idlers
    BY <1>1
  <1> HIDE DEF c, idlers
  <1>4. WaitForIdlers(c) /\ Number(c, "Idler") = Cardinality(idlers)
    BY <1>3, PassesWhen
  <1>5. idlers \subseteq Present(NoNamespace, "Idler")
    BY <1>2, <1>3, <1>4 DEF WaitForIdlers, At, Present
  <1>6. Cardinality(Present(NoNamespace, "Idler")) = Cardinality(idlers)
    BY <1>3, <1>4, NumberPresent
  <1>7. "Idler" \in CountedKinds
    BY DEF CountedKinds, ClusterKinds
  <1>8. Present(NoNamespace, "Idler") = idlers
    BY <1>5, <1>6, <1>7, Exactly
  <1> QED BY <1>8 DEF idlers

(* What the tables want of a kind is what is present, so the phases hold    *)
(* the same objects.                                                        *)
LEMMA PhaseExact ==
  ASSUME WorldInv, NEW p \in {"cluster", "namespaces"}, NEW spec, NEW places, NEW objects,
         p = "cluster" => places = {NoNamespace},
         p = "namespaces" => places = DOMAIN labels,
         Wanted(p, spec) = UNION {Place(p, n, objects[n]) : n \in places},
         \A n \in places : \A kind \in (IF p = "cluster" THEN ClusterKinds ELSE NamespaceKinds) \cap journey.kinds :
           Present(n, kind) = Named(objects[n], kind)
  PROVE  Counted(p, Current(p)) = Counted(p, Wanted(p, spec))
  <1> DEFINE kinds == IF p = "cluster" THEN ClusterKinds ELSE NamespaceKinds
  <1>1. \A placed : Counted(p, placed) = {w \in placed : w.object.kind \in kinds}
    BY DEF Counted, ClusterKinds, NamespaceKinds
  <1>2. ASSUME NEW w \in world, w.by = p, w.object.kind \in kinds
        PROVE  w \in Wanted(p, spec)
    <2>1. Placed(w)
      BY DEF WorldInv
    <2>2. w.at \in places /\ w.object.kind \in kinds \cap journey.kinds
      BY <1>2, <2>1 DEF Placed
    <2>3. w.object \in Present(w.at, w.object.kind)
      BY <1>2 DEF Present
    <2>4. w.object \in objects[w.at]
      BY <2>2, <2>3 DEF Named
    <2>5. w \in Place(p, w.at, objects[w.at])
      BY <1>2, <2>1, <2>2, <2>4 DEF Place, Followed, Placed
    <2> QED BY <2>2, <2>5
  <1>3. ASSUME NEW w \in Wanted(p, spec), w.object.kind \in kinds
        PROVE  w \in world /\ w.by = p
    <2>1. PICK n \in places : w \in Place(p, n, objects[n])
      OBVIOUS
    <2>2. /\ w = [by |-> p, at |-> n, object |-> w.object]
          /\ w.object \in objects[n] /\ w.object.kind \in kinds \cap journey.kinds
      BY <1>3, <2>1, PlacedBy
    <2>3. w.object \in Present(n, w.object.kind)
      BY <2>2 DEF Named
    <2>4. PICK v \in world : v.at = n /\ v.object = w.object
      BY <2>3 DEF Present
    <2>5. Placed(v)
      BY DEF WorldInv
    <2>6. v.by = p
      BY <2>2, <2>4, <2>5, KindsApart DEF Placed, Phase, CountedKinds
    <2> QED BY <2>2, <2>4, <2>5, <2>6 DEF Placed
  <1>4. {w \in Current(p) : w.object.kind \in kinds} = {w \in Wanted(p, spec) : w.object.kind \in kinds}
    BY <1>2, <1>3 DEF Current
  <1> QED BY <1>1, <1>4

(* A verification that ends without a failure has seen exactly the counted  *)
(* objects of the tier that was asked for, for all journeys of a test and   *)
(* however many phases the member operator gets wrong.                      *)
THEOREM VerifiedAreExact == Spec => []VerifiedMeansExact
  <1>1. IInv => VerifiedMeansExact
    <2> SUFFICES ASSUME IInv, pc = "verified", ~failed, NEW p \in {"cluster", "namespaces"}
                 PROVE  Counted(p, Current(p)) = Counted(p, Wanted(p, Asked))
      BY DEF VerifiedMeansExact
    <2> USE DEF IInv
    <2>1. /\ running = {} /\ left = {} /\ Tier = space.tier
          /\ local.refs = Refs(space.tier) /\ local.tier = space.tier
      BY DEF RunningInv, LocalInv, TierInv, Verifying
    <2>2. Asked.refs = local.refs /\ Asked.tier = local.tier
      BY <2>1 DEF Asked
    <2>3. /\ \A n \in NsTypes(local.refs["namespaces"].basis) : \A c \in CountedChecks(n) : Passes(c)
          /\ \A c \in ClusterGoroutines : Passes(c)
      BY <2>1 DEF CheckedInv, Checked, Verifying
    <2>4. CASE p = "cluster"
      <3> DEFINE places  == {NoNamespace}
                 objects == [n \in places |-> ClusterObjects(Asked)]
      <3>1. \A kind \in ClusterKinds \cap journey.kinds : Present(NoNamespace, kind) = Named(ClusterObjects(Asked), kind)
        <4> DEFINE checks == GetClusterObjectChecks(local.refs["cluster"].basis)
                   quotas == {Quota(q, local.tier) : q \in checks.quotas}
                   idlers == {Idler(i, checks.timeout, local.tier) : i \in checks.idlers}
        <4>1. ClusterObjects(Asked) = quotas \cup idlers
          BY <2>2 DEF ClusterObjects
        <4>2. (\A o \in quotas : o.kind = "ClusterResourceQuota") /\ (\A o \in idlers : o.kind = "Idler")
          BY DEF Quota, Idler, Object
        <4>3. "ClusterResourceQuota" \in journey.kinds => Present(NoNamespace, "ClusterResourceQuota") = quotas
          BY <2>3, QuotaExact
        <4>4. "Idler" \in journey.kinds => Present(NoNamespace, "Idler") = idlers
          BY <2>3, IdlerExact
        <4> HIDE DEF quotas, idlers
        <4> QED BY <4>1, <4>2, <4>3, <4>4 DEF ClusterKinds, Named
      <3>2. Wanted("cluster", Asked) = UNION {Place("cluster", n, objects[n]) : n \in places}
        BY WantedWhen
      <3>3. \A n \in places : \A kind \in ClusterKinds \cap journey.kinds : Present(n, kind) = Named(objects[n], kind)
        BY <3>1
      <3>4. places = {NoNamespace}
        OBVIOUS
      <3> HIDE DEF objects, places
      <3> QED BY <2>4, <3>2, <3>3, <3>4, PhaseExact
    <2>5. CASE p = "namespaces"
      <3> DEFINE objects == [n \in DOMAIN labels |-> GetNamespaceObjectChecks(local.refs["namespaces"].basis, n).named]
      <3>1. DOMAIN labels = Types(Asked) /\ Types(Asked) = NsTypes(local.refs["namespaces"].basis)
        BY <2>1, <2>2 DEF RestInv, Rested, TypesInv, Types, Verifying
      <3>2. \A n \in DOMAIN labels : \A kind \in NamespaceKinds \cap journey.kinds : Present(n, kind) = Named(objects[n], kind)
        BY <2>3, <3>1, NamespaceExact
      <3>3. Wanted("namespaces", Asked) = UNION {Place("namespaces", n, objects[n]) : n \in DOMAIN labels}
        BY <2>2, <3>1, WantedWhen
      <3> HIDE DEF objects
      <3> QED BY <2>5, <3>2, <3>3, PhaseExact
    <2> QED BY <2>4, <2>5
  <1> QED BY <1>1, Invariance, PTL

-----------------------------------------------------------------------------
(* The checks that run are those of the refs that were read, and the refs   *)
(* of the spec are those of its tier.                                       *)

LEMMA FaultsStep ==
  ASSUME [Next]_vars, faults \in Nat
  PROVE  /\ faults' \in Nat
         /\ faults' = 0 => faults = 0 /\ ~MemberSettleWrongly
  <1>1. CASE Operators
    BY <1>1 DEF Operators, HostRevise, HostSync, HostFinish, MemberStart, MemberDeleteNamespace, MemberCreateNamespace,
       MemberApply, MemberSettle, MemberSettleWrongly, MemberFinish, cluster
  <1>2. CASE ~Operators
    BY <1>2 DEF Next, MainStep, ChangeTier, AwaitRevised, MoveSpaceToTier, Bind, AwaitSpaceRoles, AwaitSpace,
       ListSpaceBindings, AwaitRolesFromBindings, AwaitNSTemplateSet, AwaitTemplateRefs, AwaitNamespace,
       StartClusterChecks, Join, AwaitProvisionedNamespaces, AwaitSpaceNamespaces, NextStep, AwaitFails, Late,
       CheckPasses, CheckFails, CheckEnds, Main, cluster, vars, Operators
  <1> QED BY <1>1, <1>2

LEMMA SpecChange ==
  ASSUME ShapeInv, [Next]_vars
  PROVE  set'.spec = set.spec \/ (set'.spec = Desired /\ UNCHANGED <<set.status, labels, world, space.tier, custom.parts>>)
  <1>1. CASE HostSync
    BY <1>1 DEF HostSync, ShapeInv
  <1>2. CASE Operators /\ ~HostSync
    BY <1>2 DEF Operators, HostRevise, HostFinish, MemberStart, MemberDeleteNamespace, MemberCreateNamespace,
       MemberApply, MemberSettle, MemberSettleWrongly, MemberFinish, ShapeInv, cluster
  <1>3. CASE ~Operators
    BY <1>3, OthersWorld
  <1> QED BY <1>1, <1>2, <1>3

LEMMA RefsStep == ShapeInv /\ RefsInv /\ [Next]_vars => RefsInv'
  <1> SUFFICES ASSUME ShapeInv, RefsInv, [Next]_vars PROVE RefsInv'
    OBVIOUS
  <1>1. CASE set'.spec = set.spec
    BY <1>1 DEF RefsInv
  <1>2. CASE set'.spec = Desired
    BY <1>2 DEF RefsInv, Desired, Refs, Ref
  <1> QED BY <1>1, <1>2, SpecChange

LEMMA PlacesStep == PlacesInv /\ [Next]_vars => PlacesInv'
  <1> SUFFICES ASSUME PlacesInv, [Next]_vars PROVE PlacesInv'
    OBVIOUS
  <1>1. CASE MemberCreateNamespace
    BY <1>1, NoNamespaceType DEF MemberCreateNamespace, PlacesInv, Types
  <1>2. CASE Operators /\ ~MemberCreateNamespace
    BY <1>2 DEF Operators, HostRevise, HostSync, HostFinish, MemberStart, MemberDeleteNamespace,
       MemberApply, MemberSettle, MemberSettleWrongly, MemberFinish, Labelled, PlacesInv, cluster
  <1>3. CASE ~Operators
    BY <1>3, OthersWorld DEF PlacesInv
  <1> QED BY <1>1, <1>2, <1>3

LEMMA ChecksStep == ShapeInv /\ RunningInv /\ ChecksInv /\ [Next]_vars => ChecksInv'
  <1> SUFFICES ASSUME ShapeInv, RunningInv, ChecksInv, [Next]_vars, pc' \in Verifying PROVE ChecksInv'
    BY DEF ChecksInv, Verifying
  <1>1. CASE AwaitTemplateRefs
    <2>1. /\ pc = "refs" /\ running' = running
          /\ local'.refs = Refs(Tier)
          /\ left' = NsTypes(Parts(Tier)["namespaces"])
      BY <1>1 DEF AwaitTemplateRefs, Main, Goto
    <2>2. local'.refs["namespaces"].basis = Parts(Tier)["namespaces"]
      BY <2>1, Phases DEF Refs, Ref
    <2>3. running = {}
      BY <2>1 DEF RunningInv
    <2> QED BY <2>1, <2>2, <2>3 DEF ChecksInv
  <1>2. ASSUME pc \in Verifying, local' = local, ~AwaitTemplateRefs
        PROVE  ChecksInv'
    <2> DEFINE types == NsTypes(local.refs["namespaces"].basis)
    <2>1. types' = types
      BY <1>2
    <2>2. AllChecks' = AllChecks
      BY <1>2, JourneySame DEF AllChecks, NamespaceGoroutines, ClusterGoroutines, NamedChecks, CountChecks, Followed
    <2>3. running \subseteq AllChecks /\ left \subseteq types
      BY <1>2 DEF ChecksInv
    <2>4. CASE AwaitNamespace
      <3>1. PICK n \in left : left' = left \ {n} /\ running' = running \cup NamespaceGoroutines(n)
        BY <2>4 DEF AwaitNamespace
      <3>2. NamespaceGoroutines(n) \subseteq AllChecks
        BY <2>3, <3>1 DEF AllChecks
      <3> QED BY <2>1, <2>2, <2>3, <3>1, <3>2 DEF ChecksInv
    <2>5. CASE StartClusterChecks
      <3>1. left' = left /\ running' = running \cup ClusterGoroutines
        BY <2>5 DEF StartClusterChecks
      <3>2. ClusterGoroutines \subseteq AllChecks
        BY DEF AllChecks
      <3> QED BY <2>1, <2>2, <2>3, <3>1, <3>2 DEF ChecksInv
    <2>6. CASE ~AwaitNamespace /\ ~StartClusterChecks
      <3>1. running' \subseteq running
        BY <1>2, <2>6 DEF Next, Operators, HostRevise, HostSync, HostFinish, MemberStart, MemberDeleteNamespace,
           MemberCreateNamespace, MemberApply, MemberSettle, MemberSettleWrongly, MemberFinish, MainStep, ChangeTier,
           AwaitRevised, MoveSpaceToTier, Bind, AwaitSpaceRoles, AwaitSpace, ListSpaceBindings, AwaitRolesFromBindings,
           AwaitNSTemplateSet, Join, AwaitProvisionedNamespaces, AwaitSpaceNamespaces, NextStep, AwaitFails,
           Late, CheckPasses, CheckFails, CheckEnds, vars, test
      <3>2. left' = left
        BY <1>2, <2>6, VerifyingStep
      <3> QED BY <2>1, <2>2, <2>3, <3>1, <3>2 DEF ChecksInv
    <2> QED BY <2>4, <2>5, <2>6
  <1> QED BY <1>1, <1>2, VerifyingStep

-----------------------------------------------------------------------------
(* What the member operator reports is there while it gets nothing wrong.   *)

LEMMA WantedSame ==
  ASSUME journey' = journey, NEW p \in {"cluster", "namespaces"},
         set'.spec.refs[p] = set.spec.refs[p], set'.spec.tier = set.spec.tier
  PROVE  Wanted(p, set.spec)' = Wanted(p, set.spec)
  <1>1. CASE p = "cluster"
    <2>1. /\ Wanted("cluster", set.spec) = Place("cluster", NoNamespace, ClusterObjects(set.spec))
          /\ Wanted("cluster", set.spec)' = Place("cluster", NoNamespace, ClusterObjects(set.spec))'
      BY Zenon DEF Wanted
    <2>2. Place("cluster", NoNamespace, ClusterObjects(set.spec))' = Place("cluster", NoNamespace, ClusterObjects(set.spec))
      BY <1>1 DEF Place, Followed, ClusterObjects
    <2> QED BY <1>1, <2>1, <2>2
  <1>2. CASE p = "namespaces"
    <2> DEFINE placed == UNION {Place("namespaces", n, GetNamespaceObjectChecks(set.spec.refs["namespaces"].basis, n).named) :
                                  n \in Types(set.spec)}
    <2>1. Wanted("namespaces", set.spec) = placed /\ Wanted("namespaces", set.spec)' = placed'
      BY Zenon DEF Wanted
    <2>2. placed' = placed
      BY <1>2 DEF Place, Followed, Types
    <2> HIDE DEF placed
    <2> QED BY <1>2, <2>1, <2>2
  <1> QED BY <1>1, <1>2

(* A new spec does not make a phase done that was not.                      *)
LEMMA DoneBefore ==
  ASSUME ShapeInv, SyncInv, RefsInv, [Next]_vars, NEW p \in {"cluster", "namespaces"},
         set'.status[p] = set.status[p], Done(p)'
  PROVE  Done(p) /\ set'.spec.refs[p] = set.spec.refs[p] /\ set'.spec.tier = set.spec.tier
  <1>1. CASE set'.spec = set.spec
    BY <1>1, DoneWhen DEF Done
  <1>2. CASE set'.spec = Desired /\ UNCHANGED set.status
    <2>1. set'.spec.refs = Refs(space.tier)
      BY <1>2 DEF Desired
    <2>2. CASE set.spec.refs = Refs(space.tier)
      <3>1. set'.spec.refs = set.spec.refs
        BY <2>1, <2>2
      <3> QED BY <3>1, RefsStep, DoneWhen DEF RefsInv, Done, Phase
    <2>3. CASE set.spec.refs # Refs(space.tier)
      <3>1. Done(p) /\ set.status[p] = set.spec.refs[p]
        BY <2>3, DoneWhen DEF SyncInv, Rested
      <3>2. set'.status[p] = set'.spec.refs[p]
        BY DoneWhen DEF Done
      <3> QED BY <1>2, <3>1, <3>2, RefsStep DEF RefsInv, Phase
    <2> QED BY <2>2, <2>3
  <1> QED BY <1>1, <1>2, SpecChange

LEMMA CurrentKept ==
  ASSUME WorldInv, PlacesInv, journey.kinds \subseteq CountedKinds, Operators,
         NEW p \in {"cluster", "namespaces"}, Done(p)
  PROVE  Current(p)' = Current(p)
  <1>1. CASE world' = world
    BY <1>1 DEF Current
  <1>2. ASSUME p = "cluster", NEW n \in DOMAIN labels, world' = {w \in world : w.at # n}
        PROVE  Current(p)' = Current(p)
    <2>1. \A w \in Current(p) : w.at # n
      BY <1>2 DEF Current, WorldInv, Placed, PlacesInv
    <2> QED BY <1>2, <2>1 DEF Current
  <1>3. ASSUME NEW q \in Phase, q # p, NEW w \in Current(q), world' = world \ {w}
        PROVE  Current(p)' = Current(p)
    BY <1>3 DEF Current
  <1>4. ASSUME NEW q \in Phase, q # p, q = "namespaces" => DOMAIN labels = Types(set.spec),
               NEW w \in Wanted(q, set.spec), world' = {v \in world : ~Same(v, w)} \cup {w}
        PROVE  Current(p)' = Current(p)
    <2>1. q \in {"cluster", "namespaces"}
      BY WantedPlaced, KindsApart DEF Phase
    <2>2. \A v \in Current(p) : ~Same(v, w)
      BY <1>4, <2>1, WantedPlaced DEF Current, WorldInv, Placed, Same
    <2>3. w.by # p
      BY <1>4, WantedPlaced
    <2> QED BY <1>4, <2>2, <2>3 DEF Current
  <1> QED BY <1>1, <1>2, <1>3, <1>4, OperatorsWorld DEF Turn

(* What the member operator reports is what the templates want.             *)
LEMMA AppliedStep ==
  ASSUME ShapeInv, SyncInv, RefsInv, WorldInv, PlacesInv, [Next]_vars, ~MemberSettleWrongly,
         journey.kinds \subseteq CountedKinds, NEW p \in {"cluster", "namespaces"}, Applied(p)
  PROVE  Applied(p)'
  <1> SUFFICES ASSUME Done(p)' PROVE Current(p)' = Wanted(p, set.spec)'
    BY DEF Applied
  <1>0. journey' = journey
    BY JourneySame
  <1>1. ASSUME set'.status[p] = set.status[p]
        PROVE  Current(p)' = Wanted(p, set.spec)'
    <2>1. Done(p) /\ Wanted(p, set.spec)' = Wanted(p, set.spec)
      BY <1>0, <1>1, DoneBefore, WantedSame
    <2>2. CASE Operators
      BY <2>1, <2>2, CurrentKept DEF Applied
    <2>3. CASE ~Operators
      BY <2>1, <2>3, OthersWorld DEF Applied, Current
    <2> QED BY <2>2, <2>3
  <1>2. ASSUME NEW q \in Phase, Difference(q) = {}, UNCHANGED world, set' = [set EXCEPT !.status = StatusAfter(q)]
        PROVE  Current(p)' = Wanted(p, set.spec)'
    <2>1. set'.spec = set.spec /\ set'.status = StatusAfter(q)
      BY <1>2 DEF ShapeInv
    <2>2. CASE q = p
      <3>1. Current(p) = Wanted(p, set.spec)
        BY <1>2, <2>2 DEF Difference
      <3> QED BY <1>0, <1>2, <2>1, <3>1, WantedSame DEF Current
    <2>3. CASE q # p
      BY <1>1, <2>1, <2>3, StatusReported
    <2> QED BY <2>2, <2>3
  <1>3. CASE MemberSettle
    BY <1>2, <1>3 DEF MemberSettle
  <1>4. CASE Operators /\ ~MemberSettle
    BY <1>1, <1>4 DEF Operators, HostRevise, HostSync, HostFinish, MemberStart, MemberDeleteNamespace,
       MemberCreateNamespace, MemberApply, MemberFinish, ShapeInv, cluster
  <1>5. CASE ~Operators
    BY <1>1, <1>5, OthersWorld
  <1> QED BY <1>3, <1>4, <1>5

LEMMA MarkedStep ==
  ASSUME ShapeInv, SyncInv, RefsInv, [Next]_vars, ~MemberSettleWrongly, Marked
  PROVE  Marked'
  <1> SUFFICES ASSUME Done("namespaces")' PROVE \A n \in DOMAIN labels' : labels'[n] = set'.spec.refs["namespaces"]
    BY DEF Marked
  <1>1. ASSUME set'.status["namespaces"] = set.status["namespaces"], Done("namespaces") => labels' = labels
        PROVE  \A n \in DOMAIN labels' : labels'[n] = set'.spec.refs["namespaces"]
    BY <1>1, DoneBefore DEF Marked
  <1>2. CASE MemberSettle
    <2>1. PICK q \in Phase : /\ set' = [set EXCEPT !.status = StatusAfter(q)]
                             /\ labels' = IF q = "namespaces" THEN Labelled(DOMAIN labels) ELSE labels
      BY <1>2 DEF MemberSettle
    <2>2. set'.spec = set.spec /\ set'.status = StatusAfter(q)
      BY <2>1 DEF ShapeInv
    <2>3. CASE q = "namespaces"
      BY <2>1, <2>2, <2>3 DEF Labelled
    <2>4. CASE q # "namespaces"
      BY <1>1, <2>1, <2>2, <2>4, StatusReported
    <2> QED BY <2>3, <2>4
  <1>3. CASE Operators /\ ~MemberSettle
    BY <1>1, <1>3 DEF Operators, HostRevise, HostSync, HostFinish, MemberStart, MemberDeleteNamespace,
       MemberCreateNamespace, MemberApply, MemberFinish, Turn, ShapeInv, cluster
  <1>4. CASE ~Operators
    BY <1>1, <1>4, OthersWorld
  <1> QED BY <1>2, <1>3, <1>4

(* So every check passes that was started for the refs in the spec.         *)
LEMMA RoleNumbers == ASSUME NEW tier, NEW g PROVE DOMAIN GetSpaceRoleChecks(tier, g).number = {"Role", "RoleBinding"}
  <1>1. \A named, roles, bound : DOMAIN SpaceRoleChecks(named, roles, bound).number = {"Role", "RoleBinding"}
    BY DEF SpaceRoleChecks
  <1>2. \E named, roles, bound : GetSpaceRoleChecks(tier, g) = SpaceRoleChecks(named, roles, bound)
    BY Families, Zenon DEF AppstudioSpaceRoleChecks, AppstudioEnvSpaceRoleChecks, ClawSpaceRoleChecks,
       BaseSpaceRoleChecks
  <1> QED BY <1>1, <1>2

LEMMA PresentInNamespace ==
  ASSUME WorldInv, PlacesInv, Current("namespaces") = Wanted("namespaces", set.spec),
         NEW n \in Types(set.spec), NEW kind \in NamespaceKinds \cap journey.kinds
  PROVE  Present(n, kind) = Named(GetNamespaceObjectChecks(set.spec.refs["namespaces"].basis, n).named, kind)
  <1> DEFINE named(m) == GetNamespaceObjectChecks(set.spec.refs["namespaces"].basis, m).named
  <1>1. Current("namespaces") = UNION {Place("namespaces", m, named(m)) : m \in Types(set.spec)}
    BY WantedWhen
  <1> HIDE DEF named
  <1>2. ASSUME NEW o \in Present(n, kind) PROVE o \in Named(named(n), kind)
    <2>1. PICK v \in world : v.at = n /\ v.object = o /\ o.kind = kind
      BY DEF Present
    <2>2. v.by = "namespaces"
      BY <2>1, KindsApart DEF WorldInv, Placed, Phase, CountedKinds
    <2>3. PICK m \in Types(set.spec) : v \in Place("namespaces", m, named(m))
      BY <1>1, <2>2 DEF Current
    <2>4. m = n /\ o \in named(m)
      BY <2>1, <2>3, PlacedBy
    <2> QED BY <2>1, <2>4 DEF Named
  <1>3. ASSUME NEW o \in Named(named(n), kind) PROVE o \in Present(n, kind)
    <2> DEFINE v == [by |-> "namespaces", at |-> n, object |-> o]
    <2>1. v \in Place("namespaces", n, named(n))
      BY DEF Place, Followed, Named
    <2>2. v \in world
      BY <1>1, <2>1 DEF Current
    <2> QED BY <2>2 DEF Present, Named
  <1>4. Present(n, kind) = Named(named(n), kind)
    BY <1>2, <1>3
  <1> QED BY <1>4 DEF named

LEMMA PresentInCluster ==
  ASSUME WorldInv, PlacesInv, Current("cluster") = Wanted("cluster", set.spec), NEW kind \in ClusterKinds \cap journey.kinds
  PROVE  Present(NoNamespace, kind) = Named(ClusterObjects(set.spec), kind)
  <1>1. Current("cluster") = Place("cluster", NoNamespace, ClusterObjects(set.spec))
    BY WantedWhen
  <1>2. ASSUME NEW o \in Present(NoNamespace, kind) PROVE o \in Named(ClusterObjects(set.spec), kind)
    <2>1. PICK v \in world : v.at = NoNamespace /\ v.object = o /\ o.kind = kind
      BY DEF Present
    <2>2. v.by = "cluster"
      BY <2>1, KindsApart DEF WorldInv, Placed, Phase, CountedKinds
    <2>3. v \in Place("cluster", NoNamespace, ClusterObjects(set.spec))
      BY <1>1, <2>2 DEF Current
    <2> QED BY <2>1, <2>3, PlacedBy DEF Named
  <1>3. ASSUME NEW o \in Named(ClusterObjects(set.spec), kind) PROVE o \in Present(NoNamespace, kind)
    <2> DEFINE v == [by |-> "cluster", at |-> NoNamespace, object |-> o]
    <2>1. v \in Place("cluster", NoNamespace, ClusterObjects(set.spec))
      BY DEF Place, Followed, Named
    <2>2. v \in world
      BY <1>1, <2>1 DEF Current
    <2> QED BY <2>2 DEF Present, Named
  <1> QED BY <1>2, <1>3

LEMMA NamespaceChecksPass ==
  ASSUME WorldInv, PlacesInv, journey.kinds \subseteq CountedKinds,
         Current("namespaces") = Wanted("namespaces", set.spec), set.spec.refs = local.refs,
         NEW n \in NsTypes(local.refs["namespaces"].basis), NEW c \in NamespaceGoroutines(n)
  PROVE  Passes(c)
  <1> DEFINE checks == GetNamespaceObjectChecks(local.refs["namespaces"].basis, n)
             roles  == GetSpaceRoleChecks(local.refs["roles"].basis, ToSet(local.roles))
  <1>1. c \in NamedChecks(n, checks.named) \cup CountChecks(n, checks.number)
              \cup NamedChecks(n, roles.named) \cup CountChecks(n, roles.number)
    BY DEF NamespaceGoroutines
  <1>2. /\ DOMAIN checks.number = NamespaceKinds
        /\ \A k \in NamespaceKinds : Cardinality(Named(checks.named, k)) = checks.number[k]
        /\ \A o \in checks.named : o.kind \notin ClusterKinds
    BY NamespaceCounts
  <1>3. \A k \in NamespaceKinds \cap journey.kinds : Present(n, k) = Named(checks.named, k)
    BY PresentInNamespace DEF Types
  <1>4. /\ DOMAIN roles.number = {"Role", "RoleBinding"}
        /\ \A o \in roles.named : o.kind \in {"Role", "RoleBinding"}
    BY RoleNumbers, RoleKinds
  <1> HIDE DEF checks, roles
  <1>5. NamedChecks(n, roles.named) = {} /\ CountChecks(n, roles.number) = {}
    BY <1>4, KindsApart DEF NamedChecks, CountChecks, Followed
  <1>6. ASSUME c \in NamedChecks(n, checks.named) PROVE Passes(c)
    <2>1. PICK o \in checks.named : o.kind \in journey.kinds /\ c = [look |-> "named", at |-> n, object |-> o]
      BY <1>6 DEF NamedChecks, Followed
    <2>2. o \in Present(n, o.kind)
      BY <1>2, <1>3, <2>1 DEF Named, CountedKinds
    <2>3. c.look = "named" /\ Matches(c)
      BY <2>1, <2>2 DEF Present, Matches, At
    <2> QED BY <2>3, PassesWhen
  <1>7. ASSUME c \in CountChecks(n, checks.number) PROVE Passes(c)
    <2>1. PICK k \in NamespaceKinds \cap journey.kinds :
            c = [look |-> "number", at |-> n, kind |-> k, number |-> checks.number[k]]
      BY <1>2, <1>7 DEF CountChecks
    <2>2. c.look = "number" /\ c.at = n /\ c.kind = k /\ c.number = checks.number[k]
      BY <2>1
    <2>3. Number(c, k) = checks.number[k]
      BY <1>2, <1>3, <2>2, NumberPresent
    <2> QED BY <2>2, <2>3, PassesWhen
  <1> QED BY <1>1, <1>5, <1>6, <1>7

LEMMA ClusterChecksPass ==
  ASSUME WorldInv, PlacesInv, Current("cluster") = Wanted("cluster", set.spec),
         set.spec.refs = local.refs, set.spec.tier = local.tier, NEW c \in ClusterGoroutines
  PROVE  Passes(c)
  <1> DEFINE checks == GetClusterObjectChecks(local.refs["cluster"].basis)
             quotas == {Quota(q, local.tier) : q \in checks.quotas}
             idlers == {Idler(i, checks.timeout, local.tier) : i \in checks.idlers}
             numbers == [ClusterResourceQuota |-> checks.number]
  <1>1. /\ ClusterObjects(set.spec) = quotas \cup idlers
        /\ \A o \in quotas : o.kind = "ClusterResourceQuota"
        /\ \A o \in idlers : o.kind = "Idler"
    BY DEF ClusterObjects, Quota, Idler, Object
  <1>2. Cardinality(quotas) = checks.number
    BY ClusterCounts, QuotaCount
  <1>3. /\ Named(ClusterObjects(set.spec), "ClusterResourceQuota") = quotas
        /\ Named(ClusterObjects(set.spec), "Idler") = idlers
    BY <1>1 DEF Named
  <1>4. /\ "ClusterResourceQuota" \in journey.kinds => Present(NoNamespace, "ClusterResourceQuota") = quotas
        /\ "Idler" \in journey.kinds => Present(NoNamespace, "Idler") = idlers
    BY <1>3, PresentInCluster DEF ClusterKinds
  <1>5. DOMAIN numbers = {"ClusterResourceQuota"} /\ numbers["ClusterResourceQuota"] = checks.number
    OBVIOUS
  <1>6. \/ c \in NamedChecks(NoNamespace, quotas)
        \/ c \in CountChecks(NoNamespace, numbers)
        \/ "Idler" \in journey.kinds /\ c = [look |-> "idlers", at |-> NoNamespace, objects |-> idlers]
    BY DEF ClusterGoroutines
  <1> HIDE DEF checks, quotas, idlers, numbers
  <1>7. CASE c \in NamedChecks(NoNamespace, quotas)
    <2>1. PICK o \in quotas : o.kind \in journey.kinds /\ c = [look |-> "named", at |-> NoNamespace, object |-> o]
      BY <1>7 DEF NamedChecks, Followed
    <2>2. o \in Present(NoNamespace, "ClusterResourceQuota")
      BY <1>1, <1>4, <2>1
    <2>3. c.look = "named" /\ Matches(c)
      BY <2>1, <2>2 DEF Present, Matches, At
    <2> QED BY <2>3, PassesWhen
  <1>8. CASE c \in CountChecks(NoNamespace, numbers)
    <2>1. /\ "ClusterResourceQuota" \in journey.kinds
          /\ c = [look |-> "number", at |-> NoNamespace, kind |-> "ClusterResourceQuota", number |-> checks.number]
      BY <1>5, <1>8 DEF CountChecks
    <2>2. c.look = "number" /\ c.at = NoNamespace /\ c.kind = "ClusterResourceQuota" /\ c.number = checks.number
      BY <2>1
    <2>3. Number(c, "ClusterResourceQuota") = checks.number
      BY <1>2, <1>4, <2>1, <2>2, NumberPresent
    <2> QED BY <2>2, <2>3, PassesWhen
  <1>9. CASE "Idler" \in journey.kinds /\ c = [look |-> "idlers", at |-> NoNamespace, objects |-> idlers]
    <2>1. c.look = "idlers" /\ c.at = NoNamespace /\ c.objects = idlers
      BY <1>9
    <2>2. WaitForIdlers(c)
      BY <1>4, <1>9, <2>1 DEF WaitForIdlers, Present, At
    <2>3. Number(c, "Idler") = Cardinality(idlers)
      BY <1>4, <1>9, <2>1, NumberPresent
    <2> QED BY <2>1, <2>2, <2>3, PassesWhen
  <1> QED BY <1>6, <1>7, <1>8, <1>9

(* A check fails only when it does not pass.                                *)
LEMMA FailsWhen == ASSUME NEW c, c.look \in {"named", "number", "idlers"}, Asserts(c) PROVE ~Passes(c)
  <1>1. /\ c.look = "named" => (Asserts(c) => ~Matches(c))
        /\ c.look = "number" => ~Asserts(c)
        /\ c.look = "idlers" => (Asserts(c) => ~Passes(c))
    BY Zenon DEF Asserts
  <1> QED BY <1>1, PassesWhen

LEMMA Looks == \A c \in AllChecks : c.look \in {"named", "number", "idlers"}
  <1>1. \A at, objects : \A c \in NamedChecks(at, objects) : c.look = "named"
    BY DEF NamedChecks
  <1>2. \A at, number : \A c \in CountChecks(at, number) : c.look = "number"
    BY DEF CountChecks
  <1> QED BY <1>1, <1>2 DEF AllChecks, NamespaceGoroutines, ClusterGoroutines

-----------------------------------------------------------------------------
(* What the waits rely on.                                                  *)

LEMMA EndedStep == ShapeInv /\ EndedInv /\ [Next]_vars => EndedInv'
  <1> SUFFICES ASSUME ShapeInv, EndedInv, [Next]_vars, pc' = "ended" PROVE failed'
    BY DEF EndedInv
  <1>1. CASE Operators
    BY <1>1, OperatorsStep DEF test, EndedInv
  <1>2. CASE MainStep
    BY <1>2 DEF MainStep, ChangeTier, AwaitRevised, MoveSpaceToTier, Bind, AwaitSpaceRoles, AwaitSpace,
       ListSpaceBindings, AwaitRolesFromBindings, AwaitNSTemplateSet, AwaitTemplateRefs, AwaitNamespace,
       StartClusterChecks, Join, AwaitProvisionedNamespaces, AwaitSpaceNamespaces, NextStep, AwaitFails, Main, Goto
  <1>3. CASE CheckPasses \/ CheckFails \/ Late \/ UNCHANGED vars
    BY <1>3 DEF CheckPasses, CheckFails, Late, CheckEnds, vars, test, EndedInv
  <1> QED BY <1>1, <1>2, <1>3 DEF Next

(* The namespaces change only while the set is not provisioned.             *)
LEMMA FinishedStep == ShapeInv /\ FinishedInv /\ [Next]_vars => FinishedInv'
  <1> SUFFICES ASSUME ShapeInv, FinishedInv, [Next]_vars PROVE FinishedInv'
    OBVIOUS
  <1>1. CASE HostRevise \/ HostSync \/ HostFinish \/ MemberStart \/ MemberApply \/ MemberFinish
    BY <1>1 DEF HostRevise, HostSync, HostFinish, MemberStart, MemberApply, MemberFinish, ShapeInv, FinishedInv, cluster
  <1>2. CASE MemberDeleteNamespace \/ MemberCreateNamespace
    BY <1>2 DEF MemberDeleteNamespace, MemberCreateNamespace, Turn, FinishedInv
  <1>3. CASE MemberSettle \/ MemberSettleWrongly
    <2>1. ~set.provisioned /\ set'.provisioned = set.provisioned
      BY <1>3 DEF MemberSettle, MemberSettleWrongly, Turn, ShapeInv
    <2> QED BY <2>1 DEF FinishedInv
  <1>4. CASE ~Operators
    BY <1>4, OthersWorld DEF FinishedInv
  <1> QED BY <1>1, <1>2, <1>3, <1>4 DEF Operators

LEMMA ListedStep == ShapeInv /\ TierInv /\ ListedInv /\ [Next]_vars => ListedInv'
  <1> SUFFICES ASSUME ShapeInv, TierInv, ListedInv, [Next]_vars, pc' = "roles" PROVE ListedInv'
    BY DEF ListedInv
  <1>1. ASSUME UNCHANGED <<bindings, space.tier, custom.parts>>
        PROVE  RolesIn(space.tier)' = RolesIn(space.tier)
    BY <1>1 DEF RolesIn, Parts
  <1>2. CASE Operators
    BY <1>1, <1>2, OperatorsStep DEF test, ListedInv
  <1>3. CASE ListSpaceBindings
    <2>1. /\ pc = "list" /\ UNCHANGED <<bindings, space, custom>>
          /\ local'.expected \in SetToSeqs(RolesIn(Tier))
      BY <1>3 DEF ListSpaceBindings, Main, cluster
    <2>2. Tier = space.tier
      BY <2>1 DEF TierInv
    <2> QED BY <1>1, <2>1, <2>2 DEF ListedInv
  <1>4. CASE MainStep /\ ~ListSpaceBindings
    BY <1>4 DEF MainStep, ChangeTier, AwaitRevised, MoveSpaceToTier, Bind, AwaitSpaceRoles, AwaitSpace,
       AwaitRolesFromBindings, AwaitNSTemplateSet, AwaitTemplateRefs, AwaitNamespace, StartClusterChecks, Join,
       AwaitProvisionedNamespaces, AwaitSpaceNamespaces, NextStep, AwaitFails, Main, Goto
  <1>5. CASE CheckPasses \/ CheckFails \/ Late \/ UNCHANGED vars
    <2>1. UNCHANGED <<pc, local, bindings, space, custom>>
      BY <1>5 DEF CheckPasses, CheckFails, Late, CheckEnds, cluster, vars, test
    <2> QED BY <1>1, <2>1 DEF ListedInv
  <1> QED BY <1>2, <1>3, <1>4, <1>5 DEF Next

(* The steps of a journey.                                                  *)
LEMMA StepsInOrder ==
  ASSUME NEW T, NEW s \in Seq(T), s # <<>>
  PROVE  /\ 1 \in DOMAIN s
         /\ \A i \in DOMAIN s : i < Len(s) => i + 1 \in DOMAIN s
  OBVIOUS

LEMMA JourneyInit == Init => JourneyInv
  <1> SUFFICES ASSUME Init PROVE JourneyInv
    OBVIOUS
  <1>1. /\ journey \in Journeys /\ round = 1 /\ pc = "step" /\ bindings = journey.bindings /\ space.tier = journey.tier
        /\ journey.tier # "custom"
    BY JourneysAssumption DEF Init, Tiers
  <1>2. 1 \in DOMAIN journey.steps
    BY <1>1, JourneysAssumption, StepsInOrder
  <1> QED BY <1>1, <1>2 DEF JourneyInv, BindingsOf, TemplatesOf

(* Tiers and bindings come from the journey.                                *)
LEMMA JourneyStep == ShapeInv /\ TierInv /\ JourneyInv /\ [Next]_vars => JourneyInv'
  <1> SUFFICES ASSUME ShapeInv, TierInv, JourneyInv, [Next]_vars PROVE JourneyInv'
    OBVIOUS
  <1>0. /\ journey' = journey
        /\ StepsThat(journey, {"move"})' = StepsThat(journey, {"move"})
        /\ BindingsOf(journey)' = BindingsOf(journey)
        /\ TemplatesOf(journey)' = TemplatesOf(journey)
    BY JourneySame DEF StepsThat, BindingsOf, TemplatesOf
  <1>1. ASSUME NEW do, Step.do \in do PROVE Step \in StepsThat(journey, do)
    BY <1>1 DEF JourneyInv, Step, StepsThat
  <1>2. ASSUME UNCHANGED <<round, bindings, space.tier, custom.parts>>,
               pc' \in {"revised", "move"} => pc \in {"revised", "move"}
        PROVE  JourneyInv'
    BY <1>0, <1>2 DEF JourneyInv
  <1>3. CASE Operators
    BY <1>2, <1>3, OperatorsStep DEF test
  <1>4. CASE ChangeTier
    <2>1. /\ custom'.parts["roles"] = Step.parts["roles"] /\ Step.do = "tier"
          /\ UNCHANGED <<round, bindings, space>>
      BY <1>4, Phases DEF ChangeTier, ShapeInv, cluster
    <2>2. Step.parts["roles"] \in TemplatesOf(journey)
      BY <1>1, <2>1 DEF TemplatesOf
    <2> QED BY <1>0, <2>1, <2>2 DEF JourneyInv
  <1>5. CASE MoveSpaceToTier
    <2>1. /\ UNCHANGED <<round, bindings, custom>> /\ pc' = "space"
          /\ space'.tier = IF Step.do = "move" THEN Step.tier ELSE "custom"
          /\ pc = "move" \/ Step.do = "move"
      BY <1>5 DEF MoveSpaceToTier, ShapeInv, Goto
    <2>2. CASE Step.do = "move"
      <3>1. Step \in StepsThat(journey, {"move"})
        BY <1>1, <2>2
      <3>2. Step.tier \in Tiers /\ Step.tier \in TemplatesOf(journey)
        BY <3>1, JourneysAssumption DEF JourneyInv, TemplatesOf
      <3> QED BY <1>0, <2>1, <2>2, <3>2 DEF JourneyInv, Tiers
    <2>3. CASE Step.do # "move"
      BY <1>0, <2>1, <2>3 DEF JourneyInv
    <2> QED BY <2>2, <2>3
  <1>6. CASE Bind
    <2>1. /\ bindings' = Step.bindings /\ Step.do \in {"bind", "share"} /\ pc' \notin {"revised", "move"}
          /\ UNCHANGED <<round, space, custom>>
      BY <1>6 DEF Bind, Goto, cluster
    <2>2. Step.bindings \in BindingsOf(journey)
      BY <1>1, <2>1 DEF BindingsOf
    <2> QED BY <1>0, <2>1, <2>2 DEF JourneyInv
  <1>7. CASE NextStep
    <2>1. /\ round < Len(journey.steps) /\ round' = round + 1 /\ pc' = "step"
          /\ UNCHANGED <<bindings, space, custom>>
      BY <1>7 DEF NextStep, Goto, cluster
    <2>2. round + 1 \in DOMAIN journey.steps
      BY <2>1, JourneysAssumption, StepsInOrder DEF JourneyInv
    <2> QED BY <1>0, <2>1, <2>2 DEF JourneyInv
  <1>8. CASE \/ AwaitRevised \/ AwaitSpaceRoles \/ AwaitSpace \/ ListSpaceBindings \/ AwaitRolesFromBindings
             \/ AwaitNSTemplateSet \/ AwaitTemplateRefs \/ AwaitNamespace \/ StartClusterChecks \/ Join
             \/ AwaitProvisionedNamespaces \/ AwaitSpaceNamespaces \/ AwaitFails
    <2>1. UNCHANGED <<round, bindings, space, custom>> /\ (pc' \in {"revised", "move"} => pc \in {"revised", "move"})
      BY <1>8 DEF AwaitRevised, AwaitSpaceRoles, AwaitSpace, ListSpaceBindings, AwaitRolesFromBindings,
         AwaitNSTemplateSet, AwaitTemplateRefs, AwaitNamespace, StartClusterChecks, Join, AwaitProvisionedNamespaces,
         AwaitSpaceNamespaces, AwaitFails, Main, Goto, cluster
    <2> QED BY <1>2, <2>1
  <1>9. CASE CheckPasses \/ CheckFails \/ Late \/ UNCHANGED vars
    <2>1. UNCHANGED <<round, bindings, space, custom, pc>>
      BY <1>9 DEF CheckPasses, CheckFails, Late, CheckEnds, cluster, vars, test
    <2> QED BY <1>2, <2>1
  <1> QED BY <1>3, <1>4, <1>5, <1>6, <1>7, <1>8, <1>9 DEF Next, MainStep

-----------------------------------------------------------------------------
(* The roles that bindings give, in order.                                  *)

LEMMA RolesKnown ==
  ASSUME NEW tier
  PROVE  /\ KnownRoles(tier) \subseteq {"admin", "maintainer", "viewer", "contributor"}
         /\ IsFiniteSet(KnownRoles(tier))
  <1> DEFINE all == ({"admin"} \cup {"maintainer"}) \cup ({"viewer"} \cup {"contributor"})
  <1>1. KnownRoles(tier) \subseteq all
    BY DEF KnownRoles
  <1>2. \A x, y : IsFiniteSet({x} \cup {y})
    BY FS_Singleton, FS_Union
  <1>3. IsFiniteSet(all)
    BY <1>2, FS_Union
  <1> QED BY <1>1, <1>3, FS_Subset

LEMMA RolesOfBindings ==
  ASSUME NEW all, NEW basis
  PROVE  /\ IsFiniteSet(FromBindings(all, basis))
         /\ \A r \in FromBindings(all, basis) : r.role \in {"admin", "maintainer", "viewer", "contributor"}
  <1> DEFINE roles == {b.role : b \in all} \cap KnownRoles(basis)
             f     == [r \in roles |-> [role |-> r, users |-> {b.user : b \in {c \in all : c.role = r}}]]
  <1>1. IsFiniteSet(roles)
    BY RolesKnown, FS_Subset
  <1>2. f = [r \in roles |-> f[r]] /\ {f[r] : r \in roles} = FromBindings(all, basis)
    BY DEF FromBindings
  <1> HIDE DEF roles, f
  <1>3. IsFiniteSet({f[r] : r \in roles})
    BY <1>1, <1>2, ImageFinite
  <1>4. IsFiniteSet(FromBindings(all, basis))
    BY <1>2, <1>3, Zenon
  <1>5. \A r \in FromBindings(all, basis) : r.role \in KnownRoles(basis)
    BY DEF FromBindings
  <1> QED BY <1>4, <1>5, RolesKnown

(* One role has one order.                                                  *)
LEMMA OneOrder ==
  ASSUME NEW S, IsFiniteSet(S), Cardinality(S) = 1, NEW s \in SetToSeqs(S),
         \A r \in S : r.role \in {"admin", "maintainer", "viewer", "contributor"}
  PROVE  s = InOrder(S)
  <1>1. PICK x : S = {x}
    BY FS_Singleton
  <1>2. s \in [1..1 -> {x}]
    BY <1>1 DEF SetToSeqs
  <1>3. Rank[x.role] \in Nat
    BY <1>1 DEF Rank
  <1>4. {q \in S : Rank[q.role] < Rank[x.role]} = {}
    BY <1>1, <1>3
  <1>5. Cardinality({q \in S : Rank[q.role] < Rank[x.role]}) = 0
    BY <1>4, FS_EmptySet, Zenon
  <1>6. (CHOOSE r \in S : Cardinality({q \in S : Rank[q.role] < Rank[r.role]}) = 0) = x
    BY <1>1, <1>5
  <1>7. InOrder(S) = [i \in 1..1 |-> x]
    <2>1. ASSUME NEW i \in 1..1
          PROVE  (CHOOSE r \in S : Cardinality({q \in S : Rank[q.role] < Rank[r.role]}) = i - 1) = x
      <3>1. i - 1 = 0
        OBVIOUS
      <3> QED BY <1>6, <3>1, Zenon
    <2> QED BY <2>1 DEF InOrder
  <1> QED BY <1>2, <1>7

(* Roles are listed when there is one.                                      *)
LEMMA AnyOrder ==
  ASSUME NEW S, IsFiniteSet(S), S # {}
  PROVE  InOrder(S) # <<>>
  <1>1. Cardinality(S) \in Nat /\ Cardinality(S) # 0
    BY FS_EmptySet, FS_CardinalityType
  <1>2. DOMAIN InOrder(S) = 1..Cardinality(S)
    BY DEF InOrder
  <1>3. 1 \in DOMAIN InOrder(S)
    BY <1>1, <1>2
  <1> QED BY <1>3

-----------------------------------------------------------------------------
(* With operators that get nothing wrong and are in time.                   *)

LEMMA ReportedIsThere ==
  ASSUME IInv, CleanInv, journey.kinds \subseteq CountedKinds, faults = 0, pc \in Verifying
  PROVE  /\ set.spec.refs = local.refs /\ set.spec.tier = local.tier
         /\ DOMAIN labels = NsTypes(local.refs["namespaces"].basis)
         /\ \A n \in DOMAIN labels : labels[n] = local.refs["namespaces"]
         /\ Current("cluster") = Wanted("cluster", set.spec)
         /\ Current("namespaces") = Wanted("namespaces", set.spec)
  <1> USE DEF IInv
  <1>1. Done("cluster") /\ Done("namespaces")
    BY DEF RestInv, Rested
  <1>2. set.spec.refs = local.refs /\ set.spec.tier = local.tier
    BY DEF RestInv, TierInv, LocalInv
  <1> QED BY <1>1, <1>2 DEF TypesInv, Types, CleanInv, Applied, Marked

(* No check fails.                                                          *)
LEMMA ChecksPass ==
  ASSUME AlarmInv, journey.kinds \subseteq CountedKinds, faults = 0, ~failed
  PROVE  ~CheckFails
  <1> USE DEF AlarmInv, IInv
  <1> SUFFICES ASSUME NEW c \in running, Asserts(c) \/ ~Passes(c) PROVE FALSE
    BY DEF CheckFails
  <1>1. pc \in Verifying
    BY DEF RunningInv, EndedInv, Verifying
  <1>2. c \in AllChecks
    BY <1>1 DEF ChecksInv
  <1>3. ASSUME c \in ClusterGoroutines PROVE Passes(c)
    BY <1>1, <1>3, ReportedIsThere, ClusterChecksPass
  <1>4. ASSUME NEW n \in NsTypes(local.refs["namespaces"].basis), c \in NamespaceGoroutines(n) PROVE Passes(c)
    BY <1>1, <1>4, ReportedIsThere, NamespaceChecksPass
  <1>5. Passes(c)
    BY <1>2, <1>3, <1>4 DEF AllChecks
  <1> QED BY <1>2, <1>5, Looks, FailsWhen

(* What the criteria of the waits come to.                                  *)
LEMMA SetCriteria ==
  /\ \A tier, roles : WaitForNSTmplSet([tier |-> tier, roles |-> roles]) <=> set.spec.tier = tier /\ set.spec.roles = roles
  /\ \A tier : set.spec.tier = tier /\ set.provisioned = TRUE => WaitForNSTmplSet([tier |-> tier, provisioned |-> TRUE])
  /\ \A roles : set.provisioned = TRUE /\ set.spec.roles = roles => WaitForNSTmplSet([provisioned |-> TRUE, roles |-> roles])
  /\ set.spec.roles # <<>> => WaitForNSTmplSet([anyRoles |-> TRUE])
  /\ WaitForNSTmplSet([namespaces |-> set.namespaces])
  <1> DEFINE there == NSTemplateSetCriteria
  <1>1. /\ there.tier = set.spec.tier /\ there.provisioned = set.provisioned /\ there.roles = set.spec.roles
        /\ there.anyRoles = (set.spec.roles # <<>>) /\ there.namespaces = set.namespaces
    BY DEF NSTemplateSetCriteria
  <1> HIDE DEF there
  <1>2. \A criteria : WaitForNSTmplSet(criteria) <=> \A c \in DOMAIN criteria : there[c] = criteria[c]
    BY DEF WaitForNSTmplSet, there
  <1>3. ASSUME NEW tier, NEW roles
        PROVE  WaitForNSTmplSet([tier |-> tier, roles |-> roles]) <=> set.spec.tier = tier /\ set.spec.roles = roles
    <2> DEFINE criteria == [tier |-> tier, roles |-> roles]
    <2>1. DOMAIN criteria = {"tier", "roles"} /\ criteria["tier"] = tier /\ criteria["roles"] = roles
      OBVIOUS
    <2> HIDE DEF criteria
    <2>2. WaitForNSTmplSet(criteria) <=> set.spec.tier = tier /\ set.spec.roles = roles
      BY <1>1, <1>2, <2>1
    <2> QED BY <2>2 DEF criteria
  <1>4. ASSUME NEW tier, set.spec.tier = tier, set.provisioned = TRUE
        PROVE  WaitForNSTmplSet([tier |-> tier, provisioned |-> TRUE])
    <2> DEFINE criteria == [tier |-> tier, provisioned |-> TRUE]
    <2>1. DOMAIN criteria = {"tier", "provisioned"} /\ criteria["tier"] = tier /\ criteria["provisioned"] = TRUE
      OBVIOUS
    <2> HIDE DEF criteria
    <2>2. WaitForNSTmplSet(criteria)
      BY <1>1, <1>2, <1>4, <2>1
    <2> QED BY <2>2 DEF criteria
  <1>5. ASSUME NEW roles, set.provisioned = TRUE, set.spec.roles = roles
        PROVE  WaitForNSTmplSet([provisioned |-> TRUE, roles |-> roles])
    <2> DEFINE criteria == [provisioned |-> TRUE, roles |-> roles]
    <2>1. DOMAIN criteria = {"provisioned", "roles"} /\ criteria["provisioned"] = TRUE /\ criteria["roles"] = roles
      OBVIOUS
    <2> HIDE DEF criteria
    <2>2. WaitForNSTmplSet(criteria)
      BY <1>1, <1>2, <1>5, <2>1
    <2> QED BY <2>2 DEF criteria
  <1>6. ASSUME set.spec.roles # <<>> PROVE WaitForNSTmplSet([anyRoles |-> TRUE])
    <2> DEFINE criteria == [anyRoles |-> TRUE]
    <2>1. DOMAIN criteria = {"anyRoles"} /\ criteria["anyRoles"] = TRUE
      OBVIOUS
    <2> HIDE DEF criteria
    <2>2. there.anyRoles = TRUE
      BY <1>1, <1>6
    <2>3. WaitForNSTmplSet(criteria)
      BY <1>2, <2>1, <2>2
    <2> QED BY <2>3 DEF criteria
  <1>7. WaitForNSTmplSet([namespaces |-> set.namespaces])
    BY <1>1, <1>2
  <1> QED BY <1>3, <1>4, <1>5, <1>6, <1>7

LEMMA SpaceCriteria ==
  /\ \A tier, hash : space.tier = tier /\ space.hash = hash /\ space.provisioned = TRUE
                       => WaitForSpace([tier |-> tier, hash |-> hash, provisioned |-> TRUE])
  /\ \A tier : space.tier = tier /\ space.provisioned = TRUE => WaitForSpace([tier |-> tier, provisioned |-> TRUE])
  /\ WaitForSpace([namespaces |-> space.namespaces])
  <1>1. ASSUME NEW tier, NEW hash, space.tier = tier, space.hash = hash, space.provisioned = TRUE
        PROVE  WaitForSpace([tier |-> tier, hash |-> hash, provisioned |-> TRUE])
    <2> DEFINE criteria == [tier |-> tier, hash |-> hash, provisioned |-> TRUE]
    <2>1. /\ DOMAIN criteria = {"tier", "hash", "provisioned"}
          /\ criteria["tier"] = tier /\ criteria["hash"] = hash /\ criteria["provisioned"] = TRUE
      OBVIOUS
    <2> HIDE DEF criteria
    <2>2. WaitForSpace(criteria)
      BY <1>1, <2>1 DEF WaitForSpace
    <2> QED BY <2>2 DEF criteria
  <1>2. ASSUME NEW tier, space.tier = tier, space.provisioned = TRUE
        PROVE  WaitForSpace([tier |-> tier, provisioned |-> TRUE])
    <2> DEFINE criteria == [tier |-> tier, provisioned |-> TRUE]
    <2>1. DOMAIN criteria = {"tier", "provisioned"} /\ criteria["tier"] = tier /\ criteria["provisioned"] = TRUE
      OBVIOUS
    <2> HIDE DEF criteria
    <2>2. WaitForSpace(criteria)
      BY <1>2, <2>1 DEF WaitForSpace
    <2> QED BY <2>2 DEF criteria
  <1>3. WaitForSpace([namespaces |-> space.namespaces])
    BY DEF WaitForSpace
  <1> QED BY <1>1, <1>2, <1>3

(* When nothing is left to do, every wait holds but one: the roles may be   *)
(* listed in another order.                                                 *)
LEMMA WaitsHold ==
  ASSUME AlarmInv, journey.kinds \subseteq CountedKinds, faults = 0, AwaitFails
  PROVE  Misordered
  <1> USE DEF AlarmInv, IInv
  <1>1. Unanswered /\ Quiet
    BY DEF AwaitFails, TimedOut
  <1>2. /\ Revised("custom") /\ set.spec = Desired /\ set.provisioned /\ space = Outcome
        /\ Done("cluster") /\ Done("namespaces")
    BY <1>1, Phases DEF Quiet, HostIdle, Settled
  <1>3. /\ set.spec.tier = space.tier /\ set.spec.refs = Refs(space.tier)
        /\ set.spec.roles = InOrder(RolesIn(space.tier))
    BY <1>2 DEF Desired
  <1>4. /\ space.hash = Hash(space.tier) /\ space.provisioned = TRUE /\ space.namespaces = set.namespaces
        /\ set.provisioned = TRUE
    BY <1>2 DEF Outcome
  <1>5. pc = "bound" => Bound
    BY <1>3, <1>4, SetCriteria DEF Bound
  <1>6. pc = "space" => SpaceThere
    BY <1>4, SpaceCriteria DEF SpaceThere, TierInv
  <1>7. pc = "set" => SetThere
    BY <1>3, <1>4, SetCriteria DEF SetThere, TierInv
  <1>8. pc = "refs" => RefsThere
    <2> SUFFICES ASSUME pc = "refs" PROVE RefsThere
      OBVIOUS
    <2>1. Tier = space.tier
      BY DEF TierInv
    <2>2. ASSUME journey.inherits PROVE set.spec.roles # <<>>
      <3>1. Parts(space.tier)["roles"] \in TemplatesOf(journey)
        BY Phases DEF JourneyInv, Parts
      <3>2. PICK one \in bindings : one.role \in KnownRoles(Parts(space.tier)["roles"])
        BY <2>2, <3>1, JourneysAssumption DEF JourneyInv
      <3> DEFINE basis == Parts(space.tier)["roles"]
                 roles == {b.role : b \in bindings} \cap KnownRoles(basis)
                 f(r)  == [role |-> r, users |-> {b.user : b \in {c \in bindings : c.role = r}}]
      <3>3. one.role \in roles
        BY <3>2
      <3>4. RolesIn(space.tier) # {}
        <4>1. RolesIn(space.tier) = {f(r) : r \in roles}
          BY DEF RolesIn, FromBindings
        <4> HIDE DEF roles, f
        <4> QED BY <3>3, <4>1
      <3>5. IsFiniteSet(RolesIn(space.tier))
        BY RolesOfBindings DEF RolesIn
      <3> QED BY <1>3, <3>4, <3>5, AnyOrder
    <2>3. journey.inherits => WaitForNSTmplSet([anyRoles |-> TRUE])
      BY <2>2, SetCriteria
    <2> QED BY <1>2, <1>3, <2>1, <2>3, DoneWhen DEF RefsThere, Revised, HasTemplateRefs, HasStatusTemplateRefs
  <1>9. ASSUME pc \in Verifying
        PROVE  /\ \A n \in left : WaitForNamespace(n)
               /\ SetNamespaces
               /\ SpaceNamespaces
    <2>1. /\ DOMAIN labels = GetExpectedProvisionedNamespaces
          /\ \A n \in DOMAIN labels : labels[n] = local.refs["namespaces"]
      BY <1>9, ReportedIsThere DEF GetExpectedProvisionedNamespaces
    <2>2. \A n \in left : WaitForNamespace(n)
      BY <1>9, <2>1 DEF ChecksInv, WaitForNamespace, GetExpectedProvisionedNamespaces
    <2>3. set.namespaces = GetExpectedProvisionedNamespaces
      BY <1>2, <2>1 DEF FinishedInv
    <2>4. GetExpectedProvisionedNamespaces # {}
      BY Families DEF GetExpectedProvisionedNamespaces
    <2>5. SetNamespaces
      BY <2>3, SetCriteria DEF SetNamespaces
    <2>6. SpaceNamespaces
      BY <1>4, <1>9, <2>3, <2>4, SpaceCriteria DEF SpaceNamespaces, TierInv
    <2> QED BY <2>2, <2>5, <2>6
  <1>10. pc = "roles" /\ ~RolesAsListed
    BY <1>1, <1>2, <1>5, <1>6, <1>7, <1>8, <1>9 DEF Unanswered, Verifying
  <1>11. local.expected \in SetToSeqs(RolesIn(space.tier))
    BY <1>10 DEF ListedInv
  <1>12. local.expected # set.spec.roles
    BY <1>3, <1>10, SetCriteria DEF RolesAsListed, TierInv
  <1>13. Cardinality(RolesIn(space.tier)) # 1
    BY <1>3, <1>11, <1>12, RolesOfBindings, OneOrder DEF RolesIn
  <1> QED BY <1>2, <1>10, <1>11, <1>12, <1>13 DEF Misordered

LEMMA CleanStep == AlarmInv /\ [Next]_vars => CleanInv'
  <1> SUFFICES ASSUME AlarmInv, [Next]_vars, journey'.kinds \subseteq CountedKinds, faults' = 0
               PROVE  Applied("cluster")' /\ Applied("namespaces")' /\ Marked'
    BY DEF CleanInv, CountedKinds, ClusterKinds, NamespaceKinds
  <1>1. journey.kinds \subseteq CountedKinds /\ faults = 0 /\ ~MemberSettleWrongly
    BY JourneySame, FaultsStep DEF AlarmInv
  <1>2. Applied("cluster") /\ Applied("namespaces") /\ Marked
    BY <1>1 DEF AlarmInv, CleanInv
  <1> QED BY <1>1, <1>2, AppliedStep, MarkedStep DEF AlarmInv, IInv

LEMMA AlarmInit == Init => RefsInv /\ PlacesInv /\ ChecksInv /\ CleanInv /\ EndedInv /\ FinishedInv /\ ListedInv
  <1> SUFFICES ASSUME Init PROVE RefsInv /\ PlacesInv /\ ChecksInv /\ CleanInv /\ EndedInv /\ FinishedInv /\ ListedInv
    OBVIOUS
  <1> DEFINE first == Spec0(journey)
  <1>1. /\ set.spec = first /\ world = UNION {Wanted(p, first) : p \in Phase}
        /\ labels = [n \in NsTypes(journey.tier) |-> Ref(journey.tier, journey.tier)]
        /\ pc = "step" /\ running = {} /\ set.namespaces = NsTypes(journey.tier)
    BY DEF Init
  <1>2. first.tier = journey.tier /\ first.refs = [p \in Phase |-> Ref(journey.tier, journey.tier)]
    BY FirstSpec
  <1> HIDE DEF first
  <1>3. RefsInv
    BY <1>1, <1>2 DEF RefsInv, Ref
  <1>4. PlacesInv
    BY <1>1, NoNamespaceType DEF PlacesInv
  <1>5. \A p \in Phase : Current(p) = Wanted(p, set.spec)
    BY <1>1, WantedPlaced DEF Current
  <1>6. Marked
    BY <1>1, <1>2, Phases DEF Marked
  <1>7. EndedInv /\ FinishedInv /\ ListedInv
    BY <1>1 DEF EndedInv, FinishedInv, ListedInv
  <1> QED BY <1>1, <1>3, <1>4, <1>5, <1>6, <1>7, Phases DEF ChecksInv, CleanInv, Applied, Verifying

LEMMA AlarmInvariance == Spec => []AlarmInv
  <1>1. Init => AlarmInv
    <2>1. Init => faults \in Nat
      BY DEF Init
    <2>2. Init => IInv
      BY FirstIInv
    <2> QED BY <2>1, <2>2, AlarmInit, JourneyInit DEF AlarmInv
  <1>2. AlarmInv /\ [Next]_vars => AlarmInv'
    <2> SUFFICES ASSUME AlarmInv, [Next]_vars PROVE AlarmInv'
      OBVIOUS
    <2>1. IInv'
      BY NextIInv DEF AlarmInv
    <2>2. faults' \in Nat /\ RefsInv' /\ PlacesInv' /\ ChecksInv'
      BY FaultsStep, RefsStep, PlacesStep, ChecksStep DEF AlarmInv, IInv
    <2>3. EndedInv' /\ FinishedInv' /\ ListedInv' /\ JourneyInv'
      BY EndedStep, FinishedStep, ListedStep, JourneyStep DEF AlarmInv, IInv
    <2> QED BY <2>1, <2>2, <2>3, CleanStep DEF AlarmInv
  <1> QED BY <1>1, <1>2, PTL DEF Spec

(* The checks of the quotas, the idlers, the limit ranges and the network   *)
(* policies, and the waits before them, fail only when an operator got      *)
(* something wrong or was too late, or when the wait for the roles of a     *)
(* shared space lists several of them in another order than the host        *)
(* operator; for all journeys of a test in which only these kinds are       *)
(* followed.                                                                *)
THEOREM CountedChecksTellTruth == Spec /\ [](journey.kinds \subseteq CountedKinds) => NoFalseAlarm
  <1> DEFINE counted == journey.kinds \subseteq CountedKinds
             alarm   == failed' /\ ~failed => faults > 0 \/ Misordered
  <1>1. AlarmInv /\ counted /\ [Next]_vars => [alarm]_vars
    <2> SUFFICES ASSUME AlarmInv, counted, Next, failed', ~failed, ~(faults > 0)
                 PROVE  Misordered
      OBVIOUS
    <2>1. faults = 0
      BY DEF AlarmInv
    <2>2. CheckFails \/ AwaitFails
      <3>1. ~Operators
        BY OperatorsStep DEF test, AlarmInv, IInv
      <3> QED BY <3>1 DEF Next, MainStep, ChangeTier, AwaitRevised, MoveSpaceToTier, Bind, AwaitSpaceRoles, AwaitSpace,
             ListSpaceBindings, AwaitRolesFromBindings, AwaitNSTemplateSet, AwaitTemplateRefs, AwaitNamespace,
             StartClusterChecks, Join, AwaitProvisionedNamespaces, AwaitSpaceNamespaces, NextStep, Late, CheckPasses,
             Main, test
    <2> QED BY <2>1, <2>2, ChecksPass, WaitsHold
  <1> QED BY <1>1, AlarmInvariance, PTL DEF Spec, NoFalseAlarm
=============================================================================
