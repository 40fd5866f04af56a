---------------------------- MODULE TierCatalogue ----------------------------
(***************************************************************************)
(* What the tier checks of testsupport/tiers/checks.go expect of a space:  *)
(* for every built-in tier the objects a check names, with their contents, *)
(* and the numbers of objects its counting checks expect.  There is no     *)
(* state here; TierChecks gives the checks their behaviour.                *)
(*                                                                         *)
(* An object is a kind, a name (a tuple: the base name and, when a user    *)
(* owns it, the user) and a content (a tuple of the values a check         *)
(* compares).  Long rule lists are abstracted to the name of the rule set. *)
(***************************************************************************)
EXTENDS Integers, FiniteSets, Sequences

Object(kind, name, content) == [kind |-> kind, name |-> name, content |-> content]

-----------------------------------------------------------------------------
(* Resource quotas and limit ranges of a namespace.                        *)

Gpu == <<"gpu 0", "gpu 0">>

\* The quota's scope is a part of what the check compares.
ComputeDeploy(hard, extra) == Object("ResourceQuota", <<"compute-deploy">>, <<"NotTerminating">> \o hard \o extra)
ComputeDeployNoScope(hard) == Object("ResourceQuota", <<"compute-deploy">>, hard)
ComputeBuild(hard, extra)  == Object("ResourceQuota", <<"compute-build">>, <<"Terminating">> \o hard \o extra)
Storage(hard)              == Object("ResourceQuota", <<"storage">>, hard)
SpaceRequests              == Object("ResourceQuota", <<"compute-spacerequests">>, <<"1">>)
CrdQuota(name, hard)       == Object("ResourceQuota", <<name>>, hard)
LimitRange(def)            == Object("LimitRange", <<"resource-limits">>, def)

\* The quotas on custom resources of the appstudio tiers, from toolchain-crds to appstudio-crds-spi.
AppstudioCrdQuotas ==
  { CrdQuota("toolchain-crds", <<"32">>),
    CrdQuota("appstudio-crds", <<"512", "512", "512">>),
    CrdQuota("appstudio-crds-build", <<"512">>),
    CrdQuota("appstudio-crds-gitops", <<"512", "512", "32", "32", "32">>),
    CrdQuota("appstudio-crds-integration", <<"512", "1024", "512">>),
    CrdQuota("appstudio-crds-release", <<"512", "512", "512", "512", "512">>),
    CrdQuota("appstudio-crds-enterprisecontract", <<"512">>),
    CrdQuota("appstudio-crds-spi", <<"512", "512", "512", "512", "512">>) }

-----------------------------------------------------------------------------
(* Network policies: whom they let in.                                     *)

NetworkPolicy(name, from) == Object("NetworkPolicy", <<name>>, from)

SameNamespace   == NetworkPolicy("allow-same-namespace", <<"own pods">>)
FromIngress     == NetworkPolicy("allow-from-openshift-ingress", <<"ingress">>)
FromMonitoring  == NetworkPolicy("allow-from-openshift-monitoring", <<"monitoring">>)
FromOlm         == NetworkPolicy("allow-from-olm-namespaces", <<"anyuid">>)
FromConsole     == NetworkPolicy("allow-from-console-namespaces", <<"console">>)
FromDevSandbox  == NetworkPolicy("allow-from-dev-sandbox-managed-ns", <<"ingress">>)
FromCRW         == NetworkPolicy("allow-from-codeready-workspaces-operator", <<"codeready-workspaces">>)
FromModelMesh   == NetworkPolicy("allow-from-redhat-ods-app-to-mm", <<"redhat-ods-applications">>)
FromMariaDB     == NetworkPolicy("allow-from-redhat-ods-app-to-mariadb", <<"redhat-ods-applications", "3306">>)
FromVirtualization == NetworkPolicy("allow-from-openshift-virtualization-namespaces",
                                    <<"openshift-virtualization-os-images", "openshift-cnv">>)
FromOtherNamespace(other) == NetworkPolicy("allow-from-other-user-namespaces", <<other>>)

CommonNetworkPolicies ==
  {SameNamespace, FromMonitoring, FromIngress, FromOlm, FromConsole, FromDevSandbox}

-----------------------------------------------------------------------------
(* Roles and role bindings: the content of a role is the name of its rule  *)
(* set, the content of a binding is whom it binds to which role.           *)

Role(name) == Object("Role", <<name>>, <<name>>)
RoleBinding(name, subject, roleKind, role) == Object("RoleBinding", name, <<subject, roleKind, role>>)

ExecPodsRole       == Role("exec-pods")
CrtadminPods       == RoleBinding(<<"crtadmin-pods">>, "crtadmin-users-view", "Role", "exec-pods")
CrtadminView       == RoleBinding(<<"crtadmin-view">>, "crtadmin-users-view", "ClusterRole", "view")
Sandbox            == {ExecPodsRole, CrtadminPods, CrtadminView}

RbacEditRole       == Role("rbac-edit")
RbacEditBinding(u) == RoleBinding(<<"rbac-edit", u>>, u, "Role", "rbac-edit")
UserEditBinding(u) == RoleBinding(<<"edit", u>>, u, "ClusterRole", "edit")

ClawUserRole       == Role("claw-user")
ClawUserBinding(u) == RoleBinding(<<"claw-user", u>>, u, "Role", "claw-user")
ClawViewBinding(u) == RoleBinding(<<"view", u>>, u, "ClusterRole", "view")

\* The role a space role is checked to bring; the check for "viewer" is the one for "contributor".
AdminUserActions       == Role("appstudio-admin-user-actions")
MaintainerUserActions  == Role("appstudio-maintainer-user-actions")
ContributorUserActions == Role("appstudio-contributor-user-actions")
UserActions(role) == CASE role = "admin" -> AdminUserActions
                       [] role = "maintainer" -> MaintainerUserActions
                       [] OTHER -> ContributorUserActions
UserActionsRoleName == [admin |-> "appstudio-admin-user-actions", maintainer |-> "appstudio-maintainer-user-actions",
                        contributor |-> "appstudio-contributor-user-actions", viewer |-> "appstudio-viewer-user-actions"]
\* Faulty variant: the binding of one role is copied to the others.
UserActionsBindingCopied(u, role) == RoleBinding(<<role, u>>, u, "Role", UserActionsRoleName["admin"])
UserActionsBinding(u, role) == RoleBinding(<<role, u>>, u, "Role", UserActionsRoleName[role])
AppstudioViewBinding(u)     == RoleBinding(<<"view", u>>, u, "ClusterRole", "view")

NamespaceManager ==
  { Object("ServiceAccount", <<"namespace-manager">>, <<>>),
    Role("additional-argocd-read"),
    RoleBinding(<<"additional-argocd-read">>, "namespace-manager", "Role", "additional-argocd-read"),
    RoleBinding(<<"namespace-manager">>, "namespace-manager", "ClusterRole", "edit") }

PipelineRunner ==
  { Object("ServiceAccount", <<"appstudio-pipeline">>, <<>>),
    RoleBinding(<<"appstudio-pipelines-runner-rolebinding">>, "appstudio-pipeline", "ClusterRole",
                "appstudio-pipelines-runner"),
    Object("ConfigMap", <<"trusted-ca">>, <<>>) }

\* Labels of the namespace itself and the Environment in it.
AppstudioLabels == { Object("NamespaceLabel", <<"argocd managed-by">>, <<"gitops-service-argocd">>),
                     Object("NamespaceLabel", <<"workspace_name">>, <<"owner">>) }
DevelopmentEnvironment == Object("Environment", <<"development">>, <<>>)

-----------------------------------------------------------------------------
(* Namespace checks of a tier: the objects looked for by name and, for     *)
(* some kinds, how many there must be.                                     *)

NamespaceChecks(named, limitRanges, policies) ==
  [named |-> named, number |-> [LimitRange |-> limitRanges, NetworkPolicy |-> policies]]

BaseNamespaceChecks(type) ==
  LET other == IF type = "dev" THEN "stage" ELSE "dev" IN
  NamespaceChecks({LimitRange(<<"1", "1Gi", "10m", "64Mi">>), SpaceRequests}
                  \cup Sandbox \cup CommonNetworkPolicies
                  \cup {FromCRW, FromVirtualization, FromModelMesh, FromMariaDB, FromOtherNamespace(other)}, 1, 11)

Base1nsNamespaceChecks ==
  NamespaceChecks({ComputeDeploy(<<"30", "30Gi", "3", "30Gi">>, Gpu), ComputeBuild(<<"20", "14Gi", "3", "14Gi">>, Gpu),
                   Storage(<<"15Gi", "80Gi", "15Gi", "10">>), SpaceRequests,
                   LimitRange(<<"1", "1000Mi", "10m", "64Mi">>)}
                  \cup Sandbox \cup CommonNetworkPolicies
                  \cup {FromCRW, FromVirtualization, FromModelMesh, FromMariaDB}, 1, 10)

CommonAppstudioChecks ==
  {ComputeDeploy(<<"20", "32Gi", "1750m", "32Gi">>, <<>>), LimitRange(<<"2", "2Gi", "10m", "256Mi">>),
   DevelopmentEnvironment} \cup AppstudioLabels \cup AppstudioCrdQuotas \cup PipelineRunner

AppstudioNamespaceChecks ==
  NamespaceChecks({Storage(<<"50Gi", "200Gi", "50Gi", "90">>), ComputeBuild(<<"120", "128Gi", "60", "64Gi">>, <<>>)}
                  \cup CommonAppstudioChecks \cup CommonNetworkPolicies \cup {FromCRW}, 1, 7)

AppstudiolargeNamespaceChecks ==
  NamespaceChecks({ComputeBuild(<<"480", "512Gi", "240", "256Gi">>, <<>>), Storage(<<"50Gi", "400Gi", "50Gi", "180">>)}
                  \cup CommonAppstudioChecks \cup CommonNetworkPolicies \cup {FromCRW}, 1, 7)

AppstudioEnvNamespaceChecks ==
  NamespaceChecks({ComputeDeploy(<<"20", "32Gi", "1750m", "32Gi">>, <<>>), ComputeBuild(<<"0", "0", "0">>, <<>>),
                   Storage(<<"50Gi", "50Gi", "50Gi", "12">>), LimitRange(<<"2", "2Gi", "10m", "256Mi">>)}
                  \cup NamespaceManager \cup AppstudioLabels \cup CommonNetworkPolicies \cup {FromCRW}, 1, 7)

\* Faulty variant: the network policy of the monitoring namespaces is not counted.
ClawNamespaceChecksOff ==
  NamespaceChecks({ComputeDeployNoScope(<<"8", "10Gi", "1", "3Gi">>), Storage(<<"5Gi", "15Gi", "5Gi", "1">>),
                   LimitRange(<<"500m", "512Mi", "10m", "64Mi">>),
                   SameNamespace, FromIngress, FromMonitoring, FromOlm, FromConsole} \cup Sandbox, 1, 4)

ClawNamespaceChecks ==
  NamespaceChecks({ComputeDeployNoScope(<<"8", "10Gi", "1", "3Gi">>), Storage(<<"5Gi", "15Gi", "5Gi", "1">>),
                   LimitRange(<<"500m", "512Mi", "10m", "64Mi">>),
                   SameNamespace, FromIngress, FromMonitoring, FromOlm, FromConsole} \cup Sandbox, 1, 5)

GetNamespaceObjectChecks(tier, type) ==
  CASE tier = "base"           -> BaseNamespaceChecks(type)
    [] tier = "appstudio"      -> AppstudioNamespaceChecks
    [] tier = "appstudiolarge" -> AppstudiolargeNamespaceChecks
    [] tier = "appstudio-env"  -> AppstudioEnvNamespaceChecks
    [] tier = "claw"           -> ClawNamespaceChecks
    [] OTHER                   -> Base1nsNamespaceChecks   \* base1ns, base1nsnoidling, base1ns6didler

-----------------------------------------------------------------------------
(* Space role checks: for the roles granted (sets of records with a role   *)
(* and its users) the objects by name and the numbers of roles and role    *)
(* bindings of the namespace.                                              *)

Granted(spaceRoles) == {r.role : r \in spaceRoles}
Grants(spaceRoles)  == UNION {{[role |-> r.role, user |-> u] : u \in r.users} : r \in spaceRoles}

SpaceRoleChecks(named, roles, bindings) ==
  [named |-> named, number |-> [Role |-> roles, RoleBinding |-> bindings]]

\* base and the base1ns family; the one more role is exec-pods, the two more bindings are crtadmin's.
BaseSpaceRoleChecks(spaceRoles) ==
  SpaceRoleChecks({RbacEditRole : r \in Granted(spaceRoles)}
                  \cup UNION {{RbacEditBinding(g.user), UserEditBinding(g.user)} : g \in Grants(spaceRoles)},
                  Cardinality(Granted(spaceRoles)) + 1, 2 * Cardinality(Grants(spaceRoles)) + 2)

AppstudioSpaceRoleChecks(spaceRoles) ==
  SpaceRoleChecks({UserActions(r) : r \in Granted(spaceRoles)}
                  \cup UNION {{UserActionsBinding(g.user, g.role), AppstudioViewBinding(g.user)} : g \in Grants(spaceRoles)},
                  Cardinality(Granted(spaceRoles)), 2 * Cardinality(Grants(spaceRoles)) + 1)

AppstudioEnvSpaceRoleChecks == SpaceRoleChecks({}, 1, 2)

ClawSpaceRoleChecks(spaceRoles) ==
  SpaceRoleChecks({ClawUserRole : r \in Granted(spaceRoles)}
                  \cup UNION {{ClawUserBinding(g.user), ClawViewBinding(g.user)} : g \in Grants(spaceRoles)},
                  Cardinality(Granted(spaceRoles)) + 1, 2 * Cardinality(Grants(spaceRoles)) + 2)

Appstudio == {"appstudio", "appstudiolarge"}

GetSpaceRoleChecks(tier, spaceRoles) ==
  CASE tier \in Appstudio      -> AppstudioSpaceRoleChecks(spaceRoles)
    [] tier = "appstudio-env"  -> AppstudioEnvSpaceRoleChecks
    [] tier = "claw"           -> ClawSpaceRoleChecks(spaceRoles)
    [] OTHER                   -> BaseSpaceRoleChecks(spaceRoles)

\* The space roles GetSpaceRoleChecks accepts; any other is an error.
KnownRoles(tier) ==
  CASE tier \in Appstudio      -> {"admin", "maintainer", "viewer", "contributor"}
    [] tier = "appstudio-env"  -> {"admin", "maintainer", "contributor"}
    [] OTHER                   -> {"admin"}

-----------------------------------------------------------------------------
(* Cluster checks: quotas by name and number, idlers by name, timeout and  *)
(* number.  Quotas and idlers carry the name of the space's tier.          *)

DeploymentCount(pods, deployments, vms) == <<"deployments", deployments, pods, vms>>
Deployments       == DeploymentCount("50", "30", "2")
ReplicaCount(n)   == <<"replicas", n>>
RouteCount(n)     == <<"routes", n>>
Jobs              == <<"jobs", "30">>
ServiceCount(n, balancers) == <<"services", n, balancers>>
BuildConfig       == <<"bc", "30">>
SecretCount(n)    == <<"secrets", n>>
ConfigMapCount(n) == <<"cm", n>>
Compute           == <<"compute", "40000m", "6000m", "28Gi", "60Gi">> \o Gpu
Claw              == <<"claw", "5", "10", "3", "5", "50", "10">>

ClusterChecks(quotas, number, timeout, idlers) ==
  [quotas |-> quotas, number |-> number, timeout |-> timeout, idlers |-> idlers]

Base1nsQuotas == {Deployments, ReplicaCount("30"), RouteCount("30"), Jobs, ServiceCount("30", "0"),
                  BuildConfig, SecretCount("100"), ConfigMapCount("100")}

BaseClusterChecks            == ClusterChecks({Compute} \cup Base1nsQuotas, 9, 43200, {"dev", "stage"})
Base1nsClusterChecks         == ClusterChecks(Base1nsQuotas, 8, 43200, {"dev"})
Base1nsnoidlingClusterChecks == ClusterChecks(Base1nsQuotas, 8, 0, {"dev"})
Base1ns6didlerClusterChecks  == ClusterChecks(Base1nsQuotas, 8, 518400, {"dev"})
AppstudioClusterChecks ==
  ClusterChecks({DeploymentCount("600", "30", ""), ReplicaCount("30"), RouteCount("30"), Jobs, ServiceCount("30", ""),
                 BuildConfig, SecretCount("300"), ConfigMapCount("100")}, 8, 0, {""})
AppstudiolargeClusterChecks ==
  ClusterChecks({DeploymentCount("600", "100", ""), ReplicaCount("100"), RouteCount("100"), Jobs,
                 ServiceCount("100", ""), BuildConfig, SecretCount("900"), ConfigMapCount("300")}, 8, 0, {""})
AppstudioEnvClusterChecks ==
  ClusterChecks({DeploymentCount("150", "30", ""), ReplicaCount("30"), RouteCount("30"), Jobs, ServiceCount("30", ""),
                 BuildConfig, SecretCount("100"), ConfigMapCount("100")}, 8, 0, {"env"})
ClawClusterChecks            == ClusterChecks({Claw}, 1, 43200, {"claw"})

GetClusterObjectChecks(tier) ==
  CASE tier = "base"            -> BaseClusterChecks
    [] tier = "base1ns"         -> Base1nsClusterChecks
    [] tier = "base1nsnoidling" -> Base1nsnoidlingClusterChecks
    [] tier = "base1ns6didler"  -> Base1ns6didlerClusterChecks
    [] tier = "appstudio"       -> AppstudioClusterChecks
    [] tier = "appstudiolarge"  -> AppstudiolargeClusterChecks
    [] tier = "appstudio-env"   -> AppstudioEnvClusterChecks
    [] OTHER                    -> ClawClusterChecks

\* The types of namespaces a tier's template refs must have (verifyNsTypes).
NsTypes(tier) ==
  CASE tier = "base"          -> {"dev", "stage"}
    [] tier \in Appstudio     -> {"tenant"}
    [] tier = "appstudio-env" -> {"env"}
    [] tier = "claw"          -> {"claw"}
    [] OTHER                  -> {"dev"}

\* The tiers NewChecksForTier knows; for any other name there are no checks.
Tiers == {"base", "base1ns", "base1nsnoidling", "base1ns6didler", "appstudio", "appstudiolarge", "appstudio-env", "claw"}
=============================================================================
