---------------------------- MODULE MCTierChecks ----------------------------
(* Instances of TierChecks for TLC: journeys of one or two steps, each with *)
(* the kinds of objects that make the step interesting.                     *)
EXTENDS TierChecks

Admin(users) == {[user |-> u, role |-> "admin"] : u \in users}

Move(tier) == [do |-> "move", tier |-> tier]
CustomTier(c, n, r) == [do |-> "tier", parts |-> [cluster |-> c, namespaces |-> n, roles |-> r]]
ToBindings(b) == [do |-> "bind", bindings |-> b]

Share(b)      == [do |-> "share", bindings |-> b]

Inheriting(tier, b, kinds, steps, inherits) ==
  [tier |-> tier, bindings |-> b, kinds |-> kinds, steps |-> steps, inherits |-> inherits]
Journey(tier, b, kinds, steps) == Inheriting(tier, b, kinds, steps, TRUE)

Guest == [user |-> "u2", role |-> "contributor"]

MCJourneys ==
  { Journey("base1ns", Admin({"u1"}), {"LimitRange", "Role"}, <<Move("claw"), Move("base1nsnoidling")>>),
    Journey("claw", Admin({"u1"}), {"ClusterResourceQuota", "Idler"}, <<Move("base1ns")>>),
    Journey("base1ns", Admin({"u1"}), {"ClusterResourceQuota"}, <<Move("claw")>>),
    Journey("base1ns", Admin({"u1"}), {"Idler", "LimitRange"}, <<Move("base"), Move("base1ns6didler")>>),
    Journey("appstudio", Admin({"u1"}), {"NetworkPolicy"}, <<Move("claw")>>),
    Journey("base1ns", Admin({"u1"}), {"LimitRange", "Idler"},
            <<CustomTier("base1ns", "base1ns", "base1ns"), CustomTier("base1nsnoidling", "claw", "base1ns")>>),
    Journey("appstudio", Admin({"u1"}), {"Role", "RoleBinding"},
            <<ToBindings({[user |-> "u1", role |-> "maintainer"]})>>),
    Journey("appstudio", Admin({"u1"}), {"Role"},
            <<ToBindings({[user |-> "u1", role |-> "maintainer"], Guest})>>),
    Journey("appstudio", Admin({"u1"}), {"Role"}, <<Share(Admin({"u1", "u2"}))>>),
    Journey("appstudio", Admin({"u1"}), {"LimitRange", "Role"}, <<Share(Admin({"u1"}) \cup {Guest}), Move("appstudiolarge")>>),
    Inheriting("appstudio", {}, {"LimitRange", "RoleBinding"}, <<Move("appstudio-env")>>, FALSE) }

(* A space is shared with a contributor.                                    *)
ShareJourneys == {Journey("appstudio", Admin({"u1"}), {"Role"}, <<Share(Admin({"u1"}) \cup {Guest})>>)}

(* New bindings that are taken back as soon as they are verified.           *)
BackJourneys ==
  { Journey("appstudio", Admin({"u1"}), {"Role"},
            <<ToBindings({[user |-> "u1", role |-> "maintainer"]}), ToBindings(Admin({"u1"}))>>) }
=============================================================================
