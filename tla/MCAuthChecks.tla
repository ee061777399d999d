---------------------------- MODULE MCAuthChecks ----------------------------
(* Instances of AuthChecks for TLC. *)
EXTENDS AuthChecks, Integers, FiniteSets

Slots == {"scopes", "any_scope_of", "roles", "any_role_of", "org_roles", "any_org_role_of"}

(* Every full member and every guest. *)
AnyHolder == {t \in AllHolders : ~t.guest => t.collabs = {}}

(* Every field that uses at most two of the six requirements. *)
TwoRequirements ==
    {f \in AllFields : Cardinality({s \in Slots : f[s] # {}}) <= 2}
=============================================================================
