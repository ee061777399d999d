---------------------------- MODULE MCExpansion ----------------------------
(* Instances of Expansion for TLC: which tokens are presented. *)
EXTENDS Expansion, TLC

CONSTANTS s1, o1, o2, k1, k2, c1, d1, v1

Token(o, k, d, l) ==
    [sub |-> s1, org |-> o, claims |-> k, client |-> c1, device |-> d, release |-> l]

(* One user and one client: two profiles in one organization, another      *)
(* organization with one of them, one token that names a device and a      *)
(* release, and one without an organization.                               *)
MCTokens ==
    {Token(o1, k1, d1, v1), Token(o1, k2, None, None), Token(o2, k1, None, None), Token(None, k1, None, None)}

Symmetry == Permutations(Requests)
============================================================================
