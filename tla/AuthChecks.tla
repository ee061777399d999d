----------------------------- MODULE AuthChecks -----------------------------
(***************************************************************************)
(* The authorization of one field (strawberry/directives.py): check() and  *)
(* the requirement helpers of JWTToken it calls, for a process that may    *)
(* declare catch-alls (catch_alls.py) while it serves.                     *)
(*                                                                         *)
(* A token is a guest's when it has a `collabs` claim, which is here the   *)
(* set of role sets it grants on this service instance, one for each       *)
(* collaboration.  Without an instance (audience "*") a guest holds none.  *)
(***************************************************************************)
EXTENDS Naturals

CONSTANTS
    Scopes, Roles,
    Fields,   \* the requirements of the fields of the schema
    Holders,  \* the tokens that are presented
    None

AllFields == [scopes : SUBSET Scopes, any_scope_of : SUBSET Scopes,
              roles : SUBSET Roles, any_role_of : SUBSET Roles,
              org_roles : SUBSET Roles, any_org_role_of : SUBSET Roles,
              allow_scoped : BOOLEAN]

AllHolders == [scopes : SUBSET Scopes, roles : SUBSET Roles,
               guest : BOOLEAN, collabs : SUBSET SUBSET Roles]

ASSUME FieldsAssumption == Fields \subseteq AllFields
ASSUME HoldersAssumption ==
    Holders \subseteq {t \in AllHolders : ~t.guest => t.collabs = {}}
ASSUME NoneAssumption == None \notin Scopes \cup Roles \cup AllHolders

VARIABLES
    alls,     \* the declared catch-alls
    options,  \* enforce_scopes, and whether the audience names an instance
    field,    \* a field that is resolved over and over
    token,    \* the token attached to its request, None when there is none
    member    \* the roles of the Membership attached to its request

vars == <<alls, options, field, token, member>>

CatchAlls == [scope : Scopes \cup {None}, role : Roles \cup {None}]
Options == [enforce_scopes : BOOLEAN, instance : BOOLEAN]

Reasons == {"ALLOWED", "NOT_AUTHENTICATED", "FULL_MEMBERSHIP_REQUIRED",
            "INSUFFICIENT_SCOPE", "INSUFFICIENT_ROLE", "INSUFFICIENT_ORGANIZATION_ROLE"}

(* What a refusal carries in its extensions: the list of one requirement,  *)
(* or nothing.                                                             *)
Details == {"scopes", "any_scope_of", "roles", "any_role_of",
            "org_roles", "any_org_role_of", "nothing"}

(* denied, unauthenticated *)
Refused(reason, carried) == [reason |-> reason, carries |-> carried]

Allowed == Refused("ALLOWED", "nothing")
-----------------------------------------------------------------------------
(* has_scopes, has_roles; has_any_scope, has_any_role *)
HasAll(required, held) == required \subseteq held
HasAny(required, held) == required = {} \/ required \cap held # {}

(* Mutant: an empty `collabs` is taken for a full member's. *)
is_scoped_truthy(t) == t.guest /\ t.collabs # {}

(* `collabs is not None` *)
is_scoped(t) == t.guest

requires_roles(f) ==
    f.roles \cup f.any_role_of \cup f.org_roles \cup f.any_org_role_of # {}

collabs_here(t, o) == IF is_scoped(t) /\ o.instance THEN t.collabs ELSE {}

(* _a_collaboration_holds *)
a_collaboration_holds(f, t, o) ==
    \E held \in collabs_here(t, o) :
       /\ HasAll(f.roles \cup f.org_roles, held)
       /\ HasAny(f.any_role_of, held)
       /\ HasAny(f.any_org_role_of, held)

(* Mutant: a declared catch-all replaces the scopes it stands for. *)
scopes_refusal_declared(f, t, o, a) ==
    IF ~o.enforce_scopes \/ a.scope \in t.scopes THEN Allowed
    ELSE IF a.scope # None \/ ~HasAll(f.scopes, t.scopes) THEN Refused("INSUFFICIENT_SCOPE", "scopes")
    ELSE IF ~HasAny(f.any_scope_of, t.scopes) THEN Refused("INSUFFICIENT_SCOPE", "any_scope_of")
    ELSE Allowed

(* What the scopes alone answer.  Of the two requirements the first that   *)
(* is not met is the one the refusal carries; so for the roles below.      *)
scopes_refusal(f, t, o, a) ==
    IF ~o.enforce_scopes \/ a.scope \in t.scopes THEN Allowed
    ELSE IF ~HasAll(f.scopes, t.scopes) THEN Refused("INSUFFICIENT_SCOPE", "scopes")
    ELSE IF ~HasAny(f.any_scope_of, t.scopes) THEN Refused("INSUFFICIENT_SCOPE", "any_scope_of")
    ELSE Allowed

(* Mutant: both tests of the roles report the same list. *)
roles_refusal_one_list(f, t) ==
    IF HasAll(f.roles, t.roles) /\ HasAny(f.any_role_of, t.roles) THEN Allowed
    ELSE Refused("INSUFFICIENT_ROLE", "roles")

roles_refusal(f, t) ==
    IF ~HasAll(f.roles, t.roles) THEN Refused("INSUFFICIENT_ROLE", "roles")
    ELSE IF ~HasAny(f.any_role_of, t.roles) THEN Refused("INSUFFICIENT_ROLE", "any_role_of")
    ELSE Allowed

(* _check_org_roles *)
org_roles_refusal(f, m) ==
    IF ~HasAll(f.org_roles, m) THEN Refused("INSUFFICIENT_ORGANIZATION_ROLE", "org_roles")
    ELSE IF ~HasAny(f.any_org_role_of, m) THEN Refused("INSUFFICIENT_ORGANIZATION_ROLE", "any_org_role_of")
    ELSE Allowed

(* The order of the tests in check(), and what the first one answers. *)
check(f, t, m, o, a) ==
    IF t = None THEN Refused("NOT_AUTHENTICATED", "nothing")
    ELSE IF is_scoped(t) /\ requires_roles(f) /\ ~f.allow_scoped
         THEN Refused("FULL_MEMBERSHIP_REQUIRED", "nothing")
    ELSE IF scopes_refusal(f, t, o, a) # Allowed THEN scopes_refusal(f, t, o, a)
    ELSE IF is_scoped(t)
         THEN IF requires_roles(f) /\ ~a_collaboration_holds(f, t, o)
              THEN Refused("INSUFFICIENT_ROLE", "nothing") ELSE Allowed
    ELSE IF a.role \in t.roles THEN Allowed
    ELSE IF roles_refusal(f, t) # Allowed THEN roles_refusal(f, t)
    ELSE org_roles_refusal(f, m)

Verdict == check(field, token, member, options, alls)

Undeclared == [scope |-> None, role |-> None]

TypeOK ==
    /\ alls \in CatchAlls
    /\ options \in Options
    /\ field \in Fields
    /\ token \in Holders \cup {None}
    /\ member \in SUBSET Roles
    /\ Verdict \in [reason : Reasons, carries : Details]

(* The membership mirrors the token's roles; a request without one has none. *)
Init ==
    /\ alls = Undeclared
    /\ options \in Options
    /\ field \in Fields
    /\ token \in Holders \cup {None}
    /\ member \in {{}} \cup {t.roles : t \in {token} \ {None}}

(* Mutant: the two are mixed up. *)
declare_swapped(s, r) ==
    /\ alls' = [scope |-> r, role |-> s]
    /\ UNCHANGED <<options, field, token, member>>

declare_catch_alls(s, r) ==
    /\ alls' = [scope |-> s, role |-> r]
    /\ UNCHANGED <<options, field, token, member>>

Next == \E s \in Scopes \cup {None}, r \in Roles \cup {None} : declare_catch_alls(s, r)

Spec == Init /\ [][Next]_vars
-----------------------------------------------------------------------------
(* Declaring catch-alls while the process serves takes nothing away from   *)
(* anyone: "the check lets the catch-alls through wherever one of those is *)
(* asked for" (catch_alls.py:5), beside the scopes and roles themselves.   *)
CatchAllsOnlyWiden ==
    [][alls = Undeclared /\ Verdict = Allowed => Verdict' = Allowed]_vars

(* No role that a guest's token or membership carries changes the answer,  *)
(* the catch-all role included: what a guest may do is what the            *)
(* collaborations hold (catch_alls.py:6, directives.py:168).               *)
GuestRolesAreIgnored ==
    token # None /\ token.guest =>
       \A R, M \in SUBSET Roles :
          check(field, [token EXCEPT !.roles = R], M, options, alls) = Verdict

(* The tests of check() for a full member, in their order. *)
Order == <<"scopes", "any_scope_of", "roles", "any_role_of", "org_roles", "any_org_role_of">>

(* check() gets past the test that refused: it allows, or a later one refuses. *)
Further(answer, refusal) ==
    \/ answer = Allowed
    \/ \E i, j \in DOMAIN Order :
          i < j /\ refusal.carries = Order[i] /\ answer.carries = Order[j]

(* What meets the requirement a refusal carries: all of a list, or any one *)
(* member of the lists of which one suffices.                              *)
Remedies(carried) ==
    IF carried \in {"any_scope_of", "any_role_of", "any_org_role_of"}
    THEN {{x} : x \in field[carried]} ELSE {field[carried]}

(* The answer once the caller holds the remedy as well. *)
Retried(carried, remedy) ==
    CASE carried \in {"scopes", "any_scope_of"} ->
           check(field, [token EXCEPT !.scopes = @ \cup remedy], member, options, alls)
      [] carried \in {"roles", "any_role_of"} ->
           check(field, [token EXCEPT !.roles = @ \cup remedy], member, options, alls)
      [] OTHER -> check(field, token, member \cup remedy, options, alls)

(* A full member who is refused is told what to ask for: the list a        *)
(* refusal carries is not empty, and whoever holds what it asks for, the   *)
(* whole list or any one of it, passes that test, whatever other           *)
(* requirements the field declares (directives.py:149).                    *)
RefusalsAreCurable ==
    token # None /\ ~token.guest /\ Verdict # Allowed =>
       /\ Verdict.carries # "nothing" /\ field[Verdict.carries] # {}
       /\ \A remedy \in Remedies(Verdict.carries) :
             Further(Retried(Verdict.carries, remedy), Verdict)
=============================================================================
