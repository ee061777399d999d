-------------------------- MODULE AuthChecksProofs --------------------------
(***************************************************************************)
(* Proofs about AuthChecks, for any scopes, roles, fields and tokens.      *)
(***************************************************************************)
EXTENDS AuthChecks, TLAPS

USE FieldsAssumption, HoldersAssumption, NoneAssumption

(* Each helper allows, or refuses for one of its two requirements.         *)
LEMMA HelpersAnswer ==
    ASSUME NEW f, NEW t, NEW m, NEW o, NEW a
    PROVE  /\ scopes_refusal(f, t, o, a) \in
                {Allowed, Refused("INSUFFICIENT_SCOPE", "scopes"), Refused("INSUFFICIENT_SCOPE", "any_scope_of")}
           /\ roles_refusal(f, t) \in
                {Allowed, Refused("INSUFFICIENT_ROLE", "roles"), Refused("INSUFFICIENT_ROLE", "any_role_of")}
           /\ org_roles_refusal(f, m) \in
                {Allowed, Refused("INSUFFICIENT_ORGANIZATION_ROLE", "org_roles"),
                 Refused("INSUFFICIENT_ORGANIZATION_ROLE", "any_org_role_of")}
BY DEF scopes_refusal, roles_refusal, org_roles_refusal

LEMMA VerdictType == Verdict \in [reason : Reasons, carries : Details]
<1>1. \A r \in Reasons, d \in Details : Refused(r, d) \in [reason : Reasons, carries : Details]
  BY DEF Refused
<1>2. /\ scopes_refusal(field, token, options, alls) \in [reason : Reasons, carries : Details]
      /\ roles_refusal(field, token) \in [reason : Reasons, carries : Details]
      /\ org_roles_refusal(field, member) \in [reason : Reasons, carries : Details]
  BY <1>1, HelpersAnswer DEF Allowed, Reasons, Details
<1>3. /\ Refused("NOT_AUTHENTICATED", "nothing") \in [reason : Reasons, carries : Details]
      /\ Refused("FULL_MEMBERSHIP_REQUIRED", "nothing") \in [reason : Reasons, carries : Details]
      /\ Refused("INSUFFICIENT_ROLE", "nothing") \in [reason : Reasons, carries : Details]
      /\ Allowed \in [reason : Reasons, carries : Details]
  BY <1>1 DEF Allowed, Reasons, Details
<1> QED BY <1>2, <1>3 DEF Verdict, check

Typed ==
    /\ alls \in CatchAlls
    /\ options \in Options
    /\ field \in Fields
    /\ token \in Holders \cup {None}
    /\ member \in SUBSET Roles

(* The declared catch-alls, the request and the answer keep their types.   *)
THEOREM TypeCorrect == Spec => []TypeOK
<1>1. Init => TypeOK
  <2> SUFFICES ASSUME Init PROVE TypeOK
    OBVIOUS
  <2>1. alls \in CatchAlls
    BY DEF Init, Undeclared, CatchAlls
  <2>2. member \in SUBSET Roles
    <3>1. \A t \in {token} \ {None} : t.roles \subseteq Roles
      BY DEF Init, AllHolders
    <3> QED BY <3>1 DEF Init
  <2> QED BY <2>1, <2>2, VerdictType DEF Init, TypeOK
<1>2. TypeOK /\ [Next]_vars => Typed'
  <2> SUFFICES ASSUME TypeOK, [Next]_vars PROVE Typed'
    OBVIOUS
  <2>1. alls' \in CatchAlls /\ UNCHANGED <<options, field, token, member>>
    BY DEF TypeOK, Next, declare_catch_alls, vars, CatchAlls
  <2> QED BY <2>1 DEF TypeOK, Typed
<1>3. TypeOK <=> Typed /\ Verdict \in [reason : Reasons, carries : Details]
  BY DEF TypeOK, Typed
<1> QED BY <1>1, <1>2, <1>3, VerdictType, PTL DEF Spec

(* For a guest check() reads neither the roles of the token nor those of   *)
(* the membership, so that no role decides (directives.py:168).            *)
THEOREM GuestsRoles == Spec => []GuestRolesAreIgnored
<1>1. TypeOK => GuestRolesAreIgnored
  <2> SUFFICES ASSUME TypeOK, token # None, token.guest, NEW R \in SUBSET Roles, NEW M \in SUBSET Roles
               PROVE  check(field, [token EXCEPT !.roles = R], M, options, alls) = Verdict
    BY DEF GuestRolesAreIgnored
  <2> DEFINE t == [token EXCEPT !.roles = R]
  <2>1. token \in AllHolders
    BY DEF TypeOK
  <2>2. t.guest = token.guest /\ t.scopes = token.scopes /\ t.collabs = token.collabs /\ t \in AllHolders
    BY <2>1 DEF AllHolders
  <2>3. t # None
    BY <2>2
  <2> HIDE DEF t
  <2>4. scopes_refusal(field, t, options, alls) = scopes_refusal(field, token, options, alls)
    BY <2>2 DEF scopes_refusal
  <2>5. a_collaboration_holds(field, t, options) = a_collaboration_holds(field, token, options)
    BY <2>2 DEF a_collaboration_holds, collabs_here, is_scoped
  <2>6. check(field, t, M, options, alls) = Verdict
    BY <2>2, <2>3, <2>4, <2>5 DEF check, Verdict, is_scoped
  <2> QED BY <2>6 DEF t
<1> QED BY <1>1, TypeCorrect, PTL

(* What check() answers a full member.                                     *)
LEMMA FullAnswers ==
    ASSUME NEW f, NEW t, NEW m, NEW o, NEW a, t # None, ~t.guest
    PROVE  /\ scopes_refusal(f, t, o, a) # Allowed => check(f, t, m, o, a) = scopes_refusal(f, t, o, a)
           /\ scopes_refusal(f, t, o, a) = Allowed /\ a.role \in t.roles => check(f, t, m, o, a) = Allowed
           /\ scopes_refusal(f, t, o, a) = Allowed /\ a.role \notin t.roles =>
                /\ roles_refusal(f, t) # Allowed => check(f, t, m, o, a) = roles_refusal(f, t)
                /\ roles_refusal(f, t) = Allowed => check(f, t, m, o, a) = org_roles_refusal(f, m)
BY DEF check, is_scoped

(* Declaring catch-alls takes nothing away from anyone (catch_alls.py:5).  *)
THEOREM CatchAllsWiden == Spec => CatchAllsOnlyWiden
<1>1. ASSUME TypeOK, [Next]_vars, alls = Undeclared, Verdict = Allowed
      PROVE  Verdict' = Allowed
  <2>1. token \in AllHolders /\ UNCHANGED <<options, field, token, member>>
    BY <1>1 DEF TypeOK, Verdict, check, Next, declare_catch_alls, vars, Allowed, Refused
  <2>2. token.scopes \subseteq Scopes /\ token.roles \subseteq Roles /\ token # None
    BY <2>1 DEF AllHolders
  <2>3. alls.scope \notin token.scopes /\ alls.role \notin token.roles
    BY <1>1, <2>2 DEF Undeclared
  <2>4. scopes_refusal(field, token, options, alls) = Allowed
    BY <1>1 DEF Verdict, check, Allowed, Refused
  <2>5. scopes_refusal(field, token, options, alls') = Allowed
    BY <2>3, <2>4 DEF scopes_refusal, Allowed, Refused
  <2>6. CASE is_scoped(token)
    BY <1>1, <2>1, <2>2, <2>4, <2>5, <2>6 DEF Verdict, check
  <2>7. CASE ~is_scoped(token)
    <3>1. roles_refusal(field, token) = Allowed /\ org_roles_refusal(field, member) = Allowed
      BY <1>1, <2>2, <2>3, <2>4, <2>7, FullAnswers DEF Verdict, is_scoped
    <3>2. check(field, token, member, options, alls') = Allowed
      BY <2>2, <2>5, <2>7, <3>1, FullAnswers DEF is_scoped
    <3> QED BY <2>1, <3>2 DEF Verdict
  <2> QED BY <2>6, <2>7
<1>2. TypeOK /\ [Next]_vars => [alls = Undeclared /\ Verdict = Allowed => Verdict' = Allowed]_vars
  BY <1>1
<1> QED BY <1>2, TypeCorrect, PTL DEF Spec, CatchAllsOnlyWiden

LEMMA Ordered ==
    /\ DOMAIN Order = 1 .. 6
    /\ Order[1] = "scopes" /\ Order[2] = "any_scope_of" /\ Order[3] = "roles"
    /\ Order[4] = "any_role_of" /\ Order[5] = "org_roles" /\ Order[6] = "any_org_role_of"
BY DEF Order

LEMMA Later ==
    ASSUME NEW i \in 1 .. 6, NEW answer, NEW refusal, refusal.carries = Order[i],
           answer = Allowed \/ \E j \in 1 .. 6 : i < j /\ answer.carries = Order[j]
    PROVE  Further(answer, refusal)
BY Ordered DEF Further

(* The lists a remedy was taken from are met by whoever holds it too.      *)
LEMMA Remedied ==
    ASSUME NEW required, NEW held, NEW remedy
    PROVE  /\ remedy = required => HasAll(required, held \cup remedy)
           /\ (\E x \in required : remedy = {x}) => HasAny(required, held \cup remedy)
           /\ HasAll(required, held) => HasAll(required, held \cup remedy)
BY DEF HasAll, HasAny

(* A full member who is given what a refusal carries passes that test      *)
(* (directives.py:149).                                                    *)
THEOREM RefusalsCurable == Spec => []RefusalsAreCurable
<1>1. TypeOK => RefusalsAreCurable
  <2> SUFFICES ASSUME TypeOK, token # None, ~token.guest, Verdict # Allowed
               PROVE  /\ Verdict.carries # "nothing" /\ field[Verdict.carries] # {}
                      /\ \A remedy \in Remedies(Verdict.carries) :
                            Further(Retried(Verdict.carries, remedy), Verdict)
    BY DEF RefusalsAreCurable
  <2>1. token \in AllHolders /\ field \in AllFields
    BY DEF TypeOK
  <2>2. \/ Verdict = scopes_refusal(field, token, options, alls)
        \/ /\ scopes_refusal(field, token, options, alls) = Allowed
           /\ Verdict = roles_refusal(field, token)
        \/ /\ scopes_refusal(field, token, options, alls) = Allowed
           /\ alls.role \notin token.roles /\ roles_refusal(field, token) = Allowed
           /\ Verdict = org_roles_refusal(field, member)
    BY FullAnswers DEF Verdict
  <2>3. ASSUME NEW remedy \in SUBSET Scopes
        PROVE  LET t == [token EXCEPT !.scopes = @ \cup remedy]
               IN  /\ t # None /\ ~t.guest
                   /\ t.scopes = token.scopes \cup remedy
    BY <2>1 DEF AllHolders
  <2>4. ASSUME NEW remedy \in SUBSET Roles
        PROVE  LET t == [token EXCEPT !.roles = @ \cup remedy]
               IN  /\ t # None /\ ~t.guest /\ t.scopes = token.scopes
                   /\ t.roles = token.roles \cup remedy
    BY <2>1 DEF AllHolders
  <2>5. CASE Verdict = Refused("INSUFFICIENT_SCOPE", "scopes")
    <3>1. /\ Verdict.carries = "scopes" /\ Verdict.carries = Order[1]
          /\ scopes_refusal(field, token, options, alls) = Verdict
      BY <2>2, <2>5, HelpersAnswer, Ordered DEF Refused, Allowed
    <3>2. ~HasAll(field.scopes, token.scopes)
      BY <2>5, <3>1 DEF scopes_refusal, Refused, Allowed
    <3>3. ASSUME NEW remedy \in Remedies("scopes")
          PROVE  Further(Retried("scopes", remedy), Verdict)
      <4> DEFINE t == [token EXCEPT !.scopes = @ \cup remedy]
      <4>1. remedy = field.scopes
        BY <3>3 DEF Remedies
      <4>2. remedy \in SUBSET Scopes
        BY <2>1, <4>1 DEF AllFields
      <4>3. t # None /\ ~t.guest /\ t.scopes = token.scopes \cup remedy
        BY <2>3, <4>2
      <4>4. Retried("scopes", remedy) = check(field, t, member, options, alls)
        BY DEF Retried
      <4> HIDE DEF t
      <4>5. HasAll(field.scopes, t.scopes)
        BY <3>2, <4>1, <4>3, Remedied
      <4>6. scopes_refusal(field, t, options, alls) # Refused("INSUFFICIENT_SCOPE", "scopes")
        BY <4>5 DEF scopes_refusal, Refused, Allowed
      <4> DEFINE answer == check(field, t, member, options, alls)
      <4>8. \/ answer = Allowed
            \/ answer = Refused("INSUFFICIENT_SCOPE", "any_scope_of")
            \/ answer \in {Refused("INSUFFICIENT_ROLE", "roles"), Refused("INSUFFICIENT_ROLE", "any_role_of"),
                          Refused("INSUFFICIENT_ORGANIZATION_ROLE", "org_roles"),
                          Refused("INSUFFICIENT_ORGANIZATION_ROLE", "any_org_role_of")}
        BY <4>3, <4>6, FullAnswers, HelpersAnswer
      <4>9. answer = Allowed \/ \E j \in 1 .. 6 : 1 < j /\ answer.carries = Order[j]
        BY <4>8, Ordered DEF Refused
      <4> QED BY <3>1, <4>4, <4>9, Later
    <3>4. field["scopes"] # {}
      BY <3>2 DEF HasAll, HasAny
    <3> QED BY <3>1, <3>3, <3>4
  <2>6. CASE Verdict = Refused("INSUFFICIENT_SCOPE", "any_scope_of")
    <3>1. /\ Verdict.carries = "any_scope_of" /\ Verdict.carries = Order[2]
          /\ scopes_refusal(field, token, options, alls) = Verdict
      BY <2>2, <2>6, HelpersAnswer, Ordered DEF Refused, Allowed
    <3>2. ~HasAny(field.any_scope_of, token.scopes) /\ HasAll(field.scopes, token.scopes)
      BY <2>6, <3>1 DEF scopes_refusal, Refused, Allowed
    <3>3. ASSUME NEW remedy \in Remedies("any_scope_of")
          PROVE  Further(Retried("any_scope_of", remedy), Verdict)
      <4> DEFINE t == [token EXCEPT !.scopes = @ \cup remedy]
      <4>1. \E x \in field.any_scope_of : remedy = {x}
        BY <3>3 DEF Remedies
      <4>2. remedy \in SUBSET Scopes
        BY <2>1, <4>1 DEF AllFields
      <4>3. t # None /\ ~t.guest /\ t.scopes = token.scopes \cup remedy
        BY <2>3, <4>2
      <4>4. Retried("any_scope_of", remedy) = check(field, t, member, options, alls)
        BY DEF Retried
      <4> HIDE DEF t
      <4>5. HasAny(field.any_scope_of, t.scopes) /\ HasAll(field.scopes, t.scopes)
        BY <3>2, <4>1, <4>3 DEF HasAll, HasAny
      <4>6. scopes_refusal(field, t, options, alls) # Refused("INSUFFICIENT_SCOPE", "scopes")
        BY <4>5 DEF scopes_refusal, Refused, Allowed
      <4>7. scopes_refusal(field, t, options, alls) # Refused("INSUFFICIENT_SCOPE", "any_scope_of")
        BY <4>5 DEF scopes_refusal, Refused, Allowed
      <4> DEFINE answer == check(field, t, member, options, alls)
      <4>8. \/ answer = Allowed
            \/ answer \in {Refused("INSUFFICIENT_ROLE", "roles"), Refused("INSUFFICIENT_ROLE", "any_role_of"),
                          Refused("INSUFFICIENT_ORGANIZATION_ROLE", "org_roles"),
                          Refused("INSUFFICIENT_ORGANIZATION_ROLE", "any_org_role_of")}
        BY <4>3, <4>6, <4>7, FullAnswers, HelpersAnswer
      <4>9. answer = Allowed \/ \E j \in 1 .. 6 : 2 < j /\ answer.carries = Order[j]
        BY <4>8, Ordered DEF Refused
      <4> QED BY <3>1, <4>4, <4>9, Later
    <3>4. field["any_scope_of"] # {}
      BY <3>2 DEF HasAll, HasAny
    <3> QED BY <3>1, <3>3, <3>4
  <2>7. CASE Verdict = Refused("INSUFFICIENT_ROLE", "roles")
    <3>1. /\ Verdict.carries = "roles" /\ Verdict.carries = Order[3]
          /\ scopes_refusal(field, token, options, alls) = Allowed
          /\ roles_refusal(field, token) = Verdict
      BY <2>2, <2>7, HelpersAnswer, Ordered DEF Refused, Allowed
    <3>2. ~HasAll(field.roles, token.roles)
      BY <2>7, <3>1 DEF roles_refusal, Refused, Allowed
    <3>3. ASSUME NEW remedy \in Remedies("roles")
          PROVE  Further(Retried("roles", remedy), Verdict)
      <4> DEFINE t == [token EXCEPT !.roles = @ \cup remedy]
      <4>1. remedy = field.roles
        BY <3>3 DEF Remedies
      <4>2. remedy \in SUBSET Roles
        BY <2>1, <4>1 DEF AllFields
      <4>3. t # None /\ ~t.guest /\ t.scopes = token.scopes /\ t.roles = token.roles \cup remedy
        BY <2>4, <4>2
      <4>4. Retried("roles", remedy) = check(field, t, member, options, alls)
        BY DEF Retried
      <4> HIDE DEF t
      <4>5. HasAll(field.roles, t.roles)
        BY <3>2, <4>1, <4>3, Remedied
      <4>6. roles_refusal(field, t) # Refused("INSUFFICIENT_ROLE", "roles")
        BY <4>5 DEF roles_refusal, Refused, Allowed
      <4>8. scopes_refusal(field, t, options, alls) = Allowed
        BY <3>1, <4>3 DEF scopes_refusal
      <4> DEFINE answer == check(field, t, member, options, alls)
      <4>9. \/ answer = Allowed
            \/ answer = Refused("INSUFFICIENT_ROLE", "any_role_of")
            \/ answer \in {Refused("INSUFFICIENT_ORGANIZATION_ROLE", "org_roles"),
                          Refused("INSUFFICIENT_ORGANIZATION_ROLE", "any_org_role_of")}
        BY <4>3, <4>6, <4>8, FullAnswers, HelpersAnswer
      <4>10. answer = Allowed \/ \E j \in 1 .. 6 : 3 < j /\ answer.carries = Order[j]
        BY <4>9, Ordered DEF Refused
      <4> QED BY <3>1, <4>4, <4>10, Later
    <3>4. field["roles"] # {}
      BY <3>2 DEF HasAll, HasAny
    <3> QED BY <3>1, <3>3, <3>4
  <2>8. CASE Verdict = Refused("INSUFFICIENT_ROLE", "any_role_of")
    <3>1. /\ Verdict.carries = "any_role_of" /\ Verdict.carries = Order[4]
          /\ scopes_refusal(field, token, options, alls) = Allowed
          /\ roles_refusal(field, token) = Verdict
      BY <2>2, <2>8, HelpersAnswer, Ordered DEF Refused, Allowed
    <3>2. ~HasAny(field.any_role_of, token.roles) /\ HasAll(field.roles, token.roles)
      BY <2>8, <3>1 DEF roles_refusal, Refused, Allowed
    <3>3. ASSUME NEW remedy \in Remedies("any_role_of")
          PROVE  Further(Retried("any_role_of", remedy), Verdict)
      <4> DEFINE t == [token EXCEPT !.roles = @ \cup remedy]
      <4>1. \E x \in field.any_role_of : remedy = {x}
        BY <3>3 DEF Remedies
      <4>2. remedy \in SUBSET Roles
        BY <2>1, <4>1 DEF AllFields
      <4>3. t # None /\ ~t.guest /\ t.scopes = token.scopes /\ t.roles = token.roles \cup remedy
        BY <2>4, <4>2
      <4>4. Retried("any_role_of", remedy) = check(field, t, member, options, alls)
        BY DEF Retried
      <4> HIDE DEF t
      <4>5. HasAny(field.any_role_of, t.roles) /\ HasAll(field.roles, t.roles)
        BY <3>2, <4>1, <4>3 DEF HasAll, HasAny
      <4>6. roles_refusal(field, t) # Refused("INSUFFICIENT_ROLE", "roles")
        BY <4>5 DEF roles_refusal, Refused, Allowed
      <4>7. roles_refusal(field, t) # Refused("INSUFFICIENT_ROLE", "any_role_of")
        BY <4>5 DEF roles_refusal, Refused, Allowed
      <4>8. scopes_refusal(field, t, options, alls) = Allowed
        BY <3>1, <4>3 DEF scopes_refusal
      <4> DEFINE answer == check(field, t, member, options, alls)
      <4>9. \/ answer = Allowed
            \/ answer \in {Refused("INSUFFICIENT_ORGANIZATION_ROLE", "org_roles"),
                          Refused("INSUFFICIENT_ORGANIZATION_ROLE", "any_org_role_of")}
        BY <4>3, <4>6, <4>7, <4>8, FullAnswers, HelpersAnswer
      <4>10. answer = Allowed \/ \E j \in 1 .. 6 : 4 < j /\ answer.carries = Order[j]
        BY <4>9, Ordered DEF Refused
      <4> QED BY <3>1, <4>4, <4>10, Later
    <3>4. field["any_role_of"] # {}
      BY <3>2 DEF HasAll, HasAny
    <3> QED BY <3>1, <3>3, <3>4
  <2>9. CASE Verdict = Refused("INSUFFICIENT_ORGANIZATION_ROLE", "org_roles")
    <3>1. /\ Verdict.carries = "org_roles" /\ Verdict.carries = Order[5]
          /\ scopes_refusal(field, token, options, alls) = Allowed
          /\ alls.role \notin token.roles /\ roles_refusal(field, token) = Allowed
          /\ org_roles_refusal(field, member) = Verdict
      BY <2>2, <2>9, HelpersAnswer, Ordered DEF Refused, Allowed
    <3>2. ~HasAll(field.org_roles, member)
      BY <2>9, <3>1 DEF org_roles_refusal, Refused, Allowed
    <3>3. ASSUME NEW remedy \in Remedies("org_roles")
          PROVE  Further(Retried("org_roles", remedy), Verdict)
      <4> DEFINE m == member \cup remedy
      <4>1. remedy = field.org_roles
        BY <3>3 DEF Remedies
      <4>2. HasAll(field.org_roles, m)
        BY <3>2, <4>1, Remedied
      <4>3. Retried("org_roles", remedy) = check(field, token, m, options, alls)
        BY DEF Retried
      <4> HIDE DEF m
      <4>4. check(field, token, m, options, alls) = org_roles_refusal(field, m)
        BY <3>1, FullAnswers
      <4> DEFINE answer == check(field, token, m, options, alls)
      <4>5. answer = Allowed \/ answer = Refused("INSUFFICIENT_ORGANIZATION_ROLE", "any_org_role_of")
        BY <4>2, <4>4 DEF org_roles_refusal
      <4>6. answer = Allowed \/ \E j \in 1 .. 6 : 5 < j /\ answer.carries = Order[j]
        BY <4>5, Ordered DEF Refused
      <4> QED BY <3>1, <4>3, <4>6, Later
    <3>4. field["org_roles"] # {}
      BY <3>2 DEF HasAll, HasAny
    <3> QED BY <3>1, <3>3, <3>4
  <2>10. CASE Verdict = Refused("INSUFFICIENT_ORGANIZATION_ROLE", "any_org_role_of")
    <3>1. /\ Verdict.carries = "any_org_role_of" /\ Verdict.carries = Order[6]
          /\ scopes_refusal(field, token, options, alls) = Allowed
          /\ alls.role \notin token.roles /\ roles_refusal(field, token) = Allowed
          /\ org_roles_refusal(field, member) = Verdict
      BY <2>2, <2>10, HelpersAnswer, Ordered DEF Refused, Allowed
    <3>2. ~HasAny(field.any_org_role_of, member) /\ HasAll(field.org_roles, member)
      BY <2>10, <3>1 DEF org_roles_refusal, Refused, Allowed
    <3>3. ASSUME NEW remedy \in Remedies("any_org_role_of")
          PROVE  Further(Retried("any_org_role_of", remedy), Verdict)
      <4> DEFINE m == member \cup remedy
      <4>1. \E x \in field.any_org_role_of : remedy = {x}
        BY <3>3 DEF Remedies
      <4>2. HasAny(field.any_org_role_of, m) /\ HasAll(field.org_roles, m)
        BY <3>2, <4>1, Remedied
      <4>3. Retried("any_org_role_of", remedy) = check(field, token, m, options, alls)
        BY DEF Retried
      <4> HIDE DEF m
      <4>4. check(field, token, m, options, alls) = org_roles_refusal(field, m)
        BY <3>1, FullAnswers
      <4> DEFINE answer == check(field, token, m, options, alls)
      <4>5. answer = Allowed
        BY <4>2, <4>4 DEF org_roles_refusal
      <4>6. answer = Allowed \/ \E j \in 1 .. 6 : 6 < j /\ answer.carries = Order[j]
        BY <4>5, Ordered DEF Refused
      <4> QED BY <3>1, <4>3, <4>6, Later
    <3>4. field["any_org_role_of"] # {}
      BY <3>2 DEF HasAll, HasAny
    <3> QED BY <3>1, <3>3, <3>4
  <2> QED BY <2>2, <2>5, <2>6, <2>7, <2>8, <2>9, <2>10, HelpersAnswer
<1> QED BY <1>1, TypeCorrect, PTL
=============================================================================
