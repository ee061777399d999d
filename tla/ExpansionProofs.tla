--------------------------- MODULE ExpansionProofs ---------------------------
(***************************************************************************)
(* Proofs about Expansion, for any requests, tokens, tables and edits.     *)
(***************************************************************************)
EXTENDS Expansion, TLAPS

USE TokensAssumption, BoundsAssumption, NoneAssumption, NoneIsNoRow DEF Hashes

(* What q reads of itself stays. *)
LocalsKept(q) ==
    /\ pc'[q] = pc[q] /\ token'[q] = token[q] /\ organization'[q] = organization[q]
    /\ user'[q] = user[q] /\ context'[q] = context[q] /\ client'[q] = client[q]
    /\ missing'[q] = missing[q]

(* What a step of somebody else may do to the rows that q has read or      *)
(* written.                                                                *)
RowsKept ==
    /\ \A o \in Orgs : organizations[o] # 0 => organizations'[o] = organizations[o]
    /\ \A s \in Subs : users[s] # None => users'[s] # None /\ users'[s].pk = users[s].pk
    /\ \A c \in Clients :
          clients[c] # None =>
             /\ clients'[c] # None /\ clients'[c].pk = clients[c].pk
             /\ \A f \in Fields : clients[c][f] # None => clients'[c][f] # None

KeysMove ==
    /\ lastKey.org <= lastKey'.org
    /\ \A o \in Orgs : organizations'[o] \in {organizations[o], 0} \/ organizations'[o] > lastKey.org

WorldOf(q) ==
    /\ undeleted'[q] => undeleted[q] /\ RowsKept
    /\ alone'[q] /\ token[q] # None =>
          /\ alone[q]
          /\ users'[token[q].sub] # None =>
                users[token[q].sub] # None /\ users'[token[q].sub].hash = users[token[q].sub].hash
    /\ barred'[q] =>
          /\ barred[q]
          /\ token[q] # None =>
                \A s \in Subs, o \in Orgs :
                   token[q].sub = s /\ token[q].org = o /\ Blocked(s, o) => Blocked(s, o)'

LEMMA TokenTypes ==
    ASSUME TypeOK, NEW r \in Requests, token[r] # None
    PROVE  /\ token[r] \in Tokens /\ token[r].sub \in Subs /\ token[r].claims \in Claims /\ token[r].client \in Clients
           /\ token[r].org \in Optional(Orgs) /\ token[r].device \in Optional(Devices)
           /\ token[r].release \in Optional(Releases)
BY DEF TypeOK, AllTokens

(* A request that stands still keeps what it has. *)
LEMMA Others ==
    ASSUME IInv, TypeOK', KeysMove, NEW q \in Requests, LocalsKept(q), WorldOf(q)
    PROVE  ExpansionOK(q)'
<1>1. TypeOK /\ KeysOK /\ RequestOK(q) /\ MirrorOK(q) /\ RowsOK(q) /\ ColumnsOK(q) /\ BarredOK(q)
  BY DEF IInv, ExpansionOK
<1>2. lastKey.org \in Int /\ lastKey'.org \in Int /\ lastKey.org <= lastKey'.org /\ organization[q] \in Int
  BY <1>1 DEF TypeOK, KeysMove, Keys
<1>3. RequestOK(q)'
  BY <1>1, <1>2 DEF RequestOK, LocalsKept, Past, Synced
<1>4. Past(q) => token[q] # None /\ token[q].org \in Orgs /\ organization[q] \in 1..lastKey.org
  BY <1>1, TokenTypes DEF RequestOK, Past, Optional
<1>5. Past(q) /\ OrganizationExists(q)' => OrganizationExists(q)
  <2> SUFFICES ASSUME Past(q), OrganizationExists(q)' PROVE OrganizationExists(q)
    OBVIOUS
  <2>1. organizations'[token[q].org] = organization[q] /\ organization[q] \in 1..lastKey.org /\ token[q].org \in Orgs
    BY <1>4 DEF OrganizationExists, LocalsKept
  <2>2. organizations'[token[q].org] # 0 /\ ~(organizations'[token[q].org] > lastKey.org)
    BY <1>2, <2>1
  <2> QED BY <2>1, <2>2 DEF KeysMove, OrganizationExists
<1>6. Synced(q) => Past(q) /\ token[q].sub \in Subs
  BY <1>1, <1>4, TokenTypes DEF Synced, Past
<1>7. MirrorOK(q)'
  BY <1>1, <1>4, <1>5, <1>6 DEF MirrorOK, LocalsKept, WorldOf, Synced, changed_hash
<1>8. RowsOK(q)'
  <2>1. CASE pc[q] = "idle"
    BY <2>1 DEF RowsOK, LocalsKept, Past, Synced
  <2>2. CASE pc[q] # "idle"
    <3>1. token[q] # None /\ token[q].sub \in Subs
      BY <1>1, <2>2, TokenTypes DEF RequestOK
    <3>2. Past(q) /\ undeleted'[q] => OrganizationExists(q)'
      BY <1>1, <1>2, <1>4 DEF RowsOK, WorldOf, RowsKept, OrganizationExists, LocalsKept
    <3> QED BY <1>1, <3>1, <3>2 DEF RowsOK, WorldOf, RowsKept, LocalsKept, Past, Synced, UserStands
  <2> QED BY <2>1, <2>2
<1>9. ColumnsOK(q)'
  <2>1. pc[q] \in Fields \cup {"membership"} => token[q] # None /\ token[q].client \in Clients
    BY <1>1, TokenTypes DEF RequestOK, Fields
  <2>2. undeleted'[q] /\ pc[q] \in Fields \cup {"membership"} =>
           /\ clients'[token[q].client] # None /\ clients'[token[q].client].pk = clients[token[q].client].pk
           /\ \A f \in Fields : clients[token[q].client][f] # None => clients'[token[q].client][f] # None
    BY <1>1, <2>1 DEF ColumnsOK, WorldOf, RowsKept
  <2> QED BY <1>1, <2>2 DEF ColumnsOK, ClientStands, LocalsKept, WorldOf
<1>10. BarredOK(q)'
  <2> SUFFICES ASSUME barred'[q]
               PROVE  token'[q] # None /\ token'[q].org # None /\ Blocked(token[q].sub, token[q].org)'
    BY DEF BarredOK
  <2>1. token[q] # None /\ token[q].org \in Orgs /\ token[q].sub \in Subs /\ Blocked(token[q].sub, token[q].org)
    BY <1>1, TokenTypes DEF BarredOK, WorldOf, Optional
  <2>2. memberships'[<<token[q].sub, token[q].org>>] # None /\ memberships'[<<token[q].sub, token[q].org>>].blocked
    BY <2>1 DEF WorldOf, Blocked
  <2> QED BY <2>1, <2>2 DEF LocalsKept, Blocked
<1> QED BY <1>3, <1>7, <1>8, <1>9, <1>10 DEF ExpansionOK

(* A step of r has to answer for r and for the tables. *)
LEMMA Step ==
    ASSUME IInv, TypeOK', HashHonest', KeysOK', AloneOK', KeysMove, NEW r \in Requests, ExpansionOK(r)',
           \A q \in Requests \ {r} : LocalsKept(q) /\ WorldOf(q)
    PROVE  IInv'
<1>1. \A q \in Requests \ {r} : ExpansionOK(q)'
  BY Others
<1> QED BY <1>1 DEF IInv

(* The tables, as far as the types go. *)
TablesOK ==
    /\ organizations \in [Orgs -> Keys]
    /\ users \in [Subs -> UserRow \cup {None}]
    /\ memberships \in [Subs \X Orgs -> MembershipRow \cup {None}]
    /\ clients \in [Clients -> ClientRow \cup {None}]
    /\ related \subseteq RelatedRow
    /\ lastKey \in [org : Keys, user : Keys, client : Keys]

LEMMA BooleanExcept ==
    ASSUME NEW S, NEW f \in [S -> BOOLEAN], NEW x, NEW b \in BOOLEAN
    PROVE  [f EXCEPT ![x] = b] \in [S -> BOOLEAN]
OBVIOUS

(* Where the tables are not written they stay in order. *)
LEMMA Quiet ==
    ASSUME IInv, UNCHANGED tables
    PROVE  /\ TablesOK' /\ HashHonest' /\ KeysOK' /\ KeysMove
           /\ \A q \in Requests :
                 /\ undeleted'[q] => undeleted[q]
                 /\ alone'[q] => alone[q]
                 /\ barred'[q] => barred[q]
                 => WorldOf(q)
<1>1. TablesOK' /\ HashHonest' /\ KeysOK'
  BY DEF IInv, TypeOK, TablesOK, HashHonest, KeysOK, tables
<1>2. KeysMove
  BY DEF IInv, TypeOK, KeysMove, tables, Keys
<1>3. RowsKept
  BY DEF RowsKept, tables
<1>4. ASSUME NEW q \in Requests, undeleted'[q] => undeleted[q], alone'[q] => alone[q], barred'[q] => barred[q]
      PROVE  WorldOf(q)
  <2>1. users' = users /\ memberships' = memberships
    BY DEF tables
  <2>2. \A s \in Subs, o \in Orgs : Blocked(s, o) => Blocked(s, o)'
    BY <2>1 DEF Blocked
  <2> QED BY <1>3, <1>4, <2>1, <2>2 DEF WorldOf
<1> QED BY <1>1, <1>2, <1>3, <1>4

(* The end of a request. *)
LEMMA FinishStep ==
    ASSUME IInv, NEW r \in Requests, NEW o \in Outcomes, Finish(r, o), UNCHANGED edits,
           TablesOK', HashHonest', KeysOK', KeysMove, \A q \in Requests \ {r} : WorldOf(q)
    PROVE  IInv'
<1>1. TypeOK
  BY DEF IInv
<1>2. alone' \in [Requests -> BOOLEAN]
  BY <1>1, BooleanExcept DEF TypeOK, Finish, Forget
<1>3. undeleted' \in [Requests -> BOOLEAN]
  BY <1>1, BooleanExcept DEF TypeOK, Finish, Forget
<1>4. barred' \in [Requests -> BOOLEAN]
  BY <1>1, BooleanExcept DEF TypeOK, Finish, Forget
<1>5. /\ pc' \in [Requests -> Steps] /\ token' \in [Requests -> Tokens \cup {None}]
      /\ organization' \in [Requests -> Keys] /\ user' \in [Requests -> Keys]
  BY <1>1 DEF TypeOK, Finish, Goto, Steps, Keys
<1>6. /\ context' \in [Requests -> [claims : Optional(Claims), org : Keys]]
      /\ client' \in [Requests -> Keys] /\ missing' \in [Requests -> SUBSET {"device", "release"}]
  BY <1>1 DEF TypeOK, Finish, NoContext, Optional, Keys
<1>7. TypeOK'
  BY <1>1, <1>2, <1>3, <1>4, <1>5, <1>6 DEF TypeOK, TablesOK, Finish
<1>8. \A q \in Requests \ {r} : LocalsKept(q)
  BY <1>1 DEF TypeOK, Finish, Goto, LocalsKept
<1>9. pc'[r] = "idle" /\ token'[r] = None /\ missing'[r] = {} /\ ~alone'[r] /\ ~undeleted'[r] /\ ~barred'[r]
  BY <1>1 DEF TypeOK, Finish, Goto, Forget
<1>10. ExpansionOK(r)'
  BY <1>9 DEF ExpansionOK, RequestOK, MirrorOK, RowsOK, ColumnsOK, BarredOK, Past, Synced, Fields
<1>11. AloneOK'
  <2>1. \A q \in Requests \ {r} : (alone'[q] => alone[q]) /\ token'[q] = token[q]
    BY <1>1, <1>8 DEF TypeOK, Finish, Forget, LocalsKept
  <2> QED BY <1>9, <2>1 DEF IInv, AloneOK
<1> QED BY <1>7, <1>8, <1>10, <1>11, Step

(* A step within a request. *)
LEMMA GoStep ==
    ASSUME IInv, NEW r \in Requests, pc[r] # "idle", NEW l \in Steps, Goto(r, l), GoesOn, UNCHANGED <<token, edits>>,
           NEW k \in Keys, organization' = [organization EXCEPT ![r] = k],
           NEW u \in Keys, user' = [user EXCEPT ![r] = u],
           NEW c \in [claims : Optional(Claims), org : Keys], context' = [context EXCEPT ![r] = c],
           NEW d \in Keys, client' = [client EXCEPT ![r] = d],
           NEW m \in SUBSET Fields, missing' = [missing EXCEPT ![r] = m],
           TablesOK', HashHonest', KeysOK', KeysMove, \A q \in Requests \ {r} : WorldOf(q), ExpansionOK(r)'
    PROVE  IInv'
<1>1. TypeOK
  BY DEF IInv
<1>2. /\ pc' \in [Requests -> Steps] /\ token' \in [Requests -> Tokens \cup {None}]
      /\ organization' \in [Requests -> Keys] /\ user' \in [Requests -> Keys]
  BY <1>1 DEF TypeOK, Goto
<1>3. /\ context' \in [Requests -> [claims : Optional(Claims), org : Keys]]
      /\ client' \in [Requests -> Keys] /\ missing' \in [Requests -> SUBSET {"device", "release"}]
  BY <1>1 DEF TypeOK, Fields
<1>4. TypeOK'
  BY <1>1, <1>2, <1>3 DEF TypeOK, TablesOK, GoesOn, history, Outcomes
<1>5. \A q \in Requests \ {r} : LocalsKept(q)
  BY <1>1 DEF TypeOK, Goto, LocalsKept
<1>6. AloneOK'
  BY DEF IInv, AloneOK, GoesOn, history
<1> QED BY <1>4, <1>5, <1>6, Step

(* A request that knows its organization. *)
LEMMA Known ==
    ASSUME IInv, NEW r \in Requests, Past(r)
    PROVE  /\ TypeOK /\ pc[r] # "idle" /\ token[r] # None /\ token[r] \in Tokens
           /\ token[r].sub \in Subs /\ token[r].claims \in Claims /\ token[r].client \in Clients
           /\ token[r].org \in Orgs /\ token[r].org # None
           /\ organization[r] \in 1..MaxKey /\ organization[r] \in Keys /\ organization[r] \in 1..lastKey.org
           /\ user[r] \in Keys /\ context[r] \in [claims : Optional(Claims), org : Keys] /\ client[r] \in Keys
           /\ missing[r] \in SUBSET Fields
           /\ RequestOK(r) /\ MirrorOK(r) /\ RowsOK(r) /\ ColumnsOK(r) /\ BarredOK(r)
<1>1. TypeOK /\ ExpansionOK(r)
  BY DEF IInv
<1>2. token[r] # None /\ token[r].org # None /\ organization[r] \in 1..lastKey.org /\ pc[r] # "idle"
  BY <1>1 DEF ExpansionOK, RequestOK, Past
<1>3. lastKey.org \in 0..MaxKey
  BY <1>1 DEF TypeOK, Keys
<1>4. organization[r] \in 1..MaxKey /\ organization[r] \in Keys
  BY <1>2, <1>3 DEF Keys
<1>5. /\ user[r] \in Keys /\ context[r] \in [claims : Optional(Claims), org : Keys]
      /\ client[r] \in Keys /\ missing[r] \in SUBSET Fields
  BY <1>1 DEF TypeOK, Fields
<1> QED BY <1>1, <1>2, <1>4, <1>5, TokenTypes DEF ExpansionOK, Optional

(* What is not written keeps its place in the EXCEPTs of GoStep. *)
LEMMA Kept ==
    ASSUME TypeOK, NEW r \in Requests
    PROVE  /\ organization = [organization EXCEPT ![r] = organization[r]]
           /\ user = [user EXCEPT ![r] = user[r]]
           /\ context = [context EXCEPT ![r] = context[r]]
           /\ client = [client EXCEPT ![r] = client[r]]
           /\ missing = [missing EXCEPT ![r] = missing[r]]
BY DEF TypeOK

LEMMA BeginStep ==
    ASSUME IInv, NEW r \in Requests, NEW t \in Tokens, Begin(r, t)
    PROVE  IInv'
<1> DEFINE beside == {p \in Requests \ {r} : token[p] # None /\ token[p].sub = t.sub}
<1>1. TypeOK /\ pc[r] = "idle" /\ missing[r] = {}
  BY DEF IInv, Begin, ExpansionOK, ColumnsOK, Fields
<1>2. UNCHANGED <<tables, organization, user, context, client, missing, edits>> /\ outcome' = "none"
      /\ pc' = [pc EXCEPT ![r] = "organization"] /\ token' = [token EXCEPT ![r] = t]
  BY DEF Begin, Goto
<1>3. alone' = [q \in Requests |-> IF q = r THEN beside = {} ELSE alone[q] /\ q \notin beside]
  BY DEF Begin
<1>4. undeleted' = [undeleted EXCEPT ![r] = TRUE]
      /\ barred' = [barred EXCEPT ![r] = t.org # None /\ Blocked(t.sub, t.org)]
  BY DEF Begin
<1>5. alone' \in [Requests -> BOOLEAN]
  BY <1>1, <1>3 DEF TypeOK
<1>6. undeleted' \in [Requests -> BOOLEAN]
  BY <1>1, <1>4, BooleanExcept DEF TypeOK
<1>7. barred' \in [Requests -> BOOLEAN]
  <2>1. (t.org # None /\ Blocked(t.sub, t.org)) \in BOOLEAN
    OBVIOUS
  <2> QED BY <1>1, <1>4, <2>1, BooleanExcept DEF TypeOK
<1>8. TypeOK'
  BY <1>1, <1>2, <1>5, <1>6, <1>7 DEF TypeOK, tables, Steps, Outcomes
<1>9. ASSUME NEW q \in Requests \ {r}
      PROVE  LocalsKept(q) /\ WorldOf(q)
  <2>1. (alone'[q] => alone[q]) /\ undeleted'[q] = undeleted[q] /\ barred'[q] = barred[q]
    BY <1>1, <1>3, <1>4 DEF TypeOK
  <2> QED BY <1>1, <1>2, <2>1, Quiet DEF TypeOK, LocalsKept
<1>10. ExpansionOK(r)'
  <2>1. pc'[r] = "organization" /\ token'[r] = t /\ t # None /\ missing'[r] = {}
    BY <1>1, <1>2 DEF TypeOK
  <2>2. barred'[r] => t.org # None /\ Blocked(t.sub, t.org)
    BY <1>1, <1>4 DEF TypeOK
  <2>3. BarredOK(r)'
    BY <1>2, <2>1, <2>2 DEF BarredOK, Blocked, tables
  <2> QED BY <2>1, <2>3 DEF ExpansionOK, RequestOK, MirrorOK, RowsOK, ColumnsOK, Past, Synced, Fields
<1>11. AloneOK'
  <2> SUFFICES ASSUME NEW p \in Requests, NEW q \in Requests, alone'[p], token'[p] # None, token'[q] # None, q # p
               PROVE  token'[q].sub # token'[p].sub
    BY DEF AloneOK
  <2>1. CASE p = r
    BY <1>1, <1>2, <1>3, <2>1 DEF TypeOK
  <2>2. CASE q = r
    BY <1>1, <1>2, <1>3, <2>2 DEF TypeOK
  <2>3. CASE p # r /\ q # r
    BY <1>1, <1>2, <1>3, <2>3 DEF TypeOK, IInv, AloneOK
  <2> QED BY <2>1, <2>2, <2>3
<1>12. HashHonest' /\ KeysOK' /\ KeysMove
  BY <1>2, Quiet
<1> QED BY <1>8, <1>9, <1>10, <1>11, <1>12, Step

LEMMA ExpandOrganizationStep ==
    ASSUME IInv, NEW r \in Requests, ExpandOrganization(r)
    PROVE  IInv'
<1>1. TypeOK /\ pc[r] = "organization" /\ RequestOK(r) /\ ColumnsOK(r) /\ BarredOK(r) /\ token[r] # None
  BY DEF IInv, ExpansionOK, ExpandOrganization, RequestOK
<1>2. token[r].org # None => token[r].org \in Orgs
  BY <1>1, TokenTypes DEF Optional
<1>3. UNCHANGED <<users, memberships, clients, related, edits>>
  BY DEF ExpandOrganization
<1>4. CASE Finish(r, "no_organization") /\ UNCHANGED <<organizations, lastKey>>
  <2>1. "no_organization" \in Outcomes /\ UNCHANGED tables
    BY <1>3, <1>4 DEF Outcomes, tables
  <2>2. \A q \in Requests \ {r} : undeleted'[q] = undeleted[q] /\ alone'[q] = alone[q] /\ barred'[q] = barred[q]
    BY <1>1, <1>4 DEF TypeOK, Finish, Forget
  <2> QED BY <1>3, <1>4, <2>1, <2>2, Quiet, FinishStep
<1>5. ASSUME NEW k \in Keys, organization' = [organization EXCEPT ![r] = k], Goto(r, "find"), GoesOn,
             UNCHANGED <<token, user, context, client, missing>>, token[r].org # None,
             TablesOK', HashHonest', KeysOK', KeysMove, RowsKept, k # 0, organizations'[token[r].org] = k
      PROVE  IInv'
  <2>1. \A q \in Requests \ {r} : WorldOf(q)
    BY <1>3, <1>5 DEF WorldOf, GoesOn, history, Blocked
  <2>2. /\ pc'[r] = "find" /\ token'[r] = token[r] /\ organization'[r] = k /\ missing'[r] = missing[r] /\ missing[r] = {}
        /\ barred' = barred
    BY <1>1, <1>5 DEF TypeOK, Goto, ColumnsOK, Fields, GoesOn, history
  <2>3. organization'[r] \in 1..lastKey'.org
    <3>1. k <= lastKey'.org /\ k \in 0..MaxKey /\ lastKey'.org \in 0..MaxKey
      BY <1>2, <1>5 DEF KeysOK, TablesOK, Keys
    <3> QED BY <1>5, <2>2, <3>1
  <2>4. ExpansionOK(r)'
    <3>1. RequestOK(r)' /\ MirrorOK(r)'
      BY <1>1, <1>5, <2>2, <2>3 DEF RequestOK, MirrorOK, Past, Synced
    <3>2. RowsOK(r)' /\ ColumnsOK(r)'
      BY <1>5, <2>2 DEF RowsOK, ColumnsOK, Past, Synced, Fields, OrganizationExists
    <3>3. BarredOK(r)'
      BY <1>1, <1>3, <2>2 DEF BarredOK, Blocked
    <3> QED BY <3>1, <3>2, <3>3 DEF ExpansionOK
  <2>5. /\ user[r] \in Keys /\ context[r] \in [claims : Optional(Claims), org : Keys]
        /\ client[r] \in Keys /\ missing[r] \in SUBSET Fields
    BY <1>1 DEF TypeOK, Fields
  <2>6. "find" \in Steps /\ pc[r] # "idle"
    BY <1>1 DEF Steps
  <2> QED BY <1>1, <1>3, <1>5, <2>1, <2>4, <2>5, <2>6, Kept, GoStep
<1>6. CASE /\ token[r].org # None /\ organizations[token[r].org] # 0
           /\ organization' = [organization EXCEPT ![r] = organizations[token[r].org]]
           /\ Goto(r, "find") /\ GoesOn
           /\ UNCHANGED <<organizations, lastKey, token, user, context, client, missing>>
  <2>1. UNCHANGED tables
    BY <1>3, <1>6 DEF tables
  <2>2. organizations[token[r].org] \in Keys
    BY <1>1, <1>2, <1>6 DEF TypeOK
  <2>3. RowsKept
    BY <2>1 DEF RowsKept, tables
  <2> QED BY <1>5, <1>6, <2>1, <2>2, <2>3, Quiet
<1>7. CASE /\ token[r].org # None /\ organizations[token[r].org] = 0 /\ lastKey.org < MaxKey
           /\ lastKey' = [lastKey EXCEPT !.org = @ + 1]
           /\ organizations' = [organizations EXCEPT ![token[r].org] = lastKey'.org]
           /\ organization' = [organization EXCEPT ![r] = lastKey'.org]
           /\ Goto(r, "find") /\ GoesOn /\ UNCHANGED <<token, user, context, client, missing>>
  <2>1. /\ lastKey.org \in 0..MaxKey /\ lastKey'.org = lastKey.org + 1 /\ lastKey' \in [org : Keys, user : Keys, client : Keys]
        /\ lastKey'.org \in Keys /\ lastKey'.org # 0
    <3>1. lastKey.org \in 0..MaxKey /\ lastKey \in [org : Keys, user : Keys, client : Keys]
      BY <1>1 DEF TypeOK, Keys
    <3> QED BY <1>7, <3>1 DEF Keys
  <2>2. organizations' \in [Orgs -> Keys] /\ organizations'[token[r].org] = lastKey'.org
        /\ \A o \in Orgs \ {token[r].org} : organizations'[o] = organizations[o]
    BY <1>1, <1>2, <1>7, <2>1 DEF TypeOK
  <2>3. TablesOK'
    BY <1>1, <1>3, <2>1, <2>2 DEF TypeOK, TablesOK
  <2>4. KeysOK' /\ KeysMove
    <3>1. \A o \in Orgs : organizations[o] <= lastKey.org /\ organizations[o] \in 0..MaxKey
      BY <1>1 DEF IInv, KeysOK, TypeOK, Keys
    <3> QED BY <2>1, <2>2, <3>1 DEF KeysOK, KeysMove
  <2>5. RowsKept
    BY <1>2, <1>3, <1>7, <2>2 DEF RowsKept
  <2>6. HashHonest'
    <3> SUFFICES ASSUME NEW s \in Subs, users[s] # None
                 PROVE  /\ users[s].claims = users[s].hash.claims
                        /\ users[s].org \in {0, organizations'[users[s].hash.org]}
      BY <1>3 DEF HashHonest
    <3>1. users[s].hash.org \in Orgs /\ users[s].claims = users[s].hash.claims
          /\ users[s].org \in {0, organizations[users[s].hash.org]}
      BY <1>1 DEF IInv, HashHonest, TypeOK, UserRow
    <3> QED BY <1>7, <2>2, <3>1
  <2> QED BY <1>5, <1>7, <2>1, <2>2, <2>3, <2>4, <2>5, <2>6
<1> QED BY <1>4, <1>6, <1>7 DEF ExpandOrganization

(* A row of this user was read. *)
LEMMA FoundStep ==
    ASSUME IInv, NEW r \in Requests, pc[r] \in {"find", "refind"}, users[token[r].sub] # None,
           Found(r, users[token[r].sub]), GoesOn, UNCHANGED <<tables, token, organization, client, missing, edits>>
    PROVE  IInv'
<1> DEFINE row == users[token[r].sub]
           l == IF row.hash = changed_hash(token[r]) THEN "relations" ELSE "save"
           c == [claims |-> row.claims, org |-> row.org]
<1>1. Past(r)
  BY DEF Past
<1>2. TypeOK /\ row \in UserRow /\ missing[r] = {}
  <2>1. TypeOK /\ token[r].sub \in Subs /\ ColumnsOK(r)
    BY <1>1, Known
  <2>2. row \in UserRow
    BY <2>1 DEF TypeOK
  <2> QED BY <2>1, <2>2 DEF ColumnsOK, Fields
<1>3. row.pk \in Keys /\ row.pk # 0 /\ c \in [claims : Optional(Claims), org : Keys]
  BY <1>2 DEF UserRow, Keys, Optional
<1>4. /\ pc'[r] = l /\ user'[r] = row.pk /\ context'[r] = c /\ token'[r] = token[r] /\ organization'[r] = organization[r]
      /\ missing'[r] = {} /\ UNCHANGED <<tables, history, token, organization>>
  BY <1>2 DEF TypeOK, Found, Goto, GoesOn
<1>5. pc'[r] \in {"relations", "save"} /\ l \in Steps
  BY <1>4 DEF Steps
<1>6. RequestOK(r)'
  BY <1>1, <1>3, <1>4, <1>5, Known DEF RequestOK, Past, Synced, tables
<1>7. MirrorOK(r)'
  <2> SUFFICES ASSUME pc'[r] = "relations" PROVE MirrorOK(r)'
    BY <1>5 DEF MirrorOK, Synced
  <2>1. row.hash = changed_hash(token[r])
    BY <1>4
  <2>2. row.claims = token[r].claims /\ row.org \in {0, organizations[token[r].org]}
    BY <1>1, <2>1, Known DEF IInv, HashHonest, changed_hash
  <2> QED BY <1>4, <2>1, <2>2 DEF MirrorOK, OrganizationExists, changed_hash, tables
<1>8. RowsOK(r)'
  BY <1>1, <1>4, <1>5, Known DEF RowsOK, Past, Synced, UserStands, OrganizationExists, tables, history
<1>9. ColumnsOK(r)' /\ BarredOK(r)'
  BY <1>1, <1>4, <1>5, Known DEF ColumnsOK, BarredOK, Blocked, Fields, tables, history
<1>10. ExpansionOK(r)'
  BY <1>6, <1>7, <1>8, <1>9 DEF ExpansionOK
<1>11. \A q \in Requests \ {r} : WorldOf(q)
  BY Quiet DEF GoesOn, history
<1>12. /\ pc[r] # "idle" /\ Goto(r, l) /\ user' = [user EXCEPT ![r] = row.pk] /\ context' = [context EXCEPT ![r] = c]
       /\ organization[r] \in Keys /\ client[r] \in Keys /\ missing[r] \in SUBSET Fields
  BY <1>1, Known DEF Found
<1> HIDE DEF row, l, c
<1> QED BY <1>2, <1>3, <1>5, <1>10, <1>11, <1>12, Kept, Quiet, GoStep

LEMMA FindUserStep ==
    ASSUME IInv, NEW r \in Requests, FindUser(r)
    PROVE  IInv'
<1>1. pc[r] = "find" /\ Past(r) /\ GoesOn /\ UNCHANGED <<tables, token, organization, client, missing, edits>>
  BY DEF FindUser, Past
<1>2. CASE users[token[r].sub] # None /\ Found(r, users[token[r].sub])
  BY <1>1, <1>2, FoundStep
<1>3. CASE Goto(r, "insert") /\ UNCHANGED <<user, context>>
  <2>1. pc'[r] = "insert" /\ missing[r] = {}
    BY <1>1, <1>3, Known DEF TypeOK, Goto, ColumnsOK, Fields
  <2>2. ExpansionOK(r)'
    <3>1. RequestOK(r)' /\ MirrorOK(r)'
      BY <1>1, <1>3, <2>1, Known DEF RequestOK, MirrorOK, Past, Synced, tables
    <3>2. RowsOK(r)'
      BY <1>1, <1>3, <2>1, Known DEF RowsOK, Past, Synced, OrganizationExists, tables, GoesOn, history
    <3>3. ColumnsOK(r)' /\ BarredOK(r)'
      BY <1>1, <1>3, <2>1, Known DEF ColumnsOK, BarredOK, Blocked, Fields, tables, GoesOn, history
    <3> QED BY <3>1, <3>2, <3>3 DEF ExpansionOK
  <2>3. \A q \in Requests \ {r} : WorldOf(q)
    BY <1>1, Quiet DEF GoesOn, history
  <2>4. "insert" \in Steps /\ pc[r] # "idle"
    BY <1>1 DEF Steps
  <2> QED BY <1>1, <1>3, <2>2, <2>3, <2>4, Known, Kept, Quiet, GoStep
<1> QED BY <1>2, <1>3 DEF FindUser

(* A row that mirrors the token was written under the key pk. *)
LEMMA WrittenStep ==
    ASSUME IInv, NEW r \in Requests, pc[r] \in {"insert", "save"}, NEW pk \in 1..MaxKey, Written(r, Mirror(r, pk)),
           OrganizationExists(r), users[token[r].sub] # None => users[token[r].sub].pk = pk, GoesOn,
           lastKey' \in [org : Keys, user : Keys, client : Keys], lastKey'.org = lastKey.org,
           UNCHANGED <<organizations, memberships, clients, related, token, organization, client, missing, edits>>
    PROVE  IInv'
<1> DEFINE row == Mirror(r, pk)
           c == [claims |-> row.claims, org |-> row.org]
           s == token[r].sub
<1>1. Past(r)
  BY DEF Past
<1>2. TypeOK /\ s \in Subs /\ missing[r] = {} /\ organization[r] \in Keys /\ organization[r] # 0
  BY <1>1, Known DEF ColumnsOK, Fields
<1>3. /\ row.pk = pk /\ row.claims = token[r].claims /\ row.org = organization[r]
      /\ row.hash = changed_hash(token[r]) /\ row.hash.claims = token[r].claims /\ row.hash.org = token[r].org
  BY DEF Mirror, changed_hash
<1>4. row \in UserRow
  BY <1>1, Known DEF Mirror, UserRow, changed_hash
<1>5. pk \in Keys /\ pk # 0 /\ c \in [claims : Optional(Claims), org : Keys] /\ row # None
  BY <1>1, <1>3, <1>4, Known DEF Keys, Optional
<1> HIDE DEF row
<1>6. users' = [users EXCEPT ![s] = row] /\ user' = [user EXCEPT ![r] = pk] /\ context' = [context EXCEPT ![r] = c]
      /\ Goto(r, "relations")
  BY <1>3 DEF Written, row
<1>7. /\ pc'[r] = "relations" /\ user'[r] = pk /\ context'[r] = c /\ users'[s] = row /\ missing'[r] = {}
      /\ \A x \in Subs \ {s} : users'[x] = users[x]
  BY <1>2, <1>6 DEF TypeOK, Goto
<1>8. TablesOK'
  BY <1>2, <1>4, <1>6 DEF TypeOK, TablesOK
<1>9. HashHonest'
  <2> SUFFICES ASSUME NEW x \in Subs, users'[x] # None
               PROVE  users'[x].claims = users'[x].hash.claims /\ users'[x].org \in {0, organizations[users'[x].hash.org]}
    BY DEF HashHonest
  <2>1. CASE x = s
    BY <1>3, <1>7, <2>1 DEF OrganizationExists
  <2>2. CASE x # s
    BY <1>7, <2>2 DEF IInv, HashHonest
  <2> QED BY <2>1, <2>2
<1>10. KeysOK' /\ KeysMove
  BY <1>2 DEF IInv, KeysOK, KeysMove, TypeOK, Keys
<1>11. RowsKept
  BY <1>3, <1>5, <1>7 DEF RowsKept
<1>12. ASSUME NEW q \in Requests \ {r}
       PROVE  WorldOf(q)
  <2>1. UNCHANGED <<alone, undeleted, barred>>
    BY DEF GoesOn, history
  <2>2. alone[q] /\ token[q] # None => token[q].sub \in Subs \ {s}
    BY <1>1, <1>2, Known, TokenTypes DEF IInv, AloneOK
  <2>3. alone'[q] /\ token[q] # None => users'[token[q].sub] = users[token[q].sub]
    BY <1>7, <2>1, <2>2
  <2>4. \A x \in Subs, o \in Orgs : Blocked(x, o) => Blocked(x, o)'
    BY DEF Blocked
  <2> QED BY <1>11, <2>1, <2>3, <2>4 DEF WorldOf
<1>13. ExpansionOK(r)'
  <2>1. RequestOK(r)' /\ MirrorOK(r)'
    BY <1>1, <1>2, <1>3, <1>5, <1>7, Known DEF RequestOK, MirrorOK, Past, Synced, changed_hash
  <2>2. RowsOK(r)'
    BY <1>1, <1>3, <1>5, <1>7 DEF RowsOK, Past, Synced, UserStands, OrganizationExists
  <2>3. ColumnsOK(r)' /\ BarredOK(r)'
    BY <1>1, <1>7, Known DEF ColumnsOK, BarredOK, Blocked, Fields, GoesOn, history
  <2> QED BY <2>1, <2>2, <2>3 DEF ExpansionOK
<1>14. "relations" \in Steps /\ pc[r] # "idle" /\ client[r] \in Keys /\ missing[r] \in SUBSET Fields
  BY <1>1, Known DEF Steps
<1> HIDE DEF c, s
<1> QED BY <1>2, <1>5, <1>6, <1>8, <1>9, <1>10, <1>12, <1>13, <1>14, Kept, GoStep

(* A request ends without writing anything. *)
LEMMA QuietFinish ==
    ASSUME IInv, NEW r \in Requests, NEW o \in Outcomes, Finish(r, o), UNCHANGED <<tables, edits>>
    PROVE  IInv'
<1>1. \A q \in Requests \ {r} : undeleted'[q] = undeleted[q] /\ alone'[q] = alone[q] /\ barred'[q] = barred[q]
  BY DEF IInv, TypeOK, Finish, Forget
<1> QED BY <1>1, Quiet, FinishStep

LEMMA InsertUserStep ==
    ASSUME IInv, NEW r \in Requests, InsertUser(r)
    PROVE  IInv'
<1>1. /\ pc[r] = "insert" /\ Past(r) /\ GoesOn
      /\ UNCHANGED <<organizations, memberships, clients, related, token, organization, client, missing, edits>>
  BY DEF InsertUser, Past
<1>2. CASE /\ users[token[r].sub] = None /\ OrganizationExists(r) /\ lastKey.user < MaxKey
           /\ lastKey' = [lastKey EXCEPT !.user = @ + 1] /\ Written(r, Mirror(r, lastKey'.user))
  <2>1. lastKey.user \in 0..MaxKey /\ lastKey \in [org : Keys, user : Keys, client : Keys]
    BY DEF IInv, TypeOK, Keys
  <2>2. lastKey'.user \in 1..MaxKey /\ lastKey'.org = lastKey.org /\ lastKey' \in [org : Keys, user : Keys, client : Keys]
    BY <1>2, <2>1 DEF Keys
  <2> QED BY <1>1, <1>2, <2>2, WrittenStep
<1>3. CASE /\ ~(users[token[r].sub] = None /\ OrganizationExists(r)) /\ Goto(r, "refind")
           /\ UNCHANGED <<users, user, context, lastKey>>
  <2>1. pc'[r] = "refind" /\ missing[r] = {} /\ UNCHANGED tables
    <3>1. pc'[r] = "refind"
      BY <1>3 DEF IInv, TypeOK, Goto
    <3>2. missing[r] = {}
      BY <1>1, Known DEF ColumnsOK, Fields
    <3> QED BY <1>1, <1>3, <3>1, <3>2 DEF tables
  <2>2. ExpansionOK(r)'
    <3>1. RequestOK(r)' /\ MirrorOK(r)'
      BY <1>1, <1>3, <2>1, Known DEF RequestOK, MirrorOK, Past, Synced, tables
    <3>2. RowsOK(r)'
      BY <1>1, <1>3, <2>1, Known DEF RowsOK, Past, Synced, OrganizationExists, tables, GoesOn, history
    <3>3. ColumnsOK(r)' /\ BarredOK(r)'
      BY <1>1, <1>3, <2>1, Known DEF ColumnsOK, BarredOK, Blocked, Fields, tables, GoesOn, history
    <3> QED BY <3>1, <3>2, <3>3 DEF ExpansionOK
  <2>3. \A q \in Requests \ {r} : WorldOf(q)
    BY <1>1, <2>1, Quiet DEF GoesOn, history
  <2>4. "refind" \in Steps /\ pc[r] # "idle"
    BY <1>1 DEF Steps
  <2> QED BY <1>1, <1>3, <2>1, <2>2, <2>3, <2>4, Known, Kept, Quiet, GoStep
<1> QED BY <1>2, <1>3 DEF InsertUser

LEMMA RefindUserStep ==
    ASSUME IInv, NEW r \in Requests, RefindUser(r)
    PROVE  IInv'
<1>1. CASE Finish(r, "error")
  BY <1>1, QuietFinish DEF RefindUser, Outcomes
<1>2. CASE /\ users[token[r].sub] # None /\ Found(r, users[token[r].sub]) /\ GoesOn
           /\ UNCHANGED <<token, organization, client, missing>>
  BY <1>2, FoundStep DEF RefindUser
<1> QED BY <1>1, <1>2 DEF RefindUser

LEMMA SaveUserStep ==
    ASSUME IInv, NEW r \in Requests, SaveUser(r)
    PROVE  IInv'
<1>1. pc[r] = "save" /\ UNCHANGED <<organizations, memberships, clients, related, lastKey, edits>>
  BY DEF SaveUser
<1>2. CASE Finish(r, "error") /\ UNCHANGED users
  BY <1>1, <1>2, QuietFinish DEF tables, Outcomes
<1>3. CASE /\ OrganizationExists(r) /\ KeyIsFree(r) /\ Written(r, Mirror(r, user[r])) /\ GoesOn
           /\ UNCHANGED <<token, organization, client, missing>>
  <2>1. user[r] \in 1..MaxKey
    BY <1>1, Known DEF Past, RequestOK, Keys
  <2>2. lastKey' \in [org : Keys, user : Keys, client : Keys] /\ lastKey'.org = lastKey.org
    BY <1>1 DEF IInv, TypeOK
  <2> QED BY <1>1, <1>3, <2>1, <2>2, WrittenStep DEF KeyIsFree
<1> QED BY <1>2, <1>3 DEF SaveUser

LEMMA Resolving ==
    ASSUME TypeOK, NEW r \in Requests, ResolveRelations(r)
    PROVE  \E l \in {"relations", "client"} : Goto(r, l)
<1>1. pc = [pc EXCEPT ![r] = "relations"]
  BY DEF TypeOK, ResolveRelations
<1> QED BY <1>1 DEF ResolveRelations, Goto

LEMMA ResolveRelationsStep ==
    ASSUME IInv, NEW r \in Requests, ResolveRelations(r)
    PROVE  IInv'
<1>1. /\ pc[r] = "relations" /\ Past(r) /\ GoesOn /\ UNCHANGED <<locals, edits>>
      /\ UNCHANGED <<organizations, users, memberships, clients, lastKey>>
  BY DEF ResolveRelations, Past
<1>2. UNCHANGED <<token, organization, user, context, client, missing>>
  BY <1>1 DEF locals
<1>3. TypeOK /\ missing[r] = {} /\ token[r] # None
  <2>1. TypeOK /\ token[r] # None /\ ColumnsOK(r)
    BY <1>1, Known
  <2> QED BY <1>1, <2>1 DEF ColumnsOK, Fields
<1>4. PICK l \in {"relations", "client"} : Goto(r, l)
  BY <1>3, Resolving
<1>5. TablesOK'
  <2>1. Relations(token[r]) \subseteq RelatedRow
    BY <1>3, TokenTypes DEF Relations, RelatedRow, Optional
  <2>2. related' \subseteq related \cup Relations(token[r])
    BY DEF ResolveRelations
  <2>3. related' \subseteq RelatedRow
    BY <1>3, <2>1, <2>2 DEF TypeOK
  <2> QED BY <1>1, <1>3, <2>3 DEF TypeOK, TablesOK
<1>6. HashHonest' /\ KeysOK' /\ KeysMove
  BY <1>1, <1>3 DEF IInv, TypeOK, HashHonest, KeysOK, KeysMove, Keys
<1>7. RowsKept
  BY <1>1 DEF RowsKept
<1>8. \A q \in Requests \ {r} : WorldOf(q)
  BY <1>1, <1>2, <1>7 DEF WorldOf, GoesOn, history, Blocked
<1>9. pc'[r] = l
  BY <1>3, <1>4 DEF TypeOK, Goto
<1>10. ExpansionOK(r)'
  <2>1. RequestOK(r)' /\ MirrorOK(r)'
    BY <1>1, <1>2, <1>3, <1>9, Known DEF RequestOK, MirrorOK, Past, Synced, OrganizationExists, GoesOn, history, changed_hash
  <2>2. RowsOK(r)'
    BY <1>1, <1>2, <1>3, <1>9, Known DEF RowsOK, Past, Synced, UserStands, OrganizationExists, GoesOn, history
  <2>3. ColumnsOK(r)' /\ BarredOK(r)'
    BY <1>1, <1>2, <1>3, <1>9, Known DEF ColumnsOK, BarredOK, Blocked, Fields, GoesOn, history
  <2> QED BY <2>1, <2>2, <2>3 DEF ExpansionOK
<1>11. l \in Steps /\ pc[r] # "idle"
  BY <1>1 DEF Steps
<1> QED BY <1>1, <1>2, <1>4, <1>5, <1>6, <1>8, <1>10, <1>11, Known, Kept, GoStep

(* The client row was written, or read and found wanting. *)
LEMMA ClientStep ==
    ASSUME IInv, NEW r \in Requests, pc[r] \in {"client", "device", "release"}, GoesOn,
           UNCHANGED <<organizations, users, memberships, related, token, organization, user, context, edits>>,
           lastKey' \in [org : Keys, user : Keys, client : Keys], lastKey'.org = lastKey.org,
           NEW d \in Keys, client' = [client EXCEPT ![r] = d],
           NEW m \in SUBSET Fields, missing' = [missing EXCEPT ![r] = m], Goto(r, NextColumn(m)),
           \A f \in m : token[r][f] # None,
           clients' \in [Clients -> ClientRow \cup {None}], RowsKept,
           undeleted[r] =>
              /\ clients'[token[r].client] # None /\ clients'[token[r].client].pk = d
              /\ \A f \in Fields : token[r][f] # None => clients'[token[r].client][f] # None \/ f \in m
    PROVE  IInv'
<1> DEFINE l == NextColumn(m)
<1>1. Past(r)
  BY DEF Past
<1>2. TypeOK
  BY DEF IInv
<1>3. pc'[r] = l /\ client'[r] = d /\ missing'[r] = m /\ UNCHANGED <<alone, undeleted, barred>>
  BY <1>2 DEF TypeOK, Goto, GoesOn, history
<1>4. l \in {"device", "release", "membership"} /\ (l \in Fields => l \in m) /\ (l \notin Fields => m = {})
  BY DEF NextColumn, Fields
<1>5. l \in Steps
  BY <1>4 DEF Steps
<1> HIDE DEF l
<1>6. TablesOK'
  BY <1>2 DEF TypeOK, TablesOK
<1>7. HashHonest' /\ KeysOK' /\ KeysMove
  BY <1>2 DEF IInv, TypeOK, HashHonest, KeysOK, KeysMove, Keys
<1>8. \A q \in Requests \ {r} : WorldOf(q)
  BY <1>3 DEF WorldOf, Blocked
<1>9. RequestOK(r) /\ MirrorOK(r) /\ RowsOK(r) /\ BarredOK(r) /\ token[r] # None /\ organization[r] \in 1..lastKey.org
      /\ token[r].org # None /\ pc[r] # "idle" /\ organization[r] \in Keys /\ user[r] \in Keys
      /\ context[r] \in [claims : Optional(Claims), org : Keys]
  BY <1>1, Known
<1>10. RequestOK(r)' /\ MirrorOK(r)'
  BY <1>3, <1>4, <1>9 DEF RequestOK, MirrorOK, Past, Synced, OrganizationExists, changed_hash
<1>11. RowsOK(r)'
  BY <1>3, <1>4, <1>9 DEF RowsOK, Past, Synced, UserStands, OrganizationExists
<1>12. ColumnsOK(r)'
  BY <1>3, <1>4 DEF ColumnsOK, ClientStands
<1>13. BarredOK(r)'
  BY <1>3, <1>9 DEF BarredOK, Blocked
<1>14. ExpansionOK(r)'
  BY <1>10, <1>11, <1>12, <1>13 DEF ExpansionOK
<1>15. Goto(r, l)
  BY DEF l
<1> QED BY <1>2, <1>5, <1>6, <1>7, <1>8, <1>9, <1>14, <1>15, Kept, GoStep

LEMMA ExpandClientStep ==
    ASSUME IInv, NEW r \in Requests, ExpandClient(r)
    PROVE  IInv'
<1> DEFINE t == token[r]
<1>1. pc[r] = "client" /\ Past(r) /\ GoesOn
      /\ UNCHANGED <<organizations, users, memberships, related, token, organization, user, context, edits>>
  BY DEF ExpandClient, Past
<1>2. TypeOK /\ ColumnsOK(r) /\ t.client \in Clients /\ t \in Tokens
  BY <1>1, Known
<1>3. missing[r] = {}
  BY <1>1, <1>2 DEF ColumnsOK, Fields
<1>4. t.device \in Optional(Devices) /\ t.release \in Optional(Releases) /\ t["device"] = t.device /\ t["release"] = t.release
  BY <1>2 DEF AllTokens
<1>5. ASSUME clients[t.client] = None, lastKey.client < MaxKey, lastKey' = [lastKey EXCEPT !.client = @ + 1],
             clients' = [clients EXCEPT ![t.client] =
                           [pk |-> lastKey'.client, device |-> t.device, release |-> t.release]],
             client' = [client EXCEPT ![r] = lastKey'.client],
             Goto(r, "membership"), UNCHANGED missing
      PROVE  IInv'
  <2> DEFINE d == lastKey'.client
             row == [pk |-> d, device |-> t.device, release |-> t.release]
             m == {}
  <2>1. d \in 1..MaxKey /\ lastKey' \in [org : Keys, user : Keys, client : Keys] /\ lastKey'.org = lastKey.org
    <3>1. lastKey.client \in 0..MaxKey /\ lastKey \in [org : Keys, user : Keys, client : Keys]
      BY <1>2 DEF TypeOK, Keys
    <3> QED BY <1>5, <3>1 DEF Keys
  <2>2. row \in ClientRow /\ row # None /\ row.pk = d /\ \A f \in Fields : row[f] = t[f]
    BY <1>4, <2>1 DEF ClientRow, Fields
  <2>3. clients' = [clients EXCEPT ![t.client] = row] /\ client' = [client EXCEPT ![r] = d] /\ d \in Keys
    BY <1>5, <2>1 DEF Keys
  <2> HIDE DEF row, d
  <2>4. /\ clients' \in [Clients -> ClientRow \cup {None}] /\ clients'[t.client] = row
        /\ \A c \in Clients \ {t.client} : clients'[c] = clients[c]
    BY <1>2, <2>2, <2>3 DEF TypeOK
  <2>5. RowsKept
    BY <1>1, <1>5, <2>4 DEF RowsKept
  <2>6. m \in SUBSET Fields /\ (\A f \in m : t[f] # None) /\ missing' = [missing EXCEPT ![r] = m] /\ Goto(r, NextColumn(m))
    BY <1>2, <1>3, <1>5, Kept DEF NextColumn
  <2>7. clients'[t.client] # None /\ clients'[t.client].pk = d
        /\ \A f \in Fields : t[f] # None => clients'[t.client][f] # None \/ f \in m
    BY <2>2, <2>4
  <2>8. /\ lastKey' \in [org : Keys, user : Keys, client : Keys] /\ lastKey'.org = lastKey.org
        /\ d \in Keys /\ client' = [client EXCEPT ![r] = d] /\ clients' \in [Clients -> ClientRow \cup {None}]
    BY <2>1, <2>3, <2>4
  <2>9. undeleted[r] =>
           /\ clients'[token[r].client] # None /\ clients'[token[r].client].pk = d
           /\ \A f \in Fields : token[r][f] # None => clients'[token[r].client][f] # None \/ f \in m
    BY <2>7
  <2>10. \A f \in m : token[r][f] # None
    OBVIOUS
  <2> HIDE DEF m, t
  <2> QED BY <1>1, <2>5, <2>6, <2>8, <2>9, <2>10, ClientStep
<1>6. ASSUME clients[t.client] # None, client' = [client EXCEPT ![r] = clients[t.client].pk],
             missing' = [missing EXCEPT ![r] = Columns(clients[t.client], t)],
             Goto(r, NextColumn(missing'[r])), UNCHANGED <<clients, lastKey>>
      PROVE  IInv'
  <2> DEFINE m == Columns(clients[t.client], t)
  <2>1. m \in SUBSET Fields /\ (\A f \in m : t[f] # None) /\ missing'[r] = m
    BY <1>2, <1>6 DEF Columns, Fields, TypeOK
  <2>2. RowsKept
    BY <1>1, <1>6 DEF RowsKept
  <2>3. \A f \in Fields : t[f] # None => clients'[t.client][f] # None \/ f \in m
    BY <1>6 DEF Columns, Fields
  <2>4. clients' \in [Clients -> ClientRow \cup {None}]
    BY <1>2, <1>6 DEF TypeOK
  <2> HIDE DEF m
  <2>5. missing' = [missing EXCEPT ![r] = m] /\ Goto(r, NextColumn(m))
    BY <1>6, <2>1 DEF m
  <2>6. lastKey' \in [org : Keys, user : Keys, client : Keys] /\ lastKey'.org = lastKey.org
    BY <1>2, <1>6 DEF TypeOK
  <2>7. clients[t.client].pk \in Keys /\ clients'[t.client] # None /\ clients'[t.client].pk = clients[t.client].pk
    <3>1. clients[t.client] \in ClientRow
      BY <1>2, <1>6 DEF TypeOK
    <3> QED BY <1>6, <3>1 DEF ClientRow, Keys
  <2> DEFINE d == clients[t.client].pk
  <2>8. d \in Keys /\ client' = [client EXCEPT ![r] = d]
    BY <1>6, <2>7
  <2>9. undeleted[r] =>
           /\ clients'[token[r].client] # None /\ clients'[token[r].client].pk = d
           /\ \A f \in Fields : token[r][f] # None => clients'[token[r].client][f] # None \/ f \in m
    BY <2>3, <2>7
  <2>10. m \in SUBSET Fields /\ \A f \in m : token[r][f] # None
    BY <2>1
  <2> HIDE DEF d, t
  <2> QED BY <1>1, <2>2, <2>4, <2>5, <2>6, <2>8, <2>9, <2>10, ClientStep
<1> QED BY <1>5, <1>6 DEF ExpandClient

LEMMA FillColumnStep ==
    ASSUME IInv, NEW r \in Requests, NEW column \in Fields, FillColumn(r, column)
    PROVE  IInv'
<1> DEFINE id == token[r].client
<1>1. pc[r] = column /\ pc[r] \in {"device", "release"} /\ Past(r)
      /\ UNCHANGED <<organizations, users, memberships, related, lastKey, edits>>
  BY DEF FillColumn, Past, Fields
<1>2. TypeOK /\ ColumnsOK(r) /\ id \in Clients /\ token[r] \in Tokens
  BY <1>1, Known
<1>3. column \in missing[r] /\ (\A f \in missing[r] : token[r][f] # None) /\ missing[r] \subseteq Fields
  BY <1>1, <1>2 DEF ColumnsOK, TypeOK, Fields
<1>4. CASE Finish(r, "error") /\ UNCHANGED clients
  BY <1>1, <1>4, QuietFinish DEF tables, Outcomes
<1>5. ASSUME ClientStands(r), clients' = [clients EXCEPT ![id] = Filled(r, column, @)],
             missing' = [missing EXCEPT ![r] = @ \ {column}], Goto(r, NextColumn(missing'[r])), GoesOn,
             UNCHANGED <<token, organization, user, context, client>>
      PROVE  IInv'
  <2> DEFINE row == [clients[id] EXCEPT ![column] = token[r][column]]
             m == missing[r] \ {column}
  <2>1. clients[id] \in ClientRow /\ clients[id].pk = client[r] /\ token[r][column] # None
    BY <1>2, <1>3, <1>5 DEF TypeOK, ClientStands
  <2>2. row \in ClientRow /\ row # None /\ row.pk = client[r] /\ row[column] = token[r][column]
        /\ \A f \in Fields \ {column} : row[f] = clients[id][f]
    <3>1. CASE column = "device"
      <4>1. token[r]["device"] \in Optional(Devices)
        BY <1>2 DEF AllTokens
      <4> QED BY <2>1, <3>1, <4>1 DEF ClientRow, Fields
    <3>2. CASE column = "release"
      <4>1. token[r]["release"] \in Optional(Releases)
        BY <1>2 DEF AllTokens
      <4> QED BY <2>1, <3>2, <4>1 DEF ClientRow, Fields
    <3> QED BY <3>1, <3>2 DEF Fields
  <2>3. clients' = [clients EXCEPT ![id] = row]
    BY <1>5 DEF Filled
  <2> HIDE DEF row
  <2>4. /\ clients' \in [Clients -> ClientRow \cup {None}] /\ clients'[id] = row
        /\ \A c \in Clients \ {id} : clients'[c] = clients[c]
    BY <1>2, <2>2, <2>3 DEF TypeOK
  <2>5. \A f \in Fields : clients[id][f] # None => row[f] # None
    BY <2>1, <2>2
  <2>6. RowsKept
    BY <1>1, <2>1, <2>2, <2>4, <2>5 DEF RowsKept
  <2>7. missing'[r] = m /\ missing' = [missing EXCEPT ![r] = m] /\ m \in SUBSET Fields /\ \A f \in m : token[r][f] # None
    BY <1>2, <1>3, <1>5 DEF TypeOK
  <2>8. ASSUME undeleted[r], NEW f \in Fields, token[r][f] # None
        PROVE  clients'[id][f] # None \/ f \in m
    <3>1. clients[id][f] # None \/ f \in missing[r]
      BY <1>1, <1>2, <2>8 DEF ColumnsOK
    <3> QED BY <2>1, <2>2, <2>4, <2>5, <3>1
  <2>9. undeleted[r] =>
           /\ clients'[token[r].client] # None /\ clients'[token[r].client].pk = client[r]
           /\ \A f \in Fields : token[r][f] # None => clients'[token[r].client][f] # None \/ f \in m
    BY <2>2, <2>4, <2>8
  <2> HIDE DEF m
  <2>10. Goto(r, NextColumn(m))
    BY <1>5, <2>7
  <2>11. GoesOn /\ UNCHANGED <<organizations, users, memberships, related, token, organization, user, context, edits>>
    BY <1>1, <1>5
  <2>12. m \in SUBSET Fields /\ missing' = [missing EXCEPT ![r] = m] /\ \A f \in m : token[r][f] # None
    BY <2>7
  <2>13. clients' \in [Clients -> ClientRow \cup {None}]
    BY <2>4
  <2>14. client[r] \in Keys /\ client' = [client EXCEPT ![r] = client[r]]
         /\ lastKey' \in [org : Keys, user : Keys, client : Keys] /\ lastKey'.org = lastKey.org
    BY <1>1, <1>2, <1>5, Kept DEF TypeOK
  <2> QED BY <1>1, <2>6, <2>9, <2>10, <2>11, <2>12, <2>13, <2>14, ClientStep
<1> QED BY <1>4, <1>5 DEF FillColumn

LEMMA ExpandMembershipStep ==
    ASSUME IInv, NEW r \in Requests, ExpandMembership(r)
    PROVE  IInv'
<1> DEFINE s == token[r].sub
           o == token[r].org
           row == Upserted(s, o, token[r].claims)
<1>1. pc[r] = "membership" /\ Past(r) /\ UNCHANGED <<organizations, users, clients, related, lastKey, edits>>
  BY DEF ExpandMembership, Past
<1>2. TypeOK /\ s \in Subs /\ o \in Orgs /\ token[r].claims \in Claims
  BY <1>1, Known
<1>3. CASE Finish(r, "error") /\ UNCHANGED memberships
  BY <1>1, <1>3, QuietFinish DEF tables, Outcomes
<1>4. ASSUME memberships' = [memberships EXCEPT ![<<s, o>>] = row], NEW end \in Outcomes, Finish(r, end)
      PROVE  IInv'
  <2>1. row \in MembershipRow /\ row # None /\ row.blocked = Blocked(s, o)
    <3>1. Blocked(s, o) \in BOOLEAN
      BY DEF Blocked
    <3> QED BY <1>2, <3>1 DEF Upserted, MembershipRow
  <2> HIDE DEF row
  <2>2. /\ memberships' \in [Subs \X Orgs -> MembershipRow \cup {None}] /\ memberships'[<<s, o>>] = row
        /\ \A m \in Subs \X Orgs : m # <<s, o>> => memberships'[m] = memberships[m]
    BY <1>2, <1>4, <2>1 DEF TypeOK
  <2>3. ASSUME NEW x \in Subs, NEW y \in Orgs, Blocked(x, y)
        PROVE  Blocked(x, y)'
    <3>1. CASE x = s /\ y = o
      BY <2>1, <2>2, <2>3, <3>1 DEF Blocked
    <3>2. CASE ~(x = s /\ y = o)
      BY <2>2, <2>3, <3>2 DEF Blocked
    <3> QED BY <3>1, <3>2
  <2>4. TablesOK' /\ HashHonest' /\ KeysOK' /\ KeysMove /\ RowsKept
    <3>1. TablesOK'
      BY <1>1, <1>2, <2>2 DEF TypeOK, TablesOK
    <3>2. HashHonest' /\ KeysOK' /\ RowsKept
      BY <1>1 DEF IInv, HashHonest, KeysOK, RowsKept
    <3>3. KeysMove
      BY <1>1, <1>2 DEF TypeOK, KeysMove, Keys
    <3> QED BY <3>1, <3>2, <3>3
  <2>5. ASSUME NEW q \in Requests \ {r}
        PROVE  WorldOf(q)
    <3>1. undeleted'[q] = undeleted[q] /\ alone'[q] = alone[q] /\ barred'[q] = barred[q]
      BY <1>2, <1>4 DEF TypeOK, Finish, Forget
    <3> QED BY <1>1, <2>3, <2>4, <3>1 DEF WorldOf
  <2> QED BY <1>1, <1>4, <2>4, <2>5, FinishStep
<1> QED BY <1>3, <1>4 DEF ExpandMembership, Outcomes

-----------------------------------------------------------------------------
(* The operator: no request moves. *)
LEMMA OperatorStep ==
    ASSUME IInv, NEW cost \in {1, 2}, Edit(cost), Unharmed, UNCHANGED alone,
           undeleted' \in [Requests -> BOOLEAN], barred' \in [Requests -> BOOLEAN],
           TablesOK', HashHonest', KeysOK', KeysMove, \A q \in Requests : WorldOf(q)
    PROVE  IInv'
<1>1. TypeOK
  BY DEF IInv
<1>2. edits' \in 0..MaxEdits
  BY <1>1 DEF TypeOK, Edit
<1>3. TypeOK'
  BY <1>1, <1>2 DEF TypeOK, TablesOK, Unharmed, locals, Outcomes
<1>4. \A q \in Requests : LocalsKept(q)
  BY DEF Unharmed, locals, LocalsKept
<1>5. AloneOK'
  BY DEF IInv, AloneOK, Unharmed, locals
<1> QED BY <1>3, <1>4, <1>5, Others DEF IInv

(* Lifting a block or deleting memberships frees those requests, and only  *)
(* those, that were barred by it.                                          *)
LEMMA ReleaseStep ==
    ASSUME IInv, NEW freed, Release(freed),
           \A m \in Subs \X Orgs : m \notin freed => memberships'[m] = memberships[m]
    PROVE  /\ barred' \in [Requests -> BOOLEAN]
           /\ \A q \in Requests :
                 barred'[q] =>
                    /\ barred[q]
                    /\ token[q] # None =>
                          \A s \in Subs, o \in Orgs :
                             token[q].sub = s /\ token[q].org = o /\ Blocked(s, o) => Blocked(s, o)'
<1>1. TypeOK
  BY DEF IInv
<1>2. barred' \in [Requests -> BOOLEAN]
  BY <1>1 DEF TypeOK, Release
<1>3. ASSUME NEW q \in Requests, barred'[q]
      PROVE  barred[q] /\ (token[q] # None => <<token[q].sub, token[q].org>> \notin freed)
  BY <1>3 DEF Release
<1>4. ASSUME NEW q \in Requests, barred'[q], token[q] # None, NEW s \in Subs, NEW o \in Orgs,
             token[q].sub = s, token[q].org = o, Blocked(s, o)
      PROVE  Blocked(s, o)'
  <2>1. <<s, o>> \in Subs \X Orgs /\ <<s, o>> \notin freed
    BY <1>3, <1>4
  <2>2. memberships'[<<s, o>>] = memberships[<<s, o>>]
    BY <2>1
  <2> QED BY <1>4, <2>2 DEF Blocked
<1> QED BY <1>2, <1>3, <1>4

(* After a deletion nobody counts on the rows any more. *)
LEMMA DeletedStep ==
    ASSUME Deleted
    PROVE  undeleted' \in [Requests -> BOOLEAN] /\ \A q \in Requests : ~undeleted'[q]
BY DEF Deleted

LEMMA SetBlockedStep ==
    ASSUME IInv, NEW s \in Subs, NEW o \in Orgs, NEW b \in BOOLEAN, SetBlocked(s, o, b)
    PROVE  IInv'
<1>1. TypeOK /\ memberships[<<s, o>>] \in MembershipRow
  BY DEF IInv, TypeOK, SetBlocked
<1>2. Edit(1) /\ Unharmed /\ UNCHANGED <<organizations, users, clients, related, lastKey, alone, undeleted>>
  BY DEF SetBlocked
<1>3. /\ memberships' \in [Subs \X Orgs -> MembershipRow \cup {None}]
      /\ memberships'[<<s, o>>] # None /\ memberships'[<<s, o>>].blocked = b
      /\ \A m \in Subs \X Orgs : m # <<s, o>> => memberships'[m] = memberships[m]
  <2>1. memberships' = [memberships EXCEPT ![<<s, o>>].blocked = b] /\ <<s, o>> \in Subs \X Orgs
    BY DEF SetBlocked
  <2>2. [memberships[<<s, o>>] EXCEPT !.blocked = b] \in MembershipRow
        /\ [memberships[<<s, o>>] EXCEPT !.blocked = b].blocked = b
    BY <1>1 DEF MembershipRow
  <2> QED BY <1>1, <2>1, <2>2 DEF TypeOK
<1>4. TablesOK' /\ HashHonest' /\ KeysOK' /\ RowsKept
  <2>1. TablesOK'
    BY <1>1, <1>2, <1>3 DEF TypeOK, TablesOK
  <2> QED BY <1>2, <2>1 DEF IInv, HashHonest, KeysOK, RowsKept
<1>5. KeysMove
  BY <1>1, <1>2 DEF TypeOK, KeysMove, Keys
<1>6. /\ barred' \in [Requests -> BOOLEAN]
      /\ \A q \in Requests :
            barred'[q] =>
               /\ barred[q]
               /\ token[q] # None =>
                     \A x \in Subs, y \in Orgs :
                        token[q].sub = x /\ token[q].org = y /\ Blocked(x, y) => Blocked(x, y)'
  <2>1. CASE b
    <3>1. barred' = barred
      BY <2>1 DEF SetBlocked
    <3>2. ASSUME NEW x \in Subs, NEW y \in Orgs, Blocked(x, y)
          PROVE  Blocked(x, y)'
      BY <1>3, <2>1, <3>2 DEF Blocked
    <3> QED BY <1>1, <3>1, <3>2 DEF TypeOK
  <2>2. CASE ~b
    <3>1. Release({<<s, o>>}) /\ \A m \in Subs \X Orgs : m \notin {<<s, o>>} => memberships'[m] = memberships[m]
      BY <1>3, <2>2 DEF SetBlocked
    <3> QED BY <3>1, ReleaseStep
  <2> QED BY <2>1, <2>2
<1>7. \A q \in Requests : WorldOf(q)
  BY <1>2, <1>4, <1>6 DEF WorldOf
<1> QED BY <1>1, <1>2, <1>4, <1>5, <1>6, <1>7, OperatorStep DEF TypeOK

LEMMA DeleteMembershipStep ==
    ASSUME IInv, NEW s \in Subs, NEW o \in Orgs, DeleteMembership(s, o)
    PROVE  IInv'
<1>1. TypeOK
  BY DEF IInv
<1>2. Edit(2) /\ Unharmed /\ Deleted /\ Release({<<s, o>>}) /\ UNCHANGED <<organizations, users, clients, related, lastKey, alone>>
  BY DEF DeleteMembership
<1>3. /\ memberships' \in [Subs \X Orgs -> MembershipRow \cup {None}]
      /\ \A m \in Subs \X Orgs : m \notin {<<s, o>>} => memberships'[m] = memberships[m]
  BY <1>1 DEF TypeOK, DeleteMembership
<1>4. TablesOK' /\ HashHonest' /\ KeysOK'
  <2>1. TablesOK'
    BY <1>1, <1>2, <1>3 DEF TypeOK, TablesOK
  <2> QED BY <1>2, <2>1 DEF IInv, HashHonest, KeysOK
<1>5. KeysMove
  BY <1>1, <1>2 DEF TypeOK, KeysMove, Keys
<1>6. \A q \in Requests : WorldOf(q)
  BY <1>2, <1>3, ReleaseStep, DeletedStep DEF WorldOf
<1> QED BY <1>2, <1>3, <1>4, <1>5, <1>6, ReleaseStep, DeletedStep, OperatorStep

LEMMA DeleteUserStep ==
    ASSUME IInv, NEW s \in Subs, DeleteUser(s)
    PROVE  IInv'
<1>1. TypeOK
  BY DEF IInv
<1>2. Edit(2) /\ Unharmed /\ Deleted /\ Release({s} \X Orgs) /\ UNCHANGED <<organizations, clients, related, lastKey, alone>>
  BY DEF DeleteUser
<1>3. /\ users' \in [Subs -> UserRow \cup {None}] /\ users'[s] = None
      /\ \A x \in Subs \ {s} : users'[x] = users[x]
  BY <1>1 DEF TypeOK, DeleteUser
<1>4. memberships' = [m \in Subs \X Orgs |-> IF m[1] = s THEN None ELSE memberships[m]]
  BY DEF DeleteUser
<1>5. memberships' \in [Subs \X Orgs -> MembershipRow \cup {None}]
  BY <1>1, <1>4 DEF TypeOK
<1>6. \A m \in Subs \X Orgs : m \notin {s} \X Orgs => memberships'[m] = memberships[m]
  BY <1>4
<1>7. TablesOK'
  BY <1>1, <1>2, <1>3, <1>5 DEF TypeOK, TablesOK
<1>8. HashHonest' /\ KeysOK'
  BY <1>2, <1>3 DEF IInv, HashHonest, KeysOK
<1>9. KeysMove
  BY <1>1, <1>2 DEF TypeOK, KeysMove, Keys
<1>10. ASSUME NEW q \in Requests
       PROVE  WorldOf(q)
  <2>1. ASSUME alone'[q], token[q] # None
        PROVE  /\ alone[q]
               /\ users'[token[q].sub] # None =>
                     users[token[q].sub] # None /\ users'[token[q].sub].hash = users[token[q].sub].hash
    BY <1>1, <1>2, <1>3, <2>1, TokenTypes
  <2> QED BY <1>2, <1>6, <2>1, ReleaseStep, DeletedStep DEF WorldOf
<1> QED BY <1>2, <1>6, <1>7, <1>8, <1>9, <1>10, ReleaseStep, DeletedStep, OperatorStep

LEMMA DeleteOrganizationStep ==
    ASSUME IInv, NEW o \in Orgs, DeleteOrganization(o)
    PROVE  IInv'
<1>1. TypeOK
  BY DEF IInv
<1>2. Edit(2) /\ Unharmed /\ Deleted /\ Release(Subs \X {o}) /\ UNCHANGED <<clients, related, lastKey, alone>>
  BY DEF DeleteOrganization
<1>3. /\ organizations' \in [Orgs -> Keys] /\ organizations'[o] = 0
      /\ \A x \in Orgs \ {o} : organizations'[x] = organizations[x]
  BY <1>1 DEF TypeOK, DeleteOrganization, Keys
<1>4. \A x \in Subs :
         users'[x] = IF users[x] # None /\ users[x].org = organizations[o]
                     THEN [users[x] EXCEPT !.org = 0] ELSE users[x]
  BY DEF DeleteOrganization
<1>5. ASSUME NEW x \in Subs, users[x] # None
      PROVE  /\ users'[x] \in UserRow /\ users'[x] # None
             /\ users'[x].hash = users[x].hash /\ users'[x].claims = users[x].claims
             /\ users'[x].org = IF users[x].org = organizations[o] THEN 0 ELSE users[x].org
  <2>1. users[x] \in UserRow
    BY <1>1, <1>5 DEF TypeOK
  <2>2. CASE users[x].org = organizations[o]
    <3>1. users'[x] = [users[x] EXCEPT !.org = 0]
      BY <1>4, <1>5, <2>2
    <3>2. 0 \in Keys
      BY DEF Keys
    <3>3. users'[x] \in UserRow /\ users'[x].hash = users[x].hash /\ users'[x].claims = users[x].claims /\ users'[x].org = 0
      BY <2>1, <3>1, <3>2 DEF UserRow
    <3> QED BY <2>2, <3>3
  <2>3. CASE users[x].org # organizations[o]
    BY <1>4, <1>5, <2>1, <2>3
  <2> QED BY <2>2, <2>3
<1>6. \A x \in Subs : users[x] = None => users'[x] = None
  BY <1>4
<1>7. users' \in [Subs -> UserRow \cup {None}]
  <2>1. \A x \in Subs : users'[x] \in UserRow \cup {None}
    BY <1>5, <1>6
  <2>2. users' = [x \in Subs |-> users'[x]]
    BY DEF DeleteOrganization
  <2> QED BY <2>1, <2>2
<1>8. memberships' = [m \in Subs \X Orgs |-> IF m[2] = o THEN None ELSE memberships[m]]
  BY DEF DeleteOrganization
<1>9. memberships' \in [Subs \X Orgs -> MembershipRow \cup {None}]
  BY <1>1, <1>8 DEF TypeOK
<1>10. \A m \in Subs \X Orgs : m \notin Subs \X {o} => memberships'[m] = memberships[m]
  BY <1>8
<1>11. TablesOK'
  BY <1>1, <1>2, <1>3, <1>7, <1>9 DEF TypeOK, TablesOK
<1>12. HashHonest'
  <2> SUFFICES ASSUME NEW x \in Subs, users'[x] # None
               PROVE  users'[x].claims = users'[x].hash.claims /\ users'[x].org \in {0, organizations'[users'[x].hash.org]}
    BY DEF HashHonest
  <2>1. users[x] # None
    BY <1>6
  <2>2. users[x].claims = users[x].hash.claims /\ users[x].org \in {0, organizations[users[x].hash.org]}
        /\ users[x].hash.org \in Orgs
    BY <1>1, <2>1 DEF IInv, HashHonest, TypeOK, UserRow
  <2>3. CASE users[x].hash.org = o
    BY <1>5, <2>1, <2>2, <2>3
  <2>4. CASE users[x].hash.org # o
    BY <1>3, <1>5, <2>1, <2>2, <2>4
  <2> QED BY <2>3, <2>4
<1>13. KeysOK' /\ KeysMove
  BY <1>1, <1>2, <1>3 DEF IInv, TypeOK, KeysOK, KeysMove, Keys
<1>14. ASSUME NEW q \in Requests
       PROVE  WorldOf(q)
  <2>1. ASSUME alone'[q], token[q] # None
        PROVE  /\ alone[q]
               /\ users'[token[q].sub] # None =>
                     users[token[q].sub] # None /\ users'[token[q].sub].hash = users[token[q].sub].hash
    BY <1>1, <1>2, <1>5, <1>6, <2>1, TokenTypes
  <2> QED BY <1>2, <1>10, <2>1, ReleaseStep, DeletedStep DEF WorldOf
<1> QED BY <1>2, <1>10, <1>11, <1>12, <1>13, <1>14, ReleaseStep, DeletedStep, OperatorStep

LEMMA DeleteClientStep ==
    ASSUME IInv, NEW c \in Clients, DeleteClient(c)
    PROVE  IInv'
<1>1. TypeOK
  BY DEF IInv
<1>2. Edit(2) /\ Unharmed /\ Deleted /\ UNCHANGED <<organizations, users, memberships, related, lastKey, alone, barred>>
  BY DEF DeleteClient
<1>3. clients' \in [Clients -> ClientRow \cup {None}]
  BY <1>1 DEF TypeOK, DeleteClient
<1>4. TablesOK'
  BY <1>1, <1>2, <1>3 DEF TypeOK, TablesOK
<1>5. HashHonest' /\ KeysOK'
  BY <1>2 DEF IInv, HashHonest, KeysOK
<1>6. KeysMove
  BY <1>1, <1>2 DEF TypeOK, KeysMove, Keys
<1>7. \A q \in Requests : WorldOf(q)
  BY <1>2, DeletedStep DEF WorldOf, Blocked
<1> QED BY <1>1, <1>2, <1>4, <1>5, <1>6, <1>7, DeletedStep, OperatorStep DEF TypeOK

-----------------------------------------------------------------------------
(* No request has begun and the tables are empty. *)
LEMMA InitOK == Init => IInv
<1> SUFFICES ASSUME Init PROVE IInv
  OBVIOUS
<1>1. TypeOK
  BY DEF Init, TypeOK, Keys, Steps, Outcomes, NoContext, Optional
<1>2. HashHonest /\ KeysOK /\ AloneOK
  BY DEF Init, HashHonest, KeysOK, AloneOK
<1>3. \A r \in Requests : ExpansionOK(r)
  BY DEF Init, ExpansionOK, RequestOK, MirrorOK, RowsOK, ColumnsOK, BarredOK, Past, Synced, Fields
<1> QED BY <1>1, <1>2, <1>3 DEF IInv

LEMMA Unchanged == IInv /\ UNCHANGED vars => IInv'
<1> SUFFICES ASSUME IInv, UNCHANGED vars PROVE IInv'
  OBVIOUS
<1>1. TypeOK' /\ HashHonest' /\ KeysOK' /\ AloneOK'
  BY DEF IInv, vars, tables, locals, history, TypeOK, HashHonest, KeysOK, AloneOK
<1>2. UNCHANGED tables /\ KeysMove /\ \A q \in Requests : LocalsKept(q) /\ WorldOf(q)
  BY Quiet DEF vars, locals, history, LocalsKept
<1> QED BY <1>1, <1>2, Others DEF IInv

LEMMA NextOK == IInv /\ [Next]_vars => IInv'
<1> SUFFICES ASSUME IInv, [Next]_vars PROVE IInv'
  OBVIOUS
<1>1. ASSUME NEW r \in Requests, Expand(r)
      PROVE  IInv'
  BY <1>1, ExpandOrganizationStep, FindUserStep, InsertUserStep, RefindUserStep, SaveUserStep, ResolveRelationsStep,
     ExpandClientStep, FillColumnStep, ExpandMembershipStep DEF Expand, Fields
<1>2. ASSUME NEW r \in Requests, NEW t \in Tokens, Begin(r, t)
      PROVE  IInv'
  BY <1>2, BeginStep
<1>3. CASE Operator
  BY <1>3, SetBlockedStep, DeleteMembershipStep, DeleteUserStep, DeleteOrganizationStep, DeleteClientStep DEF Operator
<1>4. CASE UNCHANGED vars
  BY <1>4, Unchanged
<1> QED BY <1>1, <1>2, <1>3, <1>4 DEF Next

(* IInv is inductive: whatever requests and operator do in whatever order, *)
(* what a request has read and written stays true to its token.            *)
THEOREM InductiveInvariant == Spec => []IInv
BY InitOK, NextOK, PTL DEF Spec

(* Every variable keeps its type (models.py, expand.py). *)
THEOREM TypeCorrect == Spec => []TypeOK
<1>1. IInv => TypeOK
  BY DEF IInv
<1> QED BY <1>1, InductiveInvariant, PTL

(* The hash a later request compares summarises the row it lies in,        *)
(* whoever wrote it last (expand.py:276).                                  *)
THEOREM HashStaysHonest == Spec => []HashHonest
<1>1. IInv => HashHonest
  BY DEF IInv
<1> QED BY <1>1, InductiveInvariant, PTL

(* A request ends by a step of its own. *)
LEMMA EndsItself ==
    ASSUME IInv, [Next]_vars, NEW r \in Requests, NEW o, Ends(r, o)
    PROVE  Expand(r)
<1>1. TypeOK /\ pc'[r] # pc[r] /\ pc'[r] = "idle"
  BY DEF IInv, Ends
<1>2. ~Operator /\ ~UNCHANGED vars
  BY <1>1 DEF Operator, SetBlocked, DeleteMembership, DeleteUser, DeleteOrganization, DeleteClient, Unharmed, vars
<1>3. PICK q \in Requests : Expand(q) \/ \E t \in Tokens : Begin(q, t)
  BY <1>2 DEF Next
<1>4. \E l \in Steps : Goto(q, l)
  <2>1. CASE ResolveRelations(q)
    BY <1>1, <2>1, Resolving DEF Steps
  <2>2. CASE ~ResolveRelations(q)
    BY <1>3, <2>2 DEF Expand, ExpandOrganization, FindUser, Found, InsertUser, Written, RefindUser, SaveUser, ExpandClient,
                      FillColumn, ExpandMembership, Finish, Begin, NextColumn, Steps
  <2> QED BY <2>1, <2>2
<1>5. q = r
  BY <1>1, <1>4 DEF TypeOK, Goto
<1>6. \A t \in Tokens : ~Begin(r, t)
  BY <1>1 DEF Begin, Goto, TypeOK
<1> QED BY <1>3, <1>5, <1>6

(* Only the membership's upsert lets a request through. *)
LEMMA Expanded ==
    ASSUME IInv, [Next]_vars, NEW r \in Requests, Ends(r, "expanded")
    PROVE  /\ pc[r] = "membership" /\ OrganizationExists(r) /\ users[token[r].sub] # None
           /\ ~Blocked(token[r].sub, token[r].org)
<1>1. Expand(r) /\ TypeOK /\ pc'[r] = "idle" /\ outcome' = "expanded"
  BY EndsItself DEF IInv, Ends
<1>2. ExpandMembership(r)
  BY <1>1 DEF Expand, ExpandOrganization, FindUser, Found, InsertUser, Written, RefindUser, SaveUser, ResolveRelations,
              ExpandClient, FillColumn, Finish, GoesOn
<1>3. Past(r) /\ pc[r] = "membership"
  BY <1>2 DEF ExpandMembership, Past
<1>4. <<token[r].sub, token[r].org>> \in Subs \X Orgs
  BY <1>3, Known
<1>5. OrganizationExists(r) /\ users[token[r].sub] # None
      /\ memberships' = [memberships EXCEPT ![<<token[r].sub, token[r].org>>] =
                            Upserted(token[r].sub, token[r].org, token[r].claims)]
      /\ ~memberships'[<<token[r].sub, token[r].org>>].blocked
  BY <1>1, <1>2 DEF ExpandMembership, Finish
<1>6. ~Upserted(token[r].sub, token[r].org, token[r].claims).blocked
  BY <1>1, <1>4, <1>5 DEF TypeOK
<1> QED BY <1>3, <1>5, <1>6 DEF Upserted

(* A request gets a user that mirrors its own token (expand.py:276-286). *)
THEOREM ContextMirrors == Spec => ContextMirrorsToken
<1>1. ASSUME IInv, [Next]_vars, NEW r \in Requests, Ends(r, "expanded")
      PROVE  context[r].claims = token[r].claims /\ context[r].org \in {0, organization[r]}
  BY <1>1, Expanded DEF IInv, ExpansionOK, MirrorOK, Synced
<1>2. IInv /\ [Next]_vars =>
         [\A r \in Requests :
            Ends(r, "expanded") =>
               /\ context[r].claims = token[r].claims
               /\ context[r].org \in {0, organization[r]}]_vars
  BY <1>1, Zenon
<1> QED BY <1>2, InductiveInvariant, PTL DEF Spec, ContextMirrorsToken

(* Alone, it leaves the row its token describes (expand.py:276-286). *)
THEOREM RowMirrors == Spec => RowMirrorsToken
<1>1. ASSUME IInv, [Next]_vars, NEW r \in Requests, Ends(r, "expanded"), alone[r]
      PROVE  users[token[r].sub].hash = changed_hash(token[r])
  BY <1>1, Expanded DEF IInv, ExpansionOK, MirrorOK, Synced
<1>2. IInv /\ [Next]_vars =>
         [\A r \in Requests :
            Ends(r, "expanded") /\ alone[r] => users[token[r].sub].hash = changed_hash(token[r])]_vars
  BY <1>1
<1> QED BY <1>2, InductiveInvariant, PTL DEF Spec, RowMirrorsToken

(* A block stands against every interleaving (expand.py:149). *)
THEOREM BlocksHold == Spec => BlockHolds
<1>1. ASSUME IInv, [Next]_vars, NEW r \in Requests, Ends(r, "expanded")
      PROVE  ~barred[r]
  BY <1>1, Expanded DEF IInv, ExpansionOK, BarredOK
<1>2. IInv /\ [Next]_vars => [\A r \in Requests : Ends(r, "expanded") => ~barred[r]]_vars
  BY <1>1
<1> QED BY <1>2, InductiveInvariant, PTL DEF Spec, BlockHolds

(* Only a deletion makes a request fail (expand.py:240-286). *)
THEOREM RacesHarmless == Spec => RacesAreHarmless
<1>1. ASSUME IInv, [Next]_vars, NEW r \in Requests, Ends(r, "error"), undeleted[r]
      PROVE  FALSE
  <2>1. Expand(r) /\ TypeOK /\ RowsOK(r) /\ ColumnsOK(r) /\ pc'[r] = "idle" /\ outcome' = "error"
    BY <1>1, EndsItself DEF IInv, ExpansionOK, Ends
  <2>2. CASE RefindUser(r)
    BY <1>1, <2>1, <2>2 DEF RefindUser, RowsOK, GoesOn
  <2>3. CASE SaveUser(r)
    BY <1>1, <2>1, <2>3 DEF SaveUser, RowsOK, UserStands, KeyIsFree, Past, GoesOn
  <2>4. ASSUME NEW column \in Fields, FillColumn(r, column)
        PROVE  FALSE
    BY <1>1, <2>1, <2>4 DEF FillColumn, ColumnsOK, Fields, GoesOn
  <2>5. CASE ExpandMembership(r)
    BY <1>1, <2>1, <2>5 DEF ExpandMembership, RowsOK, UserStands, KeyIsFree, Past, Synced, Finish
  <2> QED BY <2>1, <2>2, <2>3, <2>4, <2>5 DEF Expand, Fields, ExpandOrganization, FindUser, InsertUser,
            ResolveRelations, ExpandClient, Finish, GoesOn
<1>2. IInv /\ [Next]_vars => [\A r \in Requests : Ends(r, "error") => ~undeleted[r]]_vars
  BY <1>1
<1> QED BY <1>2, InductiveInvariant, PTL DEF Spec, RacesAreHarmless

(* Unless rows are deleted, the client has what the token names            *)
(* (expand.py:404-418).                                                    *)
THEOREM ColumnsGetFilled == Spec => ColumnsFilled
<1>1. ASSUME IInv, [Next]_vars, NEW r \in Requests, Ends(r, "expanded"), undeleted[r],
             NEW f \in {"device", "release"}, token[r][f] # None
      PROVE  clients[token[r].client][f] # None
  BY <1>1, Expanded DEF IInv, ExpansionOK, ColumnsOK, Fields
<1>2. IInv /\ [Next]_vars =>
         [\A r \in Requests :
            Ends(r, "expanded") /\ undeleted[r] =>
               \A f \in {"device", "release"} :
                  token[r][f] # None => clients[token[r].client][f] # None]_vars
  BY <1>1
<1> QED BY <1>2, InductiveInvariant, PTL DEF Spec, ColumnsFilled

(* No request clears what another filled in (expand.py:410-416). *)
THEOREM FilledForGood == Spec => FilledStays
<1>1. ASSUME IInv, [Next]_vars, NEW c \in Clients, clients[c] # None, clients'[c] # None,
             NEW f \in {"device", "release"}, clients[c][f] # None
      PROVE  clients'[c][f] # None
  <2>1. TypeOK /\ clients[c] \in ClientRow
    BY <1>1 DEF IInv, TypeOK
  <2>2. CASE clients' = clients
    BY <1>1, <2>2
  <2>3. ASSUME NEW r \in Requests, ExpandClient(r)
        PROVE  clients'[c][f] # None
    BY <1>1, <2>1, <2>3 DEF ExpandClient, TypeOK
  <2>4. ASSUME NEW r \in Requests, NEW column \in Fields, FillColumn(r, column)
        PROVE  clients'[c][f] # None
    <3>1. CASE clients' = clients
      BY <1>1, <3>1
    <3>2. CASE clients' = [clients EXCEPT ![token[r].client] = Filled(r, column, @)]
      <4>1. ColumnsOK(r) /\ token[r] \in Tokens /\ pc[r] = column
        <5>1. Past(r) /\ pc[r] = column
          BY <2>4 DEF FillColumn, Past, Fields
        <5> QED BY <1>1, <5>1, Known
      <4>2. token[r][column] # None
        BY <4>1 DEF ColumnsOK
      <4>3. clients'[c] = IF c = token[r].client THEN [clients[c] EXCEPT ![column] = token[r][column]] ELSE clients[c]
        BY <2>1, <3>2 DEF TypeOK, Filled
      <4>4. [clients[c] EXCEPT ![column] = token[r][column]][f] = IF f = column THEN token[r][column] ELSE clients[c][f]
        BY <2>1 DEF ClientRow, Fields
      <4> QED BY <1>1, <4>2, <4>3, <4>4
    <3> QED BY <2>4, <3>1, <3>2 DEF FillColumn
  <2>5. ASSUME NEW d \in Clients, DeleteClient(d)
        PROVE  clients'[c][f] # None
    BY <1>1, <2>1, <2>5 DEF DeleteClient, TypeOK
  <2>6. CASE \E r \in Requests : Expand(r) \/ \E t \in Tokens : Begin(r, t)
    BY <2>2, <2>3, <2>4, <2>6 DEF Expand, Fields, Begin, tables, ExpandOrganization, FindUser, InsertUser, RefindUser,
       SaveUser, ResolveRelations, ExpandMembership
  <2>7. CASE Operator
    BY <2>2, <2>5, <2>7 DEF Operator, SetBlocked, DeleteMembership, DeleteUser, DeleteOrganization
  <2>8. CASE UNCHANGED vars
    BY <2>2, <2>8 DEF vars, tables
  <2> QED BY <1>1, <2>6, <2>7, <2>8 DEF Next
<1>2. IInv /\ [Next]_vars =>
         [\A c \in Clients :
            clients[c] # None /\ clients'[c] # None =>
               \A f \in {"device", "release"} : clients[c][f] # None => clients'[c][f] # None]_vars
  BY <1>1
<1> QED BY <1>2, InductiveInvariant, PTL DEF Spec, FilledStays
-----------------------------------------------------------------------------
(* Expansion implements Admission. *)

MirrorsKept == \A s \in Subs :
    /\ users'[s] = None <=> users[s] = None
    /\ users[s] # None => users'[s].hash = users[s].hash

SyncedKept == \A q \in Requests : Synced(q)' <=> Synced(q)

(* A step that answers nobody and touches nothing that decides. *)
LEMMA WorkStep ==
    ASSUME outcome' = "none", UNCHANGED <<token, memberships>>, MirrorsKept, SyncedKept
    PROVE  Abstract!Work
<1>1. {r \in Requests : Synced(r)}' = {r \in Requests : Synced(r)}
  BY DEF SyncedKept
<1>2. \A s \in Subs :
         (IF users'[s] = None THEN None ELSE users'[s].hash) = IF users[s] = None THEN None ELSE users[s].hash
  BY DEF MirrorsKept
<1> QED BY <1>1, <1>2 DEF Abstract!Work

(* One request moves to another control point. *)
LEMMA SyncedMoves ==
    ASSUME TypeOK, NEW r \in Requests, NEW l \in Steps, Goto(r, l)
    PROVE  \A q \in Requests :
              Synced(q)' <=> IF q = r THEN l \in {"relations", "client", "device", "release", "membership"}
                             ELSE Synced(q)
BY DEF TypeOK, Goto, Synced

(* A request whose user row now mirrors its token has been mirrored. *)
LEMMA MirrorStep ==
    ASSUME TypeOK, NEW r \in Requests, token[r] \in Tokens, token[r].sub \in Subs,
           Goto(r, "relations"), outcome' = "none", UNCHANGED <<token, memberships>>,
           NEW row \in UserRow, row.hash = changed_hash(token[r]),
           users' = [users EXCEPT ![token[r].sub] = row]
    PROVE  Abstract!MirrorUser(r)
<1> DEFINE stored(u, s) == IF u[s] = None THEN None ELSE u[s].hash
<1>1. token[r] # None
  OBVIOUS
<1>2. {q \in Requests : Synced(q)}' = {q \in Requests : Synced(q)} \cup {r}
  BY SyncedMoves DEF Steps
<1>3. \A s \in Subs : stored(users', s) = IF s = token[r].sub THEN changed_hash(token[r]) ELSE stored(users, s)
  BY DEF TypeOK
<1>4. [s \in Subs |-> stored(users', s)] =
         [[s \in Subs |-> stored(users, s)] EXCEPT ![token[r].sub] = changed_hash(token[r])]
  BY <1>3
<1> QED BY <1>1, <1>2, <1>4 DEF Abstract!MirrorUser, Abstract!Digest, changed_hash

(* A request that gives up leaves what decides alone. *)
LEMMA FailStep ==
    ASSUME TypeOK, NEW r \in Requests, token[r] # None, UNCHANGED <<users, memberships>>,
           Finish(r, IF token[r].org = None THEN "no_organization" ELSE "error")
    PROVE  Abstract!Fail(r)
<1>1. {q \in Requests : Synced(q)}' = {q \in Requests : Synced(q)} \ {r}
  BY SyncedMoves DEF Steps, Finish
<1> QED BY <1>1 DEF Abstract!Fail, Abstract!Answer, Finish

(* A request that reads or writes the row of its user. *)
LEMMA UserSteps ==
    ASSUME IInv, NEW r \in Requests, FindUser(r) \/ InsertUser(r) \/ RefindUser(r) \/ SaveUser(r)
    PROVE  Abstract!MirrorUser(r) \/ Abstract!Fail(r) \/ Abstract!Work
<1>1. TypeOK /\ Past(r) /\ ~Synced(r)
  BY DEF IInv, FindUser, InsertUser, RefindUser, SaveUser, Past, Synced
<1>2. token[r] \in Tokens /\ token[r].sub \in Subs /\ token[r].org # None /\ token[r] # None
  BY <1>1, Known
<1>3. UNCHANGED memberships
  BY DEF FindUser, InsertUser, RefindUser, SaveUser, tables
<1>4. ASSUME NEW row \in UserRow, users[token[r].sub] = row, Found(r, row), GoesOn, UNCHANGED <<users, token>>
      PROVE  Abstract!MirrorUser(r) \/ Abstract!Work
  <2>1. CASE row.hash = changed_hash(token[r])
    <3>1. users' = [users EXCEPT ![token[r].sub] = row]
      BY <1>1, <1>2, <1>4 DEF TypeOK
    <3> QED BY <1>1, <1>2, <1>3, <1>4, <2>1, <3>1, MirrorStep DEF Found, GoesOn
  <2>2. CASE row.hash # changed_hash(token[r])
    <3>1. Goto(r, "save")
      BY <1>4, <2>2 DEF Found
    <3>2. SyncedKept /\ MirrorsKept
      BY <1>1, <1>4, <3>1, SyncedMoves DEF SyncedKept, MirrorsKept, Steps
    <3> QED BY <1>3, <1>4, <3>2, WorkStep DEF GoesOn
  <2> QED BY <2>1, <2>2
<1>5. ASSUME NEW row \in UserRow, row.hash = changed_hash(token[r]), Written(r, row), GoesOn, UNCHANGED token
      PROVE  Abstract!MirrorUser(r)
  BY <1>1, <1>2, <1>3, <1>5, MirrorStep DEF Written, GoesOn
<1>6. ASSUME NEW l \in {"insert", "refind"}, Goto(r, l), GoesOn, UNCHANGED <<users, token>>
      PROVE  Abstract!Work
  <2>1. SyncedKept /\ MirrorsKept
    BY <1>1, <1>6, SyncedMoves DEF SyncedKept, MirrorsKept, Steps
  <2> QED BY <1>3, <1>6, <2>1, WorkStep DEF GoesOn
<1>7. ASSUME Finish(r, "error"), UNCHANGED users
      PROVE  Abstract!Fail(r)
  BY <1>1, <1>2, <1>3, <1>7, FailStep
<1>8. users[token[r].sub] # None => users[token[r].sub] \in UserRow
  BY <1>1, <1>2 DEF TypeOK
<1>m. ASSUME NEW pk \in 1..MaxKey
      PROVE  Mirror(r, pk) \in UserRow
  BY <1>1, Known DEF Mirror, UserRow, changed_hash
<1>9. CASE FindUser(r)
  BY <1>4, <1>6, <1>8, <1>9 DEF FindUser, tables
<1>10. CASE InsertUser(r)
  <2>1. CASE Goto(r, "refind") /\ UNCHANGED users
    BY <1>6, <1>10, <2>1 DEF InsertUser
  <2>2. CASE Written(r, Mirror(r, lastKey'.user))
    <3>1. lastKey'.user \in 1..MaxKey
      <4>1. lastKey.user \in Keys /\ lastKey \in [org : Keys, user : Keys, client : Keys]
        BY <1>1 DEF TypeOK
      <4> QED BY <1>1, <1>10, <2>2, <4>1 DEF InsertUser, Written, Goto, Steps, TypeOK, Keys
    <3>2. Mirror(r, lastKey'.user) \in UserRow
      BY <1>m, <3>1
    <3> QED BY <1>5, <1>10, <2>2, <3>2 DEF InsertUser, Mirror
  <2> QED BY <1>10, <2>1, <2>2 DEF InsertUser
<1>11. CASE RefindUser(r)
  BY <1>4, <1>7, <1>8, <1>11 DEF RefindUser, tables
<1>12. CASE SaveUser(r)
  <2>1. CASE Written(r, Mirror(r, user[r])) /\ GoesOn /\ UNCHANGED token
    <3>1. user[r] \in 1..MaxKey
      BY <1>1, <1>12, Known DEF SaveUser, RequestOK, Keys
    <3>2. Mirror(r, user[r]) \in UserRow
      BY <1>m, <3>1
    <3> QED BY <1>5, <2>1, <3>2 DEF Mirror
  <2> QED BY <1>7, <1>12, <2>1 DEF SaveUser
<1> QED BY <1>9, <1>10, <1>11, <1>12

(* The upsert of the membership decides, unless rows are gone. *)
LEMMA MembershipStep ==
    ASSUME IInv, NEW r \in Requests, ExpandMembership(r)
    PROVE  Abstract!Decide(r) \/ Abstract!Fail(r)
<1> DEFINE m == <<token[r].sub, token[r].org>>
<1>1. TypeOK /\ Past(r) /\ Synced(r)
  BY DEF IInv, ExpandMembership, Past, Synced
<1>2. token[r].sub \in Subs /\ token[r].org # None /\ token[r] # None /\ m \in Subs \X Orgs
  BY <1>1, Known
<1>3. CASE UNCHANGED memberships /\ Finish(r, "error")
  BY <1>1, <1>2, <1>3, FailStep DEF ExpandMembership
<1>4. CASE /\ users[token[r].sub] # None
           /\ memberships' = [memberships EXCEPT ![m] = Upserted(token[r].sub, token[r].org, token[r].claims)]
           /\ Finish(r, IF memberships'[m].blocked THEN "blocked" ELSE "expanded")
  <2>1. memberships'[m] = Upserted(token[r].sub, token[r].org, token[r].claims)
    BY <1>1, <1>2, <1>4 DEF TypeOK
  <2>2. {q \in Requests : Synced(q)}' = {q \in Requests : Synced(q)} \ {r}
    BY <1>1, <1>4, SyncedMoves DEF Steps, Finish
  <2>3. Abstract!Blocked(m) <=> Blocked(token[r].sub, token[r].org)
    BY DEF Abstract!Blocked, Blocked
  <2>4. UNCHANGED users
    BY DEF ExpandMembership
  <2>5. Abstract!Answer(r, IF Abstract!Blocked(m) THEN "blocked" ELSE "expanded")
    BY <1>2, <1>4, <2>1, <2>2, <2>3, <2>4 DEF Finish, Upserted, Abstract!Answer
  <2>6. Abstract!Membership(token[r]) = m
    BY DEF Abstract!Membership
  <2>7. memberships' = [memberships EXCEPT ![m] = [blocked |-> Abstract!Blocked(m), roles |-> token[r].claims]]
    <3>1. Blocked(token[r].sub, token[r].org) \in BOOLEAN /\ Abstract!Blocked(m) \in BOOLEAN
      BY <1>1, <1>2 DEF TypeOK, Blocked, Abstract!Blocked, MembershipRow
    <3> QED BY <1>4, <2>3, <3>1 DEF Upserted
  <2>8. [s \in Subs |-> IF users[s] = None THEN None ELSE users[s].hash][token[r].sub] # None
    BY <1>1, <1>2, <1>4 DEF TypeOK, UserRow
  <2> QED BY <1>1, <2>5, <2>6, <2>7, <2>8 DEF Abstract!Decide
<1> QED BY <1>3, <1>4 DEF ExpandMembership

(* The statements that concern neither the user's row nor the membership. *)
LEMMA OtherSteps ==
    ASSUME IInv, NEW r \in Requests,
           \/ ExpandOrganization(r) \/ ResolveRelations(r) \/ ExpandClient(r)
           \/ FillColumn(r, "device") \/ FillColumn(r, "release")
    PROVE  Abstract!Fail(r) \/ Abstract!Work
<1>1. TypeOK /\ token[r] # None /\ UNCHANGED <<users, memberships>>
  BY DEF IInv, ExpansionOK, RequestOK, ExpandOrganization, ResolveRelations, ExpandClient, FillColumn
<1>2. MirrorsKept
  BY <1>1 DEF MirrorsKept
<1>3. ASSUME NEW l \in Steps, Goto(r, l), GoesOn, UNCHANGED token,
             l \in {"relations", "client", "device", "release", "membership"} <=> Synced(r)
      PROVE  Abstract!Work
  <2>1. SyncedKept
    BY <1>1, <1>3, SyncedMoves DEF SyncedKept
  <2> QED BY <1>1, <1>2, <1>3, <2>1, WorkStep DEF GoesOn
<1>4. CASE ExpandOrganization(r)
  <2>1. CASE token[r].org = None /\ Finish(r, "no_organization")
    BY <1>1, <2>1, FailStep
  <2>2. CASE Goto(r, "find") /\ GoesOn /\ UNCHANGED token
    BY <1>3, <1>4, <2>2 DEF ExpandOrganization, Steps, Synced
  <2> QED BY <1>4, <2>1, <2>2 DEF ExpandOrganization
<1>5. CASE ResolveRelations(r)
  <2>1. PICK l \in {"relations", "client"} : Goto(r, l)
    BY <1>1, <1>5, Resolving
  <2> QED BY <1>3, <1>5, <2>1 DEF ResolveRelations, locals, Steps, Synced
<1>6. ASSUME NEW columns
      PROVE  NextColumn(columns) \in {"device", "release", "membership"}
  BY DEF NextColumn
<1>7. CASE ExpandClient(r)
  <2>1. PICK l \in {"device", "release", "membership"} : Goto(r, l)
    BY <1>6, <1>7 DEF ExpandClient
  <2> QED BY <1>3, <1>7, <2>1 DEF ExpandClient, Steps, Synced
<1>8. ASSUME NEW column \in Fields, FillColumn(r, column)
      PROVE  Abstract!Fail(r) \/ Abstract!Work
  <2>1. CASE Finish(r, "error")
    <3>1. Past(r)
      BY <1>8 DEF FillColumn, Fields, Past
    <3> QED BY <1>1, <2>1, <3>1, Known, FailStep
  <2>2. CASE Goto(r, NextColumn(missing'[r])) /\ GoesOn /\ UNCHANGED token
    <3>1. PICK l \in {"device", "release", "membership"} : Goto(r, l)
      BY <1>6, <2>2
    <3> QED BY <1>3, <1>8, <2>2, <3>1 DEF FillColumn, Steps, Synced, Fields
  <2> QED BY <1>8, <2>1, <2>2 DEF FillColumn
<1> QED BY <1>4, <1>5, <1>7, <1>8 DEF Fields

(* The operator's edits. *)
LEMMA OperatorSteps ==
    ASSUME TypeOK, Operator
    PROVE  Abstract!Next
<1>1. outcome' = "none" /\ UNCHANGED <<pc, token>>
  BY DEF Operator, SetBlocked, DeleteMembership, DeleteUser, DeleteOrganization, DeleteClient, Unharmed, locals
<1>2. {q \in Requests : Synced(q)}' = {q \in Requests : Synced(q)}
  BY <1>1 DEF Synced
<1>3. ASSUME NEW s \in Subs, NEW o \in Orgs, NEW b \in BOOLEAN, SetBlocked(s, o, b)
      PROVE  Abstract!SetBlocked(<<s, o>>, b)
  BY <1>1, <1>2, <1>3 DEF SetBlocked, Abstract!SetBlocked
<1>4. ASSUME NEW s \in Subs, NEW o \in Orgs, DeleteMembership(s, o)
      PROVE  Abstract!Remove({<<s, o>>})
  BY <1>1, <1>2, <1>4 DEF TypeOK, DeleteMembership, Abstract!Remove
<1>5. ASSUME NEW s \in Subs, DeleteUser(s)
      PROVE  Abstract!Remove({s} \X Orgs)
  <2>1. memberships' = [m \in Subs \X Orgs |-> IF m \in {s} \X Orgs THEN None ELSE memberships[m]]
    BY <1>5 DEF DeleteUser
  <2>2. [q \in Subs |-> IF users'[q] = None THEN None ELSE users'[q].hash] =
           [[q \in Subs |-> IF users[q] = None THEN None ELSE users[q].hash] EXCEPT ![s] = None]
    BY <1>5 DEF TypeOK, DeleteUser
  <2> QED BY <1>1, <1>2, <2>1, <2>2 DEF Abstract!Remove
<1>6. ASSUME NEW o \in Orgs, DeleteOrganization(o)
      PROVE  Abstract!Remove(Subs \X {o})
  <2>1. memberships' = [m \in Subs \X Orgs |-> IF m \in Subs \X {o} THEN None ELSE memberships[m]]
    BY <1>6 DEF DeleteOrganization
  <2>2. MirrorsKept
    <3>1. ASSUME NEW row \in UserRow
          PROVE  /\ [row EXCEPT !.org = 0] \in UserRow /\ [row EXCEPT !.org = 0].hash = row.hash
                 /\ [row EXCEPT !.org = 0] # None /\ row # None
      <4>1. [row EXCEPT !.org = 0] \in UserRow /\ [row EXCEPT !.org = 0].hash = row.hash
        BY DEF UserRow, Keys
      <4> QED BY <4>1
    <3>2. ASSUME NEW s \in Subs
          PROVE  \/ users'[s] = users[s]
                 \/ users[s] \in UserRow /\ users'[s] = [users[s] EXCEPT !.org = 0]
      BY <1>6 DEF TypeOK, DeleteOrganization
    <3> QED BY <3>1, <3>2 DEF MirrorsKept
  <2>3. [q \in Subs |-> IF users'[q] = None THEN None ELSE users'[q].hash] =
           [q \in Subs |-> IF users[q] = None THEN None ELSE users[q].hash]
    BY <2>2 DEF MirrorsKept
  <2> QED BY <1>1, <1>2, <2>1, <2>3 DEF Abstract!Remove
<1>7. ASSUME NEW c \in Clients, DeleteClient(c)
      PROVE  Abstract!Work
  BY <1>1, <1>7, WorkStep DEF DeleteClient, MirrorsKept, SyncedKept, Synced
<1>8. /\ \A s \in Subs, o \in Orgs : <<s, o>> \in Subs \X Orgs /\ {<<s, o>>} \in SUBSET (Subs \X Orgs)
      /\ \A s \in Subs : {s} \X Orgs \in SUBSET (Subs \X Orgs)
      /\ \A o \in Orgs : Subs \X {o} \in SUBSET (Subs \X Orgs)
  OBVIOUS
<1>9. ASSUME NEW s \in Subs, NEW o \in Orgs, DeleteMembership(s, o) \/ \E b \in BOOLEAN : SetBlocked(s, o, b)
      PROVE  Abstract!Next
  <2>1. CASE DeleteMembership(s, o)
    <3>1. \E M \in SUBSET (Subs \X Orgs) : Abstract!Remove(M)
      BY <1>4, <1>8, <2>1
    <3> QED BY <3>1 DEF Abstract!Next
  <2>2. CASE \E b \in BOOLEAN : SetBlocked(s, o, b)
    <3>1. PICK b \in BOOLEAN : SetBlocked(s, o, b)
      BY <2>2, Zenon
    <3>2. Abstract!SetBlocked(<<s, o>>, b) /\ <<s, o>> \in Subs \X Orgs
      BY <1>3, <1>8, <3>1
    <3>3. \E m \in Subs \X Orgs, c \in BOOLEAN : Abstract!SetBlocked(m, c)
      BY <3>2, Zenon
    <3> QED BY <3>3 DEF Abstract!Next
  <2> QED BY <1>9, <2>1, <2>2
<1>10. CASE \E s \in Subs : DeleteUser(s)
  BY <1>5, <1>8, <1>10 DEF Abstract!Next
<1>11. CASE \E o \in Orgs : DeleteOrganization(o)
  BY <1>6, <1>8, <1>11 DEF Abstract!Next
<1>12. CASE \E c \in Clients : DeleteClient(c)
  BY <1>7, <1>12 DEF Abstract!Next
<1> QED BY <1>9, <1>10, <1>11, <1>12 DEF Operator

(* The rows of a request and its verdict come about one statement at a     *)
(* time, and still each verdict is one that could have been given at one   *)
(* moment, with the membership as it stood then (expand.py:141-149).       *)
THEOREM AdmissionIsAtomic == Spec => RefinesAdmission
<1>1. Init => Abstract!Init
  BY DEF Init, Abstract!Init, Synced
<1>2. ASSUME IInv, [Next]_vars PROVE [Abstract!Next]_(Abstract!admissionVars)
  <2>1. ASSUME NEW r \in Requests, Expand(r)
        PROVE  Abstract!Next
    BY <1>2, <2>1, UserSteps, MembershipStep, OtherSteps DEF Expand, Abstract!Next
  <2>2. ASSUME NEW r \in Requests, NEW t \in Tokens, Begin(r, t)
        PROVE  Abstract!Next
    <3>1. token[r] = None /\ TypeOK
      BY <1>2, <2>2 DEF IInv, ExpansionOK, RequestOK, Begin
    <3>2. {q \in Requests : Synced(q)}' = {q \in Requests : Synced(q)}
      BY <2>2, <3>1, SyncedMoves DEF Begin, Steps, Synced
    <3>3. Abstract!Present(r, t)
      BY <2>2, <3>1, <3>2 DEF Begin, tables, Abstract!Present
    <3> QED BY <3>3 DEF Abstract!Next
  <2>3. CASE Operator
    BY <1>2, <2>3, OperatorSteps DEF IInv
  <2>4. CASE UNCHANGED vars
    BY <2>4 DEF vars, tables, locals, Abstract!admissionVars, Synced
  <2> QED BY <1>2, <2>1, <2>2, <2>3, <2>4 DEF Next
<1> QED
  BY <1>1, <1>2, InductiveInvariant, PTL DEF Spec, RefinesAdmission, Abstract!Spec
-----------------------------------------------------------------------------
(* What holds of the active organization while no organization is deleted. *)

KeepsActive ==
    /\ \A s \in Subs : users[s] # None => users[s].org # 0
    /\ \A r \in Requests : Synced(r) => context[r].org # 0

(* A request that is not synchronised by this step, and no row that is.    *)
LEMMA ActiveKept ==
    ASSUME TypeOK, KeepsActive, NEW r \in Requests, NEW l \in Steps, Goto(r, l),
           NEW c, context' = [context EXCEPT ![r] = c],
           l \in {"relations", "client", "device", "release", "membership"} => c.org # 0,
           \A s \in Subs : users'[s] # None => users'[s].org # 0
    PROVE  KeepsActive'
BY SyncedMoves DEF KeepsActive, TypeOK

LEMMA ActiveStep ==
    ASSUME IInv, KeepsActive, [Next]_vars, \A o \in Orgs : ~DeleteOrganization(o)
    PROVE  KeepsActive'
<1>1. TypeOK
  BY DEF IInv
<1>2. ASSUME NEW r \in Requests, NEW o, Finish(r, o), UNCHANGED users
      PROVE  KeepsActive'
  <2>1. Goto(r, "idle") /\ "idle" \in Steps /\ context' = [context EXCEPT ![r] = NoContext]
    BY <1>2 DEF Finish, Steps
  <2> QED BY <1>1, <1>2, <2>1, ActiveKept DEF KeepsActive
<1>3. ASSUME NEW r \in Requests, NEW l \in Steps, Goto(r, l), UNCHANGED <<users, context>>,
             l \in {"relations", "client", "device", "release", "membership"} => Synced(r)
      PROVE  KeepsActive'
  <2>1. context' = [context EXCEPT ![r] = context[r]]
    BY <1>1, <1>3 DEF TypeOK
  <2> QED BY <1>1, <1>3, <2>1, ActiveKept DEF KeepsActive
<1>4. ASSUME NEW r \in Requests, Past(r), users[token[r].sub] # None, Found(r, users[token[r].sub]), UNCHANGED users
      PROVE  KeepsActive'
  <2>1. users[token[r].sub].org # 0
    BY <1>4, Known DEF KeepsActive
  <2>2. PICK l \in {"relations", "save"} : Goto(r, l)
    BY <1>4 DEF Found
  <2> QED BY <1>1, <1>4, <2>1, <2>2, ActiveKept DEF Found, KeepsActive, Steps
<1>5. ASSUME NEW r \in Requests, NEW pk, Past(r), Written(r, Mirror(r, pk))
      PROVE  KeepsActive'
  <2>1. Mirror(r, pk).org # 0
    BY <1>5, Known DEF Mirror
  <2>2. \A s \in Subs : users'[s] # None => users'[s].org # 0
    BY <1>1, <1>5, <2>1 DEF Written, KeepsActive, TypeOK
  <2> QED BY <1>1, <1>5, <2>1, <2>2, ActiveKept DEF Written, Steps
<1>6. ASSUME NEW columns
      PROVE  NextColumn(columns) \in {"device", "release", "membership"}
  BY DEF NextColumn
<1>7. ASSUME NEW r \in Requests, Expand(r)
      PROVE  KeepsActive'
  <2>1. CASE ExpandOrganization(r)
    BY <1>2, <1>3, <2>1 DEF ExpandOrganization, Steps
  <2>2. CASE FindUser(r)
    BY <1>3, <1>4, <2>2 DEF FindUser, tables, Past, Steps
  <2>3. CASE InsertUser(r)
    BY <1>3, <1>5, <2>3 DEF InsertUser, Past, Steps
  <2>4. CASE RefindUser(r)
    BY <1>2, <1>4, <2>4 DEF RefindUser, tables, Past
  <2>5. CASE SaveUser(r)
    BY <1>2, <1>5, <2>5 DEF SaveUser, Past
  <2>6. CASE ResolveRelations(r)
    <3>1. PICK l \in {"relations", "client"} : Goto(r, l)
      BY <1>1, <2>6, Resolving
    <3> QED BY <1>3, <2>6, <3>1 DEF ResolveRelations, locals, Steps, Synced
  <2>7. CASE ExpandClient(r)
    <3>1. PICK l \in {"device", "release", "membership"} : Goto(r, l)
      BY <1>6, <2>7 DEF ExpandClient
    <3> QED BY <1>3, <2>7, <3>1 DEF ExpandClient, Steps, Synced
  <2>8. ASSUME NEW column \in Fields, FillColumn(r, column)
        PROVE  KeepsActive'
    <3>1. CASE Goto(r, NextColumn(missing'[r])) /\ UNCHANGED <<users, context>>
      <4>1. PICK l \in {"device", "release", "membership"} : Goto(r, l)
        BY <1>6, <3>1
      <4> QED BY <1>3, <2>8, <3>1, <4>1 DEF FillColumn, Steps, Synced, Fields
    <3> QED BY <1>2, <2>8, <3>1 DEF FillColumn
  <2>9. CASE ExpandMembership(r)
    BY <1>2, <2>9 DEF ExpandMembership
  <2> QED BY <1>7, <2>1, <2>2, <2>3, <2>4, <2>5, <2>6, <2>7, <2>8, <2>9 DEF Expand, Fields
<1>8. ASSUME NEW r \in Requests, NEW t \in Tokens, Begin(r, t)
      PROVE  KeepsActive'
  BY <1>3, <1>8 DEF Begin, tables, Steps
<1>9. CASE Operator
  BY <1>1, <1>9 DEF KeepsActive, Operator, SetBlocked, DeleteMembership, DeleteUser, DeleteClient, Unharmed, locals,
     Synced, TypeOK
<1>10. CASE UNCHANGED vars
  BY <1>10 DEF vars, tables, locals, KeepsActive, Synced
<1> QED BY <1>7, <1>8, <1>9, <1>10 DEF Next

(* "The organization the user is currently acting in" (models.py:45) is    *)
(* the request's own for as long as no organization is ever deleted: the   *)
(* deletion is the one thing that comes between (expand.py:246).           *)
THEOREM ActiveUnlessDeleted ==
    Init /\ [][Next /\ \A o \in Orgs : ~DeleteOrganization(o)]_vars => ActiveOrganization
<1> DEFINE Sparing == Next /\ \A o \in Orgs : ~DeleteOrganization(o)
<1>1. Init => IInv /\ KeepsActive
  BY InitOK DEF Init, KeepsActive, Synced
<1>2. IInv /\ KeepsActive /\ [Sparing]_vars => (IInv /\ KeepsActive)'
  BY NextOK, ActiveStep, Unchanged DEF vars, tables, locals, KeepsActive, Synced
<1>3. ASSUME IInv, KeepsActive, Next, NEW r \in Requests, Ends(r, "expanded"), undeleted[r]
      PROVE  context[r].org = organization[r]
  <2>1. pc[r] = "membership" /\ OrganizationExists(r)
    BY <1>3, Expanded
  <2>2. context[r].org \in {0, organization[r]}
    BY <1>3, <2>1 DEF IInv, ExpansionOK, MirrorOK, Synced
  <2> QED BY <1>3, <2>1, <2>2 DEF KeepsActive, Synced
<1>4. IInv /\ KeepsActive /\ [Sparing]_vars =>
         [\A r \in Requests : Ends(r, "expanded") /\ undeleted[r] => context[r].org = organization[r]]_vars
  BY <1>3
<1> QED BY <1>1, <1>2, <1>4, PTL DEF ActiveOrganization
=============================================================================
