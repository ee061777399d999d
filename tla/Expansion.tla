------------------------------ MODULE Expansion ------------------------------
(***************************************************************************)
(* Turning a verified token into rows (expand.py): aexpand_token_context   *)
(* get-or-creates the organization, the user, the client and the           *)
(* membership, one statement after another and in no transaction, while    *)
(* other requests do the same and an operator blocks members and deletes   *)
(* rows.                                                                   *)
(*                                                                         *)
(* One issuer; each action of a request is one statement on the rows kept  *)
(* here, which the database runs atomically.  Django's get_or_create and   *)
(* update_or_create survive a lost create race by themselves and count as  *)
(* one statement.  Rows are told apart by their primary key, so that a row *)
(* that was deleted and created anew is another row.  Apps, releases and   *)
(* devices are created here and never deleted.                             *)
(***************************************************************************)
EXTENDS Integers

CONSTANTS
    Requests, Subs, Orgs,
    Claims,    \* values of what changed_hash digests besides the org: profile and roles
    Clients, Devices, Releases,
    Tokens,    \* the tokens that are presented
    None,
    MaxKey,    \* bound on the rows ever created in one table
    MaxEdits   \* bound on the operator's edits, a deletion counting as two

Optional(S) == S \cup {None}

AllTokens == [sub : Subs, org : Optional(Orgs), claims : Claims,
              client : Clients, device : Optional(Devices), release : Optional(Releases)]

ASSUME TokensAssumption == Tokens \subseteq AllTokens
ASSUME BoundsAssumption == MaxKey \in Nat /\ MaxEdits \in Nat
ASSUME NoneAssumption ==
    /\ None \notin Subs \cup Orgs \cup Claims \cup Clients \cup Devices \cup Releases
    /\ None \notin Tokens

(* The tables.  An absent row is None; the foreign key 0 is NULL. *)
VARIABLES
    organizations,  \* the key of each organization, 0 when it has no row
    users,          \* by sub: [pk, claims, org, hash]
    memberships,    \* by sub and organization: [blocked, roles]
    clients,        \* by client id: [pk, device, release]
    related,        \* the App, Release and Device rows
    lastKey         \* the last key used for an organization, a user and a client

(* The requests. *)
VARIABLES
    pc, token,
    organization,  \* organization.id
    user,          \* user.id
    context,       \* the returned user's claims and active organization
    client,        \* client.id
    missing        \* the columns of the client this request will fill

(* The operator, and history read by the properties only. *)
VARIABLES
    edits,      \* the operator's edits so far, a deletion counting as two
    outcome,    \* how the request that ended in the last step did so
    alone,      \* no other request for the same user ran beside this one
    undeleted,  \* no row was deleted since this request began
    barred      \* its membership has been blocked since this request began

tables == <<organizations, users, memberships, clients, related, lastKey>>
locals == <<token, organization, user, context, client, missing>>
history == <<alone, undeleted, barred>>
vars == <<tables, pc, locals, edits, outcome, history>>

Keys == 0..MaxKey
Hashes == [claims : Claims, org : Orgs]
UserRow == [pk : 1..MaxKey, claims : Claims, org : Keys, hash : Hashes]
MembershipRow == [blocked : BOOLEAN, roles : Claims]
ClientRow == [pk : 1..MaxKey, device : Optional(Devices), release : Optional(Releases)]

(* A release stands for an app's identifier and the version of that app. *)
RelatedRow == ({"app", "release"} \X Releases) \cup ({"device"} \X Devices)

ASSUME NoneIsNoRow == None \notin UserRow \cup MembershipRow \cup ClientRow \cup Hashes

Steps == {"idle", "organization", "find", "insert", "refind", "save",
          "relations", "client", "device", "release", "membership"}
Outcomes == {"none", "expanded", "blocked", "no_organization", "error"}

TypeOK ==
    /\ organizations \in [Orgs -> Keys]
    /\ users \in [Subs -> UserRow \cup {None}]
    /\ memberships \in [Subs \X Orgs -> MembershipRow \cup {None}]
    /\ clients \in [Clients -> ClientRow \cup {None}]
    /\ related \subseteq RelatedRow
    /\ lastKey \in [org : Keys, user : Keys, client : Keys]
    /\ pc \in [Requests -> Steps]
    /\ token \in [Requests -> Tokens \cup {None}]
    /\ organization \in [Requests -> Keys]
    /\ user \in [Requests -> Keys]
    /\ context \in [Requests -> [claims : Optional(Claims), org : Keys]]
    /\ client \in [Requests -> Keys]
    /\ missing \in [Requests -> SUBSET {"device", "release"}]
    /\ edits \in 0..MaxEdits
    /\ outcome \in Outcomes
    /\ alone \in [Requests -> BOOLEAN]
    /\ undeleted \in [Requests -> BOOLEAN]
    /\ barred \in [Requests -> BOOLEAN]

NoContext == [claims |-> None, org |-> 0]

Init ==
    /\ organizations = [o \in Orgs |-> 0]
    /\ users = [s \in Subs |-> None]
    /\ memberships = [m \in Subs \X Orgs |-> None]
    /\ clients = [c \in Clients |-> None]
    /\ related = {}
    /\ lastKey = [org |-> 0, user |-> 0, client |-> 0]
    /\ pc = [r \in Requests |-> "idle"]
    /\ token = [r \in Requests |-> None]
    /\ organization = [r \in Requests |-> 0]
    /\ user = [r \in Requests |-> 0]
    /\ context = [r \in Requests |-> NoContext]
    /\ client = [r \in Requests |-> 0]
    /\ missing = [r \in Requests |-> {}]
    /\ edits = 0
    /\ outcome = "none"
    /\ alone = [r \in Requests |-> FALSE]
    /\ undeleted = [r \in Requests |-> FALSE]
    /\ barred = [r \in Requests |-> FALSE]
-----------------------------------------------------------------------------
Goto(r, l) == pc' = [pc EXCEPT ![r] = l]

(* What the properties remember of a request ends with it. *)
Forget(r) ==
    /\ alone' = [alone EXCEPT ![r] = FALSE]
    /\ undeleted' = [undeleted EXCEPT ![r] = FALSE]
    /\ barred' = [barred EXCEPT ![r] = FALSE]

(* This step of a request does not end it. *)
GoesOn == outcome' = "none" /\ UNCHANGED history

Finish(r, o) ==
    /\ Goto(r, "idle")
    /\ outcome' = o
    /\ Forget(r)
    /\ token' = [token EXCEPT ![r] = None]
    /\ organization' = [organization EXCEPT ![r] = 0]
    /\ user' = [user EXCEPT ![r] = 0]
    /\ context' = [context EXCEPT ![r] = NoContext]
    /\ client' = [client EXCEPT ![r] = 0]
    /\ missing' = [missing EXCEPT ![r] = {}]

(* changed_hash, as the values it digests. *)
changed_hash(t) == [claims |-> t.claims, org |-> t.org]

Blocked(s, o) == memberships[<<s, o>>] # None /\ memberships[<<s, o>>].blocked

(* A request with token t arrives. *)
Begin(r, t) ==
    /\ pc[r] = "idle"
    /\ Goto(r, "organization")
    /\ token' = [token EXCEPT ![r] = t]
    /\ alone' = [q \in Requests |->
          LET beside == {p \in Requests \ {r} : token[p] # None /\ token[p].sub = t.sub}
          IN  IF q = r THEN beside = {} ELSE alone[q] /\ q \notin beside]
    /\ undeleted' = [undeleted EXCEPT ![r] = TRUE]
    /\ barred' = [barred EXCEPT ![r] = t.org # None /\ Blocked(t.sub, t.org)]
    /\ outcome' = "none"
    /\ UNCHANGED <<tables, organization, user, context, client, missing, edits>>

(* aexpand_organization_from_token *)
ExpandOrganization(r) ==
    /\ pc[r] = "organization"
    /\ \/ /\ token[r].org = None
          /\ Finish(r, "no_organization")
          /\ UNCHANGED <<organizations, lastKey>>
       \/ /\ token[r].org # None
          /\ organizations[token[r].org] # 0
          /\ organization' = [organization EXCEPT ![r] = organizations[token[r].org]]
          /\ Goto(r, "find")
          /\ GoesOn
          /\ UNCHANGED <<organizations, lastKey, token, user, context, client, missing>>
       \/ /\ token[r].org # None
          /\ organizations[token[r].org] = 0
          /\ lastKey.org < MaxKey
          /\ lastKey' = [lastKey EXCEPT !.org = @ + 1]
          /\ organizations' = [organizations EXCEPT ![token[r].org] = lastKey'.org]
          /\ organization' = [organization EXCEPT ![r] = lastKey'.org]
          /\ Goto(r, "find")
          /\ GoesOn
          /\ UNCHANGED <<token, user, context, client, missing>>
    /\ UNCHANGED <<users, memberships, clients, related, edits>>

(* Mutant: the row's hash is believed without comparing it. *)
FoundTrusting(r, row) ==
    /\ user' = [user EXCEPT ![r] = row.pk]
    /\ context' = [context EXCEPT ![r] = [claims |-> row.claims, org |-> row.org]]
    /\ Goto(r, "relations")

(* Mutant: only the profile is compared, not the organization. *)
FoundByProfile(r, row) ==
    /\ user' = [user EXCEPT ![r] = row.pk]
    /\ context' = [context EXCEPT ![r] = [claims |-> row.claims, org |-> row.org]]
    /\ Goto(r, IF row.hash.claims = token[r].claims THEN "relations" ELSE "save")

(* A user row was read; it is synchronised only when its hash differs. *)
Found(r, row) ==
    /\ user' = [user EXCEPT ![r] = row.pk]
    /\ context' = [context EXCEPT ![r] = [claims |-> row.claims, org |-> row.org]]
    /\ Goto(r, IF row.hash = changed_hash(token[r]) THEN "relations" ELSE "save")

(* User.objects.aget(sub, iss) *)
FindUser(r) ==
    /\ pc[r] = "find"
    /\ \/ users[token[r].sub] # None /\ Found(r, users[token[r].sub])
       \/ users[token[r].sub] = None /\ Goto(r, "insert") /\ UNCHANGED <<user, context>>
    /\ GoesOn
    /\ UNCHANGED <<tables, token, organization, client, missing, edits>>

(* Mutant: the hash is never stored. *)
MirrorUnhashed(r, pk) ==
    [pk |-> pk, claims |-> token[r].claims, org |-> organization[r], hash |-> None]

(* Mutant: the profile is applied to a new row only. *)
MirrorOnce(r, pk) ==
    [pk |-> pk, org |-> organization[r], hash |-> changed_hash(token[r]),
     claims |-> IF context[r].claims = None THEN token[r].claims ELSE context[r].claims]

(* The row that apply_profile, changed_hash and active_organization make. *)
Mirror(r, pk) ==
    [pk |-> pk, claims |-> token[r].claims, org |-> organization[r], hash |-> changed_hash(token[r])]

Written(r, row) ==
    /\ users' = [users EXCEPT ![token[r].sub] = row]
    /\ user' = [user EXCEPT ![r] = row.pk]
    /\ context' = [context EXCEPT ![r] = [claims |-> row.claims, org |-> row.org]]
    /\ Goto(r, "relations")

(* The foreign key active_organization of this request has a row. *)
OrganizationExists(r) == organizations[token[r].org] = organization[r]

(* The first asave: (sub, iss) is unique, active_organization must exist.  *)
(* Either violation is an IntegrityError, taken for a lost create race.    *)
InsertUser(r) ==
    /\ pc[r] = "insert"
    /\ \/ /\ users[token[r].sub] = None
          /\ OrganizationExists(r)
          /\ lastKey.user < MaxKey
          /\ lastKey' = [lastKey EXCEPT !.user = @ + 1]
          /\ Written(r, Mirror(r, lastKey'.user))
       \/ /\ ~(users[token[r].sub] = None /\ OrganizationExists(r))
          /\ Goto(r, "refind")
          /\ UNCHANGED <<users, user, context, lastKey>>
    /\ UNCHANGED <<organizations, memberships, clients, related>>
    /\ GoesOn
    /\ UNCHANGED <<token, organization, client, missing, edits>>

(* Mutant: the IntegrityError is not recovered from. *)
RefindUserNever(r) ==
    /\ pc[r] = "refind"
    /\ Finish(r, "error")
    /\ UNCHANGED <<tables, edits>>

(* The second aget; DoesNotExist is not caught. *)
RefindUser(r) ==
    /\ pc[r] = "refind"
    /\ \/ /\ users[token[r].sub] # None
          /\ Found(r, users[token[r].sub])
          /\ GoesOn
          /\ UNCHANGED <<token, organization, client, missing>>
       \/ /\ users[token[r].sub] = None
          /\ Finish(r, "error")
    /\ UNCHANGED <<tables, edits>>

(* No row under another key stands in the way of this request's user. *)
KeyIsFree(r) == users[token[r].sub] # None => users[token[r].sub].pk = user[r]

(* The second asave writes the whole row: an UPDATE, and when that finds   *)
(* no row an INSERT under the same key.  IntegrityError is not caught.     *)
SaveUser(r) ==
    /\ pc[r] = "save"
    /\ \/ /\ OrganizationExists(r) /\ KeyIsFree(r)
          /\ Written(r, Mirror(r, user[r]))
          /\ GoesOn
          /\ UNCHANGED <<token, organization, client, missing>>
       \/ /\ ~(OrganizationExists(r) /\ KeyIsFree(r))
          /\ Finish(r, "error")
          /\ UNCHANGED users
    /\ UNCHANGED <<organizations, memberships, clients, related, lastKey, edits>>

(* The rows a token refers to, each after the one it refers to itself. *)
Relations(t) ==
    (IF t.release = None THEN {} ELSE {<<"app", t.release>>, <<"release", t.release>>})
       \cup (IF t.device = None THEN {} ELSE {<<"device", t.device>>})

Precedes(a, b) == <<a[1], b[1]>> \in {<<"app", "release">>, <<"app", "device">>, <<"release", "device">>}

(* aresolve_client_relations: each statement that creates a row is a step. *)
(* The rows are not deleted here, so finding one has no effect of its own. *)
ResolveRelations(r) ==
    LET absent == Relations(token[r]) \ related IN
    /\ pc[r] = "relations"
    /\ \/ /\ \E row \in absent :
                /\ \A other \in absent : ~Precedes(other, row)
                /\ related' = related \cup {row}
          /\ UNCHANGED pc
       \/ /\ absent = {}
          /\ Goto(r, "client")
          /\ UNCHANGED related
    /\ UNCHANGED <<organizations, users, memberships, clients, lastKey>>
    /\ GoesOn
    /\ UNCHANGED <<locals, edits>>

(* Where aexpand_client_from_token goes with these columns to fill. *)
NextColumn(columns) ==
    IF "device" \in columns THEN "device"
    ELSE IF "release" \in columns THEN "release" ELSE "membership"

(* Mutant: `elif` for the second `if`. *)
ColumnsFirst(row, t) ==
    LET null == {c \in {"device", "release"} : row[c] = None /\ t[c] # None}
    IN  IF "device" \in null THEN {"device"} ELSE null

(* The columns that are NULL in the row and named by the token. *)
Columns(row, t) ==
    {c \in {"device", "release"} : row[c] = None /\ t[c] # None}

ExpandClient(r) ==
    LET t == token[r]
        row == clients[t.client]
    IN
    /\ pc[r] = "client"
    /\ \/ /\ row = None
          /\ lastKey.client < MaxKey
          /\ lastKey' = [lastKey EXCEPT !.client = @ + 1]
          /\ clients' = [clients EXCEPT ![t.client] =
                [pk |-> lastKey'.client, device |-> t.device, release |-> t.release]]
          /\ client' = [client EXCEPT ![r] = lastKey'.client]
          /\ Goto(r, "membership")
          /\ UNCHANGED missing
       \/ /\ row # None
          /\ client' = [client EXCEPT ![r] = row.pk]
          /\ missing' = [missing EXCEPT ![r] = Columns(row, t)]
          /\ Goto(r, NextColumn(missing'[r]))
          /\ UNCHANGED <<clients, lastKey>>
    /\ UNCHANGED <<organizations, users, memberships, related>>
    /\ GoesOn
    /\ UNCHANGED <<token, organization, user, context, edits>>

(* Mutant: asave() without update_fields writes the row as it was read. *)
FilledWhole(r, column, row) ==
    [c \in {"pk", "device", "release"} |->
        IF c = column THEN token[r][c] ELSE IF c \in missing[r] THEN None ELSE row[c]]

(* What asave(update_fields=[column]) makes of the row. *)
Filled(r, column, row) == [row EXCEPT ![column] = token[r][column]]

(* The client this request has read is still there, under the key it has. *)
ClientStands(r) == clients[token[r].client] # None /\ clients[token[r].client].pk = client[r]

(* asave(update_fields=[column]): an UPDATE by key, a DatabaseError when   *)
(* it finds no row, even if the client has been created anew.              *)
FillColumn(r, column) ==
    /\ pc[r] = column
    /\ \/ /\ ClientStands(r)
          /\ clients' = [clients EXCEPT ![token[r].client] = Filled(r, column, @)]
          /\ missing' = [missing EXCEPT ![r] = @ \ {column}]
          /\ Goto(r, NextColumn(missing'[r]))
          /\ GoesOn
          /\ UNCHANGED <<token, organization, user, context, client>>
       \/ /\ ~ClientStands(r)
          /\ Finish(r, "error")
          /\ UNCHANGED clients
    /\ UNCHANGED <<organizations, users, memberships, related, lastKey, edits>>

(* Mutants: `blocked` is among the defaults of the upsert; a row that is    *)
(* found keeps its roles, as aget_or_create would have it.                 *)
UpsertedUnblocked(s, o, roles) == [blocked |-> FALSE, roles |-> roles]

UpsertedKeeping(s, o, roles) ==
    IF memberships[<<s, o>>] = None THEN [blocked |-> FALSE, roles |-> roles] ELSE memberships[<<s, o>>]

(* The row that aupdate_or_create leaves and returns. *)
Upserted(s, o, roles) == [blocked |-> Blocked(s, o), roles |-> roles]

(* aexpand_membership: the roles are written before `blocked` is read. *)
ExpandMembership(r) ==
    LET s == token[r].sub
        o == token[r].org
        intact == OrganizationExists(r) /\ users[s] # None /\ KeyIsFree(r)
    IN
    /\ pc[r] = "membership"
    /\ \/ /\ intact
          /\ memberships' = [memberships EXCEPT ![<<s, o>>] = Upserted(s, o, token[r].claims)]
          /\ Finish(r, IF memberships'[<<s, o>>].blocked THEN "blocked" ELSE "expanded")
       \/ /\ ~intact
          /\ Finish(r, "error")
          /\ UNCHANGED memberships
    /\ UNCHANGED <<organizations, users, clients, related, lastKey, edits>>
-----------------------------------------------------------------------------
(* The operator.  Edits are counted only to bound them: blocking or        *)
(* unblocking as one, deleting a row as two.                               *)
Edit(cost) == edits + cost <= MaxEdits /\ edits' = edits + cost

Unharmed == outcome' = "none" /\ UNCHANGED <<pc, locals>>

(* The requests that no longer count as barred once these memberships may pass. *)
Release(freed) ==
    barred' = [r \in Requests |->
        barred[r] /\ (token[r] # None => <<token[r].sub, token[r].org>> \notin freed)]

Deleted == undeleted' = [r \in Requests |-> FALSE]

SetBlocked(s, o, b) ==
    /\ Edit(1)
    /\ memberships[<<s, o>>] # None
    /\ memberships[<<s, o>>].blocked # b
    /\ memberships' = [memberships EXCEPT ![<<s, o>>].blocked = b]
    /\ IF b THEN UNCHANGED barred ELSE Release({<<s, o>>})
    /\ Unharmed
    /\ UNCHANGED <<organizations, users, clients, related, lastKey, alone, undeleted>>

DeleteMembership(s, o) ==
    /\ Edit(2)
    /\ memberships[<<s, o>>] # None
    /\ memberships' = [memberships EXCEPT ![<<s, o>>] = None]
    /\ Release({<<s, o>>})
    /\ Deleted
    /\ Unharmed
    /\ UNCHANGED <<organizations, users, clients, related, lastKey, alone>>

(* Memberships cascade. *)
DeleteUser(s) ==
    /\ Edit(2)
    /\ users[s] # None
    /\ users' = [users EXCEPT ![s] = None]
    /\ memberships' = [m \in Subs \X Orgs |-> IF m[1] = s THEN None ELSE memberships[m]]
    /\ Release({s} \X Orgs)
    /\ Deleted
    /\ Unharmed
    /\ UNCHANGED <<organizations, clients, related, lastKey, alone>>

(* Memberships cascade; User.active_organization is set to NULL. *)
DeleteOrganization(o) ==
    /\ Edit(2)
    /\ organizations[o] # 0
    /\ organizations' = [organizations EXCEPT ![o] = 0]
    /\ users' = [s \in Subs |->
          IF users[s] # None /\ users[s].org = organizations[o]
          THEN [users[s] EXCEPT !.org = 0] ELSE users[s]]
    /\ memberships' = [m \in Subs \X Orgs |-> IF m[2] = o THEN None ELSE memberships[m]]
    /\ Release(Subs \X {o})
    /\ Deleted
    /\ Unharmed
    /\ UNCHANGED <<clients, related, lastKey, alone>>

DeleteClient(c) ==
    /\ Edit(2)
    /\ clients[c] # None
    /\ clients' = [clients EXCEPT ![c] = None]
    /\ Deleted
    /\ Unharmed
    /\ UNCHANGED <<organizations, users, memberships, related, lastKey, alone, barred>>

Operator ==
    \/ \E s \in Subs, o \in Orgs :
          DeleteMembership(s, o) \/ \E b \in BOOLEAN : SetBlocked(s, o, b)
    \/ \E s \in Subs : DeleteUser(s)
    \/ \E o \in Orgs : DeleteOrganization(o)
    \/ \E c \in Clients : DeleteClient(c)

Expand(r) ==
    \/ ExpandOrganization(r)
    \/ FindUser(r) \/ InsertUser(r) \/ RefindUser(r) \/ SaveUser(r)
    \/ ResolveRelations(r) \/ ExpandClient(r)
    \/ FillColumn(r, "device") \/ FillColumn(r, "release")
    \/ ExpandMembership(r)

Next ==
    \/ \E r \in Requests : Expand(r) \/ \E t \in Tokens : Begin(r, t)
    \/ Operator

Spec == Init /\ [][Next]_vars
-----------------------------------------------------------------------------
Ends(r, o) == pc[r] # "idle" /\ pc'[r] = "idle" /\ outcome' = o

(* Its user has been brought to its token, or found to mirror it. *)
Synced(r) == pc[r] \in {"relations", "client", "device", "release", "membership"}

(* The stored hash is a faithful summary of the stored row, whoever wrote  *)
(* it last: a later request that skips the sync because the hashes agree   *)
(* skips nothing.  Only deleting the organization leaves a NULL behind.    *)
HashHonest ==
    \A s \in Subs :
       users[s] # None =>
          /\ users[s].claims = users[s].hash.claims
          /\ users[s].org \in {0, organizations[users[s].hash.org]}

(* A request gets a user that mirrors its own token, however its           *)
(* statements interleave with those of requests with other tokens.         *)
ContextMirrorsToken ==
    [][\A r \in Requests :
          Ends(r, "expanded") =>
             /\ context[r].claims = token[r].claims
             /\ context[r].org \in {0, organization[r]}]_vars

(* A request that ran beside no other of the same user leaves the row that *)
(* its token describes.                                                    *)
RowMirrorsToken ==
    [][\A r \in Requests :
          Ends(r, "expanded") /\ alone[r] => users[token[r].sub].hash = changed_hash(token[r])]_vars

(* A blocked membership is not overridden by anything the requests do, in  *)
(* whatever order: who was blocked when the request arrived is let in only *)
(* if the operator lifted the block or deleted the row meanwhile ("the one *)
(* authorization control in this library that the issuer cannot override", *)
(* docs/USAGE.md:476).                                                     *)
BlockHolds ==
    [][\A r \in Requests : Ends(r, "expanded") => ~barred[r]]_vars

(* Requests do not fail each other: a lost create race is recovered from,  *)
(* and only an operator's deletion during the request can make it fail     *)
(* (expand.py:240).                                                        *)
RacesAreHarmless ==
    [][\A r \in Requests : Ends(r, "error") => ~undeleted[r]]_vars

(* What one request filled in on a client no other request clears, though  *)
(* each holds a snapshot of the row while it fills it (expand.py:410-416). *)
FilledStays ==
    [][\A c \in Clients :
          clients[c] # None /\ clients'[c] # None =>
             \A f \in {"device", "release"} : clients[c][f] # None => clients'[c][f] # None]_vars

(* Unless an operator deletes rows meanwhile, a request leaves its client  *)
(* with a device and with a release whenever its token names one.          *)
ColumnsFilled ==
    [][\A r \in Requests :
          Ends(r, "expanded") /\ undeleted[r] =>
             \A f \in {"device", "release"} :
                token[r][f] # None => clients[token[r].client][f] # None]_vars

(* The user's active_organization is "the organization the user is         *)
(* currently acting in" (models.py:45): a request during which no row is   *)
(* deleted returns a user whose active organization is its own.            *)
ActiveOrganization ==
    [][\A r \in Requests :
          Ends(r, "expanded") /\ undeleted[r] => context[r].org = organization[r]]_vars

Abstract == INSTANCE Admission WITH
    presented <- token,
    mirrored <- {r \in Requests : Synced(r)},
    answer <- outcome,
    mirror <- [s \in Subs |-> IF users[s] = None THEN None ELSE users[s].hash]

(* Admission and refusal take effect at one moment, though a dozen queries *)
(* in no transaction lead to them and others write in between: what        *)
(* expand.py does, requests and operator interleaved in any way, is what   *)
(* they could have done deciding atomically (expand.py:141-149).           *)
RefinesAdmission == Abstract!Spec
-----------------------------------------------------------------------------
(* The inductive invariant. *)

Fields == {"device", "release"}
Past(r) == pc[r] \notin {"idle", "organization"}

(* The user of this request has a row, under the key the request read. *)
UserStands(r) == users[token[r].sub] # None /\ users[token[r].sub].pk = user[r]

(* Keys are never used again. *)
KeysOK == \A o \in Orgs : organizations[o] <= lastKey.org

(* What a request has got hold of so far. *)
RequestOK(r) ==
    /\ pc[r] = "idle" <=> token[r] = None
    /\ Past(r) => token[r].org # None /\ organization[r] \in 1..lastKey.org
    /\ Synced(r) \/ pc[r] = "save" => user[r] # 0

(* Once synchronised, its user mirrors its token; so does the row, unless  *)
(* another request has written it since.                                   *)
MirrorOK(r) ==
    Synced(r) =>
       /\ context[r].claims = token[r].claims
       /\ OrganizationExists(r) => context[r].org \in {0, organization[r]}
       /\ alone[r] /\ users[token[r].sub] # None => users[token[r].sub].hash = changed_hash(token[r])

(* While nothing is deleted, what it has found or written stays. *)
RowsOK(r) ==
    undeleted[r] =>
       /\ Past(r) => OrganizationExists(r)
       /\ pc[r] = "refind" => users[token[r].sub] # None
       /\ Synced(r) \/ pc[r] = "save" => UserStands(r)

(* Each column its token names is filled, or is among those to be filled.  *)
ColumnsOK(r) ==
    /\ pc[r] \in Fields => pc[r] \in missing[r]
    /\ pc[r] \notin Fields => missing[r] = {}
    /\ \A f \in missing[r] : token[r][f] # None
    /\ undeleted[r] /\ pc[r] \in Fields => ClientStands(r)
    /\ undeleted[r] /\ pc[r] \in Fields \cup {"membership"} =>
          /\ clients[token[r].client] # None
          /\ \A f \in Fields :
                token[r][f] # None => clients[token[r].client][f] # None \/ f \in missing[r]

BarredOK(r) ==
    barred[r] => token[r] # None /\ token[r].org # None /\ Blocked(token[r].sub, token[r].org)

AloneOK ==
    \A r, q \in Requests :
       alone[r] /\ token[r] # None /\ token[q] # None /\ q # r => token[q].sub # token[r].sub

ExpansionOK(r) == RequestOK(r) /\ MirrorOK(r) /\ RowsOK(r) /\ ColumnsOK(r) /\ BarredOK(r)

IInv == TypeOK /\ HashHonest /\ KeysOK /\ AloneOK /\ \A r \in Requests : ExpansionOK(r)
=============================================================================
