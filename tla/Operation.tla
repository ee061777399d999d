------------------------------ MODULE Operation ------------------------------
(***************************************************************************)
(* The life of one GraphQL operation, or of one view behind                *)
(* full_members_only, from the credentials its connection carries to its   *)
(* resolvers: authentication (utils.py, decode.py), the gates for guests   *)
(* (scoped.py, on_validate), the request and the context variables the     *)
(* resolvers read (strawberry/extension.py, vars.py), and provenance       *)
(* (provenance/).                                                          *)
(*                                                                         *)
(* An action runs from one await to the next.  Operations of a WebSocket   *)
(* connection share its request; each runs in a task, and hence a context, *)
(* of its own.  What is told of a token is where its verification fails;   *)
(* JwksCache and RevocationList say when the issuer's keys and the         *)
(* revocation list answer, Expansion which rows are written: here each of  *)
(* them is one step that may go either way.                                *)
(***************************************************************************)
EXTENDS Integers

CONSTANTS
    Tasks, Connections,
    Tokens,          \* the tokens that are presented
    Configurations,  \* the settings the service may run with
    None,
    MaxChanges       \* bound: how often the world changes

Flaws == {"none", "unreadable", "unverified"}

AllTokens == [id : Nat, static : BOOLEAN, flaw : Flaws, allowed : BOOLEAN, guest : BOOLEAN]

(* SCOPED_TOKENS, whether `audience` names an instance, whether PROVENANCE is set. *)
Settings == [scoped_tokens : {"auto", "reject", "self"}, instance : BOOLEAN, provenance : BOOLEAN]

ASSUME TokensAssumption == Tokens \subseteq AllTokens /\ None \notin Tokens
ASSUME NoneAssumption == None \notin Connections
ASSUME StaticAssumption == \A k \in Tokens : k.static => k.flaw = "none"
ASSUME ConfigurationsAssumption == Configurations \subseteq Settings
ASSUME MaxChangesAssumption == MaxChanges \in Nat

VARIABLES
    settings,  \* the settings
    enforced,  \* scoped._enforced
    expired,   \* the tokens past their `exp`
    blocked,   \* the tokens whose membership is blocked
    changes    \* how often these have changed

VARIABLES
    transport,  \* of each connection: closed, http or ws
    carrier,    \* the credentials it carries: token and provenance token
    attached,   \* what its request holds: token (with user and membership), provenance
    pc,         \* where each operation is
    conn,       \* its connection
    document,   \* what it asks for
    token_var,  \* vars.token_var in its context
    member_var  \* vars.user_var, client_var, organization_var and membership_var

(* History, read by the properties only. *)
VARIABLES
    stale,    \* the operations whose token had expired before they began
    barred    \* those whose membership has been blocked since before they began

world == <<settings, enforced, expired, blocked, changes>>
connections == <<transport, carrier, attached>>
operations == <<pc, conn, document, token_var, member_var>>
history == <<stale, barred>>
vars == <<world, connections, operations, history>>

(* "no_string": a connection param of the name that is no string; a token  *)
(* that is none is refused like an unreadable one.                         *)
Carriers == [token : Tokens \cup {None},
             provenance : {"none", "good", "foreign", "invalid", "no_string"}]
Documents == {"query", "mutation", "opted_in", "subscription", "view"}
Awaiting == {"keys", "revocation", "expand", "provenance", "run"}
Steps == {"idle", "begin", "validate"} \cup Awaiting
NoCredentials == [token |-> None, provenance |-> "none"]
Nothing == [token |-> None, provenance |-> FALSE]

(* Every variable holds what the code may put there. *)
TypeOK ==
    /\ settings \in Configurations
    /\ enforced \in BOOLEAN
    /\ expired \subseteq Tokens /\ blocked \subseteq Tokens
    /\ changes \in 0 .. MaxChanges
    /\ transport \in [Connections -> {"closed", "http", "ws"}]
    /\ carrier \in [Connections -> Carriers]
    /\ attached \in [Connections -> [token : Tokens \cup {None}, provenance : BOOLEAN]]
    /\ pc \in [Tasks -> Steps]
    /\ conn \in [Tasks -> Connections \cup {None}]
    /\ document \in [Tasks -> Documents \cup {None}]
    /\ token_var \in [Tasks -> Tokens \cup {None}]
    /\ member_var \in [Tasks -> Tokens \cup {None}]
    /\ stale \subseteq Tasks /\ barred \subseteq Tasks
    /\ \A t \in Tasks : pc[t] = "idle" <=> conn[t] = None

Init ==
    /\ settings \in Configurations
    /\ enforced = FALSE
    /\ expired = {} /\ blocked = {} /\ changes = 0
    /\ transport = [c \in Connections |-> "closed"]
    /\ carrier = [c \in Connections |-> NoCredentials]
    /\ attached = [c \in Connections |-> Nothing]
    /\ pc = [t \in Tasks |-> "idle"]
    /\ conn = [t \in Tasks |-> None]
    /\ document = [t \in Tasks |-> None]
    /\ token_var = [t \in Tasks |-> None]
    /\ member_var = [t \in Tasks |-> None]
    /\ stale = {} /\ barred = {}
-----------------------------------------------------------------------------
Token(t) == carrier[conn[t]].token

scoped_mode ==
    IF settings.scoped_tokens # "auto" THEN settings.scoped_tokens
    ELSE IF enforced THEN "enforce" ELSE "reject"

(* check_scoped_token, of a guest's token *)
serves_guests == scoped_mode = "self" \/ (scoped_mode = "enforce" /\ settings.instance)

(* Mutant: only the token's variable is reset. *)
reset_token_only(t) ==
    /\ token_var' = [token_var EXCEPT ![t] = None]
    /\ UNCHANGED member_var

(* The `finally` of on_operation and of full_members_only. *)
reset_vars(t) ==
    /\ token_var' = [token_var EXCEPT ![t] = None]
    /\ member_var' = [member_var EXCEPT ![t] = None]

(* Mutant: the request is gone and the operation still holds on to it. *)
EndHolding(t) ==
    LET c == conn[t]
    IN  /\ pc' = [pc EXCEPT ![t] = "idle"]
        /\ document' = [document EXCEPT ![t] = None]
        /\ stale' = stale \ {t} /\ barred' = barred \ {t}
        /\ UNCHANGED <<conn, connections>>
        /\ reset_vars(t)

(* The operation is over; an HTTP request, and what was attached to it, with it. *)
End(t) ==
    LET c == conn[t]
        over == transport[c] = "http"
    IN  /\ pc' = [pc EXCEPT ![t] = "idle"]
        /\ conn' = [conn EXCEPT ![t] = None]
        /\ document' = [document EXCEPT ![t] = None]
        /\ stale' = stale \ {t} /\ barred' = barred \ {t}
        /\ transport' = IF over THEN [transport EXCEPT ![c] = "closed"] ELSE transport
        /\ carrier' = IF over THEN [carrier EXCEPT ![c] = NoCredentials] ELSE carrier
        /\ attached' = IF over THEN [attached EXCEPT ![c] = Nothing] ELSE attached
        /\ reset_vars(t)

Refuse(t) == End(t) /\ UNCHANGED world

Goto(t, step) ==
    /\ pc' = [pc EXCEPT ![t] = step]
    /\ UNCHANGED <<world, transport, carrier, conn, document, stale, barred>>
-----------------------------------------------------------------------------
(* A connection comes in; a WebSocket's credentials are its connection_params. *)
Open(c, kind, credentials) ==
    /\ transport[c] = "closed"
    /\ kind = "http" => credentials.provenance # "no_string"
    /\ transport' = [transport EXCEPT ![c] = kind]
    /\ carrier' = [carrier EXCEPT ![c] = credentials]
    /\ UNCHANGED <<world, attached, operations, history>>

(* It asks for an operation; over HTTP, for one at a time. *)
Request(t, c, doc) ==
    /\ pc[t] = "idle" /\ transport[c] # "closed"
    /\ transport[c] = "http" => doc # "subscription" /\ \A u \in Tasks : conn[u] # c
    /\ doc = "view" => transport[c] = "http"
    /\ pc' = [pc EXCEPT ![t] = "begin"]
    /\ conn' = [conn EXCEPT ![t] = c]
    /\ document' = [document EXCEPT ![t] = doc]
    /\ stale' = IF carrier[c].token \in expired THEN stale \cup {t} ELSE stale
    /\ barred' = IF carrier[c].token \in blocked THEN barred \cup {t} ELSE barred
    /\ UNCHANGED <<world, connections, token_var, member_var>>

require_full_member(t) == ~Token(t).guest

(* Mutant: the organization is not looked at. *)
admitted_anywhere(t) ==
    /\ Token(t).guest => serves_guests
    /\ document[t] = "view" => require_full_member(t)

(***************************************************************************)
(* The rest of authenticate_token once the token is known to be good, with *)
(* what follows before the next await: the organization, the gate for      *)
(* guests, require_full_member in a view, and token_var.                   *)
(***************************************************************************)
admitted(t) ==
    /\ Token(t).allowed
    /\ Token(t).guest => serves_guests
    /\ document[t] = "view" => require_full_member(t)

Admit(t) ==
    \/ /\ ~admitted(t)
       /\ Refuse(t)
    \/ /\ admitted(t)
       /\ token_var' = [token_var EXCEPT ![t] = Token(t)]
       /\ Goto(t, IF document[t] = "view" THEN "run" ELSE "expand")
       /\ UNCHANGED <<attached, member_var>>

(* authenticate_header and authenticate_token, to the first await *)
AuthenticateUnreadable(t) ==
    /\ pc[t] = "begin"
    /\ Token(t) # None => Token(t).flaw = "unreadable"
    /\ Refuse(t)

AuthenticateStatic(t) ==
    /\ pc[t] = "begin"
    /\ Token(t) # None /\ Token(t).static
    /\ IF Token(t) \in expired THEN Refuse(t) ELSE Admit(t)

(* Mutant: a connection that has authenticated does not verify its token again. *)
AuthenticateSignedOnce(t) ==
    /\ pc[t] = "begin"
    /\ Token(t) # None /\ ~Token(t).static /\ Token(t).flaw # "unreadable"
    /\ Goto(t, IF attached[conn[t]].token = Token(t) THEN "revocation" ELSE "keys")
    /\ UNCHANGED <<attached, token_var, member_var>>

AuthenticateSigned(t) ==
    /\ pc[t] = "begin"
    /\ Token(t) # None /\ ~Token(t).static /\ Token(t).flaw # "unreadable"
    /\ Goto(t, "keys")
    /\ UNCHANGED <<attached, token_var, member_var>>

(* resolve_key_set has answered or raised; then the signature and the claims *)
KeysResolved(t) ==
    /\ pc[t] = "keys"
    /\ \/ Refuse(t)
       \/ /\ Token(t).flaw = "none" /\ Token(t) \notin expired
          /\ Goto(t, "revocation")
          /\ UNCHANGED <<attached, token_var, member_var>>

(* ais_revoked has answered or raised *)
RevocationAnswered(t) ==
    /\ pc[t] = "revocation"
    /\ Refuse(t) \/ Admit(t)

(* The provenance token on_operation hands over: of the connection params  *)
(* only those that are strings.                                            *)
handed_over(t) ==
    IF carrier[conn[t]].provenance = "no_string" THEN "none" ELSE carrier[conn[t]].provenance

(* _aattach_provenance, to the first await, if it comes to one *)
attach_provenance(t) ==
    IF settings.provenance /\ handed_over(t) # "none"
    THEN "provenance" ELSE "validate"

(* Mutant: a membership the request already holds is not looked at again. *)
ExpandedOnce(t) ==
    LET barred_here == Token(t) \in blocked /\ attached[conn[t]].token # Token(t)
    IN  /\ pc[t] = "expand"
        /\ \/ /\ barred_here
              /\ Refuse(t)
           \/ /\ ~barred_here
              /\ member_var' = [member_var EXCEPT ![t] = Token(t)]
              /\ attached' = [attached EXCEPT ![conn[t]].token = Token(t)]
              /\ Goto(t, attach_provenance(t))
              /\ UNCHANGED token_var

(***************************************************************************)
(* aexpand_token_context has written its rows, and has come to the         *)
(* membership: a blocked one is refused, any other goes into the context   *)
(* variables and the request.                                              *)
(***************************************************************************)
Expanded(t) ==
    /\ pc[t] = "expand"
    /\ \/ /\ Token(t) \in blocked
          /\ Refuse(t)
       \/ /\ Token(t) \notin blocked
          /\ member_var' = [member_var EXCEPT ![t] = Token(t)]
          /\ attached' = [attached EXCEPT ![conn[t]].token = Token(t)]
          /\ Goto(t, attach_provenance(t))
          /\ UNCHANGED token_var

(* Mutant: aauthenticate_provenance_header_or_none in its place. *)
ProvenanceVerifiedOrNone(t) ==
    /\ pc[t] = "provenance"
    /\ attached' = [attached EXCEPT ![conn[t]].provenance =
                        carrier[conn[t]].provenance = "good"]
    /\ Goto(t, "validate")
    /\ UNCHANGED <<token_var, member_var>>

(* aauthenticate_provenance_header_or_raise has answered or raised; verify_actor *)
ProvenanceVerified(t) ==
    /\ pc[t] = "provenance"
    /\ \/ Refuse(t)
       \/ /\ carrier[conn[t]].provenance = "good"
          /\ attached' = [attached EXCEPT ![conn[t]].provenance = TRUE]
          /\ Goto(t, "validate")
          /\ UNCHANGED <<token_var, member_var>>

(* Mutant: the setting is read, and "auto" is not resolved. *)
held_unresolved(t) ==
    /\ token_var[t] # None
    /\ token_var[t].guest
    /\ document[t] # "query"
    /\ settings.scoped_tokens = "enforce"
    /\ document[t] # "opted_in"

(* on_validate: what is refused is answered in place of being run *)
held_read_only(t) ==
    /\ token_var[t] # None
    /\ token_var[t].guest
    /\ document[t] # "query"
    /\ scoped_mode = "enforce"
    /\ document[t] # "opted_in"

Validate(t) ==
    /\ pc[t] = "validate"
    /\ \/ /\ held_read_only(t)
          /\ Refuse(t)
       \/ /\ ~held_read_only(t)
          /\ Goto(t, "run")
          /\ UNCHANGED <<attached, token_var, member_var>>

(***************************************************************************)
(* The resolvers are done, or the stream of a subscription is closed, even *)
(* from another task: _reset then leaves that task's variables alone.      *)
(***************************************************************************)
Finish(t) ==
    /\ pc[t] = "run"
    /\ Refuse(t)

(* The operation's task is cancelled at an await, or the database fails there. *)
Cancel(t) ==
    /\ pc[t] \in Awaiting \ {"run"}
    /\ Refuse(t)

(* A WebSocket whose operations have ended is closed. *)
Close(c) ==
    /\ transport[c] = "ws"
    /\ \A t \in Tasks : conn[t] # c
    /\ transport' = [transport EXCEPT ![c] = "closed"]
    /\ carrier' = [carrier EXCEPT ![c] = NoCredentials]
    /\ attached' = [attached EXCEPT ![c] = Nothing]
    /\ UNCHANGED <<world, operations, history>>
-----------------------------------------------------------------------------
Changed ==
    /\ changes < MaxChanges
    /\ changes' = changes + 1
    /\ UNCHANGED <<settings, connections, operations, stale>>

Expire(k) ==
    /\ k \notin expired
    /\ expired' = expired \cup {k}
    /\ Changed /\ UNCHANGED <<enforced, blocked, barred>>

(* An operator blocks or unblocks a membership. *)
Block(k) ==
    /\ k \notin blocked
    /\ blocked' = blocked \cup {k}
    /\ Changed /\ UNCHANGED <<enforced, expired, barred>>

Unblock(k) ==
    /\ k \in blocked
    /\ blocked' = blocked \ {k}
    /\ barred' = {t \in barred : Token(t) # k}
    /\ Changed /\ UNCHANGED <<enforced, expired>>

enforce_scoped ==
    /\ ~enforced
    /\ enforced' = TRUE
    /\ Changed /\ UNCHANGED <<expired, blocked, barred>>

(* A test's teardown: never while an operation is under way. *)
stop_enforcing ==
    /\ enforced /\ \A t \in Tasks : pc[t] = "idle"
    /\ enforced' = FALSE
    /\ Changed /\ UNCHANGED <<expired, blocked, barred>>

Next ==
    \/ \E c \in Connections, kind \in {"http", "ws"}, k \in Carriers : Open(c, kind, k)
    \/ \E c \in Connections : Close(c)
    \/ \E t \in Tasks, c \in Connections, doc \in Documents : Request(t, c, doc)
    \/ \E t \in Tasks : AuthenticateUnreadable(t)
    \/ \E t \in Tasks : AuthenticateStatic(t)
    \/ \E t \in Tasks : AuthenticateSigned(t)
    \/ \E t \in Tasks : KeysResolved(t)
    \/ \E t \in Tasks : RevocationAnswered(t)
    \/ \E t \in Tasks : Expanded(t)
    \/ \E t \in Tasks : ProvenanceVerified(t)
    \/ \E t \in Tasks : Validate(t)
    \/ \E t \in Tasks : Finish(t)
    \/ \E t \in Tasks : Cancel(t)
    \/ \E k \in Tokens : Expire(k)
    \/ \E k \in Tokens : Block(k)
    \/ \E k \in Tokens : Unblock(k)
    \/ enforce_scoped
    \/ stop_enforcing

Spec == Init /\ [][Next]_vars
-----------------------------------------------------------------------------
Running(t) == pc[t] = "run"
GraphQL(t) == document[t] # "view"

(* An operation never runs on a token that had expired before the operation *)
(* began: a WebSocket connection that authenticated once does not keep what *)
(* it was given, every operation on it is authenticated anew                *)
(* (extension.py:237-250, decode.py:54-63, utils.py:52-57).                 *)
AuthenticatedAnew == \A t \in Tasks : Running(t) => t \notin stale

(* What a resolver reads is its own operation's: the context variables name *)
(* the token its connection carries, the request the same, and nothing is   *)
(* left in a context in which no operation has been admitted, however the   *)
(* last one ended (extension.py:252-289, scoped.py:124-130).                *)
VarsAreTheOperations ==
    \A t \in Tasks :
        /\ pc[t] \in {"idle", "begin", "keys", "revocation"} => token_var[t] = None
        /\ pc[t] \in {"idle", "begin", "keys", "revocation", "expand"} => member_var[t] = None
        /\ Running(t) => token_var[t] = Token(t)
        /\ Running(t) /\ GraphQL(t) =>
               member_var[t] = Token(t) /\ attached[conn[t]].token = Token(t)

(* Where reads are held to collaborations a guest only reads: neither a     *)
(* mutation that did not opt in nor a subscription of theirs runs, and no   *)
(* view behind full_members_only does, however enforcement comes up in the  *)
(* meantime (scoped.py:12-26, extension.py:309-338).                        *)
GuestsReadOnly ==
    \A t \in Tasks :
        Running(t) /\ Token(t).guest =>
            /\ document[t] # "view"
            /\ document[t] \in {"mutation", "subscription"} => scoped_mode = "self"

(* No row is written for a token that authentication would refuse, neither  *)
(* for an organization that is not allowed nor for a guest where guests are *)
(* not served: an operation only comes to expand where all of it is passed, *)
(* and stays so while it does (utils.py:23-28, 59-61).                      *)
WritesAreAdmitted ==
    \A t \in Tasks :
        pc[t] = "expand" =>
            /\ Token(t).flaw = "none" /\ Token(t).allowed
            /\ Token(t).guest => serves_guests
            /\ t \notin stale

(* A provenance token fails closed: where provenance is configured, an      *)
(* operation that carries one runs only if it was verified for this very    *)
(* actor, and then with it attached; one that carries none, or in its place *)
(* a connection param that is no string, runs without (extension.py:185-214 *)
(* and :238-242, provenance/verify.py:105-121).                             *)
ProvenanceFailsClosed ==
    \A t \in Tasks :
        Running(t) /\ GraphQL(t) =>
            /\ settings.provenance => handed_over(t) \in {"none", "good"}
            /\ attached[conn[t]].provenance = (settings.provenance /\ handed_over(t) = "good")

(* A member who was blocked before an operation began, and still is, cannot *)
(* run it, on a connection opened before the block either (models.py:89,    *)
(* expand.py:148-149, 182-183).  Views behind full_members_only never look at the    *)
(* membership and are not covered.                                          *)
BlockedCannotOperate ==
    \A t \in Tasks : Running(t) /\ GraphQL(t) => t \notin barred
-----------------------------------------------------------------------------
(* The inductive invariant behind the properties above. *)

Verified == {"revocation", "expand", "provenance", "validate", "run"}
Admitted == Verified \ {"revocation"}
Member == Admitted \ {"expand"}

(* No operation, nothing left of the last one. *)
IdleOK(t) ==
    /\ t \notin stale \cup barred
    /\ token_var[t] = None /\ member_var[t] = None

(* What is known of an operation where it is. *)
TokenOK(t) ==
    /\ pc[t] # "begin" => Token(t) # None
    /\ pc[t] \in Verified => Token(t).flaw = "none"
    /\ t \in stale => Token(t) \in expired /\ pc[t] \notin Verified
    /\ t \in barred => Token(t) \in blocked /\ (GraphQL(t) => pc[t] \notin Member)

VarsOK(t) ==
    /\ token_var[t] = IF pc[t] \in Admitted THEN Token(t) ELSE None
    /\ member_var[t] = IF pc[t] \in Member /\ GraphQL(t) THEN Token(t) ELSE None
    /\ pc[t] \in Member /\ GraphQL(t) => attached[conn[t]].token = Token(t)

GatesOK(t) ==
    /\ pc[t] \in Admitted => admitted(t)
    /\ document[t] = "view" => pc[t] \notin {"expand", "provenance", "validate"}
    /\ pc[t] = "run" /\ Token(t).guest /\ document[t] \in {"mutation", "subscription"} =>
           scoped_mode = "self"

ProvenanceOK(t) ==
    /\ pc[t] = "provenance" => settings.provenance
    /\ pc[t] \in {"validate", "run"} /\ GraphQL(t) /\ settings.provenance =>
           \/ carrier[conn[t]].provenance \in {"none", "no_string"}
           \/ carrier[conn[t]].provenance = "good" /\ attached[conn[t]].provenance

OperationOK(t) ==
    IF pc[t] = "idle" THEN IdleOK(t)
    ELSE /\ document[t] \in Documents /\ transport[conn[t]] # "closed"
         /\ TokenOK(t) /\ VarsOK(t) /\ GatesOK(t) /\ ProvenanceOK(t)

(* What a request holds is its connection's, and only a WebSocket is shared. *)
ConnectionsOK ==
    /\ \A c \in Connections :
          /\ transport[c] = "closed" => attached[c] = Nothing
          /\ attached[c].provenance => settings.provenance /\ carrier[c].provenance = "good"
    /\ \A t, u \in Tasks : t # u /\ conn[t] # None /\ conn[t] = conn[u] =>
          transport[conn[t]] = "ws"

IInv == TypeOK /\ ConnectionsOK /\ \A t \in Tasks : OperationOK(t)
=============================================================================
