--------------------------- MODULE OperationProofs ---------------------------
(***************************************************************************)
(* Proofs about Operation, for any number of operations and connections,   *)
(* any tokens and any settings.                                            *)
(***************************************************************************)
EXTENDS Operation, TLAPS

USE TokensAssumption, NoneAssumption, StaticAssumption, ConfigurationsAssumption,
    MaxChangesAssumption

(* An operation under way has a connection, and so a carrier. *)
LEMMA UnderWay ==
    ASSUME TypeOK, NEW t \in Tasks, pc[t] # "idle"
    PROVE  /\ conn[t] \in Connections
           /\ carrier[conn[t]] \in Carriers
           /\ Token(t) \in Tokens \cup {None}
           /\ Token(t) # None => Token(t) \in AllTokens
BY DEF TypeOK, Carriers, Token

(* What another operation that goes on attaches does not concern this one.  *)
LEMMA OthersGoOn ==
    ASSUME IInv, NEW t \in Tasks, pc[t] # "idle", NEW step, Goto(t, step),
           NEW u \in Tasks, u # t,
           token_var'[u] = token_var[u], member_var'[u] = member_var[u],
           attached'[conn[u]].token \in {attached[conn[u]].token, Token(u)},
           attached[conn[u]].provenance => attached'[conn[u]].provenance
    PROVE  OperationOK(u)'
<1>1. pc'[u] = pc[u] /\ OperationOK(u) /\ Token(u)' = Token(u) /\ GraphQL(u)' = GraphQL(u)
  BY DEF IInv, TypeOK, Goto, Token, GraphQL
<1>2. scoped_mode' = scoped_mode /\ admitted(u)' = admitted(u)
  BY <1>1 DEF Goto, world, scoped_mode, serves_guests, admitted, require_full_member
<1>3. CASE pc[u] = "idle"
  BY <1>1, <1>3 DEF OperationOK, IdleOK, Goto
<1>4. CASE pc[u] # "idle"
  <2>1. TokenOK(u)'
    BY <1>1, <1>4 DEF OperationOK, TokenOK, Goto, world
  <2>2. VarsOK(u)'
    BY <1>1, <1>4 DEF OperationOK, VarsOK, Goto
  <2>3. GatesOK(u)'
    BY <1>1, <1>2, <1>4 DEF OperationOK, GatesOK, Goto
  <2>4. ProvenanceOK(u)'
    BY <1>1, <1>4 DEF OperationOK, ProvenanceOK, Goto, world
  <2> QED BY <1>1, <1>4, <2>1, <2>2, <2>3, <2>4 DEF OperationOK, Goto
<1> QED BY <1>3, <1>4

(* A step of an operation towards its resolvers: it is left to show that    *)
(* the operation itself is in order and what it attaches is its own.        *)
LEMMA Forward ==
    ASSUME IInv, NEW t \in Tasks, pc[t] # "idle", NEW step \in Steps \ {"idle"}, Goto(t, step),
           OperationOK(t)',
           NEW k \in {token_var[t], Token(t)}, token_var' = [token_var EXCEPT ![t] = k],
           NEW m \in {member_var[t], Token(t)}, member_var' = [member_var EXCEPT ![t] = m],
           NEW a \in [token : {attached[conn[t]].token, Token(t)}, provenance : BOOLEAN],
           attached' = [attached EXCEPT ![conn[t]] = a],
           attached[conn[t]].provenance => a.provenance,
           a.provenance => attached[conn[t]].provenance \/
                           (settings.provenance /\ carrier[conn[t]].provenance = "good")
    PROVE  IInv'
<1> USE DEF IInv
<1>1. conn[t] \in Connections /\ Token(t) \in Tokens \cup {None} /\ transport[conn[t]] # "closed"
  BY UnderWay DEF OperationOK
<1>2. TypeOK'
  BY <1>1 DEF TypeOK, Goto, world
<1>3. ConnectionsOK'
  BY <1>1 DEF TypeOK, ConnectionsOK, Goto, world
<1>4. ASSUME NEW u \in Tasks PROVE OperationOK(u)'
  <2>1. CASE u = t
    BY <2>1
  <2>2. CASE u # t
    <3>1. token_var'[u] = token_var[u] /\ member_var'[u] = member_var[u]
      BY <2>2 DEF TypeOK
    <3>2. conn[u] \in Connections => attached'[conn[u]] = IF conn[u] = conn[t] THEN a ELSE attached[conn[u]]
      BY DEF TypeOK
    <3>3. CASE pc[u] = "idle"
      BY <3>1, <3>3, <2>2 DEF OperationOK, IdleOK, Goto, TypeOK
    <3>4. CASE pc[u] # "idle"
      <4>1. conn[u] \in Connections
        BY <3>4, UnderWay
      <4>2. attached'[conn[u]].token \in {attached[conn[u]].token, Token(u)}
        BY <4>1, <3>2 DEF Token
      <4>3. attached[conn[u]].provenance => attached'[conn[u]].provenance
        BY <4>1, <3>2
      <4> QED BY <2>2, <3>1, <4>2, <4>3, OthersGoOn
    <3> QED BY <3>3, <3>4
  <2> QED BY <2>1, <2>2
<1> QED BY <1>2, <1>3, <1>4

(* An operation that ends leaves nothing behind and takes nothing from the  *)
(* others: an HTTP request that goes with it is nobody else's.              *)
LEMMA EndStep ==
    ASSUME IInv, NEW t \in Tasks, pc[t] # "idle", Refuse(t)
    PROVE  IInv'
<1> USE DEF IInv, Refuse
<1>1. conn[t] \in Connections
  BY UnderWay
<1>2. TypeOK'
  BY <1>1 DEF TypeOK, End, world, reset_vars, Carriers, NoCredentials, Nothing, Steps
<1>3. ConnectionsOK'
  <2>1. \A u \in Tasks : conn'[u] = IF u = t THEN None ELSE conn[u]
    BY DEF TypeOK, End
  <2>2. CASE transport[conn[t]] # "http"
    BY <2>1, <2>2 DEF ConnectionsOK, End, world
  <2>3. CASE transport[conn[t]] = "http"
    <3>1. \A u \in Tasks : conn'[u] # conn[t]
      BY <1>1, <2>1, <2>3 DEF ConnectionsOK
    <3>2. \A c \in Connections :
             /\ transport'[c] = IF c = conn[t] THEN "closed" ELSE transport[c]
             /\ carrier'[c] = IF c = conn[t] THEN NoCredentials ELSE carrier[c]
             /\ attached'[c] = IF c = conn[t] THEN Nothing ELSE attached[c]
      BY <1>1, <2>3 DEF TypeOK, End
    <3>3. ASSUME NEW c \in Connections
          PROVE  /\ transport'[c] = "closed" => attached'[c] = Nothing
                 /\ attached'[c].provenance =>
                       settings'.provenance /\ carrier'[c].provenance = "good"
      <4>1. CASE c = conn[t]
        <5>1. attached'[c] = Nothing
          BY <3>2, <4>1
        <5>2. ~Nothing.provenance
          BY DEF Nothing
        <5> QED BY <5>1, <5>2
      <4>2. CASE c # conn[t]
        BY <3>2, <4>2 DEF ConnectionsOK, world
      <4> QED BY <4>1, <4>2
    <3>4. ASSUME NEW u \in Tasks, NEW v \in Tasks, u # v, conn'[u] # None, conn'[u] = conn'[v]
          PROVE  transport'[conn'[u]] = "ws"
      <4>1. conn'[u] = conn[u] /\ conn'[v] = conn[v] /\ conn[u] \in Connections
        BY <2>1, <3>4 DEF TypeOK
      <4>2. transport'[conn'[u]] = transport[conn[u]]
        BY <3>1, <3>2, <4>1
      <4> QED BY <3>4, <4>1, <4>2 DEF ConnectionsOK
    <3> QED BY <3>3, <3>4 DEF ConnectionsOK
  <2> QED BY <2>2, <2>3
<1>4. ASSUME NEW u \in Tasks PROVE OperationOK(u)'
  <2>1. CASE u = t
    BY <2>1 DEF TypeOK, OperationOK, IdleOK, End, reset_vars
  <2>2. CASE u # t
    <3>1. /\ pc'[u] = pc[u] /\ conn'[u] = conn[u] /\ document'[u] = document[u]
          /\ token_var'[u] = token_var[u] /\ member_var'[u] = member_var[u]
          /\ u \in stale' <=> u \in stale
          /\ u \in barred' <=> u \in barred
      BY <2>2 DEF TypeOK, End, reset_vars
    <3>2. CASE pc[u] = "idle"
      BY <3>1, <3>2 DEF OperationOK, IdleOK
    <3>3. CASE pc[u] # "idle"
      <4>1. conn[u] \in Connections
        BY <3>3, UnderWay
      <4>2. transport[conn[t]] = "http" => conn[u] # conn[t]
        BY <2>2, <4>1 DEF ConnectionsOK, TypeOK
      <4>3. /\ transport'[conn[u]] = transport[conn[u]]
            /\ carrier'[conn[u]] = carrier[conn[u]]
            /\ attached'[conn[u]] = attached[conn[u]]
        BY <4>1, <4>2 DEF TypeOK, End
      <4>4. Token(u)' = Token(u) /\ GraphQL(u)' = GraphQL(u)
        BY <3>1, <4>3 DEF Token, GraphQL
      <4>5. scoped_mode' = scoped_mode /\ admitted(u)' = admitted(u)
        BY <3>1, <4>4 DEF world, scoped_mode, serves_guests, admitted, require_full_member
      <4>6. TokenOK(u)'
        BY <3>1, <3>3, <4>4 DEF OperationOK, TokenOK, world
      <4>7. VarsOK(u)'
        BY <3>1, <3>3, <4>3, <4>4 DEF OperationOK, VarsOK
      <4>8. GatesOK(u)'
        BY <3>1, <3>3, <4>4, <4>5 DEF OperationOK, GatesOK
      <4>9. ProvenanceOK(u)'
        BY <3>1, <3>3, <4>3, <4>4 DEF OperationOK, ProvenanceOK, world
      <4> QED BY <3>1, <3>3, <4>3, <4>6, <4>7, <4>8, <4>9 DEF OperationOK
    <3> QED BY <3>2, <3>3
  <2> QED BY <2>1, <2>2
<1> QED BY <1>2, <1>3, <1>4

(* Opening and closing a connection concern no operation under way. *)
LEMMA OpenStep ==
    ASSUME IInv, NEW c \in Connections, NEW kind \in {"http", "ws"}, NEW k \in Carriers,
           Open(c, kind, k)
    PROVE  IInv'
<1> USE DEF IInv, Open, world, operations, history
<1>1. TypeOK'
  BY DEF TypeOK
<1>2. attached[c] = Nothing /\ ~Nothing.provenance
  BY DEF ConnectionsOK, Nothing
<1>3. \A t \in Tasks : pc[t] # "idle" => conn[t] \in Connections \ {c}
  BY UnderWay DEF OperationOK
<1>4. ConnectionsOK'
  <2>1. \A d \in Connections : transport'[d] = IF d = c THEN kind ELSE transport[d]
    BY DEF TypeOK
  <2>2. \A d \in Connections : carrier'[d] = IF d = c THEN k ELSE carrier[d]
    BY DEF TypeOK
  <2>3. \A t \in Tasks : conn[t] # None => conn[t] \in Connections \ {c}
    BY <1>3 DEF TypeOK
  <2> QED BY <1>2, <2>1, <2>2, <2>3 DEF ConnectionsOK
<1>5. ASSUME NEW t \in Tasks PROVE OperationOK(t)'
  <2>1. CASE pc[t] = "idle"
    BY <2>1 DEF OperationOK, IdleOK
  <2>2. CASE pc[t] # "idle"
    <3>1. carrier'[conn[t]] = carrier[conn[t]] /\ transport'[conn[t]] = transport[conn[t]]
      BY <1>3, <2>2 DEF TypeOK
    <3>2. Token(t)' = Token(t) /\ GraphQL(t)' = GraphQL(t) /\ scoped_mode' = scoped_mode
          /\ admitted(t)' = admitted(t)
      BY <3>1 DEF Token, GraphQL, scoped_mode, serves_guests, admitted, require_full_member
    <3> QED BY <2>2, <3>1, <3>2 DEF OperationOK, TokenOK, VarsOK, GatesOK, ProvenanceOK
  <2> QED BY <2>1, <2>2
<1> QED BY <1>1, <1>4, <1>5

LEMMA CloseStep ==
    ASSUME IInv, NEW c \in Connections, Close(c)
    PROVE  IInv'
<1> USE DEF IInv, Close, world, operations, history
<1>1. TypeOK'
  BY DEF TypeOK, Nothing, NoCredentials, Carriers
<1>2. \A d \in Connections :
         /\ transport'[d] = IF d = c THEN "closed" ELSE transport[d]
         /\ carrier'[d] = IF d = c THEN NoCredentials ELSE carrier[d]
         /\ attached'[d] = IF d = c THEN Nothing ELSE attached[d]
  BY DEF TypeOK
<1>3. ~Nothing.provenance
  BY DEF Nothing
<1>4. \A t \in Tasks : conn[t] # None => conn[t] \in Connections \ {c}
  BY DEF TypeOK
<1>5. ConnectionsOK'
  <2>1. ASSUME NEW d \in Connections
        PROVE  /\ transport'[d] = "closed" => attached'[d] = Nothing
               /\ attached'[d].provenance =>
                     settings'.provenance /\ carrier'[d].provenance = "good"
    <3>1. CASE d = c
      BY <1>2, <1>3, <3>1
    <3>2. CASE d # c
      BY <1>2, <3>2 DEF ConnectionsOK
    <3> QED BY <3>1, <3>2
  <2> QED BY <1>2, <1>4, <2>1 DEF ConnectionsOK
<1>6. ASSUME NEW t \in Tasks PROVE OperationOK(t)'
  <2>1. CASE pc[t] = "idle"
    BY <2>1 DEF OperationOK, IdleOK
  <2>2. CASE pc[t] # "idle"
    <3>1. /\ carrier'[conn[t]] = carrier[conn[t]]
          /\ transport'[conn[t]] = transport[conn[t]]
          /\ attached'[conn[t]] = attached[conn[t]]
      BY <1>2, <1>4, <2>2, UnderWay
    <3>2. Token(t)' = Token(t) /\ GraphQL(t)' = GraphQL(t) /\ scoped_mode' = scoped_mode
          /\ admitted(t)' = admitted(t)
      BY <3>1 DEF Token, GraphQL, scoped_mode, serves_guests, admitted, require_full_member
    <3> QED BY <2>2, <3>1, <3>2 DEF OperationOK, TokenOK, VarsOK, GatesOK, ProvenanceOK
  <2> QED BY <2>1, <2>2
<1> QED BY <1>1, <1>5, <1>6

(* An operation that begins is the only one of its HTTP request. *)
LEMMA RequestStep ==
    ASSUME IInv, NEW t \in Tasks, NEW c \in Connections, NEW doc \in Documents, Request(t, c, doc)
    PROVE  IInv'
<1> USE DEF IInv, Request, world, connections
<1>1. /\ \A u \in Tasks : pc'[u] = IF u = t THEN "begin" ELSE pc[u]
      /\ \A u \in Tasks : conn'[u] = IF u = t THEN c ELSE conn[u]
      /\ \A u \in Tasks : document'[u] = IF u = t THEN doc ELSE document[u]
      /\ \A u \in Tasks : u # t => (u \in stale' <=> u \in stale) /\ (u \in barred' <=> u \in barred)
  BY DEF TypeOK
<1>2. TypeOK'
  BY DEF TypeOK, Steps
<1>3. ConnectionsOK'
  <2>1. ASSUME NEW u \in Tasks, NEW v \in Tasks, u # v, conn'[u] # None, conn'[u] = conn'[v]
        PROVE  transport[conn'[u]] = "ws"
    <3>1. CASE u # t /\ v # t
      BY <1>1, <2>1, <3>1 DEF ConnectionsOK
    <3>2. CASE u = t \/ v = t
      <4>1. conn'[u] = c /\ \E w \in Tasks : conn[w] = c
        BY <1>1, <2>1, <3>2
      <4> QED BY <4>1 DEF TypeOK
    <3> QED BY <3>1, <3>2
  <2> QED BY <2>1 DEF ConnectionsOK
<1>4. ASSUME NEW u \in Tasks PROVE OperationOK(u)'
  <2>1. CASE u = t
    <3>1. pc[t] = "idle" /\ IdleOK(t) /\ pc'[t] = "begin" /\ Token(t)' = carrier[c].token
      BY <1>1 DEF OperationOK, Token
    <3>2. TokenOK(t)' /\ VarsOK(t)' /\ GatesOK(t)' /\ ProvenanceOK(t)'
      BY <3>1 DEF IdleOK, TokenOK, VarsOK, GatesOK, ProvenanceOK, Verified, Admitted, Member
    <3> QED BY <1>1, <2>1, <3>1, <3>2 DEF OperationOK
  <2>2. CASE u # t /\ pc[u] = "idle"
    BY <1>1, <2>2 DEF OperationOK, IdleOK
  <2>3. CASE u # t /\ pc[u] # "idle"
    <3>1. Token(u)' = Token(u) /\ GraphQL(u)' = GraphQL(u) /\ scoped_mode' = scoped_mode
          /\ admitted(u)' = admitted(u)
      BY <1>1, <2>3 DEF Token, GraphQL, scoped_mode, serves_guests, admitted, require_full_member
    <3> QED BY <1>1, <2>3, <3>1 DEF OperationOK, TokenOK, VarsOK, GatesOK, ProvenanceOK
  <2> QED BY <2>1, <2>2, <2>3
<1> QED BY <1>2, <1>3, <1>4

(* The world changes: what was found out about a token stays true of the    *)
(* operations under way, and enforcement that comes up only serves more.    *)
LEMMA WorldStep ==
    ASSUME IInv,
           \/ \E k \in Tokens : Expire(k) \/ Block(k) \/ Unblock(k)
           \/ enforce_scoped \/ stop_enforcing
    PROVE  IInv'
<1> USE DEF IInv, Changed, connections, operations
<1>1. settings' = settings /\ UNCHANGED <<connections, operations, stale>>
      /\ expired \subseteq expired' /\ (enforced' = enforced \/ enforced' = TRUE \/ \A t \in Tasks : pc[t] = "idle")
      /\ \A t \in barred' : t \in barred /\ (Token(t) \in blocked => Token(t) \in blocked')
  BY DEF Expire, Block, Unblock, enforce_scoped, stop_enforcing
<1>2. TypeOK'
  <2>1. changes' \in 0 .. MaxChanges
    BY DEF TypeOK, Expire, Block, Unblock, enforce_scoped, stop_enforcing
  <2>2. enforced' \in BOOLEAN
    BY DEF TypeOK, Expire, Block, Unblock, enforce_scoped, stop_enforcing
  <2>3. expired' \subseteq Tokens /\ blocked' \subseteq Tokens /\ barred' \subseteq Tasks
    BY DEF TypeOK, Expire, Block, Unblock, enforce_scoped, stop_enforcing
  <2> QED BY <1>1, <2>1, <2>2, <2>3 DEF TypeOK
<1>3. ConnectionsOK'
  BY <1>1 DEF ConnectionsOK
<1>4. ASSUME NEW t \in Tasks PROVE OperationOK(t)'
  <2>1. CASE pc[t] = "idle"
    BY <1>1, <2>1 DEF OperationOK, IdleOK
  <2>2. CASE pc[t] # "idle"
    <3>1. Token(t)' = Token(t) /\ GraphQL(t)' = GraphQL(t)
      BY <1>1 DEF Token, GraphQL
    <3>2. (admitted(t) => admitted(t)') /\ (scoped_mode = "self" => scoped_mode' = "self")
      BY <1>1, <2>2, <3>1 DEF scoped_mode, serves_guests, admitted, require_full_member, TypeOK
    <3>3. TokenOK(t)'
      BY <1>1, <2>2, <3>1 DEF OperationOK, TokenOK
    <3>4. VarsOK(t)' /\ ProvenanceOK(t)'
      BY <1>1, <2>2, <3>1 DEF OperationOK, VarsOK, ProvenanceOK
    <3>5. GatesOK(t)'
      BY <1>1, <2>2, <3>1, <3>2 DEF OperationOK, GatesOK
    <3> QED BY <1>1, <2>2, <3>3, <3>4, <3>5 DEF OperationOK
  <2> QED BY <2>1, <2>2
<1> QED BY <1>2, <1>3, <1>4

(* Where authentication ends well, whether at once (a static token) or      *)
(* after the revocation list has answered.                                  *)
LEMMA AdmitStep ==
    ASSUME IInv, NEW t \in Tasks, pc[t] \in {"begin", "revocation"}, Token(t) # None,
           Token(t).flaw = "none", t \notin stale, Admit(t)
    PROVE  IInv'
<1>1. CASE Refuse(t)
  BY <1>1, EndStep
<1>2. CASE admitted(t) /\ ~Refuse(t)
  <2> DEFINE step == IF document[t] = "view" THEN "run" ELSE "expand"
  <2>1. /\ token_var' = [token_var EXCEPT ![t] = Token(t)] /\ Goto(t, step)
        /\ UNCHANGED <<attached, member_var>>
    BY <1>2 DEF Admit
  <2>2. pc'[t] = step /\ token_var'[t] = Token(t) /\ t \notin stale
    BY <1>2, <2>1 DEF IInv, TypeOK, Goto, OperationOK, TokenOK
  <2>3. Token(t)' = Token(t) /\ GraphQL(t)' = GraphQL(t) /\ admitted(t)' = admitted(t)
        /\ scoped_mode' = scoped_mode
    BY <2>1 DEF Goto, world, Token, GraphQL, scoped_mode, serves_guests, admitted, require_full_member
  <2>4. OperationOK(t) /\ pc[t] # "idle"
    BY DEF IInv
  <2>5. TokenOK(t)'
    BY <2>1, <2>2, <2>3, <2>4 DEF OperationOK, TokenOK, Goto, world, Verified, Admitted, Member, GraphQL
  <2>6. VarsOK(t)'
    BY <2>1, <2>2, <2>3, <2>4 DEF OperationOK, VarsOK, Goto, Verified, Admitted, Member, GraphQL
  <2>7. GatesOK(t)' /\ ProvenanceOK(t)'
    BY <1>2, <2>1, <2>2, <2>3, <2>4
       DEF OperationOK, GatesOK, ProvenanceOK, Goto, world, admitted, require_full_member, Verified, Admitted, GraphQL
  <2>8. OperationOK(t)'
    BY <2>1, <2>2, <2>4, <2>5, <2>6, <2>7 DEF OperationOK, Goto
  <2>9. token_var' = [token_var EXCEPT ![t] = Token(t)]
        /\ member_var' = [member_var EXCEPT ![t] = member_var[t]]
        /\ attached' = [attached EXCEPT ![conn[t]] = attached[conn[t]]]
        /\ attached[conn[t]] \in [token : {attached[conn[t]].token, Token(t)}, provenance : BOOLEAN]
    BY <2>1, <2>4, UnderWay DEF IInv, TypeOK
  <2> HIDE DEF step
  <2>10. step \in Steps \ {"idle"}
    BY DEF step, Steps, Awaiting
  <2> QED BY <2>1, <2>4, <2>8, <2>9, <2>10, Forward
<1> QED BY <1>1, <1>2 DEF Admit

(* A step that only goes on. *)
LEMMA GoOnStep ==
    ASSUME IInv, NEW t \in Tasks, pc[t] # "idle", NEW step \in Steps \ {"idle"}, Goto(t, step),
           UNCHANGED <<attached, token_var, member_var>>, OperationOK(t)'
    PROVE  IInv'
<1>1. token_var' = [token_var EXCEPT ![t] = token_var[t]]
      /\ member_var' = [member_var EXCEPT ![t] = member_var[t]]
      /\ attached' = [attached EXCEPT ![conn[t]] = attached[conn[t]]]
      /\ attached[conn[t]] \in [token : {attached[conn[t]].token, Token(t)}, provenance : BOOLEAN]
  BY UnderWay DEF IInv, TypeOK
<1> QED BY <1>1, Forward

LEMMA Unmoved ==
    ASSUME TypeOK, NEW t \in Tasks, NEW step, Goto(t, step)
    PROVE  /\ pc'[t] = step /\ Token(t)' = Token(t) /\ GraphQL(t)' = GraphQL(t)
           /\ scoped_mode' = scoped_mode /\ admitted(t)' = admitted(t)
           /\ t \in stale' <=> t \in stale
           /\ t \in barred' <=> t \in barred
BY DEF TypeOK, Goto, world, Token, GraphQL, scoped_mode, serves_guests, admitted, require_full_member

LEMMA AuthenticateStep ==
    ASSUME IInv, NEW t \in Tasks,
           AuthenticateUnreadable(t) \/ AuthenticateStatic(t) \/ AuthenticateSigned(t)
    PROVE  IInv'
<1>1. CASE AuthenticateUnreadable(t)
  BY <1>1, EndStep DEF AuthenticateUnreadable
<1>2. CASE AuthenticateStatic(t)
  <2>1. Token(t) \in Tokens /\ Token(t).flaw = "none"
    BY <1>2, UnderWay DEF AuthenticateStatic, IInv
  <2>2. Token(t) \notin expired => t \notin stale
    BY <1>2 DEF AuthenticateStatic, IInv, OperationOK, TokenOK
  <2> QED BY <1>2, <2>1, <2>2, EndStep, AdmitStep DEF AuthenticateStatic
<1>3. CASE AuthenticateSigned(t)
  <2>1. pc[t] = "begin" /\ Goto(t, "keys") /\ Token(t) # None
        /\ UNCHANGED <<attached, token_var, member_var>>
    BY <1>3 DEF AuthenticateSigned
  <2>2. TypeOK /\ OperationOK(t) /\ document' = document /\ transport' = transport
    BY <2>1 DEF IInv, Goto
  <2>3. TokenOK(t)'
    BY <2>1, <2>2, Unmoved DEF OperationOK, TokenOK, Goto, world, Verified, Admitted, Member
  <2>4. VarsOK(t)'
    BY <2>1, <2>2, Unmoved DEF OperationOK, VarsOK, Goto, Verified, Admitted, Member
  <2>5. GatesOK(t)' /\ ProvenanceOK(t)'
    BY <2>1, <2>2, Unmoved DEF OperationOK, GatesOK, ProvenanceOK, Goto, Verified, Admitted
  <2>6. OperationOK(t)'
    BY <2>1, <2>2, <2>3, <2>4, <2>5, Unmoved DEF OperationOK, Goto
  <2> QED BY <2>1, <2>6, GoOnStep DEF Steps, Awaiting
<1> QED BY <1>1, <1>2, <1>3

LEMMA KeysResolvedStep ==
    ASSUME IInv, NEW t \in Tasks, KeysResolved(t)
    PROVE  IInv'
<1>1. CASE Refuse(t)
  BY <1>1, EndStep DEF KeysResolved
<1>2. CASE ~Refuse(t)
  <2>1. pc[t] = "keys" /\ Goto(t, "revocation") /\ Token(t).flaw = "none" /\ Token(t) \notin expired
        /\ UNCHANGED <<attached, token_var, member_var>>
    BY <1>2 DEF KeysResolved
  <2>2. TypeOK /\ OperationOK(t) /\ document' = document /\ transport' = transport
    BY <2>1 DEF IInv, Goto
  <2>3. TokenOK(t)'
    BY <2>1, <2>2, Unmoved DEF OperationOK, TokenOK, Goto, world, Verified, Admitted, Member
  <2>4. VarsOK(t)'
    BY <2>1, <2>2, Unmoved DEF OperationOK, VarsOK, Goto, Verified, Admitted, Member
  <2>5. GatesOK(t)' /\ ProvenanceOK(t)'
    BY <2>1, <2>2, Unmoved DEF OperationOK, GatesOK, ProvenanceOK, Goto, Verified, Admitted
  <2>6. OperationOK(t)'
    BY <2>1, <2>2, <2>3, <2>4, <2>5, Unmoved DEF OperationOK, Goto
  <2> QED BY <2>1, <2>6, GoOnStep DEF Steps, Awaiting
<1> QED BY <1>1, <1>2

LEMMA ValidateStep ==
    ASSUME IInv, NEW t \in Tasks, Validate(t)
    PROVE  IInv'
<1>1. CASE Refuse(t)
  BY <1>1, EndStep DEF Validate
<1>2. CASE ~Refuse(t)
  <2>1. pc[t] = "validate" /\ Goto(t, "run") /\ ~held_read_only(t)
        /\ UNCHANGED <<attached, token_var, member_var>>
    BY <1>2 DEF Validate
  <2>2. TokenOK(t) /\ VarsOK(t) /\ GatesOK(t) /\ ProvenanceOK(t) /\ admitted(t)
        /\ document[t] \in Documents /\ document[t] # "view" /\ transport[conn[t]] # "closed"
        /\ token_var[t] = Token(t) /\ Token(t) # None
    BY <2>1 DEF IInv, OperationOK, VarsOK, TokenOK, GatesOK, Admitted, Verified
  <2>3. Token(t).guest /\ document[t] \in {"mutation", "subscription"} => scoped_mode = "self"
    BY <2>1, <2>2 DEF held_read_only, admitted, require_full_member, serves_guests
  <2>4. TokenOK(t)' /\ VarsOK(t)'
    BY <2>1, <2>2, Unmoved DEF IInv, TokenOK, VarsOK, Goto, world, Verified, Admitted, Member
  <2>5. GatesOK(t)'
    BY <2>1, <2>2, <2>3, Unmoved DEF IInv, GatesOK, Goto
  <2>6. ProvenanceOK(t)'
    BY <2>1, <2>2, Unmoved DEF IInv, ProvenanceOK, Goto, world
  <2>7. OperationOK(t)'
    BY <2>1, <2>2, <2>4, <2>5, <2>6, Unmoved DEF IInv, OperationOK, Goto
  <2> QED BY <2>1, <2>7, GoOnStep DEF Steps, Awaiting
<1> QED BY <1>1, <1>2

LEMMA ExpandedStep ==
    ASSUME IInv, NEW t \in Tasks, Expanded(t)
    PROVE  IInv'
<1>1. CASE Refuse(t)
  BY <1>1, EndStep DEF Expanded
<1>2. CASE ~Refuse(t)
  <2> DEFINE step == attach_provenance(t)
             a == [attached[conn[t]] EXCEPT !.token = Token(t)]
  <2>1. /\ pc[t] = "expand" /\ Token(t) \notin blocked
        /\ member_var' = [member_var EXCEPT ![t] = Token(t)]
        /\ attached' = [attached EXCEPT ![conn[t]] = a]
        /\ Goto(t, step) /\ UNCHANGED token_var
    BY <1>2 DEF Expanded
  <2>2. TypeOK /\ OperationOK(t) /\ conn[t] \in Connections /\ carrier[conn[t]] \in Carriers
        /\ document' = document /\ transport' = transport /\ carrier' = carrier /\ conn' = conn
        /\ settings' = settings
    BY <2>1, UnderWay DEF IInv, Goto, world
  <2>3. a \in [token : {attached[conn[t]].token, Token(t)}, provenance : BOOLEAN]
        /\ a.provenance = attached[conn[t]].provenance /\ a.token = Token(t)
    BY <2>2 DEF TypeOK
  <2>4. pc'[t] \in {"provenance", "validate"} /\ member_var'[t] = Token(t)
        /\ attached'[conn[t]] = a /\ document[t] # "view"
    BY <2>1, <2>2, Unmoved DEF TypeOK, OperationOK, GatesOK, attach_provenance
  <2>5. TokenOK(t)'
    BY <2>1, <2>2, <2>4, Unmoved DEF OperationOK, TokenOK, Goto, world, Verified, Admitted, Member
  <2>6. VarsOK(t)'
    <3>1. token_var'[t] = Token(t) /\ conn'[t] = conn[t] /\ Token(t)' = Token(t)
          /\ GraphQL(t)' /\ attached'[conn[t]].token = Token(t)
      BY <2>1, <2>2, <2>3, <2>4, Unmoved DEF OperationOK, VarsOK, GraphQL, Admitted, Verified, Token
    <3> HIDE DEF a, step
    <3>2. pc'[t] \in Admitted /\ pc'[t] \in Member
      BY <2>4 DEF Admitted, Verified, Member
    <3> QED BY <3>1, <3>2, <2>4 DEF VarsOK
  <2>7. GatesOK(t)'
    BY <2>1, <2>2, <2>4, Unmoved DEF OperationOK, GatesOK, Verified, Admitted
  <2>8. ProvenanceOK(t)'
    BY <2>1, <2>2, <2>4, Unmoved DEF ProvenanceOK, attach_provenance, handed_over
  <2>9. OperationOK(t)'
    BY <2>2, <2>4, <2>5, <2>6, <2>7, <2>8, <2>1 DEF OperationOK
  <2>10. token_var' = [token_var EXCEPT ![t] = token_var[t]] /\ step \in Steps \ {"idle"}
    BY <2>1, <2>2 DEF TypeOK, Steps, Awaiting, attach_provenance
  <2> HIDE DEF a, step
  <2> QED BY <2>1, <2>3, <2>9, <2>10, Forward
<1> QED BY <1>1, <1>2

LEMMA ProvenanceVerifiedStep ==
    ASSUME IInv, NEW t \in Tasks, ProvenanceVerified(t)
    PROVE  IInv'
<1>1. CASE Refuse(t)
  BY <1>1, EndStep DEF ProvenanceVerified
<1>2. CASE ~Refuse(t)
  <2> DEFINE a == [attached[conn[t]] EXCEPT !.provenance = TRUE]
  <2>1. /\ pc[t] = "provenance" /\ carrier[conn[t]].provenance = "good"
        /\ attached' = [attached EXCEPT ![conn[t]] = a]
        /\ Goto(t, "validate") /\ UNCHANGED <<token_var, member_var>>
    BY <1>2 DEF ProvenanceVerified
  <2>2. TypeOK /\ OperationOK(t) /\ conn[t] \in Connections
        /\ document' = document /\ transport' = transport /\ carrier' = carrier /\ conn' = conn
        /\ settings' = settings
    BY <2>1, UnderWay DEF IInv, Goto, world
  <2>3. a \in [token : {attached[conn[t]].token, Token(t)}, provenance : BOOLEAN]
        /\ a.provenance /\ a.token = attached[conn[t]].token
    <3>1. attached[conn[t]] \in [token : Tokens \cup {None}, provenance : BOOLEAN]
      BY <2>2 DEF TypeOK
    <3>2. a \in [token : Tokens \cup {None}, provenance : {TRUE}]
      BY <3>1
    <3>3. a.token = attached[conn[t]].token
      BY <3>1
    <3> HIDE DEF a
    <3>4. a.provenance \in {TRUE}
      BY <3>2
    <3>5. a = [token |-> a.token, provenance |-> a.provenance]
      BY <3>2
    <3> QED BY <3>3, <3>4, <3>5
  <2>4. pc'[t] = "validate" /\ attached'[conn[t]] = a
    BY <2>1, <2>2, Unmoved DEF TypeOK
  <2>5. TokenOK(t)'
    BY <2>1, <2>2, <2>4, Unmoved DEF OperationOK, TokenOK, Goto, world, Verified, Admitted, Member
  <2>6. VarsOK(t)'
    BY <2>1, <2>2, <2>3, <2>4, Unmoved DEF OperationOK, VarsOK, Verified, Admitted, Member
  <2>7. GatesOK(t)'
    BY <2>1, <2>2, <2>4, Unmoved DEF OperationOK, GatesOK, Verified, Admitted
  <2>8. ProvenanceOK(t)'
    BY <2>1, <2>2, <2>3, <2>4 DEF ProvenanceOK
  <2>9. OperationOK(t)'
    BY <2>1, <2>2, <2>4, <2>5, <2>6, <2>7, <2>8 DEF OperationOK
  <2>10. token_var' = [token_var EXCEPT ![t] = token_var[t]]
         /\ member_var' = [member_var EXCEPT ![t] = member_var[t]]
    BY <2>1, <2>2 DEF TypeOK
  <2>11. settings.provenance
    BY <2>1, <2>2 DEF OperationOK, ProvenanceOK
  <2> HIDE DEF a
  <2> QED BY <2>1, <2>3, <2>9, <2>10, <2>11, Forward DEF Steps
<1> QED BY <1>1, <1>2

LEMMA InitOK == Init => IInv
<1> SUFFICES ASSUME Init PROVE IInv
  OBVIOUS
<1> USE DEF Init
<1>1. TypeOK
  <2>1. NoCredentials \in Carriers
    BY DEF NoCredentials, Carriers
  <2>2. Nothing \in [token : Tokens \cup {None}, provenance : BOOLEAN]
    BY DEF Nothing
  <2>3. changes \in 0 .. MaxChanges
    BY MaxChangesAssumption
  <2>4. /\ carrier \in [Connections -> Carriers]
        /\ attached \in [Connections -> [token : Tokens \cup {None}, provenance : BOOLEAN]]
    BY <2>1, <2>2
  <2>5. pc \in [Tasks -> Steps]
    BY DEF Steps
  <2>6. /\ transport \in [Connections -> {"closed", "http", "ws"}]
        /\ conn \in [Tasks -> Connections \cup {None}]
        /\ document \in [Tasks -> Documents \cup {None}]
        /\ token_var \in [Tasks -> Tokens \cup {None}]
        /\ member_var \in [Tasks -> Tokens \cup {None}]
    OBVIOUS
  <2>7. \A t \in Tasks : pc[t] = "idle" <=> conn[t] = None
    OBVIOUS
  <2> QED BY <2>3, <2>4, <2>5, <2>6, <2>7 DEF TypeOK
<1>2. ConnectionsOK
  <2>1. ~Nothing.provenance
    BY DEF Nothing
  <2> QED BY <2>1 DEF ConnectionsOK
<1>3. \A t \in Tasks : OperationOK(t)
  BY DEF OperationOK, IdleOK
<1> QED BY <1>1, <1>2, <1>3 DEF IInv

LEMMA Stutter ==
    ASSUME IInv, UNCHANGED vars
    PROVE  IInv'
<1> USE DEF vars, world, connections, operations, history
<1>1. TypeOK' /\ ConnectionsOK'
  BY DEF IInv, TypeOK, ConnectionsOK
<1>2. ASSUME NEW t \in Tasks PROVE OperationOK(t)'
  <2>1. Token(t)' = Token(t) /\ GraphQL(t)' = GraphQL(t) /\ scoped_mode' = scoped_mode
        /\ admitted(t)' = admitted(t)
    BY DEF Token, GraphQL, scoped_mode, serves_guests, admitted, require_full_member
  <2> QED BY <2>1 DEF IInv, OperationOK, IdleOK, TokenOK, VarsOK, GatesOK, ProvenanceOK
<1> QED BY <1>1, <1>2 DEF IInv

LEMMA NextOK ==
    ASSUME IInv, [Next]_vars
    PROVE  IInv'
<1>1. CASE UNCHANGED vars
  BY <1>1, Stutter
<1>2. ASSUME NEW c \in Connections, NEW kind \in {"http", "ws"}, NEW k \in Carriers, Open(c, kind, k)
      PROVE  IInv'
  BY <1>2, OpenStep
<1>3. ASSUME NEW c \in Connections, Close(c) PROVE IInv'
  BY <1>3, CloseStep
<1>4. ASSUME NEW t \in Tasks, NEW c \in Connections, NEW doc \in Documents, Request(t, c, doc)
      PROVE  IInv'
  BY <1>4, RequestStep
<1>5. ASSUME NEW t \in Tasks,
             AuthenticateUnreadable(t) \/ AuthenticateStatic(t) \/ AuthenticateSigned(t)
      PROVE  IInv'
  BY <1>5, AuthenticateStep
<1>6. ASSUME NEW t \in Tasks, KeysResolved(t) PROVE IInv'
  BY <1>6, KeysResolvedStep
<1>7. ASSUME NEW t \in Tasks, RevocationAnswered(t) PROVE IInv'
  <2>1. pc[t] = "revocation" /\ OperationOK(t)
    BY <1>7 DEF RevocationAnswered, IInv
  <2>2. Token(t) # None /\ Token(t).flaw = "none" /\ t \notin stale
    BY <2>1 DEF OperationOK, TokenOK, Verified
  <2> QED BY <1>7, <2>1, <2>2, EndStep, AdmitStep DEF RevocationAnswered
<1>8. ASSUME NEW t \in Tasks, Expanded(t) PROVE IInv'
  BY <1>8, ExpandedStep
<1>9. ASSUME NEW t \in Tasks, ProvenanceVerified(t) PROVE IInv'
  BY <1>9, ProvenanceVerifiedStep
<1>10. ASSUME NEW t \in Tasks, Validate(t) PROVE IInv'
  BY <1>10, ValidateStep
<1>11. ASSUME NEW t \in Tasks, Finish(t) \/ Cancel(t) PROVE IInv'
  <2>1. pc[t] # "idle" /\ Refuse(t)
    BY <1>11 DEF Finish, Cancel, Awaiting
  <2> QED BY <2>1, EndStep
<1>12. ASSUME \/ \E k \in Tokens : Expire(k) \/ Block(k) \/ Unblock(k)
              \/ enforce_scoped \/ stop_enforcing
       PROVE  IInv'
  BY <1>12, WorldStep
<1> QED BY <1>1, <1>2, <1>3, <1>4, <1>5, <1>6, <1>7, <1>8, <1>9, <1>10, <1>11, <1>12 DEF Next

(* What is known of every operation, where it is, holds always: the         *)
(* invariant from which the properties of Operation follow.                 *)
THEOREM InductiveInvariant == Spec => []IInv
<1>1. Init => IInv
  BY InitOK
<1>2. IInv /\ [Next]_vars => IInv'
  BY NextOK
<1> QED BY <1>1, <1>2, PTL DEF Spec

(* Types: nothing but what the code puts there is in any variable. *)
THEOREM TypeCorrect == Spec => []TypeOK
<1>1. IInv => TypeOK
  BY DEF IInv
<1> QED BY <1>1, InductiveInvariant, PTL

(* Every operation is authenticated anew, on a WebSocket too: none runs on  *)
(* a token that had expired before it began.                                *)
THEOREM Anew == Spec => []AuthenticatedAnew
<1>1. IInv => AuthenticatedAnew
  BY DEF IInv, OperationOK, TokenOK, AuthenticatedAnew, Running, Verified
<1> QED BY <1>1, InductiveInvariant, PTL

(* Resolvers read their own operation's user, and nothing is left behind,   *)
(* however many operations share a connection.                              *)
THEOREM OwnVariables == Spec => []VarsAreTheOperations
<1>1. IInv => VarsAreTheOperations
  <2> SUFFICES ASSUME IInv, NEW t \in Tasks
               PROVE  /\ pc[t] \in {"idle", "begin", "keys", "revocation"} => token_var[t] = None
                      /\ pc[t] \in {"idle", "begin", "keys", "revocation", "expand"} =>
                             member_var[t] = None
                      /\ Running(t) => token_var[t] = Token(t)
                      /\ Running(t) /\ GraphQL(t) =>
                             member_var[t] = Token(t) /\ attached[conn[t]].token = Token(t)
    BY DEF VarsAreTheOperations
  <2> QED BY DEF IInv, OperationOK, IdleOK, VarsOK, Running, Verified, Admitted, Member
<1> QED BY <1>1, InductiveInvariant, PTL

(* A guest's operation that runs where reads are held to collaborations is  *)
(* a query or has opted in, whenever enforcement came up.                   *)
THEOREM ReadOnlyGuests == Spec => []GuestsReadOnly
<1>1. IInv => GuestsReadOnly
  <2> SUFFICES ASSUME IInv, NEW t \in Tasks, Running(t), Token(t).guest
               PROVE  /\ document[t] # "view"
                      /\ document[t] \in {"mutation", "subscription"} => scoped_mode = "self"
    BY DEF GuestsReadOnly
  <2> QED BY DEF IInv, OperationOK, GatesOK, Running, Verified, Admitted, admitted, require_full_member
<1> QED BY <1>1, InductiveInvariant, PTL

(* Nothing comes to be written for a token that a gate refuses. *)
THEOREM AdmittedWrites == Spec => []WritesAreAdmitted
<1>1. IInv => WritesAreAdmitted
  <2> SUFFICES ASSUME IInv, NEW t \in Tasks, pc[t] = "expand"
               PROVE  /\ Token(t).flaw = "none" /\ Token(t).allowed
                      /\ Token(t).guest => serves_guests
                      /\ t \notin stale
    BY DEF WritesAreAdmitted
  <2> QED BY DEF IInv, OperationOK, TokenOK, GatesOK, Verified, Admitted, admitted, require_full_member
<1> QED BY <1>1, InductiveInvariant, PTL

(* A provenance token that is carried is verified, or its operation does    *)
(* not run.                                                                 *)
THEOREM FailClosed == Spec => []ProvenanceFailsClosed
<1>1. IInv => ProvenanceFailsClosed
  <2> SUFFICES ASSUME IInv, NEW t \in Tasks, Running(t), GraphQL(t)
               PROVE  /\ settings.provenance => handed_over(t) \in {"none", "good"}
                      /\ attached[conn[t]].provenance = (settings.provenance /\ handed_over(t) = "good")
    BY DEF ProvenanceFailsClosed
  <2>1. conn[t] \in Connections /\ ProvenanceOK(t) /\ attached[conn[t]].provenance \in BOOLEAN
    BY UnderWay DEF IInv, OperationOK, Running, TypeOK
  <2>2. attached[conn[t]].provenance =>
            settings.provenance /\ carrier[conn[t]].provenance = "good"
    BY <2>1 DEF IInv, ConnectionsOK
  <2>3. settings.provenance =>
            \/ carrier[conn[t]].provenance \in {"none", "no_string"}
            \/ carrier[conn[t]].provenance = "good" /\ attached[conn[t]].provenance
    BY <2>1 DEF ProvenanceOK, Running
  <2>4. settings.provenance \in BOOLEAN
    BY DEF IInv, TypeOK, Settings
  <2>5. /\ handed_over(t) = "good" <=> carrier[conn[t]].provenance = "good"
        /\ carrier[conn[t]].provenance \in {"none", "no_string"} => handed_over(t) = "none"
    BY DEF handed_over
  <2>6. /\ settings.provenance => handed_over(t) \in {"none", "good"}
        /\ attached[conn[t]].provenance <=> (settings.provenance /\ handed_over(t) = "good")
    BY <2>2, <2>3, <2>5
  <2> QED BY <2>1, <2>4, <2>6
<1> QED BY <1>1, InductiveInvariant, PTL

(* A member blocked since before an operation began does not run it. *)
THEOREM BlockedOut == Spec => []BlockedCannotOperate
<1>1. IInv => BlockedCannotOperate
  BY DEF IInv, OperationOK, TokenOK, BlockedCannotOperate, Running, Member, Verified, Admitted
<1> QED BY <1>1, InductiveInvariant, PTL
=============================================================================
