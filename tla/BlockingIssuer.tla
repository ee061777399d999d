--------------------------- MODULE BlockingIssuer ---------------------------
(***************************************************************************)
(* What the configured issuers do for synchronous callers: resolving a key *)
(* set (_resolve_issuer_key_set in base_models.py) and looking up a jti    *)
(* (RevocationList.is_revoked), by the threads of one process.             *)
(*                                                                         *)
(* _run_blocking runs the coroutine of JwksCache and of RevocationList in  *)
(* a new event loop per call, so that the lock of an issuer is shared by   *)
(* loops: LoopLock.  Time is reduced to what the code asks of it, whether  *)
(* an interval is over, and a fetch to its end.                            *)
(***************************************************************************)
EXTENDS LoopLock

CONSTANTS
    Issuers, Kids, Keys, Jtis,
    kind,       \* of each issuer: "jwks_uri", "rsa_file" or "jwks_dict"
    Documents,  \* the key documents each issuer may publish
    NoKey, Garbled,
    Revoking    \* the issuers with a revocation_uri

(* A document maps key ids to keys, NoKey being an entry that              *)
(* import_key_set refuses (no kty, or one it does not know).  Three        *)
(* documents are none: the empty one is any that _index_issuer_keys        *)
(* refuses itself, Garbled one it trips over (an entry that is no object,  *)
(* a kid that cannot be hashed), None a PEM file that cannot be read.      *)
NoDocument == {None, Garbled}

ASSUME LocksAssumption == Locks = Issuers \X {"keys", "revoked"}
ASSUME KindAssumption == kind \in [Issuers -> {"jwks_uri", "rsa_file", "jwks_dict"}]
ASSUME DocumentsAssumption ==
    \A i \in Issuers : \A d \in Documents[i] \ NoDocument :
       DOMAIN d \subseteq Kids /\ \A k \in DOMAIN d : d[k] \in Keys \cup {NoKey}
ASSUME ReadableAssumption ==
    \A i \in Issuers : /\ None \in Documents[i] => kind[i] = "rsa_file"
                       /\ Garbled \in Documents[i] => kind[i] # "rsa_file"
ASSUME GarbledIsPublished == Garbled # None /\ NoKey \notin Keys
ASSUME RevokingAssumption == Revoking \subseteq Issuers
ASSUME NoneIsNoSection == None \notin {"load", "refresh", "revoked"}

VARIABLES
    document,         \* what each issuer publishes now
    cache,            \* _cache
    failedLately,     \* _last_failed_load is less than an interval ago
    refreshedLately,  \* _last_refresh is less than an interval ago
    revocations,      \* the jtis each issuer's list names now
    listed,           \* _revoked
    due               \* _is_due

VARIABLES
    pc,       \* where each thread is
    call,     \* the call it is in
    section,  \* what it does under the lock: "load", "refresh" or "revoked"
    again,    \* whether it has already refreshed
    result,   \* how the issuer answered: "keys", "listed", "unlisted" or an exception
    keys      \* the document behind "keys"

worldVars == <<document, revocations>>
cacheVars == <<cache, failedLately, refreshedLately, listed, due>>

Iss(t) == call[t].token.iss
LockOf(t) == <<Iss(t), IF section[t] = "revoked" THEN "revoked" ELSE "keys">>

AnyDocument == UNION {Documents[i] : i \in Issuers}

Results == {None, "keys", "listed", "unlisted", "JwksError",
            "RuntimeError", "OSError", "AttributeError", "JoseError"}
LockSteps == {"acquire", "take", "join", "waiting", "asleep", "locked", "fetch"}

IssuerTypeOK ==
    /\ LockTypeOK
    /\ document \in [Issuers -> AnyDocument]
    /\ cache \in [Issuers -> AnyDocument \cup {None}]
    /\ \A i \in Issuers : document[i] \in Documents[i] /\ cache[i] \in Documents[i] \cup {None}
    /\ failedLately \in [Issuers -> BOOLEAN]
    /\ refreshedLately \in [Issuers -> BOOLEAN]
    /\ revocations \in [Issuers -> SUBSET Jtis]
    /\ listed \in [Issuers -> SUBSET Jtis]
    /\ due \in [Issuers -> BOOLEAN]
    /\ section \in [Threads -> {None, "load", "refresh", "revoked"}]
    /\ again \in [Threads -> BOOLEAN]
    /\ result \in [Threads -> Results]
    /\ keys \in [Threads -> AnyDocument \cup {None}]

IssuerInit ==
    /\ LockInit
    /\ document \in [Issuers -> AnyDocument]
    /\ \A i \in Issuers : document[i] \in Documents[i]
    /\ cache = [i \in Issuers |-> None]
    /\ failedLately = [i \in Issuers |-> FALSE]
    /\ refreshedLately = [i \in Issuers |-> FALSE]
    /\ revocations = [i \in Issuers |-> {}]
    /\ listed = [i \in Issuers |-> {}]
    /\ due = [i \in Issuers |-> i \in Revoking]
    /\ section = [t \in Threads |-> None]
    /\ again = [t \in Threads |-> FALSE]
    /\ result = [t \in Threads |-> None]
    /\ keys = [t \in Threads |-> None]
-----------------------------------------------------------------------------
Goto(t, l) == pc' = [pc EXCEPT ![t] = l]

(* The call into the issuer is over, with an exception or with keys. *)
Raise(t, e) ==
    /\ Goto(t, IF section[t] = "revoked" THEN "answered" ELSE "resolved")
    /\ result' = [result EXCEPT ![t] = e]
    /\ UNCHANGED keys

ReturnKeys(t, d) ==
    /\ Goto(t, "resolved")
    /\ result' = [result EXCEPT ![t] = "keys"]
    /\ keys' = [keys EXCEPT ![t] = d]

GoOn(t, l) == Goto(t, l) /\ UNCHANGED <<result, keys>>

(* _run_blocking: only where no loop runs. *)
RunBlocking(t, s) ==
    \/ /\ call[t].inLoop
       /\ Raise(t, "JwksError")
       /\ UNCHANGED section
    \/ /\ ~call[t].inLoop
       /\ section' = [section EXCEPT ![t] = s]
       /\ GoOn(t, "acquire")

(* The keys of one issuer, or of all of them. *)
Importable(d) == \A k \in DOMAIN d : d[k] # NoKey
Merged(i, d) ==
    LET others == {document[j] : j \in Issuers \ {i}} \ NoDocument
        merged == [k \in UNION {DOMAIN e : e \in others} |-> (CHOOSE e \in others : k \in DOMAIN e)[k]]
    IN  merged @@ d

(* Mutant: the keys of all issuers are merged. *)
ImportMerged(t, d) == ReturnKeys(t, Merged(Iss(t), d))

(* KeySet.import_key_set of the keys of one issuer: one of them that it    *)
(* does not know and it raises, whichever kid is wanted.                   *)
ImportKeySet(t, d) ==
    \/ Importable(d) /\ ReturnKeys(t, d)
    \/ ~Importable(d) /\ Raise(t, "JoseError")

(* _index_issuer_keys *)
Indexed(d) == d \notin NoDocument /\ DOMAIN d # {}
Unindexed(t, d) ==
    \/ d = Garbled /\ Raise(t, "AttributeError")
    \/ d \notin NoDocument /\ DOMAIN d = {} /\ Raise(t, "JwksError")

(* Mutant: every miss refreshes. *)
LookUpAlways(t, d) ==
    /\ \/ ~Indexed(d) /\ Unindexed(t, d) /\ UNCHANGED <<section, again>>
       \/ /\ Indexed(d) /\ call[t].token.kid \in DOMAIN d
          /\ ImportKeySet(t, d)
          /\ UNCHANGED <<section, again>>
       \/ /\ Indexed(d) /\ call[t].token.kid \notin DOMAIN d
          /\ RunBlocking(t, "refresh")
          /\ UNCHANGED again

(* _resolve_issuer_key_set with a refresh when the kid is not among the    *)
(* keys; the refresh() of an issuer that fetches nothing does nothing.     *)
LookUp(t, d) ==
    LET missed == Indexed(d) /\ call[t].token.kid \notin DOMAIN d IN
    \/ ~Indexed(d) /\ Unindexed(t, d) /\ UNCHANGED <<section, again>>
    \/ /\ Indexed(d) /\ (missed => again[t])
       /\ ImportKeySet(t, d)
       /\ UNCHANGED <<section, again>>
    \/ /\ missed /\ ~again[t] /\ kind[Iss(t)] = "jwks_uri"
       /\ RunBlocking(t, "refresh")
       /\ UNCHANGED again
    \/ /\ missed /\ ~again[t] /\ kind[Iss(t)] # "jwks_uri"
       /\ again' = [again EXCEPT ![t] = TRUE]
       /\ UNCHANGED <<pc, section, result, keys>>

(* JWKSUriIssuer.get_as_jwks *)
GetCached(t) ==
    LET i == Iss(t) IN
    /\ kind[i] = "jwks_uri"
    /\ \/ cache[i] = None /\ RunBlocking(t, "load") /\ UNCHANGED again
       \/ cache[i] # None /\ LookUp(t, cache[i])

(* get_as_jwks of the other kinds; the file is read each time. *)
GetConfigured(t) ==
    LET i == Iss(t) IN
    /\ kind[i] # "jwks_uri"
    /\ \/ document[i] = None /\ Raise(t, "OSError") /\ UNCHANGED <<section, again>>
       \/ document[i] # None /\ LookUp(t, document[i])

Get(t) ==
    /\ pc[t] = "get"
    /\ GetCached(t) \/ GetConfigured(t)
    /\ UNCHANGED <<lockVars, worldVars, cacheVars, call>>

(* RevocationList.is_revoked, up to the lock.  Unlike _run_blocking it has *)
(* no error of its own for a caller inside a loop.                         *)
AskRevoked(t) ==
    LET i == Iss(t) IN
    /\ pc[t] = "ask"
    /\ \/ /\ call[t].inLoop
          /\ Goto(t, "answered")
          /\ result' = [result EXCEPT ![t] = "RuntimeError"]
          /\ UNCHANGED <<section, keys>>
       \/ /\ ~call[t].inLoop /\ ~due[i]
          /\ GoOn(t, "look")
          /\ UNCHANGED section
       \/ /\ ~call[t].inLoop /\ due[i]
          /\ section' = [section EXCEPT ![t] = "revoked"]
          /\ GoOn(t, "acquire")
    /\ UNCHANGED <<lockVars, worldVars, cacheVars, call, again>>

(* `jti in self.revoked` *)
LookRevoked(t) ==
    /\ pc[t] = "look"
    /\ Goto(t, "answered")
    /\ result' = [result EXCEPT ![t] =
          IF call[t].token.jti \in listed[Iss(t)] THEN "listed" ELSE "unlisted"]
    /\ UNCHANGED <<keys, lockVars, worldVars, cacheVars, call, section, again>>
-----------------------------------------------------------------------------
(* acquire(): the fast path, in one step until there is a deque. *)
Acquire(t) ==
    LET l == LockOf(t) IN
    /\ pc[t] = "acquire"
    /\ \/ Free(l) /\ ~bound[l] /\ SetLocked(l) /\ GoOn(t, "locked")
       \/ Free(l) /\ bound[l] /\ UNCHANGED lockVars /\ GoOn(t, "take")
       \/ ~Free(l) /\ UNCHANGED lockVars /\ GoOn(t, "join")
    /\ UNCHANGED <<worldVars, cacheVars, call, section, again>>

Take(t) ==
    /\ pc[t] = "take"
    /\ SetLocked(LockOf(t))
    /\ GoOn(t, "locked")
    /\ UNCHANGED <<worldVars, cacheVars, call, section, again>>

(* _get_loop: the lock may be bound to another loop. *)
JoinWaiters(t) ==
    LET l == LockOf(t) IN
    /\ pc[t] = "join"
    /\ \/ Join(t, l) /\ GoOn(t, "waiting")
       \/ bound[l] /\ Raise(t, "RuntimeError") /\ UNCHANGED lockVars
    /\ UNCHANGED <<worldVars, cacheVars, call, section, again>>

(* The loop goes to sleep in select() with nothing to do. *)
FallAsleep(t) ==
    /\ pc[t] = "waiting"
    /\ ~woken[LockOf(t)]
    /\ GoOn(t, "asleep")
    /\ UNCHANGED <<lockVars, worldVars, cacheVars, call, section, again>>

WakeUp(t) ==
    /\ pc[t] = "waiting"
    /\ Resume(t, LockOf(t))
    /\ GoOn(t, "locked")
    /\ UNCHANGED <<worldVars, cacheVars, call, section, again>>

(* Leaving the `async with`, which goes on at l; release() may fail. *)
Leave(t, l) ==
    \/ Release(LockOf(t)) /\ GoOn(t, l)
    \/ ~locked[LockOf(t)] /\ Raise(t, "RuntimeError") /\ UNCHANGED lockVars

LeaveRaising(t, e) ==
    \/ Release(LockOf(t)) /\ Raise(t, e)
    \/ ~locked[LockOf(t)] /\ Raise(t, "RuntimeError") /\ UNCHANGED lockVars

Load(t) ==
    LET i == Iss(t) IN
    /\ pc[t] = "locked" /\ section[t] = "load"
    /\ \/ cache[i] # None /\ Leave(t, "get")
       \/ cache[i] = None /\ failedLately[i] /\ LeaveRaising(t, "JwksError")
       \/ cache[i] = None /\ ~failedLately[i] /\ GoOn(t, "fetch") /\ UNCHANGED lockVars
    /\ UNCHANGED <<worldVars, cacheVars, call, section, again>>

(* arefresh; its budget is spent before the fetch. *)
Refresh(t) ==
    LET i == Iss(t) IN
    /\ pc[t] = "locked" /\ section[t] = "refresh"
    /\ \/ /\ refreshedLately[i]
          /\ Leave(t, "get")
          /\ again' = [again EXCEPT ![t] = TRUE]
          /\ UNCHANGED refreshedLately
       \/ /\ ~refreshedLately[i]
          /\ refreshedLately' = [refreshedLately EXCEPT ![i] = TRUE]
          /\ GoOn(t, "fetch")
          /\ UNCHANGED <<lockVars, again>>
    /\ UNCHANGED <<worldVars, cache, failedLately, listed, due, call, section>>

(* RevocationList: the second _is_due; the attempt counts from its start. *)
Recheck(t) ==
    LET i == Iss(t) IN
    /\ pc[t] = "locked" /\ section[t] = "revoked"
    /\ \/ ~due[i] /\ Leave(t, "look") /\ UNCHANGED due
       \/ /\ due[i]
          /\ due' = [due EXCEPT ![i] = FALSE]
          /\ GoOn(t, "fetch")
          /\ UNCHANGED lockVars
    /\ UNCHANGED <<worldVars, cache, failedLately, refreshedLately, listed, call, section, again>>

LoadFetched(t) ==
    LET i == Iss(t) IN
    /\ pc[t] = "fetch" /\ section[t] = "load"
    /\ \/ /\ cache' = [cache EXCEPT ![i] = document[i]]
          /\ failedLately' = [failedLately EXCEPT ![i] = FALSE]
          /\ Leave(t, "get")
       \/ /\ failedLately' = [failedLately EXCEPT ![i] = TRUE]
          /\ LeaveRaising(t, "JwksError")
          /\ UNCHANGED cache
    /\ UNCHANGED <<worldVars, refreshedLately, listed, due, call, section, again>>

RefreshFetched(t) ==
    LET i == Iss(t) IN
    /\ pc[t] = "fetch" /\ section[t] = "refresh"
    /\ \/ /\ cache' = [cache EXCEPT ![i] = document[i]]
          /\ Leave(t, "get")
          /\ again' = [again EXCEPT ![t] = TRUE]
       \/ /\ LeaveRaising(t, "JwksError")
          /\ UNCHANGED <<cache, again>>
    /\ UNCHANGED <<worldVars, failedLately, refreshedLately, listed, due, call, section>>

(* A failed refresh of the revocation list is not an error. *)
RevocationsFetched(t) ==
    LET i == Iss(t) IN
    /\ pc[t] = "fetch" /\ section[t] = "revoked"
    /\ \/ listed' = [listed EXCEPT ![i] = revocations[i]]
       \/ UNCHANGED listed
    /\ Leave(t, "look")
    /\ UNCHANGED <<worldVars, cache, failedLately, refreshedLately, due, call, section, again>>

UseIssuer(t) ==
    \/ Get(t) \/ AskRevoked(t) \/ LookRevoked(t)
    \/ Acquire(t) \/ Take(t) \/ JoinWaiters(t) \/ FallAsleep(t) \/ WakeUp(t)
    \/ Load(t) \/ Refresh(t) \/ Recheck(t)
    \/ LoadFetched(t) \/ RefreshFetched(t) \/ RevocationsFetched(t)
-----------------------------------------------------------------------------
(* Keys are rotated, files replaced, tokens revoked. *)
Publish(i) ==
    /\ \/ /\ \E d \in Documents[i] \ {document[i]} : document' = [document EXCEPT ![i] = d]
          /\ UNCHANGED revocations
       \/ /\ i \in Revoking
          /\ \E j \in Jtis \ revocations[i] : revocations' = [revocations EXCEPT ![i] = @ \cup {j}]
          /\ UNCHANGED document
    /\ UNCHANGED <<lockVars, cacheVars>>

(* One of the intervals of an issuer is over. *)
IntervalEnds(i) ==
    /\ \/ /\ failedLately[i]
          /\ failedLately' = [failedLately EXCEPT ![i] = FALSE]
          /\ UNCHANGED <<refreshedLately, due>>
       \/ /\ refreshedLately[i]
          /\ refreshedLately' = [refreshedLately EXCEPT ![i] = FALSE]
          /\ UNCHANGED <<failedLately, due>>
       \/ /\ i \in Revoking /\ ~due[i]
          /\ due' = [due EXCEPT ![i] = TRUE]
          /\ UNCHANGED <<failedLately, refreshedLately>>
    /\ UNCHANGED <<lockVars, worldVars, cache, listed>>
=============================================================================
