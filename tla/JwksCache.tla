------------------------------ MODULE JwksCache ------------------------------
(***************************************************************************)
(* Resolving the verification key of a token through the cached JWKS of a  *)
(* JWKSUriIssuer (base_models.py), by any number of concurrent requests on *)
(* one event loop.                                                         *)
(*                                                                         *)
(* Every request runs _aresolve_issuer_key_set: get the key set (loading   *)
(* it when nothing is cached), index it, and when the key id is missing    *)
(* refresh once and look again.  Loads and refreshes share _cache_lock and *)
(* one HTTP request each; they are throttled separately.                   *)
(*                                                                         *)
(* A task only gives way where it awaits: control points in Running are    *)
(* inside one synchronous section, and no other task moves while one is.   *)
(***************************************************************************)
EXTENDS AsyncLock, IssuerEndpoint

CONSTANTS
    Kids,               \* key ids
    MinRefreshInterval, \* min_refresh_interval
    Cancellable         \* whether a waiting request may be cancelled

ASSUME IntervalAssumption == MinRefreshInterval \in Nat \ {0}
ASSUME DocsAssumption == \A d \in Docs : d = None \/ d \in SUBSET Kids
ASSUME NoneAssumption == None \notin Nat /\ \A d \in SUBSET Kids : d # None

(* A document is the set of key ids it offers.  {} is any value of "keys"  *)
(* by which a lookup comes to nothing, whether _index_issuer_keys refuses  *)
(* it or it, or KeySet.import_key_set, trips over it: BlockingIssuer tells *)
(* the three apart.  None is the document {"keys": null}.                  *)

VARIABLES
    cache,           \* _cache: place in `issued` of the cached document, 0 for None
    lastRefresh,     \* _last_refresh
    lastFailedLoad,  \* _last_failed_load
    pc,              \* where each request is
    kid,             \* the key id each request needs, None when idle
    again,           \* whether the request has already refreshed
    started          \* `now` in _load_jwks

(* History, read by the properties only. *)
VARIABLES
    outcome,    \* how the last request to return ended
    asked,      \* when the request in progress was called, 0 for none
    sent,       \* start times of the last two fetches, oldest first
    refreshOk,  \* whether the last refresh brought a document
    brokenAt    \* when a fetch last failed

cacheVars == <<cache, lastRefresh, lastFailedLoad>>
taskVars == <<pc, kid, again, started, outcome, asked>>
historyVars == <<sent, refreshOk, brokenAt>>
vars == <<lockVars, endpointVars, cacheVars, taskVars, historyVars>>

Running == {"get", "load", "index", "refresh"}
Waiting == {"loadWait", "refreshWait"}
Fetching == {"loadFetch", "refreshFetch"}
Verdicts == {"none", "resolved", "unknown_kid", "jwks_error", "cancelled"}

Time == Nat \cup {None}

TypeOK ==
    /\ holder \in Tasks \cup {None}
    /\ queue \in Seq(Tasks)
    /\ clock \in Nat
    /\ issued \in Seq(Publications) /\ issued # <<>>
    /\ phase \in [Tasks -> {"none", "sent", "answered", "broken"}]
    /\ answer \in [Tasks -> 0..Latest]
    /\ cache \in 0..Latest
    /\ lastRefresh \in Time
    /\ lastFailedLoad \in Time
    /\ pc \in [Tasks -> Running \cup Waiting \cup Fetching \cup {"idle"}]
    /\ kid \in [Tasks -> Kids \cup {None}]
    /\ again \in [Tasks -> BOOLEAN]
    /\ started \in [Tasks -> Nat]
    /\ outcome \in Verdicts
    /\ asked \in [Tasks -> Nat]
    /\ sent \in [1..2 -> Time]
    /\ refreshOk \in BOOLEAN
    /\ brokenAt \in Time

Init ==
    /\ LockInit
    /\ EndpointInit(Tasks)
    /\ cache = 0
    /\ lastRefresh = None
    /\ lastFailedLoad = None
    /\ pc = [r \in Tasks |-> "idle"]
    /\ kid = [r \in Tasks |-> None]
    /\ again = [r \in Tasks |-> FALSE]
    /\ started = [r \in Tasks |-> 0]
    /\ outcome = "none"
    /\ asked = [r \in Tasks |-> 0]
    /\ sent = <<None, None>>
    /\ refreshOk = TRUE
    /\ brokenAt = None
-----------------------------------------------------------------------------
LoopFree == \A r \in Tasks : pc[r] \notin Running

(* "not None and now - then < min_refresh_interval" *)
Recent(then) == then # None /\ clock - then < MinRefreshInterval

CachedDoc == IF cache = 0 THEN None ELSE issued[cache].doc

(* Whether _index_issuer_keys accepts the cached value. *)
Indexable(doc) == doc # None /\ doc # {}

Goto(r, l) == pc' = [pc EXCEPT ![r] = l]

Finish(r, v) ==
    /\ Goto(r, "idle")
    /\ outcome' = v
    /\ kid' = [kid EXCEPT ![r] = None]
    /\ again' = [again EXCEPT ![r] = FALSE]
    /\ started' = [started EXCEPT ![r] = 0]
    /\ asked' = [asked EXCEPT ![r] = 0]

(* Mutant of EnterLock: the lock is not taken. *)
EnterUnlocked(r, waiting, locked) ==
    /\ Goto(r, locked)
    /\ UNCHANGED <<lockVars, kid, again, started, outcome, asked>>

(* `async with self._cache_lock` *)
EnterLock(r, waiting, locked) ==
    /\ \/ Acquire(r) /\ Goto(r, locked)
       \/ Enqueue(r) /\ Goto(r, waiting)
    /\ UNCHANGED <<kid, again, started, outcome, asked>>

(* adecode_token has read the key hints and asks for the key set. *)
Call(r) ==
    /\ LoopFree
    /\ pc[r] = "idle"
    /\ Goto(r, "get")
    /\ \E k \in Kids : kid' = [kid EXCEPT ![r] = k]
    /\ asked' = [asked EXCEPT ![r] = clock]
    /\ UNCHANGED <<again, started, outcome, lockVars, endpointVars, cacheVars, historyVars>>

(* aget_as_jwks: serve the cached list, or load it under the lock. *)
Get(r) ==
    /\ pc[r] = "get"
    /\ \/ /\ cache # 0
          /\ Goto(r, "index")
          /\ UNCHANGED <<lockVars, kid, again, started, outcome, asked>>
       \/ cache = 0 /\ EnterLock(r, "loadWait", "load")
    /\ UNCHANGED <<endpointVars, cacheVars, historyVars>>

(* The oldest waiter of the lock resumes. *)
Resume(r) ==
    /\ LoopFree
    /\ pc[r] \in Waiting
    /\ Wake(r)
    /\ Goto(r, IF pc[r] = "loadWait" THEN "load" ELSE "refresh")
    /\ UNCHANGED <<kid, again, started, outcome, asked>>
    /\ UNCHANGED <<endpointVars, cacheVars, historyVars>>

(* _fetch_jwks sends its request. *)
StartFetch(r) ==
    /\ Send(r)
    /\ sent' = <<sent[2], clock>>
    /\ UNCHANGED <<refreshOk, brokenAt>>

(* `self._cache = data["keys"]`, whatever it is.  The HTTP client is still *)
(* closed, which may take the loop around once more, before the lock is    *)
(* let go: here storing and letting go are one step.                       *)
StoreAnswer(r) == cache' = IF issued[answer[r]].doc = None THEN 0 ELSE answer[r]

LoadDone(r) == Release /\ Goto(r, "index") /\ UNCHANGED <<kid, again, started, outcome, asked>>

(* Another request filled the cache while this one waited for the lock. *)
LoadAlreadyDone(r) ==
    /\ pc[r] = "load"
    /\ cache # 0
    /\ LoadDone(r)
    /\ UNCHANGED <<endpointVars, cacheVars, historyVars>>

(* Mutant of LoadThrottled: a failure is never forgotten. *)
LoadThrottledForever(r) ==
    /\ pc[r] = "load"
    /\ cache = 0
    /\ lastFailedLoad # None
    /\ Release
    /\ Finish(r, "jwks_error")
    /\ UNCHANGED <<endpointVars, cacheVars, historyVars>>

(* _load_jwks reuses a recent failure. *)
LoadThrottled(r) ==
    /\ pc[r] = "load"
    /\ cache = 0
    /\ Recent(lastFailedLoad)
    /\ Release
    /\ Finish(r, "jwks_error")
    /\ UNCHANGED <<endpointVars, cacheVars, historyVars>>

(* Mutant of LoadStart: no second look at the cache under the lock. *)
LoadStartUnlooked(r) ==
    /\ pc[r] = "load"
    /\ ~Recent(lastFailedLoad)
    /\ started' = [started EXCEPT ![r] = clock]
    /\ StartFetch(r)
    /\ Goto(r, "loadFetch")
    /\ UNCHANGED <<kid, again, outcome, asked, lockVars, cacheVars>>

LoadStart(r) ==
    /\ pc[r] = "load"
    /\ cache = 0
    /\ ~Recent(lastFailedLoad)
    /\ started' = [started EXCEPT ![r] = clock]
    /\ StartFetch(r)
    /\ Goto(r, "loadFetch")
    /\ UNCHANGED <<kid, again, outcome, asked, lockVars, cacheVars>>

LoadSucceeds(r) ==
    /\ LoopFree
    /\ pc[r] = "loadFetch"
    /\ phase[r] = "answered"
    /\ StoreAnswer(r)
    /\ lastFailedLoad' = None
    /\ Close(r)
    /\ LoadDone(r)
    /\ UNCHANGED <<lastRefresh, historyVars>>

(* Mutants of LoadFails: the failure is not remembered; it is dated before *)
(* the load; the lock is kept.                                             *)
LoadFailsUnrecorded(r) ==
    /\ LoopFree
    /\ pc[r] = "loadFetch"
    /\ phase[r] = "broken"
    /\ lastFailedLoad' = lastFailedLoad
    /\ brokenAt' = clock
    /\ Close(r)
    /\ Release
    /\ Finish(r, "jwks_error")
    /\ UNCHANGED <<cache, lastRefresh, sent, refreshOk>>

LoadFailsBackdated(r) ==
    /\ LoopFree
    /\ pc[r] = "loadFetch"
    /\ phase[r] = "broken"
    /\ lastFailedLoad' = started[r] - MinRefreshInterval
    /\ brokenAt' = clock
    /\ Close(r)
    /\ Release
    /\ Finish(r, "jwks_error")
    /\ UNCHANGED <<cache, lastRefresh, sent, refreshOk>>

LoadFailsHolding(r) ==
    /\ LoopFree
    /\ pc[r] = "loadFetch"
    /\ phase[r] = "broken"
    /\ lastFailedLoad' = started[r]
    /\ brokenAt' = clock
    /\ Close(r)
    /\ UNCHANGED lockVars
    /\ Finish(r, "jwks_error")
    /\ UNCHANGED <<cache, lastRefresh, sent, refreshOk>>

(* The failure is remembered with the time the load started. *)
LoadFails(r) ==
    /\ LoopFree
    /\ pc[r] = "loadFetch"
    /\ phase[r] = "broken"
    /\ lastFailedLoad' = started[r]
    /\ brokenAt' = clock
    /\ Close(r)
    /\ Release
    /\ Finish(r, "jwks_error")
    /\ UNCHANGED <<cache, lastRefresh, sent, refreshOk>>

(* _index_issuer_keys and the kid lookup of _aresolve_issuer_key_set.  Any *)
(* lookup that comes to nothing ends as a JwksError here.                  *)
Index(r) ==
    /\ pc[r] = "index"
    /\ \/ /\ ~Indexable(CachedDoc)
          /\ Finish(r, "jwks_error")
          /\ UNCHANGED lockVars
       \/ /\ Indexable(CachedDoc) /\ kid[r] \in CachedDoc
          /\ Finish(r, "resolved")
          /\ UNCHANGED lockVars
       \/ /\ Indexable(CachedDoc) /\ kid[r] \notin CachedDoc /\ again[r]
          /\ Finish(r, "unknown_kid")
          /\ UNCHANGED lockVars
       \/ /\ Indexable(CachedDoc) /\ kid[r] \notin CachedDoc /\ ~again[r]
          /\ EnterLock(r, "refreshWait", "refresh")
    /\ UNCHANGED <<endpointVars, cacheVars, historyVars>>

RefreshDone(r) ==
    /\ Release
    /\ Goto(r, "get")
    /\ again' = [again EXCEPT ![r] = TRUE]
    /\ UNCHANGED <<kid, started, outcome, asked>>

(* arefresh keeps the cache when it was refreshed recently. *)
RefreshSkipped(r) ==
    /\ pc[r] = "refresh"
    /\ Recent(lastRefresh)
    /\ RefreshDone(r)
    /\ UNCHANGED <<endpointVars, cacheVars, historyVars>>

(* The budget is spent before the request is sent. *)
RefreshStart(r) ==
    /\ pc[r] = "refresh"
    /\ ~Recent(lastRefresh)
    /\ lastRefresh' = clock
    /\ Send(r)
    /\ sent' = <<sent[2], clock>>
    /\ refreshOk' = FALSE
    /\ Goto(r, "refreshFetch")
    /\ UNCHANGED <<kid, again, started, outcome, asked, lockVars>>
    /\ UNCHANGED <<cache, lastFailedLoad, brokenAt>>

(* Mutant of RefreshSucceeds: the budget runs from the answer. *)
RefreshSucceedsRedated(r) ==
    /\ LoopFree
    /\ pc[r] = "refreshFetch"
    /\ phase[r] = "answered"
    /\ StoreAnswer(r)
    /\ lastRefresh' = clock
    /\ refreshOk' = TRUE
    /\ Close(r)
    /\ RefreshDone(r)
    /\ UNCHANGED <<lastFailedLoad, sent, brokenAt>>

RefreshSucceeds(r) ==
    /\ LoopFree
    /\ pc[r] = "refreshFetch"
    /\ phase[r] = "answered"
    /\ StoreAnswer(r)
    /\ refreshOk' = TRUE
    /\ Close(r)
    /\ RefreshDone(r)
    /\ UNCHANGED <<lastRefresh, lastFailedLoad, sent, brokenAt>>

RefreshFails(r) ==
    /\ LoopFree
    /\ pc[r] = "refreshFetch"
    /\ phase[r] = "broken"
    /\ brokenAt' = clock
    /\ Close(r)
    /\ Release
    /\ Finish(r, "jwks_error")
    /\ UNCHANGED <<cacheVars, sent, refreshOk>>

(* Mutant of Cancel: a cancelled waiter releases the lock as well. *)
CancelReleasing(r) ==
    /\ Cancellable
    /\ LoopFree
    /\ pc[r] \in Waiting \cup Fetching
    /\ holder' = None
    /\ queue' = SelectSeq(queue, LAMBDA t : t # r)
    /\ IF pc[r] \in Fetching THEN Close(r) ELSE UNCHANGED endpointVars
    /\ Finish(r, "cancelled")
    /\ UNCHANGED <<cacheVars, historyVars>>

(* The task is cancelled where it waits.  CancelledError is no Exception:  *)
(* neither `except Exception` of the fetch sees it.                        *)
Cancel(r) ==
    /\ Cancellable
    /\ LoopFree
    /\ pc[r] \in Waiting \cup Fetching
    /\ Leave(r)
    /\ IF pc[r] \in Fetching THEN Close(r) ELSE UNCHANGED endpointVars
    /\ Finish(r, "cancelled")
    /\ UNCHANGED <<cacheVars, historyVars>>

Step(r) ==
    \/ Get(r)
    \/ LoadAlreadyDone(r) \/ LoadThrottled(r) \/ LoadStart(r)
    \/ Index(r)
    \/ RefreshSkipped(r) \/ RefreshStart(r)

Deliver(r) ==
    \/ Resume(r)
    \/ LoadSucceeds(r) \/ LoadFails(r)
    \/ RefreshSucceeds(r) \/ RefreshFails(r)

(* Time does not pass inside a synchronous section. *)
Environment ==
    /\ \/ LoopFree /\ Tick
       \/ Publish
       \/ Answer
       \/ Break
    /\ UNCHANGED <<lockVars, cacheVars, taskVars, historyVars>>

Next ==
    \/ \E r \in Tasks : Call(r) \/ Step(r) \/ Deliver(r) \/ Cancel(r)
    \/ Environment

Spec == Init /\ [][Next]_vars

(* The event loop runs a synchronous section to its end and serves ready   *)
(* tasks first come first served; the request timeout ends every fetch.    *)
Fairness ==
    /\ \A r \in Tasks : WF_vars(Step(r)) /\ SF_vars(Deliver(r))
    /\ WF_vars((Answer \/ Break) /\ UNCHANGED <<lockVars, cacheVars, taskVars, historyVars>>)

FairSpec == Spec /\ Fairness
-----------------------------------------------------------------------------
(* At most one request is outstanding at the issuer, and the task that     *)
(* sent it holds _cache_lock: the waiters behind it reuse its result.      *)
OneFetchAtATime ==
    /\ \A r, s \in Tasks : phase[r] # "none" /\ phase[s] # "none" => r = s
    /\ \A r \in Tasks : phase[r] # "none" => holder = r

(* A fetch that was slow never puts an older key set over a newer one.     *)
CacheMovesForward == [][cache' # 0 => cache' >= cache]_vars

(* The issuer sees no three fetches start within one interval: loads and   *)
(* refreshes each have one budget ("a refresh runs at most once per        *)
(* min_refresh_interval; a failed load is remembered for the same          *)
(* interval", docs/USAGE.md:225).                                          *)
FetchRate == [][sent' # sent => ~Recent(sent[1])]_vars

Ends(r, v) == pc[r] # "idle" /\ pc'[r] = "idle" /\ outcome' = v

(* A rotated key is picked up: a request is told its key is unknown only   *)
(* if the issuer was without that key at some moment since one interval    *)
(* before it asked, or the last refresh failed.                            *)
RotationPickedUp ==
    [][\A r \in Tasks :
          Ends(r, "unknown_kid") /\ refreshOk =>
             \E v \in InForceSince(asked[r] - MinRefreshInterval) :
                ~Indexable(issued[v].doc) \/ kid[r] \notin issued[v].doc]_vars

(* A request fails with JwksError only for a recent reason: a fetch failed *)
(* less than one interval ago, or the issuer published an unusable document*)
(* at some moment since one interval before the request was made           *)
(* (base_models.py:647: "Recovery is delayed by at most that interval").   *)
RecoveryBound ==
    [][\A r \in Tasks :
          Ends(r, "jwks_error") =>
             \/ Recent(brokenAt')
             \/ \E v \in InForceSince(asked[r] - MinRefreshInterval) : ~Indexable(issued[v].doc)]_vars

(* What is under way on behalf of all requests together, and since when. *)
Attempt ==
    IF \E r \in Tasks : pc[r] = "loadFetch" THEN "load"
    ELSE IF \E r \in Tasks : pc[r] = "refreshFetch" THEN "refresh" ELSE "none"

Began == IF holder # None /\ pc[holder] = "loadFetch" THEN started[holder] ELSE 0

Abstract == INSTANCE LoadedCopy WITH
    Interval <- MinRefreshInterval,
    copy <- cache,
    lastFailure <- lastFailedLoad,
    attempt <- Attempt,
    began <- Began

(* Any number of requests that load, wait, refresh, fail and are cancelled *)
(* leave the issuer and the cache no more than one careful user would:     *)
(* the lock, the second look under it and the two throttles add up to the  *)
(* copy of LoadedCopy (base_models.py:622-719).                            *)
RefinesLoadedCopy == Abstract!Spec

(* Every request is answered: nobody waits for the lock forever, whatever  *)
(* fails or is cancelled before it.                                        *)
EveryCallReturns == \A r \in Tasks : pc[r] # "idle" ~> pc[r] = "idle"
-----------------------------------------------------------------------------
(* The inductive invariants behind the properties above. *)

Locked == {"load", "refresh"} \cup Fetching

Waiters == {r \in Tasks : pc[r] \in Waiting}

(* Who holds the lock and who waits for it is told by the control points. *)
LockOK ==
    /\ QueueOf(queue, Waiters)
    /\ \A r \in Tasks : holder = r <=> pc[r] \in Locked

(* Requests are outstanding for the tasks that await one.  An answer is no *)
(* older than the cache and was in force during the last refresh or after. *)
FetchOK ==
    \A r \in Tasks :
       /\ phase[r] # "none" <=> pc[r] \in Fetching
       /\ phase[r] = "answered" =>
             /\ answer[r] \in 1..Latest
             /\ answer[r] >= cache
             /\ lastRefresh # None => answer[r] \in InForceSince(lastRefresh)

(* No time lies in the future; a request that has refreshed relies on a    *)
(* refresh less than one interval older than the request.                  *)
TimeOK ==
    /\ lastRefresh # None => lastRefresh <= clock
    /\ \A r \in Tasks : asked[r] <= clock
    /\ \A r \in Tasks : pc[r] = "idle" => ~again[r]
    /\ \A r \in Tasks : pc[r] = "refreshFetch" \/ again[r] =>
          lastRefresh # None /\ lastRefresh > asked[r] - MinRefreshInterval

(* After a refresh that succeeded, what is cached was in force since it.   *)
CopyOK ==
    refreshOk /\ lastRefresh # None /\ cache # 0 => cache \in InForceSince(lastRefresh)

IInv == TypeOK /\ LockOK /\ FetchOK /\ TimeOK /\ CopyOK

(* An answer to a load was in force during the load. *)
LoadOK ==
    \A r \in Tasks :
       pc[r] = "loadFetch" /\ phase[r] = "answered" => answer[r] \in InForceSince(started[r])

(* The failure that throttles loads is no later than the last failure. *)
FailureOK ==
    /\ brokenAt # None => brokenAt <= clock
    /\ lastFailedLoad # None => brokenAt # None /\ lastFailedLoad <= brokenAt
    /\ \A r \in Tasks : started[r] <= clock

(* With usable documents only, a request that came out of aget_as_jwks     *)
(* finds a key set, and a load is under way only while nothing is cached.  *)
UsableOK ==
    \A r \in Tasks :
       /\ pc[r] \in {"index", "refresh", "refreshWait", "refreshFetch"} => cache # 0
       /\ pc[r] = "loadFetch" => cache = 0

(* If, besides, nobody is cancelled: before the first success every fetch  *)
(* is a load, after it every fetch is a refresh, and each kind is          *)
(* throttled by the start of the one before.                               *)
BudgetOK ==
    /\ sent[1] # None => sent[2] # None /\ sent[1] <= sent[2]
    /\ sent[2] # None => sent[2] <= clock
    /\ cache = 0 => lastRefresh = None
    /\ cache = 0 /\ (\A r \in Tasks : pc[r] \notin Fetching) => sent[2] = lastFailedLoad
    /\ lastRefresh # None => sent[2] = lastRefresh
    /\ lastRefresh = None /\ sent[1] # None => sent[2] - sent[1] >= MinRefreshInterval
    /\ \A r \in Tasks : pc[r] = "loadFetch" => sent[2] = started[r]
=============================================================================
