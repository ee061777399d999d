# authentikate: models, checks and proofs

authentikate authenticates the requests of a Django service that speaks GraphQL:
it verifies a bearer token against the keys of the issuer that signed it, checks
the issuer's revocation list, mirrors what the token says into the service's
database, and guards fields by scopes and roles. This directory holds TLA+
modules of that code (`src/authentikate/`), the TLC configurations that check
them, and proofs that TLAPS checks.

## The system

| component | state it keeps | operations | hard part |
|---|---|---|---|
| JWKS cache (`base_models.py`, `JWKSUriIssuer`) | cached keys, times of the last refresh and of the last failed load, an `asyncio.Lock` | resolve a kid: load, refresh, index | many requests at once, throttles, failed and cancelled fetches |
| Revocation list (`revocation.py`) | cached list, time of the last attempt, a lock | `ais_revoked` | the same, and staleness while a fetch is under way |
| Token expansion (`expand.py`, `models.py`) | rows: organizations, users, memberships, clients, devices, releases | `aexpand_token_context` | no transaction: races between requests and with an operator |
| Authentication funnel (`utils.py`, `decode.py`) | none | header or static token to `JWTToken` | order of the gates; which of many exceptions is caught by which clause |
| Blocking calls (`_run_blocking`, `decode_token`, `is_revoked`) | the caches and locks above | each call runs the coroutine in an event loop of its own | threads share an `asyncio.Lock` that belongs to one loop |
| Guests (`scoped.py`) | `_enforced` | `enforce_scoped`, `check_scoped_token`, `full_members_only` | the mode is read twice, with awaits between |
| GraphQL extension (`strawberry/extension.py`, `vars.py`) | context variables, what is attached to a request | `on_operation`, `on_validate`, `on_execute` | a WebSocket shares one request between operations; every way an operation ends |
| Provenance (`provenance/`) | its issuers' key caches | verify a provenance token and its actor | failing closed |
| Field authorization (`strawberry/directives.py`, `catch_alls.py`) | the declared catch-alls | `check` | a chain of tests over six requirements and two kinds of tokens |
| Issuers (`base_models.py`: `JWKSUriIssuer`, `RSAKeyFileIssuer`, `JWKIssuer`, `RSAKeyIssuer`) | those of a uri a cache, each a revocation list | `_find_issuer`, `get_as_jwks` | shared key ids, two trust domains, files that cannot be read |
| Errors (`errors.py`) | none | translation to codes | a refusal must tell "log in again" from "not allowed" and from "not your fault" |
| Settings, GraphQL types, migrations, test project | settings, cached once | validation | none that a model reaches |

A GraphQL operation goes through them in this order: `on_operation` takes the
credentials from the HTTP headers or the WebSocket's connection parameters,
`authenticate_token` looks for a static token or decodes a signed one (key cache,
signature, claims, revocation list), then come the organization allow-list and
the gate for guests, then expansion writes rows and refuses a blocked member, then
provenance is verified, and after parsing `on_validate` keeps guests read-only.
Resolvers read the context variables and the request, and each field runs
`check`. Synchronous views take the same way through blocking twins. The calls share
state in three places: the caches of an issuer, the database, and the request of a
WebSocket connection.

What makes each correct, in short: *key cache* - one fetch at a time, not faster
than the throttle, a rotated key is found, recovery is bounded; *revocation list* -
the same bounds, and a refused token stays refused; *expansion* - rows and context
say what the token says whoever else is writing, a block holds; *operation* - every
operation is authenticated anew and sees its own user, nothing is written for what
is not admitted, guests only read, provenance fails closed; *fields* - a guest's
roles mean nothing, catch-alls only widen, refusals name what is missing; *decoding* -
a token is accepted on a key of the issuer it names and of no other, a sound token is
refused only for a cause that can be named, exceptions of other libraries get out in the
named cases only, and calls end.

## Modules

| module | models | notes |
|---|---|---|
| `AsyncLock` | `asyncio.Lock` | external; FIFO, a cancelled waiter leaves the queue |
| `IssuerEndpoint` | the issuer behind HTTP, and the clock | external; publishes documents, answers with one that was in force while the request was outstanding, or fails |
| `JwksCache` | `JWKSUriIssuer`, `_aresolve_issuer_key_set` | extends both, implements `LoadedCopy` |
| `LoadedCopy` | - | abstract: one copy that is loaded when it is missing, refreshed within a budget, and never goes back |
| `ThrottledCopy` | - | abstract: a copy, fetched at most once an interval, that only moves forward |
| `RevocationList` | `RevocationList`, `_revocation_subject` | extends `AsyncLock` and `IssuerEndpoint`, implements `ThrottledCopy` |
| `Expansion` | `aexpand_token_context`, the tables, the admin | one action per statement on the rows it keeps, implements `Admission` |
| `Admission` | - | abstract: a request is admitted or refused at one moment, on the block that holds then |
| `AuthChecks` | `_AuthChecks.check`, the helpers of `JWTToken`, `catch_alls.py` | one operator per helper |
| `Operation` | `on_operation`, `on_validate`, `utils.py`, `decode.py`, `scoped.py`, the order of provenance | one action from one await to the next; keys, list and expansion are each one step that may go either way |
| `LoopLock` | `asyncio.Lock` shared by the event loops of several threads | external; binds to the first loop that has to wait, may lose a wake-up |
| `BlockingIssuer` | the issuers, `_run_blocking`, `_resolve_issuer_key_set`, `RevocationList.is_revoked` | extends `LoopLock` |
| `Errors` | `errors.py` | the classes, who is a subclass of whom, the codes |
| `Decode` | `decode_token`, `decode_provenance_token`, `verify.py` | extends `BlockingIssuer` and `Errors`: threads verify tokens of several issuers |
| `*Proofs` | - | theorems about the module they extend |
| `MC*` | - | the sets TLC is given |

In `JwksCache` and `RevocationList` an `async def` runs without giving way until it
awaits, so `pc` says for each request which synchronous section it is in
(`Running`) or what it awaits; `LoopFree` lets no other request move while one is in
such a section. The lock's queue decides who goes on. A document is the set of key ids
it offers (or the ids it revokes); `{}` is a value by which a lookup comes to nothing, `None` the
document `{"keys": null}`. `JwksCache` does not tell a list that `_index_issuer_keys` refuses from one that it,
or `import_key_set`, trips over (`BlockingIssuer` does), and lets go of the lock in the step that
stores the answer, though the HTTP client is closed in between (`base_models.py:703-709`); the lock
is held all the while, so that only a request that finds the keys cached could come between. Times are read from one clock that ticks at any time.
The histories (`sent`, `refreshOk`, `brokenAt`, `asked`, `attemptOk`, `failed`,
`refusedBy`, `outcome`) are read by properties only.

In `Expansion` each ORM call (`aget`, `aget_or_create`, `asave`, `aupdate_or_create`)
is atomic, as one SQL statement or one Django-internal transaction is, and anything
may happen between two of them. Rows have primary keys because `asave` of a user that
was deleted inserts it again, while `asave(update_fields=...)` of a client that was deleted fails, also
when another request has created it anew. `ResolveRelations` creates the rows a token refers to one step
at a time, app, release, device; where a row is there already finding it is no step of its own, since apps,
releases and devices are never deleted in the model (in the admin they can be: a release or a device
that goes leaves NULL in the client's row). The operator of the admin and of the host application
blocks, unblocks and deletes. `claims` stands for the profile and the roles.

In `Decode` a thread makes one call after another, chosen from its part of a
*workload*; each call runs in an event loop of its own, so `LoopLock` needs no names for
loops, only whether the lock is bound to one (`bound`). CPython's lock
binds itself when somebody has to wait; whoever has to wait afterwards is in another loop
and gets `RuntimeError`. `release()` wakes the waiter with `call_soon`, which a loop that
is already asleep in `select()` does not notice: that thread is lost (`asleep`) though
its future is done. A bound lock is no longer exclusive either: between finding it
free and taking it (`take`) a thread may be preempted, and a second `release()` raises.
Time is reduced to whether an interval is over, since the bounds in seconds are the
business of `JwksCache` and `RevocationList`; a fetch is one step that succeeds or fails.
A token is its issuer, kid, signing key, jti and the first thing wrong with it
(`flaw`, an `exp` or `iat` that no `datetime` can represent among them); an exception is its class.
A document maps kids to keys. A lookup goes through all of it, so `ImportKeySet` and `LookUp` also say
what one bad entry does to the others: a key of an unknown type raises `JoseError`, an entry that is no
object `AttributeError` (`Trips`), and `decode_token` makes `InvalidJwtTokenError` of either. In `outcome` is how the call that ended in the last
step did so.

In `Operation` a token is told by where its verification ends; `stale` and `barred`
remember what was true of it before the operation began. `stop_enforcing` exists for
tests and is called between operations only. Of the connection parameters of a WebSocket only the strings are
handed over (`handed_over`, `extension.py:238-242`): something else in place of a provenance token counts as none.

In `AuthChecks` a refusal carries a reason and the list it names, as the error's extensions do. `check` asks for
all and for any of something in two tests, each with a refusal of its own; `Remedies` are the
ways to give a holder what one refusal names, and `RefusalsAreCurable` says that it then gets further.

## Runs

| run | shows | bounds |
|---|---|---|
| `jwks_throttle` | refinement of `LoadedCopy`, throttle, rotation, recovery | 2 requests, 2 kids, interval 2, clock to 4, 2 documents (one replaces the other) |
| `jwks_lock` | one fetch at a time, no lost wake-up, with cancellation | 3 requests, interval 1, clock to 1 |
| `jwks_poisoned` | **fails**: a document that cannot be indexed is never replaced | as the first |
| `revocation` | refinement of `ThrottledCopy`, staleness, finality, liveness | 3 checks, interval 1, clock to 2, 2 lists (one replaces the other) |
| `revocation_unnoticed` | **fails**: during a refresh the old copy answers past the interval | 2 checks |
| `expansion` | refinement of `Admission`, rows, context, hash, block, devices and releases under races | 2 requests of one user and one client, 2 organizations, 2 profiles, 3 keys, 1 deletion and 1 block or unblock, or 3 of the latter |
| `expansion_active` | **fails**: "currently acting in" | 1 request, 1 deletion |
| `auth_checks` | every token against every field | 1 scope, 2 roles, at most 2 of the 6 requirements |
| `operation` | an operation's life | 2 operations, 1 connection, 5 tokens, 4 configurations, 2 changes of the world |
| `decode` | whose keys count, what a refusal means, what gets out, that calls end | 2 threads, 6 issuers of 3 kinds in 2 domains, 3 workloads |
| `decode_contended` | **fails**: "when the issuer is untrusted, or the signature or claims are invalid" | 2 threads, 1 token, keys that never change |
| `decode_or_none` | **fails**: "never raises on a bad token" | 2 threads, provenance tokens with every flaw |

Why the bounds are enough. The races of the caches need a request that fetches, one
that waits for it and, for wake-ups, a third behind it; an interval of 2 with a clock to 4
has a time before, at and after its end. Expansion's races are between pairs of
queries. `MaxEdits` counts a deletion as two, so that one deletion and one block or
unblock may fall between any of them, in either order, and a row that was deleted comes
back under another key; three keys are as many as that can use up in a table, so the
bound on them never stops a request. Two deletions beside one another are left to the
theorems, which hold for any number of edits.
A field's requirements are tested one after another, so two of them meet in
every order; more roles would repeat what two tell apart. Operations share state only
through one WebSocket's request and through contexts; a connection is closed and opened
again with other credentials, which is why one suffices. Two changes of the world let
a membership be blocked and unblocked, or a token expire under a blocked one.

The workloads of `decode` pair what can meet: two threads that contend for the keys of
one issuer, two that contend for one revocation list, and one that fetches while the
other makes every kind of call that needs no lock. A third thread would find the lock
bound, as the second one of them does. The issuers use the same key ids, one of them rotates and
once publishes what cannot be indexed, one has a key file that is not there, one a key
of no known type beside its own, and one an entry that is no object.

The runs that fail each violate one sentence of the repository (see "findings" in
`PROJECT.json` for the line and the quotation); for each a theorem gives
conditions under which the sentence is true, and every condition excludes something that makes it untrue:

| run that fails | property | true, by theorem, where |
|---|---|---|
| `jwks_poisoned` | `RecoveryBound` | every document can be indexed (`Recovery`) |
| `revocation_unnoticed` | `NoticedWithinInterval` | checks come one at a time and none is cancelled (`NoticedAlone`; failed fetches are excepted in the property) |
| `expansion_active` | `ActiveOrganization` | no organization is ever deleted (`ActiveUnlessDeleted`) |
| `decode_contended` | `InvalidMeansInvalid` | no lock is shared by blocking calls, no document trips the key lookup (an unreadable file counts as one that does), no key is withdrawn (`InvalidIsInvalid`) |
| `decode_or_none` | `OrNoneNeverRaises` | every `exp` and `iat` of a provenance token can be represented (`OrNoneInRange`) |

Two theorems are exact about the race behind such a cause, without removing it:
`UnnoticedOnlyWhileRefreshing` says that where nothing is cancelled and no fetch has failed a
listed token gets past the interval only while another check's refresh is under way, and `SharingBreaks`
that a lock breaks only where two threads may come to it, neither from inside a running loop.

Four more facts are known and have no run. A load that is cancelled leaves no trace in the
throttle, so `FetchRate` is checked and proved without cancellation
(`Cancellable = FALSE`). And a client keeps the first device it was seen on although
`models.py:151` calls the column the one it was last seen on. The document
`{"keys": null}` is stored like any other and is no failure, so each request fetches again while it
is published; `FetchRate` assumes usable documents. And an issuer whose document holds one entry that is no object, or one key of
a type `import_key_set` does not know, has all its tokens refused with `InvalidJwtTokenError`
(`decode.py:178`), though `errors.py:142` says that reporting an unusable JWKS "as a denial would tell the
client to re-authenticate against a problem no credential can fix"; `DenialsHaveCauses` lists it as one of the causes of a denial.

## Fairness

`jwks_lock`, `revocation` and `decode` check liveness. The first two assume weak fairness
of each request's own steps and of the issuer, which answers or breaks off: asyncio runs every task that is
ready, and an HTTP request ends because `httpx` is given `request_timeout`. They assume strong fairness
of the delivery of an answer or a wake-up to a request (`Deliver`). `Deliver` is enabled only while no other task is in
a synchronous section, so it may be disabled and enabled again for ever; asyncio's queue of ready tasks is first
in, first out, and who is in it gets its turn. `decode` assumes weak fairness of each thread: the
operating system schedules it, and its fetches end by the same timeout. It does not
assume that a lost wake-up is made good: `CallsReturn` excepts the thread it happened to,
and `OneLostPerLock` says that there is at most one for each lock. Nothing is assumed of
the issuers, of cancellation or of the clock.

## Proofs

`JwksCacheProofs` and `RevocationListProofs` prove, for any number of requests, any
documents and any interval, what the runs check on small instances. The argument is one
inductive invariant for each module (`IInv`, a conjunction of named parts):

- `TypeOK`: types;
- `LockOK`: the holder is the one request inside the locked section, the queue is
  exactly the waiting requests without repetition;
- `FetchOK`: requests outstanding at the issuer are those of requests that await one,
  sent while they hold the lock;
- `TimeOK`: no recorded time is in the future, and each is at or before the events that
  depend on it;
- `CopyOK` / `ListOK`: how new the copy is, compared with when it was fetched and with
  what it refused.

`LockOK` is why one fetch is under way at a time; `FetchOK` with it is why an answer cannot
be older than the copy it replaces; `TimeOK` carries the throttle. The step lemmas
(`LockStep` and so on) have one step per action. Theorems with further assumptions state
them: `Recovery` that every document can be indexed (the case `jwks_poisoned` exhibits),
`ThrottledRetrieval` also that no request is cancelled.

`JwksCacheProofs!Refinement` proves that `JwksCache` implements `LoadedCopy`, and
`RevocationListProofs!Refinement` that `RevocationList` implements `ThrottledCopy`:
requests, lock, queue, failures and cancellations can be forgotten, and what is left is one
copy with at most one attempt at a time. The attempt of the abstract copy is the fetch of
the request that holds the lock (`Attempt`); a step of anybody else maps to a
stutter because of `LockOK`, and `LoadOK` (whoever loads found the copy missing, and it is missing still)
with `FailureOK` shows that an abstract load begins only when it may. That a document is
never replaced by an earlier one (`CacheForward`) is a corollary.
`UnfinishedOK` (a due list whose attempt is not finished is being refreshed) is what
`UnnoticedOnlyWhileRefreshing` adds to the invariant.

`OperationProofs` proves every property the run `operation` checks, for any number of
operations, connections, tokens, configurations and changes of the world. None of them
is inductive: what lets an operation run was established several awaits earlier. Its
`IInv` (stated at the end of `Operation`) says of each operation what has been
established where it is: `TokenOK` (the token is verified, and neither long expired nor,
past expansion, long blocked), `VarsOK` (which variables are set, and to what), `GatesOK`
(the gates it has passed still let it pass: enforcement only comes up, or goes down when
nothing is under way), `ProvenanceOK`. `ConnectionsOK` adds that only a WebSocket is
shared, and that what a request holds was put there by its own credentials; without it
an operation could undo what another was promised. The step lemmas for ending
(`EndStep`), for going on (`GoOnStep`, `Forward`) and for the world (`WorldStep`) carry
most actions.

`DecodeProofs` proves every safety property of `decode`, for any number of threads,
issuers, keys, documents and calls. The difficulty is that a bound lock excludes nobody,
so that little can be said by way of mutual exclusion. `IInv` (at the end of `Decode`)
therefore ties what goes wrong to the lock: `WaitersOK` (only a bound lock has a waiter),
`Exclusive` and `LockedOK` (of a lock that is not bound the holder is alone and it is
locked, so releasing it cannot fail), `CallOK` (past the hints the issuer is one of its
domain's; whoever asks a revocation list has shown a key its issuer publishes), `ResultOK` (what
each answer of the issuer is owed to) and `ListsOK`. `ResultOK` with `TypeOK`, which says that
every cache holds a document of its own issuer, gives `OwnIssuersKey`. `SharingBreaks` needs a
second invariant, `SharedOK`: a call at a lock is one of its thread's that may come to it
(`TakesOK`), and a lock that no two threads may come to is unbound and, when taken, has
its holder (`Alone`). Whoever found it taken would share it with the holder, so nobody joins its
waiters. `InvalidIsInvalid` follows from it and `DenialsExplained`.

`ExpansionProofs` proves every property of the run `expansion`, for any number of
requests, users, organizations, clients, tokens, rows and edits. What a request has read is
true only until somebody writes, so `IInv` (at the end of `Expansion`) says how much
survives: `MirrorOK` (a synchronised request's context mirrors its token for good, the
row only while the request is alone for its user), `RowsOK` (rows found or written stand
while nothing is deleted), `ColumnsOK` (each column the token names is filled or still
to be filled, and the client to be filled is the one that was read), `BarredOK` (a block stands until the operator lifts it), `AloneOK`,
`RequestOK` and `KeysOK` (keys are never used again: without it a row that came back
could be taken for the one that was read). `AdmissionIsAtomic` proves that `Expansion` implements
`Admission`, with the hash of a user's row as what the row mirrors: the moment of the decision is the
upsert of the membership, and everything before it only has to have mirrored the
user once. `ActiveUnlessDeleted` adds to `IInv` that no user's row and no
synchronised context is without an active organization (`KeepsActive`). The lemma `Others` shows once what a step of somebody
else may do to a request that stands still (`WorldOf`); each step lemma then answers for
the request that moves and for the tables.

`AuthChecksProofs` proves the properties of `auth_checks` for any scopes, roles, fields
and tokens. They speak of what `check` would answer to another token or with other
catch-alls, and follow from the order of its tests: `RefusalsCurable` goes through the refusals one by one and
shows that the list each carries, given to the holder, answers the test that refused it and undoes none before it.

The proofs assume of the constants what the modules name in their ASSUMEs. Only
model-checked: liveness (`EveryCallReturns`, `EveryCheckReturns`, `CallsReturn`), which is
out of the prover's reach, as induction over data would be. Every other property of
a passing run is a theorem.

## Not modelled

- `expand_*`, the synchronous twins of the expansion: the same queries in a thread.
  `refresh()` and `aget_as_jwks` called by a host application on its own are not calls of `Decode`.
- Cancellation in `Decode` (threads are not cancelled), and threads and tasks that share one
  issuer: the caches are modelled under each alone.
- The first `RevocationList` of an issuer, which two threads may both create
  (`base_models.py:415`): it costs one more fetch of a list that has refused nobody yet.
- Deletion of apps, releases and devices (`Expansion` creates them only).
- Cryptography, JSON, claims parsing: a token is what its verification says.
- Static tokens in `Decode` (they are in `Operation`), and a service without provenance
  settings, whose verification raises `ProvenanceNotConfiguredError` before anything else.
- The chain of actors and the hash of arguments of a provenance token
  (`provenance/models.py`, `canonical.py`): functions of one token, without state.
- `get_jwks` and `aget_jwks`, which merge the keys of all issuers: no verification uses
  them. `docs/USAGE.md:203` describes selection from that merged set by kid; the code selects
  the issuer first, and `OwnIssuersKey` is about the code.
- Settings validation, GraphQL types, migrations, the test project: no behaviour over time.
- `authenticate_*_or_none` of `utils.py`, which turn a refusal into `None`.

One more divergence is noted without a run: the docstring at `provenance/decode.py:73` gives
`InvalidProvenanceTokenError` for bad claims, while the shared `_validate_claims` raises
`InvalidJwtTokenError`; `ProvenanceIsNoLogin` shows that no client can tell where a
provenance token must hold.

## Plan

1. (done) the two caches, expansion, field authorization, operations, their proofs.
2. (done) blocking calls: threads over several issuers and the errors they raise, with
   proofs; abstract specifications of the key cache and of admission; for each run that fails
   the theorem that isolates its cause.
3. Composition: `Operation` with the fields of `AuthChecks`, so that what a field reads
   is what the operation attached; threads and tasks over one issuer.
4. The actor chain and `verify_args` of provenance, as operators over bounded inputs.
5. Proofs: a measure of each call that its own steps only bring down, which is the part of
   `EveryCallReturns`, `EveryCheckReturns` and `CallsReturn` that needs no fairness.
