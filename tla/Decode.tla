------------------------------- MODULE Decode -------------------------------
(***************************************************************************)
(* Verifying a signed token for a synchronous caller: decode_token         *)
(* (decode.py) for the auth tokens and decode_provenance_token             *)
(* (provenance/decode.py) for provenance tokens, by the threads of one     *)
(* process, over the issuers of BlockingIssuer.  Each of the two has its   *)
(* own list of trusted issuers.                                            *)
(*                                                                         *)
(* A token is told by what the steps ask of it: its iss, its kid, the key  *)
(* that signed it, its jti, and the first thing wrong with the rest.       *)
(***************************************************************************)
EXTENDS BlockingIssuer, Errors

CONSTANTS
    Trusted,  \* the issuers of each domain: "auth" and "provenance"
    Workloads \* the calls each thread may come to make

Domains == {"auth", "provenance"}

(* "header": the segments or the hints; "claims": any registered claim but *)
(* exp, "aud" in a provenance token; "shape": the model refuses the claims;*)
(* "exp_range", "iat_range": an exp far ahead, an iat far back, which the  *)
(* claims pass, for which fromtimestamp() has no year and raises OSError.  *)
Unrepresentable == {"exp_range", "iat_range"}
Defects == {"header", "algorithm", "expired", "claims", "shape", "aud"} \cup Unrepresentable
Flaws == Defects \cup {None}

AnyCall == UNION {w[t] : w \in Workloads, t \in Threads}

ASSUME NoneIsNoDefect == None \notin Defects
ASSUME TrustedAssumption == Trusted \in [Domains -> SUBSET Issuers]
ASSUME CallsAssumption ==
    \A c \in AnyCall :
       c # None /\ c.domain \in Domains /\ c.inLoop \in BOOLEAN /\ c.token.flaw \in Flaws

(* The workload of this process. *)
VARIABLE workload

(* How the call that ended in the last step did so; read by the properties only. *)
VARIABLE outcome

vars == <<lockVars, worldVars, cacheVars, pc, call, section, again, result, keys, workload, outcome>>

Steps == LockSteps \cup {"idle", "hints", "get", "resolved", "ask", "look", "answered"}
Verdicts == {"none", "accepted"} \cup PermissionsDenied \cup AuthentikateErrors \cup ForeignErrors

TypeOK ==
    /\ IssuerTypeOK
    /\ pc \in [Threads -> Steps]
    /\ call \in [Threads -> AnyCall \cup {None}]
    /\ \A t \in Threads : call[t] = None <=> pc[t] = "idle"
    /\ workload \in Workloads
    /\ outcome \in Verdicts

Init ==
    /\ IssuerInit
    /\ pc = [t \in Threads |-> "idle"]
    /\ call = [t \in Threads |-> None]
    /\ workload \in Workloads
    /\ outcome = "none"
-----------------------------------------------------------------------------
Finish(t, v) ==
    /\ Goto(t, "idle")
    /\ outcome' = v
    /\ call' = [call EXCEPT ![t] = None]
    /\ section' = [section EXCEPT ![t] = None]
    /\ again' = [again EXCEPT ![t] = FALSE]
    /\ result' = [result EXCEPT ![t] = None]
    /\ keys' = [keys EXCEPT ![t] = None]
    /\ UNCHANGED <<lockVars, worldVars, cacheVars, workload>>

Proceed(t, l) ==
    /\ GoOn(t, l)
    /\ outcome' = "none"
    /\ UNCHANGED <<lockVars, worldVars, cacheVars, call, section, again, workload>>

Begin(t, c) ==
    /\ pc[t] = "idle"
    /\ Goto(t, "hints")
    /\ call' = [call EXCEPT ![t] = c]
    /\ outcome' = "none"
    /\ UNCHANGED <<lockVars, worldVars, cacheVars, section, again, result, keys, workload>>

(* Mutant: the issuers of both domains are searched. *)
FindIssuerAnywhere(c) == c.token.iss \in Trusted["auth"] \cup Trusted["provenance"]

(* _find_issuer *)
FindIssuer(c) == c.token.iss \in Trusted[c.domain]

(* _select_key_hints, before any key is fetched. *)
SelectIssuer(t) ==
    /\ pc[t] = "hints"
    /\ \/ call[t].token.flaw = "header" /\ Finish(t, "MalformedJwtTokenError")
       \/ call[t].token.flaw # "header" /\ ~FindIssuer(call[t]) /\ Finish(t, "InvalidJwtTokenError")
       \/ call[t].token.flaw # "header" /\ FindIssuer(call[t]) /\ Proceed(t, "get")

Invalid(c) == IF c.domain = "auth" THEN "InvalidJwtTokenError" ELSE "InvalidProvenanceTokenError"
Malformed(c) == IF c.domain = "auth" THEN "MalformedJwtTokenError" ELSE "MalformedProvenanceTokenError"

(* Mutants of Caught: one clause for every exception; the other clause gone. *)
CaughtAll(c, e) == Invalid(c)
CaughtOwn(c, e) == e

(* The two `except` clauses around key resolution and signature. *)
Caught(c, e) == IF e \in AuthentikateErrors THEN e ELSE Invalid(c)

(* The signature verifies under the key that the key set has for the kid. *)
Verifies(t) ==
    /\ call[t].token.kid \in DOMAIN keys[t]
    /\ keys[t][call[t].token.kid] = call[t].token.signer
    /\ call[t].token.flaw # "algorithm"

(* JWTToken, or _build_token and _check_audience.  coerce_unix_to_datetime *)
(* converts exp and iat; OSError is no ValueError, so pydantic lets it     *)
(* through.                                                                *)
Built(c) ==
    CASE c.token.flaw \in Unrepresentable -> "OSError"
      [] c.token.flaw = "shape" -> Malformed(c)
      [] c.token.flaw = "aud" -> "ProvenanceAudienceError"
      [] OTHER -> "accepted"

Revocable(c) == c.domain = "auth" /\ c.token.iss \in Revoking

(* jwt.decode, _validate_claims (which both domains share) and             *)
(* _revocation_subject: all that is asked of the token itself.             *)
Verify(t) ==
    LET c == call[t]
        valid == result[t] = "keys" /\ Verifies(t)
    IN
    /\ pc[t] = "resolved"
    /\ \/ result[t] # "keys" /\ Finish(t, Caught(c, result[t]))
       \/ result[t] = "keys" /\ ~Verifies(t) /\ Finish(t, Invalid(c))
       \/ valid /\ c.token.flaw = "expired" /\ Finish(t, "AuthentikateTokenExpired")
       \/ valid /\ c.token.flaw = "claims" /\ Finish(t, "InvalidJwtTokenError")
       \/ /\ valid /\ c.token.flaw \notin {"expired", "claims"}
          /\ \/ ~Revocable(c) /\ Finish(t, Built(c))
             \/ Revocable(c) /\ c.token.jti = None /\ Finish(t, "MalformedJwtTokenError")
             \/ Revocable(c) /\ c.token.jti # None /\ Proceed(t, "ask")

(* What is_revoked answers or raises stands outside any `try`. *)
HeedRevocation(t) ==
    /\ pc[t] = "answered"
    /\ \/ result[t] = "listed" /\ Finish(t, "TokenRevokedError")
       \/ result[t] = "unlisted" /\ Finish(t, Built(call[t]))
       \/ result[t] \notin {"listed", "unlisted"} /\ Finish(t, result[t])

Run(t) ==
    \/ SelectIssuer(t)
    \/ UseIssuer(t) /\ outcome' = "none" /\ UNCHANGED workload
    \/ Verify(t) \/ HeedRevocation(t)

Environment(i) ==
    /\ Publish(i) \/ IntervalEnds(i)
    /\ outcome' = "none"
    /\ UNCHANGED <<pc, call, section, again, result, keys, workload>>

Next ==
    \/ \E t \in Threads : Run(t) \/ \E c \in workload[t] : Begin(t, c)
    \/ \E i \in Issuers : Environment(i)

Spec == Init /\ [][Next]_vars

(* Every thread is scheduled, and the request timeout ends every fetch.    *)
FairSpec == Spec /\ \A t \in Threads : WF_vars(Run(t))
-----------------------------------------------------------------------------
(* aauthenticate_provenance_header_or_none and _or_raise catch the same.   *)
(* They await the twin of decode_provenance_token, which has its clauses;  *)
(* over issuers that fetch nothing the twins take the same steps.          *)
Handled(e) == e \in JwtTokenErrors \cup {"AuthentikateTokenExpired", "ProvenanceNotConfiguredError", "JwksError"}

(* Mutant of or_raise: only the provenance errors are caught. *)
or_raise_own(v) == IF v \in ProvenanceTokenErrors THEN "ProvenanceValidationError" ELSE v

or_raise(v) == IF Handled(v) THEN "ProvenanceValidationError" ELSE v
or_none(v) == IF Handled(v) THEN "none" ELSE v
-----------------------------------------------------------------------------
Ends(t, V) == pc[t] # "idle" /\ pc'[t] = "idle" /\ outcome' \in V

(* This document has this key under this kid. *)
Under(d, k, key) == k \in DOMAIN d /\ d[k] = key

(* The issuer of a token may at some time publish the key that signed it,  *)
(* under the kid it names.                                                 *)
Published(c) ==
    \E d \in Documents[c.token.iss] \ NoDocument : Under(d, c.token.kid, c.token.signer)

(* Nothing is wrong with the token itself. *)
Sound(c) == c.token.iss \in Trusted[c.domain] /\ Published(c) /\ c.token.flaw = None

(* A token is accepted only on the signature of a key that the issuer it   *)
(* names publishes under the kid it names, and only from an issuer of its  *)
(* own domain, though issuers share kids, keys are rotated and the threads *)
(* fill and refresh the caches together (base_models.py:723 and :894).     *)
OwnIssuersKey ==
    [][\A t \in Threads :
          Ends(t, {"accepted"}) =>
             call[t].token.iss \in Trusted[call[t].domain] /\ Published(call[t])]_vars

(* What the issuer publishes makes the key lookup raise an exception that  *)
(* is not the library's own: an unreadable key file, an entry that is no   *)
(* object, a key that import_key_set does not know, whatever the others.   *)
Trips(d) == d \in NoDocument \/ ~Importable(d)

(* A sound token is denied, that is answered with a code that asks for     *)
(* other credentials, only because its key or its jti is off or on a list  *)
(* the issuer gave, the key lookup trips over a document of its issuer, or *)
(* its issuer's lock has been contended for by two loops.  Any other       *)
(* failure at the issuer is no denial, as errors.py:142 wants it of all,   *)
(* and trouble with one issuer is not another's.                           *)
DenialsHaveCauses ==
    [][\A t \in Threads :
          Ends(t, PermissionsDenied) /\ Sound(call[t]) =>
             LET i == call[t].token.iss IN
             \/ outcome' = "TokenRevokedError" /\ call[t].token.jti \in revocations[i]
             \/ outcome' = "MalformedJwtTokenError" /\ call[t].token.jti = None
             \/ \E d \in Documents[i] : Trips(d)
             \/ \E d \in Documents[i] : Indexed(d) /\ ~Under(d, call[t].token.kid, call[t].token.signer)
             \/ bound[<<i, "keys">>]]_vars

(* An exception that is not the library's own leaves it only where a list  *)
(* is asked for inside a running loop, where two loops contended for the   *)
(* list, or where exp or iat cannot be represented.                        *)
ForeignErrorsHaveCauses ==
    [][\A t \in Threads :
          Ends(t, ForeignErrors) =>
             \/ call[t].token.flaw \in Unrepresentable
             \/ /\ call[t].domain = "auth" /\ call[t].token.iss \in Revoking
                /\ call[t].inLoop \/ bound[<<call[t].token.iss, "revoked">>]]_vars

(* At most one thread per lock is ever lost to a wake-up that its loop did *)
(* not notice: the lock is bound by then, and the others are turned away.  *)
OneLostPerLock ==
    \A t, u \in Threads :
       pc[t] = "asleep" /\ pc[u] = "asleep" /\ LockOf(t) = LockOf(u) => t = u

(* Every call is answered but for those lost threads: also while the lock  *)
(* of its issuer is stuck, and whatever fails.                             *)
CallsReturn == \A t \in Threads : pc[t] # "idle" ~> pc[t] \in {"idle", "asleep"}

(* Where a provenance token must hold, whatever is wrong with it is a      *)
(* matter of permission and no reason to log in again, though half of its  *)
(* checks are those of the auth token (errors.py:161).                     *)
ProvenanceIsNoLogin ==
    [][\A t \in Threads :
          call[t] # None /\ call[t].domain = "provenance" /\ pc'[t] = "idle" =>
             Code(or_raise(outcome')) # "UNAUTHENTICATED"]_vars

(* "InvalidJwtTokenError: When the issuer is untrusted, or the signature   *)
(* or claims are invalid" (decode.py:163).                                 *)
InvalidMeansInvalid ==
    [][\A t \in Threads : Ends(t, {"InvalidJwtTokenError"}) => ~Sound(call[t])]_vars

(* or_none "never raises on a bad token" (provenance/verify.py:133).       *)
OrNoneNeverRaises ==
    [][\A t \in Threads :
          call[t] # None /\ call[t].domain = "provenance" /\ pc'[t] = "idle" =>
             or_none(outcome') \in {"accepted", "none"}]_vars
(* A call may come to this lock: it is not made inside a running loop, and *)
(* the issuer fetches what the lock guards.                                *)
Takes(c, l) ==
    /\ c.token.iss = l[1] /\ ~c.inLoop
    /\ IF l[2] = "keys" THEN kind[l[1]] = "jwks_uri" ELSE Revocable(c)

(* Two threads have calls that may come to this lock. *)
Shared(w, l) ==
    \E t, u \in Threads : t # u /\ (\E c \in w[t] : Takes(c, l)) /\ \E c \in w[u] : Takes(c, l)

(* A lock breaks, for good, only where two threads make blocking calls to  *)
(* one issuer: one thread, calls inside a running loop and issuers that    *)
(* fetch nothing never break one (base_models.py:607, revocation.py:98).  *)
OnlySharedLocksBreak == \A l \in Locks : bound[l] => Shared(workload, l)
-----------------------------------------------------------------------------
(* The inductive invariant. *)

Holds(t) == pc[t] \in {"locked", "fetch"}
Waits(t) == pc[t] \in {"waiting", "asleep"}
InList(t) == pc[t] \in {"ask", "look", "answered"} \/ (pc[t] \in LockSteps /\ section[t] = "revoked")

(* A lock that is not bound to a loop yet works: its holder has it alone.  *)
LockedOK(t) ==
    /\ Waits(t) => waiter[LockOf(t)] = t
    /\ pc[t] = "take" => bound[LockOf(t)]
    /\ Holds(t) => locked[LockOf(t)] \/ bound[LockOf(t)]

Exclusive ==
    \A t, u \in Threads :
       Holds(t) /\ Holds(u) /\ LockOf(t) = LockOf(u) => t = u \/ bound[LockOf(t)]

WaitersOK == \A l \in Locks : waiter[l] # None => bound[l]

ListsOK == \A i \in Issuers : listed[i] \subseteq revocations[i]

(* What is established of a call where it is. *)
CallOK(t) ==
    /\ pc[t] \notin {"idle", "hints"} => Iss(t) \in Trusted[call[t].domain]
    /\ pc[t] \in LockSteps => section[t] \in {"load", "refresh", "revoked"}
    /\ pc[t] \in {"idle", "hints", "get", "resolved"} => section[t] # "revoked"
    /\ InList(t) => Revocable(call[t]) /\ Published(call[t])

(* What an answer of the issuer is owed to. *)
ResultOK(t) ==
    /\ pc[t] = "resolved" =>
          \/ result[t] = "keys" /\ keys[t] \in Documents[Iss(t)] /\ Indexed(keys[t])
          \/ result[t] = "RuntimeError" /\ bound[<<Iss(t), "keys">>]
          \/ /\ result[t] \in {"OSError", "AttributeError", "JoseError"}
             /\ \E d \in Documents[Iss(t)] : Trips(d)
          \/ result[t] = "JwksError"
    /\ pc[t] = "answered" =>
          \/ result[t] = "listed" /\ call[t].token.jti \in revocations[Iss(t)]
          \/ result[t] = "unlisted"
          \/ result[t] = "RuntimeError" /\ (call[t].inLoop \/ bound[<<Iss(t), "revoked">>])

ThreadOK(t) == LockedOK(t) /\ CallOK(t) /\ ResultOK(t)

IInv == TypeOK /\ WaitersOK /\ Exclusive /\ ListsOK /\ \A t \in Threads : ThreadOK(t)

(* A call at a lock is one that may come to it, and a lock that is not     *)
(* shared is free but for its holder, so that nobody has to wait.          *)
TakesOK(t) ==
    /\ call[t] # None => call[t] \in workload[t]
    /\ pc[t] \in LockSteps => Takes(call[t], LockOf(t))

Alone(l) ==
    /\ ~bound[l]
    /\ locked[l] => \E t \in Threads : Holds(t) /\ LockOf(t) = l
    /\ \A t \in Threads : pc[t] = "join" => LockOf(t) # l

SharedOK == /\ \A t \in Threads : TakesOK(t)
            /\ \A l \in Locks : Shared(workload, l) \/ Alone(l)
=============================================================================
