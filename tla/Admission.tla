------------------------------ MODULE Admission ------------------------------
(***************************************************************************)
(* What expanding tokens promises, whoever else is at work: every request  *)
(* is admitted or refused at one moment, by the membership as it stands at *)
(* that moment, and whichever it is, the membership takes over the roles   *)
(* of its token then and keeps its block.  Before it is answered so, there *)
(* has been a moment at which the user's row mirrored this token.  A       *)
(* request that fails leaves the membership alone, and only the operator   *)
(* blocks, unblocks and removes.                                           *)
(***************************************************************************)
CONSTANTS Requests, Subs, Orgs, Tokens, None

VARIABLES
    presented,    \* the token of each request that is not answered yet, or None
    mirrored,     \* the requests whose token the user's row has mirrored
    answer,       \* to the request that was answered in the last step
    mirror,       \* by sub: what the user's row mirrors, None without a row
    memberships   \* by sub and organization: [blocked, roles], or None

admissionVars == <<presented, mirrored, answer, mirror, memberships>>

Init ==
    /\ presented = [r \in Requests |-> None]
    /\ mirrored = {}
    /\ answer = "none"
    /\ mirror = [s \in Subs |-> None]
    /\ memberships = [m \in Subs \X Orgs |-> None]

Present(r, t) ==
    /\ presented[r] = None
    /\ presented' = [presented EXCEPT ![r] = t]
    /\ answer' = "none"
    /\ UNCHANGED <<mirrored, mirror, memberships>>

Digest(t) == [claims |-> t.claims, org |-> t.org]

(* The user's row is brought to this token, or found to mirror it. *)
MirrorUser(r) ==
    /\ presented[r] # None
    /\ answer' = "none"
    /\ UNCHANGED <<presented, memberships>>
    /\ mirrored' = mirrored \cup {r}
    /\ mirror' = [mirror EXCEPT ![presented[r].sub] = Digest(presented[r])]

Answer(r, a) ==
    /\ presented[r] # None
    /\ answer' = a
    /\ presented' = [presented EXCEPT ![r] = None]
    /\ mirrored' = mirrored \ {r}
    /\ UNCHANGED mirror

Membership(t) == <<t.sub, t.org>>
Blocked(m) == memberships[m] # None /\ memberships[m].blocked

(* Admission and refusal, at one moment. *)
Decide(r) ==
    LET t == presented[r]
        m == Membership(t)
    IN  /\ r \in mirrored
        /\ mirror[t.sub] # None
        /\ Answer(r, IF Blocked(m) THEN "blocked" ELSE "expanded")
        /\ memberships' = [memberships EXCEPT ![m] = [blocked |-> Blocked(m), roles |-> t.claims]]

(* Nothing was decided: the token names no organization, or rows were gone. *)
Fail(r) ==
    /\ Answer(r, IF presented[r].org = None THEN "no_organization" ELSE "error")
    /\ UNCHANGED memberships

SetBlocked(m, b) ==
    /\ memberships[m] # None
    /\ answer' = "none"
    /\ memberships' = [memberships EXCEPT ![m].blocked = b]
    /\ UNCHANGED <<presented, mirrored, mirror>>

(* Memberships are removed, alone or with their user or their organization. *)
Remove(M) ==
    /\ answer' = "none"
    /\ memberships' = [m \in Subs \X Orgs |-> IF m \in M THEN None ELSE memberships[m]]
    /\ UNCHANGED <<presented, mirrored>>
    /\ \/ UNCHANGED mirror
       \/ \E s \in Subs : {s} \X Orgs \subseteq M /\ mirror' = [mirror EXCEPT ![s] = None]

(* Anything else, of which this says only that it answers nobody. *)
Work == answer' = "none" /\ UNCHANGED <<presented, mirrored, mirror, memberships>>

Next ==
    \/ Work
    \/ \E r \in Requests, t \in Tokens : Present(r, t)
    \/ \E r \in Requests : MirrorUser(r) \/ Decide(r) \/ Fail(r)
    \/ \E m \in Subs \X Orgs, b \in BOOLEAN : SetBlocked(m, b)
    \/ \E M \in SUBSET (Subs \X Orgs) : Remove(M)

Spec == Init /\ [][Next]_admissionVars
=============================================================================
