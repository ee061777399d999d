--------------------------- MODULE RevocationList ---------------------------
(***************************************************************************)
(* Checking the jti of a verified token against an issuer's revocation     *)
(* list (revocation.py), by any number of concurrent requests on one event *)
(* loop.                                                                   *)
(*                                                                         *)
(* A check that finds the list due refreshes it under _lock and then looks *)
(* the jti up; every other check answers from the cached copy.  The        *)
(* attempt is recorded before the request is sent, so a failed one is not  *)
(* repeated before the interval is over, and a check that arrives while    *)
(* the request is outstanding does not find the list due.                  *)
(*                                                                         *)
(* As in JwksCache, the control points in Running are inside synchronous   *)
(* sections.  _last_success only chooses the wording of a warning and is   *)
(* left out.                                                               *)
(***************************************************************************)
EXTENDS AsyncLock, IssuerEndpoint

CONSTANTS
    Jtis,             \* token ids
    RefreshInterval,  \* refresh_interval
    Cancellable       \* whether a waiting request may be cancelled

ASSUME IntervalAssumption == RefreshInterval \in Nat \ {0}
ASSUME DocsAssumption == Docs \subseteq SUBSET Jtis
ASSUME NoneAssumption == None \notin Nat

VARIABLES
    revoked,      \* _revoked: place in `issued` of the cached list, 0 for None
    lastAttempt,  \* _last_attempt
    pc,           \* where each request is
    jti           \* the jti each request checks, None when idle

(* History, read by the properties only. *)
VARIABLES
    outcome,    \* how the last check to return ended
    asked,      \* when the check in progress began, 0 for none
    attemptOk,  \* whether the last attempt brought a list
    failed,     \* whether a fetch ever failed
    refusedBy   \* the newest copy that refused each jti, 0 for none

listVars == <<revoked, lastAttempt>>
taskVars == <<pc, jti, asked, outcome, refusedBy>>
historyVars == <<attemptOk, failed>>
vars == <<lockVars, endpointVars, listVars, taskVars, historyVars>>

Running == {"check", "recheck", "answer"}
Outcomes == {"none", "revoked", "accepted", "cancelled"}

TypeOK ==
    /\ holder \in Tasks \cup {None}
    /\ queue \in Seq(Tasks)
    /\ clock \in Nat
    /\ issued \in Seq(Publications) /\ issued # <<>>
    /\ phase \in [Tasks -> {"none", "sent", "answered", "broken"}]
    /\ answer \in [Tasks -> 0..Latest]
    /\ revoked \in 0..Latest
    /\ lastAttempt \in Nat \cup {None}
    /\ pc \in [Tasks -> Running \cup {"idle", "wait", "fetch"}]
    /\ jti \in [Tasks -> Jtis \cup {None}]
    /\ asked \in [Tasks -> Nat]
    /\ outcome \in Outcomes
    /\ refusedBy \in [Jtis -> 0..Latest]
    /\ attemptOk \in BOOLEAN
    /\ failed \in BOOLEAN

Init ==
    /\ LockInit
    /\ EndpointInit(Tasks)
    /\ revoked = 0
    /\ lastAttempt = None
    /\ pc = [r \in Tasks |-> "idle"]
    /\ jti = [r \in Tasks |-> None]
    /\ asked = [r \in Tasks |-> 0]
    /\ outcome = "none"
    /\ refusedBy = [j \in Jtis |-> 0]
    /\ attemptOk = FALSE
    /\ failed = FALSE
-----------------------------------------------------------------------------
LoopFree == \A r \in Tasks : pc[r] \notin Running

(* _is_due *)
Due == lastAttempt # None => clock - lastAttempt >= RefreshInterval

(* The `revoked` property: empty before the first load. *)
Listed == IF revoked = 0 THEN {} ELSE issued[revoked].doc

Goto(r, l) == pc' = [pc EXCEPT ![r] = l]

Stay == UNCHANGED <<jti, asked, outcome, refusedBy>>

Finish(r, o) ==
    /\ Goto(r, "idle")
    /\ jti' = [jti EXCEPT ![r] = None]
    /\ asked' = [asked EXCEPT ![r] = 0]
    /\ outcome' = o

(* The token's signature and claims are verified; its jti is looked up. *)
Check(r) ==
    /\ LoopFree
    /\ pc[r] = "idle"
    /\ Goto(r, "check")
    /\ \E j \in Jtis : jti' = [jti EXCEPT ![r] = j]
    /\ asked' = [asked EXCEPT ![r] = clock]
    /\ UNCHANGED <<outcome, refusedBy, lockVars, endpointVars, listVars, historyVars>>

(* Mutant of FirstLook: the lock is not taken. *)
FirstLookUnlocked(r) ==
    /\ pc[r] = "check"
    /\ Goto(r, IF Due THEN "recheck" ELSE "answer")
    /\ Stay
    /\ UNCHANGED <<lockVars, endpointVars, listVars, historyVars>>

(* The first _is_due, outside the lock. *)
FirstLook(r) ==
    /\ pc[r] = "check"
    /\ \/ ~Due /\ Goto(r, "answer") /\ UNCHANGED lockVars
       \/ Due /\ Acquire(r) /\ Goto(r, "recheck")
       \/ Due /\ Enqueue(r) /\ Goto(r, "wait")
    /\ Stay
    /\ UNCHANGED <<endpointVars, listVars, historyVars>>

Resume(r) ==
    /\ LoopFree
    /\ pc[r] = "wait"
    /\ Wake(r)
    /\ Goto(r, "recheck")
    /\ Stay
    /\ UNCHANGED <<endpointVars, listVars, historyVars>>

(* The second _is_due: an earlier holder of the lock has refreshed. *)
AlreadyRefreshed(r) ==
    /\ pc[r] = "recheck"
    /\ ~Due
    /\ Release
    /\ Goto(r, "answer")
    /\ Stay
    /\ UNCHANGED <<endpointVars, listVars, historyVars>>

(* Mutant of RefreshStart: the list is not checked again under the lock. *)
RefreshStartUnchecked(r) ==
    /\ pc[r] = "recheck"
    /\ lastAttempt' = clock
    /\ Send(r)
    /\ attemptOk' = FALSE
    /\ Goto(r, "fetch")
    /\ Stay
    /\ UNCHANGED <<lockVars, revoked, failed>>

(* _refresh records the attempt and sends the request. *)
RefreshStart(r) ==
    /\ pc[r] = "recheck"
    /\ Due
    /\ lastAttempt' = clock
    /\ Send(r)
    /\ attemptOk' = FALSE
    /\ Goto(r, "fetch")
    /\ Stay
    /\ UNCHANGED <<lockVars, revoked, failed>>

(* Mutant of RefreshSucceeds: the interval runs from the answer. *)
RefreshSucceedsRedated(r) ==
    /\ LoopFree
    /\ pc[r] = "fetch"
    /\ phase[r] = "answered"
    /\ revoked' = answer[r]
    /\ lastAttempt' = clock
    /\ attemptOk' = TRUE
    /\ Close(r)
    /\ Release
    /\ Goto(r, "answer")
    /\ Stay
    /\ UNCHANGED failed

RefreshSucceeds(r) ==
    /\ LoopFree
    /\ pc[r] = "fetch"
    /\ phase[r] = "answered"
    /\ revoked' = answer[r]
    /\ attemptOk' = TRUE
    /\ Close(r)
    /\ Release
    /\ Goto(r, "answer")
    /\ Stay
    /\ UNCHANGED <<lastAttempt, failed>>

(* Mutants of RefreshFails: the list is dropped; the attempt is undone; the *)
(* lock is kept.                                                           *)
RefreshFailsClearing(r) ==
    /\ LoopFree
    /\ pc[r] = "fetch"
    /\ phase[r] = "broken"
    /\ failed' = TRUE
    /\ revoked' = 0
    /\ lastAttempt' = lastAttempt
    /\ Close(r)
    /\ Release
    /\ Goto(r, "answer")
    /\ Stay
    /\ UNCHANGED attemptOk

RefreshFailsUndone(r) ==
    /\ LoopFree
    /\ pc[r] = "fetch"
    /\ phase[r] = "broken"
    /\ failed' = TRUE
    /\ revoked' = revoked
    /\ lastAttempt' = lastAttempt - RefreshInterval
    /\ Close(r)
    /\ Release
    /\ Goto(r, "answer")
    /\ Stay
    /\ UNCHANGED attemptOk

RefreshFailsHolding(r) ==
    /\ LoopFree
    /\ pc[r] = "fetch"
    /\ phase[r] = "broken"
    /\ failed' = TRUE
    /\ revoked' = revoked
    /\ lastAttempt' = lastAttempt
    /\ Close(r)
    /\ UNCHANGED lockVars
    /\ Goto(r, "answer")
    /\ Stay
    /\ UNCHANGED attemptOk

(* A failed refresh keeps the previous list. *)
RefreshFails(r) ==
    /\ LoopFree
    /\ pc[r] = "fetch"
    /\ phase[r] = "broken"
    /\ failed' = TRUE
    /\ Close(r)
    /\ Release
    /\ Goto(r, "answer")
    /\ Stay
    /\ UNCHANGED <<listVars, attemptOk>>

(* "return jti in self.revoked" *)
Reply(r) ==
    /\ pc[r] = "answer"
    /\ \/ /\ jti[r] \in Listed
          /\ Finish(r, "revoked")
          /\ refusedBy' = [refusedBy EXCEPT ![jti[r]] = revoked]
       \/ /\ jti[r] \notin Listed
          /\ Finish(r, "accepted")
          /\ UNCHANGED refusedBy
    /\ UNCHANGED <<lockVars, endpointVars, listVars, historyVars>>

(* CancelledError reaches the awaiting task; _refresh does not catch it. *)
Cancel(r) ==
    /\ Cancellable
    /\ LoopFree
    /\ pc[r] \in {"wait", "fetch"}
    /\ Leave(r)
    /\ IF pc[r] = "fetch" THEN Close(r) ELSE UNCHANGED endpointVars
    /\ Finish(r, "cancelled")
    /\ UNCHANGED <<refusedBy, listVars, historyVars>>

Step(r) == FirstLook(r) \/ AlreadyRefreshed(r) \/ RefreshStart(r) \/ Reply(r)

Deliver(r) == Resume(r) \/ RefreshSucceeds(r) \/ RefreshFails(r)

Environment ==
    /\ \/ LoopFree /\ Tick
       \/ Publish
       \/ Answer
       \/ Break
    /\ UNCHANGED <<lockVars, listVars, taskVars, historyVars>>

Next ==
    \/ \E r \in Tasks : Check(r) \/ Step(r) \/ Deliver(r) \/ Cancel(r)
    \/ Environment

Spec == Init /\ [][Next]_vars

(* As for JwksCache: first come first served, and every fetch ends. *)
Fairness ==
    /\ \A r \in Tasks : WF_vars(Step(r)) /\ SF_vars(Deliver(r))
    /\ WF_vars((Answer \/ Break) /\ UNCHANGED <<lockVars, listVars, taskVars, historyVars>>)

FairSpec == Spec /\ Fairness
-----------------------------------------------------------------------------
(* What the list promises its callers. *)
Abstract == INSTANCE ThrottledCopy WITH
    Interval <- RefreshInterval,
    copy <- revoked,
    busy <- (\E r \in Tasks : phase[r] # "none")

(* The lock, the double-checked due test and the failure handling amount   *)
(* to a throttled copy: "a thousand tokens presented within one interval   *)
(* cost one fetch" (revocation.py:10-16).                                  *)
RefinesThrottledCopy == Abstract!Spec

(* At most one request is outstanding, sent by the holder of _lock. *)
OneFetchAtATime ==
    /\ \A r, s \in Tasks : phase[r] # "none" /\ phase[s] # "none" => r = s
    /\ \A r \in Tasks : phase[r] # "none" => holder = r

Ends(r, o) == pc[r] # "idle" /\ pc'[r] = "idle" /\ outcome' = o

(* The issuer listed j at every moment from t on. *)
ListedSince(j, t) == \A v \in InForceSince(t) : j \in issued[v].doc

(* A token is accepted although it was listed all through the last         *)
(* interval only while the last attempt has not brought a list: it failed, *)
(* was cancelled, or is still outstanding.                                 *)
RevocationNoticed ==
    [][\A r \in Tasks :
          Ends(r, "accepted") /\ ListedSince(jti[r], asked[r] - RefreshInterval) => ~attemptOk]_vars

(* Once a jti was refused it is not accepted again unless the issuer has   *)
(* meanwhile published a list without it: neither a failed refresh nor a   *)
(* race brings an older list back.                                         *)
RefusalSticks ==
    [][\A r \in Tasks :
          Ends(r, "accepted") /\ refusedBy[jti[r]] # 0 =>
             \E v \in refusedBy[jti[r]]..Latest : jti[r] \notin issued[v].doc]_vars

(* "It is also the longest a revocation can go unnoticed here"             *)
(* (base_models.py:387): with a list loaded and no fetch ever failed, no   *)
(* token is accepted that was listed all through the last interval.        *)
NoticedWithinInterval ==
    [][\A r \in Tasks :
          Ends(r, "accepted") /\ revoked # 0 /\ ListedSince(jti[r], asked[r] - RefreshInterval) => failed]_vars

(* What NoticedWithinInterval leaves out: while a refresh is under way the *)
(* other checks are answered from the copy it is to replace.               *)
NoticedButForARefresh ==
    [][\A r \in Tasks :
          Ends(r, "accepted") /\ ListedSince(jti[r], asked[r] - RefreshInterval) =>
             failed \/ \E s \in Tasks \ {r} : pc[s] = "fetch"]_vars

(* Every check returns. *)
EveryCheckReturns == \A r \in Tasks : pc[r] # "idle" ~> pc[r] = "idle"
-----------------------------------------------------------------------------
(* The inductive invariant behind the properties above. *)

Waiters == {r \in Tasks : pc[r] = "wait"}

(* Who holds the lock and who waits for it is told by the control points. *)
LockOK ==
    /\ QueueOf(queue, Waiters)
    /\ \A r \in Tasks : holder = r <=> pc[r] \in {"recheck", "fetch"}

(* Requests are outstanding for the tasks that await one, which recorded   *)
(* the attempt; an answer was in force during the attempt.                 *)
FetchOK ==
    \A r \in Tasks :
       /\ phase[r] # "none" <=> pc[r] = "fetch"
       /\ phase[r] # "none" => lastAttempt # None
       /\ phase[r] = "answered" =>
             /\ answer[r] >= revoked
             /\ answer[r] \in InForceSince(lastAttempt)

(* No time lies in the future, and a check past its due test has seen an   *)
(* attempt that is recent enough.                                          *)
TimeOK ==
    /\ lastAttempt # None => lastAttempt <= clock
    /\ \A r \in Tasks : asked[r] <= clock
    /\ \A r \in Tasks : pc[r] \in {"fetch", "answer"} =>
          lastAttempt # None /\ lastAttempt > asked[r] - RefreshInterval

(* A copy that the last attempt brought was in force since that attempt,   *)
(* and no list that ever refused a token is newer than the copy.           *)
ListOK ==
    /\ attemptOk => lastAttempt # None /\ revoked \in InForceSince(lastAttempt)
    /\ \A j \in Jtis : refusedBy[j] <= revoked
    /\ \A r \in Tasks : pc[r] # "idle" => jti[r] \in Jtis

IInv == TypeOK /\ LockOK /\ FetchOK /\ TimeOK /\ ListOK

(* If nobody is cancelled, an attempt that has brought no list has failed  *)
(* or is under way.                                                        *)
UnfinishedOK ==
    lastAttempt # None => attemptOk \/ failed \/ \E r \in Tasks : pc[r] = "fetch"
=============================================================================
