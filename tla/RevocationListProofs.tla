------------------------- MODULE RevocationListProofs -------------------------
(***************************************************************************)
(* Proofs about RevocationList, for any set of requests, any interval and  *)
(* any behaviour of the issuer.                                            *)
(***************************************************************************)
EXTENDS RevocationList, AsyncLockProofs, IssuerEndpointProofs

USE IntervalAssumption, DocsAssumption, NoneAssumption, NoneIsNoTask, EndpointBounds

(* Whoever takes the lock, waits for it or leaves it, LockOK holds after.  *)
LEMMA LockStep ==
    ASSUME IInv, [Next]_vars
    PROVE  LockOK'
<1> USE DEF IInv, LockOK, Waiters, Goto
<1>q. queue \in Seq(Tasks) BY DEF QueueOf
<1>1. ASSUME NEW r \in Tasks, Check(r) PROVE LockOK'
  BY <1>1 DEF Check, lockVars, TypeOK
<1>2. ASSUME NEW r \in Tasks, FirstLook(r) PROVE LockOK'
  <2>1. CASE ~Due /\ Goto(r, "answer") /\ UNCHANGED lockVars
    BY <1>2, <2>1 DEF FirstLook, lockVars, TypeOK
  <2>2. CASE Due /\ Acquire(r) /\ Goto(r, "recheck")
    <3>1. Waiters' = Waiters
      BY <1>2, <2>2 DEF FirstLook, Acquire, Uncontended, TypeOK
    <3> QED BY <1>2, <2>2, <3>1 DEF FirstLook, Acquire, Uncontended, TypeOK
  <2>3. CASE Due /\ Enqueue(r) /\ Goto(r, "wait")
    <3>1. Waiters' = Waiters \cup {r} /\ r \notin Waiters
      BY <1>2, <2>3 DEF FirstLook, TypeOK
    <3>2. QueueOf(queue', Waiters')
      BY <2>3, <3>1, AppendQueue DEF Enqueue
    <3> QED BY <1>2, <2>3, <3>2 DEF FirstLook, Enqueue, TypeOK
  <2> QED BY <1>2, <2>1, <2>2, <2>3 DEF FirstLook
<1>3. ASSUME NEW r \in Tasks, Resume(r) PROVE LockOK'
  <2>1. Waiters' = Waiters \ {r}
    BY <1>3 DEF Resume, TypeOK
  <2>2. QueueOf(queue', Waiters')
    BY <1>3, <2>1, TailQueue DEF Resume, Wake
  <2> QED BY <1>3, <2>2 DEF Resume, Wake, TypeOK
<1>4. ASSUME NEW r \in Tasks, AlreadyRefreshed(r) PROVE LockOK'
  <2>1. Waiters' = Waiters
    BY <1>4 DEF AlreadyRefreshed, TypeOK
  <2> QED BY <1>4, <2>1 DEF AlreadyRefreshed, Release, TypeOK
<1>5. ASSUME NEW r \in Tasks, RefreshStart(r) PROVE LockOK'
  <2>1. Waiters' = Waiters
    BY <1>5 DEF RefreshStart, TypeOK
  <2> QED BY <1>5, <2>1 DEF RefreshStart, lockVars, TypeOK
<1>6. ASSUME NEW r \in Tasks, RefreshSucceeds(r) PROVE LockOK'
  <2>1. Waiters' = Waiters
    BY <1>6 DEF RefreshSucceeds, TypeOK
  <2> QED BY <1>6, <2>1 DEF RefreshSucceeds, Release, TypeOK
<1>7. ASSUME NEW r \in Tasks, RefreshFails(r) PROVE LockOK'
  <2>1. Waiters' = Waiters
    BY <1>7 DEF RefreshFails, TypeOK
  <2> QED BY <1>7, <2>1 DEF RefreshFails, Release, TypeOK
<1>8. ASSUME NEW r \in Tasks, Reply(r) PROVE LockOK'
  <2>1. Waiters' = Waiters
    BY <1>8 DEF Reply, Finish, TypeOK
  <2> QED BY <1>8, <2>1 DEF Reply, Finish, lockVars, TypeOK
<1>9. ASSUME NEW r \in Tasks, Cancel(r) PROVE LockOK'
  <2>1. CASE holder = r
    <3>1. Waiters' = Waiters /\ Release
      BY <1>9, <2>1 DEF Cancel, Finish, Leave, TypeOK
    <3> QED BY <1>9, <2>1, <3>1 DEF Cancel, Finish, Release, TypeOK
  <2>2. CASE holder # r
    <3>1. PICK i \in DOMAIN queue :
             /\ queue[i] = r
             /\ queue' = SubSeq(queue, 1, i - 1) \o SubSeq(queue, i + 1, Len(queue))
             /\ holder' = holder
      BY <1>9, <2>2 DEF Cancel, Leave
    <3>2. pc[r] = "wait"
      BY <3>1 DEF QueueOf
    <3>3. Waiters' = Waiters \ {r}
      BY <1>9 DEF Cancel, Finish, TypeOK
    <3>4. QueueOf(queue', Waiters')
      <4> HIDE DEF Waiters
      <4>1. QueueOf(queue, Waiters)
        OBVIOUS
      <4>2. QueueOf(SubSeq(queue, 1, i - 1) \o SubSeq(queue, i + 1, Len(queue)), Waiters \ {queue[i]})
        BY <4>1, RemoveQueue
      <4> QED BY <3>1, <3>3, <4>2
    <3> QED BY <1>9, <3>1, <3>2, <3>4 DEF Cancel, Finish, TypeOK
  <2> QED BY <2>1, <2>2
<1>10. CASE Environment
  BY <1>10 DEF Environment, lockVars, taskVars
<1>11. CASE UNCHANGED vars
  BY <1>11 DEF vars, lockVars, taskVars
<1> QED
  BY <1>1, <1>2, <1>3, <1>4, <1>5, <1>6, <1>7, <1>8, <1>9, <1>10, <1>11
  DEF Next, Step, Deliver

(* Every step keeps the types. *)
LEMMA TypeStep ==
    ASSUME IInv, [Next]_vars
    PROVE  TypeOK'
<1> USE DEF TypeOK, Goto, Stay, Latest, Running
<1>q. TypeOK /\ queue' \in Seq(Tasks)
  BY LockStep DEF IInv, LockOK, QueueOf
<1>1. ASSUME NEW r \in Tasks, Check(r) PROVE TypeOK'
  BY <1>1, <1>q DEF Check, lockVars, endpointVars, listVars, historyVars
<1>2. ASSUME NEW r \in Tasks, FirstLook(r) PROVE TypeOK'
  BY <1>2, <1>q DEF FirstLook, Acquire, Enqueue, lockVars, endpointVars, listVars, historyVars
<1>3. ASSUME NEW r \in Tasks, Resume(r) PROVE TypeOK'
  BY <1>3, <1>q DEF Resume, Wake, endpointVars, listVars, historyVars
<1>4. ASSUME NEW r \in Tasks, AlreadyRefreshed(r) PROVE TypeOK'
  BY <1>4, <1>q DEF AlreadyRefreshed, Release, endpointVars, listVars, historyVars
<1>5. ASSUME NEW r \in Tasks, RefreshStart(r) PROVE TypeOK'
  BY <1>5, <1>q DEF RefreshStart, Send, lockVars
<1>6. ASSUME NEW r \in Tasks, RefreshSucceeds(r) PROVE TypeOK'
  BY <1>6, <1>q DEF RefreshSucceeds, Close, Release
<1>7. ASSUME NEW r \in Tasks, RefreshFails(r) PROVE TypeOK'
  BY <1>7, <1>q DEF RefreshFails, Close, Release, listVars
<1>8. ASSUME NEW r \in Tasks, Reply(r) PROVE TypeOK'
  <2>1. CASE jti[r] \in Listed
    <3>1. jti[r] \in Jtis
      BY <1>8 DEF Reply, IInv, ListOK
    <3>2. /\ Finish(r, "revoked")
          /\ refusedBy' = [refusedBy EXCEPT ![jti[r]] = revoked]
          /\ UNCHANGED <<lockVars, endpointVars, listVars, historyVars>>
      BY <1>8, <2>1 DEF Reply
    <3> QED BY <3>1, <3>2, <1>q DEF Finish, Outcomes, lockVars, endpointVars, listVars, historyVars
  <2>2. CASE jti[r] \notin Listed
    <3>1. /\ Finish(r, "accepted")
          /\ UNCHANGED <<refusedBy, lockVars, endpointVars, listVars, historyVars>>
      BY <1>8, <2>2 DEF Reply
    <3> QED BY <3>1, <1>q DEF Finish, Outcomes, lockVars, endpointVars, listVars, historyVars
  <2> QED BY <2>1, <2>2
<1>9. ASSUME NEW r \in Tasks, Cancel(r) PROVE TypeOK'
  <2>1. issued' = issued /\ clock' = clock /\ phase' \in [Tasks -> {"none", "sent", "answered", "broken"}]
        /\ answer' \in [Tasks -> 0..Len(issued')]
    BY <1>9, <1>q, RequestTypes DEF Cancel, Close, endpointVars
  <2>2. holder' = holder \/ holder' = None
    BY <1>9 DEF Cancel, Leave, Release
  <2> QED BY <1>9, <2>1, <2>2, <1>q DEF Cancel, Finish, Outcomes, listVars, historyVars
<1>10. CASE Environment
  <2>1. CASE Tick
    BY <1>10, <2>1, <1>q DEF Environment, Tick, lockVars, listVars, taskVars, historyVars
  <2>2. CASE Publish
    <3>1. PICK d \in Docs : issued' = Append(issued, [at |-> clock, doc |-> d])
      BY <2>2 DEF Publish
    <3>2. [at |-> clock, doc |-> d] \in Publications
      BY <1>q DEF Publications
    <3>3. issued' \in Seq(Publications) /\ issued' # <<>> /\ Len(issued') = Len(issued) + 1
      BY <3>1, <3>2, <1>q
    <3>4. 0..Len(issued) \subseteq 0..Len(issued') /\ Len(issued) \in Nat
      BY <3>3, <1>q
    <3>5. UNCHANGED <<holder, clock, phase, answer, revoked, lastAttempt, pc, jti, asked, outcome, refusedBy, attemptOk, failed>>
      BY <1>10, <2>2 DEF Environment, Publish, lockVars, listVars, taskVars, historyVars
    <3> QED BY <3>3, <3>4, <3>5, <1>q
  <2>3. CASE Answer
    BY <1>10, <2>3, <1>q DEF Environment, Answer, lockVars, listVars, taskVars, historyVars
  <2>4. CASE Break
    BY <1>10, <2>4, <1>q DEF Environment, Break, lockVars, listVars, taskVars, historyVars
  <2> QED BY <1>10, <2>1, <2>2, <2>3, <2>4 DEF Environment
<1>11. CASE UNCHANGED vars
  BY <1>11, <1>q DEF vars, lockVars, endpointVars, listVars, taskVars, historyVars
<1> QED
  BY <1>1, <1>2, <1>3, <1>4, <1>5, <1>6, <1>7, <1>8, <1>9, <1>10, <1>11
  DEF Next, Step, Deliver

(* Only the task that sent the outstanding request consumes its outcome,   *)
(* and the answer it takes was in force during the attempt.                *)
LEMMA FetchStep ==
    ASSUME IInv, [Next]_vars
    PROVE  FetchOK'
<1> USE DEF Goto
<1>i. TypeOK /\ LockOK /\ FetchOK /\ TimeOK
  BY DEF IInv
<1>p. pc \in [Tasks -> Running \cup {"idle", "wait", "fetch"}]
  BY <1>i DEF TypeOK
<1>h. /\ phase \in [Tasks -> {"none", "sent", "answered", "broken"}]
      /\ answer \in [Tasks -> 0..Latest]
  BY <1>i DEF TypeOK
<1>s. ASSUME UNCHANGED <<issued, phase, answer, revoked, lastAttempt>>,
             \A r \in Tasks : pc[r] = "fetch" <=> pc'[r] = "fetch"
      PROVE  FetchOK'
  BY <1>i, <1>s DEF FetchOK, InForceSince, Latest
<1>o. ASSUME NEW r \in Tasks, pc[r] \in {"recheck", "fetch"}
      PROVE  \A s \in Tasks \ {r} : phase[s] = "none" /\ pc[s] # "fetch"
  BY <1>o, <1>i DEF LockOK, FetchOK
<1>1. ASSUME NEW r \in Tasks, Check(r) PROVE FetchOK'
  BY <1>1, <1>s, <1>p DEF Check, endpointVars, listVars
<1>2. ASSUME NEW r \in Tasks, FirstLook(r) PROVE FetchOK'
  BY <1>2, <1>s, <1>p DEF FirstLook, endpointVars, listVars
<1>3. ASSUME NEW r \in Tasks, Resume(r) PROVE FetchOK'
  BY <1>3, <1>s, <1>p DEF Resume, endpointVars, listVars
<1>4. ASSUME NEW r \in Tasks, AlreadyRefreshed(r) PROVE FetchOK'
  BY <1>4, <1>s, <1>p DEF AlreadyRefreshed, endpointVars, listVars
<1>5. ASSUME NEW r \in Tasks, RefreshStart(r) PROVE FetchOK'
  <2>1. \A s \in Tasks : phase'[s] = (IF s = r THEN "sent" ELSE "none") /\ (pc'[s] = "fetch" <=> s = r)
    BY <1>5, <1>o, <1>p, <1>h DEF RefreshStart, Send
  <2>2. lastAttempt' # None
    BY <1>5, <1>i DEF RefreshStart, TypeOK
  <2> QED BY <2>1, <2>2 DEF FetchOK
<1>6. ASSUME NEW r \in Tasks, pc[r] = "fetch", pc' = [pc EXCEPT ![r] = "answer"] \/ pc' = [pc EXCEPT ![r] = "idle"], Close(r)
      PROVE  FetchOK'
  <2>1. \A s \in Tasks : phase'[s] = "none" /\ pc'[s] # "fetch"
    BY <1>6, <1>o, <1>p, <1>h DEF Close
  <2> QED BY <2>1 DEF FetchOK
<1>7. ASSUME NEW r \in Tasks, RefreshSucceeds(r) PROVE FetchOK'
  BY <1>6, <1>7 DEF RefreshSucceeds
<1>8. ASSUME NEW r \in Tasks, RefreshFails(r) PROVE FetchOK'
  BY <1>6, <1>8 DEF RefreshFails
<1>9. ASSUME NEW r \in Tasks, Reply(r) PROVE FetchOK'
  BY <1>9, <1>s, <1>p DEF Reply, Finish, endpointVars, listVars
<1>10. ASSUME NEW r \in Tasks, Cancel(r) PROVE FetchOK'
  <2>1. CASE pc[r] = "fetch"
    BY <1>6, <1>10, <2>1 DEF Cancel, Finish
  <2>2. CASE pc[r] = "wait"
    BY <1>10, <2>2, <1>s, <1>p DEF Cancel, Finish, endpointVars, listVars
  <2> QED BY <1>10, <2>1, <2>2 DEF Cancel
<1>11. CASE Environment
  <2>e. UNCHANGED <<pc, revoked, lastAttempt>>
    BY <1>11 DEF Environment, listVars, taskVars
  <2>1. CASE Tick
    BY <2>1, <2>e, <1>s DEF Tick
  <2>2. CASE Publish
    <3>1. phase' = phase /\ answer' = answer
      BY <2>2 DEF Publish
    <3>2. ASSUME NEW r \in Tasks, phase[r] = "answered" PROVE answer[r] \in InForceSince(lastAttempt)'
      <4>1. lastAttempt \in Nat /\ lastAttempt <= clock /\ answer[r] \in InForceSince(lastAttempt)
        BY <1>i, <3>2 DEF FetchOK, TimeOK, TypeOK
      <4>2. issued \in Seq(Publications) /\ clock \in Nat
        BY <1>i DEF TypeOK
      <4>3. PICK t \in Int : t = lastAttempt
        BY <4>1
      <4>4. answer[r] \in InForceSince(t)'
        BY <4>1, <4>2, <4>3, <2>2, InForceKept
      <4> QED BY <4>3, <4>4, <2>e DEF InForceSince, Latest
    <3> QED BY <1>i, <2>e, <3>1, <3>2 DEF FetchOK
  <2>3. CASE Answer
    <3>1. (\A t : Latest \in InForceSince(t)) /\ Latest >= revoked
      BY <1>i DEF InForceSince, TypeOK, Latest
    <3>2. PICK c \in Tasks :
             /\ phase[c] = "sent"
             /\ phase' = [phase EXCEPT ![c] = "answered"]
             /\ answer' = [answer EXCEPT ![c] = Latest]
             /\ UNCHANGED <<clock, issued>>
      BY <2>3, <1>h DEF Answer
    <3>3. \A s \in Tasks \ {c} : phase'[s] = phase[s] /\ answer'[s] = answer[s]
      BY <3>2, <1>h
    <3>4. phase'[c] = "answered" /\ answer'[c] = Latest
      BY <3>2, <1>h
    <3> QED BY <1>i, <2>e, <3>1, <3>2, <3>3, <3>4 DEF FetchOK, InForceSince, Latest
  <2>4. CASE Break
    <3>1. PICK c \in Tasks :
             /\ phase[c] = "sent"
             /\ phase' = [phase EXCEPT ![c] = "broken"]
             /\ UNCHANGED <<clock, issued, answer>>
      BY <2>4, <1>h DEF Break
    <3> QED BY <1>i, <1>h, <2>e, <3>1 DEF FetchOK, InForceSince, Latest
  <2> QED BY <1>11, <2>1, <2>2, <2>3, <2>4 DEF Environment
<1>12. CASE UNCHANGED vars
  BY <1>12, <1>s DEF vars, endpointVars, listVars, taskVars
<1> QED
  BY <1>1, <1>2, <1>3, <1>4, <1>5, <1>7, <1>8, <1>9, <1>10, <1>11, <1>12
  DEF Next, Step, Deliver

(* The clock only moves on, and a check that passed a due test relies on   *)
(* an attempt less than one interval older than the check itself.          *)
LEMMA TimeStep ==
    ASSUME IInv, [Next]_vars
    PROVE  TimeOK'
<1> USE DEF Goto, Stay
<1>i. TypeOK /\ LockOK /\ FetchOK /\ TimeOK
  BY DEF IInv
<1>p. /\ pc \in [Tasks -> Running \cup {"idle", "wait", "fetch"}]
      /\ asked \in [Tasks -> Nat]
      /\ clock \in Nat
      /\ lastAttempt \in Nat \cup {None}
  BY <1>i DEF TypeOK
<1>s. ASSUME UNCHANGED <<clock, lastAttempt>>, NEW r \in Tasks,
             \A s \in Tasks \ {r} : pc'[s] = pc[s] /\ asked'[s] = asked[s],
             asked'[r] <= clock,
             pc'[r] \in {"fetch", "answer"} =>
                lastAttempt # None /\ lastAttempt > asked'[r] - RefreshInterval
      PROVE  TimeOK'
  BY <1>i, <1>s DEF TimeOK
<1>1. ASSUME NEW r \in Tasks, Check(r) PROVE TimeOK'
  BY <1>1, <1>s, <1>p DEF Check, endpointVars, listVars
<1>2. ASSUME NEW r \in Tasks, FirstLook(r) PROVE TimeOK'
  <2>1. asked[r] <= clock
    BY <1>i DEF TimeOK
  <2>2. ~Due \/ pc'[r] \notin {"fetch", "answer"}
    BY <1>2, <1>p DEF FirstLook
  <2>3. ~Due => lastAttempt # None /\ lastAttempt > asked[r] - RefreshInterval
    BY <2>1, <1>p DEF Due
  <2> QED BY <1>2, <1>s, <1>p, <2>1, <2>2, <2>3 DEF FirstLook, endpointVars, listVars
<1>3. ASSUME NEW r \in Tasks, Resume(r) PROVE TimeOK'
  BY <1>3, <1>s, <1>p, <1>i DEF Resume, endpointVars, listVars, TimeOK
<1>4. ASSUME NEW r \in Tasks, AlreadyRefreshed(r) PROVE TimeOK'
  <2>1. asked[r] <= clock
    BY <1>i DEF TimeOK
  <2>2. lastAttempt # None /\ lastAttempt > asked[r] - RefreshInterval
    BY <1>4, <2>1, <1>p DEF AlreadyRefreshed, Due
  <2> QED BY <1>4, <1>s, <1>p, <2>1, <2>2 DEF AlreadyRefreshed, endpointVars, listVars
<1>5. ASSUME NEW r \in Tasks, RefreshStart(r) PROVE TimeOK'
  <2>1. /\ lastAttempt' = clock /\ clock' = clock /\ asked' = asked
        /\ clock # None
        /\ \A s \in Tasks : asked[s] <= clock
    BY <1>5, <1>i, <1>p DEF RefreshStart, Send, TimeOK
  <2> QED BY <2>1, <1>p DEF TimeOK
<1>6. ASSUME NEW r \in Tasks, RefreshSucceeds(r) PROVE TimeOK'
  BY <1>6, <1>s, <1>p, <1>i DEF RefreshSucceeds, Close, TimeOK
<1>7. ASSUME NEW r \in Tasks, RefreshFails(r) PROVE TimeOK'
  BY <1>7, <1>s, <1>p, <1>i DEF RefreshFails, Close, listVars, TimeOK
<1>8. ASSUME NEW r \in Tasks, Reply(r) PROVE TimeOK'
  <2>1. /\ pc' = [pc EXCEPT ![r] = "idle"] /\ asked' = [asked EXCEPT ![r] = 0]
        /\ UNCHANGED <<clock, lastAttempt>>
    BY <1>8 DEF Reply, Finish, endpointVars, listVars
  <2> QED BY <2>1, <1>s, <1>p
<1>9. ASSUME NEW r \in Tasks, Cancel(r) PROVE TimeOK'
  <2>1. /\ pc' = [pc EXCEPT ![r] = "idle"] /\ asked' = [asked EXCEPT ![r] = 0]
        /\ UNCHANGED <<clock, lastAttempt>>
    BY <1>9 DEF Cancel, Finish, Close, endpointVars, listVars
  <2> QED BY <2>1, <1>s, <1>p
<1>10. CASE Environment
  <2>1. /\ UNCHANGED <<pc, asked, lastAttempt>>
        /\ clock' = clock \/ clock' = clock + 1
    BY <1>10 DEF Environment, Tick, Publish, Answer, Break, listVars, taskVars
  <2> QED BY <2>1, <1>i, <1>p DEF TimeOK
<1>11. CASE UNCHANGED vars
  BY <1>11, <1>i DEF vars, endpointVars, listVars, taskVars, TimeOK
<1> QED
  BY <1>1, <1>2, <1>3, <1>4, <1>5, <1>6, <1>7, <1>8, <1>9, <1>10, <1>11
  DEF Next, Step, Deliver

(* The copy never gets older than a list that refused a token, and a copy  *)
(* brought by the last attempt was in force since that attempt.            *)
LEMMA ListStep ==
    ASSUME IInv, [Next]_vars
    PROVE  ListOK'
<1> USE DEF Goto, Stay
<1>i. TypeOK /\ LockOK /\ FetchOK /\ TimeOK /\ ListOK
  BY DEF IInv
<1>p. /\ pc \in [Tasks -> Running \cup {"idle", "wait", "fetch"}]
      /\ jti \in [Tasks -> Jtis \cup {None}]
      /\ refusedBy \in [Jtis -> 0..Latest]
      /\ Latest \in Nat /\ revoked \in 0..Latest
  BY <1>i DEF TypeOK, Latest
<1>s. ASSUME UNCHANGED <<issued, revoked, lastAttempt, attemptOk, refusedBy>>,
             \A r \in Tasks : pc'[r] # "idle" => jti'[r] \in Jtis
      PROVE  ListOK'
  BY <1>i, <1>s DEF ListOK, InForceSince, Latest
<1>1. ASSUME NEW r \in Tasks, Check(r) PROVE ListOK'
  BY <1>1, <1>s, <1>p, <1>i DEF Check, ListOK, endpointVars, listVars, historyVars
<1>2. ASSUME NEW r \in Tasks, FirstLook(r) PROVE ListOK'
  BY <1>2, <1>s, <1>p, <1>i DEF FirstLook, ListOK, endpointVars, listVars, historyVars
<1>3. ASSUME NEW r \in Tasks, Resume(r) PROVE ListOK'
  BY <1>3, <1>s, <1>p, <1>i DEF Resume, ListOK, endpointVars, listVars, historyVars
<1>4. ASSUME NEW r \in Tasks, AlreadyRefreshed(r) PROVE ListOK'
  BY <1>4, <1>s, <1>p, <1>i DEF AlreadyRefreshed, ListOK, endpointVars, listVars, historyVars
<1>5. ASSUME NEW r \in Tasks, RefreshStart(r) PROVE ListOK'
  BY <1>5, <1>p, <1>i DEF RefreshStart, ListOK
<1>6. ASSUME NEW r \in Tasks, RefreshSucceeds(r) PROVE ListOK'
  <2>1. answer[r] >= revoked /\ answer[r] \in InForceSince(lastAttempt) /\ lastAttempt # None
    BY <1>6, <1>i DEF RefreshSucceeds, FetchOK
  <2>2. /\ revoked' = answer[r]
        /\ UNCHANGED <<issued, lastAttempt, refusedBy, jti>>
        /\ pc' = [pc EXCEPT ![r] = "answer"]
        /\ pc[r] = "fetch"
    BY <1>6 DEF RefreshSucceeds, Close
  <2>3. (revoked \in InForceSince(lastAttempt))'
    BY <2>1, <2>2 DEF InForceSince, Latest
  <2>4. answer[r] \in Nat
    BY <1>i DEF TypeOK, Latest
  <2>5. \A j \in Jtis : refusedBy'[j] <= revoked'
    BY <2>1, <2>2, <2>4, <1>i, <1>p DEF ListOK
  <2> QED BY <2>1, <2>2, <2>3, <2>5, <1>i, <1>p DEF ListOK
<1>7. ASSUME NEW r \in Tasks, RefreshFails(r) PROVE ListOK'
  BY <1>7, <1>s, <1>p, <1>i DEF RefreshFails, Close, ListOK, listVars
<1>8. ASSUME NEW r \in Tasks, Reply(r) PROVE ListOK'
  <2>1. /\ pc' = [pc EXCEPT ![r] = "idle"] /\ jti' = [jti EXCEPT ![r] = None]
        /\ refusedBy' = [refusedBy EXCEPT ![jti[r]] = revoked] \/ refusedBy' = refusedBy
        /\ UNCHANGED <<issued, revoked, lastAttempt, attemptOk>>
    BY <1>8 DEF Reply, Finish, endpointVars, listVars, historyVars
  <2>2. \A j \in Jtis : refusedBy'[j] <= revoked'
    BY <2>1, <1>p, <1>i DEF ListOK
  <2> QED BY <2>1, <2>2, <1>p, <1>i DEF ListOK, InForceSince, Latest
<1>9. ASSUME NEW r \in Tasks, Cancel(r) PROVE ListOK'
  <2>1. /\ pc' = [pc EXCEPT ![r] = "idle"] /\ jti' = [jti EXCEPT ![r] = None]
        /\ UNCHANGED <<issued, revoked, lastAttempt, attemptOk, refusedBy>>
    BY <1>9 DEF Cancel, Finish, Close, endpointVars, listVars, historyVars
  <2> QED BY <2>1, <1>s, <1>p, <1>i DEF ListOK
<1>10. CASE Environment
  <2>1. UNCHANGED <<pc, jti, revoked, lastAttempt, attemptOk, refusedBy>>
    BY <1>10 DEF Environment, listVars, taskVars, historyVars
  <2>2. CASE Publish
    <3>1. ASSUME attemptOk PROVE (revoked \in InForceSince(lastAttempt))'
      <4>1. lastAttempt \in Nat /\ lastAttempt <= clock /\ revoked \in InForceSince(lastAttempt)
        BY <1>i, <3>1 DEF ListOK, TimeOK, TypeOK
      <4>2. issued \in Seq(Publications) /\ clock \in Nat
        BY <1>i DEF TypeOK
      <4>3. PICK t \in Int : t = lastAttempt
        BY <4>1
      <4>4. revoked \in InForceSince(t)'
        BY <4>1, <4>2, <4>3, <2>2, InForceKept
      <4> QED BY <4>3, <4>4, <2>1 DEF InForceSince, Latest
    <3> QED BY <2>1, <3>1, <1>i DEF ListOK
  <2>3. CASE UNCHANGED issued
    BY <2>1, <2>3, <1>s, <1>i DEF ListOK
  <2> QED BY <1>10, <2>2, <2>3 DEF Environment, Tick, Answer, Break
<1>11. CASE UNCHANGED vars
  BY <1>11, <1>s, <1>i DEF vars, endpointVars, listVars, taskVars, historyVars, ListOK
<1> QED
  BY <1>1, <1>2, <1>3, <1>4, <1>5, <1>6, <1>7, <1>8, <1>9, <1>10, <1>11
  DEF Next, Step, Deliver

(* Before the first check the invariant holds. *)
LEMMA InitInv == Init => IInv
<1> SUFFICES ASSUME Init PROVE IInv
  OBVIOUS
<1> USE DEF Init, LockInit, EndpointInit
<1>1. PICK d \in Docs : issued = <<[at |-> 0, doc |-> d]>>
  OBVIOUS
<1>2. [at |-> 0, doc |-> d] \in Publications
  BY DEF Publications
<1>3. issued \in Seq(Publications) /\ issued # <<>> /\ Len(issued) = 1
  BY <1>1, <1>2
<1>4. TypeOK
  <2>1. queue \in Seq(Tasks) /\ Latest = 1 /\ 0 \in 0..Latest
    BY <1>3 DEF Latest
  <2>2. /\ pc \in [Tasks -> Running \cup {"idle", "wait", "fetch"}]
        /\ jti \in [Tasks -> Jtis \cup {None}]
        /\ asked \in [Tasks -> Nat]
        /\ refusedBy \in [Jtis -> 0..Latest]
    BY <2>1
  <2> QED BY <1>3, <2>1, <2>2 DEF TypeOK, Outcomes
<1>5. LockOK
  BY DEF LockOK, QueueOf, Waiters
<1>6. FetchOK /\ TimeOK /\ ListOK
  BY DEF FetchOK, TimeOK, ListOK
<1> QED BY <1>4, <1>5, <1>6 DEF IInv

(* The invariant is inductive. *)
THEOREM InductiveInvariant == Spec => []IInv
<1>1. IInv /\ [Next]_vars => IInv'
  BY LockStep, TypeStep, FetchStep, TimeStep, ListStep DEF IInv
<1> QED BY <1>1, InitInv, PTL DEF Spec

(* Every variable keeps its type. *)
THEOREM TypeCorrect == Spec => []TypeOK
<1>1. IInv => TypeOK
  BY DEF IInv
<1> QED BY <1>1, InductiveInvariant, PTL

(* However many checks find the list due at once, at most one of them has  *)
(* a request outstanding, and it holds the lock.                           *)
THEOREM SingleFlight == Spec => []OneFetchAtATime
<1>1. IInv => OneFetchAtATime
  BY DEF IInv, LockOK, FetchOK, OneFetchAtATime
<1> QED BY <1>1, InductiveInvariant, PTL

(* A check ends with "accepted" only in Reply, when its jti is not listed. *)
LEMMA AcceptedUnlisted ==
    ASSUME IInv, [Next]_vars, NEW r \in Tasks, Ends(r, "accepted")
    PROVE  Reply(r) /\ jti[r] \notin Listed
<1> USE DEF Ends, Goto
<1>p. pc \in [Tasks -> Running \cup {"idle", "wait", "fetch"}]
  BY DEF IInv, TypeOK
<1>1. ASSUME NEW s \in Tasks, Check(s) \/ FirstLook(s) \/ Resume(s) \/ AlreadyRefreshed(s)
                              \/ RefreshStart(s) \/ RefreshSucceeds(s) \/ RefreshFails(s)
      PROVE  FALSE
  <2>1. \E l \in {"check", "answer", "recheck", "wait", "fetch"} : pc' = [pc EXCEPT ![s] = l]
    BY <1>1 DEF Check, FirstLook, Resume, AlreadyRefreshed, RefreshStart, RefreshSucceeds, RefreshFails
  <2> QED BY <2>1, <1>p
<1>2. ASSUME NEW s \in Tasks, Reply(s) PROVE Reply(r) /\ jti[r] \notin Listed
  <2>1. s = r
    BY <1>2, <1>p DEF Reply, Finish
  <2> QED BY <1>2, <2>1 DEF Reply, Finish
<1>3. ASSUME NEW s \in Tasks, Cancel(s) PROVE FALSE
  BY <1>3 DEF Cancel, Finish
<1>4. CASE Environment
  BY <1>4 DEF Environment, taskVars
<1>5. CASE UNCHANGED vars
  BY <1>5 DEF vars, taskVars
<1> QED BY <1>1, <1>2, <1>3, <1>4, <1>5 DEF Next, Step, Deliver

(* A refused token stays refused while the issuer goes on listing it.      *)
THEOREM RefusalIsFinal == Spec => RefusalSticks
<1> DEFINE A == \A r \in Tasks :
          Ends(r, "accepted") /\ refusedBy[jti[r]] # 0 =>
             \E v \in refusedBy[jti[r]]..Latest : jti[r] \notin issued[v].doc
<1>1. IInv /\ [Next]_vars => [A]_vars
  <2> SUFFICES ASSUME IInv, [Next]_vars, NEW r \in Tasks,
                      Ends(r, "accepted"), refusedBy[jti[r]] # 0
               PROVE  \E v \in refusedBy[jti[r]]..Latest : jti[r] \notin issued[v].doc
    OBVIOUS
  <2>1. jti[r] \in Jtis /\ refusedBy[jti[r]] <= revoked /\ refusedBy[jti[r]] \in Nat
    BY DEF IInv, ListOK, Ends, TypeOK, Latest
  <2>2. revoked \in refusedBy[jti[r]]..Latest /\ revoked # 0
    BY <2>1 DEF IInv, TypeOK, Latest
  <2>3. jti[r] \notin Listed
    BY AcceptedUnlisted
  <2> QED BY <2>2, <2>3 DEF Listed
<1> QED BY <1>1, InductiveInvariant, PTL DEF RefusalSticks, Spec

(* A revocation that is older than one interval is noticed, unless the     *)
(* last attempt failed or has not come back.                               *)
THEOREM RevocationIsNoticed == Spec => RevocationNoticed
<1> DEFINE A == \A r \in Tasks :
          Ends(r, "accepted") /\ ListedSince(jti[r], asked[r] - RefreshInterval) => ~attemptOk
<1>1. IInv /\ [Next]_vars => [A]_vars
  <2> SUFFICES ASSUME IInv, [Next]_vars, NEW r \in Tasks, Ends(r, "accepted"), attemptOk
               PROVE  ~ListedSince(jti[r], asked[r] - RefreshInterval)
    OBVIOUS
  <2>1. Reply(r) /\ jti[r] \notin Listed
    BY AcceptedUnlisted
  <2>2. lastAttempt \in Nat /\ lastAttempt > asked[r] - RefreshInterval
    BY <2>1 DEF Reply, IInv, TimeOK, TypeOK
  <2>3. revoked \in InForceSince(lastAttempt)
    BY DEF IInv, ListOK
  <2>4. revoked \in InForceSince(asked[r] - RefreshInterval)
    <3>1. asked[r] - RefreshInterval \in Int /\ issued \in Seq(Publications)
      BY DEF IInv, TypeOK
    <3> QED BY <2>2, <2>3, <3>1, InForceEarlier
  <2>5. jti[r] \notin issued[revoked].doc
    BY <2>1, <2>3 DEF Listed, InForceSince
  <2> QED BY <2>4, <2>5 DEF ListedSince
<1> QED BY <1>1, InductiveInvariant, PTL DEF RevocationNoticed, Spec

(* The concurrent implementation is a throttled copy: every step either    *)
(* leaves the copy, its attempt and its fetch alone or is one of the       *)
(* abstract steps.                                                         *)
THEOREM Refinement == Spec => RefinesThrottledCopy
<1> USE DEF Abstract!copyVars, Goto
<1>1. Init => Abstract!Init
  BY DEF Init, EndpointInit, Abstract!Init
<1>2. ASSUME IInv, [Next]_vars PROVE [Abstract!Next]_(Abstract!copyVars)
  <2>i. TypeOK /\ LockOK /\ FetchOK
    BY <1>2 DEF IInv
  <2>h. phase \in [Tasks -> {"none", "sent", "answered", "broken"}]
    BY <2>i DEF TypeOK
  <2>o. ASSUME NEW r \in Tasks, pc[r] \in {"recheck", "fetch"}
        PROVE  \A s \in Tasks : phase[s] # "none" <=> s = r /\ pc[r] = "fetch"
    BY <2>o, <2>i DEF LockOK, FetchOK
  <2>c. ASSUME NEW r \in Tasks, pc[r] = "fetch", Close(r)
        PROVE  \A s \in Tasks : phase'[s] = "none"
    BY <2>c, <2>o, <2>h DEF Close
  <2>1. ASSUME NEW r \in Tasks, Check(r) \/ FirstLook(r) \/ Resume(r) \/ AlreadyRefreshed(r) \/ Reply(r)
        PROVE  UNCHANGED Abstract!copyVars
    BY <2>1 DEF Check, FirstLook, Resume, AlreadyRefreshed, Reply, endpointVars, listVars
  <2>2. ASSUME NEW r \in Tasks, RefreshStart(r) PROVE Abstract!Begin
    <3>1. \A s \in Tasks : phase[s] = "none"
      BY <2>2, <2>o, <2>h DEF RefreshStart
    <3>2. phase'[r] = "sent"
      BY <2>2, <2>h DEF RefreshStart, Send
    <3> QED BY <2>2, <3>1, <3>2 DEF RefreshStart, Send, Due, Abstract!Begin
  <2>3. ASSUME NEW r \in Tasks, RefreshSucceeds(r) PROVE Abstract!Take
    <3>1. answer[r] >= revoked /\ answer[r] \in InForceSince(lastAttempt)
      BY <2>3, <2>i DEF RefreshSucceeds, FetchOK
    <3>2. phase[r] # "none" /\ \A s \in Tasks : phase'[s] = "none"
      BY <2>3, <2>c, <2>i DEF RefreshSucceeds, FetchOK
    <3> QED BY <2>3, <3>1, <3>2 DEF RefreshSucceeds, Close, Abstract!Take, InForceSince, Latest
  <2>4. ASSUME NEW r \in Tasks, RefreshFails(r) PROVE Abstract!GiveUp
    <3>1. phase[r] # "none" /\ \A s \in Tasks : phase'[s] = "none"
      BY <2>4, <2>c DEF RefreshFails
    <3> QED BY <2>4, <3>1 DEF RefreshFails, Close, listVars, Abstract!GiveUp
  <2>5. ASSUME NEW r \in Tasks, Cancel(r) PROVE Abstract!GiveUp \/ UNCHANGED Abstract!copyVars
    <3>1. CASE pc[r] = "fetch"
      <4>1. phase[r] # "none" /\ \A s \in Tasks : phase'[s] = "none"
        BY <2>5, <3>1, <2>c, <2>i DEF Cancel, FetchOK
      <4> QED BY <2>5, <3>1, <4>1 DEF Cancel, Close, listVars, Abstract!GiveUp
    <3>2. CASE pc[r] # "fetch"
      BY <2>5, <3>2 DEF Cancel, listVars, endpointVars
    <3> QED BY <3>1, <3>2
  <2>6. CASE Environment
    <3>e. UNCHANGED <<revoked, lastAttempt>>
      BY <2>6 DEF Environment, listVars
    <3>1. CASE Tick
      BY <3>1, <3>e DEF Tick, Abstract!Tick, Abstract!Next
    <3>2. CASE Publish
      BY <3>2, <3>e DEF Publish, Abstract!Publish, Abstract!Next
    <3>3. CASE Answer \/ Break
      <4>1. UNCHANGED <<clock, issued>>
        BY <3>3 DEF Answer, Break
      <4>2. PICK c \in Tasks : phase[c] # "none" /\ phase'[c] # "none"
        BY <3>3, <2>h DEF Answer, Break
      <4> QED BY <4>1, <4>2, <3>e
    <3> QED BY <2>6, <3>1, <3>2, <3>3 DEF Environment
  <2>7. CASE UNCHANGED vars
    BY <2>7 DEF vars, endpointVars, listVars
  <2> QED
    BY <1>2, <2>1, <2>2, <2>3, <2>4, <2>5, <2>6, <2>7 DEF Next, Step, Deliver, Abstract!Next
<1> QED
  BY <1>1, <1>2, InductiveInvariant, PTL DEF Spec, RefinesThrottledCopy, Abstract!Spec

(* An attempt that is not abandoned ends in a list or in a failure.        *)
LEMMA UnfinishedStep ==
    ASSUME ~Cancellable, IInv, UnfinishedOK, [Next]_vars
    PROVE  UnfinishedOK'
<1> USE DEF Goto
<1>p. pc \in [Tasks -> Running \cup {"idle", "wait", "fetch"}] /\ lastAttempt \in Nat \cup {None}
  BY DEF IInv, TypeOK
<1>s. ASSUME UNCHANGED <<lastAttempt, attemptOk, failed>>, NEW r \in Tasks, pc[r] # "fetch", NEW l, Goto(r, l)
      PROVE  UnfinishedOK'
  <2>1. \A s \in Tasks : pc[s] = "fetch" => pc'[s] = "fetch"
    BY <1>s, <1>p
  <2> QED BY <1>s, <2>1 DEF UnfinishedOK
<1>1. ASSUME NEW r \in Tasks, Check(r) \/ FirstLook(r) \/ Resume(r) \/ AlreadyRefreshed(r) \/ Reply(r)
      PROVE  UnfinishedOK'
  <2>1. pc[r] # "fetch" /\ UNCHANGED <<lastAttempt, attemptOk, failed>> /\ \E l : Goto(r, l)
    BY <1>1 DEF Check, FirstLook, Resume, AlreadyRefreshed, Reply, Finish, listVars, historyVars
  <2> QED BY <2>1, <1>s
<1>2. ASSUME NEW r \in Tasks, RefreshStart(r) PROVE UnfinishedOK'
  <2>1. pc'[r] = "fetch"
    BY <1>2, <1>p DEF RefreshStart
  <2> QED BY <2>1 DEF UnfinishedOK
<1>3. ASSUME NEW r \in Tasks, RefreshSucceeds(r) \/ RefreshFails(r) PROVE UnfinishedOK'
  BY <1>3 DEF RefreshSucceeds, RefreshFails, UnfinishedOK
<1>4. ASSUME NEW r \in Tasks PROVE ~Cancel(r)
  BY DEF Cancel
<1>5. CASE Environment \/ UNCHANGED vars
  BY <1>5 DEF Environment, vars, listVars, taskVars, historyVars, UnfinishedOK
<1> QED BY <1>1, <1>2, <1>3, <1>4, <1>5 DEF Next, Step, Deliver

(* A revocation older than one interval goes unnoticed only if a fetch has *)
(* failed or while another check is refreshing the list.                   *)
THEOREM UnnoticedOnlyWhileRefreshing ==
    ASSUME ~Cancellable
    PROVE  Spec => NoticedButForARefresh
<1> DEFINE J == IInv /\ UnfinishedOK
           A == \A r \in Tasks :
          Ends(r, "accepted") /\ ListedSince(jti[r], asked[r] - RefreshInterval) => ~attemptOk
           B == \A r \in Tasks :
          Ends(r, "accepted") /\ ListedSince(jti[r], asked[r] - RefreshInterval) =>
             failed \/ \E s \in Tasks \ {r} : pc[s] = "fetch"
<1>1. Init => J
  BY InitInv DEF Init, UnfinishedOK
<1>2. J /\ [Next]_vars => J'
  <2> SUFFICES ASSUME J, [Next]_vars PROVE J'
    OBVIOUS
  <2>1. IInv'
    BY LockStep, TypeStep, FetchStep, TimeStep, ListStep DEF IInv
  <2> QED BY <2>1, UnfinishedStep
<1>3. J /\ [Next]_vars /\ [A]_vars => [B]_vars
  <2> SUFFICES ASSUME J, [Next]_vars, A, NEW r \in Tasks, Ends(r, "accepted"),
                      ListedSince(jti[r], asked[r] - RefreshInterval)
               PROVE  failed \/ \E s \in Tasks \ {r} : pc[s] = "fetch"
    OBVIOUS
  <2>1. Reply(r)
    BY AcceptedUnlisted
  <2>2. lastAttempt # None /\ pc[r] # "fetch"
    BY <2>1 DEF Reply, IInv, TimeOK
  <2>3. ~attemptOk
    OBVIOUS
  <2> QED BY <2>2, <2>3 DEF UnfinishedOK
<1> QED BY <1>1, <1>2, <1>3, RevocationIsNoticed, PTL DEF NoticedButForARefresh, RevocationNoticed, Spec

(* One check at a time notices every revocation within the interval: that  *)
(* it may take longer is the work of concurrent checks.                    *)
THEOREM NoticedAlone ==
    ASSUME ~Cancellable, \A r, s \in Tasks : r = s
    PROVE  Spec => NoticedWithinInterval
<1> DEFINE B == \A r \in Tasks :
          Ends(r, "accepted") /\ ListedSince(jti[r], asked[r] - RefreshInterval) =>
             failed \/ \E s \in Tasks \ {r} : pc[s] = "fetch"
           C == \A r \in Tasks :
          Ends(r, "accepted") /\ revoked # 0 /\ ListedSince(jti[r], asked[r] - RefreshInterval) => failed
<1>1. [B]_vars => [C]_vars
  OBVIOUS
<1> QED BY <1>1, UnnoticedOnlyWhileRefreshing, PTL DEF NoticedButForARefresh, NoticedWithinInterval
=============================================================================
