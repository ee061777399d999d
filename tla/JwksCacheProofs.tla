--------------------------- MODULE JwksCacheProofs ---------------------------
(***************************************************************************)
(* Proofs about JwksCache, for any set of requests and key ids, any        *)
(* interval and any behaviour of the issuer.                               *)
(***************************************************************************)
EXTENDS JwksCache, AsyncLockProofs, IssuerEndpointProofs

USE IntervalAssumption, DocsAssumption, NoneAssumption, NoneIsNoTask, EndpointBounds

(* Taking the lock, or joining its queue, from outside. *)
LEMMA EnterLockStep ==
    ASSUME TypeOK, LockOK, NEW r \in Tasks, NEW w \in Waiting, NEW l \in {"load", "refresh"},
           pc[r] \in {"get", "index"}, EnterLock(r, w, l)
    PROVE  LockOK'
<1> USE DEF LockOK, Waiters, Waiting, Locked, Fetching, Goto, EnterLock
<1>1. CASE Acquire(r) /\ Goto(r, l)
  <2>1. Waiters' = Waiters
    BY <1>1 DEF TypeOK
  <2>2. QueueOf(queue', Waiters')
    <3> HIDE DEF Waiters
    <3> QED BY <1>1, <2>1 DEF Acquire
  <2>3. \A s \in Tasks : pc'[s] = IF s = r THEN l ELSE pc[s]
    BY <1>1 DEF TypeOK
  <2>4. \A s \in Tasks : holder' = s <=> pc'[s] \in Locked
    BY <1>1, <2>3 DEF Acquire, Uncontended
  <2> QED BY <2>2, <2>4
<1>2. CASE Enqueue(r) /\ Goto(r, w)
  <2>1. Waiters' = Waiters \cup {r} /\ r \notin Waiters
    BY <1>2 DEF TypeOK
  <2>2. QueueOf(queue', Waiters')
    <3> HIDE DEF Waiters
    <3> QED BY <1>2, <2>1, AppendQueue DEF Enqueue
  <2> QED BY <1>2, <2>2 DEF Enqueue, TypeOK
<1> QED BY <1>1, <1>2

(* Whoever takes the lock, waits for it or leaves it, LockOK holds after.  *)
LEMMA LockStep ==
    ASSUME IInv, [Next]_vars
    PROVE  LockOK'
<1> USE DEF LockOK, Waiters, Waiting, Locked, Fetching, Goto
<1>i. TypeOK /\ LockOK
  BY DEF IInv
<1>w. ASSUME NEW r \in Tasks, pc[r] \notin Waiting, NEW l, l \notin Waiting, Goto(r, l)
      PROVE  Waiters' = Waiters
  BY <1>i, <1>w DEF TypeOK
<1>u. ASSUME NEW r \in Tasks, pc[r] \notin Waiting \cup Locked,
             NEW l, l \notin Waiting \cup Locked, Goto(r, l), UNCHANGED lockVars
      PROVE  LockOK'
  <2>1. Waiters' = Waiters /\ queue' = queue
    BY <1>u, <1>w DEF lockVars
  <2>2. QueueOf(queue', Waiters')
    <3> HIDE DEF Waiters
    <3> QED BY <2>1, <1>i
  <2>3. \A s \in Tasks : pc'[s] = IF s = r THEN l ELSE pc[s]
    BY <1>u, <1>i DEF TypeOK
  <2>4. \A s \in Tasks : holder' = s <=> pc'[s] \in Locked
    BY <1>u, <2>3, <1>i DEF lockVars
  <2> QED BY <2>2, <2>4
<1>k. ASSUME NEW r \in Tasks, pc[r] \in Locked, NEW l \in Locked, Goto(r, l), UNCHANGED lockVars
      PROVE  LockOK'
  <2>1. Waiters' = Waiters /\ queue' = queue
    BY <1>k, <1>w DEF lockVars
  <2>2. QueueOf(queue', Waiters')
    <3> HIDE DEF Waiters
    <3> QED BY <2>1, <1>i
  <2>3. \A s \in Tasks : pc'[s] = IF s = r THEN l ELSE pc[s]
    BY <1>k, <1>i DEF TypeOK
  <2>4. \A s \in Tasks : holder' = s <=> pc'[s] \in Locked
    BY <1>k, <2>3, <1>i DEF lockVars
  <2> QED BY <2>2, <2>4
<1>r. ASSUME NEW r \in Tasks, pc[r] \in Locked, NEW l, l \notin Waiting \cup Locked, Goto(r, l), Release
      PROVE  LockOK'
  <2>1. Waiters' = Waiters /\ queue' = queue
    BY <1>r, <1>w DEF Release
  <2>2. QueueOf(queue', Waiters')
    <3> HIDE DEF Waiters
    <3> QED BY <2>1, <1>i
  <2>3. \A s \in Tasks : pc'[s] = IF s = r THEN l ELSE pc[s]
    BY <1>r, <1>i DEF TypeOK
  <2>4. \A s \in Tasks : holder' = s <=> pc'[s] \in Locked
    BY <1>r, <2>3, <1>i DEF Release
  <2> QED BY <2>2, <2>4
<1>1. ASSUME NEW r \in Tasks, Call(r) PROVE LockOK'
  BY <1>1, <1>u DEF Call
<1>2. ASSUME NEW r \in Tasks, Get(r) PROVE LockOK'
  BY <1>2, <1>u, <1>i, EnterLockStep DEF Get
<1>3. ASSUME NEW r \in Tasks, Resume(r) PROVE LockOK'
  <2>1. Waiters' = Waiters \ {r}
    BY <1>3, <1>i DEF Resume, TypeOK
  <2>2. QueueOf(queue', Waiters')
    BY <1>3, <1>i, <2>1, TailQueue DEF Resume, Wake
  <2> QED BY <1>3, <1>i, <2>2 DEF Resume, Wake, TypeOK
<1>4. ASSUME NEW r \in Tasks, LoadAlreadyDone(r) PROVE LockOK'
  BY <1>4, <1>r DEF LoadAlreadyDone, LoadDone
<1>5. ASSUME NEW r \in Tasks, LoadThrottled(r) PROVE LockOK'
  BY <1>5, <1>r DEF LoadThrottled, Finish
<1>6. ASSUME NEW r \in Tasks, LoadStart(r) PROVE LockOK'
  BY <1>6, <1>k DEF LoadStart
<1>7. ASSUME NEW r \in Tasks, LoadSucceeds(r) PROVE LockOK'
  BY <1>7, <1>r DEF LoadSucceeds, LoadDone
<1>8. ASSUME NEW r \in Tasks, LoadFails(r) PROVE LockOK'
  BY <1>8, <1>r DEF LoadFails, Finish
<1>9. ASSUME NEW r \in Tasks, Index(r) PROVE LockOK'
  <2>1. CASE EnterLock(r, "refreshWait", "refresh")
    BY <1>9, <2>1, <1>i, EnterLockStep DEF Index
  <2>2. CASE ~EnterLock(r, "refreshWait", "refresh")
    <3>1. Goto(r, "idle") /\ UNCHANGED lockVars /\ pc[r] = "index"
      BY <1>9, <2>2 DEF Index, Finish
    <3> QED BY <3>1, <1>u
  <2> QED BY <2>1, <2>2
<1>10. ASSUME NEW r \in Tasks, RefreshSkipped(r) PROVE LockOK'
  BY <1>10, <1>r DEF RefreshSkipped, RefreshDone
<1>11. ASSUME NEW r \in Tasks, RefreshStart(r) PROVE LockOK'
  BY <1>11, <1>k DEF RefreshStart
<1>12. ASSUME NEW r \in Tasks, RefreshSucceeds(r) PROVE LockOK'
  BY <1>12, <1>r DEF RefreshSucceeds, RefreshDone
<1>13. ASSUME NEW r \in Tasks, RefreshFails(r) PROVE LockOK'
  BY <1>13, <1>r DEF RefreshFails, Finish
<1>14. ASSUME NEW r \in Tasks, Cancel(r) PROVE LockOK'
  <2>g. Goto(r, "idle") /\ pc[r] \in Waiting \cup Fetching
    BY <1>14 DEF Cancel, Finish
  <2>1. CASE holder = r
    <3>1. pc[r] \in Locked /\ Release
      BY <1>14, <1>i, <2>1 DEF Cancel, Leave
    <3> QED BY <2>1, <2>g, <3>1, <1>r
  <2>2. CASE holder # r
    <3>1. PICK i \in DOMAIN queue :
             /\ queue[i] = r
             /\ queue' = SubSeq(queue, 1, i - 1) \o SubSeq(queue, i + 1, Len(queue))
             /\ holder' = holder
      BY <1>14, <2>2 DEF Cancel, Leave
    <3>2. pc[r] \in Waiting
      BY <3>1, <1>i DEF QueueOf
    <3>3. Waiters' = Waiters \ {r}
      BY <2>g, <1>i DEF TypeOK
    <3>4. QueueOf(queue', Waiters')
      <4> HIDE DEF Waiters
      <4>1. QueueOf(queue, Waiters)
        BY <1>i
      <4>2. QueueOf(SubSeq(queue, 1, i - 1) \o SubSeq(queue, i + 1, Len(queue)), Waiters \ {queue[i]})
        BY <4>1, RemoveQueue
      <4> QED BY <3>1, <3>3, <4>2
    <3>5. \A s \in Tasks : pc'[s] = IF s = r THEN "idle" ELSE pc[s]
      BY <2>g, <1>i DEF TypeOK
    <3>6. \A s \in Tasks : holder' = s <=> pc'[s] \in Locked
      BY <1>i, <3>1, <3>2, <3>5
    <3> QED BY <3>4, <3>6
  <2> QED BY <2>1, <2>2
<1>15. CASE Environment
  BY <1>15, <1>i DEF Environment, lockVars, taskVars
<1>16. CASE UNCHANGED vars
  BY <1>16, <1>i DEF vars, lockVars, taskVars
<1> QED
  BY <1>1, <1>2, <1>3, <1>4, <1>5, <1>6, <1>7, <1>8, <1>9, <1>10, <1>11, <1>12, <1>13, <1>14, <1>15, <1>16
  DEF Next, Step, Deliver

(* Every step keeps the types. *)
LEMMA TypeStep ==
    ASSUME IInv, [Next]_vars
    PROVE  TypeOK'
<1> USE DEF TypeOK, Goto, Latest, Running, Waiting, Fetching, Time
<1>q. TypeOK /\ queue' \in Seq(Tasks)
  BY LockStep DEF IInv, LockOK, QueueOf
<1>f. ASSUME NEW r \in Tasks, NEW v \in Verdicts, Finish(r, v)
      PROVE  /\ pc' \in [Tasks -> Running \cup Waiting \cup Fetching \cup {"idle"}]
             /\ kid' \in [Tasks -> Kids \cup {None}]
             /\ again' \in [Tasks -> BOOLEAN]
             /\ started' \in [Tasks -> Nat]
             /\ outcome' \in Verdicts
             /\ asked' \in [Tasks -> Nat]
  BY <1>f, <1>q DEF Finish
<1>s. ASSUME NEW r \in Tasks, StoreAnswer(r) PROVE cache' \in 0..Latest
  BY <1>s, <1>q DEF StoreAnswer
<1>h. ASSUME sent' = <<sent[2], clock>> PROVE sent' \in [1..2 -> Time]
  BY <1>h, <1>q
<1>e. ASSUME NEW r \in Tasks, NEW w \in Waiting, NEW l \in Running, EnterLock(r, w, l)
      PROVE  /\ pc' \in [Tasks -> Running \cup Waiting \cup Fetching \cup {"idle"}]
             /\ holder' \in Tasks \cup {None}
             /\ UNCHANGED <<kid, again, started, outcome, asked>>
  <2>1. \E x \in {w, l} : pc' = [pc EXCEPT ![r] = x]
    BY <1>e DEF EnterLock
  <2>2. holder' = r \/ holder' = holder
    BY <1>e DEF EnterLock, Acquire, Enqueue
  <2> QED BY <1>e, <1>q, <2>1, <2>2 DEF EnterLock
<1>v. \A v \in {"resolved", "unknown_kid", "jwks_error", "cancelled"} : v \in Verdicts
  BY DEF Verdicts
<1>1. ASSUME NEW r \in Tasks, Call(r) PROVE TypeOK'
  BY <1>1, <1>q DEF Call, lockVars, endpointVars, cacheVars, historyVars
<1>2. ASSUME NEW r \in Tasks, Get(r) PROVE TypeOK'
  <2>1. CASE EnterLock(r, "loadWait", "load")
    BY <1>2, <2>1, <1>e, <1>q DEF Get, endpointVars, cacheVars, historyVars
  <2>2. CASE ~EnterLock(r, "loadWait", "load")
    <3>1. /\ pc' = [pc EXCEPT ![r] = "index"]
          /\ UNCHANGED <<lockVars, kid, again, started, outcome, asked, endpointVars, cacheVars, historyVars>>
      BY <1>2, <2>2 DEF Get
    <3> QED BY <3>1, <1>q DEF lockVars, endpointVars, cacheVars, historyVars
  <2> QED BY <2>1, <2>2
<1>3. ASSUME NEW r \in Tasks, Resume(r) PROVE TypeOK'
  BY <1>3, <1>q DEF Resume, Wake, endpointVars, cacheVars, historyVars
<1>4. ASSUME NEW r \in Tasks, LoadAlreadyDone(r) PROVE TypeOK'
  BY <1>4, <1>q DEF LoadAlreadyDone, LoadDone, Release, endpointVars, cacheVars, historyVars
<1>5. ASSUME NEW r \in Tasks, LoadThrottled(r) PROVE TypeOK'
  BY <1>5, <1>q, <1>f, <1>v DEF LoadThrottled, Release, endpointVars, cacheVars, historyVars
<1>6. ASSUME NEW r \in Tasks, LoadStart(r) PROVE TypeOK'
  BY <1>6, <1>q, <1>h DEF LoadStart, StartFetch, Send, lockVars, cacheVars
<1>7. ASSUME NEW r \in Tasks, LoadSucceeds(r) PROVE TypeOK'
  BY <1>7, <1>q, <1>s DEF LoadSucceeds, LoadDone, Close, Release, historyVars
<1>8. ASSUME NEW r \in Tasks, LoadFails(r) PROVE TypeOK'
  <2>1. issued' = issued /\ clock' = clock /\ phase' \in [Tasks -> {"none", "sent", "answered", "broken"}]
        /\ answer' \in [Tasks -> 0..Len(issued')]
    BY <1>8, <1>q, RequestTypes DEF LoadFails, Close
  <2>2. holder' = None
    BY <1>8 DEF LoadFails, Release
  <2>3. \E v \in Verdicts : Finish(r, v)
    BY <1>8, <1>v DEF LoadFails
  <2>4. lastFailedLoad' \in Time /\ brokenAt' \in Time
        /\ UNCHANGED <<cache, lastRefresh, sent, refreshOk>>
    BY <1>8, <1>q DEF LoadFails
  <2> QED BY <2>1, <2>2, <2>3, <2>4, <1>q, <1>f
<1>9. ASSUME NEW r \in Tasks, Index(r) PROVE TypeOK'
  <2>1. CASE EnterLock(r, "refreshWait", "refresh")
    BY <1>9, <2>1, <1>e, <1>q DEF Index, endpointVars, cacheVars, historyVars
  <2>2. CASE ~EnterLock(r, "refreshWait", "refresh")
    <3>1. /\ \E v \in {"jwks_error", "resolved", "unknown_kid"} : Finish(r, v)
          /\ UNCHANGED <<lockVars, endpointVars, cacheVars, historyVars>>
      BY <1>9, <2>2 DEF Index
    <3>2. \E v \in Verdicts : Finish(r, v)
      BY <3>1, <1>v
    <3> QED BY <3>1, <3>2, <1>q, <1>f DEF lockVars, endpointVars, cacheVars, historyVars
  <2> QED BY <2>1, <2>2
<1>10. ASSUME NEW r \in Tasks, RefreshSkipped(r) PROVE TypeOK'
  BY <1>10, <1>q DEF RefreshSkipped, RefreshDone, Release, endpointVars, cacheVars, historyVars
<1>11. ASSUME NEW r \in Tasks, RefreshStart(r) PROVE TypeOK'
  BY <1>11, <1>q, <1>h DEF RefreshStart, Send, lockVars
<1>12. ASSUME NEW r \in Tasks, RefreshSucceeds(r) PROVE TypeOK'
  BY <1>12, <1>q, <1>s DEF RefreshSucceeds, RefreshDone, Close, Release
<1>13. ASSUME NEW r \in Tasks, RefreshFails(r) PROVE TypeOK'
  <2>1. issued' = issued /\ clock' = clock /\ phase' \in [Tasks -> {"none", "sent", "answered", "broken"}]
        /\ answer' \in [Tasks -> 0..Len(issued')]
    BY <1>13, <1>q, RequestTypes DEF RefreshFails, Close
  <2> QED BY <1>13, <2>1, <1>q, <1>f, <1>v DEF RefreshFails, Release, cacheVars
<1>14. ASSUME NEW r \in Tasks, Cancel(r) PROVE TypeOK'
  <2>1. issued' = issued /\ clock' = clock /\ phase' \in [Tasks -> {"none", "sent", "answered", "broken"}]
        /\ answer' \in [Tasks -> 0..Len(issued')]
    BY <1>14, <1>q, RequestTypes DEF Cancel, Close, endpointVars
  <2>2. holder' \in Tasks \cup {None}
    <3>1. holder' = holder \/ holder' = None
      BY <1>14 DEF Cancel, Leave, Release
    <3> QED BY <3>1, <1>q
  <2>3. Finish(r, "cancelled") /\ UNCHANGED <<cacheVars, historyVars>>
    BY <1>14 DEF Cancel
  <2>4. /\ pc' \in [Tasks -> Running \cup Waiting \cup Fetching \cup {"idle"}]
        /\ kid' \in [Tasks -> Kids \cup {None}]
        /\ again' \in [Tasks -> BOOLEAN]
        /\ started' \in [Tasks -> Nat]
        /\ outcome' \in Verdicts
        /\ asked' \in [Tasks -> Nat]
    BY <2>3, <1>f, <1>v
  <2>5. UNCHANGED <<cache, lastRefresh, lastFailedLoad, sent, refreshOk, brokenAt>>
    BY <2>3 DEF cacheVars, historyVars
  <2> QED BY <2>1, <2>2, <2>4, <2>5, <1>q
<1>15. CASE Environment
  <2>e. UNCHANGED <<holder, cache, lastRefresh, lastFailedLoad, taskVars, sent, refreshOk, brokenAt>>
    BY <1>15 DEF Environment, lockVars, cacheVars, historyVars
  <2>1. CASE Tick
    <3>1. clock' \in Nat /\ UNCHANGED <<issued, phase, answer>>
      BY <2>1, <1>q DEF Tick
    <3> QED BY <3>1, <2>e, <1>q DEF taskVars
  <2>2. CASE Publish
    <3>1. PICK d \in Docs : issued' = Append(issued, [at |-> clock, doc |-> d])
      BY <2>2 DEF Publish
    <3>2. [at |-> clock, doc |-> d] \in Publications
      BY <1>q DEF Publications
    <3>3. issued' \in Seq(Publications) /\ issued' # <<>> /\ Len(issued') = Len(issued) + 1
      <4>1. issued \in Seq(Publications)
        BY <1>q
      <4> HIDE DEF TypeOK
      <4> QED BY <3>1, <3>2, <4>1
    <3>4. 0..Len(issued) \subseteq 0..Len(issued') /\ Len(issued) \in Nat
      BY <3>3, <1>q
    <3>5. UNCHANGED <<clock, phase, answer>>
      BY <2>2 DEF Publish
    <3> QED BY <2>e, <3>3, <3>4, <3>5, <1>q DEF taskVars
  <2>3. CASE Answer
    BY <2>3, <2>e, <1>q DEF Answer, taskVars
  <2>4. CASE Break
    BY <2>4, <2>e, <1>q DEF Break, taskVars
  <2> QED BY <1>15, <2>1, <2>2, <2>3, <2>4 DEF Environment
<1>16. CASE UNCHANGED vars
  BY <1>16, <1>q DEF vars, lockVars, endpointVars, cacheVars, taskVars, historyVars
<1> QED
  BY <1>1, <1>2, <1>3, <1>4, <1>5, <1>6, <1>7, <1>8, <1>9, <1>10, <1>11, <1>12, <1>13, <1>14, <1>15, <1>16
  DEF Next, Step, Deliver

(* Only the task that sent the outstanding request consumes its outcome;   *)
(* the answer it takes is no older than the cache, because no other fetch  *)
(* ends in between.                                                        *)
LEMMA FetchStep ==
    ASSUME IInv, [Next]_vars
    PROVE  FetchOK'
<1> USE DEF Goto, Fetching
<1>i. TypeOK /\ LockOK /\ FetchOK /\ TimeOK
  BY DEF IInv
<1>p. pc \in [Tasks -> Running \cup Waiting \cup Fetching \cup {"idle"}]
  BY <1>i DEF TypeOK
<1>h. /\ phase \in [Tasks -> {"none", "sent", "answered", "broken"}]
      /\ answer \in [Tasks -> 0..Latest]
  BY <1>i DEF TypeOK
<1>s. ASSUME UNCHANGED <<issued, phase, answer, cache, lastRefresh>>,
             NEW r \in Tasks, pc[r] \notin Fetching, NEW l, l \notin Fetching, Goto(r, l)
      PROVE  FetchOK'
  <2>1. \A s \in Tasks : pc[s] \in Fetching <=> pc'[s] \in Fetching
    BY <1>s, <1>p
  <2> QED BY <1>i, <1>s, <2>1 DEF FetchOK, InForceSince, Latest
<1>o. ASSUME NEW r \in Tasks, pc[r] \in Locked
      PROVE  \A s \in Tasks \ {r} : phase[s] = "none" /\ pc[s] \notin Fetching
  BY <1>o, <1>i DEF LockOK, FetchOK, Locked
<1>c. ASSUME NEW r \in Tasks, pc[r] \in Fetching, NEW l, l \notin Fetching, Goto(r, l), Close(r)
      PROVE  FetchOK'
  <2>1. \A s \in Tasks : phase'[s] = "none" /\ pc'[s] \notin Fetching
    BY <1>c, <1>o, <1>p, <1>h DEF Close, Locked
  <2> QED BY <2>1 DEF FetchOK
<1>b. ASSUME NEW r \in Tasks, pc[r] \in Locked, NEW l \in Fetching, Goto(r, l), Send(r)
      PROVE  FetchOK'
  <2>1. \A s \in Tasks : phase'[s] = (IF s = r THEN "sent" ELSE "none") /\ (pc'[s] \in Fetching <=> s = r)
    BY <1>b, <1>o, <1>p, <1>h DEF Send
  <2> QED BY <2>1 DEF FetchOK
<1>1. ASSUME NEW r \in Tasks, Call(r) PROVE FetchOK'
  BY <1>1, <1>s DEF Call, endpointVars, cacheVars
<1>2. ASSUME NEW r \in Tasks, Get(r) PROVE FetchOK'
  BY <1>2, <1>s DEF Get, EnterLock, endpointVars, cacheVars
<1>3. ASSUME NEW r \in Tasks, Resume(r) PROVE FetchOK'
  BY <1>3, <1>s DEF Resume, Waiting, endpointVars, cacheVars
<1>4. ASSUME NEW r \in Tasks, LoadAlreadyDone(r) PROVE FetchOK'
  BY <1>4, <1>s DEF LoadAlreadyDone, LoadDone, endpointVars, cacheVars
<1>5. ASSUME NEW r \in Tasks, LoadThrottled(r) PROVE FetchOK'
  BY <1>5, <1>s DEF LoadThrottled, Finish, endpointVars, cacheVars
<1>6. ASSUME NEW r \in Tasks, LoadStart(r) PROVE FetchOK'
  BY <1>6, <1>b DEF LoadStart, StartFetch, Locked
<1>7. ASSUME NEW r \in Tasks, LoadSucceeds(r) PROVE FetchOK'
  BY <1>7, <1>c DEF LoadSucceeds, LoadDone
<1>8. ASSUME NEW r \in Tasks, LoadFails(r) PROVE FetchOK'
  BY <1>8, <1>c DEF LoadFails, Finish
<1>9. ASSUME NEW r \in Tasks, Index(r) PROVE FetchOK'
  <2>1. /\ pc[r] = "index"
        /\ \E l \in {"idle", "refreshWait", "refresh"} : Goto(r, l)
        /\ UNCHANGED <<endpointVars, cacheVars>>
    BY <1>9 DEF Index, Finish, EnterLock
  <2> QED BY <2>1, <1>s DEF endpointVars, cacheVars
<1>10. ASSUME NEW r \in Tasks, RefreshSkipped(r) PROVE FetchOK'
  BY <1>10, <1>s DEF RefreshSkipped, RefreshDone, endpointVars, cacheVars
<1>11. ASSUME NEW r \in Tasks, RefreshStart(r) PROVE FetchOK'
  BY <1>11, <1>b DEF RefreshStart, Locked
<1>12. ASSUME NEW r \in Tasks, RefreshSucceeds(r) PROVE FetchOK'
  BY <1>12, <1>c DEF RefreshSucceeds, RefreshDone
<1>13. ASSUME NEW r \in Tasks, RefreshFails(r) PROVE FetchOK'
  BY <1>13, <1>c DEF RefreshFails, Finish
<1>14. ASSUME NEW r \in Tasks, Cancel(r) PROVE FetchOK'
  <2>1. CASE pc[r] \in Fetching
    BY <1>14, <2>1, <1>c DEF Cancel, Finish
  <2>2. CASE pc[r] \notin Fetching
    BY <1>14, <2>2, <1>s DEF Cancel, Finish, endpointVars, cacheVars
  <2> QED BY <2>1, <2>2
<1>15. CASE Environment
  <2>e. UNCHANGED <<pc, cache, lastRefresh>>
    BY <1>15 DEF Environment, cacheVars, taskVars
  <2>1. CASE Tick
    BY <2>1, <2>e, <1>i DEF Tick, FetchOK, InForceSince, Latest
  <2>2. CASE Publish
    <3>1. phase' = phase /\ answer' = answer
      BY <2>2 DEF Publish
    <3>2. ASSUME NEW r \in Tasks, phase[r] = "answered", lastRefresh # None
          PROVE  answer[r] \in InForceSince(lastRefresh)'
      <4>1. lastRefresh \in Nat /\ lastRefresh <= clock /\ answer[r] \in InForceSince(lastRefresh)
        BY <1>i, <3>2 DEF FetchOK, TimeOK, TypeOK, Time
      <4>2. issued \in Seq(Publications) /\ clock \in Nat
        BY <1>i DEF TypeOK
      <4>3. PICK t \in Int : t = lastRefresh
        BY <4>1
      <4>4. answer[r] \in InForceSince(t)'
        BY <4>1, <4>2, <4>3, <2>2, InForceKept
      <4> QED BY <4>3, <4>4, <2>e DEF InForceSince, Latest
    <3>3. ASSUME NEW r \in Tasks, phase[r] = "answered" PROVE answer[r] \in 1..Latest'
      <4>1. issued \in Seq(Publications) /\ \E d : issued' = Append(issued, d)
        BY <1>i, <2>2 DEF TypeOK, Publish
      <4>2. Len(issued') = Len(issued) + 1 /\ Len(issued) \in Nat
        BY <4>1
      <4> QED BY <4>2, <3>3, <1>i DEF FetchOK, Latest
    <3> QED BY <1>i, <2>e, <3>1, <3>2, <3>3 DEF FetchOK
  <2>3. CASE Answer
    <3>1. Latest \in 1..Latest /\ Latest >= cache
      BY <1>i DEF TypeOK, Latest
    <3>2. \A t : Latest \in InForceSince(t)
      BY <3>1 DEF InForceSince
    <3>3. PICK c \in Tasks :
             /\ phase[c] = "sent"
             /\ phase' = [phase EXCEPT ![c] = "answered"]
             /\ answer' = [answer EXCEPT ![c] = Latest]
             /\ UNCHANGED <<clock, issued>>
      BY <2>3, <1>h DEF Answer
    <3>4. \A s \in Tasks \ {c} : phase'[s] = phase[s] /\ answer'[s] = answer[s]
      BY <3>3, <1>h
    <3>5. phase'[c] = "answered" /\ answer'[c] = Latest
      BY <3>3, <1>h
    <3> QED BY <1>i, <2>e, <3>1, <3>2, <3>3, <3>4, <3>5 DEF FetchOK, InForceSince, Latest
  <2>4. CASE Break
    <3>1. PICK c \in Tasks :
             /\ phase[c] = "sent"
             /\ phase' = [phase EXCEPT ![c] = "broken"]
             /\ UNCHANGED <<clock, issued, answer>>
      BY <2>4, <1>h DEF Break
    <3> QED BY <1>i, <1>h, <2>e, <3>1 DEF FetchOK, InForceSince, Latest
  <2> QED BY <1>15, <2>1, <2>2, <2>3, <2>4 DEF Environment
<1>16. CASE UNCHANGED vars
  BY <1>16, <1>i DEF vars, endpointVars, cacheVars, taskVars, FetchOK, InForceSince, Latest
<1> QED
  BY <1>1, <1>2, <1>3, <1>4, <1>5, <1>6, <1>7, <1>8, <1>9, <1>10, <1>11, <1>12, <1>13, <1>14, <1>15, <1>16
  DEF Next, Step, Deliver

(* The clock only moves on, and a request that came out of arefresh relies *)
(* on a refresh less than one interval older than the request.             *)
LEMMA TimeStep ==
    ASSUME IInv, [Next]_vars
    PROVE  TimeOK'
<1> USE DEF Goto, Time
<1>i. TypeOK /\ TimeOK
  BY DEF IInv
<1>p. /\ pc \in [Tasks -> Running \cup Waiting \cup Fetching \cup {"idle"}]
      /\ again \in [Tasks -> BOOLEAN]
      /\ asked \in [Tasks -> Nat]
      /\ clock \in Nat
      /\ lastRefresh \in Nat \cup {None}
  BY <1>i DEF TypeOK
<1>s. ASSUME UNCHANGED <<clock, lastRefresh, again, asked>>,
             NEW r \in Tasks, pc[r] # "idle", NEW l, l \notin {"idle", "refreshFetch"}, Goto(r, l)
      PROVE  TimeOK'
  BY <1>s, <1>i, <1>p DEF TimeOK
<1>f. ASSUME UNCHANGED <<clock, lastRefresh>>, NEW r \in Tasks, NEW v, Finish(r, v)
      PROVE  TimeOK'
  <2>1. \A s \in Tasks : asked'[s] <= clock
    BY <1>f, <1>i, <1>p DEF Finish, TimeOK
  <2>2. \A s \in Tasks : pc'[s] = "idle" => ~again'[s]
    BY <1>f, <1>i, <1>p DEF Finish, TimeOK
  <2>3. \A s \in Tasks : pc'[s] = "refreshFetch" \/ again'[s] =>
           lastRefresh # None /\ lastRefresh > asked'[s] - MinRefreshInterval
    BY <1>f, <1>i, <1>p DEF Finish, TimeOK
  <2> QED BY <1>f, <1>i, <2>1, <2>2, <2>3 DEF TimeOK
<1>d. ASSUME UNCHANGED <<clock, lastRefresh>>, NEW r \in Tasks, RefreshDone(r),
             lastRefresh # None /\ lastRefresh > asked[r] - MinRefreshInterval
      PROVE  TimeOK'
  BY <1>d, <1>i, <1>p DEF RefreshDone, TimeOK
<1>1. ASSUME NEW r \in Tasks, Call(r) PROVE TimeOK'
  BY <1>1, <1>i, <1>p DEF Call, endpointVars, cacheVars, TimeOK
<1>2. ASSUME NEW r \in Tasks, Get(r) PROVE TimeOK'
  BY <1>2, <1>s DEF Get, EnterLock, endpointVars, cacheVars
<1>3. ASSUME NEW r \in Tasks, Resume(r) PROVE TimeOK'
  BY <1>3, <1>s DEF Resume, Waiting, endpointVars, cacheVars
<1>4. ASSUME NEW r \in Tasks, LoadAlreadyDone(r) PROVE TimeOK'
  BY <1>4, <1>s DEF LoadAlreadyDone, LoadDone, endpointVars, cacheVars
<1>5. ASSUME NEW r \in Tasks, LoadThrottled(r) PROVE TimeOK'
  BY <1>5, <1>f DEF LoadThrottled, endpointVars, cacheVars
<1>6. ASSUME NEW r \in Tasks, LoadStart(r) PROVE TimeOK'
  BY <1>6, <1>s DEF LoadStart, StartFetch, Send, cacheVars
<1>7. ASSUME NEW r \in Tasks, LoadSucceeds(r) PROVE TimeOK'
  BY <1>7, <1>s DEF LoadSucceeds, LoadDone, Close
<1>8. ASSUME NEW r \in Tasks, LoadFails(r) PROVE TimeOK'
  BY <1>8, <1>f DEF LoadFails, Close
<1>9. ASSUME NEW r \in Tasks, Index(r) PROVE TimeOK'
  <2>1. CASE EnterLock(r, "refreshWait", "refresh")
    BY <1>9, <2>1, <1>s DEF Index, EnterLock, endpointVars, cacheVars
  <2>2. CASE ~EnterLock(r, "refreshWait", "refresh")
    <3>1. \E v : Finish(r, v)
      BY <1>9, <2>2 DEF Index
    <3> QED BY <1>9, <3>1, <1>f DEF Index, endpointVars, cacheVars
  <2> QED BY <2>1, <2>2
<1>10. ASSUME NEW r \in Tasks, RefreshSkipped(r) PROVE TimeOK'
  <2>1. lastRefresh # None /\ lastRefresh > asked[r] - MinRefreshInterval
    BY <1>10, <1>i, <1>p DEF RefreshSkipped, Recent, TimeOK
  <2> QED BY <1>10, <2>1, <1>d DEF RefreshSkipped, endpointVars, cacheVars
<1>11. ASSUME NEW r \in Tasks, RefreshStart(r) PROVE TimeOK'
  <2>1. /\ lastRefresh' = clock /\ clock' = clock /\ clock # None
        /\ asked' = asked /\ again' = again
        /\ pc' = [pc EXCEPT ![r] = "refreshFetch"] /\ pc[r] = "refresh"
    BY <1>11, <1>p DEF RefreshStart, Send
  <2> QED BY <2>1, <1>i, <1>p DEF TimeOK
<1>12. ASSUME NEW r \in Tasks, RefreshSucceeds(r) PROVE TimeOK'
  BY <1>12, <1>i, <1>d DEF RefreshSucceeds, Close, TimeOK
<1>13. ASSUME NEW r \in Tasks, RefreshFails(r) PROVE TimeOK'
  BY <1>13, <1>f DEF RefreshFails, Close, cacheVars
<1>14. ASSUME NEW r \in Tasks, Cancel(r) PROVE TimeOK'
  BY <1>14, <1>f DEF Cancel, Close, endpointVars, cacheVars
<1>15. CASE Environment
  <2>1. /\ UNCHANGED <<pc, again, asked, lastRefresh>>
        /\ clock' = clock \/ clock' = clock + 1
    BY <1>15 DEF Environment, Tick, Publish, Answer, Break, cacheVars, taskVars
  <2> QED BY <2>1, <1>i, <1>p DEF TimeOK
<1>16. CASE UNCHANGED vars
  BY <1>16, <1>i DEF vars, endpointVars, cacheVars, taskVars, TimeOK
<1> QED
  BY <1>1, <1>2, <1>3, <1>4, <1>5, <1>6, <1>7, <1>8, <1>9, <1>10, <1>11, <1>12, <1>13, <1>14, <1>15, <1>16
  DEF Next, Step, Deliver

(* What is cached after a refresh that succeeded was in force since it.    *)
LEMMA CopyStep ==
    ASSUME IInv, [Next]_vars
    PROVE  CopyOK'
<1>i. TypeOK /\ LockOK /\ FetchOK /\ TimeOK /\ CopyOK
  BY DEF IInv
<1>s. ASSUME UNCHANGED <<issued, cache, lastRefresh, refreshOk>> PROVE CopyOK'
  BY <1>i, <1>s DEF CopyOK, InForceSince, Latest
<1>a. ASSUME UNCHANGED <<issued, lastRefresh>>, NEW r \in Tasks, StoreAnswer(r), phase[r] = "answered" PROVE CopyOK'
  <2>1. lastRefresh # None => answer[r] \in InForceSince(lastRefresh)
    BY <1>i, <1>a DEF FetchOK
  <2>2. cache' = 0 \/ cache' = answer[r]
    BY <1>a DEF StoreAnswer
  <2> QED BY <1>a, <2>1, <2>2 DEF CopyOK, InForceSince, Latest
<1>1. ASSUME NEW r \in Tasks,
             Call(r) \/ Get(r) \/ Resume(r) \/ LoadAlreadyDone(r) \/ LoadThrottled(r) \/ Index(r) \/ RefreshSkipped(r)
      PROVE  CopyOK'
  BY <1>1, <1>s DEF Call, Get, Resume, LoadAlreadyDone, LoadThrottled, Index, RefreshSkipped,
                    endpointVars, cacheVars, historyVars
<1>2. ASSUME NEW r \in Tasks, LoadStart(r) PROVE CopyOK'
  BY <1>2, <1>s DEF LoadStart, StartFetch, Send, cacheVars
<1>3. ASSUME NEW r \in Tasks, LoadSucceeds(r) PROVE CopyOK'
  BY <1>3, <1>a DEF LoadSucceeds, Close
<1>4. ASSUME NEW r \in Tasks, LoadFails(r) PROVE CopyOK'
  BY <1>4, <1>s DEF LoadFails, Close
<1>5. ASSUME NEW r \in Tasks, RefreshStart(r) PROVE CopyOK'
  BY <1>5 DEF RefreshStart, CopyOK
<1>6. ASSUME NEW r \in Tasks, RefreshSucceeds(r) PROVE CopyOK'
  BY <1>6, <1>a DEF RefreshSucceeds, Close
<1>7. ASSUME NEW r \in Tasks, RefreshFails(r) PROVE CopyOK'
  BY <1>7, <1>s DEF RefreshFails, Close, cacheVars
<1>8. ASSUME NEW r \in Tasks, Cancel(r) PROVE CopyOK'
  BY <1>8, <1>s DEF Cancel, Close, endpointVars, cacheVars, historyVars
<1>9. CASE Environment
  <2>e. UNCHANGED <<cache, lastRefresh, refreshOk>>
    BY <1>9 DEF Environment, cacheVars, historyVars
  <2>1. CASE Publish
    <3>1. ASSUME refreshOk, lastRefresh # None, cache # 0 PROVE cache \in InForceSince(lastRefresh)'
      <4>1. lastRefresh \in Nat /\ lastRefresh <= clock /\ cache \in InForceSince(lastRefresh)
        BY <1>i, <3>1 DEF CopyOK, TimeOK, TypeOK, Time
      <4>2. issued \in Seq(Publications) /\ clock \in Nat
        BY <1>i DEF TypeOK
      <4>3. PICK t \in Int : t = lastRefresh
        BY <4>1
      <4>4. cache \in InForceSince(t)'
        BY <4>1, <4>2, <4>3, <2>1, InForceKept
      <4> QED BY <4>3, <4>4, <2>e DEF InForceSince, Latest
    <3> QED BY <2>e, <3>1 DEF CopyOK
  <2>2. CASE UNCHANGED issued
    BY <2>2, <2>e, <1>s
  <2> QED BY <1>9, <2>1, <2>2 DEF Environment, Tick, Answer, Break
<1>10. CASE UNCHANGED vars
  BY <1>10, <1>s DEF vars, endpointVars, cacheVars, historyVars
<1> QED
  BY <1>1, <1>2, <1>3, <1>4, <1>5, <1>6, <1>7, <1>8, <1>9, <1>10
  DEF Next, Step, Deliver

(* Before the first request the invariant holds. *)
LEMMA InitInv == Init => IInv
<1> SUFFICES ASSUME Init PROVE IInv
  OBVIOUS
<1> USE DEF Init, LockInit, EndpointInit
<1>1. PICK d \in Docs : issued = <<[at |-> 0, doc |-> d]>>
  OBVIOUS
<1>2. [at |-> 0, doc |-> d] \in Publications
  BY DEF Publications
<1>3. issued \in Seq(Publications) /\ issued # <<>> /\ Len(issued) = 1
  BY <1>1, <1>2
<1>4. TypeOK
  <2>1. queue \in Seq(Tasks) /\ 0 \in 0..Latest
    BY <1>3 DEF Latest
  <2>2. /\ pc \in [Tasks -> Running \cup Waiting \cup Fetching \cup {"idle"}]
        /\ kid \in [Tasks -> Kids \cup {None}]
        /\ again \in [Tasks -> BOOLEAN]
        /\ started \in [Tasks -> Nat]
        /\ asked \in [Tasks -> Nat]
    OBVIOUS
  <2>3. sent \in [1..2 -> Time]
    BY DEF Time
  <2> QED BY <1>3, <2>1, <2>2, <2>3 DEF TypeOK, Verdicts, Time
<1>5. LockOK
  BY DEF LockOK, QueueOf, Waiters, Waiting, Locked, Fetching
<1>6. FetchOK /\ TimeOK /\ CopyOK
  BY DEF FetchOK, TimeOK, CopyOK, Fetching
<1> QED BY <1>4, <1>5, <1>6 DEF IInv

(* The invariant is inductive. *)
THEOREM InductiveInvariant == Spec => []IInv
<1>1. IInv /\ [Next]_vars => IInv'
  BY LockStep, TypeStep, FetchStep, TimeStep, CopyStep DEF IInv
<1> QED BY <1>1, InitInv, PTL DEF Spec

(* Every variable keeps its type. *)
THEOREM TypeCorrect == Spec => []TypeOK
<1>1. IInv => TypeOK
  BY DEF IInv
<1> QED BY <1>1, InductiveInvariant, PTL

(* However many requests miss the cache at once, at most one fetch is      *)
(* outstanding, and the task that sent it holds _cache_lock.               *)
THEOREM SingleFlight == Spec => []OneFetchAtATime
<1>1. IInv => OneFetchAtATime
  BY DEF IInv, LockOK, FetchOK, OneFetchAtATime, Locked
<1> QED BY <1>1, InductiveInvariant, PTL

(* What a step may do to the cache. *)
LEMMA CacheWrites ==
    ASSUME [Next]_vars
    PROVE  \/ UNCHANGED cache
           \/ \E r \in Tasks : phase[r] = "answered" /\ StoreAnswer(r)
<1>1. ASSUME NEW r \in Tasks, Call(r) \/ Step(r) \/ Resume(r) \/ LoadFails(r) \/ RefreshFails(r) \/ Cancel(r)
      PROVE  UNCHANGED cache
  BY <1>1 DEF Call, Step, Get, Resume, LoadAlreadyDone, LoadThrottled, LoadStart, LoadFails, Index,
              RefreshSkipped, RefreshStart, RefreshFails, Cancel, cacheVars
<1>2. ASSUME NEW r \in Tasks, LoadSucceeds(r) \/ RefreshSucceeds(r)
      PROVE  phase[r] = "answered" /\ StoreAnswer(r)
  BY <1>2 DEF LoadSucceeds, RefreshSucceeds
<1> QED BY <1>1, <1>2 DEF Next, Deliver, Environment, vars, cacheVars

(* No fetch puts an older key set over a newer one.                        *)
THEOREM CacheForward == Spec => CacheMovesForward
<1> DEFINE A == cache' # 0 => cache' >= cache
<1>1. IInv /\ [Next]_vars => [A]_vars
  <2> SUFFICES ASSUME IInv, [Next]_vars, cache' # 0 PROVE cache' >= cache
    OBVIOUS
  <2>1. \A r \in Tasks : phase[r] = "answered" => answer[r] >= cache
    BY DEF IInv, FetchOK
  <2>2. cache \in Nat
    BY DEF IInv, TypeOK, Latest
  <2> QED BY <2>1, <2>2, CacheWrites DEF StoreAnswer
<1> QED BY <1>1, InductiveInvariant, PTL DEF CacheMovesForward, Spec

(* A request returns only from the places where the code raises or returns.*)
LEMMA WhoEnds ==
    ASSUME IInv, [Next]_vars, NEW r \in Tasks, pc[r] # "idle", pc'[r] = "idle"
    PROVE  \/ LoadThrottled(r) /\ outcome' = "jwks_error"
           \/ LoadFails(r) /\ outcome' = "jwks_error"
           \/ RefreshFails(r) /\ outcome' = "jwks_error"
           \/ Cancel(r) /\ outcome' = "cancelled"
           \/ Index(r) /\ ~Indexable(CachedDoc) /\ outcome' = "jwks_error"
           \/ Index(r) /\ kid[r] \in CachedDoc /\ outcome' = "resolved"
           \/ /\ Index(r) /\ outcome' = "unknown_kid"
              /\ again[r] /\ Indexable(CachedDoc) /\ kid[r] \notin CachedDoc
<1> USE DEF Goto
<1>p. pc \in [Tasks -> Running \cup Waiting \cup Fetching \cup {"idle"}]
  BY DEF IInv, TypeOK
<1>1. ASSUME NEW s \in Tasks,
             Call(s) \/ Get(s) \/ Resume(s) \/ LoadAlreadyDone(s) \/ LoadStart(s) \/ LoadSucceeds(s)
             \/ RefreshSkipped(s) \/ RefreshStart(s) \/ RefreshSucceeds(s)
      PROVE  FALSE
  <2>1. \E l \in {"get", "index", "loadWait", "load", "refresh", "loadFetch", "refreshFetch"} :
           pc' = [pc EXCEPT ![s] = l]
    BY <1>1 DEF Call, Get, EnterLock, Resume, LoadAlreadyDone, LoadDone, LoadStart, LoadSucceeds,
                RefreshSkipped, RefreshDone, RefreshStart, RefreshSucceeds
  <2> QED BY <2>1, <1>p
<1>f. ASSUME NEW s \in Tasks, NEW v, Finish(s, v) PROVE s = r /\ outcome' = v
  BY <1>f, <1>p DEF Finish
<1>2. ASSUME NEW s \in Tasks, LoadThrottled(s) PROVE s = r /\ outcome' = "jwks_error"
  BY <1>2, <1>f DEF LoadThrottled
<1>3. ASSUME NEW s \in Tasks, LoadFails(s) PROVE s = r /\ outcome' = "jwks_error"
  BY <1>3, <1>f DEF LoadFails
<1>4. ASSUME NEW s \in Tasks, RefreshFails(s) PROVE s = r /\ outcome' = "jwks_error"
  BY <1>4, <1>f DEF RefreshFails
<1>5. ASSUME NEW s \in Tasks, Cancel(s) PROVE s = r /\ outcome' = "cancelled"
  BY <1>5, <1>f DEF Cancel
<1>6. ASSUME NEW s \in Tasks, Index(s)
      PROVE  /\ s = r
             /\ \/ ~Indexable(CachedDoc) /\ outcome' = "jwks_error"
                \/ kid[r] \in CachedDoc /\ outcome' = "resolved"
                \/ /\ again[r] /\ Indexable(CachedDoc) /\ kid[r] \notin CachedDoc
                   /\ outcome' = "unknown_kid"
  <2>1. CASE EnterLock(s, "refreshWait", "refresh")
    <3>1. \E l \in {"refreshWait", "refresh"} : pc' = [pc EXCEPT ![s] = l]
      BY <2>1 DEF EnterLock
    <3> QED BY <3>1, <1>p
  <2>2. CASE ~EnterLock(s, "refreshWait", "refresh")
    <3>1. \E v : Finish(s, v)
      BY <1>6, <2>2 DEF Index
    <3>2. s = r
      BY <3>1, <1>f
    <3> QED BY <1>6, <2>2, <3>2 DEF Index, Finish
  <2> QED BY <2>1, <2>2
<1>7. CASE Environment
  BY <1>7 DEF Environment, taskVars
<1>8. CASE UNCHANGED vars
  BY <1>8 DEF vars, taskVars
<1> QED BY <1>1, <1>2, <1>3, <1>4, <1>5, <1>6, <1>7, <1>8 DEF Next, Step, Deliver

(* A request is told that its key is unknown only when the key really was  *)
(* missing at the issuer lately, or when the last refresh failed.          *)
THEOREM Rotation == Spec => RotationPickedUp
<1> DEFINE A == \A r \in Tasks :
          Ends(r, "unknown_kid") /\ refreshOk =>
             \E v \in InForceSince(asked[r] - MinRefreshInterval) :
                ~Indexable(issued[v].doc) \/ kid[r] \notin issued[v].doc
<1>1. IInv /\ [Next]_vars => [A]_vars
  <2> SUFFICES ASSUME IInv, [Next]_vars, NEW r \in Tasks, Ends(r, "unknown_kid"), refreshOk
               PROVE  \E v \in InForceSince(asked[r] - MinRefreshInterval) : kid[r] \notin issued[v].doc
    OBVIOUS
  <2>1. again[r] /\ Indexable(CachedDoc) /\ kid[r] \notin CachedDoc
    BY WhoEnds DEF Ends
  <2>2. cache # 0 /\ kid[r] \notin issued[cache].doc
    BY <2>1 DEF CachedDoc, Indexable
  <2>3. lastRefresh \in Nat /\ lastRefresh > asked[r] - MinRefreshInterval
    BY <2>1 DEF IInv, TimeOK, TypeOK, Time
  <2>4. cache \in InForceSince(lastRefresh)
    BY <2>2, <2>3 DEF IInv, CopyOK
  <2>5. asked[r] - MinRefreshInterval \in Int /\ issued \in Seq(Publications)
    BY DEF IInv, TypeOK
  <2>6. cache \in InForceSince(asked[r] - MinRefreshInterval)
    BY <2>3, <2>4, <2>5, InForceEarlier
  <2> QED BY <2>2, <2>6
<1> QED BY <1>1, InductiveInvariant, PTL DEF RotationPickedUp, Spec

(* With usable documents a request past aget_as_jwks finds a key set.      *)
LEMMA UsableStep ==
    ASSUME \A d \in Docs : Indexable(d), IInv, UsableOK, [Next]_vars
    PROVE  UsableOK'
<1> USE DEF Goto, UsableOK
<1>i. TypeOK /\ LockOK /\ FetchOK
  BY DEF IInv
<1>p. pc \in [Tasks -> Running \cup Waiting \cup Fetching \cup {"idle"}]
  BY <1>i DEF TypeOK
<1>s. ASSUME NEW r \in Tasks, NEW l, Goto(r, l), UNCHANGED cache,
             l \in {"index", "refresh", "refreshWait", "refreshFetch"} => cache # 0,
             l = "loadFetch" => cache = 0
      PROVE  UsableOK'
  BY <1>s, <1>p
<1>a. ASSUME NEW r \in Tasks, phase[r] = "answered", StoreAnswer(r) PROVE cache' # 0
  <2>1. answer[r] \in 1..Len(issued) /\ issued \in Seq(Publications)
    BY <1>a, <1>i DEF FetchOK, TypeOK, Latest
  <2>2. issued[answer[r]] \in Publications
    BY <2>1
  <2>3. issued[answer[r]].doc # None
    BY <2>2 DEF Publications, Indexable
  <2> QED BY <1>a, <2>1, <2>3 DEF StoreAnswer
<1>d. ASSUME NEW r \in Tasks, pc[r] \in Fetching, NEW l \in {"index", "get"}, Goto(r, l), cache' # 0
      PROVE  UsableOK'
  <2>1. \A s \in Tasks \ {r} : pc[s] # "loadFetch"
    BY <1>d, <1>i DEF LockOK, Locked, Fetching
  <2> QED BY <1>d, <1>p, <2>1
<1>1. ASSUME NEW r \in Tasks, Call(r) PROVE UsableOK'
  BY <1>1, <1>s DEF Call, cacheVars
<1>2. ASSUME NEW r \in Tasks, Get(r) PROVE UsableOK'
  BY <1>2, <1>s DEF Get, EnterLock, cacheVars
<1>3. ASSUME NEW r \in Tasks, Resume(r) PROVE UsableOK'
  BY <1>3, <1>s DEF Resume, Waiting, cacheVars
<1>4. ASSUME NEW r \in Tasks, LoadAlreadyDone(r) PROVE UsableOK'
  BY <1>4, <1>s DEF LoadAlreadyDone, LoadDone, cacheVars
<1>5. ASSUME NEW r \in Tasks, LoadThrottled(r) PROVE UsableOK'
  BY <1>5, <1>s DEF LoadThrottled, Finish, cacheVars
<1>6. ASSUME NEW r \in Tasks, LoadStart(r) PROVE UsableOK'
  BY <1>6, <1>s DEF LoadStart, cacheVars
<1>7. ASSUME NEW r \in Tasks, LoadSucceeds(r) PROVE UsableOK'
  BY <1>7, <1>a, <1>d DEF LoadSucceeds, LoadDone, Fetching
<1>8. ASSUME NEW r \in Tasks, LoadFails(r) PROVE UsableOK'
  BY <1>8, <1>s DEF LoadFails, Finish
<1>9. ASSUME NEW r \in Tasks, Index(r) PROVE UsableOK'
  <2>1. /\ pc[r] = "index" /\ UNCHANGED cache
        /\ \E l \in {"idle", "refreshWait", "refresh"} : Goto(r, l)
    BY <1>9 DEF Index, Finish, EnterLock, cacheVars
  <2> QED BY <2>1, <1>s
<1>10. ASSUME NEW r \in Tasks, RefreshSkipped(r) PROVE UsableOK'
  BY <1>10, <1>s DEF RefreshSkipped, RefreshDone, cacheVars
<1>11. ASSUME NEW r \in Tasks, RefreshStart(r) PROVE UsableOK'
  BY <1>11, <1>s DEF RefreshStart
<1>12. ASSUME NEW r \in Tasks, RefreshSucceeds(r) PROVE UsableOK'
  BY <1>12, <1>a, <1>d DEF RefreshSucceeds, RefreshDone, Fetching
<1>13. ASSUME NEW r \in Tasks, RefreshFails(r) PROVE UsableOK'
  BY <1>13, <1>s DEF RefreshFails, Finish, cacheVars
<1>14. ASSUME NEW r \in Tasks, Cancel(r) PROVE UsableOK'
  BY <1>14, <1>s DEF Cancel, Finish, cacheVars
<1>15. CASE Environment
  BY <1>15 DEF Environment, cacheVars, taskVars
<1>16. CASE UNCHANGED vars
  BY <1>16 DEF vars, cacheVars, taskVars
<1> QED
  BY <1>1, <1>2, <1>3, <1>4, <1>5, <1>6, <1>7, <1>8, <1>9, <1>10, <1>11, <1>12, <1>13, <1>14, <1>15, <1>16
  DEF Next, Step, Deliver

(* The failure that throttles later loads is no later than the last one:   *)
(* _load_jwks remembers it with the time the load started.                 *)
LEMMA FailureStep ==
    ASSUME IInv, FailureOK, [Next]_vars
    PROVE  FailureOK'
<1>t. clock \in Nat /\ started \in [Tasks -> Nat] /\ brokenAt \in Nat \cup {None} /\ lastFailedLoad \in Nat \cup {None}
  BY DEF IInv, TypeOK, Time
<1>s. ASSUME UNCHANGED <<clock, brokenAt>>, lastFailedLoad' \in {lastFailedLoad, None},
             \A r \in Tasks : started'[r] \in {0, clock, started[r]}
      PROVE  FailureOK'
  BY <1>s, <1>t DEF FailureOK
<1>b. ASSUME UNCHANGED clock, brokenAt' = clock, \A r \in Tasks : started'[r] \in {0, started[r]},
             lastFailedLoad' = lastFailedLoad \/ \E r \in Tasks : lastFailedLoad' = started[r]
      PROVE  FailureOK'
  BY <1>b, <1>t DEF FailureOK
<1>f. ASSUME NEW r \in Tasks, NEW v, Finish(r, v)
      PROVE  \A s \in Tasks : started'[s] \in {0, started[s]}
  BY <1>f, <1>t DEF Finish
<1>1. ASSUME NEW r \in Tasks, Call(r) \/ Get(r) \/ Resume(r) \/ LoadAlreadyDone(r) \/ RefreshSkipped(r)
      PROVE  FailureOK'
  <2>1. UNCHANGED <<clock, brokenAt, lastFailedLoad, started>>
    BY <1>1 DEF Call, Get, EnterLock, Resume, LoadAlreadyDone, LoadDone, RefreshSkipped, RefreshDone,
                endpointVars, cacheVars, historyVars
  <2> QED BY <2>1, <1>s
<1>2. ASSUME NEW r \in Tasks, LoadThrottled(r) \/ Cancel(r) PROVE FailureOK'
  <2>1. UNCHANGED <<clock, brokenAt, lastFailedLoad>> /\ \E v : Finish(r, v)
    BY <1>2 DEF LoadThrottled, Cancel, Close, endpointVars, cacheVars, historyVars
  <2> QED BY <2>1, <1>f, <1>s
<1>3. ASSUME NEW r \in Tasks, LoadStart(r) PROVE FailureOK'
  BY <1>3, <1>s, <1>t DEF LoadStart, StartFetch, Send, cacheVars
<1>4. ASSUME NEW r \in Tasks, LoadSucceeds(r) PROVE FailureOK'
  BY <1>4, <1>s DEF LoadSucceeds, LoadDone, Close, historyVars
<1>5. ASSUME NEW r \in Tasks, LoadFails(r) PROVE FailureOK'
  BY <1>5, <1>f, <1>b DEF LoadFails, Close
<1>6. ASSUME NEW r \in Tasks, Index(r) PROVE FailureOK'
  <2>1. CASE EnterLock(r, "refreshWait", "refresh")
    BY <1>6, <2>1, <1>s DEF Index, EnterLock, endpointVars, cacheVars, historyVars
  <2>2. CASE ~EnterLock(r, "refreshWait", "refresh")
    <3>1. UNCHANGED <<clock, brokenAt, lastFailedLoad>> /\ \E v : Finish(r, v)
      BY <1>6, <2>2 DEF Index, endpointVars, cacheVars, historyVars
    <3> QED BY <3>1, <1>f, <1>s
  <2> QED BY <2>1, <2>2
<1>7. ASSUME NEW r \in Tasks, RefreshStart(r) PROVE FailureOK'
  BY <1>7, <1>s DEF RefreshStart, Send
<1>8. ASSUME NEW r \in Tasks, RefreshSucceeds(r) PROVE FailureOK'
  BY <1>8, <1>s DEF RefreshSucceeds, RefreshDone, Close
<1>9. ASSUME NEW r \in Tasks, RefreshFails(r) PROVE FailureOK'
  BY <1>9, <1>f, <1>b DEF RefreshFails, Close, cacheVars
<1>10. CASE Environment
  <2>1. UNCHANGED <<started, brokenAt, lastFailedLoad>> /\ (clock' = clock \/ clock' = clock + 1)
    BY <1>10 DEF Environment, Tick, Publish, Answer, Break, cacheVars, taskVars, historyVars
  <2> QED BY <2>1, <1>t DEF FailureOK
<1>11. CASE UNCHANGED vars
  BY <1>11, <1>s DEF vars, endpointVars, cacheVars, taskVars, historyVars
<1> QED
  BY <1>1, <1>2, <1>3, <1>4, <1>5, <1>6, <1>7, <1>8, <1>9, <1>10, <1>11
  DEF Next, Step, Deliver

(* With usable documents a request fails only for a recent failed fetch:   *)
(* recovery is delayed by less than one interval.                          *)
THEOREM Recovery ==
    ASSUME \A d \in Docs : Indexable(d)
    PROVE  Spec => RecoveryBound
<1> DEFINE J == IInv /\ UsableOK /\ FailureOK
           A == \A r \in Tasks :
          Ends(r, "jwks_error") =>
             \/ Recent(brokenAt')
             \/ \E v \in InForceSince(asked[r] - MinRefreshInterval) : ~Indexable(issued[v].doc)
<1>1. Init => J
  BY InitInv DEF Init, EndpointInit, UsableOK, FailureOK
<1>2. J /\ [Next]_vars => J'
  <2> SUFFICES ASSUME J, [Next]_vars PROVE J'
    OBVIOUS
  <2>1. IInv'
    BY LockStep, TypeStep, FetchStep, TimeStep, CopyStep DEF IInv
  <2> QED BY <2>1, UsableStep, FailureStep
<1>3. J /\ [Next]_vars => [A]_vars
  <2> SUFFICES ASSUME J, [Next]_vars, NEW r \in Tasks, Ends(r, "jwks_error") PROVE Recent(brokenAt')
    OBVIOUS
  <2>t. clock \in Nat /\ clock # None /\ brokenAt \in Nat \cup {None} /\ lastFailedLoad \in Nat \cup {None}
    BY DEF IInv, TypeOK, Time
  <2>1. CASE LoadFails(r) \/ RefreshFails(r)
    BY <2>1, <2>t DEF LoadFails, RefreshFails, Recent
  <2>2. CASE LoadThrottled(r)
    BY <2>2, <2>t DEF LoadThrottled, historyVars, Recent, FailureOK
  <2>3. CASE Index(r) /\ ~Indexable(CachedDoc)
    <3>1. cache \in 1..Len(issued) /\ issued \in Seq(Publications)
      BY <2>3 DEF Index, UsableOK, IInv, TypeOK, Latest
    <3>2. issued[cache] \in Publications
      BY <3>1
    <3> QED BY <2>3, <3>1, <3>2 DEF CachedDoc, Publications
  <2> QED BY <2>1, <2>2, <2>3, WhoEnds DEF Ends
<1> QED BY <1>1, <1>2, <1>3, PTL DEF RecoveryBound, Spec

(* The first load begins with nothing cached, later fetches are refreshes, *)
(* and each kind is spaced by its own budget.                              *)
LEMMA BudgetStep ==
    ASSUME ~Cancellable, \A d \in Docs : Indexable(d), IInv, UsableOK, BudgetOK, [Next]_vars
    PROVE  BudgetOK' /\ (sent' # sent => ~Recent(sent[1]))
<1> USE DEF Goto
<1>i. TypeOK /\ LockOK /\ FetchOK /\ TimeOK
  BY DEF IInv
<1>p. /\ pc \in [Tasks -> Running \cup Waiting \cup Fetching \cup {"idle"}]
      /\ started \in [Tasks -> Nat]
      /\ clock \in Nat /\ clock # None
      /\ sent \in [1..2 -> Nat \cup {None}]
      /\ sent[1] \in Nat \cup {None} /\ sent[2] \in Nat \cup {None}
      /\ lastRefresh \in Nat \cup {None}
      /\ lastFailedLoad \in Nat \cup {None}
      /\ MinRefreshInterval \in Nat
  BY <1>i DEF TypeOK, Time
<1>s. ASSUME UNCHANGED <<clock, cacheVars, sent>>, NEW r \in Tasks, pc[r] \notin Fetching,
             NEW l, l \notin Fetching, Goto(r, l),
             \A s \in Tasks \ {r} : started'[s] = started[s]
      PROVE  BudgetOK' /\ sent' = sent
  BY <1>s, <1>p DEF BudgetOK, cacheVars, Fetching
<1>a. ASSUME NEW r \in Tasks, phase[r] = "answered", StoreAnswer(r) PROVE cache' # 0
  <2>1. answer[r] \in 1..Len(issued) /\ issued \in Seq(Publications)
    BY <1>a, <1>i DEF FetchOK, TypeOK, Latest
  <2>2. issued[answer[r]] \in Publications
    BY <2>1
  <2>3. issued[answer[r]].doc # None
    BY <2>2 DEF Publications, Indexable
  <2> QED BY <1>a, <2>1, <2>3 DEF StoreAnswer
<1>f. ASSUME NEW r \in Tasks, NEW v, Finish(r, v)
      PROVE  Goto(r, "idle") /\ \A s \in Tasks \ {r} : started'[s] = started[s]
  BY <1>f, <1>p DEF Finish
<1>o. ASSUME NEW r \in Tasks, pc[r] \in Locked
      PROVE  \A s \in Tasks \ {r} : pc[s] \notin Locked
  BY <1>o, <1>i DEF LockOK
<1>n. ASSUME NEW r \in Tasks, pc[r] \in {"load", "refresh"} PROVE \A s \in Tasks : pc[s] \notin Fetching
  BY <1>n, <1>o DEF Locked, Fetching
<1>1. ASSUME NEW r \in Tasks, Call(r) \/ Get(r) \/ Resume(r) \/ LoadAlreadyDone(r) \/ RefreshSkipped(r)
      PROVE  BudgetOK' /\ sent' = sent
  <2>1. pc[r] \notin Fetching /\ \E l : l \notin Fetching /\ Goto(r, l)
    BY <1>1 DEF Fetching, Waiting, Call, Get, EnterLock, Resume, LoadAlreadyDone, LoadDone, RefreshSkipped, RefreshDone
  <2>2. UNCHANGED <<clock, cacheVars, sent, started>>
    BY <1>1 DEF Call, Get, EnterLock, Resume, LoadAlreadyDone, LoadDone, RefreshSkipped, RefreshDone,
                endpointVars, historyVars
  <2> QED BY <2>1, <2>2, <1>s
<1>2. ASSUME NEW r \in Tasks, LoadThrottled(r) PROVE BudgetOK' /\ sent' = sent
  BY <1>2, <1>f, <1>s DEF Fetching, LoadThrottled, endpointVars, historyVars
<1>3. ASSUME NEW r \in Tasks, LoadStart(r) PROVE BudgetOK' /\ ~Recent(sent[1])
  <2>1. cache = 0 /\ (\A s \in Tasks : pc[s] \notin Fetching) /\ ~Recent(lastFailedLoad)
    BY <1>3, <1>n DEF LoadStart, StartFetch, Send
  <2>2. lastRefresh = None /\ sent[2] = lastFailedLoad
    BY <2>1 DEF BudgetOK
  <2>3. sent[2] # None => clock - sent[2] >= MinRefreshInterval
    BY <2>1, <2>2, <1>p DEF Recent
  <2>4. ~Recent(sent[1])
    BY <2>3, <1>p DEF Recent, BudgetOK
  <2>5. /\ sent' = <<sent[2], clock>> /\ UNCHANGED <<clock, cache, lastRefresh, lastFailedLoad>>
        /\ started' = [started EXCEPT ![r] = clock] /\ pc' = [pc EXCEPT ![r] = "loadFetch"]
    BY <1>3 DEF LoadStart, StartFetch, Send, cacheVars
  <2>6. \A s \in Tasks : pc'[s] = "loadFetch" => s = r
    BY <1>3, <2>5, <1>o, <1>p DEF LoadStart, Locked, Fetching
  <2>7. \A s \in Tasks : pc'[s] = "loadFetch" => sent'[2] = started'[s]
    BY <2>5, <2>6, <1>p
  <2>8. sent'[1] = sent[2] /\ sent'[2] = clock
    BY <2>5
  <2>9. pc'[r] \in Fetching
    BY <2>5, <1>p DEF Fetching
  <2> QED BY <2>1, <2>2, <2>3, <2>4, <2>5, <2>7, <2>8, <2>9, <1>p DEF BudgetOK
<1>4. ASSUME NEW r \in Tasks, LoadSucceeds(r) PROVE BudgetOK' /\ sent' = sent
  <2>1. cache' # 0 /\ UNCHANGED <<clock, lastRefresh, sent, started>> /\ pc' = [pc EXCEPT ![r] = "index"]
    BY <1>4, <1>a DEF LoadSucceeds, LoadDone, Close, historyVars
  <2> QED BY <2>1, <1>p DEF BudgetOK
<1>5. ASSUME NEW r \in Tasks, LoadFails(r) PROVE BudgetOK' /\ sent' = sent
  <2>1. /\ UNCHANGED <<clock, cache, lastRefresh, sent>> /\ lastFailedLoad' = started[r]
        /\ Finish(r, "jwks_error") /\ pc[r] = "loadFetch"
    BY <1>5 DEF LoadFails, Close
  <2>2. sent[2] = started[r]
    BY <2>1 DEF BudgetOK
  <2>3. \A s \in Tasks : pc'[s] # "loadFetch"
    BY <2>1, <1>o, <1>p DEF Finish, Locked, Fetching
  <2> QED BY <2>1, <2>2, <2>3 DEF BudgetOK
<1>6. ASSUME NEW r \in Tasks, Index(r) PROVE BudgetOK' /\ sent' = sent
  <2>0. UNCHANGED <<clock, cacheVars, sent>> /\ pc[r] \notin Fetching
    BY <1>6 DEF Fetching, Index, endpointVars, historyVars
  <2>1. CASE EnterLock(r, "refreshWait", "refresh")
    BY <2>0, <2>1, <1>s DEF Fetching, EnterLock
  <2>2. CASE ~EnterLock(r, "refreshWait", "refresh")
    <3>1. \E v : Finish(r, v)
      BY <1>6, <2>2 DEF Index
    <3> QED BY <2>0, <3>1, <1>f, <1>s DEF Fetching
  <2> QED BY <2>1, <2>2
<1>7. ASSUME NEW r \in Tasks, RefreshStart(r) PROVE BudgetOK' /\ ~Recent(sent[1])
  <2>1. cache # 0 /\ ~Recent(lastRefresh)
    BY <1>7 DEF RefreshStart, UsableOK
  <2>2. ~Recent(sent[1])
    BY <2>1, <1>p DEF Recent, BudgetOK
  <2>3. /\ sent' = <<sent[2], clock>> /\ UNCHANGED <<clock, cache, lastFailedLoad, started>>
        /\ lastRefresh' = clock /\ pc' = [pc EXCEPT ![r] = "refreshFetch"]
    BY <1>7 DEF RefreshStart, Send
  <2>4. \A s \in Tasks : pc'[s] # "loadFetch"
    BY <1>7, <2>3, <1>o, <1>p DEF RefreshStart, Locked, Fetching
  <2>5. sent'[1] = sent[2] /\ sent'[2] = clock
    BY <2>3
  <2> QED BY <2>1, <2>2, <2>3, <2>4, <2>5, <1>p DEF BudgetOK
<1>8. ASSUME NEW r \in Tasks, RefreshSucceeds(r) PROVE BudgetOK' /\ sent' = sent
  <2>1. /\ cache' # 0 /\ UNCHANGED <<clock, lastRefresh, lastFailedLoad, sent, started>>
        /\ pc' = [pc EXCEPT ![r] = "get"]
    BY <1>8, <1>a DEF RefreshSucceeds, RefreshDone, Close
  <2> QED BY <2>1, <1>p DEF BudgetOK
<1>9. ASSUME NEW r \in Tasks, RefreshFails(r) PROVE BudgetOK' /\ sent' = sent
  <2>1. /\ UNCHANGED <<clock, cache, lastRefresh, lastFailedLoad, sent>>
        /\ Finish(r, "jwks_error") /\ pc[r] = "refreshFetch" /\ cache # 0
    BY <1>9 DEF RefreshFails, Close, cacheVars, UsableOK
  <2>2. \A s \in Tasks : pc'[s] # "loadFetch"
    BY <2>1, <1>o, <1>p DEF Finish, Locked, Fetching
  <2> QED BY <2>1, <2>2 DEF BudgetOK
<1>10. ASSUME NEW r \in Tasks PROVE ~Cancel(r)
  BY DEF Cancel
<1>11. CASE Environment
  <2>0. UNCHANGED <<cacheVars, taskVars, sent>>
    BY <1>11 DEF Environment, historyVars
  <2>1. clock' \in {clock, clock + 1}
    BY <1>11 DEF Environment, Tick, Publish, Answer, Break
  <2> QED BY <2>0, <2>1, <1>p DEF BudgetOK, cacheVars, taskVars
<1>12. CASE UNCHANGED vars
  BY <1>12 DEF vars, endpointVars, cacheVars, taskVars, historyVars, BudgetOK
<1> QED
  BY <1>1, <1>2, <1>3, <1>4, <1>5, <1>6, <1>7, <1>8, <1>9, <1>10, <1>11, <1>12
  DEF Next, Step, Deliver

(* With usable documents and requests that run to their end, the issuer    *)
(* never sees three fetches start within one interval.                     *)
THEOREM ThrottledRetrieval ==
    ASSUME ~Cancellable, \A d \in Docs : Indexable(d)
    PROVE  Spec => FetchRate
<1> DEFINE J == IInv /\ UsableOK /\ BudgetOK
           A == sent' # sent => ~Recent(sent[1])
<1>1. Init => J
  <2> SUFFICES ASSUME Init PROVE UsableOK /\ BudgetOK
    BY InitInv
  <2>1. \A r \in Tasks : pc[r] = "idle"
    BY DEF Init
  <2>2. sent[1] = None /\ sent[2] = None /\ lastFailedLoad = None /\ lastRefresh = None
    BY DEF Init
  <2> QED BY <2>1, <2>2 DEF UsableOK, BudgetOK
<1>2. J /\ [Next]_vars => J'
  <2> SUFFICES ASSUME J, [Next]_vars PROVE J'
    OBVIOUS
  <2>1. IInv'
    BY LockStep, TypeStep, FetchStep, TimeStep, CopyStep DEF IInv
  <2> QED BY <2>1, UsableStep, BudgetStep
<1>3. J /\ [Next]_vars => [A]_vars
  BY BudgetStep
<1> QED BY <1>1, <1>2, <1>3, PTL DEF FetchRate, Spec

(* What answers a load was in force while it was under way: the answer is  *)
(* what the issuer publishes at that moment, and what was in force since   *)
(* the load started stays so.                                              *)
LEMMA LoadStep ==
    ASSUME IInv, FailureOK, LoadOK, [Next]_vars
    PROVE  LoadOK'
<1> USE DEF Goto
<1>i. TypeOK /\ LockOK /\ FetchOK
  BY DEF IInv
<1>p. /\ pc \in [Tasks -> Running \cup Waiting \cup Fetching \cup {"idle"}]
      /\ phase \in [Tasks -> {"none", "sent", "answered", "broken"}]
      /\ answer \in [Tasks -> 0..Latest]
      /\ started \in [Tasks -> Nat]
  BY <1>i DEF TypeOK
<1>s. ASSUME NEW r \in Tasks, NEW l, l # "loadFetch" \/ phase'[r] # "answered", Goto(r, l),
             UNCHANGED issued,
             \A s \in Tasks \ {r} : phase'[s] = phase[s] /\ answer'[s] = answer[s] /\ started'[s] = started[s]
      PROVE  LoadOK'
  BY <1>s, <1>p DEF LoadOK, InForceSince, Latest
<1>f. ASSUME NEW r \in Tasks, NEW v, Finish(r, v)
      PROVE  Goto(r, "idle") /\ \A s \in Tasks \ {r} : started'[s] = started[s]
  BY <1>f, <1>p DEF Finish
<1>c. ASSUME NEW r \in Tasks, Close(r)
      PROVE  UNCHANGED issued /\ \A s \in Tasks \ {r} : phase'[s] = phase[s] /\ answer'[s] = answer[s]
  BY <1>c, <1>p DEF Close
<1>b. ASSUME NEW r \in Tasks, Send(r)
      PROVE  /\ UNCHANGED issued /\ phase'[r] = "sent"
             /\ \A s \in Tasks \ {r} : phase'[s] = phase[s] /\ answer'[s] = answer[s]
  BY <1>b, <1>p DEF Send
<1>1. ASSUME NEW r \in Tasks, Call(r) \/ Get(r) \/ Resume(r) \/ LoadAlreadyDone(r) \/ RefreshSkipped(r)
      PROVE  LoadOK'
  <2>1. \E l \in {"get", "index", "loadWait", "load", "refresh"} : Goto(r, l)
    BY <1>1 DEF Call, Get, EnterLock, Resume, LoadAlreadyDone, LoadDone, RefreshSkipped, RefreshDone
  <2>2. UNCHANGED <<issued, phase, answer, started>>
    BY <1>1 DEF Call, Get, EnterLock, Resume, LoadAlreadyDone, LoadDone, RefreshSkipped, RefreshDone, endpointVars
  <2> QED BY <2>1, <2>2, <1>s
<1>2. ASSUME NEW r \in Tasks, LoadThrottled(r) PROVE LoadOK'
  BY <1>2, <1>f, <1>s DEF LoadThrottled, endpointVars
<1>3. ASSUME NEW r \in Tasks, LoadStart(r) PROVE LoadOK'
  BY <1>3, <1>b, <1>s, <1>p DEF LoadStart, StartFetch
<1>4. ASSUME NEW r \in Tasks, LoadSucceeds(r) PROVE LoadOK'
  BY <1>4, <1>c, <1>s DEF LoadSucceeds, LoadDone
<1>5. ASSUME NEW r \in Tasks, LoadFails(r) \/ RefreshFails(r) PROVE LoadOK'
  BY <1>5, <1>c, <1>f, <1>s DEF LoadFails, RefreshFails
<1>6. ASSUME NEW r \in Tasks, Index(r) PROVE LoadOK'
  <2>0. UNCHANGED <<issued, phase, answer>>
    BY <1>6 DEF Index, endpointVars
  <2>1. CASE EnterLock(r, "refreshWait", "refresh")
    BY <2>0, <2>1, <1>s DEF EnterLock
  <2>2. CASE ~EnterLock(r, "refreshWait", "refresh")
    <3>1. \E v : Finish(r, v)
      BY <1>6, <2>2 DEF Index
    <3> QED BY <2>0, <3>1, <1>f, <1>s
  <2> QED BY <2>1, <2>2
<1>7. ASSUME NEW r \in Tasks, RefreshStart(r) PROVE LoadOK'
  BY <1>7, <1>b, <1>s DEF RefreshStart
<1>8. ASSUME NEW r \in Tasks, RefreshSucceeds(r) PROVE LoadOK'
  BY <1>8, <1>c, <1>s DEF RefreshSucceeds, RefreshDone
<1>9. ASSUME NEW r \in Tasks, Cancel(r) PROVE LoadOK'
  <2>1. UNCHANGED issued /\ \A s \in Tasks \ {r} : phase'[s] = phase[s] /\ answer'[s] = answer[s]
    BY <1>9, <1>c DEF Cancel, endpointVars
  <2> QED BY <1>9, <2>1, <1>f, <1>s DEF Cancel
<1>10. CASE Environment
  <2>e. UNCHANGED <<pc, started>>
    BY <1>10 DEF Environment, taskVars
  <2>1. CASE Tick
    BY <2>1, <2>e DEF Tick, LoadOK, InForceSince, Latest
  <2>2. CASE Publish
    <3> SUFFICES ASSUME NEW r \in Tasks, pc[r] = "loadFetch", phase[r] = "answered"
                 PROVE  answer[r] \in InForceSince(started[r])'
      BY <2>2, <2>e DEF Publish, LoadOK
    <3>1. started[r] \in Nat /\ started[r] <= clock /\ answer[r] \in InForceSince(started[r])
      BY <1>p DEF LoadOK, FailureOK
    <3>2. issued \in Seq(Publications) /\ clock \in Nat
      BY <1>i DEF TypeOK
    <3>3. PICK t \in Int : t = started[r]
      BY <3>1
    <3>4. answer[r] \in InForceSince(t)'
      BY <3>1, <3>2, <3>3, <2>2, InForceKept
    <3> QED BY <3>3, <3>4, <2>2, <2>e DEF Publish, InForceSince, Latest
  <2>3. CASE Answer
    <3>1. Latest \in 1..Latest
      BY <1>i DEF TypeOK, Latest
    <3>2. PICK c \in Tasks :
             /\ answer' = [answer EXCEPT ![c] = Latest]
             /\ phase' = [phase EXCEPT ![c] = "answered"]
             /\ UNCHANGED <<clock, issued>>
      BY <2>3, <1>p DEF Answer
    <3>3. \A s \in Tasks \ {c} : phase'[s] = phase[s] /\ answer'[s] = answer[s]
      BY <3>2, <1>p
    <3>4. answer'[c] = Latest
      BY <3>2, <1>p
    <3> QED BY <2>e, <3>1, <3>2, <3>3, <3>4 DEF LoadOK, InForceSince, Latest
  <2>4. CASE Break
    <3>1. PICK c \in Tasks :
             phase' = [phase EXCEPT ![c] = "broken"] /\ UNCHANGED <<clock, issued, answer>>
      BY <2>4, <1>p DEF Break
    <3> QED BY <2>e, <3>1, <1>p DEF LoadOK, InForceSince, Latest
  <2> QED BY <1>10, <2>1, <2>2, <2>3, <2>4 DEF Environment
<1>11. CASE UNCHANGED vars
  BY <1>11 DEF vars, endpointVars, taskVars, LoadOK, InForceSince, Latest
<1> QED
  BY <1>1, <1>2, <1>3, <1>4, <1>5, <1>6, <1>7, <1>8, <1>9, <1>10, <1>11
  DEF Next, Step, Deliver

(* What is under way is told by the task that holds the lock. *)
AttemptIsTheHolders ==
    /\ (\A s \in Tasks : pc[s] \notin Fetching) => Attempt = "none" /\ Began = 0
    /\ \A r \in Tasks :
          /\ pc[r] = "loadFetch" => Attempt = "load" /\ Began = started[r]
          /\ pc[r] = "refreshFetch" => Attempt = "refresh" /\ Began = 0
          /\ pc[r] \in Locked \ Fetching => Attempt = "none" /\ Began = 0

LEMMA AttemptOf == TypeOK /\ LockOK => AttemptIsTheHolders
<1> SUFFICES ASSUME TypeOK, LockOK PROVE AttemptIsTheHolders
  OBVIOUS
<1>1. \A r, s \in Tasks : pc[r] \in Locked /\ pc[s] \in Locked => r = s /\ holder = r
  BY DEF LockOK
<1>2. \A r \in Tasks : r # None
  OBVIOUS
<1>3. holder \in Tasks \cup {None}
  BY DEF TypeOK
<1> QED BY <1>1, <1>2, <1>3 DEF AttemptIsTheHolders, Attempt, Began, Locked, Fetching

(* The same after a step. *)
LEMMA AttemptAfter == TypeOK' /\ LockOK' => AttemptIsTheHolders'
  BY AttemptOf, PTL

(* A step of a task that neither fetches before it nor after it moves      *)
(* nothing of what is under way.                                           *)
LEMMA AttemptKept ==
    ASSUME TypeOK, LockOK, TypeOK', LockOK', NEW r \in Tasks, pc[r] \notin Fetching,
           NEW l, l \notin Fetching, Goto(r, l),
           \A s \in Tasks \ {r} : started'[s] = started[s]
    PROVE  Attempt' = Attempt /\ Began' = Began
<1> USE DEF AttemptIsTheHolders
<1>1. \A s \in Tasks : pc'[s] = IF s = r THEN l ELSE pc[s]
  BY DEF TypeOK, Goto
<1>2. CASE \A s \in Tasks : pc[s] \notin Fetching
  <2>1. \A s \in Tasks : pc'[s] \notin Fetching
    BY <1>1, <1>2
  <2>2. Attempt = "none" /\ Began = 0
    BY <1>2, AttemptOf
  <2>3. Attempt' = "none" /\ Began' = 0
    BY <2>1, AttemptAfter
  <2> QED BY <2>2, <2>3
<1>3. ASSUME NEW s \in Tasks, pc[s] \in Fetching PROVE Attempt' = Attempt /\ Began' = Began
  <2>1. s # r /\ pc'[s] = pc[s] /\ started'[s] = started[s]
    BY <1>1, <1>3
  <2>2. /\ pc[s] = "loadFetch" => Attempt = "load" /\ Began = started[s]
        /\ pc[s] = "refreshFetch" => Attempt = "refresh" /\ Began = 0
    BY AttemptOf
  <2>3. /\ pc'[s] = "loadFetch" => Attempt' = "load" /\ Began' = started'[s]
        /\ pc'[s] = "refreshFetch" => Attempt' = "refresh" /\ Began' = 0
    BY AttemptAfter
  <2> QED BY <1>3, <2>1, <2>2, <2>3 DEF Fetching
<1> QED BY <1>2, <1>3

(* Any number of requests together make of the cache what LoadedCopy says: *)
(* who holds the lock is the one user of it.                               *)
THEOREM Refinement == Spec => RefinesLoadedCopy
<1> USE DEF AttemptIsTheHolders
<1> DEFINE J == IInv /\ FailureOK /\ LoadOK
<1>1. Init => Abstract!Init
  <2> SUFFICES ASSUME Init PROVE Abstract!Init
    OBVIOUS
  <2>1. \A s \in Tasks : pc[s] \notin Fetching
    BY DEF Init, Fetching
  <2>2. Attempt = "none" /\ Began = 0
    BY <2>1, InitInv, AttemptOf DEF IInv
  <2> QED BY <2>2 DEF Init, EndpointInit, Abstract!Init
<1>2. Init => J
  <2> SUFFICES ASSUME Init PROVE FailureOK /\ LoadOK
    BY InitInv
  <2> QED BY DEF Init, EndpointInit, FailureOK, LoadOK
<1>3. J /\ [Next]_vars => J'
  <2> SUFFICES ASSUME J, [Next]_vars PROVE J'
    OBVIOUS
  <2>1. IInv'
    BY LockStep, TypeStep, FetchStep, TimeStep, CopyStep DEF IInv
  <2> QED BY <2>1, FailureStep, LoadStep
<1>4. ASSUME J, [Next]_vars PROVE [Abstract!Next]_(Abstract!copyVars)
  <2> USE DEF Abstract!copyVars
  <2>i. IInv /\ LoadOK /\ TypeOK /\ LockOK /\ FetchOK /\ TimeOK
    BY <1>4 DEF IInv
  <2>j. TypeOK' /\ LockOK'
    BY <1>4, LockStep, TypeStep
  <2>p. /\ pc \in [Tasks -> Running \cup Waiting \cup Fetching \cup {"idle"}]
        /\ started \in [Tasks -> Nat]
        /\ clock \in Nat /\ clock # None
        /\ lastRefresh \in Nat \cup {None} /\ lastFailedLoad \in Nat \cup {None}
        /\ MinRefreshInterval \in Nat
    BY <2>i DEF TypeOK, Time
  <2>f. ASSUME NEW r \in Tasks, NEW v, Finish(r, v)
        PROVE  Goto(r, "idle") /\ \A s \in Tasks \ {r} : started'[s] = started[s]
    BY <2>f, <2>p DEF Finish
  <2>e. ASSUME NEW r \in Tasks, pc[r] \in Fetching, NEW l, l \notin Fetching, Goto(r, l)
        PROVE  Attempt # "none" /\ Attempt' = "none" /\ Began' = 0
    <3>1. \A s \in Tasks : pc'[s] \notin Fetching
      BY <2>e, <2>i, <2>p DEF Goto, LockOK, Locked, Fetching
    <3>2. Attempt' = "none" /\ Began' = 0
      BY <3>1, <2>j, AttemptAfter
    <3> QED BY <3>2, <2>e, <2>i, AttemptOf DEF Fetching
  <2>o. ASSUME NEW then \in Nat \cup {None} PROVE ~Recent(then) => Abstract!Over(then)
    BY <2>o, <2>p DEF Recent, Abstract!Over
  <2>a. ASSUME NEW r \in Tasks, pc[r] \in Fetching, phase[r] = "answered", StoreAnswer(r), UNCHANGED issued,
               Abstract!Start = IF pc[r] = "loadFetch" THEN started[r] ELSE lastRefresh
        PROVE  \E v \in 1..Len(issued) :
                  /\ v = Len(issued) \/ issued[v + 1].at >= Abstract!Start
                  /\ v >= cache
                  /\ cache' = IF issued[v].doc = None THEN 0 ELSE v
    <3>1. answer[r] \in 1..Len(issued) /\ answer[r] >= cache
      BY <2>a, <2>i DEF FetchOK, Latest
    <3>2. answer[r] \in InForceSince(Abstract!Start)
      <4>1. CASE pc[r] = "loadFetch"
        BY <4>1, <2>a, <2>i DEF LoadOK
      <4>2. CASE pc[r] = "refreshFetch"
        BY <4>2, <2>a, <2>i DEF FetchOK, TimeOK
      <4> QED BY <4>1, <4>2, <2>a DEF Fetching
    <3> QED BY <2>a, <3>1, <3>2 DEF StoreAnswer, InForceSince, Latest
  <2>1. ASSUME NEW r \in Tasks, Call(r) \/ Get(r) \/ Resume(r) \/ LoadAlreadyDone(r) \/ RefreshSkipped(r)
        PROVE  UNCHANGED Abstract!copyVars
    <3>1. pc[r] \notin Fetching /\ \E l : l \notin Fetching /\ Goto(r, l)
      BY <2>1 DEF Fetching, Waiting, Call, Get, EnterLock, Resume, LoadAlreadyDone, LoadDone, RefreshSkipped, RefreshDone
    <3>2. UNCHANGED <<clock, issued, cacheVars, started>>
      BY <2>1 DEF Call, Get, EnterLock, Resume, LoadAlreadyDone, LoadDone, RefreshSkipped, RefreshDone, endpointVars
    <3>3. Attempt' = Attempt /\ Began' = Began
      BY <3>1, <3>2, <2>i, <2>j, AttemptKept
    <3> QED BY <3>2, <3>3 DEF cacheVars
  <2>2. ASSUME NEW r \in Tasks, LoadThrottled(r) PROVE UNCHANGED Abstract!copyVars
    <3>1. pc[r] \notin Fetching /\ "idle" \notin Fetching
      BY <2>2 DEF LoadThrottled, Fetching
    <3>2. UNCHANGED <<clock, issued, cacheVars>> /\ Finish(r, "jwks_error")
      BY <2>2 DEF LoadThrottled, endpointVars
    <3>3. Attempt' = Attempt /\ Began' = Began
      BY <3>1, <3>2, <2>f, <2>i, <2>j, AttemptKept
    <3> QED BY <3>2, <3>3 DEF cacheVars
  <2>3. ASSUME NEW r \in Tasks, LoadStart(r) PROVE Abstract!Load
    <3>1. Attempt = "none" /\ Began = 0
      BY <2>3, <2>i, AttemptOf DEF LoadStart, Locked, Fetching
    <3>2. Attempt' = "load" /\ Began' = started'[r]
      BY <2>3, <2>j, <2>p, AttemptAfter DEF LoadStart, Goto
    <3>3. started'[r] = clock
      BY <2>3, <2>p DEF LoadStart
    <3> QED BY <2>3, <2>o, <2>p, <3>1, <3>2, <3>3 DEF LoadStart, StartFetch, Send, cacheVars, Abstract!Load
  <2>4. ASSUME NEW r \in Tasks, LoadSucceeds(r) PROVE Abstract!Take
    <3>1. Attempt = "load" /\ Began = started[r] /\ pc[r] \in Fetching /\ pc[r] = "loadFetch"
      BY <2>4, <2>i, AttemptOf DEF LoadSucceeds, Fetching
    <3>2. Abstract!Ended
      BY <2>4, <2>e, <3>1 DEF LoadSucceeds, LoadDone, Close, Fetching, Abstract!Ended
    <3>3. Abstract!Start = started[r]
      BY <3>1 DEF Abstract!Start
    <3> QED BY <2>4, <2>a, <3>1, <3>2, <3>3 DEF LoadSucceeds, Close, Abstract!Take
  <2>5. ASSUME NEW r \in Tasks, LoadFails(r) PROVE Abstract!LoadFails
    <3>1. Attempt = "load" /\ Began = started[r] /\ pc[r] \in Fetching
      BY <2>5, <2>i, AttemptOf DEF LoadFails, Fetching
    <3>2. Abstract!Ended
      BY <2>5, <2>e, <2>f, <3>1 DEF LoadFails, Close, Fetching, Abstract!Ended
    <3> QED BY <2>5, <3>1, <3>2 DEF LoadFails, Abstract!LoadFails
  <2>6. ASSUME NEW r \in Tasks, Index(r) PROVE UNCHANGED Abstract!copyVars
    <3>0. UNCHANGED <<clock, issued, cacheVars>> /\ pc[r] \notin Fetching
      BY <2>6 DEF Fetching, Index, endpointVars
    <3>1. /\ \E l : l \notin Fetching /\ Goto(r, l)
          /\ \A s \in Tasks \ {r} : started'[s] = started[s]
      <4>1. CASE EnterLock(r, "refreshWait", "refresh")
        BY <4>1 DEF EnterLock, Fetching
      <4>2. CASE ~EnterLock(r, "refreshWait", "refresh")
        <5>1. \E v : Finish(r, v)
          BY <2>6, <4>2 DEF Index
        <5> QED BY <5>1, <2>f DEF Fetching
      <4> QED BY <4>1, <4>2
    <3>2. Attempt' = Attempt /\ Began' = Began
      BY <3>0, <3>1, <2>i, <2>j, AttemptKept
    <3> QED BY <3>0, <3>2 DEF cacheVars
  <2>7. ASSUME NEW r \in Tasks, RefreshStart(r) PROVE Abstract!Refresh
    <3>1. Attempt = "none" /\ Began = 0
      BY <2>7, <2>i, AttemptOf DEF RefreshStart, Locked, Fetching
    <3>2. Attempt' = "refresh" /\ Began' = 0
      BY <2>7, <2>j, <2>p, AttemptAfter DEF RefreshStart, Goto
    <3> QED BY <2>7, <2>o, <2>p, <3>1, <3>2 DEF RefreshStart, Send, Abstract!Refresh
  <2>8. ASSUME NEW r \in Tasks, RefreshSucceeds(r) PROVE Abstract!Take
    <3>1. Attempt = "refresh" /\ pc[r] \in Fetching /\ pc[r] # "loadFetch"
      BY <2>8, <2>i, AttemptOf DEF RefreshSucceeds, Fetching
    <3>2. Abstract!Ended
      BY <2>8, <2>e, <3>1 DEF RefreshSucceeds, RefreshDone, Close, Fetching, Abstract!Ended
    <3>3. Abstract!Start = lastRefresh
      BY <3>1 DEF Abstract!Start
    <3> QED BY <2>8, <2>a, <3>1, <3>2, <3>3 DEF RefreshSucceeds, Close, Abstract!Take
  <2>9. ASSUME NEW r \in Tasks, RefreshFails(r) PROVE Abstract!GiveUp
    <3>1. pc[r] \in Fetching
      BY <2>9 DEF RefreshFails, Fetching
    <3>2. Abstract!Ended
      BY <2>9, <2>e, <2>f, <3>1 DEF RefreshFails, Close, cacheVars, Fetching, Abstract!Ended
    <3> QED BY <2>9, <3>2 DEF RefreshFails, cacheVars, Abstract!GiveUp
  <2>10. ASSUME NEW r \in Tasks, Cancel(r) PROVE Abstract!GiveUp \/ UNCHANGED Abstract!copyVars
    <3>0. UNCHANGED <<clock, issued, cacheVars>> /\ Finish(r, "cancelled") /\ "idle" \notin Fetching
      BY <2>10 DEF Cancel, Close, endpointVars, Fetching
    <3>1. CASE pc[r] \in Fetching
      <4>1. Abstract!Ended
        BY <3>0, <3>1, <2>e, <2>f DEF cacheVars, Abstract!Ended
      <4> QED BY <3>0, <4>1 DEF cacheVars, Abstract!GiveUp
    <3>2. CASE pc[r] \notin Fetching
      <4>1. Attempt' = Attempt /\ Began' = Began
        BY <3>0, <3>2, <2>f, <2>i, <2>j, AttemptKept
      <4> QED BY <3>0, <4>1 DEF cacheVars
    <3> QED BY <3>1, <3>2
  <2>11. CASE Environment
    <3>e. UNCHANGED <<cache, lastRefresh, lastFailedLoad, Attempt, Began>>
      BY <2>11 DEF Environment, cacheVars, taskVars, lockVars, Attempt, Began
    <3>1. CASE Tick
      BY <3>1, <3>e DEF Tick, Abstract!Tick, Abstract!Next
    <3>2. CASE Publish
      BY <3>2, <3>e DEF Publish, Abstract!Publish, Abstract!Next
    <3>3. CASE Answer \/ Break
      BY <3>3, <3>e DEF Answer, Break
    <3> QED BY <2>11, <3>1, <3>2, <3>3 DEF Environment
  <2>12. CASE UNCHANGED vars
    BY <2>12 DEF vars, endpointVars, cacheVars, taskVars, lockVars, Attempt, Began
  <2> QED
    BY <1>4, <2>1, <2>2, <2>3, <2>4, <2>5, <2>6, <2>7, <2>8, <2>9, <2>10, <2>11, <2>12
    DEF Next, Step, Deliver, Abstract!Next
<1> QED
  BY <1>1, <1>2, <1>3, <1>4, PTL DEF Spec, RefinesLoadedCopy, Abstract!Spec
=============================================================================
