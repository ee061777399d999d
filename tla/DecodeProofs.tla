---------------------------- MODULE DecodeProofs ----------------------------
(***************************************************************************)
(* Proofs about Decode, for any threads, issuers, documents and calls.     *)
(***************************************************************************)
EXTENDS Decode, TLAPS

USE NoneIsNoThread, LocksAssumption, KindAssumption,
    RevokingAssumption, NoneIsNoSection, TrustedAssumption, CallsAssumption

(* The variables of one thread. *)
threadVars(t) == <<pc[t], call[t], section[t], again[t], result[t], keys[t]>>

(* What the caches of the issuers are. *)
CachesOK ==
    /\ cache \in [Issuers -> AnyDocument \cup {None}]
    /\ \A i \in Issuers : cache[i] \in Documents[i] \cup {None}
    /\ failedLately \in [Issuers -> BOOLEAN]
    /\ refreshedLately \in [Issuers -> BOOLEAN]
    /\ due \in [Issuers -> BOOLEAN]
    /\ listed \in [Issuers -> SUBSET Jtis]
    /\ ListsOK

(* What a step of t may do to the locks. *)
LockStep(t) ==
    \/ UNCHANGED lockVars
    \/ \E l \in Locks :
          \/ SetLocked(l) /\ (bound[l] \/ ~locked[l])
          \/ Join(t, l) \/ Resume(t, l)
    \/ Holds(t) /\ Release(LockOf(t))

(* A call that has come to its issuer names one that there is. *)
LEMMA Known ==
    ASSUME TypeOK, NEW t \in Threads, CallOK(t), pc[t] \notin {"idle", "hints"}
    PROVE  /\ call[t] \in AnyCall
           /\ Iss(t) \in Issuers
           /\ pc[t] \in LockSteps => LockOf(t) \in Locks
BY DEF TypeOK, CallOK, LockOf, Domains

(* The steps of t leave the other threads in order. *)
LEMMA Others ==
    ASSUME IInv, NEW t \in Threads, LockStep(t), ListsOK',
           \A i \in Issuers : revocations[i] \subseteq revocations'[i],
           NEW u \in Threads \ {t}, threadVars(u)' = threadVars(u)
    PROVE  ThreadOK(u)'
<1>1. ThreadOK(u) /\ TypeOK /\ (pc[u] \notin {"idle", "hints"} => Iss(u) \in Issuers)
  BY Known DEF IInv, ThreadOK
<1>2. /\ pc'[u] = pc[u] /\ call'[u] = call[u] /\ section'[u] = section[u]
      /\ result'[u] = result[u] /\ keys'[u] = keys[u] /\ Iss(u)' = Iss(u) /\ LockOf(u)' = LockOf(u)
  BY DEF threadVars, Iss, LockOf
<1>3. \A l \in Locks : bound[l] => bound'[l]
  <2>1. bound \in [Locks -> BOOLEAN]
    BY <1>1 DEF TypeOK, IssuerTypeOK, LockTypeOK
  <2>2. CASE UNCHANGED lockVars
    BY <2>2 DEF lockVars
  <2>3. ASSUME NEW l \in Locks, SetLocked(l) \/ Join(t, l) \/ Resume(t, l)
        PROVE  \A m \in Locks : bound[m] => bound'[m]
    BY <2>1, <2>3 DEF SetLocked, Join, Resume
  <2>4. CASE Holds(t) /\ Release(LockOf(t))
    BY <2>4 DEF Release
  <2> QED BY <2>2, <2>3, <2>4 DEF LockStep
<1>4. CallOK(u)'
  BY <1>1, <1>2 DEF ThreadOK, CallOK, InList, LockSteps
<1>5. ResultOK(u)'
  BY <1>1, <1>2, <1>3 DEF ThreadOK, ResultOK
<1>6. LockedOK(u)'
  <2> SUFFICES ASSUME pc[u] \in LockSteps PROVE LockedOK(u)'
    BY <1>2 DEF LockedOK, Waits, Holds, LockSteps
  <2>1. LockOf(u) \in Locks /\ LockedOK(u)
    BY <1>1, Known DEF ThreadOK, LockSteps
  <2>2. Waits(u) => waiter'[LockOf(u)] = u
    BY <1>1, <2>1 DEF IInv, WaitersOK, LockedOK, LockStep, lockVars, SetLocked, Join, Resume, Release,
         TypeOK, IssuerTypeOK, LockTypeOK
  <2>3. Holds(u) => locked'[LockOf(u)] \/ bound'[LockOf(u)]
    <3> SUFFICES ASSUME Holds(u), ~bound'[LockOf(u)] PROVE locked'[LockOf(u)]
      OBVIOUS
    <3>1. LockTypeOK /\ ~bound[LockOf(u)] /\ locked[LockOf(u)]
      BY <1>1, <1>3, <2>1 DEF LockedOK, TypeOK, IssuerTypeOK
    <3>2. CASE UNCHANGED lockVars \/ \E l \in Locks : SetLocked(l) \/ Join(t, l) \/ Resume(t, l)
      BY <2>1, <3>1, <3>2 DEF lockVars, SetLocked, Join, Resume, LockTypeOK
    <3>3. CASE Holds(t) /\ Release(LockOf(t))
      <4>1. LockOf(t) # LockOf(u)
        BY <3>1, <3>3 DEF IInv, Exclusive
      <4> QED BY <2>1, <3>1, <3>3, <4>1 DEF Release, LockTypeOK
    <3> QED BY <3>2, <3>3 DEF LockStep
  <2> QED BY <1>2, <1>3, <2>1, <2>2, <2>3 DEF LockedOK, Waits, Holds
<1> QED BY <1>4, <1>5, <1>6 DEF ThreadOK

(* What a step of t has to keep for the whole to be in order.              *)
LEMMA Step ==
    ASSUME IInv, NEW t \in Threads, LockStep(t), TypeOK', ListsOK', ThreadOK(t)',
           \A i \in Issuers : revocations[i] \subseteq revocations'[i],
           \A u \in Threads \ {t} : threadVars(u)' = threadVars(u),
           Holds(t)' => \/ Holds(t) /\ LockOf(t)' = LockOf(t)
                        \/ ~locked[LockOf(t)'] \/ bound[LockOf(t)']
    PROVE  IInv'
<1>1. \A u \in Threads : ThreadOK(u)'
  BY Others
<1>2. \A u \in Threads : CallOK(u)' /\ (Holds(u)' => Iss(u)' \in Issuers /\ LockOf(u)' \in Locks)
  BY <1>1 DEF ThreadOK, CallOK, Holds, LockSteps, LockOf, TypeOK, Domains
<1>3. WaitersOK'
  BY DEF IInv, WaitersOK, LockStep, lockVars, SetLocked, Join, Resume, Release, TypeOK, IssuerTypeOK, LockTypeOK
<1>4. \A l \in Locks : bound[l] => bound'[l]
  BY DEF IInv, LockStep, lockVars, SetLocked, Join, Resume, Release, TypeOK, IssuerTypeOK, LockTypeOK
<1>5. \A u \in Threads \ {t} : Holds(u)' = Holds(u) /\ LockOf(u)' = LockOf(u)
  BY DEF threadVars, Holds, LockOf, Iss
<1>6. ASSUME NEW u \in Threads \ {t}, Holds(t)', Holds(u)', LockOf(t)' = LockOf(u)'
      PROVE  bound'[LockOf(u)']
  <2>1. Holds(u) /\ LockOf(u)' = LockOf(u) /\ LockOf(u) \in Locks
    BY <1>2, <1>5, <1>6
  <2>2. locked[LockOf(u)] \/ bound[LockOf(u)]
    BY <2>1 DEF IInv, ThreadOK, LockedOK
  <2>3. bound[LockOf(u)]
    BY <1>6, <2>1, <2>2 DEF IInv, Exclusive
  <2> QED BY <1>4, <2>1, <2>3
<1>7. Exclusive'
  <2> SUFFICES ASSUME NEW v \in Threads, NEW u \in Threads, Holds(v)', Holds(u)', LockOf(v)' = LockOf(u)', v # u
               PROVE  bound'[LockOf(v)']
    BY DEF Exclusive
  <2>1. CASE v = t \/ u = t
    BY <1>6, <2>1
  <2>2. CASE v # t /\ u # t
    BY <1>2, <1>4, <1>5, <2>2 DEF IInv, Exclusive
  <2> QED BY <2>1, <2>2
<1> QED BY <1>1, <1>3, <1>7 DEF IInv

LEMMA BooleanExcept ==
    ASSUME NEW S, NEW f \in [S -> BOOLEAN], NEW x, NEW b \in BOOLEAN
    PROVE  [f EXCEPT ![x] = b] \in [S -> BOOLEAN]
OBVIOUS

LEMMA LockTypes ==
    ASSUME LockTypeOK, NEW t \in Threads, LockStep(t)
    PROVE  LockTypeOK'
<1>1. CASE UNCHANGED lockVars
  BY <1>1 DEF lockVars, LockTypeOK
<1>2. ASSUME NEW l \in Locks, SetLocked(l) \/ Join(t, l) \/ Resume(t, l)
      PROVE  LockTypeOK'
  <2>1. locked' \in [Locks -> BOOLEAN]
    BY <1>2, BooleanExcept DEF SetLocked, Join, Resume, LockTypeOK
  <2>2. bound' \in [Locks -> BOOLEAN]
    BY <1>2, BooleanExcept DEF SetLocked, Join, Resume, LockTypeOK
  <2>3. woken' \in [Locks -> BOOLEAN]
    BY <1>2, BooleanExcept DEF SetLocked, Join, Resume, LockTypeOK
  <2>4. waiter' \in [Locks -> Threads \cup {None}]
    BY <1>2 DEF SetLocked, Join, Resume, LockTypeOK
  <2> QED BY <2>1, <2>2, <2>3, <2>4 DEF LockTypeOK
<1>3. CASE Release(LockOf(t))
  <2>1. locked' \in [Locks -> BOOLEAN]
    BY <1>3, BooleanExcept DEF Release, LockTypeOK
  <2>2. woken' \in [Locks -> BOOLEAN]
    <3>1. (waiter[LockOf(t)] # None) \in BOOLEAN
      OBVIOUS
    <3> QED BY <1>3, <3>1, BooleanExcept DEF Release, LockTypeOK
  <2> QED BY <1>3, <2>1, <2>2 DEF Release, LockTypeOK
<1> QED BY <1>1, <1>2, <1>3 DEF LockStep

(* A step of t in a call, as far as the other threads and the types go.    *)
LEMMA Local ==
    ASSUME IInv, NEW t \in Threads, pc[t] # "idle", NEW l \in Steps \ {"idle"}, Goto(t, l),
           LockStep(t), UNCHANGED <<worldVars, call, workload>>, outcome' = "none",
           NEW s \in {None, "load", "refresh", "revoked"}, section' = [section EXCEPT ![t] = s],
           again' \in [Threads -> BOOLEAN], \A u \in Threads \ {t} : again'[u] = again[u],
           NEW r \in Results, result' = [result EXCEPT ![t] = r],
           NEW d \in AnyDocument \cup {None}, keys' = [keys EXCEPT ![t] = d],
           CachesOK', ThreadOK(t)',
           l \in {"locked", "fetch"} =>
              \/ Holds(t) /\ LockOf(t)' = LockOf(t)
              \/ ~locked[LockOf(t)'] \/ bound[LockOf(t)']
    PROVE  IInv'
<1>1. LockTypeOK'
  BY LockTypes DEF IInv, TypeOK, IssuerTypeOK
<1>2. TypeOK'
  <2>1. IssuerTypeOK'
    BY <1>1 DEF IInv, TypeOK, IssuerTypeOK, worldVars, CachesOK
  <2>2. pc' \in [Threads -> Steps] /\ \A u \in Threads : call'[u] = None <=> pc'[u] = "idle"
    BY DEF IInv, TypeOK, Goto
  <2>3. call' \in [Threads -> AnyCall \cup {None}] /\ workload' \in Workloads /\ outcome' \in Verdicts
    BY DEF IInv, TypeOK, Verdicts
  <2> QED BY <2>1, <2>2, <2>3 DEF TypeOK
<1>3. \A u \in Threads \ {t} : threadVars(u)' = threadVars(u)
  BY DEF threadVars, IInv, TypeOK, IssuerTypeOK, Goto
<1>4. Holds(t)' => l \in {"locked", "fetch"}
  BY DEF IInv, TypeOK, Goto, Holds
<1>5. \A i \in Issuers : revocations[i] \subseteq revocations'[i]
  BY DEF worldVars
<1> QED BY <1>2, <1>3, <1>4, <1>5, Step DEF CachesOK

LEMMA CachesKept ==
    ASSUME IInv, UNCHANGED <<worldVars, cacheVars>>
    PROVE  CachesOK'
BY DEF IInv, TypeOK, IssuerTypeOK, worldVars, cacheVars, CachesOK, ListsOK

(* The issuer raises an exception. *)
LEMMA RaiseStep ==
    ASSUME IInv, NEW t \in Threads, pc[t] = "get" \/ pc[t] \in LockSteps, NEW e \in Results, Raise(t, e),
           LockStep(t), CachesOK',
           UNCHANGED <<worldVars, call, section, workload>>, outcome' = "none",
           again' \in [Threads -> BOOLEAN], \A u \in Threads \ {t} : again'[u] = again[u],
           \/ e = "JwksError" /\ section[t] # "revoked"
           \/ /\ e \in {"OSError", "AttributeError", "JoseError"} /\ section[t] # "revoked"
              /\ \E d \in Documents[Iss(t)] : Trips(d)
           \/ e = "RuntimeError" /\ pc[t] # "get" /\ bound'[LockOf(t)]
    PROVE  IInv'
<1> DEFINE l == IF section[t] = "revoked" THEN "answered" ELSE "resolved"
<1>1. TypeOK /\ ThreadOK(t) /\ pc[t] \notin {"idle", "hints"} /\ Iss(t) \in Issuers
  BY Known DEF IInv, ThreadOK, LockSteps
<1>2. pc'[t] = l /\ result'[t] = e /\ Iss(t)' = Iss(t) /\ call'[t] = call[t] /\ section'[t] = section[t]
  BY <1>1 DEF Raise, Goto, TypeOK, IssuerTypeOK, Iss
<1>3. CallOK(t)'
  BY <1>1, <1>2 DEF ThreadOK, CallOK, InList, LockSteps
<1>4. ResultOK(t)'
  BY <1>1, <1>2 DEF ThreadOK, CallOK, ResultOK, LockOf
<1>5. ThreadOK(t)'
  BY <1>2, <1>3, <1>4 DEF ThreadOK, LockedOK, Waits, Holds
<1>6. section' = [section EXCEPT ![t] = section[t]] /\ keys' = [keys EXCEPT ![t] = keys[t]]
  BY <1>1 DEF Raise, TypeOK, IssuerTypeOK
<1>7. section[t] \in {None, "load", "refresh", "revoked"} /\ keys[t] \in AnyDocument \cup {None}
  BY <1>1 DEF TypeOK, IssuerTypeOK
<1>8. Goto(t, l) /\ result' = [result EXCEPT ![t] = e] /\ l \in Steps \ {"idle"} /\ l \notin {"locked", "fetch"}
  BY DEF Raise, Steps
<1> HIDE DEF l
<1> QED BY <1>1, <1>5, <1>6, <1>7, <1>8, Local

(* The issuer returns keys it published. *)
LEMMA ReturnStep ==
    ASSUME IInv, NEW t \in Threads, pc[t] = "get", NEW d \in Documents[Iss(t)], Indexed(d),
           ReturnKeys(t, d),
           UNCHANGED <<lockVars, worldVars, cacheVars, call, section, again, workload>>, outcome' = "none"
    PROVE  IInv'
<1>1. TypeOK /\ ThreadOK(t) /\ Iss(t) \in Issuers
  BY Known DEF IInv, ThreadOK
<1>2. /\ pc'[t] = "resolved" /\ result'[t] = "keys" /\ keys'[t] = d
      /\ Iss(t)' = Iss(t) /\ call'[t] = call[t] /\ section'[t] = section[t]
  BY <1>1 DEF ReturnKeys, Goto, TypeOK, IssuerTypeOK, Iss
<1>3. ThreadOK(t)'
  BY <1>1, <1>2 DEF ThreadOK, LockedOK, CallOK, ResultOK, InList, LockSteps, Waits, Holds
<1>4. section' = [section EXCEPT ![t] = section[t]] /\ again' = again /\ again \in [Threads -> BOOLEAN]
  BY <1>1 DEF TypeOK, IssuerTypeOK
<1>5. section[t] \in {None, "load", "refresh", "revoked"} /\ d \in AnyDocument \cup {None}
  BY <1>1 DEF TypeOK, IssuerTypeOK, AnyDocument
<1>6. Goto(t, "resolved") /\ result' = [result EXCEPT ![t] = "keys"] /\ keys' = [keys EXCEPT ![t] = d]
      /\ "resolved" \in Steps \ {"idle"} /\ "keys" \in Results
  BY DEF ReturnKeys, Steps, Results
<1>7. LockStep(t) /\ CachesOK'
  BY CachesKept DEF LockStep
<1> QED BY <1>1, <1>3, <1>4, <1>5, <1>6, <1>7, Local

(* A step that is neither the end of a call nor of its time with the       *)
(* issuer.                                                                 *)
LEMMA GoOnStep ==
    ASSUME IInv, NEW t \in Threads, pc[t] # "idle", NEW l \in Steps \ {"idle", "resolved", "answered"}, GoOn(t, l),
           LockStep(t), CachesOK', UNCHANGED <<worldVars, call, workload>>, outcome' = "none",
           NEW s \in {None, "load", "refresh", "revoked"}, section' = [section EXCEPT ![t] = s],
           again' \in [Threads -> BOOLEAN], \A u \in Threads \ {t} : again'[u] = again[u],
           l \in LockSteps => s \in {"load", "refresh", "revoked"},
           l \in {"hints", "get"} => s # "revoked",
           l # "hints" => Iss(t) \in Trusted[call[t].domain],
           l \in {"ask", "look"} \/ (l \in LockSteps /\ s = "revoked") => Revocable(call[t]) /\ Published(call[t]),
           l \in {"waiting", "asleep"} => waiter'[LockOf(t)'] = t,
           l = "take" => bound'[LockOf(t)'],
           l \in {"locked", "fetch"} =>
              /\ locked'[LockOf(t)'] \/ bound'[LockOf(t)']
              /\ \/ Holds(t) /\ LockOf(t)' = LockOf(t)
                 \/ ~locked[LockOf(t)'] \/ bound[LockOf(t)']
    PROVE  IInv'
<1>1. TypeOK /\ ThreadOK(t)
  BY DEF IInv
<1>2. pc'[t] = l /\ section'[t] = s /\ Iss(t)' = Iss(t) /\ call'[t] = call[t]
  BY <1>1 DEF GoOn, Goto, TypeOK, IssuerTypeOK, Iss
<1>3. ThreadOK(t)'
  BY <1>1, <1>2 DEF ThreadOK, LockedOK, CallOK, ResultOK, InList, LockSteps, Waits, Holds, Steps
<1>4. result' = [result EXCEPT ![t] = result[t]] /\ keys' = [keys EXCEPT ![t] = keys[t]]
      /\ result[t] \in Results /\ keys[t] \in AnyDocument \cup {None}
  BY <1>1 DEF GoOn, TypeOK, IssuerTypeOK
<1>5. Goto(t, l)
  BY DEF GoOn
<1> QED BY <1>3, <1>4, <1>5, Local

(* again is kept. *)
LEMMA AgainKept ==
    ASSUME IInv, NEW t \in Threads, UNCHANGED again
    PROVE  again' \in [Threads -> BOOLEAN] /\ \A u \in Threads \ {t} : again'[u] = again[u]
BY DEF IInv, TypeOK, IssuerTypeOK

LEMMA RunBlockingStep ==
    ASSUME IInv, NEW t \in Threads, pc[t] = "get", NEW s \in {"load", "refresh"}, RunBlocking(t, s),
           UNCHANGED <<lockVars, worldVars, cacheVars, call, again, workload>>, outcome' = "none"
    PROVE  IInv'
<1>1. TypeOK /\ ThreadOK(t) /\ Iss(t) \in Trusted[call[t].domain] /\ section[t] # "revoked"
  BY DEF IInv, ThreadOK, CallOK
<1>2. LockStep(t) /\ CachesOK'
  BY CachesKept DEF LockStep
<1>3. again' \in [Threads -> BOOLEAN] /\ \A u \in Threads \ {t} : again'[u] = again[u]
  BY AgainKept
<1>4. CASE Raise(t, "JwksError") /\ UNCHANGED section
  BY <1>1, <1>2, <1>3, <1>4, RaiseStep DEF Results
<1>5. CASE section' = [section EXCEPT ![t] = s] /\ GoOn(t, "acquire")
  <2>1. "acquire" \in Steps \ {"idle", "resolved", "answered"}
    BY DEF Steps, LockSteps
  <2> QED BY <1>1, <1>2, <1>3, <1>5, <2>1, GoOnStep DEF LockSteps
<1> QED BY <1>4, <1>5 DEF RunBlocking

(* _index_issuer_keys of what the issuer has. *)
LEMMA LookUpStep ==
    ASSUME IInv, NEW t \in Threads, pc[t] = "get", NEW d \in Documents[Iss(t)] \ {None}, LookUp(t, d),
           UNCHANGED <<lockVars, worldVars, cacheVars, call, workload>>, outcome' = "none"
    PROVE  IInv'
<1>1. TypeOK /\ ThreadOK(t) /\ Iss(t) \in Trusted[call[t].domain]
  BY DEF IInv, ThreadOK, CallOK
<1>2. section[t] # "revoked" /\ section[t] \in {None, "load", "refresh", "revoked"}
  BY <1>1 DEF ThreadOK, CallOK, TypeOK, IssuerTypeOK
<1>3. LockStep(t) /\ CachesOK'
  BY CachesKept DEF LockStep
<1>4. CASE Raise(t, "JwksError") /\ UNCHANGED <<section, again>>
  BY <1>2, <1>3, <1>4, AgainKept, RaiseStep DEF Results
<1>5. CASE Indexed(d) /\ ReturnKeys(t, d) /\ UNCHANGED <<section, again>>
  BY <1>5, ReturnStep
<1>8. ASSUME NEW e \in {"AttributeError", "JoseError"}, Raise(t, e), Trips(d), UNCHANGED <<section, again>>
      PROVE  IInv'
  BY <1>2, <1>3, <1>8, AgainKept, RaiseStep DEF Results
<1>9. d = Garbled \/ (Indexed(d) /\ ~Importable(d)) => Trips(d)
  BY DEF Trips, NoDocument
<1>6. CASE RunBlocking(t, "refresh") /\ UNCHANGED again
  BY <1>6, RunBlockingStep
<1>7. CASE again' = [again EXCEPT ![t] = TRUE] /\ UNCHANGED <<pc, section, result, keys>>
  <2>1. section' = [section EXCEPT ![t] = section[t]] /\ GoOn(t, "get")
    BY <1>1, <1>7 DEF TypeOK, IssuerTypeOK, GoOn, Goto
  <2>2. again' \in [Threads -> BOOLEAN] /\ \A u \in Threads \ {t} : again'[u] = again[u]
    BY <1>1, <1>7, BooleanExcept DEF TypeOK, IssuerTypeOK
  <2> QED BY <1>1, <1>2, <1>3, <2>1, <2>2, GoOnStep DEF Steps, LockSteps
<1> QED BY <1>4, <1>5, <1>6, <1>7, <1>8, <1>9 DEF LookUp, Unindexed, ImportKeySet

LEMMA GetStep ==
    ASSUME IInv, NEW t \in Threads, Get(t), UNCHANGED workload, outcome' = "none"
    PROVE  IInv'
<1>1. TypeOK /\ CallOK(t) /\ pc[t] = "get" /\ section[t] # "revoked"
  BY DEF IInv, ThreadOK, CallOK, Get
<1>2. Iss(t) \in Issuers
  BY <1>1, Known
<1>3. cache[Iss(t)] \in Documents[Iss(t)] \cup {None} /\ document[Iss(t)] \in Documents[Iss(t)]
  BY <1>1, <1>2 DEF TypeOK, IssuerTypeOK
<1>4. CASE RunBlocking(t, "load") /\ UNCHANGED again
  BY <1>1, <1>4, RunBlockingStep DEF Get
<1>5. ASSUME NEW d \in {cache[Iss(t)], document[Iss(t)]}, d # None, LookUp(t, d)
      PROVE  IInv'
  BY <1>1, <1>3, <1>5, LookUpStep DEF Get
<1>6. CASE document[Iss(t)] = None /\ Raise(t, "OSError") /\ UNCHANGED <<section, again>>
  <2>1. LockStep(t) /\ CachesOK'
    BY CachesKept DEF LockStep, Get
  <2>2. \E d \in Documents[Iss(t)] : Trips(d)
    BY <1>3, <1>6 DEF Trips, NoDocument
  <2> QED BY <1>1, <1>6, <2>1, <2>2, AgainKept, RaiseStep DEF Results, Get
<1> QED BY <1>4, <1>5, <1>6 DEF Get, GetCached, GetConfigured

LEMMA AskRevokedStep ==
    ASSUME IInv, NEW t \in Threads, AskRevoked(t), UNCHANGED workload, outcome' = "none"
    PROVE  IInv'
<1>1. TypeOK /\ CallOK(t) /\ pc[t] = "ask" /\ Iss(t) \in Trusted[call[t].domain]
      /\ Revocable(call[t]) /\ Published(call[t])
  BY DEF IInv, ThreadOK, CallOK, AskRevoked, InList
<1>2. LockStep(t) /\ CachesOK' /\ UNCHANGED <<worldVars, call, workload>>
  BY CachesKept DEF LockStep, AskRevoked
<1>3. again' \in [Threads -> BOOLEAN] /\ \A u \in Threads \ {t} : again'[u] = again[u]
  BY AgainKept DEF AskRevoked
<1>4. section[t] \in {None, "load", "refresh", "revoked"} /\ result[t] \in Results
      /\ keys[t] \in AnyDocument \cup {None}
  BY <1>1 DEF TypeOK, IssuerTypeOK
<1>5. CASE call[t].inLoop /\ Goto(t, "answered") /\ result' = [result EXCEPT ![t] = "RuntimeError"]
           /\ UNCHANGED <<section, keys>>
  <2>1. pc'[t] = "answered" /\ result'[t] = "RuntimeError" /\ call'[t] = call[t] /\ Iss(t)' = Iss(t)
    BY <1>1, <1>2, <1>5 DEF Goto, TypeOK, IssuerTypeOK, Iss
  <2>2. ThreadOK(t)'
    BY <1>1, <1>5, <2>1 DEF ThreadOK, LockedOK, CallOK, ResultOK, InList, LockSteps, Waits, Holds
  <2>3. section' = [section EXCEPT ![t] = section[t]] /\ keys' = [keys EXCEPT ![t] = keys[t]]
    BY <1>1, <1>5 DEF TypeOK, IssuerTypeOK
  <2>4. /\ "answered" \in Steps \ {"idle"} /\ "RuntimeError" \in Results /\ pc[t] # "idle"
        /\ Goto(t, "answered") /\ result' = [result EXCEPT ![t] = "RuntimeError"]
    BY <1>1, <1>5 DEF Steps, Results
  <2> HIDE <1>5
  <2> QED BY <1>2, <1>3, <1>4, <2>2, <2>3, <2>4, Local
<1>6. CASE GoOn(t, "look") /\ UNCHANGED section
  <2>1. section' = [section EXCEPT ![t] = section[t]]
    BY <1>1, <1>6 DEF TypeOK, IssuerTypeOK
  <2>2. "look" \in Steps \ {"idle", "resolved", "answered"}
    BY DEF Steps
  <2> QED BY <1>1, <1>2, <1>3, <1>4, <1>6, <2>1, <2>2, GoOnStep DEF LockSteps
<1>7. CASE section' = [section EXCEPT ![t] = "revoked"] /\ GoOn(t, "acquire")
  <2>1. "acquire" \in Steps \ {"idle", "resolved", "answered"} /\ "revoked" \in {None, "load", "refresh", "revoked"}
    BY DEF Steps, LockSteps
  <2> QED BY <1>1, <1>2, <1>3, <1>7, <2>1, GoOnStep DEF LockSteps
<1> QED BY <1>5, <1>6, <1>7 DEF AskRevoked

LEMMA LookRevokedStep ==
    ASSUME IInv, NEW t \in Threads, LookRevoked(t), UNCHANGED workload, outcome' = "none"
    PROVE  IInv'
<1> DEFINE r == IF call[t].token.jti \in listed[Iss(t)] THEN "listed" ELSE "unlisted"
<1>1. TypeOK /\ CallOK(t) /\ pc[t] = "look" /\ Iss(t) \in Trusted[call[t].domain]
      /\ Revocable(call[t]) /\ Published(call[t])
  BY DEF IInv, ThreadOK, CallOK, LookRevoked, InList
<1>2. LockStep(t) /\ CachesOK' /\ UNCHANGED <<worldVars, call, workload>>
  BY CachesKept DEF LockStep, LookRevoked
<1>3. again' \in [Threads -> BOOLEAN] /\ \A u \in Threads \ {t} : again'[u] = again[u]
  BY AgainKept DEF LookRevoked
<1>4. section[t] \in {None, "load", "refresh", "revoked"} /\ keys[t] \in AnyDocument \cup {None}
      /\ section' = [section EXCEPT ![t] = section[t]] /\ keys' = [keys EXCEPT ![t] = keys[t]]
  BY <1>1 DEF TypeOK, IssuerTypeOK, LookRevoked
<1>5. /\ pc'[t] = "answered" /\ result'[t] = r /\ call'[t] = call[t] /\ Iss(t)' = Iss(t)
      /\ revocations' = revocations /\ r \in {"listed", "unlisted"}
  BY <1>1 DEF Goto, TypeOK, IssuerTypeOK, Iss, LookRevoked, worldVars
<1>6. r = "listed" => call[t].token.jti \in revocations[Iss(t)]
  BY <1>1, Known DEF IInv, ListsOK
<1>7. ThreadOK(t)'
  BY <1>1, <1>5, <1>6 DEF ThreadOK, LockedOK, CallOK, ResultOK, InList, LockSteps, Waits, Holds
<1>8. Goto(t, "answered") /\ result' = [result EXCEPT ![t] = r] /\ r \in Results /\ "answered" \in Steps \ {"idle"}
  BY DEF LookRevoked, Results, Steps
<1> HIDE DEF r
<1> QED BY <1>1, <1>2, <1>3, <1>4, <1>7, <1>8, Local
-----------------------------------------------------------------------------
(* A thread at the lock of its issuer. *)
LEMMA AtLock ==
    ASSUME IInv, NEW t \in Threads, pc[t] \in LockSteps
    PROVE  /\ TypeOK /\ LockedOK(t) /\ Iss(t) \in Issuers /\ LockOf(t) \in Locks
           /\ section[t] \in {"load", "refresh", "revoked"} /\ Iss(t) \in Trusted[call[t].domain]
           /\ section[t] = "revoked" => Revocable(call[t]) /\ Published(call[t])
BY Known DEF IInv, ThreadOK, CallOK, InList, LockSteps

LEMMA LockGoOn ==
    ASSUME IInv, NEW t \in Threads, pc[t] \in LockSteps, NEW l \in LockSteps, GoOn(t, l), LockStep(t), CachesOK',
           UNCHANGED <<worldVars, call, section, workload>>, outcome' = "none",
           again' \in [Threads -> BOOLEAN], \A u \in Threads \ {t} : again'[u] = again[u],
           l \in {"waiting", "asleep"} => waiter'[LockOf(t)] = t,
           l = "take" => bound'[LockOf(t)],
           l \in {"locked", "fetch"} =>
              /\ locked'[LockOf(t)] \/ bound'[LockOf(t)]
              /\ Holds(t) \/ ~locked[LockOf(t)] \/ bound[LockOf(t)]
    PROVE  IInv'
<1>1. PICK s \in {None, "load", "refresh", "revoked"} : s = section[t]
  BY AtLock
<1>2. section' = [section EXCEPT ![t] = s]
  BY <1>1, AtLock DEF TypeOK, IssuerTypeOK
<1>3. LockOf(t)' = LockOf(t)
  BY DEF LockOf, Iss
<1>4. pc[t] # "idle" /\ l \in Steps \ {"idle", "resolved", "answered"} /\ l \notin {"hints", "get", "ask", "look"}
  BY DEF LockSteps, Steps
<1>5. /\ l \in LockSteps => s \in {"load", "refresh", "revoked"}
      /\ l \in {"hints", "get"} => s # "revoked"
      /\ l # "hints" => Iss(t) \in Trusted[call[t].domain]
      /\ l \in {"ask", "look"} \/ (l \in LockSteps /\ s = "revoked") => Revocable(call[t]) /\ Published(call[t])
  BY <1>1, <1>4, AtLock
<1>6. /\ l \in {"waiting", "asleep"} => waiter'[LockOf(t)'] = t
      /\ l = "take" => bound'[LockOf(t)']
      /\ l \in {"locked", "fetch"} =>
            /\ locked'[LockOf(t)'] \/ bound'[LockOf(t)']
            /\ \/ Holds(t) /\ LockOf(t)' = LockOf(t)
               \/ ~locked[LockOf(t)'] \/ bound[LockOf(t)']
  BY <1>3
<1>7. UNCHANGED <<worldVars, call, workload>>
  OBVIOUS
<1> QED BY <1>2, <1>4, <1>5, <1>6, <1>7, GoOnStep

LEMMA AcquireStep ==
    ASSUME IInv, NEW t \in Threads, Acquire(t), UNCHANGED workload, outcome' = "none"
    PROVE  IInv'
<1>1. pc[t] \in LockSteps /\ UNCHANGED <<worldVars, call, section>> /\ CachesOK'
  BY CachesKept DEF Acquire, LockSteps
<1>2. again' \in [Threads -> BOOLEAN] /\ \A u \in Threads \ {t} : again'[u] = again[u]
  BY AgainKept DEF Acquire
<1>3. LockOf(t) \in Locks /\ TypeOK
  BY <1>1, AtLock
<1>4. CASE Free(LockOf(t)) /\ SetLocked(LockOf(t)) /\ GoOn(t, "locked")
  <2>1. LockStep(t) /\ locked'[LockOf(t)] /\ ~locked[LockOf(t)]
    BY <1>3, <1>4 DEF LockStep, SetLocked, Free, TypeOK, IssuerTypeOK, LockTypeOK
  <2>2. "locked" \in LockSteps
    BY DEF LockSteps
  <2> QED BY <1>1, <1>2, <1>4, <2>1, <2>2, LockGoOn
<1>5. CASE bound[LockOf(t)] /\ UNCHANGED lockVars /\ GoOn(t, "take")
  <2>1. LockStep(t) /\ bound'[LockOf(t)] /\ "take" \in LockSteps
    BY <1>5 DEF LockStep, lockVars, LockSteps
  <2> QED BY <1>1, <1>2, <1>5, <2>1, LockGoOn
<1>6. CASE UNCHANGED lockVars /\ GoOn(t, "join")
  <2>1. LockStep(t) /\ "join" \in LockSteps
    BY <1>6 DEF LockStep, LockSteps
  <2> QED BY <1>1, <1>2, <1>6, <2>1, LockGoOn
<1> QED BY <1>4, <1>5, <1>6 DEF Acquire

LEMMA TakeStep ==
    ASSUME IInv, NEW t \in Threads, Take(t), UNCHANGED workload, outcome' = "none"
    PROVE  IInv'
<1>1. pc[t] \in LockSteps /\ UNCHANGED <<worldVars, call, section>> /\ CachesOK'
  BY CachesKept DEF Take, LockSteps
<1>2. again' \in [Threads -> BOOLEAN] /\ \A u \in Threads \ {t} : again'[u] = again[u]
  BY AgainKept DEF Take
<1>3. LockOf(t) \in Locks /\ TypeOK /\ bound[LockOf(t)]
  BY <1>1, AtLock DEF LockedOK, Take
<1>4. LockStep(t) /\ locked'[LockOf(t)] /\ "locked" \in LockSteps
  BY <1>3 DEF Take, LockStep, SetLocked, TypeOK, IssuerTypeOK, LockTypeOK, LockSteps
<1> QED BY <1>1, <1>2, <1>3, <1>4, LockGoOn DEF Take

LEMMA JoinWaitersStep ==
    ASSUME IInv, NEW t \in Threads, JoinWaiters(t), UNCHANGED workload, outcome' = "none"
    PROVE  IInv'
<1>1. pc[t] \in LockSteps /\ UNCHANGED <<worldVars, call, section>> /\ CachesOK' /\ pc[t] # "get"
  BY CachesKept DEF JoinWaiters, LockSteps
<1>2. again' \in [Threads -> BOOLEAN] /\ \A u \in Threads \ {t} : again'[u] = again[u]
  BY AgainKept DEF JoinWaiters
<1>3. LockOf(t) \in Locks /\ TypeOK
  BY <1>1, AtLock
<1>4. CASE Join(t, LockOf(t)) /\ GoOn(t, "waiting")
  <2>1. LockStep(t) /\ waiter'[LockOf(t)] = t /\ "waiting" \in LockSteps
    BY <1>3, <1>4 DEF LockStep, Join, TypeOK, IssuerTypeOK, LockTypeOK, LockSteps
  <2> QED BY <1>1, <1>2, <1>4, <2>1, LockGoOn
<1>5. CASE bound[LockOf(t)] /\ Raise(t, "RuntimeError") /\ UNCHANGED lockVars
  <2>1. LockStep(t) /\ bound'[LockOf(t)] /\ "RuntimeError" \in Results
    BY <1>5 DEF LockStep, lockVars, Results
  <2> QED BY <1>1, <1>2, <1>5, <2>1, RaiseStep
<1> QED BY <1>4, <1>5 DEF JoinWaiters

LEMMA FallAsleepStep ==
    ASSUME IInv, NEW t \in Threads, FallAsleep(t), UNCHANGED workload, outcome' = "none"
    PROVE  IInv'
<1>1. pc[t] \in LockSteps /\ UNCHANGED <<worldVars, call, section>> /\ CachesOK' /\ LockStep(t)
  BY CachesKept DEF FallAsleep, LockSteps, LockStep
<1>2. again' \in [Threads -> BOOLEAN] /\ \A u \in Threads \ {t} : again'[u] = again[u]
  BY AgainKept DEF FallAsleep
<1>3. waiter'[LockOf(t)] = t /\ "asleep" \in LockSteps
  BY <1>1, AtLock DEF FallAsleep, LockedOK, Waits, lockVars, LockSteps
<1> QED BY <1>1, <1>2, <1>3, LockGoOn DEF FallAsleep

LEMMA WakeUpStep ==
    ASSUME IInv, NEW t \in Threads, WakeUp(t), UNCHANGED workload, outcome' = "none"
    PROVE  IInv'
<1>1. pc[t] \in LockSteps /\ UNCHANGED <<worldVars, call, section>> /\ CachesOK'
  BY CachesKept DEF WakeUp, LockSteps
<1>2. again' \in [Threads -> BOOLEAN] /\ \A u \in Threads \ {t} : again'[u] = again[u]
  BY AgainKept DEF WakeUp
<1>3. LockOf(t) \in Locks /\ TypeOK
  BY <1>1, AtLock
<1>4. Resume(t, LockOf(t)) /\ GoOn(t, "locked") /\ "locked" \in LockSteps
  BY DEF WakeUp, LockSteps
<1>5. LockStep(t)
  BY <1>3, <1>4 DEF LockStep
<1>6. bound[LockOf(t)] /\ locked'[LockOf(t)]
  BY <1>3, <1>4 DEF IInv, WaitersOK, Resume, TypeOK, IssuerTypeOK, LockTypeOK
<1> QED BY <1>1, <1>2, <1>4, <1>5, <1>6, LockGoOn
-----------------------------------------------------------------------------
(* Leaving the lock. *)
LEMMA LeaveStep ==
    ASSUME IInv, NEW t \in Threads, Holds(t),
           NEW l \in {"get", "look"}, l = "get" <=> section[t] # "revoked", Leave(t, l), CachesOK',
           UNCHANGED <<worldVars, call, section, workload>>, outcome' = "none",
           again' \in [Threads -> BOOLEAN], \A u \in Threads \ {t} : again'[u] = again[u]
    PROVE  IInv'
<1>1. pc[t] \in LockSteps /\ pc[t] # "get" /\ pc[t] # "idle"
  BY DEF Holds, LockSteps
<1>2. locked[LockOf(t)] \/ bound[LockOf(t)]
  BY <1>1, AtLock DEF LockedOK
<1>3. CASE Release(LockOf(t)) /\ GoOn(t, l)
  <2>1. LockStep(t) /\ l \in Steps \ {"idle", "resolved", "answered"} /\ l \notin LockSteps
    BY <1>3 DEF LockStep, Steps, LockSteps
  <2>2. section' = [section EXCEPT ![t] = section[t]] /\ section[t] \in {None, "load", "refresh", "revoked"}
    BY <1>1, AtLock DEF TypeOK, IssuerTypeOK
  <2>3. Iss(t) \in Trusted[call[t].domain] /\ (l = "look" => Revocable(call[t]) /\ Published(call[t]))
    BY <1>1, AtLock
  <2>4. l \notin {"hints", "ask", "waiting", "asleep", "take", "locked", "fetch"}
    OBVIOUS
  <2> QED BY <1>1, <1>3, <2>1, <2>2, <2>3, <2>4, GoOnStep
<1>4. CASE ~locked[LockOf(t)] /\ Raise(t, "RuntimeError") /\ UNCHANGED lockVars
  <2>1. LockStep(t) /\ bound'[LockOf(t)] /\ "RuntimeError" \in Results
    BY <1>2, <1>4 DEF LockStep, lockVars, Results
  <2> QED BY <1>1, <1>4, <2>1, RaiseStep
<1> QED BY <1>3, <1>4 DEF Leave

LEMMA LeaveRaisingStep ==
    ASSUME IInv, NEW t \in Threads, Holds(t), section[t] # "revoked", LeaveRaising(t, "JwksError"), CachesOK',
           UNCHANGED <<worldVars, call, section, again, workload>>, outcome' = "none"
    PROVE  IInv'
<1>1. pc[t] \in LockSteps /\ pc[t] # "get"
  BY DEF Holds, LockSteps
<1>2. locked[LockOf(t)] \/ bound[LockOf(t)]
  BY <1>1, AtLock DEF LockedOK
<1>3. CASE Release(LockOf(t)) /\ Raise(t, "JwksError")
  <2>1. LockStep(t) /\ "JwksError" \in Results
    BY <1>3 DEF LockStep, Results
  <2> QED BY <1>1, <1>3, <2>1, AgainKept, RaiseStep
<1>4. CASE ~locked[LockOf(t)] /\ Raise(t, "RuntimeError") /\ UNCHANGED lockVars
  <2>1. LockStep(t) /\ bound'[LockOf(t)] /\ "RuntimeError" \in Results
    BY <1>2, <1>4 DEF LockStep, lockVars, Results
  <2> QED BY <1>1, <1>4, <2>1, AgainKept, RaiseStep
<1> QED BY <1>3, <1>4 DEF LeaveRaising

(* What is done under a lock leaves the caches in order. *)
LEMMA CachesSet ==
    ASSUME IInv, NEW i \in Issuers, UNCHANGED worldVars,
           cache' \in {cache, [cache EXCEPT ![i] = document[i]]},
           listed' \in {listed, [listed EXCEPT ![i] = revocations[i]]},
           failedLately' \in {failedLately, [failedLately EXCEPT ![i] = TRUE], [failedLately EXCEPT ![i] = FALSE]},
           refreshedLately' \in {refreshedLately, [refreshedLately EXCEPT ![i] = TRUE]},
           due' \in {due, [due EXCEPT ![i] = FALSE]}
    PROVE  CachesOK'
<1>1. IssuerTypeOK /\ ListsOK
  BY DEF IInv, TypeOK
<1>2. cache' \in [Issuers -> AnyDocument \cup {None}] /\ \A j \in Issuers : cache'[j] \in Documents[j] \cup {None}
  <2>1. document[i] \in AnyDocument /\ document[i] \in Documents[i]
    BY <1>1 DEF IssuerTypeOK
  <2>2. CASE cache' = cache
    BY <1>1, <2>2 DEF IssuerTypeOK
  <2>3. CASE cache' = [cache EXCEPT ![i] = document[i]]
    BY <1>1, <2>1, <2>3 DEF IssuerTypeOK
  <2> QED BY <2>2, <2>3
<1>3. failedLately' \in [Issuers -> BOOLEAN]
  BY <1>1, BooleanExcept DEF IssuerTypeOK
<1>4. refreshedLately' \in [Issuers -> BOOLEAN]
  BY <1>1, BooleanExcept DEF IssuerTypeOK
<1>5. due' \in [Issuers -> BOOLEAN]
  BY <1>1, BooleanExcept DEF IssuerTypeOK
<1>6. listed' \in [Issuers -> SUBSET Jtis] /\ ListsOK'
  BY <1>1 DEF IssuerTypeOK, ListsOK, worldVars
<1> QED BY <1>2, <1>3, <1>4, <1>5, <1>6 DEF CachesOK

(* A thread goes on to its fetch, under the lock. *)
LEMMA FetchStep ==
    ASSUME IInv, NEW t \in Threads, Holds(t), GoOn(t, "fetch"), UNCHANGED lockVars, CachesOK',
           UNCHANGED <<worldVars, call, section, again, workload>>, outcome' = "none"
    PROVE  IInv'
<1>1. pc[t] \in LockSteps /\ "fetch" \in LockSteps /\ LockStep(t)
  BY DEF Holds, LockSteps, LockStep
<1>2. locked'[LockOf(t)] \/ bound'[LockOf(t)]
  BY <1>1, AtLock DEF LockedOK, lockVars
<1> QED BY <1>1, <1>2, AgainKept, LockGoOn

LEMMA LoadStep ==
    ASSUME IInv, NEW t \in Threads, Load(t), UNCHANGED workload, outcome' = "none"
    PROVE  IInv'
<1>1. Holds(t) /\ UNCHANGED <<worldVars, call, section, again>> /\ CachesOK' /\ section[t] = "load"
  BY CachesKept DEF Load, Holds
<1>2. CASE Leave(t, "get")
  BY <1>1, <1>2, AgainKept, LeaveStep
<1>3. CASE LeaveRaising(t, "JwksError")
  BY <1>1, <1>3, LeaveRaisingStep
<1>4. CASE GoOn(t, "fetch") /\ UNCHANGED lockVars
  BY <1>1, <1>4, FetchStep
<1> QED BY <1>2, <1>3, <1>4 DEF Load

LEMMA RefreshStep ==
    ASSUME IInv, NEW t \in Threads, Refresh(t), UNCHANGED workload, outcome' = "none"
    PROVE  IInv'
<1>1. Holds(t) /\ UNCHANGED <<worldVars, call, section>> /\ section[t] = "refresh"
  BY DEF Refresh, Holds
<1>2. Iss(t) \in Issuers /\ TypeOK
  BY <1>1, AtLock DEF Holds, LockSteps
<1>3. CachesOK'
  BY <1>1, <1>2, CachesSet DEF Refresh
<1>4. CASE Leave(t, "get") /\ again' = [again EXCEPT ![t] = TRUE]
  <2>1. again' \in [Threads -> BOOLEAN] /\ \A u \in Threads \ {t} : again'[u] = again[u]
    BY <1>2, <1>4, BooleanExcept DEF TypeOK, IssuerTypeOK
  <2> QED BY <1>1, <1>3, <1>4, <2>1, LeaveStep
<1>5. CASE GoOn(t, "fetch") /\ UNCHANGED <<lockVars, again>>
  BY <1>1, <1>3, <1>5, FetchStep
<1> QED BY <1>4, <1>5 DEF Refresh

LEMMA RecheckStep ==
    ASSUME IInv, NEW t \in Threads, Recheck(t), UNCHANGED workload, outcome' = "none"
    PROVE  IInv'
<1>1. Holds(t) /\ UNCHANGED <<worldVars, call, section, again>> /\ section[t] = "revoked"
  BY DEF Recheck, Holds
<1>2. Iss(t) \in Issuers
  BY <1>1, AtLock DEF Holds, LockSteps
<1>3. CachesOK'
  BY <1>1, <1>2, CachesSet DEF Recheck
<1>4. CASE Leave(t, "look")
  BY <1>1, <1>3, <1>4, AgainKept, LeaveStep
<1>5. CASE GoOn(t, "fetch") /\ UNCHANGED lockVars
  BY <1>1, <1>3, <1>5, FetchStep
<1> QED BY <1>4, <1>5 DEF Recheck

LEMMA LoadFetchedStep ==
    ASSUME IInv, NEW t \in Threads, LoadFetched(t), UNCHANGED workload, outcome' = "none"
    PROVE  IInv'
<1>1. Holds(t) /\ UNCHANGED <<worldVars, call, section, again>> /\ section[t] = "load"
  BY DEF LoadFetched, Holds
<1>2. Iss(t) \in Issuers
  BY <1>1, AtLock DEF Holds, LockSteps
<1>3. CachesOK'
  BY <1>1, <1>2, CachesSet DEF LoadFetched
<1>4. CASE Leave(t, "get")
  BY <1>1, <1>3, <1>4, AgainKept, LeaveStep
<1>5. CASE LeaveRaising(t, "JwksError")
  BY <1>1, <1>3, <1>5, LeaveRaisingStep
<1> QED BY <1>4, <1>5 DEF LoadFetched

LEMMA RefreshFetchedStep ==
    ASSUME IInv, NEW t \in Threads, RefreshFetched(t), UNCHANGED workload, outcome' = "none"
    PROVE  IInv'
<1>1. Holds(t) /\ UNCHANGED <<worldVars, call, section>> /\ section[t] = "refresh"
  BY DEF RefreshFetched, Holds
<1>2. Iss(t) \in Issuers /\ TypeOK
  BY <1>1, AtLock DEF Holds, LockSteps
<1>3. CachesOK'
  BY <1>1, <1>2, CachesSet DEF RefreshFetched
<1>4. CASE Leave(t, "get") /\ again' = [again EXCEPT ![t] = TRUE]
  <2>1. again' \in [Threads -> BOOLEAN] /\ \A u \in Threads \ {t} : again'[u] = again[u]
    BY <1>2, <1>4, BooleanExcept DEF TypeOK, IssuerTypeOK
  <2> QED BY <1>1, <1>3, <1>4, <2>1, LeaveStep
<1>5. CASE LeaveRaising(t, "JwksError") /\ UNCHANGED again
  BY <1>1, <1>3, <1>5, LeaveRaisingStep
<1> QED BY <1>4, <1>5 DEF RefreshFetched

LEMMA RevocationsFetchedStep ==
    ASSUME IInv, NEW t \in Threads, RevocationsFetched(t), UNCHANGED workload, outcome' = "none"
    PROVE  IInv'
<1>1. Holds(t) /\ UNCHANGED <<worldVars, call, section, again>> /\ section[t] = "revoked" /\ Leave(t, "look")
  BY DEF RevocationsFetched, Holds
<1>2. Iss(t) \in Issuers
  BY <1>1, AtLock DEF Holds, LockSteps
<1>3. CachesOK'
  BY <1>1, <1>2, CachesSet DEF RevocationsFetched
<1> QED BY <1>1, <1>3, AgainKept, LeaveStep
-----------------------------------------------------------------------------
(* The steps of decode_token and decode_provenance_token.                  *)
LEMMA FinishStep ==
    ASSUME IInv, NEW t \in Threads, pc[t] # "idle", NEW v \in Verdicts, Finish(t, v)
    PROVE  IInv'
<1>1. TypeOK /\ LockStep(t) /\ CachesOK' /\ UNCHANGED <<worldVars, lockVars, workload>>
  BY CachesKept DEF IInv, LockStep, Finish
<1>2. /\ pc' = [pc EXCEPT ![t] = "idle"] /\ call' = [call EXCEPT ![t] = None]
      /\ section' = [section EXCEPT ![t] = None] /\ again' = [again EXCEPT ![t] = FALSE]
      /\ result' = [result EXCEPT ![t] = None] /\ keys' = [keys EXCEPT ![t] = None] /\ outcome' = v
  BY DEF Finish, Goto
<1>3. LockTypeOK'
  BY <1>1, LockTypes DEF TypeOK, IssuerTypeOK
<1>4. again' \in [Threads -> BOOLEAN]
  BY <1>1, <1>2, BooleanExcept DEF TypeOK, IssuerTypeOK
<1>5. IssuerTypeOK'
  BY <1>1, <1>2, <1>3, <1>4 DEF TypeOK, IssuerTypeOK, CachesOK, worldVars, Results
<1>6. TypeOK'
  BY <1>1, <1>2, <1>5 DEF TypeOK, Steps
<1>7. pc'[t] = "idle" /\ section'[t] = None
  BY <1>1, <1>2 DEF TypeOK, IssuerTypeOK
<1>8. ThreadOK(t)' /\ ~Holds(t)'
  BY <1>7 DEF ThreadOK, LockedOK, CallOK, ResultOK, InList, LockSteps, Waits, Holds
<1>9. \A u \in Threads \ {t} : threadVars(u)' = threadVars(u)
  BY <1>1, <1>2 DEF threadVars, TypeOK, IssuerTypeOK
<1>10. ListsOK' /\ \A i \in Issuers : revocations[i] \subseteq revocations'[i]
  BY <1>1 DEF CachesOK, worldVars
<1> QED BY <1>1, <1>6, <1>8, <1>9, <1>10, Step

LEMMA BeginStep ==
    ASSUME IInv, NEW t \in Threads, NEW c \in workload[t], Begin(t, c)
    PROVE  IInv'
<1>1. TypeOK /\ CallOK(t) /\ LockStep(t) /\ CachesOK' /\ UNCHANGED <<worldVars, lockVars, workload>>
  BY CachesKept DEF IInv, ThreadOK, LockStep, Begin
<1>2. /\ pc' = [pc EXCEPT ![t] = "hints"] /\ call' = [call EXCEPT ![t] = c] /\ outcome' = "none"
      /\ UNCHANGED <<section, again, result, keys>> /\ pc[t] = "idle"
  BY DEF Begin, Goto
<1>3. c \in AnyCall /\ c # None
  <2>1. workload \in Workloads
    BY <1>1 DEF TypeOK
  <2>2. c \in AnyCall
    BY <2>1 DEF AnyCall
  <2> QED BY <2>2, CallsAssumption
<1>4. IssuerTypeOK'
  BY <1>1, <1>2, LockTypes DEF TypeOK, IssuerTypeOK, CachesOK, worldVars
<1>5. TypeOK'
  BY <1>1, <1>2, <1>3, <1>4 DEF TypeOK, Steps, Verdicts
<1>6. pc'[t] = "hints" /\ section'[t] # "revoked"
  BY <1>1, <1>2 DEF TypeOK, IssuerTypeOK, CallOK
<1>7. ThreadOK(t)' /\ ~Holds(t)'
  BY <1>6 DEF ThreadOK, LockedOK, CallOK, ResultOK, InList, LockSteps, Waits, Holds
<1>8. \A u \in Threads \ {t} : threadVars(u)' = threadVars(u)
  BY <1>1, <1>2 DEF threadVars, TypeOK, IssuerTypeOK
<1>9. ListsOK' /\ \A i \in Issuers : revocations[i] \subseteq revocations'[i]
  BY <1>1 DEF CachesOK, worldVars
<1> QED BY <1>1, <1>5, <1>7, <1>8, <1>9, Step

LEMMA ProceedStep ==
    ASSUME IInv, NEW t \in Threads, pc[t] # "idle", NEW l \in {"get", "ask"}, Proceed(t, l), section[t] # "revoked",
           Iss(t) \in Trusted[call[t].domain], l = "ask" => Revocable(call[t]) /\ Published(call[t])
    PROVE  IInv'
<1>1. LockStep(t) /\ CachesOK' /\ GoOn(t, l) /\ UNCHANGED <<worldVars, call, workload>> /\ outcome' = "none"
  BY CachesKept DEF Proceed, LockStep
<1>2. section' = [section EXCEPT ![t] = section[t]] /\ section[t] \in {None, "load", "refresh", "revoked"}
  BY DEF IInv, TypeOK, IssuerTypeOK, Proceed
<1>3. again' \in [Threads -> BOOLEAN] /\ \A u \in Threads \ {t} : again'[u] = again[u]
  BY AgainKept DEF Proceed
<1>4. l \in Steps \ {"idle", "resolved", "answered"} /\ l \notin LockSteps
      /\ l \notin {"look", "waiting", "asleep", "take", "locked", "fetch"}
  BY DEF Steps, LockSteps
<1> QED BY <1>1, <1>2, <1>3, <1>4, GoOnStep

LEMMA SelectIssuerStep ==
    ASSUME IInv, NEW t \in Threads, SelectIssuer(t)
    PROVE  IInv'
<1>1. pc[t] = "hints" /\ section[t] # "revoked" /\ pc[t] # "idle"
  BY DEF SelectIssuer, IInv, ThreadOK, CallOK
<1>2. CASE Finish(t, "MalformedJwtTokenError")
  BY <1>1, <1>2, FinishStep DEF Verdicts, PermissionsDenied, JwtTokenErrors
<1>3. CASE Finish(t, "InvalidJwtTokenError")
  BY <1>1, <1>3, FinishStep DEF Verdicts, PermissionsDenied, JwtTokenErrors
<1>4. CASE FindIssuer(call[t]) /\ Proceed(t, "get")
  BY <1>1, <1>4, ProceedStep DEF FindIssuer, Iss
<1> QED BY <1>2, <1>3, <1>4 DEF SelectIssuer

(* The issuer's key verified the signature: it published that key. *)
LEMMA VerifiedKey ==
    ASSUME IInv, NEW t \in Threads, pc[t] = "resolved", result[t] = "keys", Verifies(t)
    PROVE  Published(call[t])
<1>1. keys[t] \in Documents[Iss(t)] \ NoDocument
  BY DEF IInv, ThreadOK, ResultOK, Indexed
<1>2. Under(keys[t], call[t].token.kid, call[t].token.signer)
  BY DEF Verifies, Under
<1> QED BY <1>1, <1>2 DEF Published, Iss

LEMMA VerifyStep ==
    ASSUME IInv, NEW t \in Threads, Verify(t)
    PROVE  IInv'
<1>1. pc[t] = "resolved" /\ section[t] # "revoked" /\ pc[t] # "idle" /\ Iss(t) \in Trusted[call[t].domain] /\ ResultOK(t)
  BY DEF Verify, IInv, ThreadOK, CallOK
<1>2. ASSUME NEW v \in Verdicts, Finish(t, v)
      PROVE  IInv'
  BY <1>1, <1>2, FinishStep
<1>3. result[t] # "keys" => Caught(call[t], result[t]) \in Verdicts
  BY <1>1 DEF ResultOK, Caught, Invalid, Verdicts, PermissionsDenied, JwtTokenErrors, ProvenanceTokenErrors, AuthentikateErrors
<1>4. Invalid(call[t]) \in Verdicts /\ Built(call[t]) \in Verdicts
  BY DEF Invalid, Malformed, Built, Verdicts, PermissionsDenied, JwtTokenErrors, ProvenanceTokenErrors, ForeignErrors
<1>5. {"AuthentikateTokenExpired", "InvalidJwtTokenError", "MalformedJwtTokenError"} \subseteq Verdicts
  BY DEF Verdicts, PermissionsDenied, JwtTokenErrors
<1>6. CASE result[t] = "keys" /\ Verifies(t) /\ Revocable(call[t]) /\ Proceed(t, "ask")
  BY <1>1, <1>6, VerifiedKey, ProceedStep
<1> QED BY <1>1, <1>2, <1>3, <1>4, <1>5, <1>6 DEF Verify

LEMMA HeedRevocationStep ==
    ASSUME IInv, NEW t \in Threads, HeedRevocation(t)
    PROVE  IInv'
<1>1. pc[t] = "answered" /\ pc[t] # "idle" /\ ResultOK(t)
  BY DEF HeedRevocation, IInv, ThreadOK
<1>2. ASSUME NEW v \in Verdicts, Finish(t, v)
      PROVE  IInv'
  BY <1>1, <1>2, FinishStep
<1>3. Built(call[t]) \in Verdicts
  BY DEF Invalid, Malformed, Built, Verdicts, PermissionsDenied, JwtTokenErrors, ProvenanceTokenErrors, ForeignErrors
<1>4. "TokenRevokedError" \in Verdicts /\ (result[t] \notin {"listed", "unlisted"} => result[t] \in Verdicts)
  BY <1>1 DEF ResultOK, Verdicts, PermissionsDenied, JwtTokenErrors, ForeignErrors
<1> QED BY <1>1, <1>2, <1>3, <1>4 DEF HeedRevocation

LEMMA EnvironmentStep ==
    ASSUME IInv, NEW i \in Issuers, Environment(i)
    PROVE  IInv'
<1>1. TypeOK /\ ListsOK /\ UNCHANGED <<lockVars, pc, call, section, again, result, keys, workload, listed, cache>>
      /\ outcome' = "none"
  BY DEF IInv, Environment, Publish, IntervalEnds, cacheVars
<1>2. document' \in [Issuers -> AnyDocument] /\ \A j \in Issuers : document'[j] \in Documents[j]
  <2>1. document \in [Issuers -> AnyDocument] /\ \A j \in Issuers : document[j] \in Documents[j]
    BY <1>1 DEF TypeOK, IssuerTypeOK
  <2>2. ASSUME NEW d \in Documents[i], document' = [document EXCEPT ![i] = d]
        PROVE  document' \in [Issuers -> AnyDocument] /\ \A j \in Issuers : document'[j] \in Documents[j]
    <3>1. d \in AnyDocument
      BY DEF AnyDocument
    <3> QED BY <2>1, <2>2, <3>1
  <2>3. CASE document' = document
    BY <2>1, <2>3
  <2> QED BY <2>2, <2>3 DEF Environment, Publish, IntervalEnds, worldVars
<1>3. revocations' \in [Issuers -> SUBSET Jtis] /\ \A j \in Issuers : revocations[j] \subseteq revocations'[j]
  BY <1>1 DEF TypeOK, IssuerTypeOK, Environment, Publish, IntervalEnds, worldVars
<1>4. failedLately' \in [Issuers -> BOOLEAN]
  BY <1>1, BooleanExcept DEF TypeOK, IssuerTypeOK, Environment, Publish, IntervalEnds, cacheVars
<1>5. refreshedLately' \in [Issuers -> BOOLEAN]
  BY <1>1, BooleanExcept DEF TypeOK, IssuerTypeOK, Environment, Publish, IntervalEnds, cacheVars
<1>6. due' \in [Issuers -> BOOLEAN]
  BY <1>1, BooleanExcept DEF TypeOK, IssuerTypeOK, Environment, Publish, IntervalEnds, cacheVars
<1>7. TypeOK'
  BY <1>1, <1>2, <1>3, <1>4, <1>5, <1>6 DEF TypeOK, IssuerTypeOK, LockTypeOK, lockVars, Verdicts
<1>8. ListsOK'
  BY <1>1, <1>3 DEF ListsOK, TypeOK, IssuerTypeOK
<1>9. WaitersOK' /\ Exclusive'
  BY <1>1 DEF IInv, WaitersOK, Exclusive, Holds, LockOf, Iss, lockVars
<1>10. ASSUME NEW t \in Threads
       PROVE  ThreadOK(t)'
  <2>1. ThreadOK(t) /\ (pc[t] \notin {"idle", "hints"} => Iss(t) \in Issuers)
    BY <1>1, Known DEF IInv, ThreadOK
  <2>2. LockedOK(t)'
    BY <1>1, <2>1 DEF ThreadOK, LockedOK, Waits, Holds, LockOf, Iss, lockVars
  <2>3. CallOK(t)'
    BY <1>1, <2>1 DEF ThreadOK, CallOK, InList, Iss
  <2>4. ResultOK(t)'
    BY <1>1, <1>3, <2>1 DEF ThreadOK, ResultOK, Iss, lockVars
  <2> QED BY <2>2, <2>3, <2>4 DEF ThreadOK
<1> QED BY <1>7, <1>8, <1>9, <1>10 DEF IInv

LEMMA InitOK == Init => IInv
<1> SUFFICES ASSUME Init PROVE IInv
  OBVIOUS
<1>1. TypeOK
  <2>1. LockTypeOK
    BY DEF Init, IssuerInit, LockInit, LockTypeOK
  <2>2. IssuerTypeOK
    <3>1. due \in [Issuers -> BOOLEAN]
      <4>1. \A i \in Issuers : (i \in Revoking) \in BOOLEAN
        OBVIOUS
      <4> QED BY <4>1 DEF Init, IssuerInit
    <3> QED BY <2>1, <3>1 DEF Init, IssuerInit, IssuerTypeOK, Results
  <2> QED BY <2>2 DEF Init, TypeOK, Steps, Verdicts
<1>2. \A t \in Threads : pc[t] = "idle" /\ section[t] = None
  BY DEF Init, IssuerInit
<1>3. \A t \in Threads : ThreadOK(t)
  BY <1>2 DEF ThreadOK, LockedOK, CallOK, ResultOK, InList, LockSteps, Waits, Holds
<1>4. WaitersOK /\ Exclusive /\ ListsOK
  BY <1>2 DEF Init, IssuerInit, LockInit, WaitersOK, Exclusive, ListsOK, Holds
<1> QED BY <1>1, <1>3, <1>4 DEF IInv

LEMMA UseIssuerStep ==
    ASSUME IInv, NEW t \in Threads, UseIssuer(t), UNCHANGED workload, outcome' = "none"
    PROVE  IInv'
BY GetStep, AskRevokedStep, LookRevokedStep, AcquireStep, TakeStep, JoinWaitersStep, FallAsleepStep, WakeUpStep,
   LoadStep, RefreshStep, RecheckStep, LoadFetchedStep, RefreshFetchedStep, RevocationsFetchedStep DEF UseIssuer

LEMMA NextOK == IInv /\ [Next]_vars => IInv'
<1> SUFFICES ASSUME IInv, [Next]_vars PROVE IInv'
  OBVIOUS
<1>1. ASSUME NEW t \in Threads, Run(t)
      PROVE  IInv'
  BY <1>1, SelectIssuerStep, UseIssuerStep, VerifyStep, HeedRevocationStep DEF Run
<1>2. CASE UNCHANGED vars
  <2>1. TypeOK'
    BY <1>2 DEF vars, lockVars, worldVars, cacheVars, IInv, TypeOK, IssuerTypeOK, LockTypeOK
  <2>2. WaitersOK' /\ Exclusive' /\ ListsOK'
    BY <1>2 DEF vars, lockVars, worldVars, cacheVars, IInv, WaitersOK, Exclusive, ListsOK, Holds, LockOf, Iss
  <2>3. ASSUME NEW t \in Threads
        PROVE  ThreadOK(t)'
    <3>1. LockedOK(t)'
      BY <1>2 DEF vars, lockVars, IInv, ThreadOK, LockedOK, Waits, Holds, LockOf, Iss
    <3>2. CallOK(t)'
      BY <1>2 DEF vars, IInv, ThreadOK, CallOK, InList, Iss
    <3>3. ResultOK(t)'
      BY <1>2 DEF vars, lockVars, worldVars, IInv, ThreadOK, ResultOK, Iss
    <3> QED BY <3>1, <3>2, <3>3 DEF ThreadOK
  <2> QED BY <2>1, <2>2, <2>3 DEF IInv
<1> QED BY <1>1, <1>2, BeginStep, EnvironmentStep DEF Next

(* The invariant is inductive. *)
THEOREM InductiveInvariant == Spec => []IInv
BY InitOK, NextOK, PTL DEF Spec

(* Every variable keeps its type, and every document, cached or published, *)
(* is one that its issuer may publish.                                     *)
THEOREM TypeCorrect == Spec => []TypeOK
BY InductiveInvariant, PTL DEF IInv

(* Whatever the threads and their calls, a lock has at most one thread     *)
(* asleep that nobody will wake (base_models.py:601).                      *)
THEOREM LostWakeUps == Spec => []OneLostPerLock
<1>1. IInv => OneLostPerLock
  BY DEF IInv, ThreadOK, LockedOK, Waits, OneLostPerLock
<1> QED BY <1>1, InductiveInvariant, PTL
-----------------------------------------------------------------------------
(* How a call ends, and what was established of it before. *)
LEMMA EndOf ==
    ASSUME IInv, [Next]_vars, NEW t \in Threads, pc[t] # "idle", pc'[t] = "idle"
    PROVE  SelectIssuer(t) \/ Verify(t) \/ HeedRevocation(t)
<1>1. pc # pc'
  OBVIOUS
<1>2. Next
  BY <1>1 DEF vars
<1>3. pc \in [Threads -> Steps] /\ section \in [Threads -> {None, "load", "refresh", "revoked"}]
  BY DEF IInv, TypeOK, IssuerTypeOK
<1>4. ASSUME NEW u \in Threads, NEW l, Goto(u, l), u # t \/ l # "idle"
      PROVE  FALSE
  BY <1>3, <1>4 DEF Goto
<1>5. ASSUME NEW u \in Threads, UseIssuer(u)
      PROVE  FALSE
  <2>1. ASSUME NEW l, GoOn(u, l), l # "idle"
        PROVE  FALSE
    BY <1>4, <2>1 DEF GoOn
  <2>2. ASSUME NEW e, Raise(u, e)
        PROVE  FALSE
    BY <1>4, <2>2 DEF Raise
  <2>3. ASSUME NEW s, RunBlocking(u, s)
        PROVE  FALSE
    BY <2>1, <2>2, <2>3 DEF RunBlocking
  <2>4. ASSUME NEW d, LookUp(u, d)
        PROVE  FALSE
    BY <1>1, <1>4, <2>2, <2>3, <2>4 DEF LookUp, Unindexed, ImportKeySet, ReturnKeys
  <2>5. ASSUME NEW l, Leave(u, l), l # "idle"
        PROVE  FALSE
    BY <2>1, <2>2, <2>5 DEF Leave
  <2>6. ASSUME NEW e, LeaveRaising(u, e)
        PROVE  FALSE
    BY <2>2, <2>6 DEF LeaveRaising
  <2>7. ~Get(u) /\ ~AskRevoked(u) /\ ~LookRevoked(u)
    BY <1>4, <2>1, <2>2, <2>3, <2>4 DEF Get, GetCached, GetConfigured, AskRevoked, LookRevoked
  <2>8. ~Acquire(u) /\ ~Take(u) /\ ~JoinWaiters(u) /\ ~FallAsleep(u) /\ ~WakeUp(u)
    BY <2>1, <2>2 DEF Acquire, Take, JoinWaiters, FallAsleep, WakeUp
  <2>9. ~Load(u) /\ ~Refresh(u) /\ ~Recheck(u)
    BY <2>1, <2>5, <2>6 DEF Load, Refresh, Recheck
  <2>10. ~LoadFetched(u) /\ ~RefreshFetched(u) /\ ~RevocationsFetched(u)
    BY <2>5, <2>6 DEF LoadFetched, RefreshFetched, RevocationsFetched
  <2> QED BY <1>5, <2>7, <2>8, <2>9, <2>10 DEF UseIssuer
<1>6. ASSUME NEW u \in Threads, NEW c, Begin(u, c)
      PROVE  FALSE
  BY <1>4, <1>6 DEF Begin
<1>7. ASSUME NEW i \in Issuers, Environment(i)
      PROVE  FALSE
  BY <1>1, <1>7 DEF Environment
<1>8. PICK u \in Threads : Run(u)
  BY <1>2, <1>6, <1>7 DEF Next
<1>9. SelectIssuer(u) \/ Verify(u) \/ HeedRevocation(u)
  BY <1>5, <1>8 DEF Run
<1>10. u = t
  BY <1>4, <1>9 DEF SelectIssuer, Verify, HeedRevocation, Finish, Proceed, GoOn
<1> QED BY <1>9, <1>10

(* What a call came to, by what was established of it. *)
LEMMA Established ==
    ASSUME IInv, NEW t \in Threads, Verify(t) \/ HeedRevocation(t)
    PROVE  /\ Iss(t) \in Trusted[call[t].domain] /\ ResultOK(t)
           /\ pc[t] = "answered" => Revocable(call[t]) /\ Published(call[t])
           /\ pc[t] = "resolved" \/ pc[t] = "answered"
BY DEF IInv, ThreadOK, CallOK, InList, Verify, HeedRevocation

(* A token is accepted only on a key that its own, trusted issuer          *)
(* publishes (base_models.py:723 and :894).                                *)
THEOREM AcceptedOnOwnKey == Spec => OwnIssuersKey
<1>1. ASSUME IInv, [Next]_vars, NEW t \in Threads, Ends(t, {"accepted"})
      PROVE  call[t].token.iss \in Trusted[call[t].domain] /\ Published(call[t])
  <2>1. SelectIssuer(t) \/ Verify(t) \/ HeedRevocation(t)
    BY <1>1, EndOf DEF Ends
  <2>2. pc'[t] = "idle" /\ outcome' = "accepted" /\ pc \in [Threads -> Steps]
    BY <1>1 DEF Ends, IInv, TypeOK
  <2>3. ~SelectIssuer(t)
    BY <2>2 DEF SelectIssuer, Finish, Proceed, GoOn, Goto
  <2>4. CASE Verify(t)
    <3>1. Caught(call[t], result[t]) # "accepted" \/ result[t] = "keys"
      BY <1>1, <2>4, Established DEF ResultOK, Caught, Invalid, AuthentikateErrors, Verify
    <3>2. Invalid(call[t]) # "accepted"
      BY DEF Invalid
    <3>3. result[t] = "keys" /\ Verifies(t) /\ pc[t] = "resolved"
      BY <2>2, <2>4, <3>1, <3>2 DEF Verify, Finish
    <3> QED BY <1>1, <2>4, <3>3, Established, VerifiedKey DEF Iss
  <2>5. CASE HeedRevocation(t)
    BY <1>1, <2>5, Established DEF HeedRevocation, Iss
  <2> QED BY <2>1, <2>3, <2>4, <2>5
<1>2. IInv /\ [Next]_vars =>
         [\A t \in Threads : Ends(t, {"accepted"}) =>
            call[t].token.iss \in Trusted[call[t].domain] /\ Published(call[t])]_vars
  BY <1>1
<1> QED BY <1>2, InductiveInvariant, PTL DEF Spec, OwnIssuersKey

(* Nothing is wrong with a sound token, so nothing is found. *)
LEMMA SoundIsBuilt ==
    ASSUME NEW c, Sound(c)
    PROVE  Built(c) = "accepted" /\ c.token.flaw \notin Defects
BY NoneIsNoDefect DEF Sound, Built, Defects, Unrepresentable

(* A sound token is denied for its key, its jti, a document of its issuer  *)
(* that the key lookup trips over or the lock of its issuer, and for       *)
(* nothing else (errors.py:142).                                           *)
THEOREM DenialsExplained == Spec => DenialsHaveCauses
<1> DEFINE Cause(t) ==
        LET i == call[t].token.iss IN
        \/ outcome' = "TokenRevokedError" /\ call[t].token.jti \in revocations[i]
        \/ outcome' = "MalformedJwtTokenError" /\ call[t].token.jti = None
        \/ \E d \in Documents[i] : Trips(d)
        \/ \E d \in Documents[i] : Indexed(d) /\ ~Under(d, call[t].token.kid, call[t].token.signer)
        \/ bound[<<i, "keys">>]
<1>1. ASSUME IInv, [Next]_vars, NEW t \in Threads, Ends(t, PermissionsDenied), Sound(call[t])
      PROVE  Cause(t)
  <2>1. SelectIssuer(t) \/ Verify(t) \/ HeedRevocation(t)
    BY <1>1, EndOf DEF Ends
  <2>2. pc'[t] = "idle" /\ outcome' \in PermissionsDenied /\ pc \in [Threads -> Steps]
    BY <1>1 DEF Ends, IInv, TypeOK
  <2>3. call[t].token.iss \in Trusted[call[t].domain] /\ call[t].token.flaw \notin Defects /\ Built(call[t]) = "accepted"
    BY <1>1, SoundIsBuilt DEF Sound
  <2>4. /\ "accepted" \notin PermissionsDenied /\ "JwksError" \notin PermissionsDenied
        /\ "RuntimeError" \notin PermissionsDenied
    BY DEF PermissionsDenied, JwtTokenErrors, ProvenanceTokenErrors
  <2>5. ~SelectIssuer(t)
    BY <2>2, <2>3 DEF SelectIssuer, FindIssuer, Finish, Proceed, GoOn, Goto, Defects
  <2>6. CASE Verify(t)
    <3>1. ResultOK(t) /\ pc[t] = "resolved"
      BY <1>1, <2>6, Established DEF Verify
    <3>2. CASE result[t] # "keys" /\ Finish(t, Caught(call[t], result[t]))
      <4>1. result[t] # "JwksError"
        BY <2>2, <2>4, <3>2 DEF Caught, AuthentikateErrors, Finish
      <4> QED BY <3>1, <3>2, <4>1 DEF ResultOK, Iss
    <3>3. CASE result[t] = "keys" /\ ~Verifies(t)
      <4>1. keys[t] \in Documents[Iss(t)] /\ Indexed(keys[t])
        BY <3>1, <3>3 DEF ResultOK
      <4>2. ~Under(keys[t], call[t].token.kid, call[t].token.signer)
        BY <2>3, <3>3 DEF Verifies, Under, Defects
      <4> QED BY <4>1, <4>2 DEF Iss
    <3>4. CASE Finish(t, Built(call[t]))
      BY <2>2, <2>3, <2>4, <3>4 DEF Finish
    <3>5. CASE call[t].token.jti = None /\ Finish(t, "MalformedJwtTokenError")
      BY <3>5 DEF Finish
    <3>6. ~Proceed(t, "ask")
      BY <2>2 DEF Proceed, GoOn, Goto
    <3> QED BY <2>3, <2>6, <3>2, <3>3, <3>4, <3>5, <3>6 DEF Verify, Defects
  <2>7. CASE HeedRevocation(t)
    <3>1. ResultOK(t) /\ pc[t] = "answered"
      BY <1>1, <2>7, Established DEF HeedRevocation
    <3>2. result[t] = "listed"
      BY <2>2, <2>3, <2>4, <2>7, <3>1 DEF HeedRevocation, ResultOK, Finish
    <3> QED BY <2>7, <3>1, <3>2 DEF HeedRevocation, ResultOK, Finish, Iss
  <2> QED BY <2>1, <2>5, <2>6, <2>7
<1>2. IInv /\ [Next]_vars => [\A t \in Threads : Ends(t, PermissionsDenied) /\ Sound(call[t]) => Cause(t)]_vars
  BY <1>1
<1> QED BY <1>2, InductiveInvariant, PTL DEF Spec, DenialsHaveCauses

(* An exception of another library leaves this one only for a list asked   *)
(* for in a running loop or contended for, or a timestamp out of range.    *)
THEOREM ForeignErrorsExplained == Spec => ForeignErrorsHaveCauses
<1> DEFINE Cause(t) ==
        \/ call[t].token.flaw \in Unrepresentable
        \/ /\ call[t].domain = "auth" /\ call[t].token.iss \in Revoking
           /\ call[t].inLoop \/ bound[<<call[t].token.iss, "revoked">>]
<1>1. ASSUME IInv, [Next]_vars, NEW t \in Threads, Ends(t, ForeignErrors)
      PROVE  Cause(t)
  <2>1. SelectIssuer(t) \/ Verify(t) \/ HeedRevocation(t)
    BY <1>1, EndOf DEF Ends
  <2>2. pc'[t] = "idle" /\ outcome' \in ForeignErrors /\ pc \in [Threads -> Steps]
    BY <1>1 DEF Ends, IInv, TypeOK
  <2>3. Built(call[t]) \in ForeignErrors => call[t].token.flaw \in Unrepresentable
    BY DEF Built, Malformed, ForeignErrors
  <2>4. {"InvalidJwtTokenError", "MalformedJwtTokenError", "AuthentikateTokenExpired", "TokenRevokedError", "JwksError"}
           \cap ForeignErrors = {} /\ Invalid(call[t]) \notin ForeignErrors
    BY DEF ForeignErrors, Invalid
  <2>5. ~SelectIssuer(t)
    BY <2>2, <2>4 DEF SelectIssuer, Finish, Proceed, GoOn, Goto
  <2>6. CASE Verify(t)
    <3>1. Caught(call[t], result[t]) \notin ForeignErrors
      BY <2>4 DEF Caught, AuthentikateErrors
    <3>2. ~Proceed(t, "ask")
      BY <2>2 DEF Proceed, GoOn, Goto
    <3> QED BY <2>2, <2>3, <2>4, <2>6, <3>1, <3>2 DEF Verify, Finish
  <2>7. CASE HeedRevocation(t)
    <3>1. ResultOK(t) /\ pc[t] = "answered" /\ Revocable(call[t])
      BY <1>1, <2>7, Established DEF HeedRevocation
    <3> QED BY <2>2, <2>3, <2>4, <2>7, <3>1 DEF HeedRevocation, ResultOK, Finish, Iss, Revocable
  <2> QED BY <2>1, <2>5, <2>6, <2>7
<1>2. IInv /\ [Next]_vars => [\A t \in Threads : Ends(t, ForeignErrors) => Cause(t)]_vars
  BY <1>1
<1> QED BY <1>2, InductiveInvariant, PTL DEF Spec, ForeignErrorsHaveCauses

(* Where a provenance token must hold, no outcome of its check tells the   *)
(* client to log in again (errors.py:161).                                 *)
THEOREM ProvenanceNeverLogin == Spec => ProvenanceIsNoLogin
<1>1. ASSUME NEW v \in Verdicts
      PROVE  Code(or_raise(v)) # "UNAUTHENTICATED"
  <2>1. CASE Handled(v)
    BY <2>1 DEF or_raise, Code, ProvenanceTokenErrors
  <2>2. CASE ~Handled(v)
    <3>1. or_raise(v) = v /\ v \notin PermissionsDenied /\ v \notin AuthentikateErrors /\ v \notin ProvenanceTokenErrors
      BY <2>2 DEF Handled, or_raise, PermissionsDenied, JwtTokenErrors, AuthentikateErrors
    <3> QED BY <3>1 DEF Code
  <2> QED BY <2>1, <2>2
<1>2. IInv /\ [Next]_vars =>
         [\A t \in Threads :
            call[t] # None /\ call[t].domain = "provenance" /\ pc'[t] = "idle" =>
               Code(or_raise(outcome')) # "UNAUTHENTICATED"]_vars
  BY <1>1, NextOK DEF IInv, TypeOK
<1> QED BY <1>2, InductiveInvariant, PTL DEF Spec, ProvenanceIsNoLogin
-----------------------------------------------------------------------------
(* Where a thread is, in which call. *)
placeVars(t) == <<pc[t], call[t], section[t]>>

(* What a step of t may do to the lock it is at. *)
LockUse(t) ==
    LET l == LockOf(t) IN
    \/ UNCHANGED lockVars /\ ~Holds(t) /\ pc'[t] # "join"
    \/ UNCHANGED lockVars /\ Holds(t) /\ Holds(t)' /\ LockOf(t)' = l
    \/ UNCHANGED lockVars /\ Holds(t) /\ ~locked[l] /\ pc'[t] # "join"
    \/ UNCHANGED lockVars /\ pc[t] = "acquire" /\ ~Free(l) /\ LockOf(t)' = l
    \/ SetLocked(l) /\ pc'[t] = "locked" /\ LockOf(t)' = l
    \/ Join(t, l) /\ pc[t] = "join" /\ pc'[t] = "waiting"
    \/ Resume(t, l) /\ pc[t] = "waiting" /\ pc'[t] = "locked"
    \/ Release(l) /\ Holds(t) /\ pc'[t] # "join"

(* Who finds an unshared lock taken would share it with its holder. *)
LEMMA NoOneWaits ==
    ASSUME IInv, SharedOK, NEW t \in Threads, pc[t] = "acquire", Alone(LockOf(t)), ~Free(LockOf(t))
    PROVE  Shared(workload, LockOf(t))
<1>1. LockOf(t) \in Locks /\ TypeOK /\ call[t] # None
  BY AtLock DEF LockSteps, TypeOK
<1>2. locked[LockOf(t)]
  BY <1>1 DEF IInv, WaitersOK, Alone, Free
<1>3. PICK u \in Threads : Holds(u) /\ LockOf(u) = LockOf(t)
  BY <1>2 DEF Alone
<1>4. u # t /\ call[u] # None
  BY <1>1, <1>3 DEF Holds, TypeOK
<1>5. call[t] \in workload[t] /\ Takes(call[t], LockOf(t))
  BY <1>1 DEF SharedOK, TakesOK, LockSteps
<1>6. call[u] \in workload[u] /\ Takes(call[u], LockOf(t))
  BY <1>3, <1>4 DEF SharedOK, TakesOK, LockSteps, Holds
<1> QED BY <1>4, <1>5, <1>6 DEF Shared

LEMMA AloneKept ==
    ASSUME IInv, SharedOK, NEW t \in Threads, LockUse(t),
           \A u \in Threads \ {t} : placeVars(u)' = placeVars(u),
           NEW l \in Locks, ~Shared(workload, l)
    PROVE  Alone(l)'
<1>1. Alone(l) /\ LockTypeOK
  BY DEF SharedOK, IInv, TypeOK, IssuerTypeOK
<1>2. \A u \in Threads \ {t} : pc'[u] = pc[u] /\ LockOf(u)' = LockOf(u) /\ Holds(u)' = Holds(u)
  BY DEF placeVars, LockOf, Iss, Holds
<1>3. ASSUME bound'[l] = bound[l], pc'[t] = "join" => LockOf(t)' # l,
             locked'[l] => (locked[l] /\ (Holds(t) => LockOf(t) # l)) \/ (Holds(t)' /\ LockOf(t)' = l)
      PROVE  Alone(l)'
  <2>1. ~bound'[l] /\ \A u \in Threads : pc'[u] = "join" => LockOf(u)' # l
    BY <1>1, <1>2, <1>3 DEF Alone
  <2>2. ASSUME locked'[l], ~(Holds(t)' /\ LockOf(t)' = l)
        PROVE  \E u \in Threads : Holds(u)' /\ LockOf(u)' = l
    <3>1. PICK u \in Threads : Holds(u) /\ LockOf(u) = l
      BY <1>1, <1>3, <2>2 DEF Alone
    <3>2. u # t
      BY <1>3, <2>2, <3>1
    <3> QED BY <1>2, <3>1, <3>2
  <2> QED BY <2>1, <2>2 DEF Alone
<1>4. UNCHANGED lockVars => bound'[l] = bound[l] /\ locked'[l] = locked[l]
  BY DEF lockVars
<1>5. CASE UNCHANGED lockVars /\ ~Holds(t) /\ pc'[t] # "join"
  BY <1>3, <1>4, <1>5
<1>6. CASE UNCHANGED lockVars /\ Holds(t) /\ Holds(t)' /\ LockOf(t)' = LockOf(t)
  BY <1>3, <1>4, <1>6 DEF Holds
<1>7. CASE UNCHANGED lockVars /\ Holds(t) /\ ~locked[LockOf(t)] /\ pc'[t] # "join"
  BY <1>3, <1>4, <1>7
<1>8. CASE UNCHANGED lockVars /\ pc[t] = "acquire" /\ ~Free(LockOf(t)) /\ LockOf(t)' = LockOf(t)
  <2>1. LockOf(t) # l
    BY <1>1, <1>8, NoOneWaits
  <2> QED BY <1>3, <1>4, <1>8, <2>1 DEF Holds
<1>9. CASE SetLocked(LockOf(t)) /\ pc'[t] = "locked" /\ LockOf(t)' = LockOf(t)
  <2>1. CASE LockOf(t) = l
    BY <1>1, <1>3, <1>9, <2>1 DEF SetLocked, Holds
  <2>2. CASE LockOf(t) # l
    BY <1>1, <1>3, <1>9, <2>2 DEF SetLocked, LockTypeOK
  <2> QED BY <2>1, <2>2
<1>10. CASE Join(t, LockOf(t)) /\ pc[t] = "join" /\ pc'[t] = "waiting"
  <2>1. LockOf(t) # l
    BY <1>1, <1>10 DEF Alone
  <2> QED BY <1>1, <1>3, <1>10, <2>1 DEF Join, LockTypeOK
<1>11. CASE Resume(t, LockOf(t)) /\ pc[t] = "waiting" /\ pc'[t] = "locked"
  <2>1. LockOf(t) # l
    BY <1>1, <1>11 DEF Alone, IInv, WaitersOK, Resume
  <2> QED BY <1>1, <1>3, <1>11, <2>1 DEF Resume, LockTypeOK
<1>12. CASE Release(LockOf(t)) /\ Holds(t) /\ pc'[t] # "join"
  <2>1. bound'[l] = bound[l] /\ (locked'[l] => locked[l] /\ LockOf(t) # l)
    BY <1>1, <1>12 DEF Release, LockTypeOK
  <2> QED BY <1>3, <1>12, <2>1
<1> QED BY <1>5, <1>6, <1>7, <1>8, <1>9, <1>10, <1>11, <1>12 DEF LockUse

(* What a step has to keep for the locks to be in order. *)
LEMMA SharedKept ==
    ASSUME IInv, SharedOK, NEW t \in Threads, LockUse(t), TakesOK(t)', UNCHANGED workload,
           \A u \in Threads \ {t} : placeVars(u)' = placeVars(u)
    PROVE  SharedOK'
<1>1. \A l \in Locks : Shared(workload, l) \/ Alone(l)'
  BY AloneKept
<1>2. \A l \in Locks : Shared(workload, l)' <=> Shared(workload, l)
  BY DEF Shared
<1>3. ASSUME NEW u \in Threads \ {t}
      PROVE  TakesOK(u)'
  BY <1>3 DEF SharedOK, TakesOK, placeVars, LockOf, Iss
<1> QED BY <1>1, <1>2, <1>3 DEF SharedOK

(* A step of t that is not at a lock after it. *)
LEMMA AwayShared ==
    ASSUME IInv, SharedOK, NEW t \in Threads, LockUse(t), UNCHANGED <<section, workload>>,
           NEW l \in Steps \ LockSteps, Goto(t, l),
           NEW c, call' = [call EXCEPT ![t] = c], c # None => c \in workload[t]
    PROVE  SharedOK'
<1>1. TypeOK
  BY DEF IInv
<1>2. pc'[t] = l /\ call'[t] = c
  BY <1>1 DEF TypeOK, Goto
<1>3. TakesOK(t)'
  BY <1>2 DEF TakesOK
<1>4. \A u \in Threads \ {t} : placeVars(u)' = placeVars(u)
  BY <1>1 DEF TypeOK, Goto, placeVars
<1> QED BY <1>3, <1>4, SharedKept

(* A step of t at its lock. *)
LEMMA WithinShared ==
    ASSUME IInv, SharedOK, NEW t \in Threads, LockUse(t), UNCHANGED <<call, section, workload>>,
           pc[t] \in LockSteps, NEW l \in LockSteps, Goto(t, l)
    PROVE  SharedOK'
<1>1. TypeOK /\ TakesOK(t)
  BY DEF IInv, SharedOK
<1>2. LockOf(t)' = LockOf(t)
  BY DEF LockOf, Iss
<1>3. TakesOK(t)'
  BY <1>1, <1>2 DEF TakesOK
<1>4. \A u \in Threads \ {t} : placeVars(u)' = placeVars(u)
  BY <1>1 DEF TypeOK, Goto, placeVars
<1> QED BY <1>3, <1>4, SharedKept

(* t comes to a lock. *)
LEMMA EnterShared ==
    ASSUME IInv, SharedOK, NEW t \in Threads, UNCHANGED <<lockVars, call, workload>>,
           pc[t] \in {"get", "ask"}, Goto(t, "acquire"),
           NEW s \in {"load", "refresh", "revoked"}, section' = [section EXCEPT ![t] = s],
           ~call[t].inLoop,
           IF s = "revoked" THEN Revocable(call[t]) ELSE kind[Iss(t)] = "jwks_uri"
    PROVE  SharedOK'
<1>1. TypeOK /\ TakesOK(t)
  BY DEF IInv, SharedOK
<1>2. pc'[t] = "acquire" /\ section'[t] = s
  BY <1>1 DEF TypeOK, IssuerTypeOK, Goto
<1>3. LockOf(t)' = <<Iss(t), IF s = "revoked" THEN "revoked" ELSE "keys">>
  BY <1>2 DEF LockOf, Iss
<1>4. Takes(call[t], <<Iss(t), IF s = "revoked" THEN "revoked" ELSE "keys">>)
  BY DEF Takes, Iss
<1>5. TakesOK(t)'
  BY <1>1, <1>2, <1>3, <1>4 DEF TakesOK, TypeOK
<1>6. \A u \in Threads \ {t} : placeVars(u)' = placeVars(u)
  BY <1>1 DEF TypeOK, IssuerTypeOK, Goto, placeVars
<1>7. LockUse(t)
  BY <1>2 DEF LockUse, Holds
<1> QED BY <1>5, <1>6, <1>7, SharedKept

LEMMA RaiseShared ==
    ASSUME IInv, SharedOK, NEW t \in Threads, pc[t] # "idle", NEW e, Raise(t, e),
           UNCHANGED <<call, section, workload>>, pc'[t] # "join" => LockUse(t)
    PROVE  SharedOK'
<1> DEFINE l == IF section[t] = "revoked" THEN "answered" ELSE "resolved"
<1>1. TypeOK /\ TakesOK(t)
  BY DEF IInv, SharedOK
<1>2. Goto(t, l) /\ l \in Steps \ LockSteps
  BY DEF Raise, Steps, LockSteps
<1>3. pc'[t] = l /\ call' = [call EXCEPT ![t] = call[t]] /\ (call[t] # None => call[t] \in workload[t])
  BY <1>1, <1>2 DEF TypeOK, Goto, TakesOK
<1> HIDE DEF l
<1> QED BY <1>2, <1>3, AwayShared DEF LockSteps

LEMMA GetShared ==
    ASSUME IInv, SharedOK, NEW t \in Threads, Get(t), UNCHANGED workload
    PROVE  SharedOK'
<1>1. TypeOK /\ pc[t] = "get" /\ UNCHANGED <<lockVars, call>> /\ TakesOK(t) /\ section[t] # "revoked"
  BY DEF IInv, ThreadOK, CallOK, SharedOK, Get
<1>2. ASSUME pc'[t] # "join"
      PROVE  LockUse(t)
  BY <1>1, <1>2 DEF LockUse, Holds
<1>3. ASSUME NEW e, Raise(t, e), UNCHANGED section
      PROVE  SharedOK'
  BY <1>1, <1>2, <1>3, RaiseShared
<1>4. ASSUME NEW s \in {"load", "refresh"}, RunBlocking(t, s), kind[Iss(t)] = "jwks_uri"
      PROVE  SharedOK'
  BY <1>1, <1>3, <1>4, EnterShared DEF RunBlocking, GoOn
<1>5. ASSUME NEW l \in {"get", "resolved"}, Goto(t, l), UNCHANGED section
      PROVE  SharedOK'
  <2>1. pc'[t] = l /\ call' = [call EXCEPT ![t] = call[t]] /\ (call[t] # None => call[t] \in workload[t])
    BY <1>1, <1>5 DEF TypeOK, TakesOK, Goto
  <2>2. l \in Steps \ LockSteps /\ l # "join"
    BY DEF Steps, LockSteps
  <2> QED BY <1>1, <1>2, <1>5, <2>1, <2>2, AwayShared
<1>6. ASSUME NEW d, LookUp(t, d)
      PROVE  SharedOK'
  <2>1. CASE UNCHANGED <<pc, section, result, keys>>
    <3>1. Goto(t, "get")
      BY <1>1, <2>1 DEF TypeOK, Goto
    <3> QED BY <1>5, <2>1, <3>1
  <2>2. CASE ReturnKeys(t, d) /\ UNCHANGED <<section, again>>
    BY <1>5, <2>2 DEF ReturnKeys
  <2> QED BY <1>3, <1>4, <1>6, <2>1, <2>2 DEF LookUp, Unindexed, ImportKeySet
<1> QED BY <1>3, <1>4, <1>6 DEF Get, GetCached, GetConfigured

LEMMA RevokedShared ==
    ASSUME IInv, SharedOK, NEW t \in Threads, AskRevoked(t) \/ LookRevoked(t), UNCHANGED workload
    PROVE  SharedOK'
<1>1. TypeOK /\ pc[t] \in {"ask", "look"} /\ UNCHANGED <<lockVars, call>> /\ TakesOK(t) /\ Revocable(call[t])
  BY DEF IInv, ThreadOK, CallOK, InList, SharedOK, AskRevoked, LookRevoked
<1>2. ASSUME NEW l \in {"look", "answered"}, Goto(t, l), UNCHANGED section
      PROVE  SharedOK'
  <2>1. pc'[t] = l /\ call' = [call EXCEPT ![t] = call[t]] /\ (call[t] # None => call[t] \in workload[t])
    BY <1>1, <1>2 DEF TypeOK, TakesOK, Goto
  <2>2. l \in Steps \ LockSteps /\ l # "join"
    BY DEF Steps, LockSteps
  <2>3. LockUse(t)
    BY <1>1, <2>1, <2>2 DEF LockUse, Holds
  <2> QED BY <1>1, <1>2, <2>1, <2>2, <2>3, AwayShared
<1>3. CASE AskRevoked(t) /\ ~call[t].inLoop /\ section' = [section EXCEPT ![t] = "revoked"] /\ GoOn(t, "acquire")
  BY <1>1, <1>3, EnterShared DEF GoOn, AskRevoked
<1> QED BY <1>2, <1>3 DEF AskRevoked, LookRevoked, GoOn

LEMMA LeaveShared ==
    ASSUME IInv, SharedOK, NEW t \in Threads, Holds(t), UNCHANGED <<call, section, workload>>,
           (\E l \in {"get", "look"} : Leave(t, l)) \/ \E e \in Results : LeaveRaising(t, e)
    PROVE  SharedOK'
<1>1. TypeOK /\ TakesOK(t) /\ pc[t] # "idle"
  BY DEF IInv, SharedOK, Holds
<1>2. ASSUME NEW e, Raise(t, e), Release(LockOf(t)) \/ (~locked[LockOf(t)] /\ UNCHANGED lockVars)
      PROVE  SharedOK'
  <2>1. pc'[t] # "join" => LockUse(t)
    BY <1>2 DEF LockUse
  <2> QED BY <1>1, <1>2, <2>1, RaiseShared
<1>3. ASSUME NEW l \in {"get", "look"}, Release(LockOf(t)), GoOn(t, l)
      PROVE  SharedOK'
  <2>1. pc'[t] = l /\ call' = [call EXCEPT ![t] = call[t]] /\ (call[t] # None => call[t] \in workload[t])
    BY <1>1, <1>3 DEF TypeOK, TakesOK, GoOn, Goto
  <2>2. l \in Steps \ LockSteps /\ l # "join"
    BY DEF Steps, LockSteps
  <2>3. LockUse(t)
    BY <1>3, <2>1, <2>2 DEF LockUse
  <2> QED BY <1>3, <2>1, <2>2, <2>3, AwayShared DEF GoOn
<1> QED BY <1>2, <1>3 DEF Leave, LeaveRaising

(* Coming to the lock, waiting for it and going on to the fetch. *)
LEMMA AtLockShared ==
    ASSUME IInv, SharedOK, NEW t \in Threads, UNCHANGED <<call, section, workload>>,
           \/ Acquire(t) \/ Take(t) \/ JoinWaiters(t) \/ FallAsleep(t) \/ WakeUp(t)
           \/ Holds(t) /\ GoOn(t, "fetch") /\ UNCHANGED lockVars
    PROVE  SharedOK'
<1>1. TypeOK /\ LockOf(t)' = LockOf(t)
  BY DEF IInv, LockOf, Iss
<1>2. pc[t] \in LockSteps
  BY DEF Acquire, Take, JoinWaiters, FallAsleep, WakeUp, Holds, LockSteps
<1>3. ASSUME NEW l \in LockSteps, GoOn(t, l), pc'[t] = l => LockUse(t)
      PROVE  SharedOK'
  <2>1. pc'[t] = l /\ Goto(t, l)
    BY <1>1, <1>3 DEF TypeOK, GoOn, Goto
  <2> QED BY <1>2, <1>3, <2>1, WithinShared
<1>4. /\ "take" \in LockSteps /\ "join" \in LockSteps /\ "waiting" \in LockSteps
      /\ "asleep" \in LockSteps /\ "locked" \in LockSteps /\ "fetch" \in LockSteps
  BY DEF LockSteps
<1>5. CASE Acquire(t)
  <2>1. pc[t] = "acquire" /\ ~Holds(t)
    BY <1>5 DEF Acquire, Holds
  <2>2. CASE SetLocked(LockOf(t)) /\ GoOn(t, "locked")
    BY <1>1, <1>3, <1>4, <2>2 DEF LockUse
  <2>3. CASE UNCHANGED lockVars /\ GoOn(t, "take")
    BY <1>3, <1>4, <2>1, <2>3 DEF LockUse
  <2>4. CASE ~Free(LockOf(t)) /\ UNCHANGED lockVars /\ GoOn(t, "join")
    BY <1>1, <1>3, <1>4, <2>1, <2>4 DEF LockUse
  <2> QED BY <1>5, <2>2, <2>3, <2>4 DEF Acquire
<1>6. CASE Take(t)
  BY <1>1, <1>3, <1>4, <1>6 DEF Take, LockUse
<1>7. CASE JoinWaiters(t)
  <2>1. CASE Join(t, LockOf(t)) /\ GoOn(t, "waiting")
    BY <1>3, <1>4, <1>7, <2>1 DEF JoinWaiters, LockUse
  <2>2. CASE Raise(t, "RuntimeError") /\ UNCHANGED lockVars
    <3>1. (pc'[t] # "join" => LockUse(t)) /\ pc[t] # "idle"
      BY <1>7, <2>2 DEF LockUse, JoinWaiters, Holds
    <3> QED BY <2>2, <3>1, RaiseShared
  <2> QED BY <1>7, <2>1, <2>2 DEF JoinWaiters
<1>8. CASE FallAsleep(t)
  BY <1>3, <1>4, <1>8 DEF FallAsleep, LockUse, Holds
<1>9. CASE WakeUp(t)
  BY <1>3, <1>4, <1>9 DEF WakeUp, LockUse
<1>10. CASE Holds(t) /\ GoOn(t, "fetch") /\ UNCHANGED lockVars
  <2>1. pc'[t] = "fetch" => LockUse(t)
    BY <1>1, <1>10 DEF LockUse, Holds
  <2> QED BY <1>3, <1>4, <1>10, <2>1
<1> QED BY <1>5, <1>6, <1>7, <1>8, <1>9, <1>10

LEMMA UseIssuerShared ==
    ASSUME IInv, SharedOK, NEW t \in Threads, UseIssuer(t), UNCHANGED workload
    PROVE  SharedOK'
<1>1. CASE Get(t) \/ AskRevoked(t) \/ LookRevoked(t)
  BY <1>1, GetShared, RevokedShared
<1>2. CASE Acquire(t) \/ Take(t) \/ JoinWaiters(t) \/ FallAsleep(t) \/ WakeUp(t)
  <2>1. UNCHANGED <<call, section>>
    BY <1>2 DEF Acquire, Take, JoinWaiters, FallAsleep, WakeUp
  <2> QED BY <1>2, <2>1, AtLockShared
<1>3. CASE Load(t) \/ Refresh(t) \/ Recheck(t) \/ LoadFetched(t) \/ RefreshFetched(t) \/ RevocationsFetched(t)
  <2>1. Holds(t) /\ UNCHANGED <<call, section>>
    BY <1>3 DEF Holds, Load, Refresh, Recheck, LoadFetched, RefreshFetched, RevocationsFetched
  <2>2. CASE GoOn(t, "fetch") /\ UNCHANGED lockVars
    BY <2>1, <2>2, AtLockShared
  <2>3. CASE (\E l \in {"get", "look"} : Leave(t, l)) \/ \E e \in Results : LeaveRaising(t, e)
    BY <2>1, <2>3, LeaveShared
  <2> QED BY <1>3, <2>2, <2>3 DEF Load, Refresh, Recheck, LoadFetched, RefreshFetched, RevocationsFetched, Results
<1> QED BY <1>1, <1>2, <1>3 DEF UseIssuer

LEMMA NextShared == IInv /\ SharedOK /\ [Next]_vars => SharedOK'
<1> SUFFICES ASSUME IInv, SharedOK, [Next]_vars PROVE SharedOK'
  OBVIOUS
<1>1. TypeOK
  BY DEF IInv
<1>2. ASSUME NEW t \in Threads, NEW l \in {"idle", "get", "ask", "hints"}, Goto(t, l),
             pc[t] \in {"idle", "hints", "resolved", "answered"}, UNCHANGED <<lockVars, workload>>,
             \A u \in Threads \ {t} : section'[u] = section[u],
             NEW c, call' = [call EXCEPT ![t] = c], c # None => c \in workload[t]
      PROVE  SharedOK'
  <2>1. pc'[t] = l /\ call'[t] = c
    BY <1>1, <1>2 DEF TypeOK, Goto
  <2>2. LockUse(t)
    BY <1>2, <2>1 DEF LockUse, Holds
  <2>3. TakesOK(t)'
    BY <1>2, <2>1 DEF TakesOK, LockSteps
  <2>4. \A u \in Threads \ {t} : placeVars(u)' = placeVars(u)
    BY <1>1, <1>2 DEF TypeOK, Goto, placeVars
  <2> QED BY <1>2, <2>2, <2>3, <2>4, SharedKept
<1>3. ASSUME NEW t \in Threads, SelectIssuer(t) \/ Verify(t) \/ HeedRevocation(t)
      PROVE  SharedOK'
  <2>1. pc[t] \in {"idle", "hints", "resolved", "answered"}
    BY <1>3 DEF SelectIssuer, Verify, HeedRevocation
  <2>2. ASSUME NEW v, Finish(t, v)
        PROVE  SharedOK'
    <3>1. \A u \in Threads \ {t} : section'[u] = section[u]
      BY <1>1, <2>2 DEF TypeOK, IssuerTypeOK, Finish
    <3> QED BY <1>2, <2>1, <2>2, <3>1 DEF Finish
  <2>3. ASSUME NEW l \in {"get", "ask"}, Proceed(t, l)
        PROVE  SharedOK'
    <3>1. call' = [call EXCEPT ![t] = call[t]] /\ (call[t] # None => call[t] \in workload[t])
      BY <1>1, <2>3 DEF TypeOK, Proceed, SharedOK, TakesOK
    <3> QED BY <1>2, <2>1, <2>3, <3>1 DEF Proceed, GoOn
  <2> QED BY <1>3, <2>2, <2>3 DEF SelectIssuer, Verify, HeedRevocation
<1>4. ASSUME NEW t \in Threads, NEW c \in workload[t], Begin(t, c)
      PROVE  SharedOK'
  BY <1>2, <1>4 DEF Begin
<1>5. CASE UNCHANGED <<lockVars, pc, call, section, workload>>
  BY <1>5 DEF lockVars, SharedOK, TakesOK, Alone, Shared, LockOf, Iss, Holds
<1>6. ASSUME NEW i \in Issuers, Environment(i)
      PROVE  SharedOK'
  BY <1>5, <1>6 DEF Environment, Publish, IntervalEnds
<1>7. CASE UNCHANGED vars
  BY <1>5, <1>7 DEF vars
<1> QED BY <1>3, <1>4, <1>6, <1>7, UseIssuerShared DEF Next, Run

(* The lock of an issuer breaks only where two threads make blocking calls *)
(* that may come to it, neither from inside a running loop                 *)
(* (base_models.py:607, revocation.py:98).                                 *)
THEOREM SharingBreaks == Spec => []OnlySharedLocksBreak
<1>1. Init => SharedOK
  BY DEF Init, IssuerInit, LockInit, SharedOK, TakesOK, Alone, LockSteps
<1>2. SharedOK => OnlySharedLocksBreak
  BY DEF SharedOK, Alone, OnlySharedLocksBreak
<1> QED BY <1>1, <1>2, NextShared, InductiveInvariant, PTL DEF Spec

(* Where no lock is shared and no issuer ever withdraws a key or publishes *)
(* what the key lookup trips over, a token answered with                   *)
(* InvalidJwtTokenError is invalid, as decode.py:163 says.  Every one of   *)
(* the three assumptions names a way in which the code makes it untrue.    *)
THEOREM InvalidIsInvalid ==
    ASSUME \A w \in Workloads, l \in Locks : ~Shared(w, l),
           \A i \in Issuers : \A d \in Documents[i] : ~Trips(d),
           \A i \in Issuers : \A d, e \in Documents[i] : Indexed(d) => \A k \in DOMAIN e : Under(d, k, e[k])
    PROVE  Spec => InvalidMeansInvalid
<1> DEFINE Cause(t) ==
        LET i == call[t].token.iss IN
        \/ outcome' = "TokenRevokedError" /\ call[t].token.jti \in revocations[i]
        \/ outcome' = "MalformedJwtTokenError" /\ call[t].token.jti = None
        \/ \E d \in Documents[i] : Trips(d)
        \/ \E d \in Documents[i] : Indexed(d) /\ ~Under(d, call[t].token.kid, call[t].token.signer)
        \/ bound[<<i, "keys">>]
<1>1. ASSUME TypeOK, OnlySharedLocksBreak, NEW t \in Threads, Ends(t, {"InvalidJwtTokenError"}), Sound(call[t]),
             Ends(t, PermissionsDenied) /\ Sound(call[t]) => Cause(t)
      PROVE  FALSE
  <2>1. Ends(t, PermissionsDenied) /\ outcome' = "InvalidJwtTokenError"
    BY <1>1 DEF Ends, PermissionsDenied, JwtTokenErrors
  <2>2. call[t].token.iss \in Issuers
    BY <1>1 DEF Ends, TypeOK, Sound, Domains
  <2>3. ~bound[<<call[t].token.iss, "keys">>]
    BY <1>1, <2>2 DEF TypeOK, OnlySharedLocksBreak
  <2>4. PICK d \in Documents[call[t].token.iss] :
            Indexed(d) /\ ~Under(d, call[t].token.kid, call[t].token.signer)
    BY <1>1, <2>1, <2>2, <2>3
  <2>5. PICK e \in Documents[call[t].token.iss] : Under(e, call[t].token.kid, call[t].token.signer)
    BY <1>1 DEF Sound, Published
  <2> QED BY <2>2, <2>4, <2>5 DEF Under
<1>2. TypeOK /\ OnlySharedLocksBreak
      /\ [\A t \in Threads : Ends(t, PermissionsDenied) /\ Sound(call[t]) => Cause(t)]_vars =>
         [\A t \in Threads : Ends(t, {"InvalidJwtTokenError"}) => ~Sound(call[t])]_vars
  BY <1>1
<1>3. Spec => [][\A t \in Threads : Ends(t, PermissionsDenied) /\ Sound(call[t]) => Cause(t)]_vars
  BY DenialsExplained DEF DenialsHaveCauses
<1> QED BY <1>2, <1>3, SharingBreaks, TypeCorrect, PTL DEF InvalidMeansInvalid

(* Where no provenance token has an exp or iat that cannot be represented, *)
(* the check that returns None on a bad token never raises, whatever else  *)
(* is wrong with the token or the issuer (provenance/verify.py:133).       *)
THEOREM OrNoneInRange ==
    ASSUME \A c \in AnyCall : c.domain = "provenance" => c.token.flaw \notin Unrepresentable
    PROVE  Spec => OrNoneNeverRaises
<1>1. ASSUME IInv, [Next]_vars, NEW t \in Threads, call[t] # None, call[t].domain = "provenance", pc'[t] = "idle"
      PROVE  or_none(outcome') \in {"accepted", "none"}
  <2>1. pc[t] # "idle" /\ call[t] \in AnyCall
    BY <1>1 DEF IInv, TypeOK
  <2>2. SelectIssuer(t) \/ Verify(t) \/ HeedRevocation(t)
    BY <1>1, <2>1, EndOf
  <2>3. ASSUME NEW v, Finish(t, v), v = "accepted" \/ Handled(v)
        PROVE  or_none(outcome') \in {"accepted", "none"}
    BY <2>3 DEF Finish, or_none
  <2>4. ASSUME NEW l, Proceed(t, l), l # "idle"
        PROVE  FALSE
    BY <1>1, <2>4 DEF IInv, TypeOK, Proceed, GoOn, Goto
  <2>5. /\ Handled("MalformedJwtTokenError") /\ Handled("InvalidJwtTokenError") /\ Handled("AuthentikateTokenExpired")
        /\ Handled("JwksError") /\ Handled(Invalid(call[t]))
    BY DEF Handled, Invalid, JwtTokenErrors, ProvenanceTokenErrors
  <2>6. Built(call[t]) = "accepted" \/ Handled(Built(call[t]))
    BY <1>1, <2>1 DEF Built, Malformed, Handled, JwtTokenErrors, ProvenanceTokenErrors
  <2>7. CASE SelectIssuer(t)
    BY <2>3, <2>4, <2>5, <2>7 DEF SelectIssuer
  <2>8. CASE Verify(t)
    <3>1. result[t] # "keys" => Handled(Caught(call[t], result[t]))
      BY <2>5 DEF Caught, AuthentikateErrors
    <3> QED BY <2>3, <2>4, <2>5, <2>6, <2>8, <3>1 DEF Verify
  <2>9. ~HeedRevocation(t)
    BY <1>1, Established DEF HeedRevocation, Revocable
  <2> QED BY <2>2, <2>7, <2>8, <2>9
<1>2. IInv /\ [Next]_vars =>
         [\A t \in Threads :
            call[t] # None /\ call[t].domain = "provenance" /\ pc'[t] = "idle" =>
               or_none(outcome') \in {"accepted", "none"}]_vars
  BY <1>1
<1> QED BY <1>2, InductiveInvariant, PTL DEF Spec, OrNoneNeverRaises
=============================================================================
