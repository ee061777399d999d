------------------------------ MODULE LoopLock ------------------------------
(***************************************************************************)
(* asyncio.Lock when event loops of several threads share it (CPython 3.11 *)
(* and 3.12, under the GIL).  AsyncLock is the same lock within one loop.  *)
(*                                                                         *)
(* The lock binds itself to the first loop that has to wait and refuses    *)
(* every other loop that has to.  Every blocking call runs in a loop of    *)
(* its own, so after the first wait whoever has to wait gets RuntimeError. *)
(* The waiter is woken by call_soon() on its loop from a foreign thread:   *)
(* a loop that is already in select() does not notice.                     *)
(*                                                                         *)
(* A thread may be preempted between finding the lock taken and joining    *)
(* the waiters and, once there is a deque of waiters to look through,      *)
(* between finding the lock free and taking it.                            *)
(***************************************************************************)
EXTENDS TLC

CONSTANTS
    Threads,  \* the threads that make blocking calls
    Locks,    \* the locks they share
    None      \* nobody, and every other `None` of the program

ASSUME NoneIsNoThread == None \notin Threads

VARIABLES
    locked,  \* _locked
    bound,   \* whether _loop and _waiters are set
    waiter,  \* the thread whose future is in _waiters, None when it is empty
    woken    \* whether that future is done

lockVars == <<locked, bound, waiter, woken>>

LockTypeOK ==
    /\ locked \in [Locks -> BOOLEAN]
    /\ bound \in [Locks -> BOOLEAN]
    /\ waiter \in [Locks -> Threads \cup {None}]
    /\ woken \in [Locks -> BOOLEAN]

LockInit ==
    /\ locked = [l \in Locks |-> FALSE]
    /\ bound = [l \in Locks |-> FALSE]
    /\ waiter = [l \in Locks |-> None]
    /\ woken = [l \in Locks |-> FALSE]

(* The fast path of acquire() is open. *)
Free(l) == ~locked[l] /\ waiter[l] = None

SetLocked(l) == locked' = [locked EXCEPT ![l] = TRUE] /\ UNCHANGED <<bound, waiter, woken>>

(* Mutant: a lock that knows no loops. *)
JoinUnbound(t, l) ==
    /\ bound' = [bound EXCEPT ![l] = TRUE]
    /\ waiter' = [waiter EXCEPT ![l] = t]
    /\ woken' = [woken EXCEPT ![l] = FALSE]
    /\ UNCHANGED locked

(* The first loop that has to wait joins the waiters. *)
Join(t, l) ==
    /\ ~bound[l]
    /\ bound' = [bound EXCEPT ![l] = TRUE]
    /\ waiter' = [waiter EXCEPT ![l] = t]
    /\ woken' = [woken EXCEPT ![l] = FALSE]
    /\ UNCHANGED locked

(* The waiter's loop runs its callback: it takes the lock unasked. *)
Resume(t, l) ==
    /\ waiter[l] = t
    /\ woken[l]
    /\ locked' = [locked EXCEPT ![l] = TRUE]
    /\ waiter' = [waiter EXCEPT ![l] = None]
    /\ woken' = [woken EXCEPT ![l] = FALSE]
    /\ UNCHANGED bound

(* release() of a locked lock; of another one it is a RuntimeError. *)
Release(l) ==
    /\ locked[l]
    /\ locked' = [locked EXCEPT ![l] = FALSE]
    /\ woken' = [woken EXCEPT ![l] = waiter[l] # None]
    /\ UNCHANGED <<bound, waiter>>
=============================================================================
