------------------------------ MODULE AsyncLock ------------------------------
(***************************************************************************)
(* asyncio.Lock as authentikate uses it: `async with self._cache_lock` in  *)
(* base_models.py and `async with self._lock` in revocation.py.            *)
(*                                                                         *)
(* The lock is fair: acquire() succeeds at once only when the lock is free *)
(* and nobody waits, everyone else queues, and release() wakes the oldest  *)
(* waiter.  A cancelled waiter leaves the queue.                           *)
(***************************************************************************)
EXTENDS Integers, Sequences

CONSTANTS
    Tasks,  \* the tasks of the event loop that contend for the lock
    None    \* nobody, and every other `None` of the program

ASSUME NoneIsNoTask == None \notin Tasks

VARIABLES
    holder,  \* the task inside the `async with`, or None
    queue    \* the tasks waiting in acquire(), oldest first

lockVars == <<holder, queue>>

LockInit == holder = None /\ queue = <<>>

Uncontended == holder = None /\ queue = <<>>

(* acquire() without suspending. *)
Acquire(t) == Uncontended /\ holder' = t /\ UNCHANGED queue

(* acquire() that suspends. *)
Enqueue(t) == ~Uncontended /\ queue' = Append(queue, t) /\ UNCHANGED holder

(* The oldest waiter resumes with the lock. *)
Wake(t) ==
    /\ holder = None
    /\ queue # <<>>
    /\ t = Head(queue)
    /\ holder' = t
    /\ queue' = Tail(queue)

(* Leaving the `async with`: asyncio.Lock keeps no owner to compare. *)
Release == holder' = None /\ UNCHANGED queue

(* CancelledError reaches a task that holds the lock or waits for it. *)
Leave(t) ==
    \/ holder = t /\ Release
    \/ /\ holder # t
       /\ \E i \in DOMAIN queue :
             /\ queue[i] = t
             /\ queue' = SubSeq(queue, 1, i - 1) \o SubSeq(queue, i + 1, Len(queue))
       /\ UNCHANGED holder

(* The queue q holds exactly the tasks W, each once. *)
QueueOf(q, W) ==
    /\ q \in Seq(Tasks)
    /\ \A i, j \in DOMAIN q : q[i] = q[j] => i = j
    /\ W = {q[i] : i \in DOMAIN q}
=============================================================================
