------------------------------ MODULE FairLock ------------------------------
(***************************************************************************)
(* asyncio.Lock, as StreamClient uses it for _read_lock and _request_lock. *)
(*                                                                         *)
(* A lock is the sequence of the tasks that hold it or wait for it, in the *)
(* order they asked.  Its head is the holder.  asyncio.Lock serves its     *)
(* waiters in arrival order, refuses the fast path while anyone waits, and *)
(* when a waiter it has just woken is cancelled it wakes the next one, so  *)
(* "release" and "give up waiting" are the same operation on the sequence: *)
(* the task leaves it, wherever it stands.                                 *)
(***************************************************************************)
EXTENDS Naturals, Sequences

Unlocked == <<>>

\* The tasks that hold the lock or wait for it.
Queued(q) == {q[i] : i \in 1 .. Len(q)}

\* t holds the lock.
Holds(q, t) == q # <<>> /\ q[1] = t

\* Lock.acquire(): hold it if it is free, else wait behind everyone.
Join(q, t) == Append(q, t)

\* Mutant: whoever gives up releases the holder's lock.
Leave_Head(q, t) == Tail(q)

\* Lock.release() by the holder, or a waiter whose acquire() is cancelled.
Leave(q, t) ==
    LET at == CHOOSE i \in 1 .. Len(q) : q[i] = t
    IN  [i \in 1 .. Len(q) - 1 |-> IF i < at THEN q[i] ELSE q[i + 1]]

\* No task stands twice in the queue.
NoneTwice(q) == \A i, j \in 1 .. Len(q) : q[i] = q[j] => i = j
=============================================================================
