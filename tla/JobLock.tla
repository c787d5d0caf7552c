------------------------------- MODULE JobLock -------------------------------
(***************************************************************************)
(* What the item "jobs" of the LockTable promises to the executions of a   *)
(* job state machine: a binary semaphore.  A holder may be lost without    *)
(* giving it back; nobody else can then take it, and nobody can take it    *)
(* from a holder.                                                          *)
(***************************************************************************)
CONSTANT Jobs

VARIABLES
    lock,      \* whether the item exists
    holders    \* the executions between AcquireLock and ReleaseLock

vars == <<lock, holders>>

Init == lock = FALSE /\ holders = {}

Acquire(j) ==
    /\ ~lock
    /\ lock' = TRUE
    /\ holders' = {j}

Release(j) ==
    /\ holders = {j}
    /\ lock' = FALSE
    /\ holders' = {}

\* The execution ends without a further state.
Abandon(j) ==
    /\ holders = {j}
    /\ holders' = {}
    /\ UNCHANGED lock

Next == \E j \in Jobs : Acquire(j) \/ Release(j) \/ Abandon(j)

Spec == Init /\ [][Next]_vars
=============================================================================
