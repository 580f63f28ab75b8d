--------------------------- MODULE FifoSemaphore ---------------------------
(***************************************************************************)
(* A counting semaphore that serves its callers first come, first served:  *)
(* what acquire_mutex and release_mutex of pa3.c promise together.  A      *)
(* request takes effect in one step somewhere between its call and its     *)
(* return, and a release that finds somebody waiting passes its permit to  *)
(* the first of them, whom no newcomer can overtake.                       *)
(***************************************************************************)
EXTENDS Integers, Sequences

CONSTANTS Threads, Sems, Permits, NoSem

VARIABLES
    free,       \* free[m]: permits nobody holds
    waiters,    \* waiters[m]: the threads that wait for one, oldest first
    op,         \* what each thread is doing
    target      \* on which semaphore

vars == <<free, waiters, op, target>>

Init ==
    /\ free = Permits
    /\ waiters = [m \in Sems |-> <<>>]
    /\ op = [t \in Threads |-> "idle"]
    /\ target = [t \in Threads |-> NoSem]

Call(t, m, kind) ==
    /\ op[t] = "idle"
    /\ op' = [op EXCEPT ![t] = kind]
    /\ target' = [target EXCEPT ![t] = m]
    /\ UNCHANGED <<free, waiters>>

Take(t) ==
    /\ op[t] = "acquire"
    /\ free[target[t]] > 0
    /\ free' = [free EXCEPT ![target[t]] = @ - 1]
    /\ op' = [op EXCEPT ![t] = "done"]
    /\ UNCHANGED <<waiters, target>>

Queue(t) ==
    /\ op[t] = "acquire"
    /\ free[target[t]] = 0
    /\ waiters' = [waiters EXCEPT ![target[t]] = Append(@, t)]
    /\ op' = [op EXCEPT ![t] = "waiting"]
    /\ UNCHANGED <<free, target>>

Free(t) ==
    /\ op[t] = "release"
    /\ waiters[target[t]] = <<>>
    /\ free' = [free EXCEPT ![target[t]] = @ + 1]
    /\ op' = [op EXCEPT ![t] = "done"]
    /\ UNCHANGED <<waiters, target>>

HandOver(t) ==
    /\ op[t] = "release"
    /\ waiters[target[t]] # <<>>
    /\ waiters' = [waiters EXCEPT ![target[t]] = Tail(@)]
    /\ op' = [op EXCEPT ![t] = "done", ![Head(waiters[target[t]])] = "done"]
    /\ UNCHANGED <<free, target>>

Return(t) ==
    /\ op[t] = "done"
    /\ op' = [op EXCEPT ![t] = "idle"]
    /\ target' = [target EXCEPT ![t] = NoSem]
    /\ UNCHANGED <<free, waiters>>

Next ==
    \E t \in Threads :
        \/ \E m \in Sems : Call(t, m, "acquire") \/ Call(t, m, "release")
        \/ Take(t) \/ Queue(t) \/ Free(t) \/ HandOver(t) \/ Return(t)

Spec == Init /\ [][Next]_vars
=============================================================================
