------------------------------ MODULE MutexUse ------------------------------
(***************************************************************************)
(* The mutex of pa3.c as its callers use it: each thread, any number of    *)
(* times, picks an instance, acquires it, runs a critical section and      *)
(* releases it (tester.c:90-105, 110-117, 127-132, 162-175, 199-201).      *)
(* Permits[m] is 1 for a mutex (init_mutex, pa3.c:112); nothing below      *)
(* depends on it, so the same statements speak of counting semaphores that *)
(* are released by the thread that acquired them.                          *)
(***************************************************************************)
EXTENDS Semaphore

VARIABLE crit   \* the instance whose acquire_mutex the thread called last
                \* and has not called release_mutex for

vars == <<semVars, crit>>

UseInit ==
    /\ Init
    /\ crit = [t \in Threads |-> NoSem]

Acquire(t, m) ==
    /\ crit[t] = NoSem
    /\ CallAcquire(t, m)
    /\ crit' = [crit EXCEPT ![t] = m]

Release(t) ==
    /\ crit[t] # NoSem
    /\ CallRelease(t, crit[t])
    /\ crit' = [crit EXCEPT ![t] = NoSem]

Library(t) == LibStep(t) /\ UNCHANGED crit

UseNext ==
    \E t \in Threads :
        \/ \E m \in Sems : Acquire(t, m)
        \/ Release(t)
        \/ Library(t)

UseSpec == UseInit /\ [][UseNext]_vars

(***************************************************************************)
(* Each thread that can take a step for ever takes one: the kernel runs    *)
(* every runnable thread.  A thread may stay outside for ever, but leaves  *)
(* the critical sections it enters.  The fairness is weak: the compare-    *)
(* and-swap loop gives no thread a turn, and a thread may lose it for ever *)
(* to others that come and go.                                             *)
(***************************************************************************)
Fairness == \A t \in Threads : WF_vars(Release(t)) /\ WF_vars(Library(t))

FairSpec == UseSpec /\ Fairness
-----------------------------------------------------------------------------
(* The type of the state. *)
UseTypeOK == TypeOK /\ crit \in [Threads -> Sems \cup {NoSem}]

(* The threads in their critical section on m. *)
InCS(m) == {t \in Threads : crit[t] = m /\ lpc[t] = "out"}

(* At most Permits[m] threads are in their critical sections on m: one,    *)
(* for a mutex (tester.c:93 and 99 assert it of the tested lock).          *)
MutualExclusion == \A m \in Sems : Cardinality(InCS(m)) <= Permits[m]

(* A thread whose node is in the queue enters its critical section, even   *)
(* under weak fairness: from there on it does not compete for hold.  This  *)
(* is the "blocked indefinitely if a race condition happens" of            *)
(* tester.c:192-195.                                                       *)
QueuedGetsIn ==
    \A t \in Threads, m \in Sems : InQueue(t, m) ~> t \in InCS(m)

(* A mutex that is being released is released: those that compete with the *)
(* releaser for hold all go to sleep, as S stays below 1 until it is done. *)
ReleaseReturns ==
    \A t \in Threads : lpc[t] = "relCas" ~> lpc[t] = "out"
=============================================================================
