---------------------------- MODULE MCSemaphore ----------------------------
(***************************************************************************)
(* The library under an arbitrary caller, for TLC.  Nothing stops the      *)
(* caller from releasing for ever, so its releases are bounded: it makes   *)
(* none that could take S above MaxS.                                      *)
(***************************************************************************)
EXTENDS Semaphore, TLC

CONSTANTS Semaphore1, Semaphore2, MaxS

MCPermits == Semaphore1 :> 1 @@ Semaphore2 :> 0

MCSymmetry == Permutations(Threads)

Releasing(m) ==
    {t \in Threads : sem[t] = m /\ lpc[t] \in {"relCas", "relInc"}}

MCNext ==
    \E t \in Threads :
        \/ \E m \in Sems : CallAcquire(t, m)
        \/ \E m \in Sems : S[m] + Cardinality(Releasing(m)) < MaxS /\ CallRelease(t, m)
        \/ AcqCas(t)  \/ AcqDec(t)  \/ AcqFree(t) \/ AcqAdd(t)
        \/ AcqMask(t) \/ AcqDrop(t) \/ AcqWait(t)
        \/ RelCas(t)  \/ RelInc(t)  \/ RelFree(t)
        \/ RelPop(t)  \/ RelDrop(t) \/ RelKill(t)

MCSpec == Init /\ [][MCNext]_semVars
=============================================================================
