----------------------------- MODULE LockDrafts -----------------------------
(***************************************************************************)
(* The lock tester over the files that were kept on the way to pa3.c, each *)
(* with a spinlock and a mutex of its own: spinlock.c, trying_mutex.c,     *)
(* trying_buffer.c, mutex.c and trying_buffer2.c.  A behaviour is one of   *)
(* them, or pa3.c.  In the drafts, the word "hold" of the mutex is a       *)
(* spinlock, and the signal is SIGUSR1, or SIGCONT in mutex.c.             *)
(***************************************************************************)
EXTENDS LockTester

CONSTANT DraftTesters   \* nr_testers in the tests of the drafts

ASSUME LockDraftsAssumption == DraftTesters \in 1..NrTesters

VARIABLE version        \* the source file of the locks

draftVars == <<vars, version>>

Versions == {"spinlock", "trying_mutex", "trying_buffer", "mutex", "trying_buffer2", "pa3"}

TestStep == (\E t \in Testers : Tester(t)) \/ MainStep \/ Barrier

(***************************************************************************)
(* The spinlock of each file under the tester.                             *)
(***************************************************************************)
SpinTest == lock_type = "spinlock" /\ TestStep

spinlock_spinlock == version = "spinlock" /\ SpinTest
trying_mutex_spinlock == version = "trying_mutex" /\ SpinTest
trying_buffer_spinlock == version = "trying_buffer" /\ SpinTest
mutex_spinlock == version = "mutex" /\ SpinTest
trying_buffer2_spinlock == version = "trying_buffer2" /\ SpinTest
pa3_spinlock == version = "pa3" /\ SpinTest

(***************************************************************************)
(* spinlock.c: the mutex does nothing.                                     *)
(***************************************************************************)
spinlock_acquire_mutex(t) ==
    /\ At(t, "acqCas")
    /\ Return(t)
    /\ UNCHANGED <<S, hold, queue, masked, pending, killed, gthread>>

spinlock_release_mutex(t) ==
    /\ At(t, "relCas")
    /\ Return(t)
    /\ UNCHANGED <<S, hold, queue, masked, pending, killed, gthread>>

(***************************************************************************)
(* trying_mutex.c: init_mutex writes through the null pointer "spinlock".  *)
(***************************************************************************)
trying_mutex_init_mutex ==
    /\ version = "trying_mutex" /\ lock_type = "mutex"
    /\ Runs(Main, "lock1")
    /\ killed' = TRUE
    /\ UNCHANGED <<S, hold, queue, masked, pending, lpc, sem, gthread, testVars>>

(***************************************************************************)
(* trying_buffer.c: the spinlock protects the count, and neither the test  *)
(* of it nor the queue.  An operation on the list is one step, although    *)
(* two that race may also leave the list broken.                           *)
(***************************************************************************)
TbDec(t) ==
    /\ At(t, "acqDec")
    /\ S' = [S EXCEPT ![sem[t]] = @ - 1]
    /\ Goto(t, "tbAcqDrop")
    /\ UNCHANGED <<hold, queue, masked, pending, killed, gthread>>

TbInc(t) ==
    /\ At(t, "relInc")
    /\ S' = [S EXCEPT ![sem[t]] = @ + 1]
    /\ Goto(t, "tbRelDrop")
    /\ UNCHANGED <<hold, queue, masked, pending, killed, gthread>>

TbDrop(t, from, to) ==
    /\ At(t, from)
    /\ Unlock(sem[t])
    /\ Goto(t, to)
    /\ UNCHANGED <<S, queue, masked, pending, killed, gthread>>

TbTest(t, from, waits, to) ==
    /\ At(t, from)
    /\ IF waits THEN Goto(t, to) ELSE Return(t)
    /\ UNCHANGED <<S, hold, queue, masked, pending, killed, gthread>>

TbMask(t) ==
    /\ At(t, "acqMask")
    /\ masked' = masked \cup {t}
    /\ Goto(t, "acqWait")
    /\ UNCHANGED <<S, hold, queue, pending, killed, gthread>>

TbPop(t) ==
    /\ At(t, "relPop")
    /\ IF queue[sem[t]] # <<>>
       THEN /\ gthread' = [gthread EXCEPT ![t] = Head(queue[sem[t]])]
            /\ queue' = [queue EXCEPT ![sem[t]] = Tail(@)]
            /\ Goto(t, "relKill")
       ELSE Return(t) /\ UNCHANGED <<gthread, queue>>
    /\ UNCHANGED <<S, hold, masked, pending, killed>>

trying_buffer_acquire_mutex(t) ==
    \/ AcqCas(t) \/ TbDec(t) \/ TbDrop(t, "tbAcqDrop", "tbAcqTest")
    \/ TbTest(t, "tbAcqTest", S[Testlock] < 0, "acqAdd")
    \/ AcqAdd(t) \/ TbMask(t) \/ AcqWait(t)

trying_buffer_release_mutex(t) ==
    \/ RelCas(t) \/ TbInc(t) \/ TbDrop(t, "tbRelDrop", "tbRelTest")
    \/ TbTest(t, "tbRelTest", S[Testlock] <= 0, "relPop")
    \/ TbPop(t) \/ RelKill(t)

(***************************************************************************)
(* mutex.c: the set of signals is a local variable that is not cleared.    *)
(* It may hold other signals, none of which is ever sent.  A SIGCONT that  *)
(* is not blocked does nothing to a process that runs.                     *)
(***************************************************************************)
mutex_pthread_kill(t) ==
    /\ At(t, "relKill")
    /\ pending' = pending \cup ({gthread[t]} \cap masked)
    /\ gthread' = [gthread EXCEPT ![t] = NoThread]
    /\ Return(t)
    /\ UNCHANGED <<S, hold, queue, masked, killed>>

mutex_acquire_mutex(t) == AcqStep(t)

mutex_release_mutex(t) ==
    RelCas(t) \/ RelInc(t) \/ RelFree(t) \/ RelPop(t) \/ RelDrop(t) \/ mutex_pthread_kill(t)

(***************************************************************************)
(* trying_buffer2.c: the mutex is the one of pa3.c.                        *)
(***************************************************************************)
trying_buffer2_acquire_mutex(t) == AcqStep(t)
trying_buffer2_release_mutex(t) == RelStep(t)

(***************************************************************************)
(* The tester over any of them.                                            *)
(***************************************************************************)
DraftsInit ==
    /\ version \in Versions
    /\ TestInit
    /\ nr_testers = IF version = "pa3" THEN NrTesters ELSE DraftTesters
    /\ rounds = IF lock_type = "spinlock" THEN NrRounds ELSE 1

DraftStep == UNCHANGED version /\ (
    \/ spinlock_spinlock \/ trying_mutex_spinlock \/ trying_buffer_spinlock
    \/ mutex_spinlock \/ trying_buffer2_spinlock \/ pa3_spinlock
    \/ version # "trying_mutex" /\ lock_type = "mutex" /\ TestStep
    \/ trying_mutex_init_mutex)

DraftLibrary(t) == ~aborted /\ UNCHANGED <<testVars, version>> /\ (
    \/ version = "spinlock" /\ (spinlock_acquire_mutex(t) \/ spinlock_release_mutex(t))
    \/ version = "trying_buffer" /\ (trying_buffer_acquire_mutex(t) \/ trying_buffer_release_mutex(t))
    \/ version = "mutex" /\ (mutex_acquire_mutex(t) \/ mutex_release_mutex(t))
    \/ version = "trying_buffer2" /\ (trying_buffer2_acquire_mutex(t) \/ trying_buffer2_release_mutex(t))
    \/ version = "pa3" /\ LibStep(t))

\* A mutex that forgets its waiters, or the process, may stop.
DraftEnd ==
    /\ pc[Main] = "exited" \/ aborted \/ killed \/ version = "trying_buffer"
    /\ UNCHANGED draftVars

DraftsNext == DraftStep \/ (\E t \in Threads : DraftLibrary(t)) \/ DraftEnd

(* Every runnable thread runs: as in LockTester.                           *)
DraftTester(t) == UNCHANGED version /\ Tester(t)
DraftMain == UNCHANGED version /\ IF version = "trying_mutex" /\ lock_type = "mutex"
                                  THEN trying_mutex_init_mutex ELSE MainStep
DraftBarrier == UNCHANGED version /\ Barrier

DraftsSpec ==
    /\ DraftsInit /\ [][DraftsNext]_draftVars
    /\ \A t \in Testers : WF_draftVars(DraftTester(t))
    /\ WF_draftVars(DraftMain) /\ WF_draftVars(DraftBarrier)
    /\ \A t \in Threads : WF_draftVars(DraftLibrary(t))
-----------------------------------------------------------------------------
(* Which of the locks work: every spinlock, and the mutexes that look at   *)
(* their count and their queue only under their spinlock.                  *)
Works == lock_type = "spinlock" \/ version \in {"mutex", "trying_buffer2", "pa3"}

(* No assertion of tester.c fails, under any lock that works: it is        *)
(* exclusive (93, 99, 163, 171, 174, 227) and, if it is a mutex whose      *)
(* waiters came in order, granted in order (231).  No signal ends the      *)
(* test, either.                                                           *)
WorkingLocksPass == Works => AssertionsHold /\ ~killed

(* Once main stops the torture, the test comes to its verdict: no tester   *)
(* sleeps through it ("Will be blocked indefinitely if a race condition    *)
(* happens", tester.c:192-195) and the barriers pair up.                   *)
WorkingLocksAreJudged == (Works /\ ~keep_testing) ~> pc[Main] = "exited"
=============================================================================
