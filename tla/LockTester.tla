----------------------------- MODULE LockTester -----------------------------
(***************************************************************************)
(* "./lock -l" and "./lock -m": test_lock and test_thread of tester.c over *)
(* the spinlock (pa3.c:45-79) or the mutex (pa3.c:107-183) of the program. *)
(* The main thread and the testers torture one lock in phases separated by *)
(* barriers; then each tester takes it once, in the order of their ids.    *)
(* Sleeps take any time, except where Punctual says otherwise; what is     *)
(* only printed (nr_tested, the CPU usage of test #4) is left out.         *)
(***************************************************************************)
EXTENDS Semaphore

CONSTANTS
    NrTesters,  \* the largest nr_testers
    Main,       \* the main thread
    Testlock,   \* the lock at the address testlock
    LockTypes,  \* the values lock_type may have, by the options of the command
    NrRounds,   \* at most so many of the 100 iterations of test #3
    Punctual    \* usleep(id * 10000) orders the testers of test #5: each
                \* has asked for the lock before the next one wakes up

Testers == 0..NrTesters - 1

ASSUME LockTesterAssumption ==
    /\ NrTesters \in Nat \ {0}
    /\ Main \notin Testers
    /\ Threads = Testers \cup {Main}
    /\ Sems = {Testlock}
    /\ Permits = [m \in Sems |-> 1]     \* init_mutex
    /\ LockTypes \subseteq {"spinlock", "mutex"}
    /\ NrRounds \in Nat \ {0}
    /\ Punctual \in BOOLEAN

VARIABLES
    lock_type,
    nr_testers,     \* a constant of the code
    pc,             \* the next statement of each thread
    testlock_held, keep_testing, progress, lock_in_order,
    rounds,         \* iterations of test #3 main has left
    aborted         \* an assertion failed

testVars == <<lock_type, nr_testers, pc, testlock_held, keep_testing, progress, lock_in_order, rounds, aborted>>
vars == <<semVars, testVars>>

TestInit ==
    /\ Init
    /\ lock_type \in LockTypes
    /\ nr_testers \in 1..NrTesters
    /\ pc = [t \in Threads |-> IF t = Main THEN "lock1" ELSE "unborn"]
    /\ testlock_held = 0
    /\ keep_testing = TRUE
    /\ progress = 0
    /\ lock_in_order = TRUE
    /\ rounds \in 1..NrRounds
    /\ aborted = FALSE

Runs(t, label) == ~aborted /\ pc[t] = label /\ At(t, "out")

Pc(t, label) == pc' = [pc EXCEPT ![t] = label]

Assert(condition) == aborted' = ~condition

(***************************************************************************)
(* __lock and __unlock.  The whole of acquire_spinlock is its compare-and- *)
(* swap, the whole of release_spinlock a store.                            *)
(***************************************************************************)
SpinAcquire ==
    /\ CompareAndSwap(Testlock)
    /\ UNCHANGED <<S, queue, masked, pending, killed, lpc, sem, gthread>>

SpinRelease ==
    /\ Unlock(Testlock)
    /\ UNCHANGED <<S, queue, masked, pending, killed, lpc, sem, gthread>>

Lock(t, from, to) ==
    /\ Runs(t, from)
    /\ IF lock_type = "mutex" THEN CallAcquire(t, Testlock) ELSE SpinAcquire
    /\ Pc(t, to)
    /\ UNCHANGED <<testlock_held, keep_testing, progress, lock_in_order, rounds, aborted>>

UnlockStep(t, from, to) ==
    /\ Runs(t, from)
    /\ IF lock_type = "mutex" THEN CallRelease(t, Testlock) ELSE SpinRelease
    /\ Pc(t, to)
    /\ UNCHANGED <<testlock_held, keep_testing, progress, lock_in_order, rounds, aborted>>

(* Inside the lock: assert that nobody (or that this thread) has marked it *)
(* as held, and change the mark.                                           *)
Mark(t, from, old, new, to) ==
    /\ Runs(t, from)
    /\ Assert(testlock_held = old)
    /\ testlock_held' = new
    /\ Pc(t, to)
    /\ UNCHANGED <<semVars, keep_testing, progress, lock_in_order, rounds>>

(***************************************************************************)
(* test_thread.                                                            *)
(***************************************************************************)
(* Bug variant: keep_testing is not looked at again.                       *)
LoopForever(t) ==
    /\ Runs(t, "loop")
    /\ Pc(t, "lock")
    /\ UNCHANGED <<semVars, testlock_held, keep_testing, progress, lock_in_order, rounds, aborted>>

Loop(t) ==
    /\ Runs(t, "loop")
    /\ Pc(t, IF keep_testing THEN "lock" ELSE "barrier2")
    /\ UNCHANGED <<semVars, testlock_held, keep_testing, progress, lock_in_order, rounds, aborted>>

HasAsked(u) ==
    /\ pc[u] \in {"turn", "unlock5", "barrier3", "exited"}
    /\ lpc[u] \notin {"acqCas", "acqDec"}

Nap(t) ==
    /\ Runs(t, "nap")
    /\ Punctual => \A u \in Testers : u < t => HasAsked(u)
    /\ Pc(t, "lock5")
    /\ UNCHANGED <<semVars, testlock_held, keep_testing, progress, lock_in_order, rounds, aborted>>

Turn(t) ==
    /\ Runs(t, "turn")
    /\ lock_in_order' = (lock_in_order /\ t = progress)
    /\ progress' = progress + 1
    /\ Pc(t, "unlock5")
    /\ UNCHANGED <<semVars, testlock_held, keep_testing, rounds, aborted>>

Tester(t) == UNCHANGED <<lock_type, nr_testers>> /\ (
    \/ Loop(t)
    \/ Lock(t, "lock", "enter")
    \/ Mark(t, "enter", 0, 1, "leave")
    \/ Mark(t, "leave", 1, 0, "unlock")
    \/ UnlockStep(t, "unlock", "loop")
    \/ Nap(t)
    \/ Lock(t, "lock5", "turn")
    \/ Turn(t)
    \/ UnlockStep(t, "unlock5", "barrier3"))

(***************************************************************************)
(* test_lock.                                                              *)
(***************************************************************************)
Spawned == 0..nr_testers - 1

SpawnTesters ==
    /\ Runs(Main, "spawn")
    /\ pc' = [t \in Threads |-> IF t \in Spawned \cup {Main} THEN "barrier1" ELSE pc[t]]
    /\ UNCHANGED <<semVars, testlock_held, keep_testing, progress, lock_in_order, rounds, aborted>>

Release1 ==     \* tester.c:173-175, the assertion before the release
    /\ Runs(Main, "check")
    /\ Assert(testlock_held = 0)
    /\ Pc(Main, "unlock1")
    /\ UNCHANGED <<semVars, testlock_held, keep_testing, progress, lock_in_order, rounds>>

NextRound ==
    /\ Runs(Main, "round")
    /\ rounds' = rounds - 1
    /\ Pc(Main, IF rounds > 1 THEN "lock3" ELSE "lock4")
    /\ UNCHANGED <<semVars, testlock_held, keep_testing, progress, lock_in_order, aborted>>

StopTesting ==
    /\ Runs(Main, "stop")
    /\ keep_testing' = FALSE
    /\ Pc(Main, "barrier2")
    /\ UNCHANGED <<semVars, testlock_held, progress, lock_in_order, rounds, aborted>>

Verdict ==
    /\ Runs(Main, "join")
    /\ \A t \in Spawned : pc[t] = "exited"
    /\ Assert(testlock_held = 0 /\ (lock_type = "spinlock" \/ lock_in_order))
    /\ Pc(Main, "exited")
    /\ UNCHANGED <<semVars, testlock_held, keep_testing, progress, lock_in_order, rounds>>

MainStep == UNCHANGED <<lock_type, nr_testers>> /\ (
    \/ Lock(Main, "lock1", "mark")
    \/ Mark(Main, "mark", 0, 1, "spawn")
    \/ SpawnTesters
    \/ Mark(Main, "unmark", 1, 0, "check")
    \/ Release1
    \/ UnlockStep(Main, "unlock1", "lock3")
    \/ Lock(Main, "lock3", "unlock3")
    \/ UnlockStep(Main, "unlock3", "round")
    \/ NextRound
    \/ Lock(Main, "lock4", "unlock4")
    \/ UnlockStep(Main, "unlock4", "stop")
    \/ StopTesting
    \/ Verdict)

AfterBarrier(t) ==
    CASE pc[t] = "barrier1" -> IF t = Main THEN "unmark" ELSE "loop"
      [] pc[t] = "barrier2" -> IF t = Main THEN "barrier3" ELSE "nap"
      [] pc[t] = "barrier3" -> IF t = Main THEN "join" ELSE "exited"

Barrier ==
    LET waiting == {t \in Threads :
                      pc[t] \in {"barrier1", "barrier2", "barrier3"} /\ lpc[t] = "out"}
    IN  /\ ~aborted /\ ~killed
        /\ Cardinality(waiting) = nr_testers + 1
        /\ UNCHANGED <<lock_type, nr_testers>>
        /\ pc' = [t \in Threads |-> IF t \in waiting THEN AfterBarrier(t) ELSE pc[t]]
        /\ UNCHANGED <<semVars, testlock_held, keep_testing, progress, lock_in_order, rounds, aborted>>

Library(t) == ~aborted /\ LibStep(t) /\ UNCHANGED testVars

Finished == pc[Main] = "exited" /\ UNCHANGED vars

TestNext ==
    \/ \E t \in Testers : Tester(t)
    \/ MainStep
    \/ Barrier
    \/ \E t \in Threads : Library(t)
    \/ Finished

TestSpec == TestInit /\ [][TestNext]_vars

(* Every runnable thread runs.  Weak fairness only: until keep_testing is  *)
(* cleared, main competes for the lock's word with testers that come back  *)
(* again and again, and nothing in the code gives it its turn.             *)
Fairness ==
    /\ \A t \in Testers : WF_vars(Tester(t))
    /\ WF_vars(MainStep) /\ WF_vars(Barrier)
    /\ \A t \in Threads : WF_vars(Library(t))

FairSpec == TestSpec /\ Fairness
-----------------------------------------------------------------------------
(* The type of the state. *)
TestTypeOK ==
    /\ TypeOK
    /\ pc \in [Threads -> {"unborn", "loop", "lock", "enter", "leave", "unlock", "nap",
                           "lock5", "turn", "unlock5", "barrier1", "barrier2", "barrier3",
                           "exited", "lock1", "mark", "spawn", "unmark", "check",
                           "unlock1", "lock3", "unlock3", "round", "lock4", "unlock4",
                           "stop", "join"}]
    /\ testlock_held \in {0, 1}
    /\ keep_testing \in BOOLEAN /\ lock_in_order \in BOOLEAN /\ aborted \in BOOLEAN
    /\ nr_testers \in 1..NrTesters
    /\ progress \in 0..nr_testers
    /\ lock_type \in LockTypes
    /\ rounds \in 0..NrRounds

(* No assertion of tester.c fails: the lock is exclusive (93, 99, 163,     *)
(* 171, 174, 227) and, if it is a mutex whose waiters came in order,       *)
(* granted in order (231).                                                 *)
AssertionsHold == ~aborted

(* Once main stops the torture, the test comes to its verdict: no tester   *)
(* sleeps through it ("Will be blocked indefinitely if a race condition    *)
(* happens", tester.c:192-195) and the barriers pair up.                   *)
ComesToAVerdict == ~keep_testing ~> pc[Main] = "exited"
=============================================================================
