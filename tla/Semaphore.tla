------------------------------ MODULE Semaphore ------------------------------
(***************************************************************************)
(* The blocking mutex of sce213-pa3-2020s/pa3.c, which is also the         *)
(* counting semaphore of its ring buffer: struct mutex (pa3.c:90-97),      *)
(* acquire_mutex (137-153) and release_mutex (166-183), called by any      *)
(* thread on any mutex at any time.                                        *)
(*                                                                         *)
(* Each access to memory that other threads share, and each system call,   *)
(* is a step of its own; lpc[t] names the statement thread t executes      *)
(* next inside the library and is "out" when t runs the code of its        *)
(* caller.  The caller is another module: Next below lets it do whatever   *)
(* it wants, MutexUse, RingBuffer and LockTester say what it really does.  *)
(***************************************************************************)
EXTENDS Integers, Sequences, FiniteSets

CONSTANTS
    Threads,    \* the threads of the process
    Sems,       \* the instances of struct mutex
    Permits,    \* Permits[m]: the value of S once m is set up
    NoThread,   \* "gthread is not set"
    NoSem       \* "not inside acquire_mutex or release_mutex"

ASSUME SemaphoreAssumption ==
    /\ IsFiniteSet(Threads)
    /\ Permits \in [Sems -> Nat]
    /\ NoThread \notin Threads
    /\ NoSem \notin Sems

VARIABLES
    S,          \* mutex->S
    hold,       \* mutex->hold, the word the compare-and-swap spins on
    queue,      \* mutex->queue: the threads whose stack nodes it links
    masked,     \* the threads that block SIGUSR2
    pending,    \* the threads with a SIGUSR2 sent and not consumed
    killed,     \* a SIGUSR2 reached a thread that does not block it
    lpc,        \* the next statement of each thread in the library
    sem,        \* the argument of the call each thread is in
    gthread     \* release_mutex's local variable

semVars == <<S, hold, queue, masked, pending, killed, lpc, sem, gthread>>

AcqLabels == {"acqCas", "acqDec", "acqFree", "acqAdd", "acqMask", "acqDrop", "acqWait"}
RelLabels == {"relCas", "relInc", "relFree", "relPop", "relDrop", "relKill"}

Init ==
    /\ S = Permits
    /\ hold = [m \in Sems |-> 0]
    /\ queue = [m \in Sems |-> <<>>]
    /\ masked = {}
    /\ pending = {}
    /\ killed = FALSE
    /\ lpc = [t \in Threads |-> "out"]
    /\ sem = [t \in Threads |-> NoSem]
    /\ gthread = [t \in Threads |-> NoThread]

(***************************************************************************)
(* Steps of the control: a killed process takes none.                      *)
(***************************************************************************)
At(t, label) == ~killed /\ lpc[t] = label

Goto(t, label) ==
    /\ lpc' = [lpc EXCEPT ![t] = label]
    /\ sem' = sem

Return(t) ==
    /\ lpc' = [lpc EXCEPT ![t] = "out"]
    /\ sem' = [sem EXCEPT ![t] = NoSem]

(* Bug variant: the word is set without looking at it.                     *)
CompareAndSwapBlind(m) == hold' = [hold EXCEPT ![m] = 1]

(* compare_and_swap(&mutex->hold, 0, 1): the spin loop repeats it, without *)
(* effect, until it finds 0 and stores 1 in one indivisible step.          *)
CompareAndSwap(m) ==
    /\ hold[m] = 0
    /\ hold' = [hold EXCEPT ![m] = 1]

Unlock(m) == hold' = [hold EXCEPT ![m] = 0]

(***************************************************************************)
(* acquire_mutex.  S is only ever accessed between the compare-and-swap    *)
(* and the store of 0 to hold (HoldIsALock checks that this region is      *)
(* exclusive), so the decrement and the test that follows it are one step. *)
(***************************************************************************)
CallAcquire(t, m) ==
    /\ At(t, "out")
    /\ lpc' = [lpc EXCEPT ![t] = "acqCas"]
    /\ sem' = [sem EXCEPT ![t] = m]
    /\ UNCHANGED <<S, hold, queue, masked, pending, killed, gthread>>

AcqCas(t) ==
    /\ At(t, "acqCas")
    /\ CompareAndSwap(sem[t])
    /\ Goto(t, "acqDec")
    /\ UNCHANGED <<S, queue, masked, pending, killed, gthread>>

(* Bug variant: the test is made on the value before the decrement.        *)
AcqDecTestsOldValue(t) ==
    /\ At(t, "acqDec")
    /\ S' = [S EXCEPT ![sem[t]] = @ - 1]
    /\ Goto(t, IF S[sem[t]] < 0 THEN "acqAdd" ELSE "acqFree")
    /\ UNCHANGED <<hold, queue, masked, pending, killed, gthread>>

AcqDec(t) ==
    /\ At(t, "acqDec")
    /\ S' = [S EXCEPT ![sem[t]] = @ - 1]
    /\ Goto(t, IF S[sem[t]] - 1 < 0 THEN "acqAdd" ELSE "acqFree")
    /\ UNCHANGED <<hold, queue, masked, pending, killed, gthread>>

AcqFree(t) ==
    /\ At(t, "acqFree")
    /\ Unlock(sem[t])
    /\ Return(t)
    /\ UNCHANGED <<S, queue, masked, pending, killed, gthread>>

(* Bug variant: list_add in the place of list_add_tail.                    *)
AcqAddAtHead(t) ==
    /\ At(t, "acqAdd")
    /\ queue' = [queue EXCEPT ![sem[t]] = <<t>> \o @]
    /\ Goto(t, "acqMask")
    /\ UNCHANGED <<S, hold, masked, pending, killed, gthread>>

(* Bug variant: the word is given up before SIGUSR2 is blocked.            *)
AcqAddUnlocks(t) ==
    /\ At(t, "acqAdd")
    /\ queue' = [queue EXCEPT ![sem[t]] = Append(@, t)]
    /\ Unlock(sem[t])
    /\ Goto(t, "acqMask")
    /\ UNCHANGED <<S, masked, pending, killed, gthread>>

AcqAdd(t) ==
    /\ At(t, "acqAdd")
    /\ queue' = [queue EXCEPT ![sem[t]] = Append(@, t)]
    /\ Goto(t, "acqMask")
    /\ UNCHANGED <<S, hold, masked, pending, killed, gthread>>

(* Bug variant: SIGUSR2 is not blocked before the sleep.                   *)
AcqMaskForgotten(t) ==
    /\ At(t, "acqMask")
    /\ Goto(t, "acqDrop")
    /\ UNCHANGED <<S, hold, queue, masked, pending, killed, gthread>>

AcqMask(t) ==
    /\ At(t, "acqMask")
    /\ masked' = masked \cup {t}
    /\ Goto(t, "acqDrop")
    /\ UNCHANGED <<S, hold, queue, pending, killed, gthread>>

AcqDrop(t) ==
    /\ At(t, "acqDrop")
    /\ Unlock(sem[t])
    /\ Goto(t, "acqWait")
    /\ UNCHANGED <<S, queue, masked, pending, killed, gthread>>

(* sigwaitinfo returns when a SIGUSR2 is pending for the thread, whoever   *)
(* sent it: the code looks neither at its result nor at the queue.         *)
AcqWait(t) ==
    /\ At(t, "acqWait")
    /\ t \in pending
    /\ pending' = pending \ {t}
    /\ Return(t)
    /\ UNCHANGED <<S, hold, queue, masked, killed, gthread>>

(***************************************************************************)
(* release_mutex.  With S <= 0 after the increment and an empty queue it   *)
(* would return without storing 0 to hold (pa3.c:173).                     *)
(***************************************************************************)
CallRelease(t, m) ==
    /\ At(t, "out")
    /\ lpc' = [lpc EXCEPT ![t] = "relCas"]
    /\ sem' = [sem EXCEPT ![t] = m]
    /\ UNCHANGED <<S, hold, queue, masked, pending, killed, gthread>>

RelCas(t) ==
    /\ At(t, "relCas")
    /\ CompareAndSwap(sem[t])
    /\ Goto(t, "relInc")
    /\ UNCHANGED <<S, queue, masked, pending, killed, gthread>>

(* Bug variant: < in the place of <= (pa3.c:171).                          *)
RelIncOffByOne(t) ==
    /\ At(t, "relInc")
    /\ S' = [S EXCEPT ![sem[t]] = @ + 1]
    /\ Goto(t, IF S[sem[t]] + 1 < 0 THEN "relPop" ELSE "relFree")
    /\ UNCHANGED <<hold, queue, masked, pending, killed, gthread>>

RelInc(t) ==
    /\ At(t, "relInc")
    /\ S' = [S EXCEPT ![sem[t]] = @ + 1]
    /\ Goto(t, IF S[sem[t]] + 1 <= 0 THEN "relPop" ELSE "relFree")
    /\ UNCHANGED <<hold, queue, masked, pending, killed, gthread>>

RelFree(t) ==
    /\ At(t, "relFree")
    /\ Unlock(sem[t])
    /\ Return(t)
    /\ UNCHANGED <<S, queue, masked, pending, killed, gthread>>

(* Bug variant: the first node is read and not unlinked.                   *)
RelPopKeepsNode(t) ==
    /\ At(t, "relPop")
    /\ IF queue[sem[t]] # <<>>
       THEN gthread' = [gthread EXCEPT ![t] = Head(queue[sem[t]])] /\ Goto(t, "relDrop")
       ELSE gthread' = gthread /\ Return(t)
    /\ UNCHANGED <<S, hold, queue, masked, pending, killed>>

RelPop(t) ==
    /\ At(t, "relPop")
    /\ IF queue[sem[t]] # <<>>
       THEN /\ gthread' = [gthread EXCEPT ![t] = Head(queue[sem[t]])]
            /\ queue' = [queue EXCEPT ![sem[t]] = Tail(@)]
            /\ Goto(t, "relDrop")
       ELSE Return(t) /\ UNCHANGED <<gthread, queue>>
    /\ UNCHANGED <<S, hold, masked, pending, killed>>

(* Bug variant: the store of 0 to hold is missing.                         *)
RelDropForgotten(t) ==
    /\ At(t, "relDrop")
    /\ Goto(t, "relKill")
    /\ UNCHANGED <<S, hold, queue, masked, pending, killed, gthread>>

RelDrop(t) ==
    /\ At(t, "relDrop")
    /\ Unlock(sem[t])
    /\ Goto(t, "relKill")
    /\ UNCHANGED <<S, queue, masked, pending, killed, gthread>>

(* pthread_kill: a thread that blocks SIGUSR2 finds it pending; the        *)
(* default action for a thread that does not is to end the process.        *)
RelKill(t) ==
    /\ At(t, "relKill")
    /\ IF gthread[t] \in masked
       THEN pending' = pending \cup {gthread[t]} /\ killed' = killed
       ELSE pending' = pending /\ killed' = TRUE
    /\ gthread' = [gthread EXCEPT ![t] = NoThread]
    /\ Return(t)
    /\ UNCHANGED <<S, hold, queue, masked>>

(***************************************************************************)
(* What a thread does by itself once a call is under way, and the library  *)
(* under a caller that acquires and releases as it likes.                  *)
(***************************************************************************)
AcqStep(t) ==
    \/ AcqCas(t)  \/ AcqDec(t)  \/ AcqFree(t) \/ AcqAdd(t)
    \/ AcqMask(t) \/ AcqDrop(t) \/ AcqWait(t)

RelStep(t) ==
    \/ RelCas(t) \/ RelInc(t) \/ RelFree(t)
    \/ RelPop(t) \/ RelDrop(t) \/ RelKill(t)

LibStep(t) == AcqStep(t) \/ RelStep(t)

Next ==
    \E t \in Threads :
        \/ \E m \in Sems : CallAcquire(t, m) \/ CallRelease(t, m)
        \/ LibStep(t)

Spec == Init /\ [][Next]_semVars
-----------------------------------------------------------------------------
(***************************************************************************)
(* Correctness, for every caller.                                          *)
(***************************************************************************)

(* The type of the state. *)
TypeOK ==
    /\ S \in [Sems -> Int]
    /\ hold \in [Sems -> {0, 1}]
    /\ queue \in [Sems -> Seq(Threads)]
    /\ masked \subseteq Threads
    /\ pending \subseteq Threads
    /\ killed \in BOOLEAN
    /\ lpc \in [Threads -> {"out"} \cup AcqLabels \cup RelLabels]
    /\ sem \in [Threads -> Sems \cup {NoSem}]
    /\ gthread \in [Threads -> Threads \cup {NoThread}]

(* The statements between the compare-and-swap and the store of 0. *)
LockedLabels ==
    {"acqDec", "acqFree", "acqAdd", "acqMask", "acqDrop",
     "relInc", "relFree", "relPop", "relDrop"}

Locked(m) == {t \in Threads : sem[t] = m /\ lpc[t] \in LockedLabels}

InQueue(t, m) == \E i \in 1..Len(queue[m]) : queue[m][i] = t

(* hold is 1 exactly while one thread is between its compare-and-swap and  *)
(* its store of 0: S and queue are never touched by two threads at once,   *)
(* and no path (pa3.c:173 has one) leaves the word set behind it.          *)
HoldIsALock == \A m \in Sems : hold[m] = Cardinality(Locked(m))

Queued(t) == \E m \in Sems : InQueue(t, m)

Popped(t) == \E r \in Threads : gthread[r] = t

(* A thread asleep in sigwaitinfo has exactly one wake-up coming: its node *)
(* is still queued, or one releaser has popped it and not yet sent the     *)
(* signal, or the signal is pending.  pa3.c:146-149 gives up hold before   *)
(* it sleeps, so the wake-up may well be sent before the sleep begins.     *)
WakeUpComesOnce ==
    \A t \in Threads : lpc[t] = "acqWait" =>
        /\ Queued(t) \/ Popped(t) \/ t \in pending
        /\ ~(Queued(t) /\ Popped(t))
        /\ ~(t \in pending /\ (Queued(t) \/ Popped(t)))
        /\ \A r1, r2 \in Threads : gthread[r1] = t /\ gthread[r2] = t => r1 = r2

(* No SIGUSR2 is left over for a later call: all instances share the one   *)
(* signal, and a stale one would end the sleep of a thread that has not    *)
(* been granted anything.  None ends the process either.                   *)
SignalsWakeSleepers ==
    /\ ~killed
    /\ \A t \in pending : lpc[t] = "acqWait"

(* release_mutex keeps a pointer into the stack frame of the waiter and    *)
(* follows it after the store to hold (pa3.c:175-178): the waiter is still *)
(* in that frame.                                                          *)
GthreadIsInItsFrame ==
    \A r \in Threads : gthread[r] # NoThread => lpc[gthread[r]] = "acqWait"

Adding(m) == \E t \in Threads : sem[t] = m /\ lpc[t] = "acqAdd"

Popping(m) == \E t \in Threads : sem[t] = m /\ lpc[t] = "relPop"

Unserved(m) ==
    IF Adding(m) THEN -S[m] - 1
    ELSE IF Popping(m) THEN 1 - S[m]
    ELSE IF S[m] < 0 THEN -S[m] ELSE 0

(* A negative S counts the queue: a releaser that finds S <= 0 always      *)
(* finds somebody to wake.  A thread about to link itself is counted by S  *)
(* already, one about to be unlinked is no longer.                         *)
NegativeSCountsQueue ==
    \A m \in Sems : Len(queue[m]) = Unserved(m)

(***************************************************************************)
(* What the library promises: a first-come, first-served counting          *)
(* semaphore.  acquire takes effect at its decrement of S, release at its  *)
(* increment, which hands the permit to the head of the queue.             *)
(***************************************************************************)
Adders(m) == {t \in Threads : sem[t] = m /\ lpc[t] = "acqAdd"}
Poppers(m) == {t \in Threads : sem[t] = m /\ lpc[t] = "relPop"}
TheOne(T) == CHOOSE t \in T : TRUE

FifoWaiters(m) ==
    IF Adders(m) # {} THEN Append(queue[m], TheOne(Adders(m)))
    ELSE IF Poppers(m) # {} THEN Tail(queue[m])
    ELSE queue[m]

InLine(t) == \E i \in 1..Len(FifoWaiters(sem[t])) : FifoWaiters(sem[t])[i] = t

FifoOp(t) ==
    CASE lpc[t] = "out" -> "idle"
      [] lpc[t] \in {"acqCas", "acqDec"} -> "acquire"
      [] lpc[t] \in {"relCas", "relInc"} -> "release"
      [] lpc[t] \in {"acqAdd", "acqMask", "acqDrop", "acqWait"} ->
             IF InLine(t) THEN "waiting" ELSE "done"
      [] OTHER -> "done"

FifoFree(m) == IF S[m] > 0 THEN S[m] ELSE 0

Fifo == INSTANCE FifoSemaphore WITH
            free    <- [m \in Sems |-> FifoFree(m)],
            waiters <- [m \in Sems |-> FifoWaiters(m)],
            op      <- [t \in Threads |-> FifoOp(t)],
            target  <- sem

FifoSpec == Fifo!Spec
-----------------------------------------------------------------------------
(***************************************************************************)
(* The inductive invariant behind the properties above.                    *)
(***************************************************************************)

(* A thread has an argument exactly while it is in a call.                 *)
ArgInv == \A t \in Threads : sem[t] = NoSem <=> lpc[t] = "out"

(* HoldIsALock without counting.                                           *)
LockInv ==
    \A m \in Sems :
        /\ \A t, u \in Locked(m) : t = u
        /\ hold[m] = 1 <=> Locked(m) # {}

(* Whoever is queued waits for that instance and has no signal coming.     *)
QueueInv ==
    \A m \in Sems :
        /\ \A k \in 1..Len(queue[m]) :
               /\ sem[queue[m][k]] = m
               /\ lpc[queue[m][k]] \in {"acqMask", "acqDrop", "acqWait"}
               /\ queue[m][k] \notin pending
        /\ \A k, l \in 1..Len(queue[m]) : queue[m][k] = queue[m][l] => k = l

(* Whoever a releaser has popped is asleep, off the queue, and popped by   *)
(* no other releaser.                                                      *)
PoppedInv ==
    \A r \in Threads :
        /\ gthread[r] # NoThread <=> lpc[r] \in {"relDrop", "relKill"}
        /\ gthread[r] # NoThread =>
              /\ lpc[gthread[r]] = "acqWait"
              /\ gthread[r] \notin pending
              /\ ~InQueue(gthread[r], sem[gthread[r]])
              /\ \A u \in Threads : gthread[u] = gthread[r] => u = r

SignalInv ==
    /\ ~killed
    /\ \A t \in pending : lpc[t] = "acqWait"
    /\ \A t \in Threads : lpc[t] \in {"acqDrop", "acqWait"} => t \in masked

(* Nobody is forgotten.                                                    *)
WaitInv ==
    \A t \in Threads : lpc[t] \in {"acqMask", "acqDrop", "acqWait"} =>
        InQueue(t, sem[t]) \/ Popped(t) \/ t \in pending

(* What the branch a thread took says of S.                                *)
BranchInv ==
    \A t \in Threads :
        /\ lpc[t] = "acqAdd" => S[sem[t]] < 0
        /\ lpc[t] = "relPop" => S[sem[t]] <= 0

IInv ==
    /\ TypeOK /\ ArgInv /\ LockInv /\ QueueInv /\ PoppedInv
    /\ SignalInv /\ WaitInv /\ BranchInv /\ NegativeSCountsQueue
=============================================================================
