----------------------------- MODULE RingBuffer -----------------------------
(***************************************************************************)
(* "./lock -r": the ring buffer of pa3.c (190-280) between the generator   *)
(* threads (generator.c), the counter thread (counter.c) and the main      *)
(* thread that starts them, collects their statistics and compares them    *)
(* (main.c:211-266).                                                       *)
(*                                                                         *)
(* The three struct mutex of the ring buffer are the semaphores "sema"     *)
(* (free slots), "empty" (filled slots) and "mutex" (the indices).  A      *)
(* thread whose pc is a statement of this module executes it only when it  *)
(* is outside the library (lpc is "out"): a step that calls the library    *)
(* moves pc to the statement after the call.                               *)
(***************************************************************************)
EXTENDS Semaphore, FiniteSetsExt

CONSTANTS
    Generators, \* the generator threads
    Counter,    \* the counter thread
    Main,       \* the main thread
    N,          \* the number of slots, -s
    NrGenerate, \* the requests of each generator, -n
    Values,     \* the numbers a generator may generate
    NoValue,    \* the contents of memory malloc returned
    Verbose     \* -v and -q

ASSUME RingBufferAssumption ==
    /\ Threads = Generators \cup {Counter, Main}
    /\ Generators # {} /\ IsFiniteSet(Generators)
    /\ Counter \notin Generators /\ Main \notin Generators \cup {Counter}
    /\ Sems = {"sema", "mutex", "empty"}
    /\ N \in Nat \ {0}              \* main.c:76
    /\ NrGenerate \in Nat \ {0}     \* generator.c:108
    /\ NoValue \notin Values
    /\ IsFiniteSet(Values)           \* generator.c:41
    /\ Verbose \in BOOLEAN
    \* init_ringbuffer: init_mutex three times, then sema.S and empty.S
    /\ Permits = [m \in Sems |-> CASE m = "sema" -> N
                                   [] m = "empty" -> 0
                                   [] OTHER -> 1]

VARIABLES
    slots, in, out, \* struct ringbuffer
    pc,             \* the next statement of each thread in its own code
    i,              \* the loop counters of the generators and the counter
    value,          \* their local variables value
    generated,      \* generators[g].generated
    counted,        \* value_counter
    collected,      \* generated_values of main
    fault           \* the process died of an arithmetic exception

rbVars == <<slots, in, out, pc, i, value, generated, counted, collected, fault>>
vars == <<semVars, rbVars>>

Zero == [v \in Values |-> 0]

(* After init_ringbuffer and spawn_counter: main creates the generators    *)
(* one by one, and the counter runs already.                               *)
RBInit ==
    /\ Init
    /\ slots = [k \in 0..N-1 |-> NoValue]
    /\ in = 0
    /\ out = 0
    /\ pc = [t \in Threads |-> CASE t = Main -> "spawn"
                                 [] t = Counter -> "loop"
                                 [] OTHER -> "unborn"]
    /\ i = [t \in Threads |-> 0]
    /\ value = [t \in Threads |-> NoValue]
    /\ generated = [g \in Generators |-> Zero]
    /\ counted = Zero
    /\ collected = Zero
    /\ fault = FALSE

At2(t, label) == ~fault /\ pc[t] = label /\ At(t, "out")

Pc(t, label) == pc' = [pc EXCEPT ![t] = label]

(***************************************************************************)
(* enqueue_into_ringbuffer and dequeue_from_ringbuffer, statement by       *)
(* statement.                                                              *)
(***************************************************************************)
Wait(t, from, m, to) ==
    /\ At2(t, from)
    /\ CallAcquire(t, m)
    /\ Pc(t, to)
    /\ UNCHANGED <<slots, in, out, i, value, generated, counted, collected, fault>>

Post(t, from, m, to) ==
    /\ At2(t, from)
    /\ CallRelease(t, m)
    /\ Pc(t, to)
    /\ UNCHANGED <<slots, in, out, i, value, generated, counted, collected, fault>>

Store(t) ==
    /\ At2(t, "store")
    /\ slots' = [slots EXCEPT ![in] = value[t]]
    /\ Pc(t, "advanceIn")
    /\ UNCHANGED <<semVars, in, out, i, value, generated, counted, collected, fault>>

AdvanceIn(t) ==
    /\ At2(t, "advanceIn")
    /\ in' = (in + 1) % N
    /\ Pc(t, "putUnlock")
    /\ UNCHANGED <<semVars, slots, out, i, value, generated, counted, collected, fault>>

(* Bug variant: the wrong index is read.                                   *)
LoadAtIn(t) ==
    /\ At2(t, "load")
    /\ value' = [value EXCEPT ![t] = slots[in]]
    /\ Pc(t, "advanceOut")
    /\ UNCHANGED <<semVars, slots, in, out, i, generated, counted, collected, fault>>

Load(t) ==
    /\ At2(t, "load")
    /\ value' = [value EXCEPT ![t] = slots[out]]
    /\ Pc(t, "advanceOut")
    /\ UNCHANGED <<semVars, slots, in, out, i, generated, counted, collected, fault>>

AdvanceOut(t) ==
    /\ At2(t, "advanceOut")
    /\ out' = (out + 1) % N
    /\ Pc(t, "getUnlock")
    /\ UNCHANGED <<semVars, slots, in, i, value, generated, counted, collected, fault>>

(* Bug variant: the indices are locked before the free slot is waited for. *)
EnqueueLocksFirst(t) ==
    \/ Wait(t, "putWait", "mutex", "putLock")
    \/ Wait(t, "putLock", "sema", "store")
    \/ Store(t)
    \/ AdvanceIn(t)
    \/ Post(t, "putUnlock", "mutex", "putPost")
    \/ Post(t, "putPost", "empty", "account")

(* Bug variant: no free slot is waited for.                                *)
EnqueueOverruns(t) ==
    \/ Wait(t, "putWait", "mutex", "store")
    \/ Store(t)
    \/ AdvanceIn(t)
    \/ Post(t, "putUnlock", "mutex", "putPost")
    \/ Post(t, "putPost", "empty", "account")

Enqueue(t) ==
    \/ Wait(t, "putWait", "sema", "putLock")
    \/ Wait(t, "putLock", "mutex", "store")
    \/ Store(t)
    \/ AdvanceIn(t)
    \/ Post(t, "putUnlock", "mutex", "putPost")
    \/ Post(t, "putPost", "empty", "account")

Dequeue(t) ==
    \/ Wait(t, "getWait", "empty", "getLock")
    \/ Wait(t, "getLock", "mutex", "load")
    \/ Load(t)
    \/ AdvanceOut(t)
    \/ Post(t, "getUnlock", "mutex", "getPost")
    \/ Post(t, "getPost", "sema", "count")

(* "verbose && i && i % (nr >> 4) == 0": the remainder by 0 is fatal.      *)
ProgressReport(t, nr) ==
    fault' = (Verbose /\ i[t] # 0 /\ nr \div 16 = 0)

(***************************************************************************)
(* generator_main: NrGenerate times a number is drawn, enqueued and        *)
(* accounted for, between the first and the second barrier.                *)
(***************************************************************************)
Draw(g, v) ==
    /\ At2(g, "loop")
    /\ i[g] < NrGenerate
    /\ value' = [value EXCEPT ![g] = v]
    /\ Pc(g, "putWait")
    /\ UNCHANGED <<semVars, slots, in, out, i, generated, counted, collected, fault>>

Account(g) ==
    /\ At2(g, "account")
    /\ generated' = [generated EXCEPT ![g][value[g]] = @ + 1]
    /\ ProgressReport(g, NrGenerate)
    /\ i' = [i EXCEPT ![g] = @ + 1]
    /\ Pc(g, "loop")
    /\ UNCHANGED <<semVars, slots, in, out, value, counted, collected>>

EndLoop(g) ==
    /\ At2(g, "loop")
    /\ i[g] = NrGenerate
    /\ Pc(g, "barrier2")
    /\ UNCHANGED <<semVars, slots, in, out, i, value, generated, counted, collected, fault>>

Generate(g) ==
    \/ \E v \in Values : Draw(g, v)
    \/ Enqueue(g)
    \/ Account(g)
    \/ EndLoop(g)

(***************************************************************************)
(* counter_main.                                                           *)
(***************************************************************************)
NrRequests == NrGenerate * Cardinality(Generators)

Expect ==
    /\ At2(Counter, "loop")
    /\ Pc(Counter, IF i[Counter] < NrRequests THEN "getWait" ELSE "exited")
    /\ UNCHANGED <<semVars, slots, in, out, i, value, generated, counted, collected, fault>>

CountIt ==
    /\ At2(Counter, "count")
    /\ counted' = [counted EXCEPT ![value[Counter]] = @ + 1]
    /\ ProgressReport(Counter, NrRequests)
    /\ i' = [i EXCEPT ![Counter] = @ + 1]
    /\ Pc(Counter, "loop")
    /\ UNCHANGED <<semVars, slots, in, out, value, generated, collected>>

Count == Expect \/ Dequeue(Counter) \/ CountIt

(***************************************************************************)
(* main, and the barrier it shares with the generators.                    *)
(***************************************************************************)
Spawn(g) ==
    /\ At2(Main, "spawn")
    /\ pc[g] = "unborn"
    /\ Pc(g, "barrier1")
    /\ UNCHANGED <<semVars, slots, in, out, i, value, generated, counted, collected, fault>>

Spawned ==
    /\ At2(Main, "spawn")
    /\ \A g \in Generators : pc[g] # "unborn"
    /\ Pc(Main, "barrier1")
    /\ UNCHANGED <<semVars, slots, in, out, i, value, generated, counted, collected, fault>>

AfterBarrier(t) ==
    CASE pc[t] = "barrier1" -> IF t = Main THEN "barrier2" ELSE "loop"
      [] pc[t] = "barrier2" -> IF t = Main THEN "collect" ELSE "barrier3"
      [] pc[t] = "barrier3" -> IF t = Main THEN "joinGenerators" ELSE "exited"

(* pthread_barrier_wait: the barrier counts the threads that wait on it,   *)
(* whichever of their calls they wait in, and lets all of them go when     *)
(* they are nr_generators + 1.                                             *)
Barrier ==
    LET waiting == {t \in Threads : pc[t] \in {"barrier1", "barrier2", "barrier3"}}
    IN  /\ ~fault /\ ~killed
        /\ Cardinality(waiting) = Cardinality(Generators) + 1
        /\ pc' = [t \in Threads |-> IF t \in waiting THEN AfterBarrier(t) ELSE pc[t]]
        /\ UNCHANGED <<semVars, slots, in, out, i, value, generated, counted, collected, fault>>

Collect ==
    /\ At2(Main, "collect")
    /\ collected' = [v \in Values |->
                       collected[v] + MapThenSumSet(LAMBDA g : generated[g][v], Generators)]
    /\ Pc(Main, "barrier3")
    /\ UNCHANGED <<semVars, slots, in, out, i, value, generated, counted, fault>>

(* Bug variant: the threads are not waited for.                            *)
JoinForgotten(from, ts, to) ==
    /\ At2(Main, from)
    /\ Pc(Main, to)
    /\ UNCHANGED <<semVars, slots, in, out, i, value, generated, counted, collected, fault>>

Join(from, ts, to) ==
    /\ At2(Main, from)
    /\ \A t \in ts : pc[t] = "exited"
    /\ Pc(Main, to)
    /\ UNCHANGED <<semVars, slots, in, out, i, value, generated, counted, collected, fault>>

MainStep ==
    \/ \E g \in Generators : Spawn(g)
    \/ Spawned
    \/ Collect
    \/ Join("joinGenerators", Generators, "joinCounter")    \* frees generators
    \/ Join("joinCounter", {Counter}, "compare")
    \/ Join("compare", {}, "exited")                        \* frees the slots

Finished == pc[Main] = "exited" /\ UNCHANGED vars

Library(t) == ~fault /\ LibStep(t) /\ UNCHANGED rbVars

RBNext ==
    \/ \E g \in Generators : Generate(g)
    \/ Count
    \/ Barrier
    \/ MainStep
    \/ \E t \in Threads : Library(t)
    \/ Finished

RBSpec == RBInit /\ [][RBNext]_vars

(* The kernel runs every thread that can run.  No fairness is asked of the *)
(* compare-and-swap: there are finitely many calls to lose it to.          *)
Fairness ==
    /\ \A g \in Generators : WF_vars(Generate(g))
    /\ WF_vars(Count) /\ WF_vars(Barrier) /\ WF_vars(MainStep)
    /\ \A t \in Threads : WF_vars(Library(t))

FairSpec == RBSpec /\ Fairness
-----------------------------------------------------------------------------
(* The type of the state. *)
RBTypeOK ==
    /\ TypeOK
    /\ slots \in [0..N-1 -> Values \cup {NoValue}]
    /\ in \in 0..N-1 /\ out \in 0..N-1
    /\ pc \in [Threads -> {"unborn", "spawn", "loop", "exited",
                           "barrier1", "barrier2", "barrier3",
                           "putWait", "putLock", "store", "advanceIn", "putUnlock",
                           "putPost", "account",
                           "getWait", "getLock", "load", "advanceOut", "getUnlock",
                           "getPost", "count",
                           "collect", "joinGenerators", "joinCounter", "compare"}]
    /\ i \in [Threads -> 0..NrRequests]
    /\ value \in [Threads -> Values \cup {NoValue}]
    /\ generated \in [Generators -> [Values -> 0..NrGenerate]]
    /\ counted \in [Values -> 0..NrRequests]
    /\ collected \in [Values -> 0..NrRequests]
    /\ fault \in BOOLEAN

(* The indices and the slots are used by one thread at a time: the threads *)
(* between the two calls on ringbuffer.mutex are never two.                *)
IndicesAreLocked ==
    Cardinality({t \in Threads :
        /\ pc[t] \in {"store", "advanceIn", "putUnlock", "load", "advanceOut", "getUnlock"}
        /\ lpc[t] = "out"}) <= 1

(* Free and filled slots never add up to more than there are, and when the *)
(* program ends everything is back where it was: all slots free, nobody    *)
(* queued, every word released and both indices at the same slot.          *)
SlotsAreConserved ==
    /\ (IF S["sema"] > 0 THEN S["sema"] ELSE 0)
         + (IF S["empty"] > 0 THEN S["empty"] ELSE 0) <= N
    /\ pc[Main] = "exited" =>
         /\ S = Permits /\ in = out /\ in = NrRequests % N
         /\ \A m \in Sems : queue[m] = <<>> /\ hold[m] = 0

(* What main prints at the end (main.c:188-209): every number was counted  *)
(* as often as it was generated, and all requests were generated.  The     *)
(* generators' statistics were final when main read them.                  *)
ResultsMatch ==
    pc[Main] = "exited" =>
        /\ collected = counted
        /\ \A v \in Values :
               collected[v] = MapThenSumSet(LAMBDA g : generated[g][v], Generators)
        /\ MapThenSumSet(LAMBDA v : counted[v], Values) = NrRequests

(* No thread dies of a division by zero: main.c:91 offers "-n [number]:    *)
(* Generate @number requests per generator" for any number.                *)
NeverFaults == ~fault

(* The program ends: no request is lost, nobody waits for ever for a slot, *)
(* a value, a wake-up or a barrier.                                        *)
Terminates == <>(pc[Main] = "exited")

(***************************************************************************)
(* The ring buffer is a bounded queue.  A value is in it from the advance  *)
(* of in to the load of its slot.  A request is a generator and a round of *)
(* its loop: the rounds that are over, and the one under way for the       *)
(* generators of ts.                                                       *)
(***************************************************************************)
Requests(rounds, ts) ==
    {r \in Generators \X (0 .. NrGenerate - 1) :
        \/ r[2] < rounds[r[1]]
        \/ r[2] = rounds[r[1]] /\ r[1] \in ts}

Inserted ==
    Cardinality(Requests(i, {g \in Generators : pc[g] \in {"putUnlock", "putPost", "account"}}))

Taken ==
    i[Counter] + (IF pc[Counter] \in {"advanceOut", "getUnlock", "getPost", "count"}
                  THEN 1 ELSE 0)

BQ == INSTANCE BoundedQueue WITH
          buf  <- [k \in 1..(Inserted - Taken) |-> slots[(Taken + k - 1) % N]],
          last <- value[Counter]

QueueSpec == BQ!Spec
=============================================================================
