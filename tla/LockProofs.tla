----------------------------- MODULE LockProofs -----------------------------
(***************************************************************************)
(* No assertion of the lock tester fails over the locks that work, for any *)
(* number of testers and of rounds.  The mutex is only known as the first- *)
(* come, first-served semaphore that it implements (SemaphoreProofs): what *)
(* each thread is doing is FifoOp, who waits is TheLine.  The spinlock is  *)
(* such a semaphore too, on which nobody ever waits in line.               *)
(***************************************************************************)
EXTENDS LockDrafts, SemaphoreProofs

TheLine == FifoWaiters(Testlock)
Free == IF lock_type = "mutex" THEN FifoFree(Testlock) ELSE 1 - hold[Testlock]

(* The statements that follow a call of __lock, those that follow a call   *)
(* of __unlock, and those that run with the lock held.                     *)
Entered == {"enter", "turn", "mark", "unlock3", "unlock4"}
Left == {"loop", "barrier3", "lock3", "round", "stop"}
Critical ==
    {"enter", "leave", "unlock", "turn", "unlock5", "mark", "spawn", "unmark", "check",
     "unlock1", "unlock3", "unlock4"}

TesterLabels ==
    {"unborn", "loop", "lock", "enter", "leave", "unlock", "nap", "lock5", "turn", "unlock5",
     "barrier1", "barrier2", "barrier3", "exited"}
Torture ==
    {"unmark", "check", "unlock1", "lock3", "unlock3", "round", "lock4", "unlock4", "stop",
     "barrier2"}
MainLabels == {"lock1", "mark", "spawn", "barrier1", "barrier3", "join", "exited"} \cup Torture

TestTyped ==
    /\ pc \in [Threads -> TesterLabels \cup MainLabels]
    /\ testlock_held \in {0, 1}
    /\ lock_in_order \in BOOLEAN /\ aborted \in BOOLEAN
    /\ nr_testers \in 1 .. NrTesters
    /\ progress \in Nat
    /\ lock_type \in {"spinlock", "mutex"}

LibraryInv ==
    IF lock_type = "mutex" THEN IInv
    ELSE /\ hold \in [Sems -> {0, 1}]
         /\ ~killed
         /\ \A t \in Threads : lpc[t] = "out"

(* A thread in the library has called it from where it is.                 *)
CallsMatch ==
    \A t \in Threads : /\ lpc[t] \in AcqLabels => pc[t] \in Entered
                       /\ lpc[t] \in RelLabels => pc[t] \in Left

(* Where the testers are, by where main is: nobody misses a barrier.       *)
Stage(label) ==
    CASE label \in {"lock1", "mark", "spawn"} -> {"unborn"}
      [] label = "barrier1" -> {"barrier1"}
      [] label \in Torture -> {"loop", "lock", "enter", "leave", "unlock", "barrier2"}
      [] label = "barrier3" -> {"nap", "lock5", "turn", "unlock5", "barrier3"}
      [] OTHER -> {"exited"}

Phases ==
    /\ pc[Main] \in MainLabels
    /\ \A t \in Testers : pc[t] \in IF t \in Spawned THEN Stage(pc[Main]) ELSE {"unborn"}

(* The lock is one thread's, from the moment it is granted to the one in   *)
(* which the release takes effect.                                         *)
Holds(t) ==
    \/ pc[t] \in Critical /\ FifoOp(t) \in {"idle", "done"}
    \/ t = Main /\ pc[t] = "barrier1"
    \/ FifoOp(t) = "release"

Exclusion ==
    /\ Free \in {0, 1}
    /\ Free = 1 => \A t \in Threads : ~Holds(t) /\ FifoOp(t) # "waiting"
    /\ Free = 0 => \E t \in Threads : Holds(t)
    /\ \A t, u \in Threads : Holds(t) /\ Holds(u) => t = u

Marked(t) == pc[t] = "leave" \/ (t = Main /\ pc[t] \in {"spawn", "barrier1", "unmark"})
Marks == testlock_held = 1 <=> \E t \in Threads : Marked(t)

(* The last assertion is the only one that may fail.                       *)
Verdicts == aborted => lock_type = "mutex" /\ ~lock_in_order

(* Under punctual sleeps the testers ask, wait and get in by their ids.    *)
Asked(t) == pc[t] \in {"turn", "unlock5", "barrier3", "exited"} /\ FifoOp(t) # "acquire"

InTurn ==
    /\ progress \in 0 .. nr_testers
    /\ \A t \in Spawned : pc[t] \in {"unlock5", "barrier3", "exited"} <=> t < progress
    /\ \A t, u \in Spawned : u < t /\ pc[t] # "nap" => Asked(u)
    /\ \A k, l \in 1 .. Len(TheLine) : k < l => TheLine[k] < TheLine[l]
    /\ \A t \in Spawned : pc[t] = "turn" /\ FifoOp(t) \in {"idle", "done"} => t = progress

InLastTest == pc[Main] \in {"barrier3", "join", "exited"}

Order ==
    /\ lock_in_order
    /\ ~InLastTest => progress = 0
    /\ InLastTest => InTurn

Core == TestTyped /\ LibraryInv /\ CallsMatch /\ Phases /\ Exclusion /\ Marks

PassInv ==
    /\ Core /\ Verdicts
    /\ Punctual /\ lock_type = "mutex" => Order

DraftsInv == Works => PassInv

-----------------------------------------------------------------------------
(* The library, as the tester knows it.                                    *)

LEMMA ThreadFacts ==
    /\ Sems = {Testlock} /\ Testlock # NoSem /\ Permits[Testlock] = 1
    /\ Main \in Threads /\ Main \notin Testers /\ Testers \subseteq Threads
    /\ \A t \in Threads : t \in Testers \/ t = Main
    /\ \A t \in Testers : t \in Nat
    /\ NrTesters \in Nat /\ NrTesters >= 1
BY LockTesterAssumption, SemaphoreAssumption DEF Testers

LEMMA OpOfLabel ==
    ASSUME NEW t
    PROVE  /\ FifoOp(t) = "idle" <=> lpc[t] = "out"
           /\ FifoOp(t) = "acquire" <=> lpc[t] \in {"acqCas", "acqDec"}
           /\ FifoOp(t) = "release" <=> lpc[t] \in {"relCas", "relInc"}
           /\ FifoOp(t) \in {"idle", "acquire", "release", "waiting", "done"}
           /\ FifoOp(t) = "waiting" <=>
                 lpc[t] \in {"acqAdd", "acqMask", "acqDrop", "acqWait"} /\ InLine(t)
BY DEF FifoOp

(* Who waits is in line.                                                   *)
LEMMA WaitersAreInLine ==
    ASSUME IInv
    PROVE  /\ TheLine \in Seq(Threads)
           /\ \A t \in Threads : FifoOp(t) = "waiting" <=>
                 \E k \in 1 .. Len(TheLine) : TheLine[k] = t
<1> DEFINE q == queue[Testlock]
<1>0. Testlock \in Sems /\ \A m \in Sems : m = Testlock
  BY ThreadFacts
<1>1. /\ q \in Seq(Threads)
      /\ \A k \in 1 .. Len(q) : /\ q[k] \in Threads
                                /\ lpc[q[k]] \in {"acqMask", "acqDrop", "acqWait"}
  BY <1>0 DEF IInv, TypeOK, QueueInv
<1>2. /\ TheLine \in Seq(Threads)
      /\ \A k \in 1 .. Len(TheLine) :
            /\ TheLine[k] \in Threads
            /\ lpc[TheLine[k]] \in {"acqAdd", "acqMask", "acqDrop", "acqWait"}
  <2>1. CASE Adders(Testlock) # {}
    <3>1. PICK u \in Threads : sem[u] = Testlock /\ lpc[u] = "acqAdd"
      BY <2>1 DEF Adders
    <3>2. TheLine = Append(q, u)
      BY <3>1, AdderIsInLine DEF TheLine
    <3> HIDE DEF q
    <3>3. /\ Append(q, u) \in Seq(Threads) /\ Len(Append(q, u)) = Len(q) + 1
          /\ \A k \in 1 .. Len(q) : Append(q, u)[k] = q[k]
          /\ Append(q, u)[Len(q) + 1] = u
      BY <1>1, AppendFacts
    <3>4. Len(q) \in Nat
      BY <1>1, LenProperties
    <3> QED
      BY <1>1, <3>1, <3>2, <3>3, <3>4
  <2>2. CASE Adders(Testlock) = {} /\ Poppers(Testlock) # {}
    <3>1. PICK u \in Threads : sem[u] = Testlock /\ lpc[u] = "relPop"
      BY <2>2 DEF Poppers
    <3>2. TheLine = Tail(q) /\ q # <<>>
      BY <3>1, PoppedIsOutOfLine, PoppersFindSomebody DEF TheLine
    <3> HIDE DEF q
    <3>3. /\ Tail(q) \in Seq(Threads) /\ Len(Tail(q)) = Len(q) - 1
          /\ \A k \in 1 .. Len(Tail(q)) : Tail(q)[k] = q[k + 1]
      BY <1>1, <3>2, TailFacts
    <3>4. Len(q) \in Nat
      BY <1>1, LenProperties
    <3> QED
      BY <1>1, <3>2, <3>3, <3>4
  <2>3. CASE Adders(Testlock) = {} /\ Poppers(Testlock) = {}
    <3>1. TheLine = q
      BY <2>3, LineIsQueue DEF TheLine
    <3> QED
      BY <1>1, <3>1
  <2> QED
    BY <2>1, <2>2, <2>3
<1>3. ASSUME NEW t \in Threads, lpc[t] \in {"acqAdd", "acqMask", "acqDrop", "acqWait"}
      PROVE  sem[t] = Testlock
  BY <1>0, <1>3 DEF IInv, ArgInv, TypeOK
<1> QED
  BY <1>2, <1>3, OpOfLabel DEF InLine, TheLine

-----------------------------------------------------------------------------
(* The moves of the semaphore, seen from its callers.                      *)
Steady(t) == \A u \in Threads \ {t} : FifoOp(u)' = FifoOp(u)

Takes(t) ==
    /\ FifoOp(t) = "acquire" /\ FifoOp(t)' = "done" /\ Steady(t)
    /\ Free > 0 /\ Free' = Free - 1 /\ TheLine' = TheLine

JoinsLine(t) ==
    /\ FifoOp(t) = "acquire" /\ FifoOp(t)' = "waiting" /\ Steady(t)
    /\ Free = 0 /\ Free' = Free /\ TheLine' = Append(TheLine, t)

GivesUp(t) ==
    /\ FifoOp(t) = "release" /\ FifoOp(t)' = "done" /\ Steady(t)
    /\ TheLine = <<>> /\ TheLine' = TheLine /\ Free' = Free + 1

HandsOver(t) ==
    /\ FifoOp(t) = "release" /\ FifoOp(t)' = "done"
    /\ TheLine # <<>> /\ TheLine' = Tail(TheLine) /\ Free' = Free
    /\ \E h \in Threads \ {t} :
          /\ h = TheLine[1] /\ FifoOp(h) = "waiting" /\ FifoOp(h)' = "done"
          /\ \A u \in Threads \ {t, h} : FifoOp(u)' = FifoOp(u)

Returns(t) ==
    /\ FifoOp(t) = "done" /\ FifoOp(t)' = "idle" /\ Steady(t)
    /\ Free' = Free /\ TheLine' = TheLine

Still ==
    /\ \A u \in Threads : FifoOp(u)' = FifoOp(u)
    /\ Free' = Free /\ TheLine' = TheLine

(* The first in line waits.                                                *)
LEMMA HeadWaits ==
    ASSUME IInv, TheLine # <<>>
    PROVE  /\ Head(TheLine) \in Threads /\ FifoOp(Head(TheLine)) = "waiting"
           /\ Head(TheLine) = TheLine[1]
<1>1. TheLine \in Seq(Threads)
  BY WaitersAreInLine
<1>2. Head(TheLine) = TheLine[1] /\ TheLine[1] \in Threads /\ 1 \in 1 .. Len(TheLine)
  BY <1>1, TailFacts
<1> QED
  BY <1>2, WaitersAreInLine

LEMMA LibraryMoves ==
    ASSUME IInv, lock_type = "mutex", UNCHANGED lock_type, NEW t \in Threads, LibStep(t)
    PROVE  Takes(t) \/ JoinsLine(t) \/ GivesUp(t) \/ HandsOver(t) \/ Returns(t) \/ Still
<1>0. Testlock \in Sems /\ Sems = {Testlock}
  BY ThreadFacts
<1>1. sem[t] = Testlock
  <2>1. lpc[t] # "out"
    BY DEF LibStep, AcqStep, RelStep, AcqCas, AcqDec, AcqFree, AcqAdd, AcqMask, AcqDrop, AcqWait,
           RelCas, RelInc, RelFree, RelPop, RelDrop, RelKill, At
  <2> QED
    BY <1>0, <2>1 DEF IInv, ArgInv, TypeOK
<1>2. /\ Frees[Testlock] = FifoFree(Testlock) /\ Line[Testlock] = TheLine
      /\ Frees'[Testlock] = FifoFree(Testlock)' /\ Line'[Testlock] = TheLine'
      /\ \A u \in Threads : Ops[u] = FifoOp(u) /\ Ops'[u] = FifoOp(u)'
      /\ Free = FifoFree(Testlock) /\ Free' = FifoFree(Testlock)'
  BY <1>0 DEF Frees, Line, Ops, TheLine, Free
<1>3. /\ Frees = [m \in Sems |-> Frees[m]] /\ Line = [m \in Sems |-> Line[m]]
      /\ Ops = [u \in Threads |-> Ops[u]]
  BY DEF Frees, Line, Ops
<1>4. CASE Fifo!Take(t)
  <2>1. /\ Ops[t] = "acquire" /\ Frees[Testlock] > 0 /\ Frees' = [Frees EXCEPT ![Testlock] = @ - 1]
        /\ Ops' = [Ops EXCEPT ![t] = "done"] /\ Line' = Line
    BY <1>1, <1>4 DEF Fifo!Take, Frees, Line, Ops
  <2> QED
    BY <1>0, <1>2, <1>3, <2>1 DEF Takes, Steady
<1>5. CASE Fifo!Queue(t)
  <2>1. /\ Ops[t] = "acquire" /\ Frees[Testlock] = 0 /\ Frees' = Frees
        /\ Ops' = [Ops EXCEPT ![t] = "waiting"] /\ Line' = [Line EXCEPT ![Testlock] = Append(@, t)]
    BY <1>1, <1>5 DEF Fifo!Queue, Frees, Line, Ops
  <2> QED
    BY <1>0, <1>2, <1>3, <2>1 DEF JoinsLine, Steady
<1>6. CASE Fifo!Free(t)
  <2>1. /\ Ops[t] = "release" /\ Line[Testlock] = <<>> /\ Frees' = [Frees EXCEPT ![Testlock] = @ + 1]
        /\ Ops' = [Ops EXCEPT ![t] = "done"] /\ Line' = Line
    BY <1>1, <1>6 DEF Fifo!Free, Frees, Line, Ops
  <2> QED
    BY <1>0, <1>2, <1>3, <2>1 DEF GivesUp, Steady
<1>7. CASE Fifo!HandOver(t)
  <2>1. /\ Ops[t] = "release" /\ Line[Testlock] # <<>> /\ Frees' = Frees
        /\ Ops' = [Ops EXCEPT ![t] = "done", ![Head(Line[Testlock])] = "done"]
        /\ Line' = [Line EXCEPT ![Testlock] = Tail(@)]
    BY <1>1, <1>7 DEF Fifo!HandOver, Frees, Line, Ops
  <2>2. TheLine # <<>>
    BY <1>2, <2>1
  <2>3. PICK h : h = Head(TheLine)
    OBVIOUS
  <2>4. h \in Threads /\ FifoOp(h) = "waiting" /\ h # t /\ h = TheLine[1]
    BY <1>2, <2>1, <2>2, <2>3, HeadWaits
  <2>5. Ops' = [Ops EXCEPT ![t] = "done", ![h] = "done"]
    BY <1>2, <2>1, <2>3
  <2>6. /\ Ops'[t] = "done" /\ Ops'[h] = "done"
        /\ \A u \in Threads \ {t, h} : Ops'[u] = Ops[u]
    BY <1>3, <2>4, <2>5
  <2>7. TheLine' = Tail(TheLine) /\ Free' = Free
    BY <1>0, <1>2, <1>3, <2>1
  <2>8. /\ FifoOp(t) = "release" /\ FifoOp(t)' = "done" /\ FifoOp(h)' = "done"
        /\ \A u \in Threads \ {t, h} : FifoOp(u)' = FifoOp(u)
    <3>1. FifoOp(t) = "release" /\ FifoOp(t)' = "done"
      BY <1>2, <2>1, <2>6
    <3>2. FifoOp(h)' = "done"
      BY <1>2, <2>4, <2>6
    <3>3. ASSUME NEW u \in Threads \ {t, h} PROVE FifoOp(u)' = FifoOp(u)
      BY <1>2, <2>6
    <3> QED
      BY <3>1, <3>2, <3>3
  <2> QED
    BY <2>2, <2>4, <2>7, <2>8 DEF HandsOver
<1>8. CASE Fifo!Return(t)
  <2>1. /\ Ops[t] = "done" /\ Frees' = Frees
        /\ Ops' = [Ops EXCEPT ![t] = "idle"] /\ Line' = Line
    BY <1>1, <1>8 DEF Fifo!Return, Frees, Line, Ops
  <2> QED
    BY <1>0, <1>2, <1>3, <2>1 DEF Returns, Steady
<1>9. CASE UNCHANGED Fifo!vars
  <2>1. Frees' = Frees /\ Ops' = Ops /\ Line' = Line
    BY <1>9 DEF Fifo!vars, Frees, Line, Ops
  <2> QED
    BY <1>2, <2>1 DEF Still
<1> QED
  BY <1>4, <1>5, <1>6, <1>7, <1>8, <1>9, LibStepRefines

(* A step outside the library and outside its calls.                       *)
LEMMA NothingMoves ==
    ASSUME UNCHANGED semVars, UNCHANGED lock_type
    PROVE  Still
<1> USE DEF semVars
<1>1. \A m : Adders(m)' = Adders(m) /\ Poppers(m)' = Poppers(m)
  BY DEF Adders, Poppers
<1>2. \A m : FifoWaiters(m)' = FifoWaiters(m)
  BY <1>1 DEF FifoWaiters
<1>3. \A t : InLine(t)' = InLine(t)
  BY <1>2 DEF InLine
<1>4. \A t \in Threads : FifoOp(t)' = FifoOp(t)
  BY <1>3 DEF FifoOp
<1> QED
  BY <1>2, <1>4 DEF Still, TheLine, Free, FifoFree

(* A call of the mutex.                                                    *)
LEMMA CallMoves ==
    ASSUME IInv, lock_type = "mutex", UNCHANGED lock_type, NEW t \in Threads,
           CallAcquire(t, Testlock) \/ CallRelease(t, Testlock)
    PROVE  /\ IInv'
           /\ FifoOp(t) = "idle" /\ Steady(t) /\ Free' = Free /\ TheLine' = TheLine
           /\ CallAcquire(t, Testlock) => FifoOp(t)' = "acquire"
           /\ CallRelease(t, Testlock) => FifoOp(t)' = "release"
<1> USE DEF CallAcquire, CallRelease, At
<1>0. TypeOK /\ Testlock \in Sems
  BY ThreadFacts DEF IInv
<1>1. IInv'
  BY <1>0, CallAcquireKeepsIInv, CallReleaseKeepsIInv
<1>2. /\ \A m : FifoWaiters(m)' = FifoWaiters(m)
      /\ \A u \in Threads \ {t} : FifoOp(u)' = FifoOp(u)
  BY <1>0, QuietStep DEF TypeOK
<1>3. FifoOp(t) = "idle"
  BY PlainOp
<1>4. /\ CallAcquire(t, Testlock) => FifoOp(t)' = "acquire"
      /\ CallRelease(t, Testlock) => FifoOp(t)' = "release"
  BY <1>0, NextPlainOp DEF TypeOK
<1>5. Free' = Free /\ TheLine' = TheLine
  BY <1>2 DEF Free, FifoFree, TheLine
<1> QED
  BY <1>1, <1>2, <1>3, <1>4, <1>5 DEF Steady

(* The spinlock under the same names.                                      *)
LEMMA SpinMoves ==
    ASSUME LibraryInv, lock_type = "spinlock", UNCHANGED lock_type, SpinAcquire \/ SpinRelease
    PROVE  /\ LibraryInv'
           /\ \A u \in Threads : FifoOp(u)' = FifoOp(u) /\ FifoOp(u) = "idle"
           /\ SpinAcquire => Free = 1 /\ Free' = 0
           /\ SpinRelease => Free' = 1
<1> USE DEF SpinAcquire, SpinRelease, CompareAndSwap, Unlock
<1>1. LibraryInv'
  BY DEF LibraryInv
<1>2. \A u \in Threads : FifoOp(u)' = FifoOp(u) /\ FifoOp(u) = "idle"
  BY PlainOp, NextPlainOp DEF LibraryInv
<1>3. (SpinAcquire => Free = 1 /\ Free' = 0) /\ (SpinRelease => Free' = 1)
  BY ThreadFacts DEF LibraryInv, Free
<1> QED
  BY <1>1, <1>2, <1>3

-----------------------------------------------------------------------------
(* What the tester's own code may do to one pc.                            *)
TesterArcs ==
    {<<"loop", "lock">>, <<"loop", "barrier2">>, <<"lock", "enter">>, <<"enter", "leave">>,
     <<"leave", "unlock">>, <<"unlock", "loop">>, <<"nap", "lock5">>, <<"lock5", "turn">>,
     <<"turn", "unlock5">>, <<"unlock5", "barrier3">>}
MainArcs ==
    {<<"lock1", "mark">>, <<"mark", "spawn">>, <<"unmark", "check">>, <<"check", "unlock1">>,
     <<"unlock1", "lock3">>, <<"lock3", "unlock3">>, <<"unlock3", "round">>, <<"round", "lock3">>,
     <<"round", "lock4">>, <<"lock4", "unlock4">>, <<"unlock4", "stop">>, <<"stop", "barrier2">>,
     <<"join", "exited">>}

Arc(t, from, to) ==
    /\ pc[t] = from /\ pc' = [pc EXCEPT ![t] = to]
    /\ \/ t \in Testers /\ <<from, to>> \in TesterArcs
       \/ t = Main /\ <<from, to>> \in MainArcs

LEMMA ArcFacts ==
    ASSUME NEW t \in Threads, NEW from, NEW to, Arc(t, from, to)
    PROVE  /\ t \in Testers => from \in TesterLabels /\ to \in TesterLabels
           /\ t = Main => from \in MainLabels /\ to \in MainLabels
<1>1. CASE t \in Testers
  <2>1. <<from, to>> \in TesterArcs /\ t # Main
    BY <1>1, ThreadFacts DEF Arc
  <2>2. from \in TesterLabels /\ to \in TesterLabels
    BY <2>1 DEF TesterArcs, TesterLabels
  <2> QED
    BY <2>1, <2>2
<1>2. CASE t = Main
  <2>1. <<from, to>> \in MainArcs /\ t \notin Testers
    BY <1>2, ThreadFacts DEF Arc
  <2>2. from \in MainLabels /\ to \in MainLabels
    BY <2>1 DEF MainArcs, MainLabels, Torture
  <2> QED
    BY <2>1, <2>2
<1> QED
  BY <1>1, <1>2, ThreadFacts

LEMMA StageFacts ==
    /\ \A l \in {"lock1", "mark", "spawn"} : Stage(l) = {"unborn"}
    /\ Stage("barrier1") = {"barrier1"}
    /\ \A l \in Torture : Stage(l) = {"loop", "lock", "enter", "leave", "unlock", "barrier2"}
    /\ Stage("barrier3") = {"nap", "lock5", "turn", "unlock5", "barrier3"}
    /\ \A l \in {"join", "exited"} : Stage(l) = {"exited"}
<1>1. \A l \in {"lock1", "mark", "spawn"} : Stage(l) = {"unborn"}
  BY DEF Stage, Torture
<1>2. Stage("barrier1") = {"barrier1"}
  BY DEF Stage, Torture
<1>3. \A l \in Torture : Stage(l) = {"loop", "lock", "enter", "leave", "unlock", "barrier2"}
  BY DEF Stage, Torture
<1>4. Stage("barrier3") = {"nap", "lock5", "turn", "unlock5", "barrier3"}
  BY DEF Stage, Torture
<1>5. \A l \in {"join", "exited"} : Stage(l) = {"exited"}
  BY DEF Stage, Torture
<1> QED
  BY <1>1, <1>2, <1>3, <1>4, <1>5

(* No arc leaves its phase.                                                *)
LEMMA ArcKeepsPhases ==
    ASSUME TestTyped, Phases, UNCHANGED nr_testers,
           NEW t \in Threads, NEW from, NEW to, Arc(t, from, to)
    PROVE  Phases' /\ Spawned' = Spawned /\ (InLastTest' <=> InLastTest)
<1>0. pc \in [Threads -> TesterLabels \cup MainLabels]
  BY DEF TestTyped
<1>1. Spawned' = Spawned
  BY DEF Spawned
<1>2. CASE t \in Testers
  <2>1. pc'[Main] = pc[Main] /\ (\A u \in Testers \ {t} : pc'[u] = pc[u]) /\ pc'[t] = to
    BY <1>0, <1>2, ThreadFacts DEF Arc
  <2>2. t \in Spawned
    BY <1>2, ThreadFacts DEF Phases, Arc, TesterArcs
  <2>3. from \in Stage(pc[Main])
    BY <1>2, <2>2 DEF Phases, Arc
  <2>4. <<from, to>> \in TesterArcs
    BY <1>2, ThreadFacts DEF Arc
  <2>5. to \in Stage(pc[Main])
    <3>1. CASE pc[Main] \in {"lock1", "mark", "spawn", "barrier1", "join", "exited"}
      BY <2>3, <2>4, <3>1, StageFacts DEF TesterArcs
    <3>2. CASE pc[Main] \in Torture
      <4>1. from \in {"loop", "lock", "enter", "leave", "unlock", "barrier2"}
        BY <2>3, <3>2, StageFacts
      <4>2. to \in {"loop", "lock", "enter", "leave", "unlock", "barrier2"}
        BY <2>4, <4>1 DEF TesterArcs
      <4> QED
        BY <3>2, <4>2, StageFacts
    <3>3. CASE pc[Main] = "barrier3"
      <4>1. from \in {"nap", "lock5", "turn", "unlock5", "barrier3"}
        BY <2>3, <3>3, StageFacts
      <4>2. to \in {"nap", "lock5", "turn", "unlock5", "barrier3"}
        BY <2>4, <4>1 DEF TesterArcs
      <4> QED
        BY <3>3, <4>2, StageFacts
    <3> QED
      BY <3>1, <3>2, <3>3 DEF Phases, MainLabels
  <2> QED
    BY <1>1, <2>1, <2>2, <2>5 DEF Phases, InLastTest
<1>3. CASE t = Main
  <2>1. pc'[Main] = to /\ (\A u \in Testers : pc'[u] = pc[u]) /\ pc[Main] = from
    BY <1>0, <1>3, ThreadFacts DEF Arc
  <2>2. <<from, to>> \in MainArcs
    BY <1>3, ThreadFacts DEF Arc
  <2>3. /\ to \in MainLabels
        /\ \/ from \in {"lock1", "mark", "spawn"} /\ to \in {"lock1", "mark", "spawn"}
           \/ from \in Torture /\ to \in Torture
           \/ from \in {"join", "exited"} /\ to \in {"join", "exited"}
        /\ to \in {"barrier3", "join", "exited"} <=> from \in {"barrier3", "join", "exited"}
    BY <2>2 DEF MainArcs, MainLabels, Torture
  <2>4. Stage(to) = Stage(from)
    BY <2>3, StageFacts
  <2> QED
    BY <1>1, <2>1, <2>3, <2>4 DEF Phases, InLastTest
<1> QED
  BY <1>2, <1>3, ThreadFacts

(* The thread that moves is outside the library, and nobody else moves.    *)
LEMMA ArcKeepsCalls ==
    ASSUME TestTyped, CallsMatch, lpc' = lpc,
           NEW t \in Threads, NEW from, NEW to, Arc(t, from, to), lpc[t] = "out"
    PROVE  CallsMatch'
BY DEF TestTyped, CallsMatch, Arc, AcqLabels, RelLabels

(* The typing of an arc.                                                   *)
LEMMA ArcTyped ==
    ASSUME TestTyped, NEW t \in Threads, NEW from, NEW to, Arc(t, from, to)
    PROVE  /\ pc' \in [Threads -> TesterLabels \cup MainLabels]
           /\ \A u \in Threads \ {t} : pc'[u] = pc[u]
           /\ pc[t] = from /\ pc'[t] = to
<1>1. to \in TesterLabels \cup MainLabels
  BY ArcFacts, ThreadFacts
<1> QED
  BY <1>1 DEF TestTyped, Arc

-----------------------------------------------------------------------------
(* The lock is held by one thread at a time.                               *)

LEMMA OutsideCalls ==
    ASSUME LibraryInv, TestTyped, CallsMatch, NEW t \in Threads, pc[t] \notin Entered \cup Left
    PROVE  lpc[t] = "out" /\ FifoOp(t) = "idle"
<1>1. lpc[t] \in {"out"} \cup AcqLabels \cup RelLabels
  BY DEF LibraryInv, IInv, TypeOK, TestTyped
<1> QED
  BY <1>1, OpOfLabel DEF CallsMatch

(* Whoever has marked the lock holds it.                                   *)
LEMMA MarkedHolds ==
    ASSUME LibraryInv, TestTyped, CallsMatch, NEW t \in Threads, Marked(t)
    PROVE  Holds(t)
BY OutsideCalls DEF Marked, Holds, Critical, Entered, Left

LEMMA OneMark ==
    ASSUME LibraryInv, TestTyped, CallsMatch, Exclusion, NEW t \in Threads, Holds(t),
           NEW u \in Threads, Marked(u)
    PROVE  u = t
BY MarkedHolds DEF Exclusion

LEMMA HoldsStays ==
    ASSUME Exclusion, Free' = Free,
           \A u \in Threads : (Holds(u)' <=> Holds(u)) /\ (FifoOp(u)' = "waiting" => Free = 0)
    PROVE  Exclusion'
BY DEF Exclusion

LEMMA HoldsIsGranted ==
    ASSUME Exclusion, NEW t \in Threads, Free = 1, Free' = 0, Holds(t)',
           \A u \in Threads \ {t} : Holds(u)' <=> Holds(u)
    PROVE  Exclusion'
BY DEF Exclusion

LEMMA HoldsIsGivenUp ==
    ASSUME Exclusion, NEW t \in Threads, Holds(t), ~Holds(t)', Free' = 1,
           \A u \in Threads \ {t} : Holds(u)' <=> Holds(u),
           \A u \in Threads : FifoOp(u)' # "waiting"
    PROVE  Exclusion'
BY DEF Exclusion

LEMMA HoldsIsPassed ==
    ASSUME Exclusion, NEW t \in Threads, NEW h \in Threads, h # t, Free' = Free,
           Holds(t), ~Holds(t)', Holds(h)',
           \A u \in Threads \ {t, h} : Holds(u)' <=> Holds(u)
    PROVE  Exclusion'
BY DEF Exclusion

LEMMA HoldsFollows ==
    ASSUME NEW u \in Threads, FifoOp(u)' = FifoOp(u),
           pc'[u] \in Critical <=> pc[u] \in Critical,
           (u = Main /\ pc'[u] = "barrier1") <=> (u = Main /\ pc[u] = "barrier1")
    PROVE  Holds(u)' <=> Holds(u)
BY DEF Holds

(* The library moves the lock from one holder to the next.                 *)
LEMMA LibraryKeepsExclusion ==
    ASSUME IInv, lock_type = "mutex", TestTyped, CallsMatch, Exclusion, UNCHANGED testVars,
           NEW t \in Threads, LibStep(t)
    PROVE  Exclusion'
<1>0. pc' = pc /\ UNCHANGED lock_type
  BY DEF testVars
<1>a. ASSUME NEW u \in Threads, FifoOp(u)' = FifoOp(u)
      PROVE  Holds(u)' <=> Holds(u)
  BY <1>0, <1>a, HoldsFollows
<1>b. \A u \in Threads : FifoOp(u) \in {"acquire", "waiting"} => pc[u] \in Entered
  BY OpOfLabel DEF CallsMatch, AcqLabels
<1>c. \A u \in Threads : FifoOp(u) = "release" => pc[u] \in Left
  BY OpOfLabel DEF CallsMatch, RelLabels
<1>d. \A u \in Threads : FifoOp(u) = "waiting" => Free = 0
  BY DEF Exclusion
<1>1. CASE Takes(t)
  <2>1. Free = 1 /\ Free' = 0
    BY <1>1 DEF Takes, Exclusion
  <2>2. Holds(t)'
    BY <1>0, <1>1, <1>b DEF Takes, Holds, Entered, Critical
  <2>3. \A u \in Threads \ {t} : Holds(u)' <=> Holds(u)
    BY <1>1, <1>a DEF Takes, Steady
  <2> QED
    BY <2>1, <2>2, <2>3, HoldsIsGranted
<1>2. CASE JoinsLine(t)
  <2>1. Holds(t)' <=> Holds(t)
    BY <1>0, <1>2 DEF JoinsLine, Holds
  <2>2. \A u \in Threads : Holds(u)' <=> Holds(u)
    BY <1>2, <1>a, <2>1 DEF JoinsLine, Steady
  <2>3. Free = 0 /\ Free' = Free
    BY <1>2 DEF JoinsLine
  <2> QED
    BY <2>2, <2>3, HoldsStays
<1>3. CASE GivesUp(t)
  <2>1. Holds(t) /\ ~Holds(t)'
    BY <1>0, <1>3, <1>c DEF GivesUp, Holds, Left, Critical
  <2>2. \A u \in Threads \ {t} : Holds(u)' <=> Holds(u)
    BY <1>3, <1>a DEF GivesUp, Steady
  <2>3. Free = 0
    BY <2>1 DEF Exclusion
  <2>4. Free' = 1
    BY <1>3, <2>3 DEF GivesUp
  <2>5. \A u \in Threads : FifoOp(u) # "waiting"
    <3>1. TheLine = <<>>
      BY <1>3 DEF GivesUp
    <3>2. Len(TheLine) = 0
      BY <3>1
    <3>3. ASSUME NEW u \in Threads, FifoOp(u) = "waiting" PROVE FALSE
      BY <3>2, <3>3, WaitersAreInLine
    <3> QED
      BY <3>3
  <2>6. \A u \in Threads : FifoOp(u)' # "waiting"
    BY <1>3, <2>5 DEF GivesUp, Steady
  <2> QED
    BY <2>1, <2>2, <2>4, <2>6, HoldsIsGivenUp
<1>4. CASE HandsOver(t)
  <2>1. PICK h \in Threads \ {t} :
          /\ FifoOp(h) = "waiting" /\ FifoOp(h)' = "done"
          /\ \A u \in Threads \ {t, h} : FifoOp(u)' = FifoOp(u)
    BY <1>4 DEF HandsOver
  <2>2. Holds(t) /\ ~Holds(t)'
    BY <1>0, <1>4, <1>c DEF HandsOver, Holds, Left, Critical
  <2>3. Holds(h)'
    BY <1>0, <1>b, <2>1 DEF Holds, Entered, Critical
  <2>4. \A u \in Threads \ {t, h} : Holds(u)' <=> Holds(u)
    BY <1>a, <2>1
  <2>5. Free' = Free
    BY <1>4 DEF HandsOver
  <2> QED
    BY <2>1, <2>2, <2>3, <2>4, <2>5, HoldsIsPassed
<1>5. CASE Returns(t)
  <2>1. Holds(t)' <=> Holds(t)
    BY <1>0, <1>5 DEF Returns, Holds
  <2>2. \A u \in Threads : Holds(u)' <=> Holds(u)
    BY <1>5, <1>a, <2>1 DEF Returns, Steady
  <2>3. Free' = Free /\ \A u \in Threads : FifoOp(u)' = "waiting" => Free = 0
    BY <1>5, <1>d DEF Returns, Steady
  <2> QED
    BY <2>2, <2>3, HoldsStays
<1>6. CASE Still
  BY <1>6, <1>a, <1>d, HoldsStays DEF Still
<1> QED
  BY <1>0, <1>1, <1>2, <1>3, <1>4, <1>5, <1>6, LibraryMoves

(* So do the steps of the tester that stay on one side of the lock.        *)
LEMMA ArcKeepsExclusion ==
    ASSUME TestTyped, Exclusion, Still,
           NEW t \in Threads, NEW from, NEW to, Arc(t, from, to),
           from \in Critical <=> to \in Critical, "barrier1" \notin {from, to}
    PROVE  Exclusion'
<1>1. \A u \in Threads : Holds(u)' <=> Holds(u)
  <2> TAKE u \in Threads
  <2>1. pc'[u] \in Critical <=> pc[u] \in Critical
    BY ArcTyped
  <2>2. pc'[u] = "barrier1" <=> pc[u] = "barrier1"
    BY ArcTyped
  <2> QED
    BY <2>1, <2>2, HoldsFollows DEF Still
<1> QED
  BY <1>1, HoldsStays DEF Still, Exclusion

-----------------------------------------------------------------------------
(* The steps of the tester, one kind at a time.                            *)

LEMMA MarksStay ==
    ASSUME TestTyped, Marks, testlock_held' = testlock_held,
           NEW t \in Threads, NEW from, NEW to, Arc(t, from, to),
           {from, to} \cap {"leave", "spawn", "barrier1", "unmark"} = {}
    PROVE  Marks'
<1>0. from \notin {"leave", "spawn", "barrier1", "unmark"}
      /\ to \notin {"leave", "spawn", "barrier1", "unmark"}
  OBVIOUS
<1>1. \A u \in Threads : Marked(u)' <=> Marked(u)
  <2> TAKE u \in Threads
  <2>1. (pc'[u] = "leave" <=> pc[u] = "leave")
        /\ (pc'[u] \in {"spawn", "barrier1", "unmark"} <=> pc[u] \in {"spawn", "barrier1", "unmark"})
    BY <1>0, ArcTyped
  <2> QED
    BY <2>1 DEF Marked
<1> QED
  BY <1>1 DEF Marks

(* A statement of the tester that neither takes the lock nor releases it.  *)
LEMMA PlainStep ==
    ASSUME Core, UNCHANGED <<semVars, lock_type, nr_testers>>,
           NEW t \in Threads, NEW from, NEW to, Arc(t, from, to), lpc[t] = "out",
           from \in Critical <=> to \in Critical, "barrier1" \notin {from, to},
           Marks', testlock_held' \in {0, 1}, lock_in_order' \in BOOLEAN, aborted' \in BOOLEAN,
           progress' \in Nat
    PROVE  Core'
<1>1. TestTyped'
  BY ArcTyped DEF Core, TestTyped
<1>2. LibraryInv'
  <2>1. IInv => IInv'
    <3>1. [Next]_semVars
      OBVIOUS
    <3> QED
      BY <3>1, NextKeepsIInv
  <2> QED
    BY <2>1 DEF Core, LibraryInv, semVars
<1>3. CallsMatch'
  BY ArcKeepsCalls DEF Core, semVars
<1>4. Phases'
  BY ArcKeepsPhases DEF Core
<1>5. Exclusion'
  BY NothingMoves, ArcKeepsExclusion DEF Core
<1> QED
  BY <1>1, <1>2, <1>3, <1>4, <1>5 DEF Core

LEMMA LockKeepsCore ==
    ASSUME Core, NEW t \in Threads, NEW from, NEW to, Arc(t, from, to), Lock(t, from, to),
           UNCHANGED <<lock_type, nr_testers>>, from \notin Critical, to \in Entered,
           {from, to} \cap {"leave", "spawn", "barrier1", "unmark"} = {}
    PROVE  Core'
<1>1. TestTyped'
  BY ArcTyped DEF Core, TestTyped, Lock
<1>2. Phases' /\ Marks'
  BY ArcKeepsPhases, MarksStay DEF Core, Lock
<1>3. /\ \A u \in Threads \ {t} : pc'[u] = pc[u]
      /\ pc[t] = from /\ pc'[t] = to
  BY ArcTyped DEF Core
<1>4. from # "barrier1" /\ to # "barrier1" /\ to \in Critical
  BY DEF Entered, Critical
<1>5. CASE lock_type = "mutex"
  <2>1. IInv /\ CallAcquire(t, Testlock)
    BY <1>5 DEF Core, LibraryInv, Lock
  <2>2. /\ IInv' /\ FifoOp(t) = "idle" /\ Steady(t) /\ Free' = Free /\ FifoOp(t)' = "acquire"
    BY <1>5, <2>1, CallMoves
  <2>3. LibraryInv'
    BY <1>5, <2>2 DEF LibraryInv
  <2>4. CallsMatch'
    <3>1. lpc' = [lpc EXCEPT ![t] = "acqCas"] /\ lpc \in [Threads -> {"out"} \cup AcqLabels \cup RelLabels]
      BY <2>1 DEF CallAcquire, IInv, TypeOK
    <3> QED
      BY <1>3, <3>1 DEF Core, CallsMatch, AcqLabels, RelLabels
  <2>5. \A u \in Threads \ {t} : Holds(u)' <=> Holds(u)
    BY <1>3, <2>2, HoldsFollows DEF Steady
  <2>6. ~Holds(t) /\ ~Holds(t)'
    BY <1>3, <1>4, <2>2 DEF Holds
  <2>7. \A u \in Threads : FifoOp(u)' = "waiting" => FifoOp(u) = "waiting"
    BY <2>2 DEF Steady
  <2>8. Exclusion'
    BY <2>2, <2>5, <2>6, <2>7, HoldsStays DEF Exclusion, Core
  <2> QED
    BY <1>1, <1>2, <2>3, <2>4, <2>8 DEF Core
<1>6. CASE lock_type = "spinlock"
  <2>1. SpinAcquire
    BY <1>6 DEF Lock
  <2>2. /\ LibraryInv' /\ Free = 1 /\ Free' = 0
        /\ \A u \in Threads : FifoOp(u)' = FifoOp(u) /\ FifoOp(u) = "idle"
    BY <1>6, <2>1, SpinMoves DEF Core
  <2>3. CallsMatch'
    BY <1>3, <1>6, <2>1, <2>2 DEF SpinAcquire, Core, LibraryInv, CallsMatch, AcqLabels, RelLabels
  <2>4. \A u \in Threads \ {t} : Holds(u)' <=> Holds(u)
    BY <1>3, <2>2, HoldsFollows
  <2>5. Holds(t)'
    BY <1>3, <1>4, <2>2 DEF Holds
  <2>6. Exclusion'
    BY <2>2, <2>4, <2>5, HoldsIsGranted DEF Core
  <2> QED
    BY <1>1, <1>2, <2>2, <2>3, <2>6 DEF Core
<1> QED
  BY <1>5, <1>6 DEF Core, TestTyped

LEMMA UnlockKeepsCore ==
    ASSUME Core, NEW t \in Threads, NEW from, NEW to, Arc(t, from, to), UnlockStep(t, from, to),
           UNCHANGED <<lock_type, nr_testers>>, from \in Critical, to \in Left,
           {from, to} \cap {"leave", "spawn", "barrier1", "unmark"} = {}
    PROVE  Core'
<1>1. TestTyped'
  BY ArcTyped DEF Core, TestTyped, UnlockStep
<1>2. Phases' /\ Marks'
  BY ArcKeepsPhases, MarksStay DEF Core, UnlockStep
<1>3. /\ \A u \in Threads \ {t} : pc'[u] = pc[u]
      /\ pc[t] = from /\ pc'[t] = to
  BY ArcTyped DEF Core
<1>4. from # "barrier1" /\ to # "barrier1" /\ to \notin Critical
  BY DEF Left, Critical
<1>5. CASE lock_type = "mutex"
  <2>1. IInv /\ CallRelease(t, Testlock)
    BY <1>5 DEF Core, LibraryInv, UnlockStep
  <2>2. /\ IInv' /\ FifoOp(t) = "idle" /\ Steady(t) /\ Free' = Free /\ FifoOp(t)' = "release"
    BY <1>5, <2>1, CallMoves
  <2>3. LibraryInv'
    BY <1>5, <2>2 DEF LibraryInv
  <2>4. CallsMatch'
    <3>1. lpc' = [lpc EXCEPT ![t] = "relCas"] /\ lpc \in [Threads -> {"out"} \cup AcqLabels \cup RelLabels]
      BY <2>1 DEF CallRelease, IInv, TypeOK
    <3> QED
      BY <1>3, <3>1 DEF Core, CallsMatch, AcqLabels, RelLabels
  <2>5. \A u \in Threads \ {t} : Holds(u)' <=> Holds(u)
    BY <1>3, <2>2, HoldsFollows DEF Steady
  <2>6. Holds(t) /\ Holds(t)'
    BY <1>3, <1>4, <2>2 DEF Holds
  <2>7. \A u \in Threads : FifoOp(u)' = "waiting" => FifoOp(u) = "waiting"
    BY <2>2 DEF Steady
  <2>8. Exclusion'
    BY <2>2, <2>5, <2>6, <2>7, HoldsStays DEF Exclusion, Core
  <2> QED
    BY <1>1, <1>2, <2>3, <2>4, <2>8 DEF Core
<1>6. CASE lock_type = "spinlock"
  <2>1. SpinRelease
    BY <1>6 DEF UnlockStep
  <2>2. /\ LibraryInv' /\ Free' = 1
        /\ \A u \in Threads : FifoOp(u)' = FifoOp(u) /\ FifoOp(u) = "idle"
    BY <1>6, <2>1, SpinMoves DEF Core
  <2>3. CallsMatch'
    BY <1>3, <1>6, <2>1, <2>2 DEF SpinRelease, Core, LibraryInv, CallsMatch, AcqLabels, RelLabels
  <2>4. \A u \in Threads \ {t} : Holds(u)' <=> Holds(u)
    BY <1>3, <2>2, HoldsFollows
  <2>5. Holds(t) /\ ~Holds(t)'
    BY <1>3, <1>4, <2>2 DEF Holds
  <2>6. Exclusion'
    BY <2>2, <2>4, <2>5, HoldsIsGivenUp DEF Core
  <2> QED
    BY <1>1, <1>2, <2>2, <2>3, <2>6 DEF Core
<1> QED
  BY <1>5, <1>6 DEF Core, TestTyped

(* The assertions inside the lock hold, and the mark is the holder's.      *)
LEMMA MarkKeepsCore ==
    ASSUME Core, NEW t \in Threads, NEW from, NEW to, NEW old, NEW new,
           Arc(t, from, to), Mark(t, from, old, new, to), UNCHANGED <<lock_type, nr_testers>>,
           \/ from = "enter" /\ to = "leave" /\ old = 0 /\ new = 1
           \/ from = "leave" /\ to = "unlock" /\ old = 1 /\ new = 0
           \/ t = Main /\ from = "mark" /\ to = "spawn" /\ old = 0 /\ new = 1
           \/ t = Main /\ from = "unmark" /\ to = "check" /\ old = 1 /\ new = 0
    PROVE  Core' /\ ~aborted'
<1> USE DEF Mark, Assert, Runs, At
<1>1. Holds(t)
  BY PlainOp DEF Holds, Critical
<1>2. \A u \in Threads : Marked(u) => u = t
  BY <1>1, OneMark DEF Core
<1>3. /\ \A u \in Threads \ {t} : pc'[u] = pc[u]
      /\ pc[t] = from /\ pc'[t] = to
  BY ArcTyped DEF Core
<1>4. \A u \in Threads \ {t} : ~Marked(u) /\ ~Marked(u)'
  BY <1>2, <1>3 DEF Marked
<1>5. testlock_held \in {0, 1}
  BY DEF Core, TestTyped
<1>6. testlock_held = old /\ Marks'
  <2>1. CASE old = 0
    <3>1. ~Marked(t) /\ Marked(t)' /\ new = 1
      BY <1>3, <2>1, ThreadFacts DEF Marked
    <3> QED
      BY <1>4, <1>5, <2>1, <3>1 DEF Core, Marks
  <2>2. CASE old = 1
    <3>1. Marked(t) /\ ~Marked(t)' /\ new = 0
      BY <1>3, <2>2, ThreadFacts DEF Marked
    <3> QED
      BY <1>4, <1>5, <2>2, <3>1 DEF Core, Marks
  <2> QED
    BY <2>1, <2>2
<1>7. ~aborted'
  BY <1>6
<1>8. /\ from \in Critical /\ to \in Critical /\ from # "barrier1" /\ to # "barrier1"
      /\ new \in {0, 1}
  BY DEF Critical
<1>9. Core'
  BY <1>6, <1>7, <1>8, PlainStep DEF Core, TestTyped
<1> QED
  BY <1>7, <1>9

LEMMA TesterKeepsCore ==
    ASSUME Core, NEW t \in Testers, Tester(t)
    PROVE  Core' /\ ~aborted'
<1>0. t \in Threads /\ t # Main
  BY ThreadFacts
<1>. USE DEF Runs, At, Pc
<1>1. CASE Loop(t)
  <2>1. PICK to \in {"lock", "barrier2"} : pc' = [pc EXCEPT ![t] = to]
    BY <1>1 DEF Loop
  <2>2. Arc(t, "loop", to)
    BY <1>1, <2>1 DEF Loop, Arc, TesterArcs
  <2>3. Marks'
    BY <1>0, <1>1, <2>2, MarksStay DEF Core, Loop
  <2>4. "loop" \notin Critical /\ to \notin Critical
    BY DEF Critical
  <2> QED
    BY <1>0, <1>1, <2>2, <2>3, <2>4, PlainStep DEF Core, TestTyped, Loop, Tester
<1>2. CASE Lock(t, "lock", "enter") \/ Lock(t, "lock5", "turn")
  <2>1. PICK from, to : /\ Lock(t, from, to)
                        /\ \/ from = "lock" /\ to = "enter"
                           \/ from = "lock5" /\ to = "turn"
    BY <1>2
  <2>2. Arc(t, from, to)
    BY <2>1 DEF Lock, Arc, TesterArcs
  <2>3. from \notin Critical /\ to \in Entered
        /\ {from, to} \cap {"leave", "spawn", "barrier1", "unmark"} = {}
    BY <2>1 DEF Critical, Entered
  <2> QED
    BY <1>0, <2>1, <2>2, <2>3, LockKeepsCore DEF Tester, Lock
<1>3. CASE Mark(t, "enter", 0, 1, "leave")
  <2>1. Arc(t, "enter", "leave")
    BY <1>3 DEF Mark, Arc, TesterArcs
  <2> QED
    BY <1>0, <1>3, <2>1, MarkKeepsCore DEF Tester
<1>4. CASE Mark(t, "leave", 1, 0, "unlock")
  <2>1. Arc(t, "leave", "unlock")
    BY <1>4 DEF Mark, Arc, TesterArcs
  <2> QED
    BY <1>0, <1>4, <2>1, MarkKeepsCore DEF Tester
<1>5. CASE UnlockStep(t, "unlock", "loop") \/ UnlockStep(t, "unlock5", "barrier3")
  <2>1. PICK from, to : /\ UnlockStep(t, from, to)
                        /\ \/ from = "unlock" /\ to = "loop"
                           \/ from = "unlock5" /\ to = "barrier3"
    BY <1>5
  <2>2. Arc(t, from, to)
    BY <2>1 DEF UnlockStep, Arc, TesterArcs
  <2>3. from \in Critical /\ to \in Left
        /\ {from, to} \cap {"leave", "spawn", "barrier1", "unmark"} = {}
    BY <2>1 DEF Critical, Left
  <2> QED
    BY <1>0, <2>1, <2>2, <2>3, UnlockKeepsCore DEF Tester, UnlockStep
<1>6. CASE Nap(t)
  <2>1. Arc(t, "nap", "lock5")
    BY <1>6 DEF Nap, Arc, TesterArcs
  <2>2. Marks'
    BY <1>0, <1>6, <2>1, MarksStay DEF Core, Nap
  <2>3. "nap" \notin Critical /\ "lock5" \notin Critical
    BY DEF Critical
  <2> QED
    BY <1>0, <1>6, <2>1, <2>2, <2>3, PlainStep DEF Core, TestTyped, Nap, Tester
<1>7. CASE Turn(t)
  <2>1. Arc(t, "turn", "unlock5")
    BY <1>7 DEF Turn, Arc, TesterArcs
  <2>2. Marks'
    BY <1>0, <1>7, <2>1, MarksStay DEF Core, Turn
  <2>3. "turn" \in Critical /\ "unlock5" \in Critical
    BY DEF Critical
  <2>4. progress' \in Nat /\ lock_in_order' \in BOOLEAN
    BY <1>7 DEF Turn, Core, TestTyped
  <2> QED
    BY <1>0, <1>7, <2>1, <2>2, <2>3, <2>4, PlainStep DEF Core, TestTyped, Turn, Tester
<1> QED
  BY <1>1, <1>2, <1>3, <1>4, <1>5, <1>6, <1>7 DEF Tester

(* The testers are created at the first barrier.                           *)
LEMMA SpawnFacts ==
    ASSUME TestTyped
    PROVE  /\ Spawned \subseteq Testers /\ Spawned \subseteq Threads /\ Main \notin Spawned
           /\ nr_testers \in Nat /\ nr_testers >= 1
           /\ \A t \in Spawned : t \in 0 .. nr_testers - 1
BY ThreadFacts DEF TestTyped, Spawned, Testers

LEMMA SpawnKeepsCore ==
    ASSUME Core, SpawnTesters, UNCHANGED <<lock_type, nr_testers>>
    PROVE  Core' /\ ~aborted'
<1> USE DEF SpawnTesters, Runs, At
<1>0. /\ TestTyped /\ LibraryInv /\ CallsMatch /\ Phases /\ Exclusion /\ Marks
  BY DEF Core
<1>1. /\ pc[Main] = "spawn" /\ pc'[Main] = "barrier1"
      /\ \A u \in Spawned : pc'[u] = "barrier1"
      /\ \A u \in Testers : pc[u] = "unborn" /\ (u \notin Spawned => pc'[u] = "unborn")
  <2>1. \A u \in Testers : pc[u] = "unborn"
    BY <1>0, StageFacts DEF Phases
  <2> QED
    BY <1>0, <2>1, SpawnFacts, ThreadFacts
<1>2. TestTyped'
  <2>1. pc' \in [Threads -> TesterLabels \cup MainLabels]
    BY <1>0 DEF TestTyped, TesterLabels, MainLabels
  <2> QED
    BY <1>0, <2>1 DEF TestTyped
<1>3. LibraryInv'
  <2>1. [Next]_semVars
    OBVIOUS
  <2>2. IInv => IInv'
    BY <2>1, NextKeepsIInv
  <2> QED
    BY <1>0, <2>2 DEF LibraryInv, semVars
<1>4. \A u \in Threads : lpc[u] = "out" /\ FifoOp(u) = "idle"
  BY <1>0, <1>1, OutsideCalls, ThreadFacts DEF Entered, Left
<1>5. Still
  BY NothingMoves
<1>6. CallsMatch'
  BY <1>4 DEF CallsMatch, semVars, AcqLabels, RelLabels
<1>7. Phases'
  <2>1. Spawned' = Spawned
    BY DEF Spawned
  <2> QED
    BY <1>1, <2>1, StageFacts DEF Phases, MainLabels
<1>8. Exclusion'
  <2>1. Holds(Main) /\ Holds(Main)'
    BY <1>1, <1>4, ThreadFacts DEF Holds, Critical
  <2>2. \A u \in Testers : ~Holds(u) /\ ~Holds(u)'
    <3> TAKE u \in Testers
    <3>1. pc[u] \notin Critical /\ pc'[u] \notin Critical /\ u # Main /\ u \in Threads
      BY <1>1, ThreadFacts DEF Critical
    <3>2. FifoOp(u) = "idle" /\ FifoOp(u)' = "idle"
      BY <1>4, <1>5, <3>1 DEF Still
    <3> QED
      BY <3>1, <3>2 DEF Holds
  <2>3. \A u \in Threads : (Holds(u)' <=> Holds(u)) /\ FifoOp(u)' # "waiting"
    BY <1>4, <1>5, <2>1, <2>2, ThreadFacts DEF Still
  <2> QED
    BY <1>0, <1>5, <2>3, HoldsStays DEF Still
<1>9. Marks'
  <2>1. Marked(Main) /\ Marked(Main)'
    BY <1>1 DEF Marked
  <2> QED
    BY <1>0, <2>1, ThreadFacts DEF Marks
<1> QED
  BY <1>2, <1>3, <1>6, <1>7, <1>8, <1>9 DEF Core

(* A barrier opens when every tester and main are at it.                   *)
LEMMA BarrierMeets ==
    ASSUME TestTyped, Phases, Barrier
    PROVE  /\ pc' = [t \in Threads |-> pc'[t]]
           /\ \E b \in {"barrier1", "barrier2", "barrier3"} :
                 /\ \A t \in Spawned \cup {Main} :
                       pc[t] = b /\ lpc[t] = "out" /\ pc'[t] = AfterBarrier(t)
                 /\ \A t \in Testers \ Spawned : pc[t] = "unborn" /\ pc'[t] = "unborn"
<1> DEFINE barriers == {"barrier1", "barrier2", "barrier3"}
<1> DEFINE waiting == {t \in Threads : pc[t] \in barriers /\ lpc[t] = "out"}
<1>0. /\ Cardinality(waiting) = nr_testers + 1
      /\ pc' = [t \in Threads |-> IF t \in waiting THEN AfterBarrier(t) ELSE pc[t]]
  BY DEF Barrier
<1>1. waiting \subseteq Spawned \cup {Main}
  BY ThreadFacts DEF Phases
<1>2. /\ IsFiniteSet(Spawned \cup {Main})
      /\ Cardinality(Spawned \cup {Main}) = nr_testers + 1
  <2>1. nr_testers - 1 \in Int /\ ~(0 > nr_testers - 1) /\ nr_testers \in Nat
    BY SpawnFacts
  <2>2. IsFiniteSet(Spawned) /\ Cardinality(Spawned) = nr_testers - 1 - 0 + 1
    BY <2>1, FS_Interval DEF Spawned
  <2> QED
    BY <2>1, <2>2, FS_AddElement, SpawnFacts
<1> HIDE DEF waiting
<1>7. pc' = [t \in Threads |-> pc'[t]]
  BY <1>0
<1>3. waiting = Spawned \cup {Main}
  BY <1>0, <1>1, <1>2, FS_Subset
<1> USE DEF waiting
<1>4. \A t \in Spawned \cup {Main} :
        pc[t] \in barriers /\ lpc[t] = "out" /\ pc'[t] = AfterBarrier(t)
  <2> TAKE t \in Spawned \cup {Main}
  <2>1. t \in waiting /\ t \in Threads
    BY <1>3
  <2> QED
    BY <1>0, <2>1
<1>5. \A t \in Spawned : pc[t] = pc[Main]
  <2> TAKE t \in Spawned
  <2>1. pc[t] \in Stage(pc[Main]) /\ pc[t] \in barriers /\ pc[Main] \in barriers
    BY <1>4, SpawnFacts DEF Phases
  <2> QED
    BY <2>1, StageFacts DEF Torture
<1>6. \A t \in Testers \ Spawned : pc[t] = "unborn" /\ pc'[t] = "unborn"
  <2> TAKE t \in Testers \ Spawned
  <2>1. pc[t] = "unborn" /\ t \in Threads /\ t \notin waiting
    BY <1>3, ThreadFacts DEF Phases
  <2> QED
    BY <1>0, <2>1
<1> QED
  BY <1>4, <1>5, <1>6, <1>7

LEMMA BarrierKeepsCore ==
    ASSUME Core, Barrier
    PROVE  Core' /\ ~aborted'
<1>0. /\ TestTyped /\ LibraryInv /\ CallsMatch /\ Phases /\ Exclusion /\ Marks
  BY DEF Core
<1>a. /\ ~aborted /\ ~aborted'
      /\ UNCHANGED <<semVars, lock_type, nr_testers, testlock_held, progress, lock_in_order, aborted>>
  BY DEF Barrier
<1>b. PICK b \in {"barrier1", "barrier2", "barrier3"} :
        /\ \A t \in Spawned \cup {Main} :
              pc[t] = b /\ lpc[t] = "out" /\ pc'[t] = AfterBarrier(t)
        /\ \A t \in Testers \ Spawned : pc[t] = "unborn" /\ pc'[t] = "unborn"
  BY <1>0, BarrierMeets
<1>1. PICK x, y :
        /\ \/ b = "barrier1" /\ x = "unmark" /\ y = "loop"
           \/ b = "barrier2" /\ x = "barrier3" /\ y = "nap"
           \/ b = "barrier3" /\ x = "join" /\ y = "exited"
        /\ pc[Main] = b /\ pc'[Main] = x
        /\ \A t \in Spawned : pc[t] = b /\ pc'[t] = y
  <2>1. \A t \in Spawned : t # Main
    BY <1>0, SpawnFacts
  <2>2. CASE b = "barrier1"
    BY <1>b, <2>1, <2>2 DEF AfterBarrier
  <2>3. CASE b = "barrier2"
    BY <1>b, <2>1, <2>3 DEF AfterBarrier
  <2>4. CASE b = "barrier3"
    BY <1>b, <2>1, <2>4 DEF AfterBarrier
  <2> QED
    BY <2>2, <2>3, <2>4
<1>2. TestTyped'
  <2>1. \A t \in Threads : pc'[t] \in TesterLabels \cup MainLabels
    BY <1>b, <1>1, ThreadFacts DEF TesterLabels, MainLabels, Torture
  <2>2. pc' = [t \in Threads |-> pc'[t]]
    BY <1>0, BarrierMeets
  <2>3. pc' \in [Threads -> TesterLabels \cup MainLabels]
    BY <2>1, <2>2
  <2> QED
    BY <1>0, <1>a, <2>3 DEF TestTyped
<1>3. LibraryInv'
  <2>1. [Next]_semVars
    BY <1>a
  <2>2. IInv => IInv'
    BY <2>1, NextKeepsIInv
  <2> QED
    BY <1>0, <1>a, <2>2 DEF LibraryInv, semVars
<1>4. \A u \in Threads : lpc[u] = "out" /\ FifoOp(u) = "idle"
  <2>1. \A u \in Testers \ Spawned : lpc[u] = "out"
    BY <1>0, <1>b, OutsideCalls, ThreadFacts DEF Entered, Left
  <2> QED
    BY <1>b, <2>1, PlainOp, ThreadFacts
<1>5. Still
  BY <1>a, NothingMoves
<1>6. CallsMatch'
  BY <1>a, <1>4 DEF CallsMatch, semVars, AcqLabels, RelLabels
<1>7. Phases'
  <2>1. Spawned' = Spawned
    BY <1>a DEF Spawned
  <2> QED
    <3>1. /\ pc'[Main] \in MainLabels
          /\ y \in Stage(x)
      BY <1>1, StageFacts DEF MainLabels, Torture
    <3>2. ASSUME NEW u \in Testers
          PROVE  pc'[u] \in IF u \in Spawned THEN Stage(pc'[Main]) ELSE {"unborn"}
      BY <1>b, <1>1, <3>1
    <3> QED
      BY <2>1, <3>1, <3>2 DEF Phases
<1>8. \A u \in Testers : /\ pc[u] \notin Critical /\ pc'[u] \notin Critical
                         /\ ~Marked(u) /\ ~Marked(u)' /\ u # Main /\ u \in Threads
  BY <1>b, <1>1, ThreadFacts DEF Critical, Marked
<1>9. Exclusion'
  <2>1. \A u \in Testers : ~Holds(u) /\ ~Holds(u)'
    BY <1>4, <1>5, <1>8 DEF Holds, Still
  <2>2. Holds(Main) <=> Holds(Main)'
    BY <1>1, <1>4, <1>5, ThreadFacts DEF Holds, Still, Critical
  <2>3. \A u \in Threads : (Holds(u)' <=> Holds(u)) /\ FifoOp(u)' # "waiting"
    BY <1>4, <1>5, <2>1, <2>2, ThreadFacts DEF Still
  <2> QED
    BY <1>0, <1>5, <2>3, HoldsStays DEF Still
<1>10. Marks'
  <2>1. Marked(Main) <=> Marked(Main)'
    BY <1>1 DEF Marked
  <2> QED
    BY <1>0, <1>a, <1>8, <2>1, ThreadFacts DEF Marks
<1> QED
  BY <1>a, <1>2, <1>3, <1>6, <1>7, <1>9, <1>10 DEF Core

(* Main finds the lock unmarked before it releases it, and at the end.     *)
LEMMA MainKeepsCore ==
    ASSUME Core, MainStep
    PROVE  Core' /\ (aborted' => lock_type' = "mutex" /\ ~lock_in_order')
<1>0. /\ Main \in Threads /\ Main \notin Testers
      /\ UNCHANGED <<lock_type, nr_testers>>
      /\ TestTyped /\ LibraryInv /\ CallsMatch /\ Phases /\ Exclusion /\ Marks
  BY ThreadFacts DEF Core, MainStep
<1>. USE DEF Runs, At, Pc
<1>1. CASE Lock(Main, "lock1", "mark") \/ Lock(Main, "lock3", "unlock3") \/ Lock(Main, "lock4", "unlock4")
  <2>1. PICK from, to : /\ Lock(Main, from, to)
                        /\ \/ from = "lock1" /\ to = "mark"
                           \/ from = "lock3" /\ to = "unlock3"
                           \/ from = "lock4" /\ to = "unlock4"
    BY <1>1
  <2>2. Arc(Main, from, to)
    BY <2>1 DEF Lock, Arc, MainArcs
  <2>3. from \notin Critical /\ to \in Entered
        /\ {from, to} \cap {"leave", "spawn", "barrier1", "unmark"} = {}
    BY <2>1 DEF Critical, Entered
  <2>4. ~aborted'
    BY <2>1 DEF Lock
  <2> QED
    BY <1>0, <2>1, <2>2, <2>3, <2>4, LockKeepsCore
<1>2. CASE \/ UnlockStep(Main, "unlock1", "lock3") \/ UnlockStep(Main, "unlock3", "round")
           \/ UnlockStep(Main, "unlock4", "stop")
  <2>1. PICK from, to : /\ UnlockStep(Main, from, to)
                        /\ \/ from = "unlock1" /\ to = "lock3"
                           \/ from = "unlock3" /\ to = "round"
                           \/ from = "unlock4" /\ to = "stop"
    BY <1>2
  <2>2. Arc(Main, from, to)
    BY <2>1 DEF UnlockStep, Arc, MainArcs
  <2>3. from \in Critical /\ to \in Left
        /\ {from, to} \cap {"leave", "spawn", "barrier1", "unmark"} = {}
    BY <2>1 DEF Critical, Left
  <2>4. ~aborted'
    BY <2>1 DEF UnlockStep
  <2> QED
    BY <1>0, <2>1, <2>2, <2>3, <2>4, UnlockKeepsCore
<1>3. CASE Mark(Main, "mark", 0, 1, "spawn")
  <2>1. Arc(Main, "mark", "spawn")
    BY <1>3 DEF Mark, Arc, MainArcs
  <2> QED
    BY <1>0, <1>3, <2>1, MarkKeepsCore
<1>4. CASE Mark(Main, "unmark", 1, 0, "check")
  <2>1. Arc(Main, "unmark", "check")
    BY <1>4 DEF Mark, Arc, MainArcs
  <2> QED
    BY <1>0, <1>4, <2>1, MarkKeepsCore
<1>5. CASE SpawnTesters
  BY <1>0, <1>5, SpawnKeepsCore
<1>6. CASE Release1
  <2>1. Arc(Main, "check", "unlock1")
    BY <1>6 DEF Release1, Arc, MainArcs
  <2>2. Marks'
    BY <1>0, <1>6, <2>1, MarksStay DEF Release1
  <2>3. "check" \in Critical /\ "unlock1" \in Critical
    BY DEF Critical
  <2>4. Holds(Main) /\ ~Marked(Main)
    BY <1>6, <2>3, PlainOp DEF Holds, Release1, Marked
  <2>5. \A u \in Threads : ~Marked(u)
    BY <1>0, <2>4, OneMark
  <2>6. testlock_held = 0
    BY <1>0, <2>5 DEF Marks, TestTyped
  <2>7. ~aborted' /\ aborted' \in BOOLEAN
    BY <1>6, <2>6 DEF Release1, Assert
  <2>8. Core'
    BY <1>0, <1>6, <2>1, <2>2, <2>3, <2>7, PlainStep DEF TestTyped, Release1
  <2> QED
    BY <2>7, <2>8
<1>7. CASE NextRound
  <2>1. PICK to \in {"lock3", "lock4"} : pc' = [pc EXCEPT ![Main] = to]
    BY <1>7 DEF NextRound
  <2>2. Arc(Main, "round", to)
    BY <1>7, <2>1 DEF NextRound, Arc, MainArcs
  <2>3. Marks'
    BY <1>0, <1>7, <2>2, MarksStay DEF NextRound
  <2>4. "round" \notin Critical /\ to \notin Critical
    BY DEF Critical
  <2> QED
    BY <1>0, <1>7, <2>2, <2>3, <2>4, PlainStep DEF TestTyped, NextRound
<1>8. CASE StopTesting
  <2>1. Arc(Main, "stop", "barrier2")
    BY <1>8 DEF StopTesting, Arc, MainArcs
  <2>2. Marks'
    BY <1>0, <1>8, <2>1, MarksStay DEF StopTesting
  <2>3. "stop" \notin Critical /\ "barrier2" \notin Critical
    BY DEF Critical
  <2> QED
    BY <1>0, <1>8, <2>1, <2>2, <2>3, PlainStep DEF TestTyped, StopTesting
<1>9. CASE Verdict
  <2>1. Arc(Main, "join", "exited")
    BY <1>9 DEF Verdict, Arc, MainArcs
  <2>2. Marks'
    BY <1>0, <1>9, <2>1, MarksStay DEF Verdict
  <2>3. "join" \notin Critical /\ "exited" \notin Critical
    BY DEF Critical
  <2>4. \A u \in Threads : ~Marked(u)
    BY <1>0, <1>9, ThreadFacts, StageFacts DEF Verdict, Phases, Marked
  <2>5. testlock_held = 0
    BY <1>0, <2>4 DEF Marks, TestTyped
  <2>6. aborted' \in BOOLEAN /\ (aborted' => lock_type' = "mutex" /\ ~lock_in_order')
    BY <1>0, <1>9, <2>5 DEF Verdict, Assert, TestTyped
  <2>7. Core'
    BY <1>0, <1>9, <2>1, <2>2, <2>3, <2>6, PlainStep DEF TestTyped, Verdict
  <2> QED
    BY <2>6, <2>7
<1> QED
  BY <1>1, <1>2, <1>3, <1>4, <1>5, <1>6, <1>7, <1>8, <1>9 DEF MainStep

LEMMA LibraryKeepsCore ==
    ASSUME Core, lock_type = "mutex", UNCHANGED testVars, NEW t \in Threads, LibStep(t)
    PROVE  Core'
<1>0. /\ TestTyped /\ LibraryInv /\ CallsMatch /\ Phases /\ Exclusion /\ Marks /\ IInv
  BY DEF Core, LibraryInv
<1>1. TestTyped' /\ Phases' /\ Marks'
  BY <1>0 DEF testVars, TestTyped, Phases, Marks, Marked, Spawned
<1>2. IInv'
  BY <1>0, LibStepKeepsIInv
<1>3. LibraryInv'
  BY <1>2 DEF LibraryInv, testVars
<1>4. CallsMatch'
  <2>1. PICK label : /\ lpc' = [lpc EXCEPT ![t] = label]
                     /\ lpc[t] \in AcqLabels => label \in {"out"} \cup AcqLabels
                     /\ lpc[t] \in RelLabels => label \in {"out"} \cup RelLabels
                     /\ lpc[t] \in AcqLabels \cup RelLabels
    <3> USE DEF At, Goto, Return, AcqLabels, RelLabels
    <3>1. CASE AcqStep(t)
      BY <3>1 DEF AcqStep, AcqCas, AcqDec, AcqFree, AcqAdd, AcqMask, AcqDrop, AcqWait
    <3>2. CASE RelStep(t)
      BY <3>2 DEF RelStep, RelCas, RelInc, RelFree, RelPop, RelDrop, RelKill
    <3> QED
      BY <3>1, <3>2 DEF LibStep
  <2>2. lpc \in [Threads -> {"out"} \cup AcqLabels \cup RelLabels]
    BY <1>0 DEF IInv, TypeOK
  <2> QED
    BY <1>0, <2>1, <2>2 DEF CallsMatch, testVars, AcqLabels, RelLabels
<1>5. Exclusion'
  BY <1>0, LibraryKeepsExclusion
<1> QED
  BY <1>1, <1>3, <1>4, <1>5 DEF Core

-----------------------------------------------------------------------------
(* The order of the last test.                                             *)

LEMMA TesterArc ==
    ASSUME NEW t \in Testers, Tester(t)
    PROVE  \E from, to : Arc(t, from, to) /\ Runs(t, from)
<1> USE DEF Runs, Pc, Arc, TesterArcs
<1>1. CASE Loop(t)
  <2>1. PICK to \in {"lock", "barrier2"} : pc' = [pc EXCEPT ![t] = to]
    BY <1>1 DEF Loop
  <2> QED
    BY <1>1, <2>1 DEF Loop
<1>2. CASE \/ Lock(t, "lock", "enter") \/ Lock(t, "lock5", "turn")
           \/ UnlockStep(t, "unlock", "loop") \/ UnlockStep(t, "unlock5", "barrier3")
  BY <1>2 DEF Lock, UnlockStep
<1>3. CASE Mark(t, "enter", 0, 1, "leave") \/ Mark(t, "leave", 1, 0, "unlock")
  BY <1>3 DEF Mark
<1>4. CASE Nap(t) \/ Turn(t)
  BY <1>4 DEF Nap, Turn
<1> QED
  BY <1>1, <1>2, <1>3, <1>4 DEF Tester

(* In the last test, who is where.                                         *)
LEMMA LastTestFacts ==
    ASSUME Core, InLastTest
    PROVE  /\ \A t \in Spawned :
                 pc[t] \in {"nap", "lock5", "turn", "unlock5", "barrier3", "exited"}
           /\ \A t \in Threads \ Spawned : pc[t] \in {"unborn", "barrier3", "join", "exited"}
           /\ \A t \in Threads : pc[t] \in Entered => t \in Spawned /\ pc[t] = "turn"
BY ThreadFacts, SpawnFacts, StageFacts DEF Core, InLastTest, Phases, Entered

LEMMA CallersEntered ==
    ASSUME CallsMatch, NEW t \in Threads
    PROVE  /\ FifoOp(t) \in {"acquire", "waiting"} => pc[t] \in Entered
           /\ FifoOp(t) = "release" => pc[t] \in Left
BY OpOfLabel DEF CallsMatch, AcqLabels, RelLabels

(* While it is not the turn of t, the one whose turn it is has asked: it   *)
(* waits in line or holds the lock.                                        *)
LEMMA TurnHasAsked ==
    ASSUME Core, InLastTest, InTurn, NEW t \in Spawned, pc[t] = "turn", t # progress
    PROVE  /\ progress \in Spawned /\ progress < t /\ pc[progress] = "turn"
           /\ FifoOp(progress) = "waiting" \/ Holds(progress)
<1>1. t \in Nat /\ t <= nr_testers - 1 /\ nr_testers \in Nat /\ progress \in Nat
  BY SpawnFacts DEF Core, InTurn
<1>2. ~(t < progress)
  BY DEF InTurn
<1>3. progress < t /\ progress \in Spawned
  BY <1>1, <1>2 DEF Spawned
<1>4. Asked(progress)
  BY <1>3 DEF InTurn
<1>5. ~(progress < progress)
  BY <1>1
<1>6. pc[progress] = "turn"
  BY <1>3, <1>4, <1>5 DEF InTurn, Asked
<1>7. FifoOp(progress) \in {"idle", "release", "waiting", "done"}
  BY <1>4, OpOfLabel DEF Asked
<1> QED
  BY <1>3, <1>6, <1>7 DEF Holds, Critical

LEMMA NapKeepsTurns ==
    ASSUME Core, InLastTest, InTurn, Punctual, NEW t \in Spawned, Nap(t),
           UNCHANGED <<lock_type, nr_testers>>
    PROVE  InTurn'
<1> USE DEF Nap, Runs, Pc, At
<1>1. Still /\ Spawned' = Spawned
  BY NothingMoves DEF Spawned
<1>2. /\ pc[t] = "nap" /\ pc'[t] = "lock5" /\ \A u \in Spawned \ {t} : pc'[u] = pc[u]
  BY SpawnFacts DEF Core, TestTyped
<1>3. \A u \in Spawned : FifoOp(u)' = FifoOp(u)
  BY <1>1, SpawnFacts DEF Still, Core
<1>4. \A u \in Spawned : u < t => Asked(u)
  <2> TAKE u \in Spawned
  <2>1. u < t => HasAsked(u)
    BY SpawnFacts DEF Core
  <2> QED
    BY <2>1, OpOfLabel DEF HasAsked, Asked
<1>5. \A u \in Spawned : Asked(u) => Asked(u)'
  BY <1>2, <1>3 DEF Asked
<1>6. ~Asked(t)
  BY <1>2 DEF Asked
<1>7. \A x, y \in Spawned : y < x /\ pc'[x] # "nap" => Asked(y)'
  BY <1>2, <1>4, <1>5, <1>6 DEF InTurn
<1> QED
  BY <1>1, <1>2, <1>3, <1>7 DEF InTurn, Still

LEMMA LockKeepsTurns ==
    ASSUME Core, InLastTest, InTurn, lock_type = "mutex", NEW t \in Spawned, Lock(t, "lock5", "turn"),
           UNCHANGED <<lock_type, nr_testers>>
    PROVE  InTurn'
<1> USE DEF Lock, Runs, Pc, At
<1>0. t \in Threads /\ Spawned \subseteq Threads /\ Spawned' = Spawned
  BY SpawnFacts DEF Core, Spawned
<1>1. /\ FifoOp(t) = "idle" /\ FifoOp(t)' = "acquire" /\ Steady(t) /\ TheLine' = TheLine
  BY <1>0, CallMoves DEF Core, LibraryInv
<1>2. /\ pc[t] = "lock5" /\ pc'[t] = "turn" /\ \A u \in Spawned \ {t} : pc'[u] = pc[u]
  BY <1>0 DEF Core, TestTyped
<1>3. \A u \in Spawned \ {t} : FifoOp(u)' = FifoOp(u)
  BY <1>0, <1>1 DEF Steady
<1>4. \A u \in Spawned : Asked(u) => Asked(u)'
  BY <1>2, <1>3 DEF Asked
<1>5. \A x, y \in Spawned : y < x /\ pc'[x] # "nap" => Asked(y)'
  BY <1>2, <1>4 DEF InTurn
<1> QED
  BY <1>0, <1>1, <1>2, <1>3, <1>5 DEF InTurn

LEMMA TurnKeepsTurns ==
    ASSUME Core, InLastTest, InTurn, NEW t \in Spawned, Turn(t), UNCHANGED <<lock_type, nr_testers>>
    PROVE  InTurn' /\ t = progress
<1> USE DEF Turn, Runs, Pc, At
<1>1. Still /\ Spawned' = Spawned /\ Spawned \subseteq Threads
  BY NothingMoves, SpawnFacts DEF Spawned, Core
<1>2. /\ pc[t] = "turn" /\ pc'[t] = "unlock5" /\ \A u \in Spawned \ {t} : pc'[u] = pc[u]
  BY <1>1 DEF Core, TestTyped
<1>3. \A u \in Spawned : FifoOp(u)' = FifoOp(u)
  BY <1>1 DEF Still
<1>4. t = progress
  BY <1>1, <1>2, PlainOp DEF InTurn
<1>5. /\ \A u \in Spawned : u \in Nat /\ u <= nr_testers - 1
      /\ nr_testers \in Nat /\ progress' = progress + 1
  BY SpawnFacts DEF Core
<1>6. progress' \in 0 .. nr_testers
  BY <1>4, <1>5
<1>7. \A u \in Spawned : pc'[u] \in {"unlock5", "barrier3", "exited"} <=> u < progress'
  <2> TAKE u \in Spawned
  <2>1. CASE u = t
    BY <1>2, <1>4, <1>5, <2>1
  <2>2. CASE u # t
    <3>1. u < progress' <=> u < progress
      BY <1>4, <1>5, <2>2
    <3> QED
      BY <1>2, <2>2, <3>1 DEF InTurn
  <2> QED
    BY <2>1, <2>2
<1>8. \A u \in Spawned : Asked(u) => Asked(u)'
  BY <1>2, <1>3 DEF Asked
<1>9. \A x, y \in Spawned : y < x /\ pc'[x] # "nap" => Asked(y)'
  BY <1>2, <1>8 DEF InTurn
<1>10. \A u \in Spawned : ~(pc'[u] = "turn" /\ FifoOp(u)' \in {"idle", "done"})
  BY <1>2, <1>3, <1>4 DEF InTurn
<1> QED
  BY <1>1, <1>4, <1>6, <1>7, <1>9, <1>10 DEF InTurn, Still

LEMMA UnlockKeepsTurns ==
    ASSUME Core, InLastTest, InTurn, lock_type = "mutex", NEW t \in Spawned,
           UnlockStep(t, "unlock5", "barrier3"), UNCHANGED <<lock_type, nr_testers>>
    PROVE  InTurn'
<1> USE DEF UnlockStep, Runs, Pc, At
<1>0. t \in Threads /\ Spawned \subseteq Threads /\ Spawned' = Spawned
  BY SpawnFacts DEF Core, Spawned
<1>1. /\ FifoOp(t) = "idle" /\ FifoOp(t)' = "release" /\ Steady(t) /\ TheLine' = TheLine
  BY <1>0, CallMoves DEF Core, LibraryInv
<1>2. /\ pc[t] = "unlock5" /\ pc'[t] = "barrier3" /\ \A u \in Spawned \ {t} : pc'[u] = pc[u]
  BY <1>0 DEF Core, TestTyped
<1>3. \A u \in Spawned \ {t} : FifoOp(u)' = FifoOp(u)
  BY <1>0, <1>1 DEF Steady
<1>4. \A u \in Spawned : Asked(u) => Asked(u)'
  BY <1>1, <1>2, <1>3 DEF Asked
<1>5. \A x, y \in Spawned : y < x /\ pc'[x] # "nap" => Asked(y)'
  BY <1>2, <1>4 DEF InTurn
<1> QED
  BY <1>0, <1>1, <1>2, <1>3, <1>5 DEF InTurn

(* The testers get in one after the other.                                 *)
LEMMA TesterKeepsOrder ==
    ASSUME Core, Order, Punctual, lock_type = "mutex", NEW t \in Testers, Tester(t)
    PROVE  Order'
<1>0. /\ t \in Threads /\ t # Main
      /\ UNCHANGED <<lock_type, nr_testers>>
      /\ TestTyped /\ LibraryInv /\ CallsMatch /\ Phases /\ Exclusion /\ Marks
  BY ThreadFacts DEF Core, Tester
<1>1. PICK from, to : Arc(t, from, to) /\ Runs(t, from)
  BY TesterArc
<1>2. (InLastTest' <=> InLastTest) /\ Spawned' = Spawned
  BY <1>0, <1>1, ArcKeepsPhases
<1>3. t \in Spawned
  BY <1>1, <1>0, ThreadFacts DEF Phases, Arc, TesterArcs
<1>4. CASE ~InLastTest
  <2>1. pc[t] # "turn"
    BY <1>0, <1>3, <1>4, StageFacts DEF Phases, InLastTest, MainLabels
  <2>2. UNCHANGED <<progress, lock_in_order>>
    BY <2>1 DEF Tester, Loop, Lock, Mark, UnlockStep, Nap, Turn, Runs
  <2> QED
    BY <1>2, <1>4, <2>2 DEF Order
<1>5. CASE InLastTest
  <2>0. /\ pc[t] \in {"nap", "lock5", "turn", "unlock5", "barrier3", "exited"}
        /\ InTurn /\ lock_in_order
    BY <1>3, <1>5, LastTestFacts DEF Order
  <2>1. CASE Nap(t)
    BY <1>0, <1>2, <1>3, <1>5, <2>0, <2>1, NapKeepsTurns DEF Order, Nap
  <2>2. CASE Lock(t, "lock5", "turn")
    BY <1>0, <1>2, <1>3, <1>5, <2>0, <2>2, LockKeepsTurns DEF Order, Lock
  <2>3. CASE Turn(t)
    BY <1>0, <1>2, <1>3, <1>5, <2>0, <2>3, TurnKeepsTurns DEF Order, Turn
  <2>4. CASE UnlockStep(t, "unlock5", "barrier3")
    BY <1>0, <1>2, <1>3, <1>5, <2>0, <2>4, UnlockKeepsTurns DEF Order, UnlockStep
  <2> QED
    BY <2>0, <2>1, <2>2, <2>3, <2>4 DEF Tester, Loop, Lock, Mark, UnlockStep, Runs
<1> QED
  BY <1>4, <1>5

(* What main does, the barriers apart, is no part of the last test.        *)
LEMMA MainKeepsOrder ==
    ASSUME Core, Order, MainStep
    PROVE  Order'
<1>0. /\ Main \in Threads /\ Main \notin Testers /\ Spawned \subseteq Testers
      /\ UNCHANGED <<lock_type, nr_testers, progress, lock_in_order>>
      /\ TestTyped
  BY ThreadFacts, SpawnFacts DEF Core, MainStep, Lock, Mark, SpawnTesters, Release1, UnlockStep,
     NextRound, StopTesting, Verdict
<1>1. pc \in [Threads -> TesterLabels \cup MainLabels]
  BY <1>0 DEF TestTyped
<1>2. CASE Verdict
  <2>1. /\ pc' = [pc EXCEPT ![Main] = "exited"] /\ pc[Main] = "join" /\ Still
    BY <1>0, <1>2, NothingMoves DEF Verdict, Runs, Pc
  <2>2. InLastTest /\ InLastTest' /\ Spawned' = Spawned
    BY <1>0, <1>1, <2>1 DEF InLastTest, Spawned
  <2>3. \A u \in Spawned : pc'[u] = pc[u] /\ FifoOp(u)' = FifoOp(u)
    BY <1>0, <1>1, <2>1, ThreadFacts DEF Still
  <2>4. InTurn
    BY <2>2 DEF Order
  <2>5. InTurn'
    BY <1>0, <2>1, <2>2, <2>3, <2>4 DEF InTurn, Asked, Still
  <2> QED
    BY <1>0, <2>2, <2>5 DEF Order
<1>3. CASE ~Verdict
  <2>1. ~InLastTest /\ ~InLastTest'
    <3> USE DEF Runs, Pc, InLastTest
    <3>1. CASE \/ Lock(Main, "lock1", "mark") \/ Lock(Main, "lock3", "unlock3")
               \/ Lock(Main, "lock4", "unlock4") \/ Mark(Main, "mark", 0, 1, "spawn")
               \/ Mark(Main, "unmark", 1, 0, "check")
      BY <1>0, <1>1, <3>1 DEF Lock, Mark
    <3>2. CASE \/ UnlockStep(Main, "unlock1", "lock3") \/ UnlockStep(Main, "unlock3", "round")
               \/ UnlockStep(Main, "unlock4", "stop")
      BY <1>0, <1>1, <3>2 DEF UnlockStep
    <3>3. CASE SpawnTesters \/ Release1
      BY <1>0, <1>1, <3>3 DEF SpawnTesters, Release1
    <3>4. CASE NextRound \/ StopTesting
      BY <1>0, <1>1, <3>4 DEF NextRound, StopTesting
    <3> QED
      BY <1>3, <3>1, <3>2, <3>3, <3>4 DEF MainStep
  <2> QED
    BY <1>0, <2>1 DEF Order
<1> QED
  BY <1>2, <1>3

(* Nobody is in a call when a barrier opens, so that nobody waits in line. *)
LEMMA BarrierKeepsOrder ==
    ASSUME Core, Order, lock_type = "mutex", Barrier
    PROVE  Order'
<1>0. /\ TestTyped /\ LibraryInv /\ CallsMatch /\ Phases /\ IInv
  BY DEF Core, LibraryInv
<1>a. UNCHANGED <<semVars, lock_type, nr_testers, progress, lock_in_order>>
  BY DEF Barrier
<1>b. PICK b \in {"barrier1", "barrier2", "barrier3"} :
        /\ \A t \in Spawned \cup {Main} :
              pc[t] = b /\ lpc[t] = "out" /\ pc'[t] = AfterBarrier(t)
        /\ \A t \in Testers \ Spawned : pc[t] = "unborn" /\ pc'[t] = "unborn"
  BY <1>0, BarrierMeets
<1>c. Spawned' = Spawned /\ Still /\ lock_in_order
  BY <1>a, NothingMoves DEF Spawned, Order
<1>d. \A u \in Spawned : u \in Threads /\ u \in Nat /\ u < nr_testers /\ u # Main
  BY <1>0, SpawnFacts
<1>e. \A u \in Threads : FifoOp(u) = "idle"
  <2>1. \A u \in Testers \ Spawned : lpc[u] = "out"
    BY <1>0, <1>b, OutsideCalls, ThreadFacts DEF Entered, Left
  <2> QED
    BY <1>b, <2>1, PlainOp, ThreadFacts
<1>f. \A u \in Threads : FifoOp(u)' = "idle"
  BY <1>c, <1>e DEF Still
<1>1. CASE b = "barrier1"
  <2>1. ~InLastTest /\ ~InLastTest'
    BY <1>b, <1>1 DEF InLastTest, AfterBarrier
  <2> QED
    BY <1>a, <2>1 DEF Order
<1>2. CASE b = "barrier2"
  <2>1. progress = 0
    BY <1>b, <1>2 DEF InLastTest, Order
  <2>2. InLastTest' /\ \A u \in Spawned : pc'[u] = "nap"
    BY <1>b, <1>d, <1>2 DEF InLastTest, AfterBarrier
  <2>3. Len(TheLine) = 0
    <3>1. TheLine \in Seq(Threads)
      BY <1>0, WaitersAreInLine
    <3>2. Len(TheLine) \in Nat
      BY <3>1, LenProperties
    <3>3. ASSUME NEW k \in 1 .. Len(TheLine) PROVE FALSE
      <4>1. PICK x \in Threads : x = TheLine[k]
        BY <3>1
      <4>2. FifoOp(x) = "waiting"
        BY <1>0, <4>1, WaitersAreInLine
      <4> QED
        BY <1>e, <4>2
    <3> QED
      BY <3>2, <3>3
  <2>4. \A k \in 1 .. Len(TheLine)' : FALSE
    <3>1. Len(TheLine)' = 0
      BY <1>c, <2>3 DEF Still
    <3> QED
      BY <3>1
  <2>5. progress' \in 0 .. nr_testers'
    BY <1>0, <1>a, <2>1, SpawnFacts
  <2>6. \A u \in Spawned : ~(u < progress')
    BY <1>a, <1>d, <2>1
  <2>7. InTurn'
    BY <1>c, <2>2, <2>4, <2>5, <2>6 DEF InTurn
  <2> QED
    BY <1>a, <1>c, <2>2, <2>7 DEF Order
<1>3. CASE b = "barrier3"
  <2>1. InLastTest /\ InLastTest'
    BY <1>b, <1>3 DEF InLastTest, AfterBarrier
  <2>2. InTurn
    BY <2>1 DEF Order
  <2>3. \A u \in Spawned : pc[u] = "barrier3" /\ pc'[u] = "exited"
    BY <1>b, <1>d, <1>3 DEF AfterBarrier
  <2>4. \A u \in Spawned : Asked(u)'
    BY <1>d, <1>f, <2>3 DEF Asked
  <2>5. InTurn'
    BY <1>a, <1>c, <2>2, <2>3, <2>4 DEF InTurn, Still
  <2> QED
    BY <1>a, <1>c, <2>1, <2>5 DEF Order
<1> QED
  BY <1>1, <1>2, <1>3

(* The lock is granted in the order of the ids: to the one whose turn it   *)
(* is when it is free, to the first in line when it is released.           *)
LEMMA LibraryKeepsTurns ==
    ASSUME Core, InLastTest, InTurn, lock_type = "mutex", UNCHANGED testVars,
           NEW t \in Threads, LibStep(t)
    PROVE  InTurn'
<1>0. /\ TestTyped /\ LibraryInv /\ CallsMatch /\ Phases /\ Exclusion /\ IInv
      /\ UNCHANGED <<pc, nr_testers, lock_type, progress>>
      /\ Spawned' = Spawned /\ Spawned \subseteq Threads
  BY SpawnFacts DEF Core, LibraryInv, testVars, Spawned
<1>a. \A u \in Threads : pc[u] \in Entered => u \in Spawned /\ pc[u] = "turn"
  BY LastTestFacts
<1>b. \A u \in Spawned : u \in Nat
  BY <1>0, SpawnFacts
<1>c. progress \in Nat
  BY <1>0 DEF TestTyped
<1>t. /\ TheLine \in Seq(Threads)
      /\ \A k \in 1 .. Len(TheLine) : FifoOp(TheLine[k]) = "waiting" /\ TheLine[k] \in Spawned
      /\ Len(TheLine) \in Nat
  <2>1. TheLine \in Seq(Threads)
    BY <1>0, WaitersAreInLine
  <2>2. ASSUME NEW k \in 1 .. Len(TheLine)
        PROVE  FifoOp(TheLine[k]) = "waiting" /\ TheLine[k] \in Spawned
    <3>1. PICK x \in Threads : x = TheLine[k]
      BY <2>1
    <3>2. FifoOp(x) = "waiting"
      BY <1>0, <3>1, WaitersAreInLine
    <3>3. x \in Spawned
      BY <1>0, <1>a, <3>2, CallersEntered
    <3> QED
      BY <3>1, <3>2, <3>3
  <2> QED
    BY <2>1, <2>2, LenProperties
(* It is enough to look at the line and at the one who gets in.            *)
<1>d. ASSUME \A u \in Spawned : FifoOp(u) # "acquire" => FifoOp(u)' # "acquire",
             \A k, l \in 1 .. Len(TheLine)' : k < l => TheLine'[k] < TheLine'[l],
             \A u \in Spawned : pc[u] = "turn" /\ FifoOp(u)' \in {"idle", "done"} => u = progress
      PROVE  InTurn'
  <2>1. \A u \in Spawned : Asked(u) => Asked(u)'
    BY <1>0, <1>d DEF Asked
  <2> QED
    BY <1>0, <1>d, <2>1 DEF InTurn
<1>e. \A u \in Spawned : pc[u] = "turn" /\ FifoOp(u) \in {"idle", "done"} => u = progress
  BY DEF InTurn
<1>f. \A k, l \in 1 .. Len(TheLine) : k < l => TheLine[k] < TheLine[l]
  BY DEF InTurn
<1>g. TheLine' = TheLine =>
        \A k, l \in 1 .. Len(TheLine)' : k < l => TheLine'[k] < TheLine'[l]
  BY <1>f
<1>1. CASE Takes(t)
  <2>1. pc[t] = "turn" /\ t \in Spawned
    BY <1>0, <1>1, <1>a, CallersEntered DEF Takes
  <2>2. t = progress
    <3>1. SUFFICES ASSUME t # progress PROVE FALSE
      OBVIOUS
    <3>2. progress \in Spawned /\ (FifoOp(progress) = "waiting" \/ Holds(progress))
      BY <2>1, <3>1, TurnHasAsked
    <3>3. Free = 1
      BY <1>0, <1>1 DEF Takes, Exclusion
    <3> QED
      BY <1>0, <3>2, <3>3 DEF Exclusion
  <2>3. \A u \in Spawned \ {t} : FifoOp(u)' = FifoOp(u)
    BY <1>0, <1>1 DEF Takes, Steady
  <2> QED
    BY <1>1, <1>d, <1>e, <1>g, <2>2, <2>3 DEF Takes
<1>2. CASE JoinsLine(t)
  <2>1. pc[t] = "turn" /\ t \in Spawned
    BY <1>0, <1>2, <1>a, CallersEntered DEF JoinsLine
  <2>2. \A u \in Spawned \ {t} : FifoOp(u)' = FifoOp(u)
    BY <1>0, <1>2 DEF JoinsLine, Steady
  <2>3. \A k \in 1 .. Len(TheLine) : TheLine[k] < t
    <3> TAKE k \in 1 .. Len(TheLine)
    <3>1. PICK x \in Spawned : x = TheLine[k] /\ FifoOp(x) = "waiting"
      BY <1>t
    <3>2. pc[x] = "turn" /\ x # t
      BY <1>0, <1>2, <1>a, <3>1, CallersEntered DEF JoinsLine
    <3>3. ~(t < x)
      <4>1. ~Asked(t)
        BY <1>2 DEF JoinsLine, Asked
      <4> QED
        BY <2>1, <3>2, <4>1 DEF InTurn
    <3> QED
      BY <1>b, <2>1, <3>1, <3>2, <3>3
  <2>4. TheLine' = Append(TheLine, t)
    BY <1>2 DEF JoinsLine
  <2>5. /\ Len(TheLine') = Len(TheLine) + 1
        /\ \A k \in 1 .. Len(TheLine) : TheLine'[k] = TheLine[k]
        /\ TheLine'[Len(TheLine) + 1] = t
    BY <1>t, <2>4, AppendFacts
  <2>6. \A k, l \in 1 .. Len(TheLine') : k < l => TheLine'[k] < TheLine'[l]
    <3> TAKE k, l \in 1 .. Len(TheLine')
    <3>1. CASE l \in 1 .. Len(TheLine)
      <4>1. k < l => k \in 1 .. Len(TheLine)
        BY <1>t, <2>5, <3>1
      <4> QED
        BY <1>f, <2>5, <3>1, <4>1
    <3>2. CASE l = Len(TheLine) + 1
      <4>1. k < l => k \in 1 .. Len(TheLine)
        BY <1>t, <2>5, <3>2
      <4> QED
        BY <2>3, <2>5, <3>2, <4>1
    <3> QED
      BY <1>t, <2>5, <3>1, <3>2
  <2> QED
    BY <1>2, <1>d, <1>e, <2>2, <2>6 DEF JoinsLine
<1>3. CASE GivesUp(t)
  <2>1. pc[t] # "turn"
    BY <1>0, <1>3, CallersEntered DEF GivesUp, Left
  <2>2. \A u \in Spawned \ {t} : FifoOp(u)' = FifoOp(u)
    BY <1>0, <1>3 DEF GivesUp, Steady
  <2> QED
    BY <1>3, <1>d, <1>e, <1>g, <2>1, <2>2 DEF GivesUp
<1>4. CASE HandsOver(t)
  <2>0. PICK h \in Threads \ {t} :
          /\ h = TheLine[1] /\ FifoOp(h) = "waiting" /\ FifoOp(h)' = "done"
          /\ \A u \in Threads \ {t, h} : FifoOp(u)' = FifoOp(u)
    BY <1>4 DEF HandsOver
  <2>1. h \in Spawned /\ pc[h] = "turn"
    BY <1>0, <1>a, <2>0, CallersEntered
  <2>2. pc[t] # "turn" /\ FifoOp(t) = "release" /\ Holds(t)
    BY <1>0, <1>4, CallersEntered DEF HandsOver, Left, Holds
  <2>3. h = progress
    <3>1. SUFFICES ASSUME h # progress PROVE FALSE
      OBVIOUS
    <3>2. /\ progress \in Spawned /\ progress < h /\ pc[progress] = "turn"
          /\ FifoOp(progress) = "waiting" \/ Holds(progress)
      BY <2>1, <3>1, TurnHasAsked
    <3>3. ~Holds(progress)
      BY <1>0, <2>2, <3>2 DEF Exclusion
    <3>4. PICK k \in 1 .. Len(TheLine) : TheLine[k] = progress
      BY <1>0, <3>2, <3>3, WaitersAreInLine
    <3>5. k # 1
      BY <2>0, <3>1, <3>4
    <3>6. 1 < k /\ 1 \in 1 .. Len(TheLine)
      BY <1>t, <3>5
    <3>7. h < progress
      BY <1>f, <2>0, <3>4, <3>6
    <3> QED
      BY <1>b, <1>c, <2>1, <3>2, <3>7
  <2>4. TheLine' = Tail(TheLine) /\ TheLine # <<>>
    BY <1>4 DEF HandsOver
  <2>5. /\ Len(TheLine') = Len(TheLine) - 1
        /\ \A k \in 1 .. Len(TheLine) - 1 : TheLine'[k] = TheLine[k + 1]
    BY <1>t, <2>4, TailFacts
  <2>6. \A k, l \in 1 .. Len(TheLine') : k < l => TheLine'[k] < TheLine'[l]
    <3> TAKE k, l \in 1 .. Len(TheLine')
    <3>1. k + 1 \in 1 .. Len(TheLine) /\ l + 1 \in 1 .. Len(TheLine)
      BY <1>t, <2>5
    <3>2. TheLine'[k] = TheLine[k + 1] /\ TheLine'[l] = TheLine[l + 1]
      BY <1>t, <2>5
    <3> QED
      BY <1>f, <3>1, <3>2
  <2>7. \A u \in Spawned \ {t, h} : FifoOp(u)' = FifoOp(u)
    BY <1>0, <2>0
  <2>8. FifoOp(t)' = "done"
    BY <1>4 DEF HandsOver
  <2> QED
    BY <1>d, <1>e, <2>0, <2>2, <2>3, <2>6, <2>7, <2>8
<1>5. CASE Returns(t)
  <2>1. \A u \in Spawned \ {t} : FifoOp(u)' = FifoOp(u)
    BY <1>0, <1>5 DEF Returns, Steady
  <2> QED
    BY <1>5, <1>d, <1>e, <1>g, <2>1 DEF Returns
<1>6. CASE Still
  <2>1. \A u \in Spawned : FifoOp(u)' = FifoOp(u)
    BY <1>0, <1>6 DEF Still
  <2> QED
    BY <1>6, <1>d, <1>e, <1>g, <2>1 DEF Still
<1> QED
  BY <1>0, <1>1, <1>2, <1>3, <1>4, <1>5, <1>6, LibraryMoves

LEMMA LibraryKeepsOrder ==
    ASSUME Core, Order, lock_type = "mutex", UNCHANGED testVars, NEW t \in Threads, LibStep(t)
    PROVE  Order'
<1>1. UNCHANGED <<pc, progress, lock_in_order>> /\ (InLastTest' <=> InLastTest)
  BY DEF testVars, InLastTest
<1> QED
  BY <1>1, LibraryKeepsTurns DEF Order

-----------------------------------------------------------------------------
(* The whole: the tester over the locks that work.                         *)

LEMMA DraftsInitInv ==
    ASSUME DraftsInit
    PROVE  PassInv
<1> USE DEF DraftsInit, TestInit
<1>0. Init
  OBVIOUS
<1>1. TestTyped
  <2>1. nr_testers \in 1 .. NrTesters
    BY LockDraftsAssumption, ThreadFacts
  <2>2. pc \in [Threads -> TesterLabels \cup MainLabels]
    BY DEF TesterLabels, MainLabels
  <2>3. lock_type \in {"spinlock", "mutex"}
    BY LockTesterAssumption
  <2> QED
    BY <2>1, <2>2, <2>3 DEF TestTyped
<1>2. \A u \in Threads : lpc[u] = "out" /\ FifoOp(u) = "idle"
  BY PlainOp DEF Init
<1>3. IInv
  BY <1>0, InitIInv
<1>4. LibraryInv
  BY <1>2, <1>3 DEF LibraryInv, Init
<1>5. CallsMatch
  BY <1>2 DEF CallsMatch, AcqLabels, RelLabels
<1>6. Phases
  BY <1>1, SpawnFacts, ThreadFacts, StageFacts DEF Phases, MainLabels
<1>7. Exclusion
  <2>1. Free = 1
    BY ThreadFacts DEF Free, FifoFree, Init
  <2>2. \A u \in Threads : ~Holds(u)
    BY <1>2, ThreadFacts DEF Holds, Critical
  <2> QED
    BY <1>2, <2>1, <2>2 DEF Exclusion
<1>8. Marks
  BY ThreadFacts DEF Marks, Marked
<1>9. Verdicts /\ Order
  BY ThreadFacts DEF Verdicts, Order, InLastTest
<1> QED
  BY <1>1, <1>4, <1>5, <1>6, <1>7, <1>8, <1>9 DEF PassInv, Core

(* A thread in no call takes no step in the library.                       *)
LEMMA NoLibraryStep ==
    ASSUME NEW t, lpc[t] = "out"
    PROVE  ~DraftLibrary(t)
<1> USE DEF At
<1>1. /\ ~spinlock_acquire_mutex(t) /\ ~spinlock_release_mutex(t)
  BY DEF spinlock_acquire_mutex, spinlock_release_mutex
<1>2. ~AcqStep(t)
  BY DEF AcqStep, AcqCas, AcqDec, AcqFree, AcqAdd, AcqMask, AcqDrop, AcqWait
<1>3. ~RelStep(t)
  BY DEF RelStep, RelCas, RelInc, RelFree, RelPop, RelDrop, RelKill
<1>4. ~trying_buffer_acquire_mutex(t)
  BY DEF trying_buffer_acquire_mutex, AcqCas, TbDec, TbDrop, TbTest, AcqAdd, TbMask, AcqWait
<1>5. ~trying_buffer_release_mutex(t)
  BY DEF trying_buffer_release_mutex, RelCas, TbInc, TbDrop, TbTest, TbPop, RelKill
<1>6. ~mutex_acquire_mutex(t) /\ ~mutex_release_mutex(t)
  BY <1>2 DEF mutex_acquire_mutex, mutex_release_mutex, RelCas, RelInc, RelFree, RelPop, RelDrop,
              mutex_pthread_kill
<1> QED
  BY <1>1, <1>2, <1>3, <1>4, <1>5, <1>6
  DEF DraftLibrary, trying_buffer2_acquire_mutex, trying_buffer2_release_mutex, LibStep

(* mutex.c never signals a thread that does not block the signal, so that  *)
(* it does not matter what SIGCONT would do to one.                        *)
LEMMA ContinueIsKill ==
    ASSUME IInv, NEW t \in Threads, mutex_pthread_kill(t)
    PROVE  RelKill(t)
<1> USE DEF mutex_pthread_kill
<1>1. gthread[t] # NoThread /\ lpc[gthread[t]] = "acqWait"
  BY DEF IInv, PoppedInv, At
<1>2. gthread[t] \in Threads
  BY <1>1 DEF IInv, TypeOK
<1>3. gthread[t] \in masked
  BY <1>1, <1>2 DEF IInv, SignalInv
<1>4. {gthread[t]} \cap masked = {gthread[t]}
  BY <1>3
<1> QED
  BY <1>3, <1>4, Zenon DEF RelKill

(* The library steps of the mutexes that work are those of pa3.c.          *)
LEMMA WorkingLibraryStep ==
    ASSUME Works, Core, NEW t \in Threads, DraftLibrary(t)
    PROVE  lock_type = "mutex" /\ UNCHANGED <<testVars, version>> /\ LibStep(t)
<1>1. lock_type = "mutex"
  <2>1. lock_type = "spinlock" => lpc[t] = "out"
    BY DEF Core, LibraryInv
  <2> QED
    BY <2>1, NoLibraryStep DEF Core, TestTyped
<1>2. version \in {"mutex", "trying_buffer2", "pa3"}
  BY <1>1 DEF Works
<1>3. IInv
  BY <1>1 DEF Core, LibraryInv
<1>4. CASE version = "mutex"
  BY <1>1, <1>3, <1>4, ContinueIsKill
  DEF DraftLibrary, mutex_acquire_mutex, mutex_release_mutex, LibStep, RelStep
<1>5. CASE version = "trying_buffer2"
  BY <1>1, <1>5 DEF DraftLibrary, trying_buffer2_acquire_mutex, trying_buffer2_release_mutex, LibStep
<1>6. CASE version = "pa3"
  BY <1>1, <1>6 DEF DraftLibrary
<1> QED
  BY <1>1, <1>2, <1>4, <1>5, <1>6 DEF DraftLibrary

LEMMA TestStepKeepsPass ==
    ASSUME PassInv, TestStep
    PROVE  PassInv'
<1>0. Core
  BY DEF PassInv
<1>1. UNCHANGED lock_type
  BY DEF TestStep, Tester, MainStep, Barrier
<1>2. ASSUME NEW t \in Testers, Tester(t) PROVE PassInv'
  <2>1. Core' /\ Verdicts'
    BY <1>0, <1>2, TesterKeepsCore DEF Verdicts
  <2>2. Punctual /\ lock_type' = "mutex" => Order'
    BY <1>0, <1>1, <1>2, TesterKeepsOrder DEF PassInv
  <2> QED
    BY <2>1, <2>2 DEF PassInv
<1>3. CASE MainStep
  <2>1. Core' /\ Verdicts'
    BY <1>0, <1>3, MainKeepsCore DEF Verdicts
  <2>2. Punctual /\ lock_type' = "mutex" => Order'
    BY <1>0, <1>1, <1>3, MainKeepsOrder DEF PassInv
  <2> QED
    BY <2>1, <2>2 DEF PassInv
<1>4. CASE Barrier
  <2>1. Core' /\ Verdicts'
    BY <1>0, <1>4, BarrierKeepsCore DEF Verdicts
  <2>2. Punctual /\ lock_type' = "mutex" => Order'
    BY <1>0, <1>1, <1>4, BarrierKeepsOrder DEF PassInv
  <2> QED
    BY <2>1, <2>2 DEF PassInv
<1> QED
  BY <1>2, <1>3, <1>4 DEF TestStep

LEMMA LibraryKeepsPass ==
    ASSUME PassInv, lock_type = "mutex", UNCHANGED testVars, NEW t \in Threads, LibStep(t)
    PROVE  PassInv'
<1>1. Core'
  BY LibraryKeepsCore DEF PassInv
<1>2. Verdicts'
  BY DEF PassInv, Verdicts, testVars
<1>3. Punctual /\ lock_type' = "mutex" => Order'
  BY LibraryKeepsOrder DEF PassInv
<1> QED
  BY <1>1, <1>2, <1>3 DEF PassInv

LEMMA PassStutters ==
    ASSUME PassInv, UNCHANGED <<semVars, testVars>>
    PROVE  PassInv'
<1>1. [Next]_semVars /\ Still
  BY NothingMoves DEF testVars
<1>2. IInv => IInv'
  BY <1>1, NextKeepsIInv
<1>3. /\ TestTyped' /\ LibraryInv' /\ CallsMatch' /\ Phases' /\ Marks'
  BY <1>2 DEF PassInv, Core, testVars, semVars, TestTyped, LibraryInv, CallsMatch, Phases, Marks,
     Marked, Spawned
<1>4. Exclusion'
  <2>1. \A u \in Threads : (Holds(u)' <=> Holds(u)) /\ FifoOp(u)' = FifoOp(u)
    BY <1>1 DEF Holds, Still, testVars
  <2> QED
    BY <1>1, <2>1, HoldsStays DEF Still, PassInv, Core, Exclusion
<1>5. Verdicts'
  BY DEF PassInv, Verdicts, testVars
<1>6. Order => Order'
  <2>1. UNCHANGED <<pc, progress, lock_in_order, nr_testers>> /\ Spawned' = Spawned
    BY DEF testVars, Spawned
  <2>2. Spawned \subseteq Threads
    BY SpawnFacts DEF PassInv, Core
  <2>3. InTurn => InTurn'
    BY <1>1, <2>1, <2>2 DEF InTurn, Asked, Still
  <2> QED
    BY <2>1, <2>3 DEF Order, InLastTest
<1> QED
  BY <1>3, <1>4, <1>5, <1>6 DEF PassInv, Core, testVars

LEMMA DraftsNextKeepsInv ==
    ASSUME DraftsInv, [DraftsNext]_draftVars
    PROVE  DraftsInv'
<1>0. UNCHANGED <<version, lock_type>> /\ (Works' <=> Works)
  <2>1. UNCHANGED <<version, lock_type>>
    BY DEF DraftsNext, draftVars, vars, testVars, DraftStep, DraftLibrary, DraftEnd,
       spinlock_spinlock, trying_mutex_spinlock, trying_buffer_spinlock, mutex_spinlock,
       trying_buffer2_spinlock, pa3_spinlock, SpinTest, TestStep, Tester, MainStep, Barrier,
       trying_mutex_init_mutex
  <2> QED
    BY <2>1 DEF Works
<1> SUFFICES ASSUME Works PROVE PassInv'
  BY <1>0 DEF DraftsInv
<1>1. PassInv
  BY DEF DraftsInv
<1>2. CASE TestStep
  BY <1>1, <1>2, TestStepKeepsPass
<1>3. CASE trying_mutex_init_mutex
  BY <1>3 DEF trying_mutex_init_mutex, Works
<1>4. ASSUME NEW t \in Threads, DraftLibrary(t) PROVE PassInv'
  BY <1>1, <1>4, WorkingLibraryStep, LibraryKeepsPass DEF PassInv
<1>5. CASE UNCHANGED draftVars
  BY <1>1, <1>5, PassStutters DEF draftVars, vars
<1> QED
  BY <1>2, <1>3, <1>4, <1>5
  DEF DraftsNext, DraftStep, DraftEnd, SpinTest, spinlock_spinlock, trying_mutex_spinlock,
      trying_buffer_spinlock, mutex_spinlock, trying_buffer2_spinlock, pa3_spinlock

LEMMA DraftsAlways == DraftsSpec => []DraftsInv
<1>1. DraftsInit => DraftsInv
  BY DraftsInitInv DEF DraftsInv
<1>2. DraftsInv /\ [DraftsNext]_draftVars => DraftsInv'
  BY DraftsNextKeepsInv
<1> QED
  BY <1>1, <1>2, PTL DEF DraftsSpec

(* Over every lock that works, whatever the sleeps of the testers: no      *)
(* assertion of tester.c (93, 99, 163, 171, 174, 227) fails but, perhaps,  *)
(* the last one (231), and no signal ends the test.                        *)
OnlyOrderMayFail == Works => (aborted => lock_type = "mutex" /\ ~lock_in_order) /\ ~killed

THEOREM OnlyOrderMayFailAlways == DraftsSpec => []OnlyOrderMayFail
<1>1. DraftsInv => OnlyOrderMayFail
  BY DEF DraftsInv, OnlyOrderMayFail, PassInv, Core, Verdicts, LibraryInv, TestTyped, IInv, SignalInv
<1> QED
  BY <1>1, DraftsAlways, PTL

(* No assertion of tester.c fails over a lock that works, the one about    *)
(* the order of the last test (231) included, if usleep(id * 10000) orders *)
(* the testers as that test assumes.                                       *)
THEOREM WorkingLocksPassAlways == DraftsSpec => [](Punctual => WorkingLocksPass)
<1>1. DraftsInv => (Punctual => WorkingLocksPass)
  BY DEF DraftsInv, WorkingLocksPass, AssertionsHold, PassInv, Core, Verdicts, LibraryInv,
         TestTyped, IInv, SignalInv, Order
<1> QED
  BY <1>1, DraftsAlways, PTL
=============================================================================
