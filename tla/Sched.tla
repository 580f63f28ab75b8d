------------------------------- MODULE Sched -------------------------------
(* The scheduling simulator of PA2: the main loop of sched.c and the seven policies of pa2.c *)
(* that it calls back. The program has one thread; an action is one call of the loop: the    *)
(* forks of a tick, the policy's schedule(), the switch from prev to current, an acquire(),  *)
(* the tick of work, a release().                                                            *)
(*                                                                                           *)
(* A policy and a script are picked once, in Init. What the program cannot survive stops the *)
(* model: pc becomes "null" where NULL is dereferenced, "corrupt" where a process is linked  *)
(* into a second list, and "assert" where an assertion of sched.c fails. A list that was     *)
(* tied to another one is not followed any further.                                          *)
EXTENDS Integers, SequencesExt

CONSTANTS
    NrProcesses, \* how many processes a script describes
    Resources,   \* the resources it names
    Cases        \* the policies and scripts to simulate, each a record [policy, script]

Pids == 1 .. NrProcesses  \* numbered in the order of the script
NoProcess == 0            \* NULL as a struct process *
MaxPrio == 64
SjfLimit == 100 \* lsChk

Request == [id : Resources, at : Nat, duration : Nat]

ASSUME NrProcessesAssumption == NrProcesses \in Nat
\* A request lasts, and the requests of a process differ.
ASSUME CasesAssumption ==
    \A c \in Cases :
        \A p \in Pids :
            LET d == c.script[p] IN
            /\ d.start \in Nat /\ d.prio \in Nat /\ d.lifespan \in Nat
            /\ d.acquire \in Seq(Request)
            /\ \A i \in DOMAIN d.acquire :
                /\ d.acquire[i].duration > 0
                /\ \A j \in DOMAIN d.acquire : d.acquire[i] = d.acquire[j] => i = j

VARIABLES
    policy,      \* sched
    script,      \* script[p]: start, lifespan, original priority and requests of process p
    ticks,       \* ticks
    pc,          \* the next call of the main loop
    current,     \* current
    prev,        \* the main loop's prev, while it needs it
    forkqueue,   \* __forkqueue
    readyqueue,  \* readyqueue
    waitqueue,   \* resources[r].waitqueue
    owner,       \* resources[r].owner
    status,      \* p->status
    age,         \* p->age
    prio,        \* p->prio
    toAcquire,   \* p->__resources_to_acquire
    holding      \* p->__resources_holding, whose durations count down

schedVars == <<policy, script, ticks, pc, current, prev, forkqueue, readyqueue, waitqueue, owner,
               status, age, prio, toAcquire, holding>>

Unfinished(p) == age[p] < script[p].lifespan
Linked(p) == \E s \in {forkqueue, readyqueue} \cup {waitqueue[r] : r \in Resources} : p \in ToSet(s)

\* A loop over s that keeps the first process no later one beats.
FirstBest(s, rank) ==
    s[CHOOSE i \in DOMAIN s :
        /\ \A j \in DOMAIN s : rank[s[j]] =< rank[s[i]]
        /\ \A j \in 1 .. (i - 1) : rank[s[j]] < rank[s[i]]]
Shortest(s) == FirstBest(s, [p \in Pids |-> -script[p].lifespan])
Highest(s) == FirstBest(s, prio)

\* What sched.c has loaded when the simulation of case c starts.
Load(c) ==
    /\ policy = c.policy
    /\ script = c.script
    /\ ticks = 0
    /\ pc = "fork"
    /\ current = NoProcess
    /\ prev = NoProcess
    /\ forkqueue = [p \in Pids |-> p]
    /\ readyqueue = <<>>
    /\ waitqueue = [r \in Resources |-> <<>>]
    /\ owner = [r \in Resources |-> NoProcess]
    /\ status = [p \in Pids |-> "ready"]
    /\ age = [p \in Pids |-> 0]
    /\ prio = [p \in Pids |-> script[p].prio]
    /\ toAcquire = [p \in Pids |-> script[p].acquire]
    /\ holding = [p \in Pids |-> <<>>]

Init == \E c \in Cases : Load(c)

-----------------------------------------------------------------------------
(* The forks of a tick. *)

Due == {i \in DOMAIN forkqueue : script[forkqueue[i]].start =< ticks}

\* A round of the loop over __forkqueue that forks a process, or its end.
Fork ==
    /\ pc = "fork"
    /\ IF Due = {}
       THEN pc' = "schedule" /\ UNCHANGED <<forkqueue, readyqueue>>
       ELSE /\ readyqueue' = Append(readyqueue, forkqueue[Min(Due)])
            /\ forkqueue' = RemoveAt(forkqueue, Min(Due))
            /\ UNCHANGED pc
    /\ UNCHANGED <<policy, script, ticks, current, prev, waitqueue, owner, status, age, prio,
                   toAcquire, holding>>

-----------------------------------------------------------------------------
(* The policies. HasTime says that current may be given another tick. *)

HasTime == current # NoProcess /\ Unfinished(current)
Blocked == current # NoProcess /\ status[current] = "wait"
FirstReady == IF readyqueue = <<>> THEN NoProcess ELSE Head(readyqueue)

\* Bug variant: schedule() does not unlink the process it returns.
ReturnLinked(p) ==
    /\ current' = p
    /\ pc' = "switch"
    /\ UNCHANGED readyqueue
\* schedule() returns p, which it has unlinked.
Return(p) ==
    /\ current' = p
    /\ readyqueue' = RemoveFirst(readyqueue, p)
    /\ pc' = "switch"

\* schedule() has linked current into the ready queue, which is now q, and returns p.
PutBack(q, p) ==
    IF Blocked
    THEN pc' = "corrupt" /\ readyqueue' = q /\ UNCHANGED current
    ELSE pc' = "switch" /\ readyqueue' = RemoveFirst(q, p) /\ current' = p

Crash == pc' = "null" /\ UNCHANGED <<current, readyqueue>>

\* Bug variant: the running process gives way to the one that waited longest.
fifo_schedule_preempts ==
    IF HasTime /\ ~Blocked /\ readyqueue # <<>>
    THEN PutBack(Append(readyqueue, current), Head(readyqueue))
    ELSE IF HasTime /\ ~Blocked THEN Return(current) ELSE Return(FirstReady)
fifo_schedule ==
    IF HasTime /\ ~Blocked THEN Return(current) ELSE Return(FirstReady)

\* The search starts from the bound: a job that is no shorter is not found.
sjf_schedule ==
    IF HasTime THEN Return(current)
    ELSE IF readyqueue = <<>> THEN Return(NoProcess)
    ELSE IF script[Shortest(readyqueue)].lifespan >= SjfLimit THEN Crash
    ELSE Return(Shortest(readyqueue))

\* The loop starts from the first process that was ready before current came in front of it.
srtf_schedule ==
    LET q == <<current>> \o readyqueue IN
    IF readyqueue = <<>> THEN Return(IF HasTime THEN current ELSE NoProcess)
    ELSE IF HasTime THEN PutBack(q, Shortest(<<Head(readyqueue)>> \o q))
    ELSE Return(Shortest(readyqueue))

\* Bug variant: an idle tick is no different from a process that is done.
rr_schedule_idle ==
    IF readyqueue = <<>> THEN Return(IF HasTime THEN current ELSE NoProcess)
    ELSE IF HasTime THEN PutBack(Append(readyqueue, current), Head(readyqueue))
    ELSE Return(Head(readyqueue))
rr_schedule ==
    IF readyqueue = <<>> /\ current = NoProcess THEN Crash
    ELSE IF readyqueue = <<>> THEN Return(IF HasTime THEN current ELSE NoProcess)
    ELSE IF HasTime THEN PutBack(Append(readyqueue, current), Head(readyqueue))
    ELSE Return(Head(readyqueue))

\* Bug variant: current goes back to the head of the ready queue.
prio_schedule_head ==
    LET q == <<current>> \o readyqueue IN
    IF readyqueue = <<>> THEN Return(IF HasTime /\ ~Blocked THEN current ELSE NoProcess)
    ELSE IF HasTime /\ ~Blocked THEN PutBack(q, Highest(q))
    ELSE Return(Highest(readyqueue))
\* Bug variant: a blocked current is treated like one that is ready.
prio_schedule_blocked ==
    LET q == Append(readyqueue, current) IN
    IF readyqueue = <<>> THEN Return(IF HasTime THEN current ELSE NoProcess)
    ELSE IF HasTime THEN PutBack(q, Highest(q))
    ELSE Return(Highest(readyqueue))
prio_schedule ==
    LET q == Append(readyqueue, current) IN
    IF readyqueue = <<>> THEN Return(IF HasTime /\ ~Blocked THEN current ELSE NoProcess)
    ELSE IF HasTime /\ ~Blocked THEN PutBack(q, Highest(q))
    ELSE Return(Highest(readyqueue))

\* The main loop calls the policy's schedule().
Calls(schedule) ==
    /\ pc = "schedule"
    /\ prev' = current
    /\ schedule
    /\ UNCHANGED <<policy, script, ticks, forkqueue, waitqueue, owner, status, age, prio,
                   toAcquire, holding>>

Schedule ==
    Calls(\/ policy = "fifo" /\ fifo_schedule
          \/ policy = "sjf" /\ sjf_schedule
          \/ policy = "srtf" /\ srtf_schedule
          \/ policy = "rr" /\ rr_schedule
          \/ policy \in {"prio", "pcp", "pip"} /\ prio_schedule)

-----------------------------------------------------------------------------
(* From prev to current: prev is ready again or leaves, current runs if it is in no list.    *)

Finished == prev # NoProcess /\ age[prev] = script[prev].lifespan
ExitAsserts == ~Linked(prev) /\ holding[prev] = <<>> /\ toAcquire[prev] = <<>>
Retired ==
    [p \in Pids |-> IF p # prev THEN status[p]
                    ELSE IF Finished THEN "exit"
                    ELSE IF status[p] = "running" THEN "ready" ELSE status[p]]

\* Bug variant: the processes that are still to be forked do not count.
NoneReady == readyqueue = <<>>
NonePending == readyqueue = <<>> /\ forkqueue = <<>>

EndTick == ticks' = ticks + 1 /\ pc' = "fork"

Switch ==
    /\ pc = "switch"
    /\ prev' = NoProcess
    /\ UNCHANGED <<policy, script, current, forkqueue, readyqueue, waitqueue, owner, age, prio,
                   toAcquire, holding>>
    /\ IF Finished /\ ~ExitAsserts
       THEN pc' = "assert" /\ UNCHANGED <<ticks, status>>
       ELSE \/ /\ current # NoProcess
               /\ status' = [Retired EXCEPT ![current] = "running"]
               /\ pc' = IF Linked(current) THEN "assert" ELSE "run"
               /\ UNCHANGED ticks
            \/ /\ current = NoProcess
               /\ status' = Retired
               /\ IF NonePending
                  THEN pc' = "end" /\ UNCHANGED ticks
                  ELSE EndTick

-----------------------------------------------------------------------------
(* A tick of current: its requests one by one, its work, its releases one by one.            *)

\* Where the requests that are due stand, and the first of them.
Pending(p) == {i \in DOMAIN toAcquire[p] : toAcquire[p][i].at = age[p]}
NextRequest(p) == toAcquire[p][Min(Pending(p))]

\* The resource_id of acquire(). A resource that is free is taken, for one that is not current
\* waits at the end of the queue.
Asked == NextRequest(current).id
Free == owner[Asked] = NoProcess
Take ==
    /\ owner' = [owner EXCEPT ![Asked] = current]
    /\ UNCHANGED <<waitqueue, status>>
Wait ==
    /\ status' = [status EXCEPT ![current] = "wait"]
    /\ waitqueue' = [waitqueue EXCEPT ![Asked] = Append(@, current)]
    /\ UNCHANGED owner

fcfs_acquire == (IF Free THEN Take ELSE Wait) /\ UNCHANGED prio

\* Bug variant: the new owner is not boosted.
pcp_acquire_plain == (IF Free THEN Take ELSE Wait) /\ UNCHANGED prio
pcp_acquire ==
    IF Free THEN Take /\ prio' = [prio EXCEPT ![current] = MaxPrio]
    ELSE Wait /\ UNCHANGED prio

\* Current lends its priority to the owner it waits for.
pip_acquire ==
    IF Free THEN Take /\ UNCHANGED prio
    ELSE Wait /\ prio' = IF prio[owner[Asked]] < prio[current]
                         THEN [prio EXCEPT ![owner[Asked]] = prio[current]]
                         ELSE prio

\* The first request that is due: what acquire() grants moves to the resources held, what it
\* refuses costs current the tick.
run_current_acquire(acquire) ==
    /\ pc = "run"
    /\ Pending(current) # {}
    /\ acquire
    /\ IF Free
       THEN /\ toAcquire' = [toAcquire EXCEPT ![current] = RemoveAt(@, Min(Pending(current)))]
            /\ holding' = [holding EXCEPT ![current] = Append(@, NextRequest(current))]
            /\ UNCHANGED <<pc, ticks>>
       ELSE EndTick /\ UNCHANGED <<toAcquire, holding>>
    /\ UNCHANGED <<policy, script, current, prev, forkqueue, readyqueue, age>>

Acquire ==
    run_current_acquire(
        \/ policy \in {"fifo", "sjf", "srtf", "rr", "prio"} /\ fcfs_acquire
        \/ policy = "pcp" /\ pcp_acquire
        \/ policy = "pip" /\ pip_acquire)

CountDown(h) == [h EXCEPT !.duration = @ - 1]
Work ==
    /\ pc = "run"
    /\ Pending(current) = {}
    /\ age' = [age EXCEPT ![current] = @ + 1]
    /\ holding' = [holding EXCEPT ![current] =
                      [i \in DOMAIN @ |-> CountDown(@[i])]]
    /\ pc' = "release"
    /\ UNCHANGED <<policy, script, ticks, current, prev, forkqueue, readyqueue, waitqueue, owner,
                   status, prio, toAcquire>>

\* Bug variant: the last tick does not count.
OverEarly(p) == {i \in DOMAIN holding[p] : holding[p][i].duration =< 1}
Over(p) == {i \in DOMAIN holding[p] : holding[p][i].duration = 0}

\* The resource_id of release(), and the process it wakes, if one waits.
Released == holding[current][Min(Over(current))].id
\* Bug variant: the release wakes nobody.
NoWakeUp(w) == UNCHANGED <<waitqueue, status, readyqueue>>
WakeUp(w) ==
    IF waitqueue[Released] = <<>> THEN UNCHANGED <<waitqueue, status, readyqueue>>
    ELSE /\ waitqueue' = [waitqueue EXCEPT ![Released] = RemoveFirst(@, w)]
         /\ status' = [status EXCEPT ![w] = "ready"]
         /\ readyqueue' = Append(readyqueue, w)
\* release() asserts that current owns the resource, and that the process it wakes waits.
Disown(w) ==
    /\ owner' = [owner EXCEPT ![Released] = NoProcess]
    /\ pc' = IF owner[Released] = current /\ (waitqueue[Released] # <<>> => status[w] = "wait")
             THEN pc ELSE "assert"
\* The resource is given up, and w is woken, if anybody waits.
Hand(w) == Disown(w) /\ WakeUp(w)

fcfs_release == Hand(Head(waitqueue[Released])) /\ UNCHANGED prio

\* Bug variant: the first waiter is woken, whatever its priority.
prio_release_first ==
    /\ Hand(Head(waitqueue[Released]))
    /\ prio' = [prio EXCEPT ![current] = script[current].prio]
\* The boost is taken back and the waiter of the highest priority is woken.
prio_release ==
    /\ Hand(Highest(waitqueue[Released]))
    /\ prio' = [prio EXCEPT ![current] = script[current].prio]

run_current_release(release) ==
    /\ pc = "release"
    /\ Over(current) # {}
    /\ release
    /\ holding' = [holding EXCEPT ![current] = RemoveAt(@, Min(Over(current)))]
    /\ UNCHANGED <<policy, script, ticks, current, prev, forkqueue, age, toAcquire>>

Release ==
    run_current_release(
        \/ policy \in {"fifo", "sjf", "srtf", "rr", "prio"} /\ fcfs_release
        \/ policy \in {"pcp", "pip"} /\ prio_release)

NextTick ==
    /\ pc = "release"
    /\ Over(current) = {}
    /\ EndTick
    /\ UNCHANGED <<policy, script, current, prev, forkqueue, readyqueue, waitqueue, owner, status,
                   age, prio, toAcquire, holding>>

Next == Fork \/ Schedule \/ Switch \/ Acquire \/ Work \/ Release \/ NextTick

Spec == Init /\ [][Next]_schedVars /\ WF_schedVars(Next)

-----------------------------------------------------------------------------
(* Correctness. *)

Statuses == {"ready", "running", "wait", "exit"}
Faults == {"null", "corrupt", "assert"}
Left == [id : Resources, at : Nat, duration : Nat]

\* The queues hold processes, the priorities stay in range and ages never pass the lifespan.
TypeOK ==
    /\ \E c \in Cases : policy = c.policy /\ script = c.script
    /\ ticks \in Nat
    /\ pc \in {"fork", "schedule", "switch", "run", "release", "end"} \cup Faults
    /\ {current, prev} \subseteq Pids \cup {NoProcess}
    /\ forkqueue \in Seq(Pids) /\ readyqueue \in Seq(Pids)
    /\ waitqueue \in [Resources -> Seq(Pids)]
    /\ owner \in [Resources -> Pids \cup {NoProcess}]
    /\ status \in [Pids -> Statuses]
    /\ age \in [Pids -> Nat]
    /\ prio \in [Pids -> Nat]
    /\ toAcquire \in [Pids -> Seq(Request)]
    /\ holding \in [Pids -> Seq(Left)]

Count(s, p) == Cardinality({i \in DOMAIN s : s[i] = p})
\* current, until it waits, and prev until it has left, are linked nowhere.
Detached(p) == (p = current /\ status[p] # "wait") \/ (p = prev /\ p # current /\ Finished)

\* sched.c keeps one list head per process: whatever the policy and the releases do, a process
\* is in exactly one place, or has exited. Twice is a broken list, nowhere is a lost process.
InOnePlace ==
    \A p \in Pids :
        Cardinality({r \in Resources : p \in ToSet(waitqueue[r])})
        + Count(forkqueue, p) + Count(readyqueue, p)
        + (IF Detached(p) \/ status[p] = "exit" THEN 1 ELSE 0) = 1

\* A resource that is free while processes wait for it has been promised: its release woke one
\* that asks for it as soon as it runs. Only then does the queue behind it move on.
NoLostWakeup ==
    \A r \in Resources :
        owner[r] = NoProcess /\ waitqueue[r] # <<>> =>
            \E p \in Pids : /\ status[p] \notin {"wait", "exit"}
                            /\ Pending(p) # {}
                            /\ NextRequest(p).id = r

\* What the properties take for granted of a script, where they do.
Lifeless(p) == script[p].lifespan = 0
Asks(p) == ToSet(script[p].acquire)
Overlap(q, h) == q.at < h.at + h.duration /\ h.at < q.at + q.duration
\* No process asks for a resource while it holds one.
Simple == \A p \in Pids : \A q, h \in Asks(p) : Overlap(q, h) => q = h
\* No process asks for a resource it holds: it would wait for itself.
NoneBlocksItself ==
    \A p \in Pids : \A q, h \in Asks(p) : q.id = h.id /\ Overlap(q, h) => q = h
\* A process without time is lost after its first tick, with what it holds then.
NoneDiesHolding == \A p \in Pids : Lifeless(p) => Asks(p) = {}
\* MAX_PRIO is more than anybody has.
BelowCeiling == \A p \in Pids : script[p].prio < MaxPrio

Deadlocked(p) ==
    \E r \in Resources :
        p \in ToSet(waitqueue[r]) /\ owner[r] # NoProcess /\ status[owner[r]] = "wait"

\* At the end of a simulation a process has exited, or it waits for another one that waits, or
\* its script gave it no time: then it has run a tick, its age is beyond its lifespan, and it
\* is lost. Where nobody asks for a resource while it holds one, nobody waits for ever.
WhoIsLeftIsDeadlocked ==
    pc = "end" => \A p \in Pids :
        IF Lifeless(p) THEN status[p] = "ready" /\ ~Linked(p)
        ELSE status[p] = "exit" \/ (~Simple /\ Deadlocked(p))

\* fifo and sjf switch at an exit only: no two processes are ever half done.
RunsToCompletion ==
    policy \in {"fifo", "sjf"} /\ NoneDiesHolding /\ NoneBlocksItself =>
        \A p, q \in Pids : age[p] > 0 /\ Unfinished(p) /\ age[q] > 0 /\ Unfinished(q) => p = q

\* rr, and the priority policies among equals, "should be switched on each tick": two processes
\* that came together are, in a script without resources, never two ticks apart.
EqualsShareTicks ==
    policy \in {"rr", "prio", "pcp", "pip"} =>
        \A p, q \in Pids :
            /\ Unfinished(p) /\ Unfinished(q)
            /\ script[p].start = script[q].start
            /\ policy # "rr" => script[p].prio = script[q].prio
            /\ \A o \in Pids : script[o].acquire = <<>>
            => age[p] =< age[q] + 1

\* With pcp and pip, no process runs while one of a higher priority waits for a resource, unless
\* it has been lent that priority: a waiter is delayed by the owner only, never by the middle.
NoInversion ==
    pc = "run" /\ policy \in {"pcp", "pip"} =>
        \A p \in Pids : status[p] = "wait" => prio[p] =< prio[current]

\* So it is as long as nobody asks for a resource while it holds another one.
NoSimpleInversion ==
    Simple /\ NoneDiesHolding /\ (policy = "pcp" => BelowCeiling) => NoInversion

\* fifo and sjf never take the processor away, and with one resource at a time the owner's
\* priority makes pcp leave it alone: so that nobody ever has to wait.
OnlyPreemptionBlocks ==
    /\ NoneDiesHolding /\ NoneBlocksItself
    /\ policy \in {"fifo", "sjf"} \/ (policy = "pcp" /\ Simple /\ BelowCeiling)
    =>
        \A p \in Pids : status[p] # "wait"

\* Whatever the processes do to each other, the simulation ends, and not by a fault.
Terminates == <>(pc = "end")

\* What a process holds, as the requests of its script.
Held(p) ==
    {q \in Asks(p) : \E h \in ToSet(holding[p]) :
        h.id = q.id /\ h.at = q.at /\ age[p] + h.duration = q.at + q.duration}
Time == INSTANCE Timeshare WITH
            now <- ticks, worked <- (pc = "release"), done <- age,
            held <- [p \in Pids |-> Held(p)]
\* One processor and exclusive resources, whatever the policy: requests are served at the age
\* they name, kept for as long as they say and by one process at a time.
TimeshareSpec == Time!Spec
=============================================================================
