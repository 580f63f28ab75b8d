---------------------------- MODULE SchedDrafts ----------------------------
(* The versions of pa2.c. The repository keeps one file per step on the way to pa2.c; each of *)
(* them is a version here, and offers the policies its file implements (the assertion of      *)
(* sched.c:322 stops the others before their first tick). A function a file has in common     *)
(* with pa2.c is that of Sched, under the policy's name there. One it has not is a policy of  *)
(* its own, named after the file that has it first:                                           *)
(*   try_sjf     sjf of try_sjf.c                                                             *)
(*   prio_srtf, prio_prio       srtf and prio of "Prio Scheduler.c"                           *)
(*   pip_sjf                    sjf of the last three files                                   *)
(*   pcp_prio, pcp_pcp, pcp_pip prio, pcp and pip of "PCP Scheduler.c" and, comments apart,   *)
(*                              of "Fix-ing Prio&SRTF.c"                                      *)
(* "SRTF Scheduler.c" and "RR Scheduler.c" do not compile, and the srtf of "SJF Scheduler.c"  *)
(* falls off its end.                                                                         *)
EXTENDS Sched

\* "SJF" is "SJF Scheduler.c" and so on, "Fixing" is "Fix-ing Prio&SRTF.c".
Versions == {"pa2.c", "try_sjf.c", "SJF", "Prio", "PCP", "Fixing", "PIP"}

\* A case also names its version.
ASSUME VersionsAssumption == \A c \in Cases : c.version \in Versions

VARIABLE version \* the file sched.c is linked with

draftVars == <<schedVars, version>>

Ready == readyqueue # <<>>
Lifespan(p) == script[p].lifespan
\* The search that finds nobody shorter than its bound.
NoneBelow(bound) == Lifespan(Shortest(readyqueue)) >= bound
\* current again, as long as it has time, blocked or not.
Keep == Return(IF HasTime THEN current ELSE NoProcess)

-----------------------------------------------------------------------------
(* schedule() *)

\* The search returns from its first round, in a loop that a lifespan of 0 does not enter: it then
\* goes round the unlinked entry for ever, and no step is left. Nobody asks for current.
try_sjf_schedule ==
    IF ~Ready THEN Return(NoProcess)
    ELSE IF Lifespan(Head(readyqueue)) >= SjfLimit THEN Crash
    ELSE Lifespan(Head(readyqueue)) # 0 /\ Return(Head(readyqueue))

\* The bound is the lifespan of the first process, and the search wants one that is shorter.
pip_sjf_schedule ==
    IF HasTime THEN Return(current)
    ELSE IF ~Ready THEN Return(NoProcess)
    ELSE IF NoneBelow(Lifespan(Head(readyqueue))) THEN Crash
    ELSE Return(Shortest(readyqueue))

\* current is compared with the shortest of the others, and goes back when it is longer.
prio_srtf_schedule ==
    IF ~Ready THEN Keep
    ELSE IF NoneBelow(SjfLimit) THEN Crash
    ELSE IF current # NoProcess /\ Lifespan(current) > Lifespan(Shortest(readyqueue))
    THEN PutBack(<<current>> \o readyqueue, Shortest(readyqueue))
    ELSE Return(IF HasTime THEN current ELSE Shortest(readyqueue))

\* The last of equals is preferred to a current of a lower priority, and no current to 0.
LastHighest(s) == FirstBest(Reverse(s), prio)
prio_prio_schedule ==
    IF ~Ready THEN Keep
    ELSE IF current = NoProcess
    THEN IF prio[Highest(readyqueue)] = 0 THEN Crash ELSE Return(Highest(readyqueue))
    ELSE IF prio[current] < prio[LastHighest(readyqueue)]
    THEN PutBack(Append(readyqueue, current), LastHighest(readyqueue))
    ELSE Return(IF HasTime THEN current ELSE LastHighest(readyqueue))

\* The version of pa2.c without its look at the status of current.
pcp_prio_schedule ==
    LET q == Append(readyqueue, current) IN
    IF ~Ready THEN Keep
    ELSE IF HasTime THEN PutBack(q, Highest(q))
    ELSE Return(Highest(readyqueue))

\* What schedule() is in each of the files.
try_sjf_c_schedule ==
    \/ policy = "fifo" /\ fifo_schedule
    \/ policy = "try_sjf" /\ try_sjf_schedule

SJF_schedule ==
    \/ policy = "fifo" /\ fifo_schedule
    \/ policy = "sjf" /\ sjf_schedule

Prio_schedule ==
    \/ policy = "fifo" /\ fifo_schedule
    \/ policy = "sjf" /\ sjf_schedule
    \/ policy = "prio_srtf" /\ prio_srtf_schedule
    \/ policy = "rr" /\ rr_schedule
    \/ policy = "prio_prio" /\ prio_prio_schedule

PCP_schedule ==
    \/ policy = "fifo" /\ fifo_schedule
    \/ policy = "pip_sjf" /\ pip_sjf_schedule
    \/ policy = "srtf" /\ srtf_schedule
    \/ policy = "rr" /\ rr_schedule
    \/ policy \in {"pcp_prio", "pcp_pcp", "pcp_pip"} /\ pcp_prio_schedule

Fixing_schedule == PCP_schedule

PIP_schedule ==
    \/ policy = "fifo" /\ fifo_schedule
    \/ policy = "pip_sjf" /\ pip_sjf_schedule
    \/ policy = "srtf" /\ srtf_schedule
    \/ policy = "rr" /\ rr_schedule
    \/ policy \in {"prio", "pcp", "pip"} /\ prio_schedule

DraftSchedule ==
    Calls(\/ version = "try_sjf.c" /\ try_sjf_c_schedule
          \/ version = "SJF" /\ SJF_schedule
          \/ version = "Prio" /\ Prio_schedule
          \/ version = "PCP" /\ PCP_schedule
          \/ version = "Fixing" /\ Fixing_schedule
          \/ version = "PIP" /\ PIP_schedule)

-----------------------------------------------------------------------------
(* acquire() *)

\* The policies that use the default functions.
Fcfs == policy \notin {"pcp", "pip", "pcp_pcp", "pcp_pip"}

\* Nothing is lent to the owner yet.
pcp_pip_acquire == (IF Free THEN Take ELSE Wait) /\ UNCHANGED prio

try_sjf_c_acquire == Fcfs /\ fcfs_acquire
SJF_acquire == Fcfs /\ fcfs_acquire
Prio_acquire == Fcfs /\ fcfs_acquire
PCP_fcfs_acquire == Fcfs /\ fcfs_acquire
PCP_pcp_acquire == policy = "pcp_pcp" /\ pcp_acquire
PCP_pip_acquire == policy = "pcp_pip" /\ pcp_pip_acquire
Fixing_fcfs_acquire == PCP_fcfs_acquire
Fixing_pcp_acquire == PCP_pcp_acquire
Fixing_pip_acquire == PCP_pip_acquire
PIP_fcfs_acquire == Fcfs /\ fcfs_acquire
PIP_pcp_acquire == policy = "pcp" /\ pcp_acquire
PIP_pip_acquire == policy = "pip" /\ pip_acquire

DraftAcquire ==
    run_current_acquire(
        \/ version = "try_sjf.c" /\ try_sjf_c_acquire
        \/ version = "SJF" /\ SJF_acquire
        \/ version = "Prio" /\ Prio_acquire
        \/ version = "PCP" /\ (PCP_fcfs_acquire \/ PCP_pcp_acquire \/ PCP_pip_acquire)
        \/ version = "Fixing" /\ (Fixing_fcfs_acquire \/ Fixing_pcp_acquire \/ Fixing_pip_acquire)
        \/ version = "PIP" /\ (PIP_fcfs_acquire \/ PIP_pcp_acquire \/ PIP_pip_acquire))

-----------------------------------------------------------------------------
(* release() *)

\* The boost is taken back, but the first waiter is woken, as in fcfs_release.
pcp_prio_release ==
    /\ Hand(Head(waitqueue[Released]))
    /\ prio' = [prio EXCEPT ![current] = script[current].prio]

try_sjf_c_release == Fcfs /\ fcfs_release
SJF_release == Fcfs /\ fcfs_release
Prio_release == Fcfs /\ fcfs_release
PCP_fcfs_release == Fcfs /\ fcfs_release
PCP_prio_release == policy \in {"pcp_pcp", "pcp_pip"} /\ pcp_prio_release
Fixing_fcfs_release == PCP_fcfs_release
Fixing_prio_release == PCP_prio_release
PIP_fcfs_release == Fcfs /\ fcfs_release
PIP_prio_release == policy \in {"pcp", "pip"} /\ prio_release

DraftRelease ==
    run_current_release(
        \/ version = "try_sjf.c" /\ try_sjf_c_release
        \/ version = "SJF" /\ SJF_release
        \/ version = "Prio" /\ Prio_release
        \/ version = "PCP" /\ (PCP_fcfs_release \/ PCP_prio_release)
        \/ version = "Fixing" /\ (Fixing_fcfs_release \/ Fixing_prio_release)
        \/ version = "PIP" /\ (PIP_fcfs_release \/ PIP_prio_release))

-----------------------------------------------------------------------------
(* The simulation of a version. *)

DraftInit == \E c \in Cases : Load(c) /\ version = c.version

DraftNext ==
    /\ \/ Fork \/ Switch \/ Work \/ NextTick
       \/ version = "pa2.c" /\ (Schedule \/ Acquire \/ Release)
       \/ DraftSchedule
       \/ DraftAcquire
       \/ DraftRelease
    /\ UNCHANGED version

DraftSpec == DraftInit /\ [][DraftNext]_draftVars /\ WF_draftVars(DraftNext)

-----------------------------------------------------------------------------
(* Which scripts a policy survives, told from the script alone. *)

AllShort == \A p \in Pids : Lifespan(p) < SjfLimit
AllTogether == \A p, q \in Pids : script[p].start = script[q].start
AllEqual == \A p, q \in Pids : script[p].prio = script[q].prio
Wants(p) == {q.id : q \in Asks(p)}
Uncontended ==
    NoneBlocksItself /\ \A p, q \in Pids : p # q => Wants(p) \cap Wants(q) = {}

\* A processor that is never idle while somebody has work to do has nothing left at tick t when
\* no span of ticks up to t brought more work than it is long: work is a set of ticks.
Burden(from, to) ==
    UNION {{p} \X (1 .. Lifespan(p)) : p \in {q \in Pids : script[q].start \in from .. to}}
Brought(from, to) == Cardinality(Burden(from, to))
IdleAt(t) == \A s \in 0 .. t : Brought(s, t) =< t - s
\* An idle tick at the start, or two in a row, leave the policy without a current process.
Starved ==
    \/ IdleAt(0)
    \/ \E p \in Pids : \E t \in 1 .. script[p].start - 1 : IdleAt(t) /\ IdleAt(t - 1)

\* A process has time, and gives back what it takes before its time is over.
Overdue(p) == \E q \in Asks(p) : q.at + q.duration > Lifespan(p)
WellFormed == \A p \in Pids : Lifespan(p) > 0 /\ ~Overdue(p)

\* fifo, prio, pcp and pip survive every such script. Round-robin and srtf take a blocked process for
\* a ready one and round-robin has to have a current process; sjf knows no job of 100 ticks.
Survives ==
    \/ policy \in {"fifo", "prio", "pcp", "pip"}
    \/ policy = "sjf" /\ AllShort /\ NoneBlocksItself
    \/ policy = "srtf" /\ Uncontended
    \/ policy = "rr" /\ Uncontended /\ ~Starved
    \/ policy = "try_sjf" /\ \A p \in Pids : Lifespan(p) = 1
    \/ policy = "prio_srtf" /\ Uncontended /\ AllShort /\ AllTogether
    \/ policy = "prio_prio" /\ Uncontended /\ AllEqual /\ \A p \in Pids : script[p].prio > 0
    \/ policy \in {"pcp_prio", "pcp_pip"} /\ Uncontended
    \/ policy = "pcp_pcp" /\ Simple /\ BelowCeiling

Sound == WellFormed /\ Survives

Doomed ==
    \/ policy = "fifo" /\ NoneDiesHolding /\ NoneBlocksItself /\ \E p \in Pids : Overdue(p)
    \/ policy = "sjf" /\ ~AllShort
    \/ policy = "rr" /\ WellFormed /\ Starved
    \/ policy = "pip_sjf" /\ Pids # {}
    \/ policy = "prio_prio" /\ Pids # {} /\ \A p \in Pids : script[p].prio = 0

-----------------------------------------------------------------------------
(* Correctness. *)

\* sched.c keeps one list head per process: on a script its policy can take, a process is always
\* in exactly one place or has exited, and the simulator neither crashes nor asserts. Twice is a
\* broken list, nowhere is a lost process.
SoundScriptsSurvive == Sound => pc \notin Faults /\ InOnePlace

\* A bound of 100, a current that is not there, a resource that is still held or wanted at the
\* exit of its process: such a script never comes to its end.
DoomedScriptsCrash == Doomed => pc # "end"

\* No version but the first sjf ends with a process left that has time and does not wait for
\* another one.
OnlyTrySjfForgets == policy # "try_sjf" /\ NoneDiesHolding => WhoIsLeftIsDeadlocked

\* Whatever the processes do to each other, the simulation ends, and not by a fault.
SoundScriptsEnd == Sound => Terminates
=============================================================================
