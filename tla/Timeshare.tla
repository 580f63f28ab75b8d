----------------------------- MODULE Timeshare -----------------------------
(* What the simulator of PA2 promises whatever its policy decides: one processor, so that at *)
(* most one process gets older in a tick and none before its start; a resource is held by    *)
(* one process at a time, from the age its request names and until the age where it ends,    *)
(* and a process waits at an age until it holds all it asked for at it.                      *)
EXTENDS Integers, Sequences

CONSTANTS Pids, Cases

VARIABLES
    script,   \* script[p]: what process p is to do
    now,      \* ticks passed
    worked,   \* a process got older in this tick
    done,     \* done[p]: the ticks p has run
    held      \* held[p]: the requests p is granted and has not given back

timeVars == <<script, now, worked, done, held>>

Asks(p) == {script[p].acquire[i] : i \in DOMAIN script[p].acquire}
Until(q) == q.at + q.duration
\* A process has started and has time left. A tick is the least a process gets.
Present(p) ==
    script[p].start =< now /\ (done[p] < script[p].lifespan \/ done[p] = 0)

Init ==
    /\ \E c \in Cases : script = c.script
    /\ now = 0
    /\ worked = FALSE
    /\ done = [p \in Pids |-> 0]
    /\ held = [p \in Pids |-> {}]

\* Process p gets the resource of q, which nobody has.
Take(p, q) ==
    /\ Present(p)
    /\ ~worked
    /\ q \in Asks(p)
    /\ q.at = done[p]
    /\ \A o \in Pids : \A h \in held[o] : h.id # q.id
    /\ held' = [held EXCEPT ![p] = @ \cup {q}]
    /\ UNCHANGED <<script, now, worked, done>>

\* Process p has what it needs at its age and gets older.
Work(p) ==
    /\ Present(p)
    /\ ~worked
    /\ \A q \in Asks(p) : q.at = done[p] => q \in held[p]
    /\ worked' = TRUE
    /\ done' = [done EXCEPT ![p] = @ + 1]
    /\ UNCHANGED <<script, now, held>>

\* Process p gives back what it has had for long enough.
Give(p, q) ==
    /\ q \in held[p]
    /\ Until(q) = done[p]
    /\ held' = [held EXCEPT ![p] = @ \ {q}]
    /\ UNCHANGED <<script, now, worked, done>>

\* The tick ends with nothing kept for too long.
Tick ==
    /\ \A p \in Pids : \A q \in held[p] : done[p] < Until(q)
    /\ now' = now + 1
    /\ worked' = FALSE
    /\ UNCHANGED <<script, done, held>>

Next ==
    \/ \E p \in Pids : \E q \in Asks(p) : Take(p, q) \/ Give(p, q)
    \/ \E p \in Pids : Work(p)
    \/ Tick

Spec == Init /\ [][Next]_timeVars
=============================================================================
