--------------------------- MODULE AddressSpaces ---------------------------
(* What the virtual memory simulator promises its user: every process has an address space   *)
(* of its own, a fork starts from a copy of its parent's, and a page is accessible for what  *)
(* it was allocated for. Of the page frames only their end can be seen from here: a page     *)
(* that needs one when none is left is refused, and nothing has changed.                     *)
EXTENDS Naturals

CONSTANTS Pids, Vpns

VARIABLES current, \* the running process
          space,   \* the pages of every process, each "r" or "rw"
          full,    \* no page frame is free
          running, \* the console still reads commands
          outcome  \* what the last command said

spaceVars == <<current, space, full, running, outcome>>

Modes == {"r", "rw"}
NoPages == [v \in {} |-> "r"]

Init ==
    /\ current = 0
    /\ space = [p \in {0} |-> NoPages]
    /\ full = FALSE
    /\ running = TRUE
    /\ outcome = "none"

Pages == DOMAIN space[current]

\* The page takes a frame, perhaps the last one.
Alloc(v, mode) ==
    /\ v \notin Pages
    /\ ~full
    /\ full' \in BOOLEAN
    /\ space' = [space EXCEPT ![current] =
                    [w \in Pages \cup {v} |-> IF w = v THEN mode ELSE space[current][w]]]
    /\ outcome' = "allocated"
    /\ UNCHANGED <<current, running>>

\* "Return -1 if all page frames are allocated": the memory is full, and the simulation ends.
AllocFull(v) ==
    /\ v \notin Pages
    /\ full
    /\ outcome' = "memory is full"
    /\ running' = FALSE
    /\ UNCHANGED <<current, space, full>>

AllocAgain(v) ==
    /\ v \in Pages
    /\ outcome' = "already allocated"
    /\ running' = FALSE
    /\ UNCHANGED <<current, space, full>>

\* The frame becomes free unless another process shares it.
Free(v) ==
    /\ v \in Pages
    /\ space' = [space EXCEPT ![current] = [w \in Pages \ {v} |-> space[current][w]]]
    /\ full' \in BOOLEAN
    /\ full' => full
    /\ outcome' = "freed"
    /\ UNCHANGED <<current, running>>

FreeNothing(v) ==
    /\ v \notin Pages
    /\ outcome' = "not allocated"
    /\ UNCHANGED <<current, space, full, running>>

Permitted(v, rw) == v \in Pages /\ (rw = "write" => space[current][v] = "rw")

\* A write may take a frame, a read takes none.
Access(v, rw) ==
    /\ outcome' = IF Permitted(v, rw) THEN "translated" ELSE "unable to access"
    /\ full' \in BOOLEAN
    /\ full => full'
    /\ rw = "read" => full' = full
    /\ UNCHANGED <<current, space, running>>

\* A write that is permitted but needs a frame: "@false otherwise".
AccessFull(v) ==
    /\ Permitted(v, "write")
    /\ full
    /\ outcome' = "unable to access"
    /\ UNCHANGED <<current, space, full, running>>

Switch(pid) ==
    /\ pid \in DOMAIN space
    /\ current' = pid
    /\ outcome' = "switched"
    /\ UNCHANGED <<space, full, running>>

\* A fork takes no frame.
Fork(pid) ==
    /\ pid \notin DOMAIN space
    /\ space' = [p \in DOMAIN space \cup {pid} |->
                    IF p = pid THEN space[current] ELSE space[p]]
    /\ current' = pid
    /\ outcome' = "switched"
    /\ UNCHANGED <<full, running>>

Exit == running' = FALSE /\ UNCHANGED <<current, space, full, outcome>>

Next ==
    /\ running
    /\ \/ \E v \in Vpns : \/ \E mode \in Modes : Alloc(v, mode)
                          \/ AllocFull(v)
                          \/ AllocAgain(v)
                          \/ Free(v)
                          \/ FreeNothing(v)
                          \/ \E rw \in {"read", "write"} : Access(v, rw)
                          \/ AccessFull(v)
       \/ \E pid \in Pids : Switch(pid) \/ Fork(pid)
       \/ Exit

Spec == Init /\ [][Next]_spaceVars
=============================================================================
