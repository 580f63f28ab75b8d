-------------------------------- MODULE Vm --------------------------------
(* The virtual memory simulator of PA4: page tables, map counts, copy-on-write and process   *)
(* switching (pa4.c) under the console that calls them (vm.c). The program has one thread    *)
(* and every command runs to its end, so a command is one action; the commands come in any   *)
(* order, from a file or a keyboard.                                                         *)
(*                                                                                           *)
(* ptbr is not a variable: it is &current->pagetable whenever a command starts, and alloc's  *)
(* "current->pagetable = *ptbr" copies the table onto itself. A directory or page table that *)
(* malloc hands out reads as zeroes: the program never frees a block, so that it only gets   *)
(* memory fresh from the system.                                                             *)
EXTENDS Integers, Sequences, FiniteSets

CONSTANTS
    Pids,          \* the pids a script may switch to, the initial 0 included
    ScriptVpns,    \* the virtual pages its commands name
    NrPageframes,  \* NR_PAGEFRAMES
    NrPtesPerPage, \* NR_PTES_PER_PAGE
    UintMax        \* the largest unsigned int

Vpns == 0 .. (NrPtesPerPage * NrPtesPerPage - 1)
Frames == 0 .. (NrPageframes - 1)

ASSUME PidsAssumption == Pids \subseteq Nat /\ 0 \in Pids /\ IsFiniteSet(Pids)
ASSUME ScriptAssumption == ScriptVpns \subseteq Vpns
ASSUME SizesAssumption ==
    /\ NrPageframes \in Nat \ {0}
    /\ NrPtesPerPage \in Nat \ {0}
    /\ UintMax \in Nat
    \* No map count can overflow. 2^32 - 1 is enough for 2^24 - 1 processes of 256 pages.
    /\ Cardinality(Pids \X Vpns) =< UintMax

VARIABLES
    current,   \* the pid of *current
    processes, \* the list of the other processes, by pid
    pagetable, \* for each pid, the PTEs of the directories that exist; none before its fork
    mapcounts, \* the number of mappings of each page frame
    running,   \* __do_simulation still reads commands
    outcome,   \* what the last command printed
    exhausted  \* history: a page frame was wanted and there was none

vmVars == <<current, processes, pagetable, mapcounts, running, outcome, exhausted>>

Pte == [valid : BOOLEAN, writable : BOOLEAN, private : BOOLEAN, pfn : Frames]
ZeroPte == [valid |-> FALSE, writable |-> FALSE, private |-> FALSE, pfn |-> 0]
NoDirectories == [v \in {} |-> ZeroPte]
Outcomes == {"none", "allocated", "already allocated", "freed", "not allocated",
             "translated", "unable to access", "switched"}

Init ==
    /\ current = 0
    /\ processes = << >>
    /\ pagetable = [p \in Pids |-> NoDirectories]
    /\ mapcounts = [f \in Frames |-> 0]
    /\ running = TRUE
    /\ outcome = "none"
    /\ exhausted = FALSE

---------------------------------------------------------------------------
(* The page table *)

table == pagetable[current]

\* The PTEs that share a directory with v's.
Directory(v) == {w \in Vpns : w \div NrPtesPerPage = v \div NrPtesPerPage}

\* __translate: walking table pt, does v translate for this kind of access?
Translates(pt, v, rw) ==
    /\ v \in DOMAIN pt
    /\ pt[v].valid
    /\ rw = "write" => pt[v].writable

\* The loop over mapcounts: the smallest frame that nobody maps, if there is one.
FreeFrames == {f \in Frames : mapcounts[f] = 0}
FirstFree(f) == f \in FreeFrames /\ \A g \in FreeFrames : f =< g

Increment(n, k) == (n + k) % (UintMax + 1)
Decrement(n) == IF n = 0 THEN UintMax ELSE n - 1

---------------------------------------------------------------------------
(* The commands *)

\* alloc_page sets the PTE before it looks for a frame, so that a PTE that finds none keeps
\* its old pfn. The directory is created if it does not exist.
WithPage(pt, v, rw, f) ==
    [w \in DOMAIN pt \cup Directory(v) |->
        IF w = v THEN [valid |-> TRUE, writable |-> rw # "r", private |-> rw # "r", pfn |-> f]
        ELSE IF w \in DOMAIN pt THEN pt[w] ELSE ZeroPte]

OldPfn(v) == IF v \in DOMAIN table THEN table[v].pfn ELSE 0

AllocFrame(v, rw) == \E f \in Frames :
    /\ FirstFree(f)
    /\ mapcounts' = [mapcounts EXCEPT ![f] = 1]
    /\ pagetable' = [pagetable EXCEPT ![current] = WithPage(table, v, rw, f)]
    /\ UNCHANGED exhausted

AllocNoFrame(v, rw) ==
    /\ FreeFrames = {}
    /\ pagetable' = [pagetable EXCEPT ![current] = WithPage(table, v, rw, OldPfn(v))]
    /\ exhausted' = TRUE
    /\ UNCHANGED mapcounts

Alloc(v, rw) ==
    /\ ~Translates(table, v, "read")
    /\ AllocFrame(v, rw) \/ AllocNoFrame(v, rw)
    /\ outcome' = "allocated"
    /\ UNCHANGED <<current, processes, running>>

\* A page that is already allocated ends the simulation.
AllocAgain(v) ==
    /\ Translates(table, v, "read")
    /\ outcome' = "already allocated"
    /\ running' = FALSE
    /\ UNCHANGED <<current, processes, pagetable, mapcounts, exhausted>>

\* Bug variant: the PTE keeps its permissions.
FreeKeepsPermissions(v) ==
    /\ Translates(table, v, "read")
    /\ pagetable' = [pagetable EXCEPT ![current][v].valid = FALSE, ![current][v].pfn = 0]
    /\ mapcounts' = [mapcounts EXCEPT ![table[v].pfn] = Decrement(@)]
    /\ outcome' = "freed"
    /\ UNCHANGED <<current, processes, running, exhausted>>

Free(v) ==
    /\ Translates(table, v, "read")
    /\ pagetable' = [pagetable EXCEPT ![current][v] = ZeroPte]
    /\ mapcounts' = [mapcounts EXCEPT ![table[v].pfn] = Decrement(@)]
    /\ outcome' = "freed"
    /\ UNCHANGED <<current, processes, running, exhausted>>

FreeNothing(v) ==
    /\ ~Translates(table, v, "read")
    /\ outcome' = "not allocated"
    /\ UNCHANGED <<current, processes, pagetable, mapcounts, running, exhausted>>

\* handle_page_fault succeeds for a valid page that was allocated for writes (or for an access
\* that is no write, which never faults on a valid page).
Recoverable(v) == v \in DOMAIN table /\ table[v].valid /\ table[v].private

MakeWritable(v, f) ==
    pagetable' = [pagetable EXCEPT ![current][v] = [@ EXCEPT !.writable = TRUE, !.pfn = f]]

\* The only mapping of the frame is made writable where it is.
Reclaim(v) ==
    /\ mapcounts[table[v].pfn] = 1
    /\ MakeWritable(v, table[v].pfn)
    /\ UNCHANGED <<mapcounts, exhausted>>

\* A shared frame is exchanged for a free one. Once a count has been wrong the two can be the
\* same: a frame whose count is back at 0 loses a mapping and gets it back.
CopyOnWrite(v) == \E f \in Frames :
    LET less == [mapcounts EXCEPT ![table[v].pfn] = Decrement(@)] IN
    /\ mapcounts[table[v].pfn] # 1
    /\ FirstFree(f)
    /\ MakeWritable(v, f)
    /\ mapcounts' = [less EXCEPT ![f] = Increment(@, 1)]
    /\ UNCHANGED exhausted

\* There is no free frame: the PTE is writable all the same, line 150 having come first.
CopyNowhere(v) ==
    /\ mapcounts[table[v].pfn] # 1
    /\ FreeFrames = {}
    /\ MakeWritable(v, table[v].pfn)
    /\ exhausted' = TRUE
    /\ UNCHANGED mapcounts

HandlePageFault(v) ==
    /\ Recoverable(v)
    /\ Reclaim(v) \/ CopyOnWrite(v) \/ CopyNowhere(v)

\* __access_memory: translate; on a fault that is handled, translate again.
Hit(v, rw) ==
    /\ Translates(table, v, rw)
    /\ outcome' = "translated"
    /\ UNCHANGED <<current, processes, pagetable, mapcounts, running, exhausted>>

Fault(v, rw) ==
    /\ ~Translates(table, v, rw)
    /\ HandlePageFault(v)
    /\ outcome' = IF Translates(pagetable'[current], v, rw)
                  THEN "translated" ELSE "unable to access"
    /\ UNCHANGED <<current, processes, running>>

Refuse(v, rw) ==
    /\ ~Translates(table, v, rw)
    /\ ~Recoverable(v)
    /\ outcome' = "unable to access"
    /\ UNCHANGED <<current, processes, pagetable, mapcounts, running, exhausted>>

Access(v, rw) == Hit(v, rw) \/ Fault(v, rw) \/ Refuse(v, rw)

\* switch_process puts current at the tail of the list before it searches the list for pid.
Rotated == Append(processes, current)
FirstAt(list, i, pid) == list[i] = pid /\ \A j \in 1 .. i - 1 : list[j] # pid

Unlinked(list, i) == [j \in 1 .. Len(list) - 1 |-> IF j < i THEN list[j] ELSE list[j + 1]]

Switch(pid) == \E i \in 1 .. Len(Rotated) :
    /\ FirstAt(Rotated, i, pid)
    /\ current' = pid
    /\ processes' = Unlinked(Rotated, i)
    /\ outcome' = "switched"
    /\ UNCHANGED <<pagetable, mapcounts, running, exhausted>>

\* The directories of current, with every PTE made unwritable, become the child's as well.
\* Bug variants: the fork forgets what the page was allocated for; it counts every PTE.
ReadOnly(pt) == [v \in DOMAIN pt |-> [pt[v] EXCEPT !.writable = FALSE, !.private = FALSE]]
PtesOfCurrent(f) == {v \in DOMAIN table : table[v].pfn = f}

Unwritable(pt) == [v \in DOMAIN pt |-> [pt[v] EXCEPT !.writable = FALSE]]
MappingsOfCurrent(f) == {v \in DOMAIN table : table[v].valid /\ table[v].pfn = f}

Fork(pid) ==
    /\ \A i \in 1 .. Len(Rotated) : Rotated[i] # pid
    /\ pagetable' = [pagetable EXCEPT ![current] = Unwritable(table), ![pid] = Unwritable(table)]
    /\ mapcounts' = [f \in Frames |->
                        Increment(mapcounts[f], Cardinality(MappingsOfCurrent(f)))]
    /\ current' = pid
    /\ processes' = Rotated
    /\ outcome' = "switched"
    /\ UNCHANGED <<running, exhausted>>

\* The exit command, the end of the input or a malformed command that an assertion refuses.
Exit ==
    /\ running' = FALSE
    /\ UNCHANGED <<current, processes, pagetable, mapcounts, outcome, exhausted>>

\* A page is allocated for reads or for reads and writes.
Command ==
    \/ \E v \in ScriptVpns : \/ \E rw \in {"r", "rw"} : Alloc(v, rw)
                       \/ AllocAgain(v)
                       \/ Free(v)
                       \/ FreeNothing(v)
                       \/ \E rw \in {"read", "write"} : Access(v, rw)
    \/ \E pid \in Pids : Switch(pid) \/ Fork(pid)
    \/ Exit

Next == running /\ Command

Spec == Init /\ [][Next]_vmVars

---------------------------------------------------------------------------
(* Properties *)

TypeOK ==
    /\ current \in Pids
    /\ processes \in Seq(Pids)
    /\ \A p \in Pids : /\ DOMAIN pagetable[p] \subseteq Vpns
                       /\ pagetable[p] \in [DOMAIN pagetable[p] -> Pte]
    /\ DOMAIN pagetable = Pids
    /\ mapcounts \in [Frames -> 0 .. UintMax]
    /\ running \in BOOLEAN
    /\ outcome \in Outcomes
    /\ exhausted \in BOOLEAN

Live == {current} \cup {processes[i] : i \in DOMAIN processes}

\* A process is in the list once or is the running one, never both (vm.c:45), and only a
\* process that was forked has a page table: no rotation of the list loses or doubles one.
ProcessesAreOnce ==
    /\ \A i \in DOMAIN processes : processes[i] # current
    /\ \A i, j \in DOMAIN processes : processes[i] = processes[j] => i = j
    /\ \A p \in Pids \ Live : pagetable[p] = NoDirectories

Valid(p, v) == v \in DOMAIN pagetable[p] /\ pagetable[p][v].valid
Mappings(f) == {m \in Pids \X Vpns : Valid(m[1], m[2]) /\ pagetable[m[1]][m[2]].pfn = f}

\* mapcounts[f] is the number of PTEs of all processes that map frame f, through any sequence
\* of allocations, forks, copies and frees, for as long as no frame was wanted in vain.
MapcountsAreExact ==
    ~exhausted => \A f \in Frames : mapcounts[f] = Cardinality(Mappings(f))

\* Copy-on-write isolates the processes: a frame that one PTE may write is mapped by no other
\* PTE, for as long as no frame was wanted in vain.
WritableIsUnshared ==
    ~exhausted =>
        \A p, q \in Pids : \A v, w \in Vpns :
            /\ Valid(p, v) /\ Valid(q, w)
            /\ pagetable[p][v].writable
            /\ pagetable[p][v].pfn = pagetable[q][w].pfn
            => p = q /\ v = w

\* Two PTEs share a frame only because of a fork: they stand for the same page of two
\* processes, with the same permission.
SharersAreRelatives ==
    ~exhausted =>
        \A p, q \in Pids : \A v, w \in Vpns :
            /\ Valid(p, v) /\ Valid(q, w)
            /\ pagetable[p][v].pfn = pagetable[q][w].pfn
            => v = w /\ pagetable[p][v].private = pagetable[q][w].private

\* The writable bit of a PTE is set in valid pages that were allocated for writes alone.
PermissionsAreKept ==
    \A p \in Pids : \A v \in DOMAIN pagetable[p] :
        pagetable[p][v].writable => pagetable[p][v].valid /\ pagetable[p][v].private

\* What every step of the simulator preserves.
IInv ==
    /\ TypeOK
    /\ ProcessesAreOnce
    /\ PermissionsAreKept
    /\ MapcountsAreExact
    /\ WritableIsUnshared
    /\ SharersAreRelatives

\* Until a frame is first wanted in vain, copy-on-write cannot be seen: each process has the
\* pages it allocated or inherited, may do to each what it was allocated for, and a page is
\* refused only when no frame is free. Of the step that wants a frame in vain nothing can be
\* said: AddressSpaces has it refused, as pa4.c:59 does ("Return -1 if all page frames are
\* allocated"), but the code says "allocated" or "translated".
ValidPages(p) == {v \in DOMAIN pagetable[p] : pagetable[p][v].valid}
SpaceOf(p) == [v \in ValidPages(p) |-> IF pagetable[p][v].private THEN "rw" ELSE "r"]

Spaces == INSTANCE AddressSpaces WITH
    Vpns <- ScriptVpns, space <- [p \in Live |-> SpaceOf(p)], full <- FreeFrames = {}
SpacesSpec == Spaces!Init /\ [][exhausted' \/ Spaces!Next]_(Spaces!spaceVars)

\* A fault that is handled "does the copy-on-write" (pa4.c:131): a page that becomes writable
\* by it is in a frame of its own.
HandledFaultUnshares ==
    [][\A v \in Vpns : (\E rw \in {"read", "write"} : Fault(v, rw))
                       => mapcounts'[pagetable'[current][v].pfn] = 1]_vmVars
=============================================================================
