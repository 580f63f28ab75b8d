------------------------------ MODULE VmDrafts -----------------------------
(* The earlier versions of pa4.c that are kept beside it. Each is a complete set of the four     *)
(* functions that vm.c calls, some of them still empty; version says which one vm.c is linked    *)
(* with. What a version does as pa4.c does is an action of Vm.                                   *)
EXTENDS Vm

VARIABLE version  \* the file

Drafts == {"try_alloc", "alloc", "try_switch", "try_switch-ing", "Switch", "try_handler"}

\* A signal, or a write into memory that is not the program's: the model ends there.
Crash(what) ==
    /\ outcome' = what
    /\ running' = FALSE
    /\ UNCHANGED <<current, processes, pagetable, mapcounts, exhausted>>

---------------------------------------------------------------------------
(* alloc_page *)

\* private is set for the pages that are read-only.
SwappedPage(v, flags, f) ==
    [WithPage(table, v, IF flags = {"read"} THEN "r" ELSE "rw", f) EXCEPT ![v].private = ~@]

MapFrame(pt, f) ==
    /\ pagetable' = [pagetable EXCEPT ![current] = pt]
    /\ mapcounts' = [mapcounts EXCEPT ![f] = 1]
    /\ UNCHANGED exhausted
MapNothing(pt) ==
    /\ pagetable' = [pagetable EXCEPT ![current] = pt]
    /\ exhausted' = TRUE
    /\ UNCHANGED mapcounts

alloc_alloc_page(v, flags) ==
    /\ \/ \E f \in Frames : FirstFree(f) /\ MapFrame(SwappedPage(v, flags, f), f)
       \/ FreeFrames = {} /\ MapNothing(SwappedPage(v, flags, OldPfn(v)))
    /\ outcome' = "allocated"
    /\ UNCHANGED <<current, processes, running>>
try_switch_alloc_page(v, flags) == alloc_alloc_page(v, flags)
switching_alloc_page(v, flags) == alloc_alloc_page(v, flags)

switch_alloc_page(v, flags) == Alloc(v, IF flags = {"read"} THEN "r" ELSE "rw")
handler_alloc_page(v, flags) == switch_alloc_page(v, flags)

\* The directory is the remainder of the wrong division, it is a new one every time, and the PTE
\* is looked for at vpn itself. A page for "rw" is neither RW_READ nor RW_WRITE.
Landing(v) == (NrPtesPerPage % v) * NrPtesPerPage + v
FreshDirectory(v, flags, f) ==
    [w \in DOMAIN table \cup Directory(Landing(v)) |->
        IF w = Landing(v)
        THEN [valid |-> TRUE, writable |-> flags = {"write"}, private |-> flags = {"read"}, pfn |-> f]
        ELSE IF w \in Directory(Landing(v)) THEN ZeroPte ELSE table[w]]
try_alloc_alloc_page(v, flags) ==
    IF v = 0 THEN Crash("division by zero")
    ELSE IF v >= NrPtesPerPage THEN Crash("out of bounds")
    ELSE /\ \/ \E f \in Frames : FirstFree(f) /\ MapFrame(FreshDirectory(v, flags, f), f)
            \/ FreeFrames = {} /\ MapNothing(FreshDirectory(v, flags, 0))
         /\ outcome' = "allocated"
         /\ UNCHANGED <<current, processes, running>>

alloc_page(v, flags) ==
    CASE version = "pa4" -> Alloc(v, IF flags = {"read"} THEN "r" ELSE "rw")
      [] version = "try_alloc" -> try_alloc_alloc_page(v, flags)
      [] version = "alloc" -> alloc_alloc_page(v, flags)
      [] version = "try_switch" -> try_switch_alloc_page(v, flags)
      [] version = "try_switch-ing" -> switching_alloc_page(v, flags)
      [] version = "Switch" -> switch_alloc_page(v, flags)
      [] version = "try_handler" -> handler_alloc_page(v, flags)

---------------------------------------------------------------------------
(* free_page, which only pa4.c has, under __free_page *)

FreeIgnored(v) ==
    /\ Translates(table, v, "read")
    /\ outcome' = "freed"
    /\ UNCHANGED <<current, processes, pagetable, mapcounts, running, exhausted>>
free_page(v) == IF version = "pa4" THEN Free(v) ELSE FreeIgnored(v)

---------------------------------------------------------------------------
(* handle_page_fault *)

\* Bug variant: the count that was taken for the search is not given back.
handler_handle_page_fault_short(v) ==
    LET f == table[v].pfn
        less == [mapcounts EXCEPT ![f] = Decrement(@)]
        free == {g \in Frames : less[g] = 0}
    IN
    /\ Recoverable(v)
    /\ \/ less[f] = 1 /\ MakeWritable(v, f) /\ mapcounts' = less /\ UNCHANGED exhausted
       \/ \E g \in free :
            /\ less[f] # 1
            /\ \A h \in free : g =< h
            /\ MakeWritable(v, g)
            /\ mapcounts' = [less EXCEPT ![g] = Increment(@, 1)]
            /\ UNCHANGED exhausted
       \/ less[f] # 1 /\ free = {} /\ MakeWritable(v, f) /\ mapcounts' = less /\ exhausted' = TRUE
\* try_handler.c gives the old frame up before it asks who else maps it: with one other process
\* left the page becomes writable where it is, and it is copied when there is no other.
handler_handle_page_fault(v) ==
    LET f == table[v].pfn
        less == [mapcounts EXCEPT ![f] = Decrement(@)]
        free == {g \in Frames : less[g] = 0}
    IN
    /\ Recoverable(v)
    /\ \/ less[f] = 1 /\ MakeWritable(v, f) /\ UNCHANGED <<mapcounts, exhausted>>
       \/ \E g \in free :
            /\ less[f] # 1
            /\ \A h \in free : g =< h
            /\ MakeWritable(v, g)
            /\ mapcounts' = [less EXCEPT ![g] = Increment(@, 1)]
            /\ UNCHANGED exhausted
       \/ less[f] # 1 /\ free = {} /\ MakeWritable(v, f) /\ mapcounts' = less /\ exhausted' = TRUE

\* The other versions refuse every fault.
handle_page_fault(v, rw) ==
    /\ ~Translates(table, v, rw)
    /\ CASE version = "pa4" -> Fault(v, rw) \/ Refuse(v, rw)
         [] version = "try_handler" ->
              \/ /\ handler_handle_page_fault(v)
                 /\ outcome' = "translated"
                 /\ UNCHANGED <<current, processes, running>>
              \/ Refuse(v, rw)
         [] OTHER ->
              /\ outcome' = "unable to access"
              /\ UNCHANGED <<current, processes, pagetable, mapcounts, running, exhausted>>

---------------------------------------------------------------------------
(* switch_process *)

\* Three versions stay where they are.
SwitchIgnored ==
    /\ outcome' = "switched"
    /\ UNCHANGED <<current, processes, pagetable, mapcounts, running, exhausted>>

\* try_switch-ing.c puts current in the list and looks for pid. For a pid that is not there it
\* copies the page table, which is a read from nowhere for a directory that does not exist (what
\* it has counted until then ends with the program). When all of them exist it counts
\* directories for mappings, overwrites current with the child and puts it in the list where it
\* is already: processes is <<current>> from then on, and that node is its own successor. ptbr is
\* another block after that, of the same directories, to which no version adds one.
Overwritten == version = "try_switch-ing" /\ processes # << >>

Overwrite(pid) ==
    /\ mapcounts' = [f \in Frames |-> IF f < NrPtesPerPage THEN Increment(mapcounts[f], 1)
                                     ELSE mapcounts[f]]
    /\ pagetable' = [pagetable EXCEPT ![current] = NoDirectories, ![pid] = Unwritable(table)]
    /\ current' = pid
    /\ processes' = <<pid>>
    /\ outcome' = "switched"
    /\ UNCHANGED <<running, exhausted>>

\* Once a process is overwritten, the search finds it at once or looks for ever.
switching_switch_process(pid) ==
    IF pid = current THEN (IF Overwritten THEN SwitchIgnored ELSE Switch(pid))
    ELSE IF Overwritten THEN Crash("list without end")
    ELSE IF DOMAIN table = Vpns THEN Overwrite(pid)
    ELSE Crash("segmentation fault")

switch_switch_process(pid) == Switch(pid) \/ Fork(pid)
handler_switch_process(pid) == switch_switch_process(pid)

switch_process(pid) ==
    CASE version = "pa4" -> Switch(pid) \/ Fork(pid)
      [] version = "try_switch-ing" -> switching_switch_process(pid)
      [] version = "Switch" -> switch_switch_process(pid)
      [] version = "try_handler" -> handler_switch_process(pid)
      [] OTHER -> SwitchIgnored
=============================================================================
