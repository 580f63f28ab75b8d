----------------------------- MODULE VmConsole -----------------------------
(* __do_simulation of vm.c: what it makes of a line, which is the sequence of the words that     *)
(* parse_command returns, in lower case. A number is what strtoimax makes of the word, the       *)
(* flags of a page are the sequence of their letters. The functions it calls are those of the    *)
(* version that vm.c is linked with.                                                             *)
EXTENDS VmDrafts

CONSTANTS
    Lines,    \* the lines of the script
    Versions  \* the files to link with

\* A page that a command names is in the page table, a process one of Pids.
ASSUME LinesAssumption == \A line \in Lines :
    /\ Len(line) > 0 => line[1] \in STRING
    /\ Len(line) = 2 /\ line[1] \in {"switch", "s"} => line[2] \in Pids
    /\ Len(line) = 2 /\ line[1] \in {"free", "f", "read", "r", "write", "w"} => line[2] \in ScriptVpns
    /\ Len(line) = 3 /\ line[1] \in {"alloc", "a", "access"} => line[2] \in ScriptVpns
ASSUME VersionsAssumption == Versions \subseteq Drafts \cup {"pa4"}

consoleVars == <<vmVars, version>>

ConsoleInit == Init /\ version \in Versions

\* __make_rwflag: other letters are skipped.
RwFlag(word) ==
    {rw \in {"read", "write"} :
        \E i \in DOMAIN word : word[i] = (IF rw = "read" THEN "r" ELSE "w")}

\* show, pages, help, an empty line or a command it does not know: nothing but text.
OnlyPrints == UNCHANGED vmVars

AccessMemory(v, rw) == Hit(v, rw) \/ handle_page_fault(v, rw)

\* The assertion in __access_memory refuses no flags only: RW_READ ^ RW_WRITE is not 0, so that
\* an access for both goes on, and neither __translate nor a fault takes it for a write.
AccessFlags(v, flags) ==
    IF flags = {} THEN Exit
    ELSE AccessMemory(v, IF flags = {"write"} THEN "write" ELSE "read")

\* __alloc_page. The assertion asks for some flag; a page that is allocated ends the simulation.
AllocFlags(v, flags) ==
    IF flags = {} THEN Exit
    ELSE IF Translates(table, v, "read") THEN AllocAgain(v) ELSE alloc_page(v, flags)

FreePage(v) == FreeNothing(v) \/ free_page(v)

Console(line) ==
    CASE Len(line) = 1 -> IF line[1] = "exit" THEN Exit ELSE OnlyPrints
      [] Len(line) = 2 ->
           (CASE line[1] \in {"switch", "s"} -> switch_process(line[2])
              [] line[1] \in {"free", "f"} -> FreePage(line[2])
              [] line[1] \in {"read", "r"} -> AccessMemory(line[2], "read")
              [] line[1] \in {"write", "w"} -> AccessMemory(line[2], "write")
              [] OTHER -> OnlyPrints)
      [] Len(line) = 3 ->
           (CASE line[1] \in {"alloc", "a"} -> AllocFlags(line[2], RwFlag(line[3]))
              [] line[1] = "access" -> AccessFlags(line[2], RwFlag(line[3]))
              [] OTHER -> OnlyPrints)
      [] Len(line) = 0 -> OnlyPrints
      [] OTHER -> Exit  \* the assertion "Unknown command in trace"

ConsoleNext ==
    /\ running
    /\ \E line \in Lines : Console(line)
    /\ UNCHANGED version

ConsoleSpec == ConsoleInit /\ [][ConsoleNext]_consoleVars

---------------------------------------------------------------------------
\* The versions of the pager against the console, for as long as no frame was wanted in vain. All
\* of them count the mappings of a frame right, but try_alloc.c, which loses whole directories of
\* pages, and try_switch-ing.c once it has overwritten a process. All of them isolate the
\* processes but try_handler.c, which makes a page writable while one other process still maps
\* its frame.
VersionsIsolate ==
    /\ version = "try_alloc" \/ Overwritten \/ MapcountsAreExact
    /\ version = "try_handler" \/ WritableIsUnshared
=============================================================================
