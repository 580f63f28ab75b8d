------------------------------- MODULE Script ------------------------------
(* What main() of sched.c does before the simulation: the options, one by one, and the script, *)
(* line by line, which __load_script() turns into the list of processes to fork. A line is the *)
(* sequence of its words, as parse_command() returns them.                                     *)
(*                                                                                             *)
(* spc says where main() is. It ends in "run" (the simulation starts), "usage" or "refused"    *)
(* (main() returns EXIT_FAILURE), "assert", or "null" where a property comes before any        *)
(* process.                                                                                    *)
EXTENDS Integers, Sequences, FiniteSets

CONSTANT Invocations  \* what the program is started with, each a record [argv, text]

SchedulerOf ==
    [f |-> "fifo", s |-> "sjf", S |-> "srtf", r |-> "rr", p |-> "prio", i |-> "pip", c |-> "pcp"]
Properties == {"lifespan", "prio", "start"}

ASSUME InvocationsAssumption == \A v \in Invocations : v.argv \in Seq(STRING)

VARIABLES
    argv,      \* the words after the program's name; "file" and "missing" name a script
    text,      \* the lines of that script
    getopts,   \* the options getopt() has still to return
    sched,     \* sched
    quiet,     \* quiet
    lineno,    \* how many lines fgets() has returned
    process,   \* p of __load_script, <<>> for NULL
    toFork,    \* __forkqueue
    spc        \* where main() is

scriptVars == <<argv, text, getopts, sched, quiet, lineno, process, toFork, spc>>

ScriptNames == {"file", "missing"}
\* getopt() returns the options first, wherever they stand.
OptionsOf(args) == SelectSeq(args, LAMBDA o : o \notin ScriptNames)

ScriptInit ==
    /\ \E v \in Invocations : argv = v.argv /\ text = v.text
    /\ getopts = OptionsOf(argv)
    /\ sched = "fifo"
    /\ quiet = FALSE
    /\ lineno = 0
    /\ process = <<>>
    /\ toFork = <<>>
    /\ spc = "getopt"

-----------------------------------------------------------------------------
(* main() *)

\* An option: a later policy replaces an earlier one, "h" and what is unknown end the program.
Option ==
    /\ spc = "getopt"
    /\ getopts # <<>>
    /\ getopts' = Tail(getopts)
    /\ quiet' = (quiet \/ Head(getopts) = "q")
    /\ sched' = IF Head(getopts) \in DOMAIN SchedulerOf THEN SchedulerOf[Head(getopts)] ELSE sched
    /\ spc' = IF Head(getopts) \in DOMAIN SchedulerOf \cup {"q"} THEN spc ELSE "usage"
    /\ UNCHANGED <<argv, text, lineno, process, toFork>>

\* The first word that is no option names the script, and nobody asks whether fopen() found it.
Named == SelectSeq(argv, LAMBDA o : o \in ScriptNames)
Open ==
    /\ spc = "getopt"
    /\ getopts = <<>>
    /\ spc' = IF Named = <<>> THEN "usage" ELSE IF Head(Named) = "missing" THEN "null" ELSE "load"
    /\ UNCHANGED <<argv, text, getopts, sched, quiet, lineno, process, toFork>>

-----------------------------------------------------------------------------
(* __load_script(): a line of the script. *)

Line == text[lineno + 1]
Keyword == Line[1]
NewProcess(pid) == [pid |-> pid, lifespan |-> 0, prio |-> 0, start |-> 0, acquire |-> <<>>]

\* Bug variant: "end" leaves p as it is.
EndKept ==
    IF process = <<>> THEN spc' = "assert" /\ UNCHANGED <<process, toFork>>
    ELSE toFork' = Append(toFork, process) /\ UNCHANGED <<process, spc>>
\* "end" links p to the processes to fork.
End ==
    IF process = <<>> THEN spc' = "assert" /\ UNCHANGED <<process, toFork>>
    ELSE toFork' = Append(toFork, process) /\ process' = <<>> /\ UNCHANGED spc

\* "process": p is another process from here on, whatever it was.
Begin ==
    /\ UNCHANGED toFork
    /\ IF Len(Line) # 2 THEN spc' = "assert" /\ UNCHANGED process
       ELSE process' = NewProcess(Line[2]) /\ UNCHANGED spc

Set ==
    /\ UNCHANGED toFork
    /\ IF Len(Line) # 2 THEN spc' = "assert" /\ UNCHANGED process
       ELSE IF process = <<>> THEN spc' = "null" /\ UNCHANGED process
       ELSE process' = [process EXCEPT ![Keyword] = Line[2]] /\ UNCHANGED spc

AddRequest ==
    /\ UNCHANGED toFork
    /\ IF Len(Line) # 4 THEN spc' = "assert" /\ UNCHANGED process
       ELSE IF process = <<>> THEN spc' = "null" /\ UNCHANGED process
       ELSE process' = [process EXCEPT !.acquire = Append(@, Tail(Line))] /\ UNCHANGED spc

LoadLine ==
    /\ spc = "load"
    /\ lineno < Len(text)
    /\ lineno' = lineno + 1
    /\ UNCHANGED <<argv, text, getopts, sched, quiet>>
    /\ \/ Line = <<>> /\ UNCHANGED <<process, toFork, spc>>
       \/ Line # <<>> /\ Keyword = "process" /\ Begin
       \/ Line # <<>> /\ Keyword = "end" /\ End
       \/ Line # <<>> /\ Keyword \in Properties /\ Set
       \/ Line # <<>> /\ Keyword = "acquire" /\ AddRequest
       \/ /\ Line # <<>>
          /\ Keyword \notin {"process", "end", "acquire"} \cup Properties
          /\ spc' = "refused"
          /\ UNCHANGED <<process, toFork>>

Loaded ==
    /\ spc = "load"
    /\ lineno = Len(text)
    /\ spc' = "run"
    /\ UNCHANGED <<argv, text, getopts, sched, quiet, lineno, process, toFork>>

ScriptNext == Option \/ Open \/ LoadLine \/ Loaded

-----------------------------------------------------------------------------
(* What a script says, told without reading it line by line. *)

LineIs(n, word) == text[n] # <<>> /\ text[n][1] = word
\* The descriptions: from a "process" to the next "end", with no other "process" between.
Blocks ==
    {<<a, b>> \in (1 .. Len(text)) \X (1 .. Len(text)) :
        /\ a < b /\ LineIs(a, "process") /\ LineIs(b, "end")
        /\ \A n \in a + 1 .. b - 1 : ~LineIs(n, "process") /\ ~LineIs(n, "end")}
\* The last word a description has for a property counts.
Value(block, property) ==
    LET set == {n \in block[1] .. block[2] : LineIs(n, property)} IN
    IF set = {} THEN 0 ELSE text[CHOOSE n \in set : \A m \in set : m =< n][2]
Asks(block) ==
    LET lines == SelectSeq(SubSeq(text, block[1], block[2]),
                           LAMBDA l : l # <<>> /\ l[1] = "acquire")
    IN [n \in DOMAIN lines |-> Tail(lines[n])]
Described ==
    [n \in 1 .. Cardinality(Blocks) |->
        LET block == CHOOSE b \in Blocks : Cardinality({c \in Blocks : c[1] < b[1]}) = n - 1 IN
        [pid |-> text[block[1]][2], lifespan |-> Value(block, "lifespan"),
         prio |-> Value(block, "prio"), start |-> Value(block, "start"), acquire |-> Asks(block)]]

Arity(l) == IF l[1] = "acquire" THEN 4 ELSE IF l[1] = "end" THEN Len(l) ELSE 2
InBlock(n) == \E a \in 1 .. n - 1 : LineIs(a, "process") /\ \A m \in a + 1 .. n - 1 : ~LineIs(m, "end")
\* Every line is one the loader knows, of the right length and inside a description.
WellFormed ==
    \A n \in DOMAIN text : text[n] # <<>> =>
        /\ text[n][1] \in {"process", "end", "acquire"} \cup Properties
        /\ Len(text[n]) = Arity(text[n])
        /\ LineIs(n, "process") \/ InBlock(n)

LastAsked ==
    LET asked == SelectSeq(argv, LAMBDA o : o \in DOMAIN SchedulerOf) IN
    IF asked = <<>> THEN "fifo" ELSE SchedulerOf[asked[Len(asked)]]

\* sched.c runs what the script describes, and only a script without a mistake: each description
\* that is closed becomes one process, in order, with the last value of each property. One that
\* is not closed, by the next "process" or by the end of the file, is dropped without a word. It
\* runs under the policy that was asked for last.
ScriptsAreLoaded ==
    /\ spc = "run" => WellFormed /\ toFork = Described /\ sched = LastAsked
    /\ spc \in {"refused", "assert", "null"} => ~WellFormed \/ Head(Named) = "missing"
=============================================================================
