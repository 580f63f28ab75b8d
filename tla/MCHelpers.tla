------------------------------ MODULE MCHelpers ------------------------------
(* The sequential parts: what reads text, the linked lists and the pagers under their console.   *)
(* They have nothing to do with each other, so that one of the five runs and the others stay    *)
(* where they are.                                                                               *)
EXTENDS Tokenizer, Words, Script, LinkedList, VmConsole

\* Lines of up to six characters fit into the buffer. The files of seven are those that begin with
\* a word, the first six characters of a line that does not fit.
MCFiles ==
    UNION {[1 .. n -> Chars] : n \in 0 .. 6}
    \cup {f \in [1 .. 7 -> Chars] : f[1] \in {"quote", "x"}}

MCCommands == UNION {[1 .. n -> WordChars] : n \in 0 .. 6}

\* Scripts of up to four lines, right and wrong, and command lines for one of them.
ScriptLines ==
    {<<>>, <<"process", 1>>, <<"process", 2>>, <<"process">>, <<"end">>, <<"lifespan", 3>>,
     <<"lifespan", 4>>, <<"prio">>, <<"acquire", 1, 0, 2>>, <<"acquire", 2, 1, 1>>,
     <<"acquire", 1>>, <<"nice", 1>>}
MCTexts == UNION {[1 .. n -> ScriptLines] : n \in 0 .. 4}
Words6 == {"q", "s", "c", "h", "file", "missing"}
MCInvocations ==
    [argv : {<<"file">>}, text : MCTexts]
    \cup [argv : UNION {[1 .. n -> Words6] : n \in 0 .. 3},
          text : {<<<<"process", 1>>, <<"start", 1>>, <<"end">>>>}]

TokIdle ==
    /\ file = <<>> /\ at = 0 /\ line = [n \in 0 .. BufLen - 1 |-> NUL]
    /\ ix = 0 /\ num = 0 /\ t_num = 0
    /\ tokens = <<>> /\ parsed = <<>> /\ tpc = "idle"
WordsIdle ==
    /\ program = "pa1" /\ typed = <<>> /\ command = <<>> /\ curr = 1 /\ token_started = FALSE
    /\ pointers = <<>> /\ comment = 1 /\ wpc = "idle"
ScriptIdle ==
    /\ argv = <<>> /\ text = <<>> /\ getopts = <<>> /\ sched = "fifo" /\ quiet = FALSE
    /\ lineno = 0 /\ process = <<>> /\ toFork = <<>> /\ spc = "idle"

MCVpns == {1, 2}
MCPids == {0, 1, 2}
MCLines ==
    {<<>>, <<"exit">>, <<"show">>, <<"flush", 1>>, <<"map", 1, <<"r">>>>, <<"alloc", 1, <<"x">>>>,
     <<"access", 1, <<"r", "w">>>>, <<"access", 2, <<"w">>>>, <<"alloc", 1, <<"r">>, 1>>}
    \cup {<<"s", p>> : p \in Pids} \cup {<<"free", 1>>, <<"r", 1>>, <<"write", 1>>}
    \cup {<<"a", 1, <<"r">>>>, <<"a", 1, <<"r", "w">>>>, <<"a", 1, <<"w">>>>, <<"a", 2, <<"r", "w">>>>}
\* try_handler.c runs with three processes beyond the last frame, Switch.c, which shares frames in
\* the same way and never exchanges one, with two. The pager of pa4.c has a run of its own: here it
\* has one process and a frame for each page.
FewLive ==
    /\ version = "Switch" => 2 \notin Live
    /\ version = "pa4" => Live = {0} /\ ~exhausted

NoText == TokIdle /\ WordsIdle /\ ScriptIdle
NoPager == Init /\ version = "none"
HelpersInit ==
    \/ TokInit /\ WordsIdle /\ ScriptIdle /\ ListInit /\ NoPager
    \/ TokIdle /\ WordsInit /\ ScriptIdle /\ ListInit /\ NoPager
    \/ TokIdle /\ WordsIdle /\ ScriptInit /\ ListInit /\ NoPager
    \/ NoText /\ ListInit /\ (NoPager \/ ConsoleInit)
HelpersNext ==
    \/ TokNext /\ UNCHANGED <<wordVars, scriptVars, listVars, consoleVars>>
    \/ WordsNext /\ UNCHANGED <<tokVars, scriptVars, listVars, consoleVars>>
    \/ ScriptNext /\ UNCHANGED <<tokVars, wordVars, listVars, consoleVars>>
    \/ /\ NoText /\ version = "none"
       /\ ListNext /\ UNCHANGED <<tokVars, wordVars, scriptVars, consoleVars>>
    \/ version # "none" /\ ConsoleNext /\ UNCHANGED <<tokVars, wordVars, scriptVars, listVars>>
HelpersSpec ==
    HelpersInit /\ [][HelpersNext]_<<tokVars, wordVars, scriptVars, listVars, consoleVars>>

\* What the console printed and that it stopped matters to no property here.
Memory == <<tokVars, wordVars, scriptVars, listVars, version, current, processes, pagetable,
            mapcounts, exhausted>>
=============================================================================
