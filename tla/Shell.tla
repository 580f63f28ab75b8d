------------------------------- MODULE Shell -------------------------------
(* mysh of PA1: main and run_command of pa1.c, with the program it runs in the foreground,   *)
(* the alarm that limits it and the SIGALRM handler, and the standard input it shares with   *)
(* its children. A child runs between any two steps of the shell, and the alarm goes off at  *)
(* any time after it was set: how long a second is does not matter to any property.          *)
(*                                                                                           *)
(* A line is what the parser made of it: the counts of its "for"s, a command, and whether    *)
(* arguments follow the command. Standard input is a file, as in the Makefile's tests; the C *)
(* library reads all of it at once. The prompt and the directory are left out; "prompt" and  *)
(* "cd" only matter when their argument is missing.                                          *)
EXTENDS Integers, Sequences, FiniteSets
LOCAL INSTANCE Functions

CONSTANT Scripts  \* the files the shell may be given

Builtins == {"timeout", "exit", "prompt", "cd"}
Programs == {"toy", "endless", "missing"} \* ends by itself, does not, cannot be executed
Line == [loops : Seq(Nat), cmd : Builtins \cup Programs, args : BOOLEAN, value : Nat]

ASSUME ScriptsAssumption == Scripts \subseteq Seq(Line)

NoChild == 0
ForkFailed == -1

VARIABLES
    script,
    offset,    \* lines before the offset of the open file, which parent and children share
    buffer,    \* lines read ahead into the shell's stdin
    pc,        \* the next statement of the shell
    line,      \* the line that is executed
    repeat,    \* how often its command is still to be run
    timeout,   \* __timeout
    handled,   \* sigaction has installed timeout_handler
    pid,       \* pid
    alarm,     \* the child the pending alarm was set for, or NoChild
    children   \* what the kernel knows of each child, and its line

vars == <<script, offset, buffer, pc, line, repeat, timeout, handled, pid, alarm, children>>

Command == script[line]
Times(loops) == FoldFunction(LAMBDA n, m : n * m, 1, loops)

Init ==
    /\ script \in Scripts
    /\ offset = 0
    /\ buffer = <<>>
    /\ pc = "read"
    /\ line = 0
    /\ repeat = 0
    /\ timeout = 2
    /\ handled = FALSE
    /\ pid = NoChild
    /\ alarm = NoChild
    /\ children = <<>>

-----------------------------------------------------------------------------
(* The shell. *)

\* fgets and parse_command: the next line, from the file if nothing was read ahead.
Read ==
    /\ pc = "read"
    /\ LET ahead == IF buffer = <<>>
                    THEN [i \in 1 .. (Len(script) - offset) |-> offset + i]
                    ELSE buffer IN
       IF ahead = <<>>
       THEN pc' = "end" /\ UNCHANGED <<offset, buffer, line>>
       ELSE /\ line' = Head(ahead)
            /\ buffer' = Tail(ahead)
            /\ offset' = IF buffer = <<>> THEN Len(script) ELSE offset
            /\ pc' = "for"
    /\ UNCHANGED <<script, repeat, timeout, handled, pid, alarm, children>>

\* run_command calls itself for every "for" in front of the command. The innermost one that
\* is entered compares the word after its command, which may be missing.
For ==
    /\ pc = "for"
    /\ LET loops == Command.loops IN
        /\ repeat' = Times(loops)
        /\ pc' = IF /\ loops # <<>>
                    /\ Times(SubSeq(loops, 1, Len(loops) - 1)) > 0
                    /\ ~Command.args
                 THEN "segv" ELSE "command"
    /\ UNCHANGED <<script, offset, buffer, line, timeout, handled, pid, alarm, children>>

\* Bug variant: "f <= lnum".
NothingLeftInclusive == repeat < 0
NothingLeft == repeat = 0

\* exit, prompt, cd, timeout, and everything else up to the fork. What the command returns to
\* a "for" is ignored, and "prompt" and "cd" take their argument unseen.
RunCommand ==
    /\ pc = "command"
    /\ IF NothingLeft THEN pc' = "read" /\ UNCHANGED <<repeat, timeout>>
       ELSE \/ /\ Command.cmd = "exit"
               /\ pc' = IF Command.loops = <<>> THEN "end" ELSE pc
               /\ repeat' = repeat - 1
               /\ UNCHANGED timeout
            \/ /\ Command.cmd \in {"prompt", "cd"}
               /\ pc' = IF Command.args THEN pc ELSE "segv"
               /\ repeat' = repeat - 1
               /\ UNCHANGED timeout
            \/ /\ Command.cmd = "timeout"
               /\ timeout' = IF Command.args THEN Command.value ELSE timeout
               /\ repeat' = repeat - 1
               /\ UNCHANGED pc
            \/ /\ Command.cmd \in Programs
               /\ pc' = "fork"
               /\ UNCHANGED <<repeat, timeout>>
    /\ UNCHANGED <<script, offset, buffer, line, handled, pid, alarm, children>>

NewChild(ahead) == [line |-> line, state |-> "new", killed |-> FALSE, ahead |-> ahead]

\* Bug variant: stdin is not flushed before the fork.
ForkOnly ==
    /\ pc = "fork"
    /\ \/ /\ children' = Append(children, NewChild(Len(buffer)))
          /\ pid' = Len(children) + 1
          /\ pc' = "arm"
       \/ /\ pid' = ForkFailed
          /\ pc' = "disarm"
          /\ UNCHANGED children
    /\ UNCHANGED <<script, offset, buffer, line, repeat, timeout, handled, alarm>>

\* fflush(stdin) gives back what was read ahead; fork may fail.
Fork ==
    /\ pc = "fork"
    /\ offset' = offset - Len(buffer)
    /\ buffer' = <<>>
    /\ \/ /\ children' = Append(children, NewChild(0))
          /\ pid' = Len(children) + 1
          /\ pc' = "arm"
       \/ /\ pid' = ForkFailed
          /\ pc' = "disarm"
          /\ UNCHANGED children
    /\ UNCHANGED <<script, line, repeat, timeout, handled, alarm>>

\* alarm(__timeout); alarm(0) sets none.
SetAlarm == alarm' = IF timeout = 0 THEN NoChild ELSE pid

\* Bug variant: alarm before sigaction.
ArmFirst ==
    /\ \/ pc = "arm" /\ SetAlarm /\ pc' = "armed" /\ UNCHANGED handled
       \/ pc = "armed" /\ handled' = TRUE /\ pc' = "wait" /\ UNCHANGED alarm
    /\ UNCHANGED <<script, offset, buffer, line, repeat, timeout, pid, children>>

\* sigaction, then alarm.
Arm ==
    /\ \/ pc = "arm" /\ handled' = TRUE /\ pc' = "armed" /\ UNCHANGED alarm
       \/ pc = "armed" /\ SetAlarm /\ pc' = "wait" /\ UNCHANGED handled
    /\ UNCHANGED <<script, offset, buffer, line, repeat, timeout, pid, children>>

\* waitpid finds the child dead.
Reap ==
    /\ pc = "wait"
    /\ children[pid].state = "zombie"
    /\ children' = [children EXCEPT ![pid].state = "reaped"]
    /\ pc' = "disarm"
    /\ UNCHANGED <<script, offset, buffer, line, repeat, timeout, handled, pid, alarm>>

\* Bug variant: the alarm of a program that ended in time goes on.
DisarmForgotten ==
    /\ pc = "disarm"
    /\ repeat' = repeat - 1
    /\ pc' = "command"
    /\ UNCHANGED <<script, offset, buffer, line, timeout, handled, pid, alarm, children>>

Disarm ==
    /\ pc = "disarm"
    /\ alarm' = NoChild
    /\ repeat' = repeat - 1
    /\ pc' = "command"
    /\ UNCHANGED <<script, offset, buffer, line, timeout, handled, pid, children>>

Alive(c) == children[c].state \in {"new", "running"}

\* Bug variant: the handler reports the program and does not kill it.
KilledNobody == children

\* kill(pid, SIGKILL): nothing happens to a child that is dead already, and -1 is everybody.
Killed ==
    [c \in DOMAIN children |->
        [children[c] EXCEPT !.killed = @ \/ (Alive(c) /\ pid \in {c, ForkFailed})]]

\* The alarm goes off: timeout_handler runs or, before sigaction, the shell dies of it.
GoOff ==
    /\ alarm # NoChild
    /\ pc \notin {"end", "segv", "killed"}
    /\ alarm' = NoChild
    /\ children' = IF handled THEN Killed ELSE children
    /\ UNCHANGED <<script, offset, buffer, line, repeat, timeout, handled, pid>>

\* The handler is installed without SA_RESTART: a waitpid that it interrupts returns without
\* the child.
TimeoutHandler ==
    /\ GoOff
    /\ IF ~handled THEN pc' = "killed"
       ELSE \/ UNCHANGED pc
            \/ pc = "wait" /\ Alive(pid) /\ pc' = "disarm"

-----------------------------------------------------------------------------
(* The children. *)

Program(c) == script[children[c].line].cmd

\* execvp. A child it fails in exits, and the C library gives back what stdin had read ahead.
Exec(c) ==
    /\ children[c].state = "new"
    /\ ~children[c].killed
    /\ IF Program(c) = "missing"
       THEN /\ children' = [children EXCEPT ![c].state = "zombie"]
            /\ offset' = offset - children[c].ahead
       ELSE /\ children' = [children EXCEPT ![c].state = "running"]
            /\ UNCHANGED offset
    /\ UNCHANGED <<script, buffer, pc, line, repeat, timeout, handled, pid, alarm>>

\* The toy program sleeps for the seconds of its argument, if it has one, and ends.
Ends(c) == children[c].state = "running" /\ Program(c) = "toy"

\* A program comes to its end, or the SIGKILL comes to it.
Die(c) ==
    /\ Alive(c)
    /\ children[c].killed \/ Ends(c)
    /\ children' = [children EXCEPT ![c].state = "zombie"]
    /\ UNCHANGED <<script, offset, buffer, pc, line, repeat, timeout, handled, pid, alarm>>

ShellStep == Read \/ For \/ RunCommand \/ Fork \/ Arm \/ Reap \/ Disarm
ChildStep == \E c \in DOMAIN children : Exec(c) \/ Die(c)

Next == ShellStep \/ TimeoutHandler \/ ChildStep

\* The kernel runs the shell and its children, and time passes.
Spec == Init /\ [][Next]_vars /\ WF_vars(ShellStep) /\ WF_vars(TimeoutHandler) /\ WF_vars(ChildStep)

-----------------------------------------------------------------------------
(* Correctness. *)

\* Lines, children and counts stay in range.
TypeOK ==
    /\ script \in Scripts
    /\ offset \in 0 .. Len(script)
    /\ \A i \in DOMAIN buffer : buffer[i] \in 1 .. Len(script)
    /\ pc \in {"read", "for", "command", "fork", "arm", "armed", "wait", "disarm",
              "end", "segv", "killed"}
    /\ line \in 0 .. Len(script)
    /\ repeat \in Nat /\ timeout \in Nat /\ handled \in BOOLEAN
    /\ pid \in {ForkFailed, NoChild} \cup DOMAIN children
    /\ alarm \in {ForkFailed, NoChild} \cup DOMAIN children
    /\ \A c \in DOMAIN children :
        /\ children[c].state \in {"new", "running", "zombie", "reaped"}
        /\ children[c].killed \in BOOLEAN

\* "Make sure alarm is disabled once the program exits": whenever the alarm may go off, there
\* is a handler, and pid is the child the alarm was set for, neither a later one nor the -1
\* that would kill everybody.
AlarmIsOfItsChild == alarm # NoChild => handled /\ alarm = pid /\ pc \in {"wait", "disarm"}

\* One program at a time: when the shell goes on to the next command, every child has been
\* waited for or killed.
OnlyKilledAreLeft ==
    pc \in {"read", "for", "command", "fork", "end"} =>
        \A c \in DOMAIN children : children[c].state = "reaped" \/ children[c].killed
=============================================================================
