---------------------------- MODULE ShellDrafts ----------------------------
(* The shells that were kept on the way to pa1.c, each a main and a run_command of its own:  *)
(* prompt.c, cd.c, external.c, for.c and problem.c. A behaviour is one of them, or pa1.c.    *)
EXTENDS Shell

VARIABLE version  \* the source file of the shell

draftVars == <<vars, version>>

Versions == {"prompt", "cd", "external", "for", "problem", "pa1"}

-----------------------------------------------------------------------------
(* What several of them share. *)

\* "for" is a command that does nothing.
SkipFor ==
    /\ pc = "for"
    /\ repeat' = IF Command.loops = <<>> THEN 1 ELSE 0
    /\ pc' = "command"
    /\ UNCHANGED <<script, offset, buffer, line, timeout, handled, pid, alarm, children>>

\* A command that needs no child: back to the loop of "for", or a crash.
Builtin(crashes) ==
    /\ pc' = IF crashes THEN "segv" ELSE pc
    /\ repeat' = repeat - 1
    /\ UNCHANGED <<script, offset, buffer, line, timeout, handled, pid, alarm, children>>

\* The loop of "for" is over, or "exit" was not inside of one.
Leave ==
    /\ pc = "command"
    /\ \/ NothingLeft /\ pc' = "read"
       \/ ~NothingLeft /\ Command.cmd = "exit" /\ Command.loops = <<>> /\ pc' = "end"
    /\ UNCHANGED <<script, offset, buffer, line, repeat, timeout, handled, pid, alarm, children>>

AtCommand(cmds) == pc = "command" /\ ~NothingLeft /\ Command.cmd \in cmds
AtNestedExit == AtCommand({"exit"}) /\ Command.loops # <<>>

\* wait takes any child that is dead, and fails at once when there is no child.
WaitAny ==
    /\ pc = "wait"
    /\ \/ \E c \in DOMAIN children :
            /\ children[c].state = "zombie"
            /\ children' = [children EXCEPT ![c].state = "reaped"]
       \/ /\ \A c \in DOMAIN children : children[c].state = "reaped"
          /\ UNCHANGED children
    /\ pc' = "disarm"
    /\ UNCHANGED <<script, offset, buffer, line, repeat, timeout, handled, pid, alarm>>

\* The end of run_command for a program that has no alarm.
Done ==
    /\ pc = "disarm"
    /\ pc' = "command"
    /\ repeat' = repeat - 1
    /\ UNCHANGED <<script, offset, buffer, line, timeout, handled, pid, alarm, children>>

\* fflush, then "if(fork())": a failed fork waits, too.
ForkUnchecked ==
    /\ AtCommand(Programs)
    /\ offset' = offset - Len(buffer)
    /\ buffer' = <<>>
    /\ \/ children' = Append(children, NewChild(0))
       \/ UNCHANGED children
    /\ pc' = "wait"
    /\ UNCHANGED <<script, line, repeat, timeout, handled, pid, alarm>>

-----------------------------------------------------------------------------
(* prompt.c *)

prompt_main == Read

\* Only "exit" and "prompt" do anything.
prompt_run_command ==
    \/ SkipFor
    \/ Leave
    \/ AtCommand({"prompt"}) /\ Builtin(~Command.args)
    \/ AtCommand({"cd", "timeout"} \cup Programs) /\ Builtin(FALSE)

-----------------------------------------------------------------------------
(* cd.c *)

cd_main == Read

cd_run_command ==
    \/ SkipFor
    \/ Leave
    \/ AtCommand({"prompt", "cd"}) /\ Builtin(~Command.args)
    \/ AtCommand({"timeout"} \cup Programs) /\ Builtin(FALSE)

-----------------------------------------------------------------------------
(* external.c *)

external_main == Read

external_run_command ==
    \/ SkipFor
    \/ Leave
    \/ AtCommand({"prompt", "cd"}) /\ Builtin(~Command.args)
    \/ AtCommand({"timeout"}) /\ Builtin(FALSE)
    \/ ForkUnchecked
    \/ WaitAny
    \/ Done

-----------------------------------------------------------------------------
(* for.c *)

for_main == Read

for_run_command ==
    \/ For
    \/ Leave
    \/ AtNestedExit /\ Builtin(FALSE)
    \/ AtCommand({"prompt", "cd"}) /\ Builtin(~Command.args)
    \/ AtCommand({"timeout"}) /\ Builtin(FALSE)
    \/ ForkUnchecked
    \/ WaitAny
    \/ Done

-----------------------------------------------------------------------------
(* problem.c *)

problem_main == Read

\* Nothing is given back to standard input, and a failed fork gets its alarm like any child.
problem_fork ==
    /\ pc = "fork"
    /\ \/ children' = Append(children, NewChild(Len(buffer))) /\ pid' = Len(children) + 1
       \/ UNCHANGED children /\ pid' = ForkFailed
    /\ pc' = "arm"
    /\ UNCHANGED <<script, offset, buffer, line, repeat, timeout, handled, alarm>>

\* The alarm comes before the handler, and wait may take a child that an earlier alarm left.
problem_run_command ==
    \/ For
    \/ RunCommand
    \/ problem_fork
    \/ ArmFirst
    \/ WaitAny
    \/ Disarm

\* wait blocks while no child is dead.
problem_timeout_handler ==
    /\ GoOff
    /\ IF ~handled THEN pc' = "killed"
       ELSE \/ UNCHANGED pc
            \/ /\ pc = "wait"
               /\ \E c \in DOMAIN children : Alive(c)
               /\ \A c \in DOMAIN children : children[c].state # "zombie"
               /\ pc' = "disarm"

-----------------------------------------------------------------------------

DraftsInit == Init /\ version \in Versions

DraftStep ==
    \/ version = "prompt" /\ (prompt_main \/ prompt_run_command)
    \/ version = "cd" /\ (cd_main \/ cd_run_command)
    \/ version = "external" /\ (external_main \/ external_run_command)
    \/ version = "for" /\ (for_main \/ for_run_command)
    \/ version = "problem" /\ (problem_main \/ problem_run_command)
    \/ version = "pa1" /\ ShellStep

AlarmStep == IF version = "problem" THEN problem_timeout_handler ELSE TimeoutHandler

DraftsNext == UNCHANGED version /\ (DraftStep \/ AlarmStep \/ ChildStep)

\* The kernel runs the shell and its children, and time passes.
DraftsSpec ==
    /\ DraftsInit /\ [][DraftsNext]_draftVars
    /\ WF_draftVars(UNCHANGED version /\ DraftStep)
    /\ WF_draftVars(UNCHANGED version /\ AlarmStep)
    /\ WF_draftVars(UNCHANGED version /\ ChildStep)

-----------------------------------------------------------------------------
(* Correctness. *)

\* No alarm hits the shell itself, a later program or everybody (kill(-1)): the order of
\* sigaction, alarm, waitpid and alarm(0), and the test of what fork returned. problem.c has
\* none of the first and the last right.
AlarmsAreSafe == version # "problem" => AlarmIsOfItsChild /\ pc # "killed"

\* One program at a time: no shell goes on to the next command and leaves a program behind
\* that it has neither waited for nor killed. In problem.c, wait may take an older child.
NobodyIsLeft == version # "problem" => OnlyKilledAreLeft

\* No ghost input: although a child whose exec fails moves the offset of the file it shares with
\* the shell, its lines are executed one after the other, each once; but problem.c has lost its
\* fflush. (No program of the model reads that file: what one reads is lost to the shell.)
NoGhostInput == [][version # "problem" => (line' # line => line' = line + 1)]_draftVars

\* "Let the shell detect non-finishing programs": a shell with a time-out that is not 0 gets
\* past any program, a shell without one past those that end.
CommandsEnd ==
    (/\ pc = "wait"
     /\ \/ version \in {"problem", "pa1"} /\ timeout # 0
        \/ children = <<>>
        \/ Program(Len(children)) # "endless")
    ~> pc # "wait"
=============================================================================
