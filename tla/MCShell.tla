------------------------------ MODULE MCShell ------------------------------
(* Scripts of a setting and two commands, in either order.                                   *)
EXTENDS ShellDrafts

Words(loops, cmd, args, value) == [loops |-> loops, cmd |-> cmd, args |-> args, value |-> value]
Run(loops, program) == Words(loops, program, TRUE, 0)

Settings ==
    {Words(<<>>, "timeout", TRUE, v) : v \in 0 .. 1}
    \cup {Words(<<>>, "timeout", FALSE, 0), Words(<<2>>, "exit", TRUE, 0),
     Words(<<>>, "cd", TRUE, 0)}
First == {Run(<<>>, p) : p \in Programs} \cup {Run(<<2>>, "toy"), Run(<<2, 1>>, "endless")}
Second ==
    {Run(<<>>, p) : p \in Programs}
    \cup {Run(<<0>>, "toy"), Words(<<2>>, "toy", FALSE, 0), Words(<<>>, "exit", FALSE, 0),
            Words(<<>>, "prompt", FALSE, 0)}

MCScripts ==
    {<<s, f, n>> : s \in Settings, f \in First, n \in Second}
    \cup {<<f, s, n>> : s \in Settings, f \in First, n \in Second}
=============================================================================
