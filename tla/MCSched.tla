------------------------------ MODULE MCSched ------------------------------
(* Scripts of three processes. Process 1 comes first, as the order of the others decides.    *)
EXTENDS SchedDrafts

Process(start, lifespan, prio_, acquire) ==
    [start |-> start, lifespan |-> lifespan, prio |-> prio_, acquire |-> acquire]
Ask(r, at, duration) == [id |-> r, at |-> at, duration |-> duration]
CasesOf(versions, policies, scripts) ==
    [version : versions, policy : policies, script : scripts]
Final == {"pa2.c"}
Scripts(first, second, third) == {<<a, b, c>> : a \in first, b \in second, c \in third}

\* Without resources. Round-robin needs a process that is ready when it has none.
Plain(starts, prios) == {Process(s, l, i, <<>>) : s \in starts, l \in 1 .. 3, i \in prios}
PlainScripts == Scripts(Plain({0}, {0}), Plain({0, 1}, {0}), Plain({0, 1, 4}, {0}))
BusyScripts == Scripts(Plain({0}, {0}), Plain({0, 1}, {0}), Plain({0, 1}, {0}))
PrioScripts == Scripts(Plain({0}, {0}), Plain({0, 1}, {0, 1}), Plain({0, 1, 4}, {0, 1}))
PlainCases ==
    CasesOf(Final, {"fifo", "sjf", "srtf"}, PlainScripts)
    \cup CasesOf(Final, {"rr"}, BusyScripts) \cup CasesOf(Final, {"prio"}, PrioScripts)

\* One resource, asked for once by each process, at its birth or later.
Asking(starts, prios, requests) ==
    {Process(s, 3, i, q) : s \in starts, i \in prios, q \in requests}
Requests == {<<Ask("a", 0, 2)>>, <<Ask("a", 1, 1)>>, <<Ask("a", 1, 2)>>}
AskingScripts ==
    Scripts(Asking({0}, {0}, Requests), Asking({0, 1}, {0, 1}, Requests),
            Asking({0, 2}, {1, 2}, Requests \cup {<<>>}))
AskingCases == CasesOf(Final, {"prio", "pcp", "pip"}, AskingScripts)

\* Two resources, both at once or one inside the other, in either order.
Nested(starts, prios) ==
    {Process(s, 3, i, <<Ask(o[1], 0, 3), Ask(o[2], at, 2)>>) :
        s \in starts, i \in prios, o \in {<<"a", "b">>, <<"b", "a">>}, at \in {0, 1}}
Single(starts, prios) ==
    {Process(s, 2, i, <<Ask(r, 0, 1)>>) : s \in starts, i \in prios, r \in {"a", "b"}}
NestedScripts ==
    Scripts(Nested({0}, {0}), Nested({0, 1}, {0, 1}), Single({0, 2}, {0, 1, 2}))
NestedCases == CasesOf(Final, {"fifo", "prio", "pip"}, NestedScripts)

\* Jobs about as long as the bound of sjf, and ticks in which nobody has work.
LongScripts ==
    Scripts({Process(0, 1, 0, <<>>)}, {Process(0, 99, 0, <<>>)},
            {Process(0, l, 0, <<>>) : l \in {99, 100}})
GapScripts ==
    Scripts(Plain({0, 2}, {0}), {Process(s, 1, 0, <<>>) : s \in {0, 3}},
            {Process(s, l, 0, <<>>) : s \in {4, 5, 7}, l \in {1, 2}})
\* A process without time, and requests that are not over when their process is.
OddScripts ==
    Scripts({Process(0, l, 0, <<>>) : l \in 0 .. 2},
            {Process(s, 2, 1, <<Ask("a", at, d)>>) : s \in {0, 1},
                at \in 0 .. 2, d \in 1 .. 2},
            {Process(1, l, 0, <<>>) : l \in {0, 2}}
            \cup {Process(1, l, 0, <<Ask("a", 0, 2)>>) : l \in {0, 2}})
\* A process that asks for what it holds, and priorities at the ceiling.
KnotScripts ==
    Scripts({Process(0, 2, i, <<Ask("a", 0, 2), Ask("a", at, 1)>>) :
                i \in {0, 1}, at \in {0, 1}},
            {Process(0, 2, i, q) : i \in {0, 1}, q \in {<<>>, <<Ask("a", 0, 1)>>}},
            {Process(1, 1, 0, <<>>)})
ProudScripts ==
    Scripts(Asking({0}, {0}, Requests), Asking({1}, {MaxPrio - 1, MaxPrio + 1}, Requests),
            Asking({2}, {MaxPrio}, Requests))

\* What the drafts are tried on: short scripts, with and without contention for a resource.
Tries(starts, prios, requests) ==
    {Process(s, l, i, q) : s \in starts, l \in 1 .. 2, i \in prios, q \in requests}
TryScripts(first, prios) ==
    Scripts(Tries({0}, first, {<<>>, <<Ask("a", 0, 1)>>}),
            Tries({0}, prios, {<<>>, <<Ask("a", 0, 1)>>}),
            {Process(1, 2, i, q) : i \in prios, q \in {<<>>, <<Ask("a", 0, 2)>>}})
DraftCases ==
    CasesOf(Final, {"sjf"}, LongScripts) \cup CasesOf({"Prio"}, {"prio_srtf"}, LongScripts)
    \cup CasesOf(Final, {"rr"}, GapScripts)
    \cup CasesOf(Final, {"fifo", "sjf", "srtf", "rr", "prio", "pcp", "pip"}, OddScripts)
    \cup CasesOf(Final, {"fifo", "sjf", "srtf", "rr", "prio", "pcp", "pip"}, KnotScripts)
    \cup CasesOf({"PCP"}, {"pcp_prio", "pcp_pcp", "pcp_pip"}, KnotScripts)
    \cup CasesOf({"Prio"}, {"prio_srtf", "prio_prio"}, KnotScripts)
    \cup CasesOf(Final, {"prio", "pcp", "pip"}, ProudScripts)
    \cup CasesOf(Versions, {"fifo"}, TryScripts({0}, {0}))
    \cup CasesOf({"SJF", "Prio", "pa2.c"}, {"sjf"}, TryScripts({0}, {0}))
    \cup CasesOf({"PCP", "Fixing", "PIP", "pa2.c"}, {"srtf"}, TryScripts({0}, {0}))
    \cup CasesOf({"Prio", "PCP", "Fixing", "PIP", "pa2.c"}, {"rr"}, TryScripts({0}, {0}))
    \cup CasesOf({"try_sjf.c"}, {"try_sjf"}, TryScripts({0}, {0}) \cup OddScripts)
    \cup CasesOf({"PCP", "Fixing", "PIP"}, {"pip_sjf"}, TryScripts({0}, {0}))
    \cup CasesOf({"Prio"}, {"prio_srtf"}, TryScripts({0}, {0}))
    \cup CasesOf({"Prio"}, {"prio_prio"}, TryScripts({0}, {0}) \cup TryScripts({1}, {1, 2}))
    \cup CasesOf({"PCP", "Fixing"}, {"pcp_prio", "pcp_pcp", "pcp_pip"}, TryScripts({0}, {0, 1}))
    \cup CasesOf({"PIP"}, {"prio", "pcp", "pip"}, TryScripts({0}, {0, 1}))

MCCases == PlainCases \cup AskingCases \cup NestedCases \cup DraftCases

\* One process with both resources and two that want one each.
PipCases ==
    CasesOf(Final, {"pip"},
            Scripts(Nested({0}, {0}), Single({0, 1}, {1, 2}), Single({0, 1, 2}, {1, 2})))
=============================================================================
