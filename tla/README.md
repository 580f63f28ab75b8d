# TLA+ models of the Operating System assignments

The repository holds five C programs, one per assignment: a tokenizer (PA0), a
shell (PA1), a process scheduling simulator (PA2), locks and a ring buffer for
threads (PA3) and a virtual memory simulator (PA4). This directory holds TLA+
models of all five, the TLC configurations that check them on small instances,
and TLAPS proofs of what matters most for every value of the constants.

Beside each final program the repository keeps the files it grew from
(`try*.c`, `*Scheduler.c`, `mutex.c`, `alloc.c`, `cd.c`, ...). They are complete versions of the same
interface, so the models have a variable `version`: the same properties tell which versions keep
them.

Paths are relative to `src/sce213-pa<n>-2020s/`. All definitions are translated
from the C source; `PROJECT.json` says line by line which code each one stands
for, which properties watch over which hazard, and how each property was seen to
fail on a plausible bug (the definitions marked "Bug variant").

## 1. Inventory

### PA0: the tokenizer (pa0.c)

| Part | State | Operations |
|---|---|---|
| `main` | one buffer for all lines of a file | reads a line, prints its tokens |
| `parse_command` | positions in the buffer, `tokens[]` | copies words and quoted strings out of the buffer |

Sequential. What is hard is that no loop inside a token looks at the end of the buffer, which
still holds what longer lines left there. Correct means that each line gives its words,
quoted blanks included.

### PA1: `mysh` (pa1.c, parser.c, toy.c)

| Part | State | Operations |
|---|---|---|
| Command loop | `stdin` (a buffer over a file descriptor that children share), the tokens of a line | `main` reads and runs lines until `exit` or the end of the input |
| Built-ins | `__timeout`, `__prompt`, the working directory | `timeout`, `prompt`, `cd`, `exit`, and `for n ...`, which repeats the rest of the line and may be nested |
| Foreground program | the global `pid`, the child's process table entry, its copy of `stdin` | `fork`, `execvp`, `waitpid` |
| Time-out | the pending alarm, the SIGALRM disposition | `set_timeout`, `timeout_handler`, which kills `pid` |

The shell talks to its children through the kernel only: signals, exit states and
the file offset of standard input, which all of them share. The hard behaviour is
the alarm: it may go off between any two statements, before `waitpid`, in it
(which then fails with EINTR) or after the program has ended. Correct means that
the alarm hits the program it was set for and no other process, that commands end, and
that the lines of the input are run once each, in order. Drafts: `prompt.c`, `cd.c`, `external.c`,
`for.c`, `problem.c`.

### PA2: the scheduling simulator (sched.c, pa2.c, process.h, resource.h, sched.h)

| Part | State | Operations |
|---|---|---|
| Main loop | `ticks`, `current`, `readyqueue`, `__forkqueue`, the processes' `status`, `age`, requests and holdings | fork what is due, call `schedule`, exit `prev` if it is done, acquire, work one tick, release |
| Policies | nothing of their own | `schedule`, `acquire`, `release` of fifo, sjf, srtf, rr, prio, pcp and pip |
| Resources | `owner`, `waitqueue` | taken and given back by the policies' callbacks; pcp and pip also change `prio` |
| Options and script | `argv`, the text file, `__forkqueue` | `main`, `__load_script`, before the simulation; `parse_command` of parser.c |
| Lists (list_head.h, the same file in PA2 to PA4) | `next` and `prev` of every node | the list functions and the two loops over a list |

One thread, so nothing interleaves; what is hard is the protocol between the loop
and the callbacks. A process has a single list head, and every path of every policy must
unlink it and link it exactly once; a blocked `current` must not be put back; a
release wakes a waiter that has to ask again, maybe in vain; boosts must be taken back
at the right time. Correct means that no process is lost or linked twice, that
resources are exclusive and requests are served when the script says, that the
simulation ends, and that each policy keeps its promise about who runs; of the lists, that they
are sequences, also when they change in the middle of a loop. Drafts: `try_sjf.c` and the files named
`... Scheduler.c` and `Fix-ing Prio&SRTF.c`.

### PA3: locks and the ring buffer (pa3.c, atomic.h, generator.c, counter.c, main.c, tester.c)

| Part | State | Operations |
|---|---|---|
| `struct mutex`, also a counting semaphore | `S`, `hold` (a compare-and-swap word), `queue` of nodes in the waiters' stack frames, each thread's blocked and pending SIGUSR2 | `init_mutex`, `acquire_mutex`, `release_mutex` |
| `struct spinlock` | `held` | `init_spinlock`, `acquire_spinlock`, `release_spinlock` |
| `struct ringbuffer` | `slots`, `in`, `out`, two semaphores, a mutex | `init`, `enqueue_into`, `dequeue_from`, `fini` |
| Ring buffer test | per-generator statistics, the counter's statistics, three barriers | generator threads, the counter thread, `main` spawning, collecting, comparing |
| Lock tester | `testlock`, `keep_testing`, `progress`, the observed order | tester threads and `main`, for either type of lock |

Everything is shared between threads. The mutex gives up `hold` before it sleeps;
it is woken by a signal that carries no name; the releaser follows a pointer into the waiter's
stack after it has unlocked; and one path of `release_mutex` returns with `hold` still
set, which is harmless only while `S` and the queue agree. Correct means mutual
exclusion, no lost and no stray wake-up, first come first served, a ring buffer that is a
bounded queue, and test programs that reach the right verdict. Drafts: `spinlock.c`,
`trying_mutex.c`, `trying_buffer.c`, `mutex.c`, `trying_buffer2.c`.

### PA4: the virtual memory simulator (vm.c, pa4.c, vm.h)

| Part | State | Operations |
|---|---|---|
| Page tables | per process: directories of PTEs (`valid`, `writable`, `private`, `pfn`) | `alloc_page`, `free_page`, `__translate` |
| Frames | `mapcounts` | counted up and down by all of the above |
| Faults | | `handle_page_fault`: copy-on-write, or reclaim by the last sharer |
| Processes | `current`, the list `processes`, `ptbr` | `switch_process`, which forks a process it does not find |
| Console | the commands | `alloc`, `free`, `access`, `read`, `write`, `switch`, `exit`, and a few that print |

One thread; what is hard is that long sequences of legal commands (fork, fork
again, free here, write there) must leave the map counts exact, since they decide
whether a write copies a frame or writes to it in place. Correct means that each process
sees its own address space, that the counts are exact, that a writable frame is
unshared, and that running out of frames does no harm. Drafts: `try_alloc.c`, `alloc.c`,
`try_switch.c`, `try_switch-ing.c`, `Switch.c`, `try_handler.c`.

### Not modelled

* Drafts that do not compile: `SRTF Scheduler.c`, `RR Scheduler.c` (PA2) and `try-ing.c` (PA3). In
  `SJF Scheduler.c`, srtf (`sjrf_schedule`) has no body and returns no value. The policies a draft does
  not offer are stopped by the assertion of sched.c:322 before the first tick.
* What is only printed (prompts, statistics, dumps, `show` and `pages` of PA4, `dump_status` of
  PA2), the options of the PA3 and PA4 programs, the CPU usage test of PA3's tester (test #4, a wall
  clock threshold) and time itself.
* What no program uses of list_head.h: the backward, continuing and hash list macros, `list_splice` and
  `list_splice_tail` (which leave the head they take from as it was), and `list_replace` but under `list_replace_init`.
* Pages of 256 and above in PA4: some commands read beyond the outer table before they look at
  the number (pa4.c:67). The models give the pages the README allows.
* SIGUSR2 from elsewhere, and EINTR from job control (pa3.c:149): a sleeper of `Semaphore` goes on with
  its signal only.
* A "for" of PA1 whose fourth word is again "for", which copies words over each other.

## 2. The modules

```
Semaphore ── MutexUse ── MutexProofs                 FifoSemaphore (abstract, refined by Semaphore)
   │  ├────── RingBuffer ── RingDrafts               BoundedQueue  (abstract, refined by RingBuffer)
   │  ├────── LockTester ── LockDrafts
   │  └────── SemaphoreProofs
   │             ├── LockProofs (over LockDrafts)
   │             └── RingBufferProofs (over RingBuffer)
Vm ── VmDrafts ── VmConsole ── VmProofs              AddressSpaces (abstract, refined by Vm)
Sched ── SchedDrafts ── SchedProofs                  Timeshare     (abstract, refined by Sched)
Shell ── ShellDrafts ── ShellProofs
LinkedList   Words ── HelperProofs (over both)       Queues        (abstract, refined by LinkedList)
Tokenizer    Script
```

`MC*.tla` give the constants values for TLC; each run is one `.cfg`.

### Semaphore, FifoSemaphore, MutexUse

`Semaphore` models `init_mutex`, `acquire_mutex` and `release_mutex` (pa3.c:107-183)
with a step for each access to shared memory and each system call. `lpc[t]` is the
next statement of thread `t`: `acqCas` is the loop at 141, `acqAdd` the list
insertion at 145, `acqMask`, `acqDrop`, `acqWait` the lines 146 to 150, and so on. The
spinning of a compare-and-swap that fails changes nothing, so it is not a step. SIGUSR2 is
the sets `masked` and `pending`; a signal to a thread that does not block it
ends the process (`killed`), after which nothing moves. The caller is left open:
`CallAcquire` and `CallRelease` are enabled for any thread outside the library, on any
instance. What a caller really does is in the modules that extend this one:
`MutexUse` (threads that acquire and release in pairs), `RingBuffer`, `LockTester`.

`FifoSemaphore` is the promise: permits, a line of waiters, and a grant to the head of the
line. `FifoSpec` maps the steps of the library to it.

### RingBuffer, BoundedQueue

`RingBuffer` is the whole test program of main.c, generator.c and counter.c around
the ring buffer of pa3.c: generators, counter and `main` are threads of
`Semaphore`, whose steps are interleaved with theirs, and `sema`, `empty` and
`mutex` are three of its instances. `in` and `out` are advanced in a step of their own
after the slot was written or read, as in the code. `QueueSpec` says that all this is
a bounded FIFO queue.

`RingDrafts` puts the same program over the earlier ring buffers: the empty ones of four files, and
that of `trying_buffer2.c`, which reads a slot after it has given it back.

### LockTester, LockDrafts

`LockTester` is `test_lock` and `test_thread` of tester.c for a lock under test
that is a spinlock or a mutex (`lock_type`, chosen at the start), from the first
assertion to the verdict about the waiting order. `aborted` becomes true when an
assertion of the C code fails. `Punctual` says that the 10 ms sleeps order the
arrivals of the last test, as its comment assumes.

`LockDrafts` puts the tester over the locks of the five drafts. A definition is named after the file and the
function it models. Where a draft does as pa3.c does, its definition is the action
of `Semaphore`; `trying_buffer.c` tests the count and touches the queue after it has unlocked, so
that its steps are its own (no property depends on them: this mutex loses wake-ups and is none of those that
`Works` names); `trying_mutex.c` dies in `init_mutex`. `Works` names the locks
that pass the test.

### Vm, AddressSpaces, VmDrafts, VmConsole

`Vm` has an action for every console command that changes state: allocation, free, an
access with the fault it may raise, a switch, a fork, and the exits. A command is
atomic since the program has one thread. A page table is a function on the
pages whose directory exists; `mapcounts` decrements modulo `UintMax + 1`. `exhausted`
is a history variable: a frame was wanted and there was none. From then on the code is
defective (see section 5), so what it promises about counts, isolation and address spaces is
claimed up to that step, while the rest of `IInv` (types, processes, sharers) holds beyond it.

`AddressSpaces` is what the user of the console sees: no frames, no counts, only
which pages each process has, what it may do to them, and whether a frame is free: a page that needs one when
none is left is refused (`AllocFull`, `AccessFull`), as pa4.c:59 and vm.c:197-200 say. `SpacesSpec` maps the console to it
until a frame is first wanted in vain; what the code does then is not what is documented.

`VmDrafts` has the four functions of each earlier pager, and `VmConsole` the command line over any of
them (vm.c): which words make which call, the flags, and the assertions (that of vm.c:137 refuses no flags only). A draft
that follows a null pointer, leaves its tables or never gets out of its list ends in an outcome of its own.
`try_switch-ing.c` forks only when all directories exist: it then counts directories in place of mappings and
overwrites the running process with its child (`Overwrite`), which `VersionsIsolate` takes into account.

### Sched, Timeshare, SchedDrafts

`Sched` has an action for each call the main loop makes (sched.c:324-389): `Fork` (of one process),
`Schedule` (one operator per policy, named like its function), `Switch` (with
the exit of `prev` and the end of the simulation), `Acquire`, `Work`,
`Release`, `NextTick`. The script and the policy are chosen in `Init`. Where the program would
dereference NULL, link a process into a second list or fail an assertion, `pc`
becomes `"null"`, `"corrupt"` or `"assert"` and the model stops. Scripts need not be sensible: a
process may have no time, and ask for more than it has.

`Timeshare` is the promise that does not depend on the policy: one processor,
exclusive resources, requests served at the age they name and kept exactly as
long as they say.

`SchedDrafts` adds the files pa2.c grew from: `version` is the file, and for each there are the
`schedule`, `acquire` and `release` of the policies it offers. `Sound` says which scripts a policy is
made for, and `Doomed` which ones it cannot take (section 5); between the two are scripts
that a policy may survive by luck.

### Shell, ShellDrafts

`Shell` interleaves three actors: the statements of `main` and `run_command`, the
signal handler, which may run after any of them once the alarm is set, and the
children, whose `exec`, end and death come at any time. The buffer of `stdin` and the offset of the
shared file are explicit, since `fflush(stdin)` before the fork and `exit` in a child whose `exec` failed
both move that offset. `fork` may fail. The process dies (`"segv"`) where
the "for" compares a word that is not there. `ShellDrafts` has `main` and `run_command` of the five earlier
shells, over the same input and the same kernel.

### Tokenizer, Words, Script

The three take text apart, an action for each round of a loop or each line read. `Tokenizer` is PA0, over a
buffer that remembers earlier lines, `Words` the `parse_command` of PA1, PA2 and PA4, which cuts a line where
it lies. Characters are the classes the code tells apart. `Script` is `main` and `__load_script` of
sched.c on words. Their properties compare the result with a definition that has no loops: the words of a
line are its longest runs without blanks, the processes of a script are its closed descriptions. In `Tokenizer` the
words are those of the documentation, without blanks at their ends (`Trimmed`); which lines pa0.c splits like that is said by
`Regular`, a line whose quotes and end are as the code wants them, and `Tight`, no blank next to a quotation mark.

### LinkedList, Queues

`LinkedList` is list_head.h as operators on a memory of `next` and `prev` pointers, in the order
of the assignments, for the functions the programs use and their relatives, with the two loops the programs use as a walk that calls may interrupt. `Queues` says
what all other modules assume of it: each head has a sequence, and an entry is in one of them,
once, or in none. `QueuesSpec` is the refinement.

## 3. The runs

Twelve runs; properties in `PROJECT.json`. All runs with symmetry check safety
only, and the symmetric constants are interchangeable in specification and properties.

| Run | Question | Instance and bounds |
|---|---|---|
| `semaphore` | Is the library a FIFO semaphore for any caller, and is `IInv` (below) true? | 3 threads, 2 instances with 1 and 0 permits; releases only while `S` stays at most `MaxS` = 2 |
| `mutex_use` | Are mutexes exclusive; does who is queued get in; does a release return? | 3 threads, 2 mutexes |
| `ring_buffer` | Is the ring buffer a bounded queue; do statistics match? | 2 generators of 2 requests, the counter, 2 slots, 2 values |
| `ring_buffer_live` | Does the program end when the buffer is full and empty all the time, in any version? | 2 generators of 2 requests, 1 slot, 6 versions |
| `ring_buffer_verbose` | Finding 1 | 1 generator of 2 requests, with the progress report |
| `lock_tester` | Under which locks do the tester's assertions hold, and does it come to a verdict? | 3 testers for pa3.c and `DraftTesters` = 2 for the drafts; 2 rounds in the place of 100 for spinlocks, 1 for mutexes; 6 versions |
| `vm` | Exact counts, isolation and address spaces until a frame is wanted in vain, `IInv` beyond it and a wrapped count | 2 pids, 2 pages in different directories, 2 frames, `UintMax` = 15 |
| `vm_cow` | Finding 2 | as `vm` |
| `sched` | All policies of all versions: nobody lost, who runs, resources, the end | 3 processes; the script families of `MCSched` |
| `sched_pip` | Finding 3 | 3 processes, one of which holds two resources |
| `shell` | The alarm, children left behind, the shared input, the end of commands | 3 lines: a setting and two commands, in either order; 6 versions |
| `helpers` | Text, lists, and the pagers under the console | files of up to 7 characters (7: those that begin with a word), a buffer of 7 and 2 tokens; lines of up to 6 characters; scripts of up to 4 lines; 2 lists of 3 entries; 3 pids, 2 pages, 2 frames |

Why the bounds are enough:

* Semaphore: two waiters are needed for an order, and a third thread to release; two
  instances are needed for a signal meant for another one. `MaxS` only cuts releases
  nobody waits for. A caller that acquires and never releases may put all threads to sleep, so deadlock
  is not an error in this run; it is one in those with a real caller (`mutex_use`, `ring_buffer`,
  `lock_tester`).
* Ring buffer: with two slots `in` and `out` wrap, with four requests the buffer is full and
  empty in some behaviours, and two generators race for the indices. Symmetry is on
  generators and values.
* Lock tester: the rounds are equal to each other, so that two of them show what a
  round leaves behind for the next. A second tester is enough to break a lock that is not exclusive; the
  waiting order needs the three that pa3.c gets.
* Vm: two processes make a parent and a child, and a frame that is shared, copied and
  reclaimed; two pages in different directories cover the outer table, and the frames are fewer than the
  pages, so that behaviours go on beyond the last frame. A small `UintMax` lets a count
  wrap. The console of `helpers` has three processes: a page shared three times, and a fork of a fork. There `FewLive`
  keeps `Switch.c` at two processes (it shares as `try_handler.c` does) and pa4.c, which has a run of its own, at
  one, and the view leaves out `running` and `outcome`, which no property of this run
  mentions. `exit` ends the simulation, so deadlock is no error.
* Sched: three processes make a middle priority, three waiters (one owner and two in line), and a cycle
  of two with a bystander. Lifespans up to 3 give a tie, a shorter and a longer job; requests
  come at birth, later, nested, and in opposite order. `LongScripts` has jobs at the bound of
  sjf, `GapScripts` ticks without work, `OddScripts` processes without time and requests that outlast
  their process, `KnotScripts` a process that asks for what it holds, `ProudScripts` priorities
  around `MAX_PRIO`, and `TryScripts` short scripts for the drafts. The end of the simulation is a deadlock for
  TLC, and not an error.
* Shell: an alarm can only reach the next command, so that two programs are enough; settings are a
  limit, no limit, a question and a "for" of exits; programs end, do not end, or cannot
  be executed, once, repeated or nested. A program that does not end without a limit keeps the
  shell waiting, so deadlock is no error.
* Text: six characters are two quoted strings, three words, or a long line followed by a short
  one; with room for two words a third one overflows. The buffer takes six characters of a line, so that files
  of seven have lines that do not fit and are read in two pieces. Four lines are a description with two
  properties, or two descriptions of which the first is not closed.
* Lists: with three entries one is neither first nor last, and with two heads lists can be joined, cut and
  exchanged. The five parts of `helpers` have nothing in common; a behaviour runs one of them, to its end.

The type invariants of `Semaphore` and `Vm` are conjuncts of their `IInv`. Those of the other modules
are stated (`UseTypeOK`, `RBTypeOK`, `TestTypeOK`) for proofs and not
listed in a run.

### Fairness

* Threads of PA3: weak fairness of each thread's steps outside and inside the library,
  and of the barriers: a runnable thread is scheduled. The compare-and-swap loop gets nothing more than that:
  a thread may lose it for ever while others come and go, so no property claims
  that every `acquire_mutex` returns. `QueuedGetsIn` begins after the loop; `ReleaseReturns` holds
  because on a mutex all competitors go to sleep; `Terminates` because the
  programs make finitely many calls, and `WorkingLocksAreJudged` begins when `main` has cleared `keep_testing`,
  after which each tester makes finitely many.
* `Sched`: one thread, weak fairness of `Next`.
* `Shell`: the kernel runs the shell and the children, and time passes: weak fairness of each
  of the three.

## 4. What is proved

TLAPS proves the following for every value of the constants allowed by the
modules' assumptions: finitely many threads, any initial permits
(`SemaphoreAssumption`); any number of generators, requests, slots and testers, and finitely many
numbers (`RingBufferAssumption`, `LockTesterAssumption`); a finite set of pids with 0 in it, any page and frame
counts, and an unsigned int that can count all mappings (`SizesAssumption`); any lines of the console whose numbers
are pids and pages where a command wants them (`LinesAssumption`), and any versions of the pager; any number of processes
(`NrProcessesAssumption`), any set of resources, and any scripts in which a request lasts a tick at
least and the requests of a process differ (`CasesAssumption`), under any of the seven versions
(`VersionsAssumption`); any heads, and finitely many entries (`NodesAssumption`); any lines of characters, and any length
of `tokens[]` (`CommandsAssumption`, `MaxTokensAssumption`).

**Semaphore** (`SemaphoreProofs`). The properties of the run are not inductive: that a sleeper is owed
exactly one wake-up depends on where the releaser is, on what is queued, and on `S`. `IInv` joins

* `LockInv`: `hold[m]` is 1 if and only if somebody is in the region it protects, and then one thread;
* `QueueInv`: whoever is queued waits in that call on that instance, is queued once and has no signal
  pending; `PoppedInv`: whoever was popped is asleep, off the queue, and popped by one releaser;
* `SignalInv`: signals are pending for sleepers only, and sleepers have SIGUSR2 blocked;
  `WaitInv`: a sleeper is queued, popped or signalled;
* `NegativeSCountsQueue` with `BranchInv`: the deficit of `S` is the length of the
  queue, give or take who is about to be linked or unlinked.

There is a lemma per action. `HoldIsALock`, `WakeUpComesOnce`,
`SignalsWakeSleepers`, `GthreadIsInItsFrame` and `NegativeSCountsQueue` follow; `WaitersOweS` counts the waiters
for the callers of the library, below.

**First come, first served** (`SemaphoreProofs`). `Spec => FifoSpec`: under `IInv` each step of the library
is a step of `FifoSemaphore` or does not show (`NextIsFifo`). The line of waiters is the queue, with the thread
that is about to be linked and without the one about to be unlinked (`AdderIsInLine`, `PoppedIsOutOfLine`); `LockInv`
makes that one thread at a time. `NegativeSCountsQueue` is what makes a release find somebody when the
line is not empty and nobody when it is (`HandOverRefines`, `FreeRefines`), and `QueueInv` that a thread is in
line once, so that the one served is out of it. `SignalledIsServed`: a sleeper that wakes has been served.

**Mutual exclusion** (`MutexProofs`). `UseInv` adds a count to `IInv`: `S[m]` is `Permits[m]` less the
users of `m`, the threads that have decremented it and not yet incremented it again (`AcqDecCounts`,
`RelIncCounts`: these two steps make and unmake one user). The users that are neither queued nor
about to be are at most `Permits[m]`, since `IInv` says how many are queued; the threads in
their critical sections are among them.

**Ring buffer** (`RingBufferProofs`), for any number of generators, requests and slots. `RingInv` adds to `IInv`
what the caller knows: which call each thread is in (`CallInv`), how many rounds it has behind it (`RoundInv`),
that `main` waits for the others (`JoinInv`), and

* `PermitInv`: `S` of `sema` is `N` less the free slots that generators have taken, plus those the counter has given back;
  `S` of `empty` is the filled slots announced less those fetched; `S` of `mutex` is 1 less its users. Each is
  counted at the step that changes `S`, in the middle of a call;
* `IndexInv`: `in` and `out` are the numbers of requests inserted and emptied, modulo `N`, and a value is in its
  slot before `in` passes it.

The numbers of requests are the cardinality of a set of pairs of a generator and a round (`Requests`), which grows by
one at a time. With `WaitersOweS` a positive part of `S` is never owed to a waiter: slots are owned by at
most `N` requests at a time and the mutex by one thread (`BoundsHold`, `IndicesAreLocked`). `SlotsAreConserved`
follows, at the end too, where all counts are equal. For `QueueAlways` the queue is the slots from `out` to `in`:
`AdvanceIn` is a `Put` and `Load` a `Get`, all other steps stutter (`NextRefines`). The bounds keep the slot that a
generator fills out of the queue (`RoomForOne`), and two rounds less than `N` apart have different remainders
(`ModIsUnique` and its like).

**The results of the ring buffer test** (`RingBufferProofs`). `ResultsMatch` is about sums over the generators and over the
numbers, by a recursive fold. Its induction is done by hand: of the subsets of a finite set for which a
claim fails, one is of least cardinality (`AllSubsets`), and from there a sum changes by what one summand changes
(`TotalChanges`). `NumbersInv` is the balance kept at every step: for each number, how often generators have
published it, which is when `in` passes it, is how often the counter has consumed it and the slots from `out` to `in` hold it.
`PhaseInv` and `CollectInv` say that `main` adds up between the second barrier and the third, while no
generator runs. At the end the buffer is empty, so that published and consumed are equal.

**Lock tester** (`LockProofs`). The library is known only as the semaphore it implements: a call joins the line
or takes the lock, a release hands it to the first in line or frees it (`FifoOp`, `TheLine`, `Free`), and a spinlock is such a
semaphore on which nobody waits in line. `Exclusion` gives the lock to one thread at a time, from the moment it is
granted to the one at which its release takes effect; `Marks` says that `testlock.held` is set by just that
thread, so that the assertions about it hold. `Phases` says which testers may be where while `main` is at each of
its statements: the barriers keep all in the same test. With these `OnlyOrderMayFailAlways`: no assertion but the
last one can fail, and no signal ends the test. The last one needs that the sleeps of the testers order them
(`Punctual`, which the C code takes for granted as well): then `Order` says that they ask, wait in line and get in by
their ids, and `WorkingLocksPassAlways` follows.

**Virtual memory** (`VmProofs`). `IInv` says that `mapcounts[f]` is the number of PTEs that map `f`, that a
writable frame has one mapping, that sharers are the same page of different processes,
and that the process list has no duplicates. The counts are cardinalities of
sets that change by one PTE (`OnePteMoves`, `OnePteCounts`) or by a whole table (`ForkedMappings`);
everything else is a case split over the commands. The isolation
conjuncts are guarded by `~exhausted`, as the code gives them up with its last frame.

**Separate address spaces** (`VmProofs`). Under `IInv` every command that does not want a frame in vain maps to one of
`AddressSpaces` or to a stutter (`NextRefines`), so `Spec => SpacesSpec`: no fault, copy or fork shows in what an
access may do, and no page is refused while a frame is free. `full` is the absence of a frame with count 0: an
allocation or a copy takes a free one (`FaultTakesFree`), and all others leave a free frame free.

**The versions of the pager** (`VmProofs`), under the lines of the console. Each version has an invariant its functions
leave it with (`PagerInv`). `try_switch-ing.c` has that of the versions that exchange permissions until it overwrites a
process; from then on its counts may be too high, never too low (`OverwrittenInv`). pa4.c and `Switch.c` have `IInv`. The versions that exchange what `private` and `writable`
say lose that part of it only (`SwappedInv`); `try_handler.c` keeps the counts, and not that a writable frame is unshared;
`try_alloc.c` loses directories with pages in them, so that all that remains is one half of the counts: a frame nobody
counts is mapped by nobody (`UncountedIsUnmapped`). That half is enough to hand out unmapped frames.

**Shell** (`ShellProofs`), for any scripts (`ScriptsAssumption`), for pa1.c and the four drafts before `problem.c`.
`IInv` says that the alarm is pending only in `wait` and `disarm`, with the handler in place and `pid` the child it was
set for; that all children but the last have been waited for or killed; and that what the buffer of `stdin` and the
file hold together are the lines to come (`InputInOrder`), which is why a child that moves the offset
back does no harm: `fflush` has left it nothing to move. `AlarmsAreSafe`, `NobodyIsLeft` and `NoGhostInput` follow.

**Scheduler** (`SchedProofs`), for every policy of every version. What the fourteen functions behind
`schedule` have in common is stated once (`Choice`, `Ends`): current goes on, or goes back to the
others, or is left, and what follows it was in the ready queue; likewise `acquire` grants or
refuses, and `release` gives back and wakes one waiter. Each policy is shown to do this, and the invariants
below rest on that alone, or on the promises it makes on top of it, such as which policies look at a
blocked `current`. They build on each other:

* `BasicInv`: the types, and that what is left to acquire or to hold is part of the script and not overdue;
  `PlaceInv`: no list has a process twice, and no two lists share one, until the list is declared corrupt;
* `WaitInv`: who waits for a resource asks for it first of all, so that a process that was woken takes the promise of a
  free resource over. This is why `NoLostWakeup` holds although a release wakes one waiter only;
* `RequestInv`: what is held was granted at its age and is not over; `LifeInv`: nobody works before its start or
  beyond its lifespan; `StandInv`: who is not linked, not current and not leaving has exited. With the three,
  a step is one of `Timeshare` or does not show;
* `QuietInv`: an owner of fifo, sjf or pcp keeps the processor until it has released, so that nobody
  finds a resource taken; `LendInv`: under pip an owner has the priorities of all behind it, and
  the heir of a release those of all that still wait;
* `StayInv`, `DueInv`, `SurviveInv`: who can never be chosen, who is due is forked in time, and no policy meets a
  process it cannot handle on a script made for it; `ShareInv`: the ready queue holds equals in the order of their turns;
* `RrInv`: rr crashes at the second idle tick in a row, or the first of all. It works whenever there is work, so
  what is left at a tick is the most that a span of ticks up to it brought beyond its own length
  (`Conserving`). Work is a set of pairs of a process and a tick, so that the amounts are cardinalities, which
  change by one pair a tick, and no sum has to be proved about.

`TypeOKAlways`, `NoLostWakeupAlways`, `OnlyTrySjfForgetsAlways`, `RunsToCompletionAlways`,
`OnlyPreemptionBlocksAlways`, `NoSimpleInversionAlways`, `EqualsShareTicksAlways`, `DoomedScriptsCrashAlways` and
`SoundScriptsSurviveAlways` state all safety properties of the run `sched`; `SchedImplementsTimeshare` is the
refinement. It assumes `NoneOutlives`: a process without time is not in a script of the `prio` of `Prio Scheduler.c`, which
would let it work beyond its lifespan.

**Linked lists** (`HelperProofs`), for any heads and entries. `Represents(m, q)` says that the pointers `m` are a
ring through each head, with the entries of the sequence `q[head]` on it in their order, that no entry is in two places, and
that an entry in none is poisoned or points to itself. There is a lemma for each function: from
pointers that represent `q` it makes pointers that represent what `Queues` says of the call. That the sequences
are those one reads off by following `next`, which is what `QueuesSpec` maps the pointers to, takes the smallest number of
steps that leads back to the head (`LeastNat`). `RingsAreWholeAlways` is a consequence of the rings. For
`WalksVisitAllAlways` a plain loop finds its list as it was, and a safe one the rest of the entries, behind the one its body
may delete or move, at the end of the list (`EndsWith`).

**Words** (`HelperProofs`). `WordsInv` says which blanks have been overwritten (those before `curr`), that
the pointers grow and are where words start before `curr`, and are as many as those; at the end a pointer is followed by the
characters of its word up to a NUL, since both the end of the word and that of the string are the least of the
numbers behind it at which a blank was (`StringIsWord`).

Only model-checked:

* liveness (`QueuedGetsIn`, `ReleaseReturns`, `Terminates`, `WorkingLocksAreJudged`, `CommandsEnd`, and that
  simulations end), which the prover has no rules for;
* `FilesAreSplit` and `ScriptsAreLoaded`: both say what is right by listing, in order, all places of a text that
  satisfy a condition, and by filtering sequences, whose recursive definitions would each need an induction
  like the one for sums.

## 5. Where the code and its documentation disagree

Shown by a run:

1. `ring_buffer_verbose`. The progress report of the generators is every `nr_generate >> 4`
   requests (generator.c:90, counter.c:47), a remainder by 0 when `-n` is below
   16. The usage text (main.c:91) gives no lower limit, and reporting is the default.
2. `vm_cow`. `handle_page_fault` makes the PTE writable (pa4.c:150) before it looks for a free
   frame. If there is none it returns true and the page is writable in the frame it shares; the
   comment (pa4.c:131-135) asks for a copy-on-write, or false.
3. `sched_pip`. `prio_release` restores the original priority (pa2.c:464) even if
   the process still holds a resource that a higher process waits for. The README (65-66) asks for the
   resources it holds to be looked at.

In the models, and part of what the passing runs say (each also observed by running the program):

* rr dereferences `current` when an idle tick left none (pa2.c:346), a script that starts after tick
  0 and one without processes included (`Starved`); sjf unlinks NULL when all lifespans are 100 or more (pa2.c:218); under fifo a request
  that outlasts its process ends in an assertion. `DoomedScriptsCrash` has these scripts.
* srtf and rr (pa2.c:265, 330) put a `current` that has just blocked into the ready queue while it is
  linked in a wait queue. README.md:53 of PA2 wants requests served first come, first served under
  these policies too; the program aborts or loops for ever once one of them blocks, so
  `Sound` gives them scripts without contention only.
* A process that asks for a resource it already holds waits for itself for ever; under sjf, srtf and rr
  that aborts (`NoneBlocksItself`, `KnotScripts`).
* pcp lends an owner `MAX_PRIO`, 64, but `__load_script` takes any priority: a process at 64 or above
  takes the processor from an owner (`BelowCeiling`, `ProudScripts`).
* The sjf of try_sjf.c goes round an unlinked entry for ever when the first process has lifespan 0 (232).
* A process with lifespan 0 never satisfies `age == lifespan` (sched.c:342) and is forgotten at the end:
  the `Lifeless` of `OnlyTrySjfForgets`, with a resource it may hold. Processes that wait for each other are forgotten too.
* `for 5 pwd`, the example of PA1's README (163), compares a NULL token (pa1.c:123). `Shell`
  ends in `"segv"` there.
* A word or a quoted string of PA0 that reaches the end of what `fgets` returned goes on into what is behind it
  in the buffer (pa0.c:92, 104): `FilesAreSplit` promises words for regular lines only, which end with a
  blank, fit into the buffer and close their quotes, and says that a line without its newline (the last one, or one
  that does not fit), not shorter than those before, that ends inside a word is not got over.
* A quoted token keeps the blanks next to its quotation marks: `"This "` is `This ` in pa0.c (127-131), while its comment
  (pa0.c:79) makes it `This`, and PA0's README (17) says that "any heading and trailing whitespace should be removed from
  the command tokens". `FilesAreSplit` compares with the documented words, and is claimed for files without
  such blanks (`TightFile`): without that conjunct TLC finds the file `"x "` with a newline.
* A "process" before the "end" of another one, or the end of the file, drops the description without a word
  (sched.c:174): `ScriptsAreLoaded` says so.
* With all frames mapped `alloc_page` returns the last `pfn` the PTE had (pa4.c:83-93), and `alloc` reports success; the
  comments ask for -1 (pa4.c:59) and for the end of the simulation (vm.c:197-200). The PTE was made valid before the search, so
  that the frame it names is shared and not counted. With two frames: `alloc 0 rw`, `alloc 2 rw`, `switch 1`, `free 0`,
  `alloc 0 rw` says "allocated" and maps the page to frame 0, which process 0 uses. `AddressSpaces` refuses such a page;
  `SpacesSpec` therefore says nothing of that step and those after it (`exhausted`).
* The assertion "Cannot read and write at the same time!!" (vm.c:136-137) is `(rw & RW_READ) ^ (rw & RW_WRITE)`, which is 3 for both
  flags: `access 1 rw` goes on, as a read (`AccessFlags`).
* Of the drafts, `try_handler.c` lets a process write to a frame another one still reads; `try_alloc.c` loses
  directories; `try_switch-ing.c` counts directories for mappings (186) and overwrites the
  running process; the mutex of `trying_buffer.c` loses wake-ups; `problem.c` leaves children behind.

Met while reading, without a run:

* srtf compares lifespans, not what is left of them (pa2.c:269), and its search prefers
  the candidate in a tie, which the comment (265) gives to `current`.
* prio releases with `fcfs_release` (pa2.c:417): the first waiter is woken. README.md:53 wants the
  one with the highest priority.
* The result of `sigwaitinfo` is ignored (pa3.c:149): EINTR, after a stop and a continue, would let a
  thread into the critical section.
* A program that was already waited for may be reported as timed out (pa1.c:157-167), and its pid
  killed.

## 6. Plan

Done, in the order of importance: the mutex (all other parts of PA3 rest on it) with its
proofs and its refinement; the ring buffer and the lock tester; the virtual memory with its
proofs and refinement; the scheduler; the shell with its proofs; the text, the lists, and the drafts of all
programs; the proofs of the ring buffer and its refinement; those of the scheduler and its refinement; those of the lock
tester, the results of the ring buffer, the versions of the pager, the lists and the words.

Next, in this order:

1. EINTR from job control in `Semaphore`: a step that lets a sleeper go without its signal.
2. `FilesAreSplit`, with the induction used for sums.

## 7. Running it

`tlc -workers 2 -config X.cfg M` checks a run (`module` and `cfg` in `PROJECT.json`); the passing ones take
from seconds to about a minute each, the three that show findings end with a
counterexample. `tlapm M.tla` checks the proofs of `SemaphoreProofs`, `MutexProofs`, `LockProofs`,
`RingBufferProofs`, `VmProofs`, `SchedProofs`, `ShellProofs` and `HelperProofs` (some of them take several minutes). A mutant replaces the body of a definition by a call
of the bug variant that precedes it; the property listed with it is then violated in its run.
