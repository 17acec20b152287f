# Formal models of the QNX port of lmbench

lmbench is a set of small programs (`lat_*`, `bw_*`, and a few others) that
measure operating system primitives.  Each program supplies a benchmark function;
a common harness, `benchmp()` in `lib_timing.c`, forks the children that execute
it, makes sure that they run at the same time, and reduces their times to a
median.  This repository adds a QNX port: cycle-counter clocks (`TIMES.c`), a
message passing ring (`msgring.c`) and two versions of the context switch ring
(`lat_ctx.c`, `lat_ctx_qnx.c`).

The numbers are believable only if the processes did what the arithmetic assumes:
everybody was loaded while anybody measured, the token went round exactly once per
counted round, a chain of pointers visits the memory it is said to visit, nothing was
lost or counted twice on the way to the median, the clock differences are those of the clock.  That is what this project states, checks with TLC
and, for any number of processes and any parameters, proves with TLAPS.

Paths in this document are relative to `src/src/` unless they begin with `src/`.

## 1. Inventory

| part | state | operations | talks to |
|---|---|---|---|
| harness `benchmp` (`lib_timing.c` 84-770) | four pipes, `pids[]`, signal dispositions and flags in the parent; `benchmp_child_state` in each child | `benchmp`, `benchmp_parent`, `benchmp_child`, `benchmp_interval`, handlers of SIGTERM, SIGCHLD, SIGALRM | its children over anonymous bytes in pipes, SIGTERM, `waitpid`; the benchmark by `initialize`, `benchmark`, `cleanup` |
| results (`lib_timing.c` 1163-1299) | `result_t` arrays, one per child and one merged | `insertsort`, `sizeof_result`, `set_results`, `save_median` | children write arrays to the response pipe, the parent merges |
| stop watch (`lib_timing.c` 785-893, 1086-1121) | two static `timeval`s | `start`, `stop`, `settime`, `gettime`, `tvsub`, `tvdelta` | the clock below it; carries the final result of every measurement |
| QNX clocks (`TIMES.c`) | none (the cycle counter) | `gettimeofday`, `clock_gettime`, `diff_tv`, `diff_tp`, `diff_tp_ns` | stop watch, `sleeptest.c`, `msgring.c` |
| calibration (`lib_timing.c` 1300-1580, `bench.h`) | static `initialized` flags, `enough`, overheads; the caller's results, `n` and time | `init_timing`, `get_enough`, `compute_enough`, `t_overhead`, `l_overhead`, `BENCH` | stop watch, results |
| message ring (`msgring.c`) | processes, QNX channels, one file | fork chain, `writefile`, `readfile`, `jumper`, `iterator`, `kill(0, ..)` | QNX `MsgSend`, `MsgReceive`, `MsgReply` |
| context switch ring (`lat_ctx.c`, `lat_ctx_qnx.c`) | pipes, `pids[]`, daemons | `initialize`, `create_daemons`, `doit`, `benchmark`, `cleanup` | runs inside a child of the harness, under its SIGCHLD handler |
| ping-pong (`lat_pipe`, `lat_fifo`, `lat_unix`, `lat_sem`, `lat_fcntl`) | two processes, one token | `doit`, `writer`, `cleanup` | harness |
| CPU placement (`lib_sched.c`), processes (`lat_proc`) | environment variable, static CPU masks; `child_pid` | `handle_scheduler`, `sched_pin`; fork, wait, `cleanup` | harness children, kernel |
| servers (`bw_tcp`, `lat_tcp`, `lat_connect`, `lat_unix_connect`, `lat_select`, `lmhttp`, `lib_tcp`, `lib_unix`) | listening socket, children | register, accept, fork, reap by SIGCHLD, stop | clients over sockets |
| datagrams (`lat_udp`, `bw_udp`, `lib_udp`) | sequence number | send, receive, compare | a lossy channel |
| streams (`bw_pipe`, `bw_unix`) | byte counts | writer, reader | harness, one another |
| memory patterns (`lib_mem.c`, `lat_mem_rd`, `lat_dram_page`, `line`, `tlb`, `par_mem`) | pointer chains, static saved pointers | chain builders, walks, `mem_reset`, `line_test`, `mem_cleanup` | harness |
| cache geometry (`cache.c`, `tlb.c`, `line.c`) | page list, array of samples | `collect_sample`, `test_chunk`, `fixup_chunk`, `search`, `find_cache`, `find_tlb` | memory patterns |
| disk copy (`lmdd.c`) | offsets, counters, one child | read, write, fork, `been_there`, `done` | files and devices |
| file tree (`lat_fs.c`) | arrays of names | `setup_names`, `setup_names_recurse`, `benchmark_mk`, `benchmark_rm`, `cleanup_names` | files |
| reporting, statistics, options, bandwidth loops, single calls | little or none | see `PROJECT.json` | all programs |

`PROJECT.json` lists every source file under one of these parts, with its state of
modelling.

### What is hard

* **Anonymous bytes.** The harness has one response pipe for all children and for
  all phases; the parent counts bytes.  `ready`, `done` and results are told apart
  by nothing but the order of events.
* **Two barriers built out of polling.**  Nobody may measure before all are
  loaded, nobody may stop loading before all have measured.
* **Failures in the middle.**  `fork`, `malloc`, `pipe`, a benchmark that exits, a
  SIGTERM, a killed parent: at each point children exist that must be terminated
  and waited for.
* **State that outlives a call.**  `benchmp()` installs `benchmp_sigterm` and never
  restores SIGTERM; `mem_benchmark` keeps in static variables where it stopped, in
  memory that is freed and allocated again; `sched_pin` reads the affinity mask once
  and its children inherit what it read; the calibration runs in the middle of whatever
  measurement calls it first.
* **Handlers of the harness in code of the benchmark.**  `initialize()` and
  `cleanup()` of `lat_ctx` kill children of their own while the harness treats a
  dead child as the end.
* **Merged signals.**  The servers wait once per SIGCHLD.
* **Rendezvous rings and bounded pipes.**  In `msgring` every process sends to its
  neighbour and blocks for the reply; in `bw_unix` two processes write to each other.
* **Silence as a message.**  A connection without data stops `lat_tcp`'s server; a
  datagram with a negative number stops `lat_udp`'s, if it arrives.
* **Structures that are taken apart and repaired.**  `line_test` cuts a chain,
  `fixup_chunk` exchanges pages and backs out.
* **Wrap-around, truncation and rounding** in times, levels of directories, byte counts.

### Properties that make each part correct

* harness: full load while measuring; report only after all have stopped; the bytes
  counted are the ones awaited; a result is complete or absent; no child is left; a
  call ends; orphans give up; resources are released once.
* results: sorted, in bounds, the union of what was reported, a median in the middle.
* stop watch and clocks: never too long but for the unit and for what the truncated rate
  adds, not too short between wraps, `settime`/`gettime` inverse.
* calibration: once, in any order of first calls, with the caller's results put back.
* rings: one message or token, the passes the printed time is divided by, an
  end of the test, no daemon left behind.
* ping-pong: turns in strict alternation, an end of main, an end of the partner, no
  signal to anybody else but in the cases that can be named.
* servers: a handler that never blocks, no stop without a word to stop, a stop that
  stops everybody; datagrams: an answer belongs to its request; streams: whole packets,
  every iteration ends.
* memory patterns and cache geometry: a chain is one cycle through exactly what was
  asked for, now and after every cut and repair; no page is lost; every step of the
  latency is refined and none overlooked.
* placement: own processors when they were asked for, are there and the system calls succeed;
  nobody measures with a mask that was not read.
* `lmdd`: blocks in their place, an amount that is short by no more than the block at hand; `lat_fs`: arrays that fit, nothing left.

The list `hazards` in `PROJECT.json` names the line where each of these can go
wrong and the property that would show it.

## 2. Modules

### `Benchmp`: the harness

State.  The parent: `pc` (its position in `benchmp`, `benchmp_parent` and the two
`error_exit` and the `cleanup_exit` parts), `i` (loop index over `pids[]`), `got`
(bytes counted in the current loop), `merged`, `timed`
(`gettime() != 0`), its signal state.  The pipes: `resp` is a set of messages tagged
with kind and sender, which the code does not see; `startB`, `resultB`, `exitB` are
numbers of unread bytes; `open` says whether the parent still holds its ends, hence
whether children get EOF and SIGPIPE.  A child: `kpc`, `st`
(warmup, timing, cooldown), `need` (`need_warmup`), `reps`, `kept`, `scale`,
its SIGTERM disposition and flag, a pending SIGTERM, and counters of `cleanup` calls.

Round `"base"` is the recursive call with one child made when `parallel > 1`
(185-203); round `"par"` is the call itself.  Child 0 belongs to the baseline.

| code | actions |
|---|---|
| `benchmp` 205-232 | `CreatePipes`, `PipesFail`, `AllocPids` |
| fork loop 233-271 | `ForkCheck`, `Fork`, `ForkFails` |
| `error_exit` 289-295 | `ErrKill`, `ErrWait` |
| `cleanup_exit` 297-326 | `WaitChild`, `Alarm`, `BaseDone` |
| `benchmp_parent` 332-519 | `ParentEntry`, `CollectReady`, `WriteStart`, `CollectDone`, `WriteResultSignal`, `ReadResults`, `WriteExit`, `ParentErrKill`, `ParentErrWait` |
| `benchmp_child` 587-652 | `ChildSetup`, `ChildMallocFails`, `ChildInstall`, `ChildCheck`, `Run` |
| `benchmp_interval` 654-770 | `OrphanExit`, `PollStart`, `ReadStart`, `Accept`, `Reject`, `PollResult`, `ReadResult`, `ChildCleanup`, `ReadExit` |
| signals | `Sigterm`, `ParentKilled`, `HandleTerm`, `Crash` |

Durations are abstracted: a batch is long enough (`Accept`) or not (`Reject`), and
the number of iterations is represented by how often it was multiplied by 8.  An
accepted batch in the model is never multiplied by 8, which is so when `enough` is
more than 158 us (`0.95 * enough > 150`); `compute_enough` gives at least 5000 unless the environment variable `ENOUGH` says less.

### `LoadBarrier`: what the harness promises

Workers that load, measure, stop, report, or die, and two guards: none measures
before all are loaded, none reports before all have stopped.  After the coordinator
has hung up nothing is promised.  `Benchmp!ImplementsBarrier` instantiates it for
the children of the main round with the phase computed from `kpc`, `st` and `need`.

### `Results`: from intervals to a median

Children insert values in an array sorted from biggest to smallest, the parent
merges whole arrays in any order, `save_median` stores the middle one or the mean of
the two middle ones with the truncating division of the code.  Slots are what
`sizeof_result()` allocates.  `u / (double) n` is the operator parameter `Rate`.  The number of
repetitions is whatever `-N` gives, since the programs hand on `atoi()` unchecked.  With 0 a child
still measures once, because it looks at the number after it has stored the value, while the merged
array has the slots of no repetition, `TRIES`: with more than `TRIES` children the parent writes
behind it.  There the model ends (`Spilt`), since what is overwritten is not known.

### `Timer`: stop watch and QNX clocks

One action per call, a cycle counter that ticks, the product `cycles * factor`
reduced modulo the word size `W`.  All units are constants, so one model stands for
microseconds, nanoseconds, every clock rate and every word length.  The rate that `TIMES.c`
divides by is `kHz`, `cycles_per_sec / 1000` in integers: with a rate that is no multiple of
1000 Hz the clock runs fast by the share that is cut off, `Drift`, less than 1000 / rate.  A rate
below 1000 Hz would be a division by zero and is excluded by an assumption.  `span`, `from`
and `over` are history variables: the cycle counts at which readings were taken.

### `MsgRing`: the QNX message ring

Process 0 forks 1, 1 forks 2, ...; process p sends to p - 1 and process 0 to the
last one, whose pid and channel it reads from a file.  `Fork`, `Boot`, `CreateFile`,
`WriteFile` build the ring (`fork_msgring`, `writefile`), `OpenFile`, `ReadFile`,
`Connect` are `readfile` and the start of `run_iterator`, `Send`, `Receive`,
`Reply`, `SendFails` the bodies of `jumper` and `iterator`, `Report` and `Finish` the
rest of `main`.  QNX message passing is external: `MsgSend` is SEND-blocked, then
REPLY-blocked, and fails when the receiver dies.  `txt[]` in `readfile` is
uninitialised, so what is parsed is a choice.

### `CtxRing`: the context switch ring

One child of the harness ("main") and its daemons, in both programs: `closes` is
TRUE for `lat_ctx_qnx.c`, which closes unused pipe ends in each daemon, FALSE for
`lat_ctx.c`, where that loop is under `#if 0`.  `CreatePipes`, `Fork`, `ForkFails`
are `initialize`; `MainWrite`, `MainRead` the priming round and `benchmark`;
`DaemonStart`, `DaemonRead`, `DaemonWrite`, `DaemonEnds` are `doit`; `Finish`,
`Kill`, `Wait` are `cleanup`.  `armed` is the harness's SIGCHLD handler, in force
until the first batch is over (`benchmp_interval` sets SIGCHLD to its default).

### `PingPong`: five latency programs with a partner

`prog` says which: `lat_pipe`, `lat_fifo`, `lat_unix`, `lat_sem`, `lat_fcntl`.  The
shared object is a pair of counters `toW`, `toM` (bytes under way, or the two
semaphores) or the owners of two file locks.  `Resources`, `ResourcesFail`, `Fork`,
`ForkFails` and, for the FIFOs, `OpenFifos` are `initialize`; `MainWrite`, `MainRead`,
`MainSemop`, `ProcA` the benchmark functions; `PartnerRead`, `PartnerWrite`,
`PartnerPost`, `PartnerSemop`, `ProcB` the partners; `CallCleanup`, `Kill`, `Wait`
are `cleanup`.  `HasPid` and `Fatal` carry the difference between the cleanups: the
test of `pid`, and SIGTERM (`lat_fifo`) or SIGKILL.  The program differences that
matter are in what a failed call does: exit, `cleanup`, or go on with bad descriptors.
The harness around it is `StartBatch`, which moves `phase` through the states of
`benchmp_interval`, `CallCleanup`, `ParentDies`, and the signals.  `Sigterm`, `HandleFlag`,
`Alarm` and `Sigchld` all end in `Handler`: the handlers of `lib_timing.c` call
`cleanup(0, &_benchmp_child_state)`, and the benchmark takes the harness's structure for its
own.  So the partner stays, and something else is taken for its pid (`SeesPid`): in `lat_pipe` and `lat_sem`
the `benchmp_state`, which is 0 (`warmup`), 1 or 2; in `lat_unix` a function pointer or half of one;
in `lat_fifo` and `lat_fcntl`, whose pid lies behind the end of the structure, any value.
`stray` says which handler signalled a process in this way.  While `initialize()` runs, SIGTERM only
sets a flag that the harness looks at afterwards (`told`); `MainKilled` is a SIGKILL, which runs no
handler.

### `Calibration`: how long is enough, and what does a loop cost

A stack of calls: `init_timing`, `get_enough`, `compute_enough`, `t_overhead` and
`l_overhead` call one another, each guarded by a static flag that is set before or
after the work.  Any of them may be the first that a program calls.  `res` is what a
caller can see change: the global results, `n` and time.  Which interval
`compute_enough` takes, and what the environment already has (`ENOUGH`, `TIMING_O`,
`LOOP_O`), are choices.

### `Servers`: six servers and their clients

`kind` chooses the program.  A connection is a sequence of messages one way and a number
of answers the other way.  `tcp_server`, `unix_server`, `tcp_accept`, `unix_accept`, `Connect`,
`ConnectRefused`, `Lookup` are `lib_tcp.c` and `lib_unix.c`; `Fork`, `ForkFails`,
`doserver`, `BwTcpSource`, `Silent`, `Shutdown` the forked processes of `lat_tcp` and
`bw_tcp`; `LatConnectServer`, `LatUnixConnectServer`, `SelectServer`, `rdwr`,
`mmap_rdwr` the bodies of the others.  `SigChld` and `Wait` are
`sigchld_wait_handler`: `sig` is one bit, so the signals of two children merge.

### `Udp`: numbered datagrams

`net` is a set of datagrams; `Serve`, `Send`, `Recv`, `StopSend` take or add one, `Lose`
loses one, any is delivered next.  The server follows a number that it does not expect
(`Follow`), as the code does.  `Timeout` is SIGALRM, armed at the start of a batch.

### `Stream`: `bw_pipe` and `bw_unix`

Reader and writer over a bounded stream; in `bw_unix` the reader first writes the number
of bytes to a bounded control pipe.  `Rounded` is the arithmetic of `main`.

### `Chains` and `MemState`: pointer chains

`Chains` has the builders of `lib_mem.c` and `lat_dram_page.c` as operators: a chain is
a function from words to words, built from a permutation of pages.  `MemState` is the
life of a `struct mem_state` in five programs: `Initialize`, the walks
(`LatMemRdWalk`, `TlbWalk`, `ParMem`, ...) that resume from saved pointers if the
address is the same and no `mem_reset` came between, `LineTest` which cuts the chain
(`Shorten`) and repairs it (`Repair`), and `Cleanup`; the next chain may get the same
address.  The order of pages is any permutation that `permutation()` can return.

### `CachePages`, `CacheSearch`, `TlbSearch`: what the cache tools search

`CachePages` is one call of `collect_sample`: `test_chunk` halves the page list,
`remove_chunk` measures without a part, `fixup_chunk` tries spare pages one by one, sorts,
substitutes, and backs out if nothing was gained; recursion is a stack of frames.  Every
measurement yields any value.  `Relink` and `Mend` are what `measure` does to the chain
before and after.  A size need not be a number of lines: `main` of `cache.c` tries 640 and 896
bytes, too, with lines of 256 or 512.  The chain then leaves out the broken line, and `check_memory()`,
whose call is commented out, would count words that no chain visits; `CheckMemory` says what does
hold, that the chain has the whole lines.  `SizeofInt` and `SizeofSize` are the sizes that the two `bcopy` confuse.
`CacheSearch` is `search`, `find_cache` and the loop of `main` over arbitrary
latencies.  `TlbSearch` is `find_tlb`.

### `Lmdd`: the block loop

`Read`, `Write` with short and failing calls, random offsets and `been_there`, `Fork`
with a shared file offset, `CountBlock`, `Count` for the histogram, and the totals that
`done()` prints.  A block is counted in a step of its own after it was written or left to a
child, in whole words (`moved >> 2`), and the child counts what it has written in its own copy of
`int_count` (`KidWrites`, `KidCounts`, `KidEnds`).  `Signal` is SIGINT or the alarm, at any point: between the write and
its count, between `fork()` and the count, and in `done()` itself, which then shifts `int_count`
a second time and prints four times the amount.  A child may be ended by the signal, too, before or after
its write.  A run of the model has one block size; the options are chosen in `Init`.

### `Placement`: processors

`handle_scheduler` with the policies of `LMBENCH_SCHED`, `sched_pin` with its static
mask, for the processes of the harness and the children that `lat_proc` forks, which
inherit affinity and mask.  Both system calls may fail: `sched_setaffinity()` leaves the process
where it was; after a failed `sched_getaffinity()` the mask is not NULL and its count is 0, so
the next `sched_pin()` divides by zero and the process is dead.  Nobody looks at what
`handle_scheduler()` returns; `pinned` notes whose last call succeeded.

### `FileTree`: the directories of `lat_fs`

`setup_names` computes how many directories it needs, level by level;
`setup_names_recurse` makes them, a stack of frames, and decides at each level how
many it still needs.  `benchmark_mk`, `benchmark_rm` and `cleanup_names` follow;
`Killed` is the SIGTERM that ends the benchmark in between.

### `MCTools`, `MCNetwork`: many programs in one state space

The parts do not share state, so one run can hold many of them: the variable `which`
says which program a behaviour is about, the variables of the others do not change.
The specification of the tools, `ToolsSpec`, and its properties are in `ToolsProofs`, which
extends `Timer` and instantiates `MemState`, `CachePages`, `CacheSearch`, `TlbSearch` and
`Placement` itself, `Lmdd` and `FileTree` through `DiskProofs`, `Results` and `Calibration` through
`TimingProofs`; `MCTools` adds what a configuration file cannot express.
`MCNetwork` extends `PingPong` and instantiates `MsgRing`, `Servers`, `Udp` and
`Stream`.  The properties are those of the parts, guarded by `which`.  The bounds are constants,
given values in `MCTools.cfg` and `MCNetwork.cfg`, with what the proofs assume of
them as `ASSUME`s that TLC evaluates; the lemmas of `TimingProofs`, `DiskProofs`,
`MsgRingProofs` and `ServersProofs` come in with the instances.  So `NetworkProofs` and
`ToolsProofs` state their theorems of the very formulas that the runs check.

## 3. Runs

| run | instance | shows |
|---|---|---|
| `harness_safety` | 2 children, 2 repetitions, all faults, 1 SIGTERM, 1 crash | `MeasuredUnderLoad`, `BytesMeanWhatIsAwaited`, `CompleteOrNothing`, `NoChildLeft`, `ReleasedOnce`, and the refinement `ImplementsBarrier` |
| `harness_single` | 1 child, 2 repetitions, pipe, malloc and fork failures, 1 SIGTERM, 1 crash | `Terminates`: one child and no earlier call, the harness always ends |
| `harness_life` | 2 children, the parent may be killed | `OrphansGiveUp` without a cleanup function, by EOF and SIGPIPE alone; `Succeeds`: without failures there is a time, unless every child of the round went through its measurement to the end and none of its batches counted |
| `harness_hang` | 2 children, 1 crash | `Terminates` is violated (finding 1) |
| `ctx_ring` | both programs, 4 processes, 3 rounds, all faults, 1 kill | `OneToken`, `EveryoneSwitched`, `NoDaemonLeft`, `DaemonsEnd`, `MainEnds` |
| `ctx_cleanup` | `lat_ctx.c`, 4 processes, failing fork | `CleanupKills` is violated (finding 3) |
| `tools` | `MCTools` | see below |
| `network` | `MCNetwork` | see below |
| `ping_pong_fifo` | `lat_fifo`, 2 exchanges, no fault | `PartnerEndsWithCleanup` is violated (finding 4) |
| `ring_file` | 4 processes | `KnowsLastProcess` is violated (finding 2) |
| `stream_rounding` | up to 6 bytes in packets of up to 3 | `WholePackets` is violated (finding 5) |
| `cache_backout` | 5 pages, a `size_t` of two `int`s | `PagesPermuted` is violated (finding 6) |

`tools`:

| property | about | says |
|---|---|---|
| `NeverTooLong`, `ClocksKeepTime` | `Timer` | a measured time is never too long but for a unit and `Drift`, wrapped or not; unless the clock wrapped it is not too short by a unit either, nor are the nanoseconds wrong by more; `settime` and `gettime` are inverse |
| `Merged` | `Results` | sorted, within the slots but for `-N 0` with more than `TRIES` children, the union of what was measured, a median in the middle, in any order of arrival |
| `ChainIsCycle` | `MemState` | every chain is one cycle through what its builder promises, also while `line_test` has shortened it and after the repair |
| `ChainIsCurrent` | `MemState` | a resumed walk is in the chain that is there now |
| `CheckMemory` | `CachePages` | what is timed is one cycle through exactly the whole lines of the pages that were meant |
| `PagesPermuted` | `CachePages` | exchanges and back-outs keep the page list a permutation, where `int` and `size_t` have one size |
| `StepsRefined` | `CacheSearch`, `TlbSearch` | every step that is too large is refined down to neighbours, with a ratio of the latencies that are there at the end; levels grow; `find_tlb` stops right before the effect |
| `InPlace`, `Accounted` | `Lmdd` | blocks are where they belong, also with `fork`; random ones in their area and unrepeated; the printed amount is that of the blocks written or left to a child, less at most the one at hand when a signal comes; the same in a child; each timed read is in the histogram |
| `LeavesCallerAlone` | `Calibration` | every value is computed once, by a loop that knows how long to run, and the caller's results are put back |
| `OwnProcessor` | `Placement` | of the processes and children whose system calls succeeded, those that asked for it have processors of their own if there are enough; whoever measures has read its mask |
| `TreeFits` | `FileTree` | exactly the names and directories allocated are filled in, directories have at most `max` entries, and nothing is left after the cleanup |

`network`:

| property | about | says |
|---|---|---|
| `TakeTurns`, `KillsOwnOnly`, `PingEnds`, `CleanupKillsPartner` | `PingPong` | strict turns; `kill(-1)` only after a failed `fork` and before any exchange, and in `lat_pipe` and `lat_sem` a wrong pid only on a SIGTERM after an exchange, never because the partner died; main ends; its partner, too (not `lat_fifo`'s) |
| `SinglePotato`, `PassesAsPrinted`, `RingEnds` | `MsgRing` | one message; as many passes as the time is divided by; an end if no jumper is killed |
| `WaitNeverBlocks` | `Servers` | the `wait()` in the SIGCHLD handler always finds a child, although signals merge |
| `StopsOnlyWhenTold`, `StopStops` | `Servers` | a server ends only on a word to stop (for `lat_tcp` an empty connection is one); one that is told to stop does |
| `AnswerIsCurrent`, `StopReaches` | `Udp` | an answer that is taken is the answer to the last request; the server stops if fewer than four datagrams are lost |
| `IterationsEnd` | `Stream` | with whole packets every iteration ends while the writer lives |

The type invariants of the parts are conjuncts of these properties, or are proved.

### Bounds, and why they are enough

* `N = 2` children: with two children there are a first and a last one in each
  loop, a sibling that is late or dead, and a baseline round before.  The proofs
  cover every `N`.
* `R = 2` repetitions: an interval that is not the last, and the last.
* `MaxScale = 1`: the factor 8 is applied, and the limit reached.
* `MaxTerm = 1`, `MaxCrash = 1`: one event at every possible point, together with
  failing calls.  A second SIGTERM only sets a flag that is set already.
* `CtxRing`: with four processes there is a daemon between two daemons.
* `Timer`: a word of 28 wraps within 16 cycles for both factors; seconds of 4 and 6 units make
  borrows happen in most differences; of a rate of 7 in seconds of 2 "ms" the truncation takes one
  cycle.  The proofs cover every rate and width.
* `Results`: three values per child make arrays of 0 to 6, so odd, even and empty
  medians and ties occur; `TRIES = 1` with two children puts the requests -1, 0, 1 and 3 on both sides
  of it and lets those of `-N 0` be too many.
* `MemState`: pages of four words, up to four pages, two addresses, three rounds of
  build and free: chains cross pages, a line is smaller than a page, an address is used
  again with another chain.
* `CachePages`: every size on the last page from a line up, whole lines or not; seven pages and chunks of two: a chunk is split twice, a chunk at the
  end is incomplete, there are fewer and more spare pages than bad ones.
* `CacheSearch`: nine sizes are three octaves with a middle that is itself refined;
  latencies 0, 1, 2, 4 are unmeasurable, flat, a step and a large step.
* `TlbSearch`: up to 40 pages, with limits that are and are not powers of two.
* `Lmdd`: an input of 22 bytes in blocks of 8 ends in a short block that is not whole words; one
  fault, two signals, the second of which can come in `done()`.
* `Calibration`: three calls reach each function first, second and after all is done.
* `Placement`: two processes with a child each need four processors; fewer are tried, too.  Every
  system call may fail.
* `FileTree`: up to 14 files in directories of 2 or 3: three levels, full and not full.
* `MsgRing`: five processes are the smallest ring with a process that is
  a neighbour neither of process 0 nor of the last one; two kills reach the
  case of a dead predecessor and a dead successor of the same process; three
  retries suffice for success and for giving up.
* `PingPong`: four exchanges hold the priming one and three more: one to warm up, one to be
  timed, one in cooldown, or a second iteration in a batch.  Main may stop at the bound as if its results had
  been asked for; batches beyond it are not followed.  The turns of `lat_fcntl`'s partner, which runs on without main, are
  counted up to that number.
* `Servers`: two connections: their children can die together, one may stop a server
  the other is using; a failing `fork` and a killed client.
* `Udp`: two clients with two requests, four datagrams to stop, three losses.
* `Stream`: a stream smaller than the amount asked for, a control pipe of two numbers.

Deadlock is checked in the harness runs, except `harness_hang`: `Finished` is the only
stutter, so any other state without a step is an error.  The other programs end in
states without a step, and rings with a killed member end with blocked processes by
design, so deadlock is not checked there; where a block would be wrong a liveness
property says so.

### Fairness

Weak fairness of each process's own steps: the scheduler runs every process, and a
blocking call returns when what it waits for is there.  Weak fairness of signal
delivery (`HandleTerm`, `Sigchld`) and of `Alarm`: signals are not lost, `alarm()`
expires (in `PingPong` main then gets a SIGTERM and exits, as one child does).  Strong fairness
of `Accept` only: a child that repeats its batch rescales it to 110 % of `enough`, so
eventually a batch lasts 95 % of it; without this a child could be rejected for ever.
In `Servers` and `Udp` each client, each server process and each forked process is fair
by itself.  Nothing is assumed of failures, crashes, kills, losses or of SIGTERM from
outside: `StopReaches` holds because at most three datagrams are lost.

## 4. Proofs

All theorems hold for every value of the constants that satisfies the `ASSUME`s: any
number of processes, any set of failing calls, any number of crashes and
signals, any clock rate and word length.

**`BenchmpProofs`.**  None of the safety properties is inductive.  `Inv` adds:

* `Census`: which children exist at each position of the parent, from the loop index;
* `Progress`: what a child has counted, kept and sent, from its state;
* `Barriers`: if a start byte is there or somebody has passed the first barrier,
  everybody is loaded; likewise for the second;
* `PhaseInv`: for each position of the parent, the kind of every message that is
  counted or under way, and for each message the evidence of what its sender has
  done (`Evidence`).  This is the heart: when the parent has counted `Parallel`
  messages from different children, as sets they are one from each, so all have
  done what the message says.  The cardinality step is `AllIn` applied to a set
  whose senders are distinct, by a lemma on finite sets;
* `TimedInv`: a time exists only between `set_results()` and the next call.

The theorem `Invariance` is proved action by action, one lemma per group of actions
and one step per conjunct it can disturb.  `TypeCorrect`, `FullLoad`,
`StoppedBeforeReport`, `BytesAwaited`, `Complete`, `Capacity` and `AllWaitedFor`
follow.  `CleanedUpOnce` needs one more count, of the calls of `cleanup` against the position of the
child (`Released`).  `Refinement` shows that the harness implements `LoadBarrier`: the parent's
steps change no phase (they may hang up), a child's step is one of the abstract
steps or a stutter, and the two guards follow from `Barriers`.

**`CtxRingProofs`.**  `Inv` says for each place of the token how often each daemon
has forwarded it (`PassesInv`): behind the token once more than ahead of it.
`SingleToken` and `AllSwitched` follow, `CleanupComplete` from the loop invariant
`LoopInv`.

**`NetworkProofs`, ping-pong.**  `TakeTurns` alone is not inductive.  `Balance` says that the
partner is ahead of main by exactly what is on its way to main, and that there is one
byte, which is nowhere in a channel while main is between exchanges; `Shape` keeps
the steps of the five programs apart; `NoPartner` follows a failed `fork()` to the
calls it leads to; `Handlers` says that SIGCHLD is caught only while the structure of the harness
begins with a 0, and that its state is another one only after a first exchange.  `Alternation` and `OwnProcesses` follow.

**`NetworkProofs`, datagrams.**  That an answer is current follows from a count: for each
client there is at most one datagram on its way, request or answer, and it carries the
client's last number (`OneEach`); a client that is not waiting has none.  The network may lose
it and may deliver the datagrams of different clients in any order, the server may follow
wrong numbers, and the invariant still holds.  It is assumed only that the server and the
sender of `-S` are not clients (`UdpAssumption`), and it would not hold if the network
duplicated.

**`ServersProofs`.**  A count of zombies is not inductive, since the signals of several
children merge and a signal carries no name.  `Covered` asks for different zombies: one
for a pending signal, another for a handler that has begun and not yet called `wait()`.
A handler that reaps takes one of them, a child that dies adds one with its signal.  For
this a `fork()` must not give a process to a connection that already had one (its zombie
would vanish): `Fresh` and `OncePlaced` say that a connection is asked for once, queued
once and accepted by one process, which has no child for it yet.  `StopsWhenTold` follows
the words (`SInv`): a word to stop on a wire is one its client began with (`Texts`), a process of
`lat_tcp` that reads an end before any word serves a client that said nothing (`Answers`:
one request at a time), and unless a client was killed it still waits for what `lmhttp` is
sending it (`Waiting`).  Assumed: the value for
"no connection" is not one, there is a first server process, and there are finitely many clients.

**`MsgRingProofs`.**  `PassesAsPrinted` speaks of one moment; `Passes` says for each
place of the message how many passes there have been: whole rounds, and in the present
one a pass for each process from the last one down to the one that has it.  `Single`
says that it is held or queued in one place, `Quiet` that it is nowhere while process 0 is
outside `iterator()`, and `Born` that processes are created in turn and once, so
that nothing is reset under a message.  A process that dies takes the message
with it, which the invariant allows.  `QueuedWaits` adds that a message is queued only
while its sender is blocked for it; this needs `Settled`: nothing is sent to a process that
does not exist yet, since the file that closes the ring is written by the last one.
Assumed: at least two processes, at least one round.

**`NetworkProofs`, together.**  A step of `MCNetwork` is a step of the program `which`
names and leaves the others alone (`NetworkStep`), so the invariants of the three
programs hold beside each other (`NetworkInvariance`), and `RingHasOne`, `RingPrints`,
`ServersReap`, `ServersStop` and `DatagramsCurrent` are the properties of the run.

**`TimingProofs`, results.**  What `insertsort` returns is not defined by recursion here: the new
value goes to the first slot whose rate is smaller, so its shape (`InsertShape`), its order
(`InsertSorted`) and how often each value occurs in it follow without induction over arrays.
`RInv` counts: the merged array holds each value as often as the arrays of the children that
have been read, and of the one being read up to the index `j`, hold it.  Counting elements
of a sequence is `Cardinality` of the set of its positions, moved by the lemmas on finite sets.
The bound on the slots is a product: as many children as have answered times the repetitions.
Assumed of the constants (`Limits`): children, slots and counts are positive, rates are
integers.  Of the repetitions asked for nothing is assumed: with 0 the product bounds nothing, and
the count of children that have answered takes its place, which fits while there are no more than `TRIES`.

**`TimingProofs`, calibration.**  The three functions call each other through `init_timing()`, so what
has been measured depends on which frames are on the stack.  `Nesting` says which function can
be called by which and that five frames are the most there are, `Progress` what is known at
each step of the one `init_timing()` that works, `Once` that nothing is measured when it is
known already, and `Saved` that the results of the caller are in place or in the frame that will put
them back.  Assumed (`Intervals`): the table of possible intervals is not empty and has positive
entries.

**`ToolsProofs`, stop watch.**  `Inv` ties stored times to the cycle counts at which they were
read.  The arithmetic rests on lemmas about division: `Split` loses nothing, `Tvsub`
and `Diff` return the difference of the totals when it is not negative, and a
modulus can only make a later reading smaller.  Dividing by the truncated rate is compared with the real
rate by the product of both: what the quotient has too much is the remainder of the rate times the
time, `Drift`.  `KeepTime` puts the three clocks together.  Assumed: a second has 1000 ms in
every unit (`SecondAssumption`) and the rate is 1000 Hz or more (`UnitAssumption`).

**`ToolsProofs`, `find_tlb`.**  The invariant of the bisection: `upper` was measured with the
effect, `lower` without, or it is half of where the search began, and the middle lies
strictly between while they are apart.  Nothing is assumed of the
measurements, and of the sizes only that they are positive (`TlbAssumption`).

**`DiskProofs`, `lmdd`.**  `InPlace` is about writes that are over; what keeps it is where the
two files stand.  `InputHere`: in a sequential copy the input is at `off`, one block further after
the padding read, or at its end.  `OutputHere`: there is at most one child, and until something
fails the output is at `off`, or at the child's block, which ends at `off`; the last write ended
where the output is.  `Remembered` ties `norepeat[]` to the offsets drawn: entry `i` is the draw
`i + 2`, so the table from 0 on misses exactly the first.  That the offsets stay in their area
rests on lemmas about `ALIGN` (`Rounded`).  `Accounts` adds what is printed: the whole words of the log
of writes, of the block a child still has and of what failed in a child are the words counted and, at
the places between a write or `fork()` and the count, the block at hand; after a signal it is not
known whether that place was reached, so one or the other.  The same holds of the copy of
`int_count` in a child (`KidsCount`).  `count=` bounds the blocks counted
together with the one being copied, and the buckets of the histogram add up to the reads that were
timed, since every time belongs to exactly one bucket (`BucketOne`).  Assumed
(`CopyAssumption`): a block is not empty and sizes and counts are natural numbers; the area and its
end need not be multiples of the block.

**`DiskProofs`, `lat_fs`.**  `setup_names()` adds up levels, `setup_names_recurse()` decides at every
directory anew how many it needs, so `TreeFits` is an equality of two computations.  `Shape` is
what the levels have in common: each has as many entries as the directories of the next one can
hold, and no fewer than they must.  For a state of the recursion, `LevelCounts` says how many
entries of each level have been made, their sum being the directories so far, and `Filling` that on the
levels below the open calls everything is full, while the directory of each open call is the last
one of its level and the ones before it are full.  A step moves one of these counts (`CountDir`, `CountFile`,
`CountReturn`); when all files are named every level is complete, and the sums are equal.  That names
are different needs that a call makes entries only in its own directory, larger than those there
already (`Nested`, `Before`).  Assumed (`TreeAssumption`): a directory has room for at
least two entries; with one `lat_fs` does not end.

**`ToolsProofs`, placement.**  `PlcPins` says where a process and its child are once they have
placed themselves, and that the mask they read is the one they were started with; from then on
`OwnProcessor` is arithmetic.  Numbers of different processes are different and below the count of
processors; where it does not fail, `sched_pin()` sends different numbers to different ones, since the ranks of the
processors in a mask are 0, 1, 2, ... without a gap (`RanksReached`); and reversing `nbits` bits is
one to one (`ReverseOneToOne`), below the count if that is a power of two (`ReverseFits`).  A mask that was
not read is empty, and a process with an empty mask does not get past its next call.  Assumed: the bounds are
natural numbers and there are at most 31 processors, so that `1 << bit` is defined.

**`ToolsProofs`, cache search.**  The pending calls of `search()` cover the sizes from 0 on without
gaps (`SearchCalls`), each between two measured sizes with nothing measured between, and everything
behind the last call is `Refined`: a measured size has its ratio to the next one, and a large step
is between neighbours.  `Compare` may overwrite the latency of the left end, which a later
call uses as its right end: calls are taken from the back, so nothing behind depends on it.
The levels grow since each search of `main()` starts behind the last one.  Nothing is assumed of
the latencies but that they are not negative.

**`ToolsProofs`, cache pages.**  Every change of the list but the last is an exchange of two places, so what
has to be shown is that the places are inside the list: of chunks (`ChunkWithin`), of subchunks on the
stack of calls (`Calling`), of the pages to be tried (`FixOK`), and of the spare page (`SubstituteFits`).  The last one is
`bcopy()`, which restores the saved list only if all of it is copied (`CopiedAll`).  So
`PagesAssumption` demands that an `int` is as long as a `size_t`; where it is not, the theorem would be false, as finding 6
shows.

**`ToolsProofs`, memory chains.**  `MemInv` says of the static pointers: if `mem_benchmark_rerun` is
set and the address is the one that was saved, then what was saved belongs to the present chain.
Building a chain clears the flag, and the functions that set it again are called with the present
chain first; a chain at the same address as one before is no exception.

**Induction.**  The provers cannot use an induction theorem, which has a predicate as its
parameter.  What a recursive function returns (the powers and bits of `reverse_bits`, the exchanges of pages, the
levels of `lat_fs`, sums over logs and levels) is proved with sets: `SetInduction` says that a
set which contains 0 and with a number its successor contains all numbers, by the least
one it would miss, and `LoopExists` that a loop has a function of its iterations.  Both are stated for sets and
functions and need no operator.

**`ToolsProofs`, together.**  As for the network: `ToolsStep`, `ToolsInvariance`, and from it
`MergedResults`, `CallerUndisturbed`, `LastBeforeStep`, `BlocksInPlace`, `AmountsAccounted`,
`PagesNeverLost`, `AllStepsRefined`, `ProcessorsOwn`, `NamesFit` and `WalksResumeHere`.

### Only model-checked

* Liveness (`Terminates`, `Succeeds`, `OrphansGiveUp`, `DaemonsEnd`, `MainEnds`, `PingEnds`,
  `CleanupKillsPartner`, `RingEnds`, `StopStops`, `StopReaches`, `IterationsEnd`): the
  prover does not handle fairness and `ENABLED`.
* `ChainIsCycle`, `CheckMemory`, and that the parallel walks of `par_mem` start apart, which is half
  of `ChainIsCurrent`: they are about the whole way of a walk through a chain, for six
  builders, with bit-reversed orders and in part with lines left out; the other half, `ResumesHere`, is proved
  (`WalksResumeHere`).

## 5. Findings

1. **A crash of a child can block the harness for ever** (`harness_hang`).  With
   `parallel > 1` the baseline has installed `benchmp_sigterm`, so children of the
   main round re-install that instead of `benchmp_child_sigterm` (638-639), and on
   SIGTERM only set a flag they looked at once.  When one of them crashes, `error_exit` of
   `benchmp_parent` (505-509) sends SIGTERM to the other and waits for it without an
   alarm, still holding the pipes open.
2. **`readfile()` can read an empty file** (`ring_file`, `msgring.c` 319-326), as
   `writefile()` creates it before it fills it; the text is not terminated either.
3. **`cleanup()` after a failed `fork()` leaves daemons** (`ctx_cleanup`,
   `lat_ctx.c` 240-264): the first daemon it kills raises SIGCHLD, whose handler
   ends the process; in `lat_ctx.c` the others hold each other's pipes open and stay blocked.
4. **The partner of `lat_fifo` survives** (`ping_pong_fifo`, `lat_fifo.c` 129):
   `cleanup()` sends it SIGTERM, but it was forked with the handler `benchmp_sigterm`
   (`lib_timing.c` 95), which sets a flag and returns.  Main waits until the alarm of the
   harness ends it; the partner then reads EOF in a loop.  `src/CHANGES` 53-56 asks
   `cleanup` to release whatever was allocated.

5. **Byte counts are not rounded up** (`stream_rounding`, `bw_unix.c` 177, `bw_pipe.c` 171;
   the same code in `bw_udp.c` 100-103).  `bytes += bytes - bytes % xfer` adds what was whole
   already.  In `bw_pipe` an iteration reads more than it counts.  In `bw_unix` the writer
   writes whole packets, when reads are short the surplus stays in the socket, and the reader is ahead of the
   writer by more and more requests until both are blocked in `write()`: `IterationsEnd`
   holds only under `WholePackets`.  `bw_tcp.c` 102-105 has the right formula.
6. **Half a page list is restored** (`cache_backout`, `cache.c` 593 and 682): arrays of
   `size_t` are copied with `sizeof(int)`.  Where a `size_t` has eight bytes, a page
   exchanged with one in the second half of the list stays there and is also put back.

Remarks without a run.  Harness and results:

* `src/CHANGES` 72-74 gives 11 as the default number of repetitions; the code gives 1 or
  `TRIES`, depending on `enough` (178-179).
* `benchmp_child_sigterm` and `benchmp_child_sigchld` (562, 576) call `cleanup` with the
  harness state instead of the cookie, against `src/CHANGES` 75-77.  A benchmark that is
  ended by a signal therefore does not find its own pids, and signals another process: `lat_pipe` and
  `lat_sem` process 1 or 2, `lat_unix` whatever half a function pointer is; `lat_sem` frees no semaphores,
  or others.  `KillsOwnOnly` says what can be said.
* With `-N 0` and more than `TRIES` (11) children the results overflow `merged_results`.
* `time_N` puts the caller's results back but not its `n` and time, and `BENCH_INNER`
  keeps the adjusted number of iterations; `LeavesCallerAlone` says what does hold.

Rings and ping-pong:

* The wall clock line of `msgring.c` 715 is never printed: `kill(0, SIGKILL)` kills the
  caller first; `src/README` 49-50 refers to the line.
* In `lat_fcntl` main can retake a lock before the partner it released gets it, so an
  iteration need not be a "ping pong" (`lat_fcntl.c` 17); `TakeTurns` excludes it.
* `lat_pipe`, `lat_unix` and `lat_sem` call `kill(-1, SIGKILL)` in `cleanup` after a
  failed `fork()`; `KillsOwnOnly` says when, too.
* In `lat_proc`, between `waitpid()` and `child_pid = 0`, a SIGTERM makes `cleanup` kill
  a pid that is free again.

Networks:

* Zombies of `lat_tcp` and `bw_tcp` stay when SIGCHLDs merge; a failed `fork` leaks the
  connection; forked processes inherit the listening socket.
* `EXIT` ends one process of `lmhttp`, not all.  After a short write `rdwr` sends the
  beginning of the buffer again.
* A client of `lat_tcp` that dies after `connect` and before its first write stops the
  server; `StopsOnlyWhenTold` has the case.
* `tcp_connect` gives up with -1, which `lat_tcp` does not look at.
* The first measurement of `lat_udp` that loses a datagram ends with SIGALRM: nothing is
  ever sent again.  `bw_udp` sends its byte count without conversion.
* `bw_unix` compares a `size_t` with `<= 0`, and prints the default amount instead of
  the one that was asked for; the reader of `bw_pipe` loops on EOF.

Memory and search:

* `thrash_initialize` leaves out lines when the number of lines is neither a multiple of the
  lines of a page nor a power of two; `permutation` of `words_initialize` covers all only
  for powers of two.
* `collect_data` runs off its array when no latency is positive; `fixup_chunk` divides by
  zero with one spare page; pages that were moved to the end stay there when nothing was
  exchanged.
* `tlb.c` says that no TLB has fewer than 16 entries, starts at 8 and can answer 4.
* After a failed `sched_getaffinity()` the next `sched_pin()` divides by zero; a failed
  `sched_setaffinity()` goes unnoticed.
* With more than 31 processors `1 << bit` in `sched_pin` overflows an `int`; `custom` steps
  over the end of a short list.

Files:

* `lmdd`: `norepeats` starts at -1, so the first random offset is not remembered; with `fork`
  and `rand` the offset is shared with a child that may still write; a write that
  fails in a child is counted, and one that a signal separates from its count is not; a signal in `done()` multiplies
  the printed amount by 4; bytes behind the last whole word of a block are not printed; the histogram loses times between ten equal steps and the maximum.
* `lat_fs -n 1` does not end; a SIGTERM leaves the files, as `cleanup` then gets 0
  iterations.

## 6. Limits of the models

* Signals have the semantics of glibc's `signal()`: handlers stay installed, calls are
  restarted.  On a system where `read()` returns EINTR the harness takes
  other paths; they are not modelled.
* SIGPIPE is taken to be fatal, as nothing in the harness handles it.
* Processes a benchmark forks itself are absent from `Benchmp`, and so is
  `benchmp_child_sigchld`; `CtxRing` has both, for one benchmark.
* What `cleanup` does when it gets the harness state for a cookie is undefined; in
  `CtxRing` it kills no daemon.
* `getppid() == 1` is how a child sees that its parent is dead; subreapers are ignored.
* `CtxRing` leaves out the overhead measurement and the data each process touches.
* `PingPong` leaves out what a handler's `cleanup` does to descriptors, names and semaphores: main exits
  at once, and none of it reaches the partner.  It takes a descriptor that was never set, or set to -1, for a bad one: calls on
  it fail.  The QNX message variant of `lat_pipe` is left out.
* `Timer` leaves out `clock()` and the ms and us variants; `delta()` has no caller.
* `QNXMSG` is not defined in any build file, so the variants of the harness and of
  `lat_ctx` on top of `PIPE.c` are not modelled.
* `Results` ends where `merged_results` overflows.
* `Placement` has at most 31 processors.
* `MemState` and `CachePages` count in words, so alignment below a word is not seen.  In
  `CachePages` a line is no longer than the smallest size, 512 bytes; with a longer one, which `-L`
  can ask for, the last page may have no line at all.
  Latencies in `CachePages` are small integers for which the factors 0.99, 0.995 and 0.999
  do not matter.
* `Servers` leaves out the one-hour alarm of the servers and the sizes of messages.
* `Udp` does not duplicate datagrams; the code has no defence against that.
* `lmdd` is modelled without USE_BDS, the histogram of writes, `usleep`, memory buffers as input and the checking of patterns.

### Not modelled

RPC (all of the protocol is in a library), `lib_stats.c` and `mhz.c` (floating-point
formulas), `getopt.c` (a scan of strings), `lat_ops`, `par_ops`, `bw_mem`,
`stream`, `lat_rand` (unrolled arithmetic and copying), `lat_syscall`, `lat_sig`,
`lat_pagefault`, `lat_mmap`, `disk`, `seek`, `flushdisk`, `lat_cmd`, `lat_pmake`, `memsize` (a loop around
one call), `rhttp` (a list of commands), `PIPE.c` (not part of any build), `bw_udp`
(one-way messages), the scripts and the makefiles.

## 7. What is left

Worth doing next: a proof that a chain of `lib_mem.c` is one cycle (`ChainIsCycle`, `CheckMemory`);
`bw_udp`; the overhead measurement of `lat_ctx`.

## 8. Running

    tlc -workers 2 -config BenchmpSafety.cfg Benchmp
    tlc -workers 2 -config MCTools.cfg MCTools
    tlapm BenchmpProofs.tla

and likewise for the other entries of `runs` and for `CtxRingProofs`, `ServersProofs`,
`MsgRingProofs`, `NetworkProofs`, `TimingProofs`, `DiskProofs` and `ToolsProofs`.
Definitions named `X_Y` with the comment "seeded fault" or "mutant" are variants of `X` with a
plausible mistake; `mutants` in `PROJECT.json` says which property detects each.
