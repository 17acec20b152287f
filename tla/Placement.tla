----------------------------- MODULE Placement -----------------------------
(***************************************************************************)
(* lib_sched.c, the placement of processes on CPUs, as lat_proc.c uses it: *)
(* every benchmark process is placed by benchmp() and then places itself,  *)
(* before it forks children one after the other that place themselves,     *)
(* too.  Affinity is inherited by fork(), and so are the static variables  *)
(* of sched_pin().  The two system calls of sched_pin() may fail; nobody   *)
(* looks at what it returns.  CPUs are few enough for `1 << bit'.          *)
(***************************************************************************)
EXTENDS Integers, Sequences, FiniteSets

CONSTANTS
    MaxCpus,    \* bound: processors
    MaxPar,     \* bound: benchmark processes
    Custom,     \* the numbers after CUSTOM
    Behind      \* a number in the environment string that follows it

VARIABLES
    sched,      \* LMBENCH_SCHED
    ncpus,      \* sched_ncpus()
    allowed,    \* the CPUs lmbench may use, as sched_getaffinity() tells
    values,     \* what custom() parses
    parallel,   \* benchmark processes
    pc,         \* of each: new, start, loop, fork, wait, reaped or dead
    cpus,       \* of each: its affinity
    known,      \* of each: is the static cpumask of sched_pin() not NULL?
    cpumask,    \* of each: the CPUs counted in it (the static ncpus is their number)
    pinned,     \* those whose last handle_scheduler() returned 0
    kid,        \* of each: its child is none, new, placed or zombie
    kidcpus, child_pid

placing == <<sched, ncpus, allowed, values, parallel>>
masks == <<cpus, known, cpumask>>
vars == <<placing, pc, masks, pinned, kid, kidcpus, child_pid>>

Children == 0 .. MaxPar - 1
NBenchProcs == 1        \* lat_proc: handle_scheduler(benchmp_childid(), 0, 1)

Modes == {"DEFAULT", "SINGLE", "BALANCED", "BALANCED_SPREAD", "UNIQUE",
          "UNIQUE_SPREAD", "CUSTOM", "CUSTOM_SPREAD"}

(* When the list ends with a digit, custom() steps over the end of the     *)
(* string and goes on in whatever follows it in the environment.           *)
Parsed == {Custom, Append(Custom, Behind)}

Init ==
    /\ sched \in Modes
    /\ ncpus \in 1 .. MaxCpus
    /\ allowed \in (SUBSET (0 .. ncpus - 1)) \ {{}}
    /\ values \in Parsed
    /\ sched \notin {"CUSTOM", "CUSTOM_SPREAD"} => values = Custom
    /\ parallel \in 1 .. MaxPar
    /\ pc = [i \in Children |-> IF i < parallel THEN "new" ELSE "dead"]
    /\ cpus = [i \in Children |-> allowed]
    /\ known = [i \in Children |-> FALSE]
    /\ cpumask = [i \in Children |-> {}]
    /\ pinned = {}
    /\ kid = [i \in Children |-> "none"]
    /\ kidcpus = [i \in Children |-> allowed]
    /\ child_pid = [i \in Children |-> 0]

-----------------------------------------------------------------------------
(* reverse_bits(): as many bits as the largest CPU number has; the lowest  *)
(* bit of cpu becomes the highest one.                                     *)
pow2[b \in 0 .. MaxCpus] == IF b = 0 THEN 1 ELSE 2 * pow2[b - 1]

nbits == CHOOSE b \in 1 .. MaxCpus :
            ncpus - 1 < pow2[b] /\ \A a \in 1 .. b - 1 : ncpus - 1 >= pow2[a]

reverse_bits(cpu) ==
    LET bit(i) == (cpu \div pow2[i]) % 2
        reversed[i \in 0 .. nbits] ==
            IF i = 0 THEN 0 ELSE 2 * reversed[i - 1] + bit(i - 1)
    IN  reversed[nbits]

custom(cpu) == IF values = <<>> THEN 0 ELSE values[(cpu % Len(values)) + 1]

(* handle_scheduler(): the CPU asked for.                                  *)
Cpu(childno, benchproc, nbenchprocs) ==
    LET unique == childno * (nbenchprocs + 1) + benchproc IN
    CASE sched = "SINGLE"          -> 0
      [] sched = "BALANCED"        -> childno
      [] sched = "BALANCED_SPREAD" -> reverse_bits(childno)
      [] sched = "UNIQUE"          -> unique
      [] sched = "UNIQUE_SPREAD"   -> reverse_bits(unique)
      [] sched = "CUSTOM"          -> custom(childno)
      [] sched = "CUSTOM_SPREAD"   -> custom(unique)

(* Mutant of Usable: the mask is read at every call.                       *)
Usable_Reread(is, mask, own) == own

(* sched_pin(): the CPUs of sched_getaffinity(), kept from the first call. *)
Usable(is, mask, own) == IF is THEN mask ELSE own

(* sched_pin(): the cpu-th of the usable CPUs.                             *)
OneOf(cpu, mask) ==
    {CHOOSE c \in mask :
        Cardinality({d \in mask : d < c}) = cpu % Cardinality(mask)}

(* sched_pin(), whose mask is not NULL if `is': how it can end.  When      *)
(* sched_getaffinity() fails, the mask is allocated and no CPU counted, so *)
(* the next call divides by zero; sched_setaffinity() may fail every time. *)
sched_pin(cpu, is, mask, own) ==
    LET m == Usable(is, mask, own)
        Left(set, left, how) == [mask |-> set, cpus |-> left, how |-> how]
    IN  (IF is THEN {} ELSE {Left({}, own, "error")})
            \cup (IF m = {} THEN {Left(m, own, "killed")}
                  ELSE {Left(m, OneOf(cpu, m), "placed"), Left(m, own, "error")})

(* What handle_scheduler() can leave to a process with the CPUs own.       *)
handle_scheduler(childno, benchproc, nbenchprocs, is, mask, own) ==
    IF sched = "DEFAULT" THEN {[mask |-> mask, cpus |-> own, how |-> "placed"]}
    ELSE sched_pin(Cpu(childno, benchproc, nbenchprocs) % ncpus, is, mask, own)

Pinned(p, how) == IF how = "placed" THEN pinned \cup {p} ELSE pinned \ {p}

Place(i, nbenchprocs, next) ==
    /\ \E o \in handle_scheduler(i, 0, nbenchprocs, known[i], cpumask[i], cpus[i]) :
          /\ cpus' = [cpus EXCEPT ![i] = o.cpus]
          /\ cpumask' = [cpumask EXCEPT ![i] = o.mask]
          /\ pinned' = Pinned(<<i, 0>>, o.how)
          /\ pc' = [pc EXCEPT ![i] = IF o.how = "killed" THEN "dead" ELSE next]
    /\ known' = [known EXCEPT ![i] = sched # "DEFAULT"]
    /\ UNCHANGED <<placing, kid, kidcpus, child_pid>>

-----------------------------------------------------------------------------
(* The child of benchmp(), before it runs the benchmark.                   *)
Start(i) == pc[i] = "new" /\ Place(i, 0, "start")

(* do_fork(), do_forkexec(), do_shell(), do_procedure(): a batch.          *)
Batch(i) == pc[i] \in {"start", "loop"} /\ Place(i, NBenchProcs, "loop")

(* fork(): the child has the affinity and the static mask of its parent.   *)
Fork(i) ==
    /\ pc[i] = "loop"
    /\ pc' = [pc EXCEPT ![i] = "fork"]
    /\ kid' = [kid EXCEPT ![i] = "new"]
    /\ kidcpus' = [kidcpus EXCEPT ![i] = cpus[i]]
    /\ UNCHANGED <<placing, masks, pinned, child_pid>>

ForkFails(i) ==
    /\ pc[i] = "loop"
    /\ pc' = [pc EXCEPT ![i] = "dead"]
    /\ UNCHANGED <<placing, masks, pinned, kid, kidcpus, child_pid>>

(* The parent has stored the process number.                               *)
Forked(i) ==
    /\ pc[i] = "fork"
    /\ child_pid' = [child_pid EXCEPT ![i] = 1]
    /\ pc' = [pc EXCEPT ![i] = "wait"]
    /\ UNCHANGED <<placing, masks, pinned, kid, kidcpus>>

Ended(i) == IF pc[i] = "dead" THEN "none" ELSE "zombie"

KidPlaced(i) ==
    /\ kid[i] = "new"
    /\ \E o \in handle_scheduler(i, 1, NBenchProcs, known[i], cpumask[i], kidcpus[i]) :
          /\ kidcpus' = [kidcpus EXCEPT ![i] = o.cpus]
          /\ pinned' = Pinned(<<i, 1>>, o.how)
          /\ kid' = [kid EXCEPT ![i] = IF o.how = "killed" THEN Ended(i) ELSE "placed"]
    /\ UNCHANGED <<placing, pc, masks, child_pid>>

KidExits(i) ==
    /\ kid[i] = "placed"
    /\ kid' = [kid EXCEPT ![i] = Ended(i)]
    /\ UNCHANGED <<placing, pc, masks, pinned, kidcpus, child_pid>>

(* waitpid(), then child_pid = 0.                                          *)
Reap(i) ==
    /\ pc[i] = "wait"
    /\ kid[i] = "zombie"
    /\ kid' = [kid EXCEPT ![i] = "none"]
    /\ pc' = [pc EXCEPT ![i] = "reaped"]
    /\ UNCHANGED <<placing, masks, pinned, kidcpus, child_pid>>

Reaped(i) ==
    /\ pc[i] = "reaped"
    /\ child_pid' = [child_pid EXCEPT ![i] = 0]
    /\ pc' = [pc EXCEPT ![i] = "loop"]
    /\ UNCHANGED <<placing, masks, pinned, kid, kidcpus>>

(* benchmp_child_sigterm() or the end of the measurement: cleanup() kills  *)
(* and reaps the child whose number is known; then exit().                 *)
cleanup(i) ==
    /\ pc[i] \in {"loop", "fork", "wait", "reaped"}
    /\ pc' = [pc EXCEPT ![i] = "dead"]
    /\ child_pid' = [child_pid EXCEPT ![i] = 0]
    /\ kid' = [kid EXCEPT ![i] = IF child_pid[i] # 0 \/ @ = "zombie" THEN "none" ELSE @]
    /\ UNCHANGED <<placing, masks, pinned, kidcpus>>

Next == \E i \in Children :
    \/ Start(i) \/ Batch(i) \/ Fork(i) \/ ForkFails(i) \/ Forked(i) \/ KidPlaced(i) \/ KidExits(i)
    \/ Reap(i) \/ Reaped(i) \/ cleanup(i)

Spec == Init /\ [][Next]_vars

-----------------------------------------------------------------------------
TypeOK ==
    /\ pc \in [Children -> {"new", "start", "loop", "fork", "wait", "reaped", "dead"}]
    /\ kid \in [Children -> {"none", "new", "placed", "zombie"}]
    /\ cpus \in [Children -> (SUBSET allowed) \ {{}}]
    /\ known \in [Children -> BOOLEAN]
    /\ cpumask \in [Children -> {{}, allowed}]

Measures(i) == pc[i] \notin {"new", "start", "dead"}

(* The processes of benchmarks whose last attempt to place themselves did  *)
(* not fail, and where each of them is.                                    *)
Placed == {p \in pinned : IF p[2] = 0 THEN Measures(p[1]) ELSE kid[p[1]] = "placed"}
On(p) == IF p[2] = 0 THEN cpus[p[1]] ELSE kidcpus[p[1]]

(* The numbers are enough for everybody, and reversing bits is one-to-one. *)
Enough(n) ==
    /\ n <= Cardinality(allowed)
    /\ sched \in {"BALANCED_SPREAD", "UNIQUE_SPREAD"} =>
            Cardinality(allowed) = ncpus /\ \E b \in 0 .. MaxCpus : ncpus = pow2[b]

(* What the comments in handle_scheduler() promise, though a child starts  *)
(* with the one CPU its parent was pinned to: with UNIQUE every process    *)
(* and every child has its own processor; with BALANCED every benchmark    *)
(* process has its own, and its children share it.  Among those, that is,  *)
(* whose system calls did not fail; and a process that could not learn its *)
(* CPUs never measures, as its next attempt divides by zero.               *)
OwnProcessor ==
    /\ \A i \in Children : sched # "DEFAULT" /\ Measures(i) => cpumask[i] = allowed
    /\ \A p \in Placed : sched # "DEFAULT" => Cardinality(On(p)) = 1
    /\ sched \in {"UNIQUE", "UNIQUE_SPREAD"} /\ Enough((NBenchProcs + 1) * parallel) =>
            \A p, q \in Placed : p # q => On(p) # On(q)
    /\ sched \in {"BALANCED", "BALANCED_SPREAD"} /\ Enough(parallel) =>
            \A p, q \in Placed : On(p) = On(q) <=> p[1] = q[1]
    /\ sched = "CUSTOM" /\ allowed = 0 .. ncpus - 1 =>
            \A p, q \in Placed : p[1] = q[1] => On(p) = On(q)
=============================================================================
