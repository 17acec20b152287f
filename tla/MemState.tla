------------------------------ MODULE MemState ------------------------------
(***************************************************************************)
(* The life of a struct mem_state (lib_mem.c) in the programs that use it: *)
(* lat_mem_rd, lat_dram_page, line, tlb and par_mem.  A chain is built,    *)
(* walked again and again by functions that remember in static variables   *)
(* where they stopped, changed and repaired by line_test(), and freed; the *)
(* next chain may get the same memory.                                     *)
(***************************************************************************)
EXTENDS Chains

CONSTANTS
    Page,       \* getpagesize(), in words
    MaxPages,   \* bound: pages of the largest buffer
    Lines,      \* the line sizes given to the programs, in words
    Addrs,      \* what malloc() may return
    MaxPar,     \* MAX_MEM_PARALLELISM
    MaxLine,    \* the largest line size line_find() tries
    Rounds      \* bound: how many buffers one program uses

VARIABLES
    prog,       \* the program
    round,      \* buffers used so far; also names the current chain
    pc,         \* idle, ready, or short during line_test()
    st,         \* the struct mem_state
    mem,        \* the stored pointers
    width,      \* how many of state->p[] belong to this chain
    rerun,      \* mem_benchmark_rerun
    saved,      \* addr_save and the chain of sp0 .. spN, per mem_benchmark_N
    used        \* the chain the last walk started in

vars == <<prog, round, pc, st, mem, width, rerun, saved, used>>

Programs == {"lat_mem_rd", "lat_dram_page", "line", "tlb", "par_mem"}
Kinds == {"stride", "thrash", "mem", "line", "tlb", "dram"}

(* What a program asks for: the initializer, the line size and the length. *)
Request(kinds, lines, lens) == [kind : kinds, line : lines, len : lens]

(* lat_mem_rd, step(): the next length, the model's page for its 4 KB.     *)
step(k) ==
    LET s == Min({Page * 2 ^ b : b \in 0 .. MaxPages} \ 1 .. k)
    IN  IF k < Page \div 4 THEN k * 2
        ELSE IF k < Page THEN k + Page \div 4
        ELSE k + s \div 4

(* lat_mem_rd, main(): the lengths up to len.                              *)
Ranges ==
    LET len == MaxPages * Page
        at[n \in 0 .. len] == IF n = 0 THEN Page \div 4
                              ELSE LET k == at[n - 1] IN IF k < len THEN step(k) ELSE k
    IN  Range(at) \cap 1 .. len

(* lat_mem_rd, loads(): nothing is done for a range below the stride.      *)
LatMemRd ==
    {q \in Request({"stride", "thrash"}, Lines, Ranges) : q.len >= q.line}

(* lat_dram_page, main(): all of the memory, without and with regroup().   *)
LatDramPage(r) ==
    Request({IF r % 2 = 0 THEN "mem" ELSE "dram"}, Lines, {n * Page : n \in 1 .. MaxPages})

(* line, main(): lines of one word.                                        *)
LineProgram == Request({"line"}, {1}, {n * Page : n \in 1 .. MaxPages})

(* tlb, compute_times(): one word per page, then as many lines in a row.   *)
ComputeTimes(r) ==
    {q \in Request({IF r % 2 = 0 THEN "tlb" ELSE "mem"}, Lines, 1 .. MaxPages * Page) :
        \E pages \in 2 .. MaxPages : q.len = pages * (IF r % 2 = 0 THEN Page ELSE q.line)}

(* par_mem, main(): from MAX_MEM_PARALLELISM lines on, doubled.            *)
ParMemProgram ==
    {q \in Request({"mem"}, Lines, 1 .. MaxPages * Page) :
        \E b \in 0 .. MaxPages : q.len = MaxPar * q.line * 2 ^ b}

Requests ==
    CASE prog = "lat_mem_rd"    -> LatMemRd
      [] prog = "lat_dram_page" -> LatDramPage(round)
      [] prog = "line"          -> LineProgram
      [] prog = "tlb"           -> ComputeTimes(round)
      [] prog = "par_mem"       -> ParMemProgram

Build(kind, len, line, pages) ==
    CASE kind = "stride" -> stride_initialize(len, line)
      [] kind = "thrash" -> thrash_initialize(len, line, Page, pages)
      [] kind = "mem"    -> mem_initialize(len, line, Page, pages)
      [] kind = "line"   -> line_initialize(len, line, Page, pages)
      [] kind = "tlb"    -> tlb_initialize(len, Page, pages)
      [] kind = "dram"   -> dram_page_initialize(len, line, Page, pages, 2)

(* Where the walk starts; base for stride and dram.                        *)
First(kind, len, pages) ==
    IF kind \in {"stride", "dram"} \/ (kind = "thrash" /\ len % Page # 0)
    THEN 0 ELSE pages[0]

(* The orders of the pages: of maxlen in lat_mem_rd, else of len.          *)
PageOrders(len) ==
    LET n == IF prog = "lat_mem_rd" THEN MaxPages ELSE RoundUp(len, Page)
    IN  {permutation(n, Page, q) : q \in [1 .. n -> Array(n)]}

-----------------------------------------------------------------------------
Init ==
    /\ prog \in Programs
    /\ round = 0
    /\ pc = "idle"
    /\ st = [addr |-> 0]
    /\ mem = Nothing
    /\ width = 0
    /\ rerun = FALSE
    /\ saved = [n \in Array(MaxPar) |-> [addr |-> 0, chain |-> 0]]
    /\ used = 0

(* Mutant of mem_reset: an initializer that does not call it.              *)
mem_reset_Forgotten == rerun

(* mem_reset(): the new value of mem_benchmark_rerun.                      *)
mem_reset == FALSE

(* mem_benchmark_N() on the chain c: it goes on where it stopped if it was *)
(* the last to run and the address is the one it knows.                    *)
StartOf(n, addr, c, w, again) ==
    IF again /\ saved[n].addr = addr THEN saved[n].chain
    ELSE IF n < w THEN c ELSE 0

(* The initializers, with base_initialize().  They forget where the walks  *)
(* stopped, and those of mem and of tlb walk the new chain once.           *)
Initialize ==
    /\ pc = "idle"
    /\ round < Rounds
    /\ \E q \in Requests, a \in Addrs : \E pages \in PageOrders(q.len) :
           /\ st' = [addr |-> a, kind |-> q.kind, len |-> q.len, line |-> q.line, pages |-> pages,
                     lines |-> words_initialize(Page \div q.line, q.line),
                     first |-> First(q.kind, q.len, pages), test |-> 0, par |-> 0]
           /\ mem' = Build(q.kind, q.len, q.line, pages)
           /\ IF q.kind \in {"mem", "line", "tlb", "dram"}
              THEN /\ used' = StartOf(0, a, round + 1, 1, mem_reset)
                   /\ saved' = [saved EXCEPT ![0] = [addr |-> a, chain |-> used']]
                   /\ rerun' = TRUE
              ELSE used' = round + 1 /\ rerun' = mem_reset /\ UNCHANGED saved
    /\ round' = round + 1
    /\ width' = 1
    /\ pc' = "ready"
    /\ UNCHANGED prog

(* mem_benchmark_n() on the current chain, w of state->p[] being its own.  *)
mem_benchmark(n, w, again) ==
    /\ used' = StartOf(n, st.addr, round, w, again)
    /\ saved' = [saved EXCEPT ![n] = [addr |-> st.addr, chain |-> used']]
    /\ rerun' = TRUE

(* tlb: the measured walks of a chain.                                     *)
TlbWalk ==
    /\ pc = "ready"
    /\ prog = "tlb"
    /\ mem_benchmark(0, width, rerun)
    /\ UNCHANGED <<prog, round, pc, st, mem, width>>

(* benchmark_loads() of lat_mem_rd walks on from state->p[0], that of      *)
(* lat_dram_page from the base, which is a place of every chain it builds. *)
LatMemRdWalk ==
    /\ pc = "ready"
    /\ prog = "lat_mem_rd"
    /\ st.first \in DOMAIN mem
    /\ used' = round
    /\ UNCHANGED <<prog, round, pc, st, mem, width, rerun, saved>>

LatDramPageWalk ==
    /\ pc = "ready"
    /\ prog = "lat_dram_page"
    /\ 0 \in DOMAIN mem
    /\ used' = round
    /\ UNCHANGED <<prog, round, pc, st, mem, width, rerun, saved>>

(* par_mem(): for the next degree of parallelism point p[0..i] into the    *)
(* chain, forget the saved pointers and walk from all of them.             *)
ParMem ==
    /\ pc = "ready"
    /\ prog = "par_mem"
    /\ st.par < MaxPar
    /\ st' = [st EXCEPT !.par = @ + 1]
    /\ width' = st.par + 1
    /\ mem_benchmark(st.par, st.par + 1, mem_reset)
    /\ UNCHANGED <<prog, round, pc, mem>>

(* The timed repetitions of the same walk.                                 *)
ParMemAgain ==
    /\ pc = "ready"
    /\ prog = "par_mem"
    /\ st.par > 0
    /\ mem_benchmark(st.par - 1, width, rerun)
    /\ UNCHANGED <<prog, round, pc, st, mem, width>>

(* The i + 1 starting points of par_mem().                                 *)
Starts(i) ==
    LET lpc == (st.len \div st.line) \div (i + 1)
        lpp == Page \div st.line
        w   == words_initialize(st.line, 1)
    IN  [j \in 0 .. i |-> st.pages[(j * lpc) \div lpp] + st.lines[(j * lpc) % lpp]
                            + w[((j * st.line) \div (i + 1)) % st.line]]

-----------------------------------------------------------------------------
(* line_test(line): link the last of the first nlines lines of each page   *)
(* to the next page, measure, and link it to the following line again.     *)
NPages == RoundUp(st.len, Page)

Shorten(n) ==
    Store(mem, [i \in 1 .. NPages |->
        <<st.pages[i - 1] + st.lines[n - 1], st.pages[i % NPages] + st.lines[0]>>])

(* Mutant of Repair: the loop stops before the last page.                  *)
Repair_NotLast(n) ==
    Store(mem, [i \in 1 .. NPages - 1 |->
        <<st.pages[i - 1] + st.lines[n - 1], st.pages[i - 1] + st.lines[n]>>])

Repair(n) ==
    Store(mem, [i \in 1 .. NPages |->
        <<st.pages[i - 1] + st.lines[n - 1], st.pages[i - 1] + st.lines[n]>>])

(* line_find() doubles the size until it is larger than MaxLine or a time  *)
(* tells it to stop.                                                       *)
LineTest ==
    /\ pc = "ready"
    /\ prog = "line"
    /\ 2 ^ st.par <= MaxLine
    /\ LET n == Page \div 2 ^ st.par
       IN  mem' = IF n < Page THEN Shorten(n) ELSE mem
    /\ st' = [st EXCEPT !.test = 2 ^ st.par, !.par = @ + 1]
    /\ pc' = "short"
    /\ used' = round
    /\ UNCHANGED <<prog, round, width, rerun, saved>>

LineTestEnds ==
    /\ pc = "short"
    /\ LET n == Page \div st.test
       IN  mem' = IF n < Page THEN Repair(n) ELSE mem
    /\ st' = [st EXCEPT !.test = 0]
    /\ pc' = "ready"
    /\ UNCHANGED <<prog, round, width, rerun, saved, used>>

(* mem_cleanup(), tlb_cleanup(): the memory is free, the pointers saved in *)
(* the static variables stay.                                              *)
Cleanup ==
    /\ pc = "ready"
    /\ pc' = "idle"
    /\ st' = [addr |-> 0]
    /\ mem' = Nothing
    /\ width' = 0
    /\ UNCHANGED <<prog, round, rerun, saved, used>>

Next == \/ Initialize \/ TlbWalk \/ LatMemRdWalk \/ LatDramPageWalk \/ ParMem \/ ParMemAgain
        \/ LineTest \/ LineTestEnds \/ Cleanup

Spec == Init /\ [][Next]_vars

-----------------------------------------------------------------------------
TypeOK ==
    /\ prog \in Programs
    /\ round \in 0 .. Rounds
    /\ pc \in {"idle", "ready", "short"}
    /\ width \in 0 .. MaxPar
    /\ rerun \in BOOLEAN
    /\ used \in 0 .. Rounds
    /\ \A a \in DOMAIN mem : mem[a] \in Array((MaxPages + 1) * Page)

Visited == Walk(mem, st.first)

(* The words, a multiple of unit apart, of the pages in use.               *)
WordsOf(unit) == {st.pages[i] + o : i \in Array(NPages), o \in {w \in Array(Page) : w % unit = 0}}

LinesVisited == Cardinality({a \div st.line : a \in Visited})

(* What a walk must see.  mem_initialize() may visit one line too many per *)
(* page boundary when the last page is not full; thrash_initialize() loses *)
(* lines when their number is neither whole pages nor a power of two.      *)
SeesAll ==
    LET n == st.len \div st.line IN
    CASE st.kind = "stride" -> Visited = {a \in Array(st.len) : a % st.line = 0}
      [] st.kind = "thrash" ->
            IF st.len % Page = 0 THEN Visited = WordsOf(st.line)
            ELSE IF PowerOfTwo(n) THEN Visited = {i * st.line : i \in Array(n)}
            ELSE Cardinality(Visited) = n - 2 ^ Bits(n)
      [] st.kind = "mem"  -> /\ Cardinality(Visited) = LinesVisited * st.line
                             /\ LinesVisited \in n .. n + NPages - 1
      [] st.kind = "tlb"  -> /\ Cardinality(Visited) = NPages
                             /\ {a - (a % Page) : a \in Visited} = {st.pages[i] : i \in Array(NPages)}
      [] st.kind = "line" -> Visited = WordsOf(IF pc = "short" THEN st.test ELSE 1)
      [] st.kind = "dram" -> Visited = WordsOf(1)

(* Every chain of lib_mem.c is one cycle that comes back to its start,     *)
(* never leaves the words that were given a pointer, and visits what its   *)
(* initializer promises; line_test() shortens it to the words a multiple   *)
(* of the tested size apart and leaves it as it was.                       *)
OneCycle ==
    pc # "idle" =>
        /\ -1 \notin Visited
        /\ st.first \in Walk(mem, mem[st.first])
        /\ SeesAll

(* A walk that goes on from the pointers saved in static variables starts  *)
(* in the chain that is there now, never in one that has been freed, even  *)
(* if malloc() returned the same address.                                  *)
ResumesHere == pc # "idle" => used = round

(* The parallel walks of par_mem() start at different places of the chain. *)
StartsApart ==
    pc # "idle" /\ prog = "par_mem" =>
        \A i \in Array(MaxPar) : /\ Range(Starts(i)) \subseteq Visited
                                 /\ IsInjective(Starts(i))
=============================================================================
