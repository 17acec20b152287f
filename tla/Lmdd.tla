-------------------------------- MODULE Lmdd --------------------------------
(***************************************************************************)
(* lmdd.c: copy blocks from an input to an output, in sequence or at       *)
(* random offsets, with a child process for each write if `fork' is given. *)
(* The unit of sizes and offsets is a byte.  The descriptor of the output  *)
(* is shared with the children: there is one file offset.                  *)
(***************************************************************************)
EXTENDS Integers, Sequences, FiniteSets, FiniteSetsExt, SequencesExt

CONSTANTS
    Bsize,      \* the block size, a power of two, at least 4
    InSize,     \* the length of the input; need not be blocks
    Areas,      \* the values of `rand'
    Ends,       \* the values of `end'
    Counts,     \* the values of `count'
    Millis,     \* what a read may take, in ms
    MaxIos,     \* bound: blocks handled when nothing else ends the run
    Faults      \* bound: failing fork(), write() or read() calls, and
                \*        children interrupted before their write

VARIABLES
    opt,        \* the arguments
    pc,         \* loop, read, got (a block), written or forked; or, in done(),
                \* done, shifted (int_count is) and over
    count, off, \* the locals of main()
    pos,        \* the offsets of the files: [in, out]
    got,        \* the block in the buffer: [from, n], where it was read
    ints,       \* int_count, until done() shifts it
    shifts,     \* how often done() has
    sigs,       \* the handlers entered, SIGINT's and SIGALRM's; none returns
    pad,        \* pad_in
    tab, norepeats,   \* norepeat[], from index -1 on
    kids,       \* the children that have not ended: their blocks, where they
                \* are (write, count or exit), and their own int_count
    log,        \* the writes: [at, off, from, n]
    hist,       \* rthist
    done,       \* reads timed, blocks counted, offsets drawn, words counted
                \* by the parent that no child has written
    faults

ending == <<shifts, sigs>>
drawing == <<pad, tab, norepeats>>
vars == <<opt, pc, count, off, pos, got, ints, ending, drawing, kids, log,
          hist, done, faults>>

None == -1
RoundTo(x) == ((x + Bsize - 1) \div Bsize) * Bsize      \* ALIGN
Whole(n) == n \div 4                                     \* moved >> 2

Modes == {"seq", "rand", "end"}

(* The combinations of arguments that are looked at: times only for a      *)
(* sequential copy, norepeat only for random offsets.                      *)
Options ==
    {o \in [in : BOOLEAN, out : BOOLEAN, cnt : Counts \cup {None}, mode : Modes, area : Areas, end : Ends,
            skip : {0, 1}, pad : BOOLEAN, fork : BOOLEAN, norepeat : BOOLEAN, rt : {None, 10, 15}] :
        /\ o.in \/ o.cnt # None
        /\ o.norepeat => o.mode # "seq" /\ o.cnt # None
        /\ o.rt # None => o.in /\ o.mode = "seq" /\ ~ o.fork
        /\ o.fork => o.out
        /\ o.mode # "seq" => o.skip = 0 /\ ~ o.pad
        /\ o.mode = "seq" => o.area = Min(Areas)
        /\ o.mode # "end" => o.end = Min(Ends)
        /\ o.end <= o.area}

(* main(), up to the loop: seek over `skip' blocks.                        *)
Init ==
    /\ opt \in Options
    /\ pc = "loop"
    /\ count = opt.cnt
    /\ off = opt.skip * Bsize
    /\ pos = [in |-> opt.skip * Bsize, out |-> opt.skip * Bsize]
    /\ got = [from |-> 0, n |-> 0]
    /\ ints = 0 /\ shifts = 0 /\ sigs = 0
    /\ pad = opt.pad
    /\ tab = [i \in -1 .. MaxIos |-> 0]
    /\ norepeats = -1
    /\ kids = {}
    /\ log = <<>>
    /\ hist = [b \in 0 .. 11 |-> 0]
    /\ done = [timed |-> 0, counted |-> 0, drawn |-> <<>>, lost |-> 0]
    /\ faults = 0

-----------------------------------------------------------------------------
(* been_there(): the table from 0 to norepeats, both included.             *)
been_there(o) == \E i \in 0 .. norepeats : tab[i] = o

(* The random offsets.  drand48() yields any fraction below one.           *)
Drawn ==
    CASE opt.mode = "seq"  -> {off}
      [] opt.mode = "rand" ->
            LET size == RoundTo(opt.area - Bsize)
            IN  {RoundTo(x) : x \in 0 .. size - Bsize - 1}
      [] opt.mode = "end"  ->
            {RoundTo(x) + s : x \in 0 .. opt.end - 1,
                              s \in {IF Len(done.drawn) % 2 = 0 THEN opt.area - opt.end ELSE 0}}

(* The histogram of read times: bucket 11 for rtmax and more, otherwise    *)
(* tenths, rounded down, of rtmax - rtmin (rtmin is zero here).            *)
Bucket(mills) ==
    LET step == opt.rt \div 10
    IN  IF mills >= opt.rt THEN {11}
        ELSE {i \in 1 .. 10 : mills < i * step /\ ~ \E j \in 1 .. i - 1 : mills < j * step}

Count(mills) ==
    hist' = [b \in 0 .. 11 |-> IF b \in Bucket(mills) THEN hist[b] + 1 ELSE hist[b]]

(* The call of done().                                                     *)
Exits == pc' = "done"

(* read() has returned, and its time is counted: at its end, or when it    *)
(* fails, done().                                                          *)
Moved(n) == IF n = 0 THEN "done" ELSE "got"

(* The start of an iteration: count down, draw an offset, seek both files, *)
(* read.  A padding read is done before anything is counted, even if it    *)
(* fails.  The block is empty if the read fails.                           *)
Read ==
    /\ pc = "loop"
    /\ count # 0
    /\ Len(done.drawn) < MaxIos
    /\ \E o \in Drawn, fails \in BOOLEAN :
         LET at == IF opt.mode = "seq" THEN pos ELSE [in |-> o, out |-> o]
             n  == IF fails THEN 0
                   ELSE IF ~ opt.in THEN Bsize ELSE Max({0, Min({Bsize, InSize - at.in})})
         IN  /\ fails => opt.in /\ faults < Faults
             /\ faults' = IF fails THEN faults + 1 ELSE faults
             /\ opt.norepeat => ~ been_there(o)
             /\ off' = o
             /\ IF opt.norepeat
                THEN /\ tab' = [tab EXCEPT ![norepeats] = o]
                     /\ norepeats' = norepeats + 1
                ELSE UNCHANGED <<tab, norepeats>>
             /\ pos' = IF opt.in THEN [at EXCEPT !.in = @ + n] ELSE at
             /\ IF pad /\ opt.in
                THEN /\ pad' = FALSE
                     /\ UNCHANGED <<pc, count, got, done>>
                ELSE /\ count' = count - 1
                     /\ done' = [done EXCEPT !.drawn = Append(@, o),
                                             !.timed = IF opt.rt # None THEN @ + 1 ELSE @]
                     /\ got' = [from |-> at.in, n |-> n]
                     /\ pc' = IF opt.rt # None THEN "read" ELSE Moved(n)
                     /\ UNCHANGED pad
    /\ UNCHANGED <<opt, ints, ending, kids, log, hist>>

(* The read is put into the histogram.                                     *)
TimeRead ==
    /\ pc = "read"
    /\ \E mills \in Millis : Count(mills)
    /\ pc' = Moved(got.n)
    /\ UNCHANGED <<opt, count, off, pos, got, ints, ending, drawing, kids, log, done, faults>>

CountDone ==
    /\ pc = "loop"
    /\ count = 0
    /\ Exits
    /\ UNCHANGED <<opt, count, off, pos, got, ints, ending, drawing, kids, log, hist, done, faults>>

Block == [off |-> off, from |-> got.from, n |-> got.n]

Written(w) ==
    /\ log' = Append(log, [at |-> pos.out, off |-> w.off, from |-> w.from, n |-> w.n])
    /\ pos' = [pos EXCEPT !.out = @ + w.n]

(* write() in the process itself.                                          *)
Write ==
    /\ pc = "got"
    /\ ~ opt.fork
    /\ IF opt.out THEN Written(Block) ELSE UNCHANGED <<log, pos>>
    /\ pc' = "written"
    /\ UNCHANGED <<opt, count, off, got, ints, ending, drawing, kids, hist, done, faults>>

WriteFails ==
    /\ pc = "got"
    /\ ~ opt.fork /\ opt.out
    /\ faults < Faults
    /\ faults' = faults + 1
    /\ Exits
    /\ UNCHANGED <<opt, count, off, pos, got, ints, ending, drawing, kids, log, hist, done>>

Child == [off |-> off, from |-> got.from, n |-> got.n, at |-> "write", ints |-> ints]

(* Mutant of Fork: the last child is not waited for.                       *)
Fork_NoWait ==
    /\ pc = "got"
    /\ opt.fork
    /\ kids' = kids \cup {Child}
    /\ pc' = "forked"
    /\ UNCHANGED <<opt, count, off, pos, got, ints, ending, drawing, log, hist, done, faults>>

(* fork(), after the wait for the last child.                              *)
Fork ==
    /\ pc = "got"
    /\ opt.fork
    /\ kids = {}
    /\ kids' = {Child}
    /\ pc' = "forked"
    /\ UNCHANGED <<opt, count, off, pos, got, ints, ending, drawing, log, hist, done, faults>>

(* fork() fails: its -1 looks like a child, and the block is counted.      *)
ForkFails ==
    /\ pc = "got"
    /\ opt.fork
    /\ kids = {}
    /\ faults < Faults
    /\ faults' = faults + 1
    /\ done' = [done EXCEPT !.lost = @ + Whole(got.n)]
    /\ pc' = "forked"
    /\ UNCHANGED <<opt, count, off, pos, got, ints, ending, drawing, kids, log, hist>>

(* Mutant of CountBlock: whole blocks are counted.                         *)
CountBlock_Whole ==
    /\ pc \in {"written", "forked"}
    /\ off' = off + got.n
    /\ ints' = ints + Whole(Bsize)
    /\ done' = [done EXCEPT !.counted = @ + 1]
    /\ pc' = "loop"
    /\ UNCHANGED <<opt, count, pos, got, ending, drawing, kids, log, hist, faults>>

(* The end of an iteration: the block is counted.                          *)
CountBlock ==
    /\ pc \in {"written", "forked"}
    /\ off' = off + got.n
    /\ ints' = ints + Whole(got.n)
    /\ done' = [done EXCEPT !.counted = @ + 1]
    /\ pc' = "loop"
    /\ UNCHANGED <<opt, count, pos, got, ending, drawing, kids, log, hist, faults>>

-----------------------------------------------------------------------------
(* The child writes its block, counts it as the parent does, and exits.    *)
KidWrites ==
    /\ \E k \in kids :
          /\ k.at = "write"
          /\ Written(k)
          /\ kids' = (kids \ {k}) \cup {[k EXCEPT !.at = "count"]}
    /\ UNCHANGED <<opt, pc, count, off, got, ints, ending, drawing, hist, done, faults>>

KidCounts ==
    /\ \E k \in kids :
          /\ k.at = "count"
          /\ kids' = (kids \ {k}) \cup {[k EXCEPT !.at = "exit", !.ints = @ + Whole(k.n)]}
    /\ UNCHANGED <<opt, pc, count, off, pos, got, ints, ending, drawing, log, hist, done, faults>>

(* It exits; or its write fails or SIGINT comes, and it runs done(), too,  *)
(* which prints its own int_count.                                         *)
KidEnds ==
    /\ \E k \in kids :
          /\ kids' = kids \ {k}
          /\ IF k.at = "write"
             THEN /\ faults < Faults
                  /\ faults' = faults + 1
                  /\ done' = [done EXCEPT !.lost = @ + Whole(k.n)]
             ELSE UNCHANGED <<faults, done>>
    /\ UNCHANGED <<opt, pc, count, off, pos, got, ints, ending, drawing, log, hist>>

-----------------------------------------------------------------------------
(* done(): shift int_count, print it and the histogram as they are, exit;  *)
(* the last child is not waited for.                                       *)
Shift ==
    /\ pc = "done"
    /\ shifts' = shifts + 1
    /\ pc' = "shifted"
    /\ UNCHANGED <<opt, count, off, pos, got, ints, sigs, drawing, kids, log, hist, done, faults>>

Prints ==
    /\ pc = "shifted"
    /\ pc' = "over"
    /\ UNCHANGED <<opt, count, off, pos, got, ints, ending, drawing, kids, log, hist, done, faults>>

(* SIGINT or the alarm of `time' runs done() wherever the program is, even *)
(* in done(), which then shifts int_count again.                           *)
Signal ==
    /\ pc # "over"
    /\ sigs < 2
    /\ sigs' = sigs + 1
    /\ Exits
    /\ UNCHANGED <<opt, count, off, pos, got, ints, shifts, drawing, kids, log, hist, done, faults>>

Next == \/ Read \/ TimeRead \/ CountDone \/ Write \/ WriteFails \/ Fork \/ ForkFails \/ CountBlock
        \/ KidWrites \/ KidCounts \/ KidEnds \/ Shift \/ Prints \/ Signal

Spec == Init /\ [][Next]_vars

-----------------------------------------------------------------------------
TypeOK ==
    /\ pc \in {"loop", "read", "got", "written", "forked", "done", "shifted", "over"}
    /\ opt.cnt # None => count \in 0 .. opt.cnt
    /\ norepeats \in -1 .. MaxIos
    /\ off \in Nat /\ ints \in Nat

(* A copy puts every block where it was read, in order and without gaps,   *)
(* with or without children; a padding read shifts the output against the  *)
(* input by one block.  Random offsets are kept too, but not with `fork',  *)
(* where the parent seeks for the next block under the child's hands.      *)
(* at = off is what the pattern of opat must be for a later ipat to match. *)
InPlace ==
    /\ \A w \in Range(log) : opt.mode = "seq" /\ faults = 0 =>
            w.at = w.off /\ (opt.in => w.from = w.at + (IF opt.pad THEN Bsize ELSE 0))
    /\ \A w \in Range(log) : opt.mode # "seq" /\ ~ opt.fork => w.at = w.off
    /\ opt.mode = "seq" =>
            \A i \in 2 .. Len(log) : log[i].at = log[i - 1].at + log[i - 1].n

(* The words of some writes, of the child that has not written, and the    *)
(* reads in a histogram.                                                   *)
Words(writes) ==
    LET sum[i \in 0 .. Len(writes)] == IF i = 0 THEN 0 ELSE sum[i - 1] + Whole(writes[i].n)
    IN  sum[Len(writes)]

Pending == IF \E k \in kids : k.at = "write" THEN Whole((CHOOSE k \in kids : TRUE).n) ELSE 0

InHistogram(h) ==
    LET sum[b \in 0 .. 12] == IF b = 0 THEN 0 ELSE sum[b - 1] + h[b - 1]
    IN  sum[12]

(* What may be short of x when done() is called, which the program is      *)
(* about to count at the places `before': exactly that there, nothing      *)
(* elsewhere, and one or the other once a signal has ended it.             *)
Short(before, x) ==
    IF pc \in before THEN {x}
    ELSE IF pc \in {"done", "shifted", "over"} /\ sigs > 0 THEN {0, x} ELSE {0}

(* The amount that is printed is the whole words of each block written, to *)
(* the block the last child, the only one, still has, and to what failed   *)
(* after the parent had left it to a child; when a signal ends the program *)
(* it may be short of the last block, but of no more.  A child that prints *)
(* is short of its own block at most.  Only a signal in done() makes it    *)
(* four times as much.  Every timed read is in the histogram if the range  *)
(* is a multiple of ten milliseconds, but for the last one at a signal.    *)
Accounted ==
    /\ \A k, l \in kids : k = l
    /\ opt.out => Words(log) + Pending + done.lost - ints \in Short({"written", "forked"}, Whole(got.n))
    /\ opt.out => \A k \in kids :
            Words(log) + done.lost - k.ints = IF k.at = "count" THEN Whole(k.n) ELSE 0
    /\ sigs = 0 => shifts = IF pc \in {"shifted", "over"} THEN 1 ELSE 0
    /\ opt.cnt # None => done.counted <= opt.cnt
    /\ opt.rt = 10 => done.timed - InHistogram(hist) \in Short({"read"}, 1)

(* Random I/O stays inside the area; with `end' it may start right behind  *)
(* the part it belongs to, whose length is rounded up to blocks.           *)
InArea ==
    \A i \in DOMAIN done.drawn :
        LET o == done.drawn[i] IN
        /\ opt.mode = "rand" => o + Bsize <= opt.area
        /\ opt.mode = "end" =>
             LET part == IF i % 2 = 1 THEN opt.area - opt.end ELSE 0
             IN  o \in part .. part + RoundTo(opt.end)

(* norepeat: after the first offset, which is stored in front of the       *)
(* table, no offset is used twice.                                         *)
RepeatsOnlyFirst ==
    opt.norepeat => \A i, j \in 2 .. Len(done.drawn) :
                        done.drawn[i] = done.drawn[j] => i = j
=============================================================================
