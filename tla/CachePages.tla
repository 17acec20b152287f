----------------------------- MODULE CachePages -----------------------------
(***************************************************************************)
(* cache.c: measuring one buffer size.  The buffer is a list of pages; the *)
(* program looks for pages that collide in the cache by measuring without  *)
(* them (remove_chunk), and replaces them by spare pages (fixup_chunk).    *)
(* Every measurement relinks the pointer chain through the pages at the    *)
(* front of the list.  What a measurement yields is arbitrary; the         *)
(* measured times are small integers, so that 0.99, 0.995 and 0.999 times  *)
(* a time compare like the time itself.                                    *)
(***************************************************************************)
EXTENDS Chains

CONSTANTS
    NTotal,             \* ntotalpages, the pages of maxlen
    Line, Page,         \* in words
    ChunkMax,           \* 20: chunks up to this size are repaired directly
    Repeats,            \* 8: how often collect_sample() repeats
    Readings,           \* what a measurement may yield
    Samples,            \* bound: calls of collect_sample()
    SizeofInt, SizeofSize   \* 4, and 8 on a 64-bit machine

VARIABLES
    pages,      \* state->pages
    mem,        \* the pointers in the buffer
    pc,         \* what runs next
    len,        \* the length to be measured, in words
    npages,     \* and in pages
    baseline,   \* *baseline
    again,      \* repetitions of test_chunk() left, samples left
    stack,      \* the calls of test_chunk()
    fix,        \* the locals of fixup_chunk()
    avail,      \* available_index
    walked,     \* the words visited by the last measurement
    want        \* the pages it was meant to visit, and its size in words

vars == <<pages, mem, pc, len, npages, baseline, again, stack, fix, avail, walked, want>>

NLines == Page \div Line
LineAt == words_initialize(NLines, Line)
WordAt == words_initialize(Line, 1)
Spare == NTotal - npages         \* nsparepages

-----------------------------------------------------------------------------
(* measure(): link the first pages of the list ps, the last of them cut    *)
(* off after the lines that fit if size is not a number of pages.          *)
LastLines(size) == IF size % Page = 0 THEN NLines ELSE (size % Page) \div Line

Relink(m, ps, size) ==
    LET np == RoundUp(size, Page)
        ln(i) == IF i < np - 1 THEN NLines ELSE LastLines(size)
    IN  Store(m, [x \in 1 .. np * Line |->
            LET i == (x - 1) \div Line
                j == (x - 1) % Line
            IN  <<ps[i] + LineAt[ln(i) - 1] + WordAt[j],
                  IF i < np - 1 THEN ps[i + 1] + LineAt[0] + WordAt[j]
                  ELSE ps[0] + LineAt[0] + WordAt[(j + 1) % Line]>>])

(* Mutant of Mend: the cut stays.                                          *)
Mend_Not(m, ps, size) == m

(* measure(), after the measurement: the cut is mended.                    *)
Mend(m, ps, size) ==
    LET p == ps[RoundUp(size, Page) - 1]
        n == LastLines(size)
    IN  IF n = NLines THEN m
        ELSE Store(m, [j \in 1 .. Line |->
                <<p + LineAt[n - 1] + WordAt[j - 1], p + LineAt[n] + WordAt[j - 1]>>])

(* A measurement with the page list ps, meant for the pages w.             *)
Measure(ps, size, w) ==
    LET m == Relink(mem, ps, size)
        q == ps[0] + LineAt[0] + WordAt[0]
    IN  /\ mem' = Mend(m, ps, size)
        /\ walked' = IF q \in Walk(m, m[q]) THEN Walk(m, q) ELSE {-1}
        /\ want' = <<w, size>>

Prefix(ps, n) == {ps[i] : i \in Array(n)}

-----------------------------------------------------------------------------
Init ==
    /\ pages = [i \in Array(NTotal) |-> i * Page]
    /\ mem = mem_initialize(NTotal * Page, Line, Page,
                            permutation(NTotal, Page, [i \in 1 .. NTotal |-> NTotal - 1]))
    /\ pc = "sample"
    /\ len = 0 /\ npages = 0 /\ baseline = 0
    /\ again = <<0, Samples>>
    /\ stack = <<>>
    /\ fix = <<>>
    /\ avail = 0
    /\ walked = {} /\ want = <<{}, 0>>

Frame(i, chunk, b) ==
    [i |-> i, chunk |-> chunk, j |-> i, sub |-> RoundUp(chunk, ChunkMax),
     nodiff |-> b, t |-> 0, modified |-> FALSE]

(* collect_sample(): measure the baseline, then look for collisions if     *)
(* there is more than one page.  At least two pages are spare.  A size     *)
(* need not be a number of lines (640 and 896 bytes are not, for lines of  *)
(* 256), but what it leaves on its last page is a line or more, as a line  *)
(* is at most 1/8 of a page and the smallest size is 512 bytes.            *)
CollectSample ==
    /\ pc = "sample"
    /\ again[2] > 0
    /\ \E np \in 1 .. NTotal - 2, rest \in Line .. Page, t \in Readings :
         /\ npages' = np
         /\ len' = (np - 1) * Page + rest
         /\ baseline' = t
         /\ Measure(pages, len', Prefix(pages, np))
         /\ IF np > 1
            THEN /\ again' = <<Repeats - 1, again[2] - 1>>
                 /\ stack' = <<Frame(0, np, t)>>
                 /\ pc' = "test"
            ELSE /\ again' = <<0, again[2] - 1>>
                 /\ UNCHANGED <<stack, pc>>
    /\ UNCHANGED <<pages, fix, avail>>

Top == stack[Len(stack)]
Size(f) == IF f.j + f.sub > f.i + f.chunk THEN f.i + f.chunk - f.j ELSE f.sub
Chunk(f) == f.j .. f.j + Size(f) - 1

(* remove_chunk(): exchange the chunk with the end of the list, measure    *)
(* without the end, and exchange again.                                    *)
remove_chunk(i, chunk) ==
    IF i + chunk < npages
    THEN Exchanges(pages, [j \in 1 .. chunk |-> <<i + j - 1, npages - j>>])
    ELSE pages

(* test_chunk(), one chunk: measured without it once, and once more if     *)
(* that was faster.  If it still was, the chunk is looked into.            *)
RemoveChunk ==
    /\ pc = "test"
    /\ Top.j < Top.i + Top.chunk
    /\ Measure(remove_chunk(Top.j, Size(Top)), len - Size(Top) * Page,
               {pages[x] : x \in Array(npages) \ Chunk(Top)})
    /\ \E t, tt \in Readings :
         LET slower(x) == x >= baseline \/ x >= Top.nodiff
             worst     == Max({t, tt})
             f         == [Top EXCEPT !.sub = Size(Top), !.t = worst]
         IN  IF slower(t) \/ slower(worst)
             THEN /\ stack' = [stack EXCEPT ![Len(stack)].j = @ + Size(Top)]
                  /\ UNCHANGED pc
             ELSE /\ stack' = Append(Front(stack), f)
                  /\ pc' = "call"
    /\ UNCHANGED <<pages, len, npages, baseline, again, fix, avail>>

(* The call of test_chunk() for a chunk: a large one is split again.       *)
SplitChunk ==
    /\ pc = "call"
    /\ ~ (Top.sub <= ChunkMax /\ Top.sub < npages)
    /\ stack' = Append(stack, Frame(Top.j, Top.sub, baseline))
    /\ pc' = "test"
    /\ UNCHANGED <<pages, mem, len, npages, baseline, again, fix, avail, walked, want>>

(* What the caller does with the answer.                                   *)
Answer(s, changed) ==
    LET f == s[Len(s)]
    IN  [s EXCEPT ![Len(s)] =
            [f EXCEPT !.j = @ + f.sub,
                      !.modified = @ \/ changed,
                      !.nodiff = IF changed THEN @ ELSE f.t]]

TestChunkReturns ==
    /\ pc = "test"
    /\ Top.j >= Top.i + Top.chunk
    /\ IF Len(stack) > 1
       THEN stack' = Answer(Front(stack), Top.modified) /\ UNCHANGED <<again, pc>>
       ELSE IF Top.modified /\ again[1] > 0
       THEN /\ stack' = <<Frame(0, npages, baseline)>>
            /\ again' = <<again[1] - 1, again[2]>>
            /\ UNCHANGED pc
       ELSE stack' = <<>> /\ pc' = "sample" /\ UNCHANGED again
    /\ UNCHANGED <<pages, mem, len, npages, baseline, fix, avail, walked, want>>

-----------------------------------------------------------------------------
(* fixup_chunk(): the chunk goes to the end of the list.                   *)
MoveChunk(ps, i, chunk) ==
    IF i + chunk < npages
    THEN Exchanges(ps, [j \in 1 .. chunk |-> <<i + j - 1, npages - chunk + j - 1>>])
    ELSE ps

FixupChunk ==
    /\ pc = "call"
    /\ Top.sub <= ChunkMax
    /\ Top.sub < npages
    /\ fix' = [i |-> Top.j, chunk |-> Top.sub, goal |-> Top.t, j |-> 0, k |-> Top.sub,
               lat |-> [x \in Array(Top.sub) |-> 0], saved |-> pages, swapped |-> 0]
    /\ pages' = MoveChunk(pages, Top.j, Top.sub)
    /\ avail' = IF avail >= Spare THEN 0 ELSE avail
    /\ pc' = "keep"
    /\ UNCHANGED <<mem, len, npages, baseline, again, stack, walked, want>>

At(j) == npages - fix.chunk + j     \* the place of the chunk's page j

(* The first loop: add the pages of the chunk one by one; one that costs   *)
(* too much goes behind those still to be tried.                           *)
KeepPage ==
    /\ pc = "keep"
    /\ fix.j < fix.k
    /\ Measure(pages, (At(fix.j) + 1) * Page, Prefix(pages, At(fix.j) + 1))
    /\ \E t \in Readings :
         IF t <= fix.goal
         THEN /\ fix' = [fix EXCEPT !.lat[fix.j] = t, !.j = @ + 1]
              /\ UNCHANGED pages
         ELSE /\ fix' = [fix EXCEPT !.lat[fix.k - 1] = t, !.k = @ - 1]
              /\ pages' = Exchange(pages, At(fix.j), At(fix.k - 1))
    /\ UNCHANGED <<pc, len, npages, baseline, again, stack, avail>>

(* pagesort(): the exchange sort of the pages from j on by their times.    *)
(* One comparison of it, of the pages a and b of the chunk.                *)
SortPair(pl, a, b) ==
    IF a < b /\ pl[2][a] > pl[2][b]
    THEN <<Exchange(pl[1], At(a), At(b)), Exchange(pl[2], a, b)>>
    ELSE pl

pagesort(ps, lat, j) ==
    LET n == fix.chunk - j
        sorted[x \in 0 .. n * n] ==
            IF x = 0 THEN <<ps, lat>>
            ELSE SortPair(sorted[x - 1], j + ((x - 1) \div n), j + ((x - 1) % n))
    IN  sorted[n * n]

SortBad ==
    /\ pc = "keep"
    /\ fix.j >= fix.k
    /\ LET s == pagesort(pages, fix.lat, fix.j)
       IN  pages' = s[1] /\ fix' = [fix EXCEPT !.lat = s[2], !.k = 0]
    /\ pc' = "replace"
    /\ UNCHANGED <<mem, len, npages, baseline, again, stack, avail, walked, want>>

(* The second loop: try a spare page in the place of page j; if it is      *)
(* faster than the slowest page of the chunk, it replaces that one.        *)
Substitute == npages + Spare - 1 - ((fix.k + avail) % (Spare - 1))

ReplacePage ==
    /\ pc = "replace"
    /\ fix.j < fix.chunk /\ fix.k < 2 * npages
    /\ LET ps   == Exchange(pages, At(fix.j), Substitute)
           size == IF fix.j = fix.chunk - 1 /\ len % Page # 0 THEN len
                   ELSE (At(fix.j) + 1) * Page
       IN  Measure(ps, size, Prefix(ps, At(fix.j) + 1))
    /\ \E t \in Readings :
         LET last == fix.chunk - 1
             s == IF t < fix.lat[last]
                  THEN pagesort(Exchange(pages, npages - 1, Substitute),
                                [fix.lat EXCEPT ![last] = t], fix.j)
                  ELSE <<pages, fix.lat>>
             ok == IF s[2][fix.j] <= fix.goal THEN 1 ELSE 0
         IN  /\ pages' = s[1]
             /\ fix' = [fix EXCEPT !.lat = s[2], !.k = @ + 1, !.j = @ + ok, !.swapped = @ + ok]
    /\ UNCHANGED <<pc, len, npages, baseline, again, stack, avail>>

(* What the copy to saved_pages and back restores: sizeof(int) bytes for   *)
(* every page number, though a page number is a size_t.                    *)
Copied == Min({NTotal, RoundUp(SizeofInt * NTotal, SizeofSize)})
(* Mutant of BackOut: only the pages in use are copied back.               *)
BackOut_InUse == [x \in Array(NTotal) |-> IF x < npages THEN fix.saved[x] ELSE pages[x]]

BackOut == [x \in Array(NTotal) |-> IF x < Copied THEN fix.saved[x] ELSE pages[x]]

(* The end of fixup_chunk(): if pages were replaced and the buffer is not  *)
(* faster, back the changes out.                                           *)
FixupReturns ==
    /\ pc = "replace"
    /\ ~ (fix.j < fix.chunk /\ fix.k < 2 * npages)
    /\ avail' = (fix.k + avail) % (Spare - 1)
    /\ IF fix.swapped = 0
       THEN /\ stack' = Answer(stack, FALSE)
            /\ UNCHANGED <<pages, mem, baseline, walked, want>>
       ELSE /\ Measure(pages, len, Prefix(pages, npages))
            /\ \E t \in Readings :
                 IF t >= baseline
                 THEN /\ pages' = BackOut
                      /\ stack' = Answer(stack, FALSE)
                      /\ UNCHANGED baseline
                 ELSE /\ baseline' = t
                      /\ pages' = MoveChunk(pages, fix.i, fix.chunk)
                      /\ stack' = Answer(stack, TRUE)
    /\ fix' = <<>>
    /\ pc' = "test"
    /\ UNCHANGED <<len, npages, again>>

Next == \/ CollectSample \/ RemoveChunk \/ SplitChunk \/ TestChunkReturns
        \/ FixupChunk \/ KeepPage \/ SortBad \/ ReplacePage \/ FixupReturns

Spec == Init /\ [][Next]_vars

-----------------------------------------------------------------------------
TypeOK ==
    /\ \A i \in Array(NTotal) : pages[i] \in {p * Page : p \in Array(NTotal)}
    /\ baseline \in Readings \cup {0}
    /\ avail \in 0 .. NTotal
    /\ Len(stack) <= NTotal

(* The statement of check_memory(), whose call in measure() is commented   *)
(* out: the chain that is timed is one cycle, in the pages that were meant *)
(* (for remove_chunk() those outside the chunk), with as many words as the *)
(* size says.  Where the size is not a number of lines the chain leaves    *)
(* out the broken line, but check_memory() would still count its words.    *)
CheckMemory ==
    want # <<{}, 0>> =>
        /\ {a - (a % Page) : a \in walked} = want[1]
        /\ Cardinality(walked) = want[2] - (want[2] % Line)

(* Whatever is exchanged, replaced, sorted and backed out, state->pages    *)
(* stays a list of all pages: none is lost, none is there twice.           *)
PagesPermuted == Range(pages) = {i * Page : i \in Array(NTotal)}
=============================================================================
