------------------------------- MODULE Chains -------------------------------
(***************************************************************************)
(* The circular pointer chains of lib_mem.c and lat_dram_page.c, as pure   *)
(* operators.  A memory is a function from the offsets that hold a pointer *)
(* to the offset that pointer leads to.  The unit of every size and offset *)
(* is one pointer, eight bytes; arrays of the code are functions on        *)
(* 0 .. n-1.                                                               *)
(***************************************************************************)
EXTENDS Integers, Sequences, FiniteSets, FiniteSetsExt, SequencesExt

Array(n) == 0 .. n - 1

RoundUp(n, unit) == (n + unit - 1) \div unit

-----------------------------------------------------------------------------
(* words_initialize() reverses the nbits bits of every index below max.    *)
(* nbits is the logarithm of max rounded down, so that when max is not a   *)
(* power of two the top bit of the larger indices is lost.                 *)
Bits(max) == CHOOSE b \in 0 .. max : 2^b <= max /\ max < 2^(b + 1)

Bit(i, j) == (i \div 2^j) % 2

words_initialize(max, scale) ==
    [i \in Array(max) |->
        scale * MapThenSumSet(LAMBDA j : Bit(i, j) * 2^(Bits(max) - j - 1),
                              0 .. Bits(max) - 1)]

PowerOfTwo(n) == \E b \in 0 .. n : n = 2^b

(* A loop that exchanges elements of an array is the sequence of the pairs *)
(* of places it exchanges.                                                 *)
Exchange(f, a, b) == [f EXCEPT ![a] = f[b], ![b] = f[a]]

Exchanges(f, pairs) ==
    LET after[n \in 0 .. Len(pairs)] ==
            IF n = 0 THEN f
            ELSE Exchange(after[n - 1], pairs[n][1], pairs[n][2])
    IN  after[Len(pairs)]

(* permutation(): max exchanges of the element at i with one at a random   *)
(* place, given here as the sequence of places drawn.                      *)
permutation(max, scale, places) ==
    Exchanges([i \in Array(max) |-> i * scale],
              [i \in 1 .. Len(places) |-> <<i - 1, places[i] % max>>])

-----------------------------------------------------------------------------
(* A loop that stores pointers is the sequence of its stores <<at, to>>;   *)
(* of two stores to one place the later one stays.                         *)
Store(mem, stores) ==
    LET places  == {stores[n][1] : n \in DOMAIN stores}
        last(a) == Max({n \in DOMAIN stores : stores[n][1] = a})
    IN  [a \in DOMAIN mem \cup places |->
            IF a \in places THEN stores[last(a)][2] ELSE mem[a]]

Nothing == [a \in {} |-> 0]

(* The places a walk from p visits; -1 if it leaves what has been stored.  *)
Walk(mem, p) ==
    LET at[n \in 0 .. Cardinality(DOMAIN mem)] ==
            IF n = 0 THEN p
            ELSE LET a == at[n - 1] IN IF a \in DOMAIN mem THEN mem[a] ELSE -1
    IN  Range(at)

-----------------------------------------------------------------------------
(* The initializers.  len, line and page are the fields of struct          *)
(* mem_state, pages its page offsets (after permutation()).                *)

(* stride_initialize(): every stride-th word, in order.                    *)
stride_initialize(len, line) ==
    LET n == RoundUp(len, line)
    IN  Store(Nothing, [i \in 1 .. n |->
            <<(i - 1) * line, IF i < n THEN i * line ELSE 0>>])

(* thrash_initialize(), a length that is not a number of pages.            *)
ThrashWords(len, line) ==
    LET n == len \div line
        w == words_initialize(n, line)
    IN  Store(Nothing, [i \in 1 .. n |-> <<w[i - 1], IF i < n THEN w[i] ELSE 0>>])

(* thrash_initialize(), whole pages: a different page each time.           *)
ThrashPages(len, line, page, pages) ==
    LET np == len \div page
        nw == page \div line
        w  == words_initialize(nw, line)
        link(i, j) == IF i < np - 1
            THEN <<pages[i] + w[(i + j) % nw], pages[i + 1] + w[(i + j + 1) % nw]>>
            ELSE <<pages[i] + w[(i + j) % nw], pages[0] + w[(j + 1) % nw]>>
    IN  Store(Nothing, [x \in 1 .. np * nw |-> link((x - 1) \div nw, (x - 1) % nw)])

thrash_initialize(len, line, page, pages) ==
    IF len % page # 0 THEN ThrashWords(len, line)
                      ELSE ThrashPages(len, line, page, pages)

(* mem_initialize(): all lines of a page, then the next page, once per     *)
(* word of a line.  The counter l of all links is compared with the number *)
(* of lines, but not advanced for the link from one page to the next.      *)
mem_initialize(len, line, page, pages) ==
    LET npointers == len \div line
        nlines    == page \div line
        npages    == RoundUp(len, page)
        words     == words_initialize(line, 1)
        lines     == words_initialize(nlines, line)
        last(i)   == Max({0, Min({nlines - 1, npointers - 1 - i * (nlines - 1)})})
        inside(i) == [x \in 1 .. last(i) * line |->
                        LET j == (x - 1) \div line
                            k == (x - 1) % line
                        IN  <<pages[i] + lines[j] + k, pages[i] + lines[j + 1] + k>>]
        across(i) == [k \in 1 .. line |->
                        <<pages[i] + lines[last(i)] + words[k - 1],
                          IF i < npages - 1
                          THEN pages[i + 1] + lines[0] + words[k - 1]
                          ELSE pages[0] + lines[0] + words[k % line]>>]
    IN  Store(Nothing, FlattenSeq([i \in 1 .. npages |-> inside(i - 1) \o across(i - 1)]))

(* line_initialize(): the first word of every line.                        *)
line_initialize(len, line, page, pages) ==
    LET nlines  == page \div line
        npages  == RoundUp(len, page)
        lines   == words_initialize(nlines, line)
        link(i, j) == <<pages[i] + lines[j],
                        IF j < nlines - 1 THEN pages[i] + lines[j + 1]
                        ELSE pages[(i + 1) % npages] + lines[0]>>
    IN  Store(Nothing, [x \in 1 .. npages * nlines |->
                            link((x - 1) \div nlines, (x - 1) % nlines)])

(* tlb_initialize(): one word of every page, each at another place.        *)
tlb_initialize(len, page, pages) ==
    LET npages == len \div page
        lines  == words_initialize(page, 1)
    IN  Store(Nothing, [i \in 1 .. npages |->
            <<pages[i - 1] + lines[(i - 1) % page],
              IF i < npages THEN pages[i] + lines[i % page] ELSE pages[0] + lines[0]>>])

(* regroup() of lat_dram_page.c: the pages of a group, from first on, are  *)
(* visited line by line instead of one after the other.                    *)
regroup(mem, first, groupsize, page, pages) ==
    LET lastpage == pages[first + groupsize - 1]
        turn(o)  == IF o \in lastpage .. lastpage + page - 1
                    THEN o - lastpage + pages[first] ELSE o
        stores   == [x \in 1 .. (groupsize - 1) * page |->
                        LET i == first + (x - 1) \div page
                            o == (x - 1) % page
                        IN  <<pages[i] + o, pages[i + 1] + o>>]
    IN  IF groupsize <= 1 THEN mem
        ELSE [a \in DOMAIN Store(mem, stores) |->
                IF a \in lastpage .. lastpage + page - 1
                THEN turn(mem[a]) ELSE Store(mem, stores)[a]]

dram_page_initialize(len, line, page, pages, group) ==
    LET npages == RoundUp(len, page)
    IN  FoldLeftDomain(
            LAMBDA m, g : regroup(m, (g - 1) * group,
                                  Min({group, npages - (g - 1) * group}), page, pages),
            mem_initialize(len, line, page, pages),
            [g \in 1 .. RoundUp(npages, group) |-> g])
=============================================================================
