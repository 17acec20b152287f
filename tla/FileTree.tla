------------------------------ MODULE FileTree ------------------------------
(***************************************************************************)
(* lat_fs.c: a tree of directories with at most `max' entries each is made *)
(* for `iterations' files; the files are created, removed, and the tree is *)
(* removed.  Which of these steps are timed depends on the test, "mk" or   *)
(* "rm"; their order does not.  A path is the sequence of the numbers of   *)
(* its parts, <<>> the fresh directory of tempnam().                       *)
(*                                                                         *)
(* No mkdir() below the first, no creat(), unlink() or rmdir() is checked. *)
(***************************************************************************)
EXTENDS Naturals, Sequences, SequencesExt

CONSTANTS
    MaxFiles,   \* bound: iterations
    Maxes,      \* state->max, 2 or more: with -n 1 setup_names() never ends
    MaxFails    \* bound: mkdir() and creat() calls that fail

VARIABLES
    max,
    test,       \* which of the two benchmp() calls of measure()
    pc,         \* idle, setup, mk, rm, names or dead
    n,          \* state->n
    ndirs,
    dirs, names,    \* the arrays, as far as they are filled
    stack,      \* calls of setup_names_recurse(), the innermost first
    left,       \* loop variable of benchmark_mk(), benchmark_rm(), cleanup_names()
    made,       \* directories there are
    files,      \* files there are
    fails

vars == <<max, test, pc, n, ndirs, dirs, names, stack, left, made, files, fails>>

Init ==
    /\ max \in Maxes
    /\ test = "mk" /\ pc = "idle"
    /\ n = 0 /\ ndirs = 0 /\ dirs = <<>> /\ names = <<>> /\ stack = <<>> /\ left = 0
    /\ made = {} /\ files = {} /\ fails = 0

-----------------------------------------------------------------------------
(* Mutant of Holding: the directory that is not full is forgotten.         *)
Holding_Full(count) == count \div max

(* setup_names(): directories that hold so many entries.                   *)
Holding(count) == (count \div max) + (IF count % max # 0 THEN 1 ELSE 0)

(* setup_names(): how many entries each level has; level 0 are the files,  *)
(* and every other level are the directories that hold the one before.     *)
Levels(count) ==
    LET level[k \in 0 .. MaxFiles] == IF k = 0 THEN count ELSE Holding(level[k - 1])
    IN  level

(* The loop ends with the first level of one directory.                    *)
Depth(level) ==
    CHOOSE d \in 0 .. MaxFiles - 1 :
        level[d + 1] <= 1 /\ \A e \in 1 .. d : level[e] > 1

(* The directories of the levels up to k.                                  *)
Total(level, k) ==
    LET sum[j \in 0 .. k] == IF j = 0 THEN 0 ELSE sum[j - 1] + level[j]
    IN  sum[k]

(* setup_names_recurse(): `count', the files an entry of a directory holds *)
(* at a depth.                                                             *)
room[depth \in 0 .. MaxFiles] == IF depth = 0 THEN 1 ELSE room[depth - 1] * max

(* setup_names_recurse(): a call, with foff files named so far.            *)
Frame(base, depth, foff, total) ==
    [base |-> base, depth |-> depth, i |-> 0,
     limit |-> IF depth = 0 THEN max ELSE ((total - foff) \div room[depth]) + 1]

setup_names ==
    /\ pc = "idle"
    /\ \E iterations \in 1 .. MaxFiles :
        LET level == Levels(iterations)
            depth == Depth(level)
        IN  /\ n' = iterations
            /\ ndirs' = Total(level, depth + 1)
            /\ stack' = <<Frame(<<>>, depth, 0, iterations)>>
    /\ pc' = "setup"
    /\ dirs' = <<<<>>>> /\ made' = {<<>>}
    /\ UNCHANGED <<max, test, names, left, files, fails>>

Top == Head(stack)
More == Top.i < max /\ Top.i < Top.limit /\ Len(names) < n
Entry == Append(Top.base, Top.i)
Counted == <<[Top EXCEPT !.i = @ + 1]>> \o Tail(stack)

(* mkdir(): when it fails, what is below is missing.                       *)
MakeDir ==
    /\ pc = "setup" /\ stack # <<>> /\ More /\ Top.depth > 0
    /\ dirs' = Append(dirs, Entry)
    /\ stack' = <<Frame(Entry, Top.depth - 1, Len(names), n)>> \o Counted
    /\ \/ Top.base \in made /\ made' = made \cup {Entry} /\ UNCHANGED fails
       \/ Top.base \notin made /\ UNCHANGED <<made, fails>>
       \/ fails < MaxFails /\ fails' = fails + 1 /\ UNCHANGED made
    /\ UNCHANGED <<max, test, pc, n, ndirs, names, left, files>>

NameFile ==
    /\ pc = "setup" /\ stack # <<>> /\ More /\ Top.depth = 0
    /\ names' = Append(names, Entry)
    /\ stack' = Counted
    /\ UNCHANGED <<max, test, pc, n, ndirs, dirs, left, made, files, fails>>

RecurseReturns ==
    /\ pc = "setup" /\ stack # <<>> /\ ~More
    /\ stack' = Tail(stack)
    /\ UNCHANGED <<max, test, pc, n, ndirs, dirs, names, left, made, files, fails>>

Turn(next, count) ==
    /\ pc' = next /\ left' = count
    /\ UNCHANGED <<max, test, n, ndirs, dirs, names, stack, made, files, fails>>

SetupReturns == pc = "setup" /\ stack = <<>> /\ Turn("mk", n)

(* mkfile(): when creat() fails, nobody notices.                           *)
mkfile(name) ==
    \/ Front(name) \in made /\ files' = files \cup {name} /\ UNCHANGED fails
    \/ Front(name) \notin made /\ UNCHANGED <<files, fails>>
    \/ fails < MaxFails /\ fails' = fails + 1 /\ UNCHANGED files

benchmark_mk ==
    /\ pc = "mk"
    /\ \/ left = 0 /\ Turn("rm", n)
       \/ /\ left > 0
          /\ left' = left - 1
          /\ mkfile(names[left])
          /\ UNCHANGED <<max, test, pc, n, ndirs, dirs, names, stack, made>>

benchmark_rm ==
    /\ pc = "rm"
    /\ \/ left = 0 /\ Turn("names", ndirs)
       \/ /\ left > 0
          /\ left' = left - 1
          /\ files' = files \ {names[left]}
          /\ UNCHANGED <<max, test, pc, n, ndirs, dirs, names, stack, made, fails>>

Empty(dir) == \A entry \in (made \cup files) \ {<<>>} : Front(entry) # dir

(* cleanup_names(): from the last directory to the first; rmdir() refuses  *)
(* one that is not empty.                                                  *)
cleanup_names ==
    /\ pc = "names" /\ left > 0
    /\ left' = left - 1
    /\ made' = IF left <= Len(dirs) /\ Empty(dirs[left]) THEN made \ {dirs[left]} ELSE made
    /\ UNCHANGED <<max, test, pc, n, ndirs, dirs, names, stack, files, fails>>

(* measure(): another interval of the same test, or the next test.         *)
CleanupReturns ==
    /\ pc = "names" /\ left = 0
    /\ pc' = "idle"
    /\ test' \in {test, "rm"}
    /\ n' = 0 /\ ndirs' = 0 /\ dirs' = <<>> /\ names' = <<>>
    /\ UNCHANGED <<max, stack, left, made, files, fails>>

(* SIGTERM: cleanup with 0 iterations returns at once.                     *)
Killed ==
    /\ pc # "dead"
    /\ pc' = "dead"
    /\ UNCHANGED <<max, test, n, ndirs, dirs, names, stack, left, made, files, fails>>

Next == \/ setup_names \/ MakeDir \/ NameFile \/ RecurseReturns \/ SetupReturns
        \/ benchmark_mk \/ benchmark_rm \/ cleanup_names \/ CleanupReturns \/ Killed

Spec == Init /\ [][Next]_vars

-----------------------------------------------------------------------------
TypeOK ==
    /\ test \in {"mk", "rm"}
    /\ pc \in {"idle", "setup", "mk", "rm", "names", "dead"}
    /\ n \in 0 .. MaxFiles /\ left \in 0 .. n + ndirs

(* The arithmetic of setup_names() and the recursion agree: the arrays are *)
(* never overrun, and in the end they are full (the ERROR that             *)
(* setup_names() can print is never printed), with a name for each file    *)
(* in a directory that was listed, and no more than max of them in one.    *)
TreeFits ==
    /\ Len(dirs) <= ndirs /\ Len(names) <= n
    /\ pc \in {"mk", "rm", "names"} =>
        /\ Len(names) = n /\ Len(dirs) = ndirs
        /\ IsInjective(names) /\ IsInjective(dirs)
        /\ \A f \in ToSet(names) : Front(f) \in ToSet(dirs) /\ Last(f) < max

(* After an interval that was not interrupted nothing is left on the disk, *)
(* whatever mkdir() or creat() has failed in between.                      *)
NothingLeft == pc = "idle" => made = {} /\ files = {}
=============================================================================
