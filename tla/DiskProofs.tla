------------------------------ MODULE DiskProofs ------------------------------
(***************************************************************************)
(* The two programs that work on a disk.  lmdd, for every size of the      *)
(* blocks, the input and the area: where blocks are written, and that what *)
(* it prints is what was written.  lat_fs, for any number of files and any *)
(* number of them in a directory: the arrays are as long as the recursion  *)
(* that fills them makes them, and nothing is left behind.                 *)
(***************************************************************************)
EXTENDS Naturals, Integers, WellFoundedInduction, SequenceTheorems,
        FiniteSetTheorems, TLAPS

\* Division and remainder put a number together again.
LEMMA DivMod ==
    ASSUME NEW x \in Nat, NEW n \in Nat \ {0}
    PROVE  /\ x \div n \in Nat /\ x % n \in Nat /\ x % n < n
           /\ (x \div n) * n + (x % n) = x
           /\ (x \div n) * n <= x /\ x < (x \div n) * n + n
OBVIOUS

-----------------------------------------------------------------------------
(* Induction over the natural numbers, from the least element a set of     *)
(* them has, and the functions a loop computes step by step.               *)

\* A set that holds 0 and with every number the next one holds them all.
LEMMA SetInduction ==
  ASSUME NEW T, 0 \in T, \A n \in Nat : n \in T => n + 1 \in T
  PROVE  \A n \in Nat : n \in T
<1> DEFINE U == {n \in Nat : n \notin T}
           R == OpToRel(<, Nat)
<1>1. SUFFICES ASSUME U # {} PROVE FALSE
  OBVIOUS
<1>2. U \subseteq Nat
  OBVIOUS
<1>3. IsWellFoundedOn(R, Nat)
  BY NatLessThanWellFounded
<1> HIDE DEF R, U
<1>4. PICK x \in U : \A y \in U : ~ (<<y, x>> \in R)
  BY <1>1, <1>2, <1>3, WFMin
<1>5. x \in Nat /\ x \notin T
  BY DEF U
<1>6. x # 0
  BY <1>5
<1>7. x - 1 \in Nat /\ x = (x - 1) + 1
  BY <1>5, <1>6
<1>8. x - 1 \notin T
  BY <1>5, <1>7
<1>9. x - 1 \in U
  BY <1>7, <1>8 DEF U
<1>10. <<x - 1, x>> \in R
  BY <1>5, <1>7 DEF R, OpToRel
<1> QED
  BY <1>4, <1>9, <1>10

\* The values g[0], ..., g[n] of a loop that begins with s and makes of the
\* value v before its step m the value F[<<v, m>>].
Iterates(g, F, s, n) == g[0] = s /\ \A m \in 1 .. n : g[m] = F[<<g[m - 1], m>>]

\* A loop has values, and they stay in the set its step stays in.
LEMMA LoopExists ==
  ASSUME NEW S, NEW F \in [S \X Nat -> S], NEW s \in S
  PROVE  \A n \in Nat : \E g \in [0 .. n -> S] : Iterates(g, F, s, n)
<1> DEFINE Good(n) == \E g \in [0 .. n -> S] :
              g[0] = s /\ \A m \in 1 .. n : g[m] = F[<<g[m - 1], m>>]
           T == {n \in Nat : Good(n)}
<1>1. 0 \in T
  <2> DEFINE g == [x \in 0 .. 0 |-> s]
  <2>1. g \in [0 .. 0 -> S] /\ g[0] = s /\ \A m \in 1 .. 0 : g[m] = F[<<g[m - 1], m>>]
    OBVIOUS
  <2> QED BY <2>1
<1>2. ASSUME NEW n \in Nat, n \in T PROVE n + 1 \in T
  <2>1. PICK g \in [0 .. n -> S] :
            g[0] = s /\ \A m \in 1 .. n : g[m] = F[<<g[m - 1], m>>]
    BY <1>2
  <2> DEFINE v == F[<<g[n], n + 1>>]
             h == [x \in 0 .. n + 1 |-> IF x <= n THEN g[x] ELSE v]
  <2>2. v \in S
    BY <2>1
  <2>3. h \in [0 .. n + 1 -> S]
    BY <2>1, <2>2
  <2>4. h[0] = s
    BY <2>1
  <2>5. ASSUME NEW m \in 1 .. n + 1 PROVE h[m] = F[<<h[m - 1], m>>]
    <3>1. CASE m <= n
      BY <3>1, <2>1
    <3>2. CASE m > n
       <4>1. m = n + 1
         BY <3>2
       <4>2. h[m] = v
         BY <4>1
       <4>3. h[m - 1] = g[n]
         BY <4>1
       <4> QED BY <4>1, <4>2, <4>3
    <3> QED BY <3>1, <3>2
  <2> HIDE DEF h
  <2> QED BY <2>3, <2>4, <2>5
<1> HIDE DEF T
<1>3. \A n \in Nat : n \in T
  BY <1>1, <1>2, SetInduction
<1> QED BY <1>3 DEF T, Iterates

\* The places two loops, one in the other, compare.
LEMMA PairPlaces ==
  ASSUME NEW n \in Nat, NEW x \in 1 .. n * n
  PROVE  /\ n # 0
         /\ (x - 1) \div n \in 0 .. n - 1
         /\ (x - 1) % n \in 0 .. n - 1
<1>1. n # 0
  OBVIOUS
<1> DEFINE q == (x - 1) \div n
<1>2. x - 1 \in Nat /\ x - 1 < n * n /\ n * n \in Nat
  OBVIOUS
<1>3. q \in Nat /\ q * n <= x - 1 /\ (x - 1) % n \in Nat /\ (x - 1) % n < n
  BY <1>1, <1>2, DivMod
<1> HIDE DEF q
<1>4. q < n
  <2> SUFFICES ASSUME q >= n PROVE FALSE
    BY <1>3
  <2>1. q * n >= n * n
    BY <1>3
  <2> QED BY <2>1, <1>2, <1>3
<1> QED BY <1>1, <1>3, <1>4 DEF q

-----------------------------------------------------------------------------
(* The tree of lat_fs.                                                     *)
CONSTANTS
    TreeFiles, TreeMaxes, TreeFails

VARIABLES
    f_max, f_test, f_pc, f_n, f_ndirs, f_dirs, f_names, f_stack, f_left,
    f_made, f_files, f_fails

Tree == INSTANCE FileTree WITH
    MaxFiles <- TreeFiles, Maxes <- TreeMaxes, MaxFails <- TreeFails,
    max <- f_max, test <- f_test, pc <- f_pc, n <- f_n, ndirs <- f_ndirs,
    dirs <- f_dirs, names <- f_names, stack <- f_stack, left <- f_left,
    made <- f_made, files <- f_files, fails <- f_fails

\* With -n 1 setup_names() never ends.
TreeSizes == TreeFiles \in Nat /\ TreeMaxes \subseteq Nat \ {0, 1}

\* The directories that hold d entries are enough for them, and one less
\* is not; there are fewer of them than entries.
LEMMA HoldingBounds ==
  ASSUME f_max \in Nat \ {0, 1}, NEW d \in Nat
  PROVE  /\ Tree!Holding(d) \in Nat /\ d <= Tree!Holding(d) * f_max
         /\ d > 0 => Tree!Holding(d) > 0 /\ (Tree!Holding(d) - 1) * f_max < d
         /\ d > 1 => Tree!Holding(d) < d
         /\ d = 1 => Tree!Holding(d) = 1
<1> DEFINE q == d \div f_max
           r == d % f_max
<1>1. /\ q \in Nat /\ r \in Nat /\ r < f_max /\ q * f_max + r = d
  BY DivMod
<1>2. Tree!Holding(d) = IF r # 0 THEN q + 1 ELSE q
  BY <1>1 DEF Tree!Holding
<1> HIDE DEF q, r
<1>3. q * f_max \in Nat /\ (q + 1) * f_max = q * f_max + f_max /\ (q - 1) * f_max = q * f_max - f_max
  BY <1>1
<1>4. CASE r # 0
  <2>1. Tree!Holding(d) = q + 1 /\ (q + 1) - 1 = q
    BY <1>1, <1>2, <1>4
  <2>2. Tree!Holding(d) \in Nat /\ d <= Tree!Holding(d) * f_max /\ Tree!Holding(d) > 0 /\ (Tree!Holding(d) - 1) * f_max < d
    BY ONLY <2>1, <1>1, <1>3, <1>4, f_max \in Nat
  <2>3. ASSUME d > 1 PROVE q + 1 < d
    <3>1. CASE q = 0
      BY <3>1, <2>3
    <3>2. CASE q > 0
      <4>1. q * f_max >= 2 * q
        BY <1>1
      <4> QED BY ONLY <4>1, <3>2, <1>1, <1>3, <1>4, d \in Nat
    <3> QED BY <3>1, <3>2, <1>1
  <2>4. ASSUME d = 1 PROVE q = 0
    <3>1. q > 0 => q * f_max >= 2 * q
      BY <1>1
    <3> QED BY ONLY <3>1, <2>4, <1>1, <1>3, <1>4
  <2> QED BY <2>1, <2>2, <2>3, <2>4
<1>5. CASE r = 0
  <2>1. Tree!Holding(d) = q
    BY <1>2, <1>5
  <2>2. d = q * f_max
    BY ONLY <1>1, <1>3, <1>5, d \in Nat
  <2>3. d > 0 => q > 0
    BY ONLY <1>1, <2>2, d \in Nat, f_max \in Nat
  <2>4. q * f_max >= 2 * q
    BY <1>1
  <2>5. d > 0 => (q - 1) * f_max < d
    BY ONLY <1>3, <2>2, <2>3, f_max \in Nat \ {0, 1}
  <2>6. d > 1 => q < d
    BY ONLY <1>1, <1>3, <2>2, <2>3, <2>4, d \in Nat
  <2>7. d # 1
    BY ONLY <1>1, <1>3, <2>2, <2>3, <2>4, d \in Nat
  <2> QED BY ONLY <1>1, <2>1, <2>2, <2>3, <2>5, <2>6, <2>7, d \in Nat
<1> QED BY <1>4, <1>5

\* There is no other number of directories that is just enough.
LEMMA HoldingUnique ==
  ASSUME f_max \in Nat \ {0, 1}, NEW d \in Nat, NEW c \in Nat, NEW i \in 1 .. f_max,
         c > 0, d = (c - 1) * f_max + i
  PROVE  Tree!Holding(d) = c
<1> DEFINE h == Tree!Holding(d)
<1>1. (c - 1) * f_max \in Nat
  OBVIOUS
<1>2. d > 0
  BY <1>1
<1>3. h \in Nat /\ d <= h * f_max /\ h > 0 /\ (h - 1) * f_max < d
  BY <1>2, HoldingBounds
<1> HIDE DEF h
<1>4. ~ h < c
  <2> SUFFICES ASSUME h < c PROVE FALSE
    OBVIOUS
  <2>1. h <= c - 1
    BY <1>3
  <2>2. h * f_max <= (c - 1) * f_max
    BY <1>3, <2>1
  <2>3. h * f_max \in Nat
    BY <1>3
  <2> QED BY ONLY <2>2, <2>3, <1>1, <1>3, d = (c - 1) * f_max + i, i \in 1 .. f_max, f_max \in Nat
<1>5. ~ c < h
  <2> SUFFICES ASSUME c < h PROVE FALSE
    OBVIOUS
  <2>1. c <= h - 1 /\ h - 1 \in Nat
    BY <1>3
  <2>2. c * f_max <= (h - 1) * f_max
    BY <2>1
  <2>3. c * f_max = (c - 1) * f_max + f_max /\ (h - 1) * f_max \in Nat
    BY <2>1
  <2> QED BY ONLY <2>2, <2>3, <1>1, <1>3, d = (c - 1) * f_max + i, i \in 1 .. f_max, f_max \in Nat
<1> QED BY <1>3, <1>4, <1>5 DEF h

\* The loop that counts the levels.
LEMMA LevelsSteps ==
  ASSUME TreeFiles \in Nat, f_max \in Nat \ {0, 1}, NEW count \in Nat
  PROVE  /\ Tree!Levels(count) \in [0 .. TreeFiles -> Nat] /\ Tree!Levels(count)[0] = count
         /\ \A k \in 1 .. TreeFiles : Tree!Levels(count)[k] = Tree!Holding(Tree!Levels(count)[k - 1])
<1> DEFINE F == [c \in Nat \X Nat |-> Tree!Holding(c[1])]
           Def(f) == [k \in 0 .. TreeFiles |-> IF k = 0 THEN count ELSE Tree!Holding(f[k - 1])]
           level == CHOOSE f : f = Def(f)
<1>1. F \in [Nat \X Nat -> Nat]
  BY HoldingBounds
<1> HIDE DEF F
<1>2. PICK g \in [0 .. TreeFiles -> Nat] :
         g[0] = count /\ \A m \in 1 .. TreeFiles : g[m] = F[<<g[m - 1], m>>]
  <2>1. \A m \in Nat : \E g \in [0 .. m -> Nat] : Iterates(g, F, count, m)
    BY ONLY <1>1, count \in Nat, LoopExists, Zenon
  <2> QED BY ONLY <2>1, TreeFiles \in Nat, Zenon DEF Iterates
<1>3. ASSUME NEW m \in 1 .. TreeFiles PROVE g[m] = Tree!Holding(g[m - 1])
  <2>1. g[m - 1] \in Nat
    OBVIOUS
  <2>2. F[<<g[m - 1], m>>] = Tree!Holding(g[m - 1])
    BY <2>1 DEF F
  <2> QED BY <2>2, <1>2
<1>4. g = Def(g)
  <2>1. g = [k \in 0 .. TreeFiles |-> g[k]]
    OBVIOUS
  <2>2. ASSUME NEW k \in 0 .. TreeFiles PROVE g[k] = IF k = 0 THEN count ELSE Tree!Holding(g[k - 1])
    BY <1>2, <1>3
  <2> QED BY <2>1, <2>2, Zenon
<1>5. level = Def(level)
  <2> HIDE DEF Def
  <2> QED BY <1>4
<1>6. Tree!Levels(count) = level
  BY Zenon DEF Tree!Levels
<1> HIDE DEF level
<1>7. ASSUME NEW k \in 0 .. TreeFiles PROVE level[k] = IF k = 0 THEN count ELSE Tree!Holding(level[k - 1])
  BY <1>5, Zenon
<1>8. level[0] = count /\ \A k \in 1 .. TreeFiles : level[k] = Tree!Holding(level[k - 1])
  <2>1. 0 \in 0 .. TreeFiles /\ \A k \in 1 .. TreeFiles : k \in 0 .. TreeFiles /\ k # 0
    OBVIOUS
  <2> QED BY ONLY <1>7, <2>1, Zenon
<1>9. level \in [0 .. TreeFiles -> Nat]
  <2>1. DOMAIN Def(level) = 0 .. TreeFiles /\ Def(level) = [k \in 0 .. TreeFiles |-> Def(level)[k]]
    BY ONLY Zenon
  <2>2. level = [k \in 0 .. TreeFiles |-> level[k]]
    <3> HIDE DEF Def
    <3> QED BY ONLY <1>5, <2>1
  <2> DEFINE T == {k \in Nat : k \in 0 .. TreeFiles => level[k] \in Nat}
  <2>3. 0 \in T
    BY <1>8
  <2>4. ASSUME NEW k \in Nat, k \in T PROVE k + 1 \in T
    <3> SUFFICES ASSUME k + 1 \in 0 .. TreeFiles PROVE level[k + 1] \in Nat
      OBVIOUS
    <3>1. k + 1 \in 1 .. TreeFiles /\ (k + 1) - 1 = k /\ k \in 0 .. TreeFiles
      OBVIOUS
    <3>2. level[k] \in Nat /\ level[k + 1] = Tree!Holding(level[k])
      BY <2>4, <3>1, <1>8
    <3> QED BY <3>2, HoldingBounds
  <2> HIDE DEF T
  <2>5. \A k \in Nat : k \in T
    BY <2>3, <2>4, SetInduction
  <2>6. \A k \in 0 .. TreeFiles : level[k] \in Nat
    BY <2>5 DEF T
  <2> QED BY ONLY <2>2, <2>6
<1> QED BY <1>6, <1>8, <1>9

\* Of the numbers in a set there is a least one.
LEMMA LeastNumber ==
  ASSUME NEW S, S \subseteq Nat, S # {}
  PROVE  \E z \in S : \A y \in S : z <= y
<1> DEFINE R == OpToRel(<, Nat)
<1>1. IsWellFoundedOn(R, Nat)
  BY NatLessThanWellFounded
<1>2. PICK x \in S : \A y \in S : ~ (<<y, x>> \in R)
  <2> HIDE DEF R
  <2> QED BY <1>1, WFMin
<1>3. ASSUME NEW y \in S PROVE x <= y
  <2> SUFFICES ASSUME y < x PROVE FALSE
    OBVIOUS
  <2>1. <<y, x>> \in R
    BY DEF OpToRel
  <2> QED BY <2>1, <1>2
<1> QED BY <1>3

LevelsEnd(L, D, count) ==
    /\ D \in 0 .. TreeFiles - 1 /\ L[D + 1] = 1
    /\ L \in [0 .. TreeFiles -> Nat \ {0}] /\ L[0] = count
    /\ \A k \in 1 .. TreeFiles : L[k] = Tree!Holding(L[k - 1])

\* Every level is smaller than the one it holds, until there is only one
\* directory: so the loop ends, and all levels before have more than one.
LEMMA DepthFound ==
  ASSUME TreeFiles \in Nat, f_max \in Nat \ {0, 1}, NEW count \in 1 .. TreeFiles
  PROVE  LevelsEnd(Tree!Levels(count), Tree!Depth(Tree!Levels(count)), count)
<1> DEFINE L == Tree!Levels(count)
           D == Tree!Depth(L)
<1>l. L = Tree!Levels(count)
  OBVIOUS
<1>d. D = Tree!Depth(L)
  OBVIOUS
<1> HIDE DEF L, D
<1>1. /\ L \in [0 .. TreeFiles -> Nat] /\ L[0] = count /\ count \in Nat
      /\ \A k \in 1 .. TreeFiles : L[k] = Tree!Holding(L[k - 1])
  <2>1. count \in Nat
    OBVIOUS
  <2> QED BY ONLY <2>1, LevelsSteps, <1>l, TreeFiles \in Nat, f_max \in Nat \ {0, 1}
<1> DEFINE T == {k \in Nat : k \in 0 .. TreeFiles => L[k] > 0 /\ (L[k] = 1 \/ L[k] + k <= count)}
<1>2. 0 \in T
  BY <1>1
<1>3. ASSUME NEW k \in Nat, k \in T PROVE k + 1 \in T
  <2> SUFFICES ASSUME k + 1 \in 0 .. TreeFiles
               PROVE  L[k + 1] > 0 /\ (L[k + 1] = 1 \/ L[k + 1] + (k + 1) <= count)
    OBVIOUS
  <2>1. k + 1 \in 1 .. TreeFiles /\ (k + 1) - 1 = k /\ k \in 0 .. TreeFiles
    OBVIOUS
  <2>2. L[k] \in Nat /\ L[k] > 0 /\ (L[k] = 1 \/ L[k] + k <= count)
    BY <1>1, <1>3, <2>1
  <2>3. L[k + 1] = Tree!Holding(L[k])
    BY <1>1, <2>1
  <2>4. L[k + 1] \in Nat /\ L[k + 1] > 0 /\ (L[k] > 1 => L[k + 1] < L[k]) /\ (L[k] = 1 => L[k + 1] = 1)
    BY <2>2, <2>3, HoldingBounds
  <2> QED BY ONLY <2>2, <2>4, k \in Nat, count \in Nat
<1> HIDE DEF T
<1>4. \A k \in Nat : k \in T
  BY <1>2, <1>3, SetInduction
<1>5. \A k \in 0 .. TreeFiles : L[k] > 0 /\ (L[k] = 1 \/ L[k] + k <= count)
  BY <1>4 DEF T
<1>6. L \in [0 .. TreeFiles -> Nat \ {0}]
  <2>1. L = [k \in 0 .. TreeFiles |-> L[k]] /\ \A k \in 0 .. TreeFiles : L[k] \in Nat
    BY <1>1
  <2>2. \A k \in 0 .. TreeFiles : L[k] \in Nat \ {0}
    BY <2>1, <1>5
  <2> QED BY ONLY <2>1, <2>2
<1>7. L[TreeFiles] = 1
  <2>1. TreeFiles \in 0 .. TreeFiles /\ TreeFiles >= count
    OBVIOUS
  <2>2. L[TreeFiles] \in Nat \ {0}
    BY <1>6, <2>1
  <2>3. L[TreeFiles] = 1 \/ L[TreeFiles] + TreeFiles <= count
    BY <1>5, <2>1
  <2> QED BY <2>1, <2>2, <2>3
<1> DEFINE S == {d \in 0 .. TreeFiles - 1 : L[d + 1] <= 1}
<1>8. PICK z \in S : \A y \in S : z <= y
  <2>1. S \subseteq Nat
    OBVIOUS
  <2>2. TreeFiles - 1 \in S
    BY <1>7
  <2> HIDE DEF S
  <2> QED BY <2>1, <2>2, LeastNumber
<1>9. \A e \in 1 .. z : L[e] > 1
  <2> SUFFICES ASSUME NEW e \in 1 .. z PROVE L[e] > 1
    OBVIOUS
  <2>1. e - 1 \in 0 .. TreeFiles - 1 /\ e - 1 < z /\ (e - 1) + 1 = e /\ e \in 0 .. TreeFiles
    OBVIOUS
  <2>2. ~ L[e] <= 1
    BY <1>8, <2>1
  <2>3. L[e] \in Nat
    BY <1>1, <2>1
  <2> QED BY <2>2, <2>3
<1>10. D \in 0 .. TreeFiles - 1 /\ L[D + 1] <= 1
  <2>1. \E d \in 0 .. TreeFiles - 1 : L[d + 1] <= 1 /\ \A e \in 1 .. d : L[e] > 1
    BY <1>8, <1>9
  <2> QED BY <2>1, <1>d, Zenon DEF Tree!Depth
<1>11. D + 1 \in 0 .. TreeFiles
  BY <1>10
<1>12. L[D + 1] \in Nat \ {0}
  BY <1>6, <1>11
<1>13. L[D + 1] = 1
  BY ONLY <1>10, <1>12
<1>14. LevelsEnd(L, D, count)
  BY ONLY <1>1, <1>6, <1>10, <1>13 DEF LevelsEnd
<1> QED BY <1>14 DEF L, D

\* setup_names_recurse(): the files an entry holds.
LEMMA RoomSteps ==
  ASSUME TreeFiles \in Nat, f_max \in Nat \ {0, 1}
  PROVE  /\ \A k \in 0 .. TreeFiles : Tree!room[k] \in Nat \ {0}
         /\ Tree!room[0] = 1
         /\ \A k \in 1 .. TreeFiles : Tree!room[k] = Tree!room[k - 1] * f_max
<1> DEFINE S == Nat \ {0}
           F == [c \in S \X Nat |-> c[1] * f_max]
           Def(f) == [k \in 0 .. TreeFiles |-> IF k = 0 THEN 1 ELSE f[k - 1] * f_max]
<1>1. F \in [S \X Nat -> S] /\ 1 \in S
  <2>1. ASSUME NEW c \in S \X Nat PROVE c[1] * f_max \in S
    <3>1. c[1] \in Nat \ {0}
      OBVIOUS
    <3> QED BY <3>1
  <2> QED BY <2>1
<1> HIDE DEF F, S
<1>2. PICK g \in [0 .. TreeFiles -> S] :
         g[0] = 1 /\ \A m \in 1 .. TreeFiles : g[m] = F[<<g[m - 1], m>>]
  <2>1. \A m \in Nat : \E g \in [0 .. m -> S] : Iterates(g, F, 1, m)
    BY ONLY <1>1, LoopExists, Zenon
  <2> QED BY ONLY <2>1, TreeFiles \in Nat, Zenon DEF Iterates
<1>3. ASSUME NEW m \in 1 .. TreeFiles PROVE g[m] = g[m - 1] * f_max
  <2>1. g[m - 1] \in S
    OBVIOUS
  <2>2. F[<<g[m - 1], m>>] = g[m - 1] * f_max
    BY <2>1 DEF F
  <2> QED BY <2>2, <1>2
<1>4. g = Def(g)
  <2>1. g = [k \in 0 .. TreeFiles |-> g[k]]
    OBVIOUS
  <2>2. ASSUME NEW k \in 0 .. TreeFiles PROVE g[k] = IF k = 0 THEN 1 ELSE g[k - 1] * f_max
    BY <1>2, <1>3
  <2> QED BY <2>1, <2>2, Zenon
<1>5. Tree!room = Def(Tree!room)
  <2>1. Tree!room = CHOOSE f : f = Def(f)
    BY Zenon DEF Tree!room
  <2> HIDE DEF Def
  <2> QED BY <1>4, <2>1
<1>6. ASSUME NEW k \in 0 .. TreeFiles PROVE Tree!room[k] = IF k = 0 THEN 1 ELSE Tree!room[k - 1] * f_max
  BY <1>5, Zenon
<1>7. Tree!room[0] = 1 /\ \A k \in 1 .. TreeFiles : Tree!room[k] = Tree!room[k - 1] * f_max
  <2>1. 0 \in 0 .. TreeFiles /\ \A k \in 1 .. TreeFiles : k \in 0 .. TreeFiles /\ k # 0
    OBVIOUS
  <2> QED BY ONLY <1>6, <2>1, Zenon
<1> DEFINE T == {k \in Nat : k \in 0 .. TreeFiles => Tree!room[k] \in Nat \ {0}}
<1>8. 0 \in T
  BY <1>7
<1>9. ASSUME NEW k \in Nat, k \in T PROVE k + 1 \in T
  <2> SUFFICES ASSUME k + 1 \in 0 .. TreeFiles PROVE Tree!room[k + 1] \in Nat \ {0}
    OBVIOUS
  <2>1. k + 1 \in 1 .. TreeFiles /\ (k + 1) - 1 = k /\ k \in 0 .. TreeFiles
    OBVIOUS
  <2>2. Tree!room[k] \in Nat \ {0} /\ Tree!room[k + 1] = Tree!room[k] * f_max
    BY <1>9, <2>1, <1>7
  <2> QED BY ONLY <2>2, f_max \in Nat \ {0, 1}
<1> HIDE DEF T
<1>10. \A k \in Nat : k \in T
  BY <1>8, <1>9, SetInduction
<1> QED BY <1>7, <1>10 DEF T

\* The sum over the levels, step by step.
LEMMA TotalSteps ==
  ASSUME NEW K \in Nat, NEW c, \A k \in 1 .. K : c[k] \in Nat
  PROVE  \E f : /\ f[0] = 0 /\ \A j \in 0 .. K : f[j] \in Nat
                /\ \A j \in 1 .. K : f[j] = f[j - 1] + c[j]
                /\ Tree!Total(c, K) = f[K]
<1> DEFINE Step(q, x) == IF x \in 1 .. K THEN q + c[x] ELSE q
           F == [p \in Nat \X Nat |-> Step(p[1], p[2])]
           Def(f) == [j \in 0 .. K |-> IF j = 0 THEN 0 ELSE f[j - 1] + c[j]]
           sum == CHOOSE f : f = Def(f)
<1>1. F \in [Nat \X Nat -> Nat]
  <2>1. ASSUME NEW q \in Nat, NEW x \in Nat PROVE Step(q, x) \in Nat
    OBVIOUS
  <2> HIDE DEF Step
  <2> QED BY <2>1
<1>e. Tree!Total(c, K) = sum[K]
  BY Zenon DEF Tree!Total
<1> HIDE DEF F
<1>2. PICK g \in [0 .. K -> Nat] : g[0] = 0 /\ \A m \in 1 .. K : g[m] = F[<<g[m - 1], m>>]
  <2>0. 0 \in Nat
    OBVIOUS
  <2>1. \A k \in Nat : \E g \in [0 .. k -> Nat] : Iterates(g, F, 0, k)
    BY ONLY <1>1, <2>0, LoopExists, Zenon
  <2> QED BY ONLY <2>1, K \in Nat, Zenon DEF Iterates
<1>3. ASSUME NEW m \in 1 .. K PROVE g[m] = g[m - 1] + c[m]
  <2>1. g[m - 1] \in Nat /\ m \in Nat
    OBVIOUS
  <2>2. F[<<g[m - 1], m>>] = g[m - 1] + c[m]
    BY <2>1 DEF F
  <2> QED BY <2>2, <1>2
<1>4. g = Def(g)
  <2>1. g = [j \in 0 .. K |-> g[j]]
    OBVIOUS
  <2>2. ASSUME NEW j \in 0 .. K PROVE g[j] = IF j = 0 THEN 0 ELSE g[j - 1] + c[j]
    BY <1>2, <1>3
  <2> QED BY <2>1, <2>2, Zenon
<1>5. sum = Def(sum)
  <2> HIDE DEF Def
  <2> QED BY <1>4
<1> HIDE DEF sum
<1>6. sum[0] = 0 /\ \A j \in 1 .. K : sum[j] = sum[j - 1] + c[j]
  <2>1. ASSUME NEW j \in 0 .. K PROVE sum[j] = IF j = 0 THEN 0 ELSE sum[j - 1] + c[j]
    BY <1>5, Zenon
  <2>2. 0 \in 0 .. K /\ \A j \in 1 .. K : j \in 0 .. K /\ j # 0
    OBVIOUS
  <2> QED BY ONLY <2>1, <2>2, Zenon
<1> DEFINE T == {j \in Nat : j \in 0 .. K => sum[j] \in Nat}
<1>7. 0 \in T
  BY <1>6
<1>8. ASSUME NEW j \in Nat, j \in T PROVE j + 1 \in T
  <2> SUFFICES ASSUME j + 1 \in 0 .. K PROVE sum[j + 1] \in Nat
    OBVIOUS
  <2>1. j + 1 \in 1 .. K /\ (j + 1) - 1 = j /\ j \in 0 .. K
    OBVIOUS
  <2>2. sum[j] \in Nat /\ c[j + 1] \in Nat
    BY <1>8, <2>1
  <2>3. sum[j + 1] = sum[j] + c[j + 1]
    BY ONLY <1>6, <2>1, Zenon
  <2> QED BY ONLY <2>2, <2>3
<1> HIDE DEF T
<1>9. \A j \in Nat : j \in T
  BY <1>7, <1>8, SetInduction
<1>10. \A j \in 0 .. K : sum[j] \in Nat
  BY <1>9 DEF T
<1> QED BY <1>6, <1>10, <1>e, Zenon

\* More entries, a larger sum.
LEMMA TotalGrows ==
  ASSUME NEW K \in Nat, NEW c, \A k \in 1 .. K : c[k] \in Nat,
         NEW d, \A k \in 1 .. K : d[k] \in Nat, \A k \in 1 .. K : c[k] <= d[k]
  PROVE  /\ Tree!Total(c, K) \in Nat /\ Tree!Total(d, K) \in Nat /\ Tree!Total(c, K) <= Tree!Total(d, K)
         /\ (\A k \in 1 .. K : c[k] = d[k]) => Tree!Total(c, K) = Tree!Total(d, K)
<1>1. PICK f : /\ f[0] = 0 /\ \A j \in 0 .. K : f[j] \in Nat
               /\ \A j \in 1 .. K : f[j] = f[j - 1] + c[j]
               /\ Tree!Total(c, K) = f[K]
  BY ONLY TotalSteps, K \in Nat, \A k \in 1 .. K : c[k] \in Nat
<1>2. PICK g : /\ g[0] = 0 /\ \A j \in 0 .. K : g[j] \in Nat
               /\ \A j \in 1 .. K : g[j] = g[j - 1] + d[j]
               /\ Tree!Total(d, K) = g[K]
  BY ONLY TotalSteps, K \in Nat, \A k \in 1 .. K : d[k] \in Nat
<1> DEFINE Same == \A k \in 1 .. K : c[k] = d[k]
           T == {j \in Nat : j \in 0 .. K => f[j] <= g[j] /\ (Same => f[j] = g[j])}
<1>3. 0 \in T
  BY <1>1, <1>2
<1>4. ASSUME NEW j \in Nat, j \in T PROVE j + 1 \in T
  <2> SUFFICES ASSUME j + 1 \in 0 .. K PROVE f[j + 1] <= g[j + 1] /\ (Same => f[j + 1] = g[j + 1])
    OBVIOUS
  <2>1. j + 1 \in 1 .. K /\ (j + 1) - 1 = j /\ j \in 0 .. K
    OBVIOUS
  <2>2. f[j] <= g[j] /\ f[j] \in Nat /\ g[j] \in Nat /\ (Same => f[j] = g[j])
    BY <1>1, <1>2, <1>4, <2>1
  <2>3. f[j + 1] = f[j] + c[j + 1] /\ g[j + 1] = g[j] + d[j + 1]
    BY ONLY <1>1, <1>2, <2>1, Zenon
  <2>4. c[j + 1] \in Nat /\ d[j + 1] \in Nat /\ c[j + 1] <= d[j + 1] /\ (Same => c[j + 1] = d[j + 1])
    BY <2>1
  <2> QED BY ONLY <2>2, <2>3, <2>4
<1> HIDE DEF T
<1>5. \A j \in Nat : j \in T
  BY <1>3, <1>4, SetInduction
<1>6. K \in 0 .. K
  OBVIOUS
<1> QED BY <1>1, <1>2, <1>5, <1>6 DEF T

\* One entry more at one level.
LEMMA TotalBump ==
  ASSUME NEW K \in Nat, NEW c, \A k \in 1 .. K : c[k] \in Nat,
         NEW d, NEW t \in 1 .. K, d[t] = c[t] + 1, \A k \in 1 .. K : k # t => d[k] = c[k]
  PROVE  Tree!Total(d, K) = Tree!Total(c, K) + 1 /\ Tree!Total(c, K) \in Nat
<1>0. \A k \in 1 .. K : d[k] \in Nat
  OBVIOUS
<1>1. PICK f : /\ f[0] = 0 /\ \A j \in 0 .. K : f[j] \in Nat
               /\ \A j \in 1 .. K : f[j] = f[j - 1] + c[j]
               /\ Tree!Total(c, K) = f[K]
  BY ONLY TotalSteps, K \in Nat, \A k \in 1 .. K : c[k] \in Nat
<1>2. PICK g : /\ g[0] = 0 /\ \A j \in 0 .. K : g[j] \in Nat
               /\ \A j \in 1 .. K : g[j] = g[j - 1] + d[j]
               /\ Tree!Total(d, K) = g[K]
  BY ONLY TotalSteps, K \in Nat, <1>0
<1> DEFINE T == {j \in Nat : j \in 0 .. K => g[j] = f[j] + (IF j < t THEN 0 ELSE 1)}
<1>3. 0 \in T
  BY <1>1, <1>2
<1>4. ASSUME NEW j \in Nat, j \in T PROVE j + 1 \in T
  <2> SUFFICES ASSUME j + 1 \in 0 .. K PROVE g[j + 1] = f[j + 1] + (IF j + 1 < t THEN 0 ELSE 1)
    OBVIOUS
  <2>1. j + 1 \in 1 .. K /\ (j + 1) - 1 = j /\ j \in 0 .. K
    OBVIOUS
  <2>2. f[j] \in Nat /\ g[j] = f[j] + (IF j < t THEN 0 ELSE 1)
    BY <1>1, <1>4, <2>1
  <2>3. f[j + 1] = f[j] + c[j + 1] /\ g[j + 1] = g[j] + d[j + 1]
    BY ONLY <1>1, <1>2, <2>1, Zenon
  <2>4. c[j + 1] \in Nat /\ d[j + 1] = c[j + 1] + (IF j + 1 = t THEN 1 ELSE 0)
    BY <2>1
  <2> QED BY ONLY <2>2, <2>3, <2>4, j \in Nat, t \in Nat
<1> HIDE DEF T
<1>5. \A j \in Nat : j \in T
  BY <1>3, <1>4, SetInduction
<1>6. K \in 0 .. K /\ ~ K < t
  OBVIOUS
<1> QED BY <1>1, <1>2, <1>5, <1>6 DEF T

\* One directory in all.
LEMMA TotalOne ==
  ASSUME NEW K \in Nat \ {0}, NEW c, c[K] = 1, \A k \in 1 .. K - 1 : c[k] = 0
  PROVE  Tree!Total(c, K) = 1
<1>1. PICK f : /\ f[0] = 0 /\ \A j \in 0 .. K : f[j] \in Nat
               /\ \A j \in 1 .. K : f[j] = f[j - 1] + c[j]
               /\ Tree!Total(c, K) = f[K]
  <2>1. K \in Nat /\ \A k \in 1 .. K : c[k] \in Nat
    OBVIOUS
  <2> QED BY ONLY TotalSteps, <2>1
<1> DEFINE T == {j \in Nat : j \in 0 .. K - 1 => f[j] = 0}
<1>2. 0 \in T
  BY <1>1
<1>3. ASSUME NEW j \in Nat, j \in T PROVE j + 1 \in T
  <2> SUFFICES ASSUME j + 1 \in 0 .. K - 1 PROVE f[j + 1] = 0
    OBVIOUS
  <2>1. j + 1 \in 1 .. K /\ (j + 1) - 1 = j /\ j \in 0 .. K - 1 /\ c[j + 1] = 0
    OBVIOUS
  <2>2. f[j] = 0
    BY <1>3, <2>1
  <2>3. f[j + 1] = f[j] + c[j + 1]
    BY ONLY <1>1, <2>1, Zenon
  <2> QED BY ONLY <2>1, <2>2, <2>3
<1> HIDE DEF T
<1>4. \A j \in Nat : j \in T
  BY <1>2, <1>3, SetInduction
<1>5. f[K - 1] = 0 /\ f[K] = f[K - 1] + c[K]
  BY <1>1, <1>4 DEF T
<1> QED BY <1>1, <1>5

-----------------------------------------------------------------------------
(* The levels that setup_names() computes and the recursion that fills     *)
(* them.  Levels L, the last one D + 1, with the files R[k] that an entry  *)
(* of level k holds when at most B are in a directory.                     *)
Shape(L, D, R, B) ==
    /\ B \in Nat \ {0, 1} /\ D \in Nat
    /\ \A k \in 0 .. D + 1 : L[k] \in Nat \ {0} /\ R[k] \in Nat \ {0}
    /\ L[D + 1] = 1 /\ R[0] = 1
    /\ \A k \in 0 .. D : L[k] <= L[k + 1] * B /\ R[k + 1] = R[k] * B
    /\ \A k \in 0 .. D, c \in Nat \ {0}, i \in 1 .. B :
          L[k] = (c - 1) * B + i => L[k + 1] = c

\* c[k] entries of level k have been made, F files and N directories.
LevelCounts(c, L, D, F, N) ==
    /\ c \in [0 .. D + 1 -> Nat]
    /\ c[0] = F /\ c[D + 1] = 1
    /\ N = Tree!Total(c, D + 1)
    /\ \A k \in 0 .. D + 1 : c[k] <= L[k]
    /\ F = L[0] => \A k \in 0 .. D + 1 : c[k] = L[k]

\* Calls are open at the depths from D + 1 - Len(s) on: the directory of
\* each is the last of its level, and those before are full.  The levels
\* below are full.
Filling(c, L, D, R, B, F, s) ==
    F < L[0] =>
        /\ Len(s) > 0
        /\ \A k \in 0 .. D + 1 - Len(s) : c[k] < L[k] /\ F = c[k] * R[k]
        /\ \A k \in 0 .. D - Len(s) : c[k] = c[k + 1] * B
        /\ \A x \in 1 .. Len(s) :
             LET k == D - Len(s) + x IN
             /\ c[k] = (c[k + 1] - 1) * B + s[x].i
             /\ k > 0 => s[x].limit = ((L[0] - (c[k + 1] - 1) * R[k + 1]) \div R[k]) + 1

\* Products of positive numbers.
LEMMA Products ==
  ASSUME NEW a \in Int, NEW m \in Nat, NEW r \in Nat, NEW i \in Nat
  PROVE  /\ a * m \in Int /\ (a * m) * r \in Int /\ i * r \in Nat
         /\ a * (r * m) = (a * m) * r
         /\ (a * m + i) * r = (a * m) * r + i * r
OBVIOUS

\* A product with a factor less by one.
LEMMA OneLess ==
  ASSUME NEW a \in Nat, NEW m \in Nat
  PROVE  (a - 1) * m = a * m - m /\ a * m \in Nat
OBVIOUS

\* mkdir() of the next directory, and the call that fills it.
LEMMA CountDir ==
  ASSUME NEW L, NEW D, NEW R, NEW B, Shape(L, D, R, B),
         NEW c, NEW F \in Nat, NEW N \in Nat, NEW s, Len(s) \in 1 .. D, F < L[0],
         LevelCounts(c, L, D, F, N), Filling(c, L, D, R, B, F, s),
         NEW u, Len(u) = Len(s) + 1, u[1].i = 0,
         Len(s) < D => u[1].limit = ((L[0] - F) \div R[D - Len(s)]) + 1,
         u[2].i = s[1].i + 1, u[2].limit = s[1].limit, s[1].i \in Nat,
         \A x \in 3 .. Len(u) : u[x] = s[x - 1]
  PROVE  \E d : LevelCounts(d, L, D, F, N + 1) /\ Filling(d, L, D, R, B, F, u)
<1> DEFINE t == D + 1 - Len(s)
           d == [c EXCEPT ![t] = @ + 1]
<1>1. D \in Nat /\ Len(s) \in Nat /\ Len(s) >= 1 /\ Len(s) <= D /\ t \in Nat /\ t \in 1 .. D
  BY DEF Shape
<1>2. /\ c \in [0 .. D + 1 -> Nat] /\ c[0] = F /\ c[D + 1] = 1 /\ N = Tree!Total(c, D + 1)
      /\ \A k \in 0 .. D + 1 : c[k] <= L[k] /\ c[k] \in Nat
  BY DEF LevelCounts
<1>3. /\ \A k \in 0 .. t : c[k] < L[k] /\ F = c[k] * R[k]
      /\ \A k \in 0 .. t - 1 : c[k] = c[k + 1] * B
      /\ \A x \in 1 .. Len(s) :
             /\ c[t - 1 + x] = (c[t + x] - 1) * B + s[x].i
             /\ t - 1 + x > 0 =>
                  s[x].limit = ((L[0] - (c[t + x] - 1) * R[t + x]) \div R[t - 1 + x]) + 1
  <2>1. D - Len(s) = t - 1 /\ \A x \in 1 .. Len(s) : D - Len(s) + x = t - 1 + x /\ (t - 1 + x) + 1 = t + x
    BY ONLY <1>1
  <2> HIDE DEF t
  <2>2. t = D + 1 - Len(s)
    BY DEF t
  <2>3. /\ \A k \in 0 .. D + 1 - Len(s) : c[k] < L[k] /\ F = c[k] * R[k]
        /\ \A k \in 0 .. D - Len(s) : c[k] = c[k + 1] * B
        /\ \A x \in 1 .. Len(s) :
             /\ c[D - Len(s) + x] = (c[(D - Len(s) + x) + 1] - 1) * B + s[x].i
             /\ D - Len(s) + x > 0 =>
                  s[x].limit = ((L[0] - (c[(D - Len(s) + x) + 1] - 1) * R[(D - Len(s) + x) + 1])
                                \div R[D - Len(s) + x]) + 1
    BY ONLY Filling(c, L, D, R, B, F, s), F < L[0], Zenon DEF Filling
  <2>4. ASSUME NEW x \in 1 .. Len(s)
        PROVE  /\ c[t - 1 + x] = (c[t + x] - 1) * B + s[x].i
               /\ t - 1 + x > 0 =>
                    s[x].limit = ((L[0] - (c[t + x] - 1) * R[t + x]) \div R[t - 1 + x]) + 1
    <3>1. D - Len(s) + x = t - 1 + x /\ (D - Len(s) + x) + 1 = t + x
      <4>1. (t - 1 + x) + 1 = t + x
        BY ONLY <2>1
      <4> QED BY ONLY <2>1, <4>1
    <3> QED BY ONLY <2>3, <3>1, Zenon
  <2>5. /\ \A k \in 0 .. t : c[k] < L[k] /\ F = c[k] * R[k]
        /\ \A k \in 0 .. t - 1 : c[k] = c[k + 1] * B
    BY ONLY <2>1, <2>2, <2>3, Zenon
  <2> QED BY ONLY <2>4, <2>5, Zenon
<1>t. t = D + 1 - Len(s)
  OBVIOUS
<1> HIDE DEF t
<1>4. /\ d \in [0 .. D + 1 -> Nat] /\ d[t] = c[t] + 1
      /\ \A k \in 0 .. D + 1 : k # t => d[k] = c[k]
  <2>1. t \in 0 .. D + 1
    BY <1>1
  <2> QED BY ONLY <2>1, <1>2
<1> HIDE DEF d
<1>5. /\ \A k \in 0 .. D + 1 : L[k] \in Nat /\ R[k] \in Nat
      /\ B \in Nat /\ \A k \in 0 .. D : R[k + 1] = R[k] * B
  BY DEF Shape
<1>6. LevelCounts(d, L, D, F, N + 1)
  <2>1. d[0] = F /\ d[D + 1] = 1
    <3>1. 0 \in 0 .. D + 1 /\ 0 # t /\ D + 1 \in 0 .. D + 1 /\ D + 1 # t
      BY ONLY <1>1
    <3> QED BY ONLY <3>1, <1>2, <1>4
  <2>2. Tree!Total(d, D + 1) = N + 1
    <3>1. D + 1 \in Nat /\ t \in 1 .. D + 1
      BY <1>1
    <3>2. \A k \in 1 .. D + 1 : c[k] \in Nat /\ (k # t => d[k] = c[k])
      BY <1>2, <1>4
    <3>3. Tree!Total(d, D + 1) = Tree!Total(c, D + 1) + 1
      BY ONLY <3>1, <3>2, <1>4, TotalBump
    <3> QED BY <3>3, <1>2
  <2>3. ASSUME NEW k \in 0 .. D + 1 PROVE d[k] <= L[k]
    <3>1. CASE k = t
      <4>1. c[t] < L[t] /\ L[t] \in Nat /\ c[t] \in Nat
        <5>1. t \in 0 .. t /\ t \in 0 .. D + 1
          BY <1>1
        <5> QED BY ONLY <5>1, <1>2, <1>3, <1>5
      <4> QED BY ONLY <4>1, <3>1, <1>4
    <3>2. CASE k # t
      BY <3>2, <1>4, <1>2
    <3> QED BY <3>1, <3>2
  <2> QED BY <2>1, <2>2, <2>3, <1>4, <1>5 DEF LevelCounts
<1>7. Filling(d, L, D, R, B, F, u)
  <2>1. D + 1 - Len(u) = t - 1 /\ D - Len(u) = t - 2
    BY <1>1, <1>t
  <2>2. ASSUME NEW k \in 0 .. t - 1 PROVE d[k] < L[k] /\ F = d[k] * R[k]
    <3>1. k \in 0 .. t /\ k \in 0 .. D + 1 /\ k # t
      BY <1>1
    <3> QED BY <3>1, <1>3, <1>4
  <2>3. ASSUME NEW k \in 0 .. t - 2 PROVE d[k] = d[k + 1] * B
    <3>1. /\ k \in 0 .. t - 1 /\ k \in 0 .. D + 1 /\ k # t
          /\ k + 1 \in 0 .. D + 1 /\ k + 1 # t
      BY ONLY <1>1, k \in 0 .. t - 2
    <3> QED BY <3>1, <1>3, <1>4
  <2>4. ASSUME NEW x \in 1 .. Len(u)
        PROVE  /\ d[t - 2 + x] = (d[t - 1 + x] - 1) * B + u[x].i
               /\ t - 2 + x > 0 =>
                    u[x].limit = ((L[0] - (d[t - 1 + x] - 1) * R[t - 1 + x]) \div R[t - 2 + x]) + 1
    <3>1. CASE x = 1
      <4>1. t - 2 + 1 = t - 1 /\ t - 1 + 1 = t /\ t - 1 \in 0 .. t - 1 /\ t - 1 \in 0 .. D + 1 /\ t \in 0 .. t /\ t \in 0 .. D + 1
        BY <1>1
      <4>2. c[t - 1] = c[t] * B /\ d[t - 1] = c[t - 1] /\ (d[t] - 1) = c[t] /\ F = c[t] * R[t]
        <5>1. c[t - 1] = c[t] * B
          BY <4>1, <1>3
        <5>2. d[t - 1] = c[t - 1] /\ c[t] \in Nat
          BY <4>1, <1>1, <1>2, <1>4
        <5>3. d[t] = c[t] + 1 /\ F = c[t] * R[t]
          BY <4>1, <1>3, <1>4
        <5> QED BY ONLY <5>1, <5>2, <5>3
      <4>3. d[t - 1] = (d[t] - 1) * B + u[1].i
        <5>1. c[t] * B \in Nat
          <6>1. c[t] \in Nat
            BY <4>1, <1>2
          <6> QED BY ONLY <6>1, <1>5
        <5> QED BY ONLY <5>1, <4>2, u[1].i = 0
      <4>4. t - 1 > 0 => u[1].limit = ((L[0] - (d[t] - 1) * R[t]) \div R[t - 1]) + 1
        <5>1. t - 1 > 0 => Len(s) < D /\ D - Len(s) = t - 1
          BY <1>1, <1>t
        <5> QED BY <5>1, <4>2
      <4> QED BY ONLY <4>1, <4>3, <4>4, <3>1
    <3>2. CASE x = 2
      <4>1. /\ t - 2 + 2 = t /\ t - 1 + 2 = t + 1 /\ t - 1 + 1 = t /\ t + 1 # t
            /\ t \in 0 .. D + 1 /\ t + 1 \in 0 .. D + 1 /\ 1 \in 1 .. Len(s)
        BY <1>1
      <4>2. d[t] = c[t] + 1 /\ d[t + 1] = c[t + 1] /\ c[t] \in Nat /\ c[t + 1] \in Nat
        BY <4>1, <1>2, <1>4
      <4>3. /\ c[t] = (c[t + 1] - 1) * B + s[1].i
            /\ t > 0 => s[1].limit = ((L[0] - (c[t + 1] - 1) * R[t + 1]) \div R[t]) + 1
        BY <4>1, <1>3
      <4>4. (c[t + 1] - 1) * B \in Int
        BY <4>2, <1>5
      <4>5. d[t] = (d[t + 1] - 1) * B + u[2].i
        BY ONLY <4>2, <4>3, <4>4, u[2].i = s[1].i + 1, s[1].i \in Nat
      <4>6. t > 0 => u[2].limit = ((L[0] - (d[t + 1] - 1) * R[t + 1]) \div R[t]) + 1
        BY <4>2, <4>3
      <4> QED BY ONLY <4>1, <4>5, <4>6, <3>2
    <3>3. CASE x \in 3 .. Len(u)
      <4> DEFINE y == x - 1
      <4>1. /\ y \in 1 .. Len(s) /\ t - 2 + x = t - 1 + y /\ t - 1 + x = t + y
            /\ t - 1 + y \in 0 .. D + 1 /\ t - 1 + y # t /\ t + y \in 0 .. D + 1 /\ t + y # t
        BY ONLY <3>3, <1>1, <1>t, Len(u) = Len(s) + 1
      <4>2. u[x] = s[y]
        BY <3>3
      <4> HIDE DEF y
      <4>3. d[t - 1 + y] = c[t - 1 + y] /\ d[t + y] = c[t + y]
        BY <4>1, <1>4
      <4>4. /\ c[t - 1 + y] = (c[t + y] - 1) * B + s[y].i
            /\ t - 1 + y > 0 =>
                  s[y].limit = ((L[0] - (c[t + y] - 1) * R[t + y]) \div R[t - 1 + y]) + 1
        BY <4>1, <1>3
      <4> QED BY ONLY <4>1, <4>2, <4>3, <4>4
    <3>4. x = 1 \/ x = 2 \/ x \in 3 .. Len(u)
      BY <1>1
    <3> QED BY <3>1, <3>2, <3>3, <3>4
  <2>5. Len(u) > 0 /\ \A x \in 1 .. Len(u) : t - 2 + x = D - Len(u) + x /\ t - 1 + x = (D - Len(u) + x) + 1
    BY <1>1, <1>t
  <2> QED BY ONLY <2>1, <2>2, <2>3, <2>4, <2>5 DEF Filling
<1> QED BY <1>6, <1>7

\* The next name: when it is the last, every level is complete.
LEMMA CountFile ==
  ASSUME NEW L, NEW D, NEW R, NEW B, Shape(L, D, R, B),
         NEW c, NEW F \in Nat, NEW N \in Nat, NEW s, Len(s) = D + 1, F < L[0],
         LevelCounts(c, L, D, F, N), Filling(c, L, D, R, B, F, s),
         \A x \in 1 .. Len(s) : s[x].i \in 0 .. B /\ (x > 1 => s[x].i > 0), s[1].i < B,
         NEW u, Len(u) = Len(s), u[1].i = s[1].i + 1, \A x \in 2 .. Len(s) : u[x] = s[x]
  PROVE  \E d : LevelCounts(d, L, D, F + 1, N) /\ Filling(d, L, D, R, B, F + 1, u)
<1> DEFINE d == [c EXCEPT ![0] = @ + 1]
<1>1. D \in Nat /\ Len(s) \in Nat
  BY DEF Shape
<1>2. /\ c \in [0 .. D + 1 -> Nat] /\ c[0] = F /\ c[D + 1] = 1 /\ N = Tree!Total(c, D + 1)
      /\ \A k \in 0 .. D + 1 : c[k] <= L[k] /\ c[k] \in Nat
  BY DEF LevelCounts
<1>3. \A x \in 1 .. Len(s) :
             /\ c[x - 1] = (c[x] - 1) * B + s[x].i
             /\ x - 1 > 0 => s[x].limit = ((L[0] - (c[x] - 1) * R[x]) \div R[x - 1]) + 1
  <2>1. \A x \in 1 .. Len(s) : D - Len(s) + x = x - 1 /\ (x - 1) + 1 = x
    BY <1>1
  <2> QED BY ONLY <2>1, Filling(c, L, D, R, B, F, s), F < L[0] DEF Filling
<1>4. /\ d \in [0 .. D + 1 -> Nat] /\ d[0] = F + 1
      /\ \A k \in 1 .. D + 1 : d[k] = c[k]
  BY <1>1, <1>2
<1> HIDE DEF d
<1>5. /\ \A k \in 0 .. D + 1 : L[k] \in Nat /\ R[k] \in Nat
      /\ B \in Nat \ {0, 1} /\ R[0] = 1 /\ L[D + 1] = 1
      /\ \A k \in 0 .. D, e \in Nat \ {0}, i \in 1 .. B : L[k] = (e - 1) * B + i => L[k + 1] = e
  BY DEF Shape
<1>6. \A x \in 1 .. Len(s) : d[x - 1] = (d[x] - 1) * B + u[x].i
  <2> SUFFICES ASSUME NEW x \in 1 .. Len(s) PROVE d[x - 1] = (d[x] - 1) * B + u[x].i
    OBVIOUS
  <2>1. x \in 1 .. D + 1 /\ d[x] = c[x] /\ c[x] \in Nat /\ c[x - 1] = (c[x] - 1) * B + s[x].i
    <3>1. x \in 1 .. D + 1 /\ x \in 0 .. D + 1
      BY <1>1
    <3> QED BY ONLY <3>1, <1>2, <1>3, <1>4, x \in 1 .. Len(s)
  <2>2. (c[x] - 1) * B \in Int /\ s[x].i \in Nat
    BY <2>1, <1>5
  <2>3. CASE x = 1
    <3>1. u[x].i = s[x].i + 1 /\ d[x - 1] = c[x - 1] + 1
      BY <2>3, <1>2, <1>4
    <3> QED BY ONLY <3>1, <2>1, <2>2
  <2>4. CASE x # 1
    <3>1. x \in 2 .. Len(s) /\ x - 1 \in 1 .. D + 1
      BY <2>4, <1>1
    <3>2. u[x] = s[x] /\ d[x - 1] = c[x - 1]
      BY <3>1, <1>4
    <3> QED BY ONLY <3>2, <2>1, <2>2
  <2> QED BY <2>3, <2>4
<1>7. LevelCounts(d, L, D, F + 1, N)
  <2>1. d[D + 1] = 1
    BY <1>1, <1>2, <1>4
  <2>2. Tree!Total(d, D + 1) = N
    <3>1. D + 1 \in Nat
      BY <1>1
    <3>2. \A k \in 1 .. D + 1 : d[k] \in Nat /\ c[k] \in Nat /\ d[k] <= c[k] /\ d[k] = c[k]
      BY <1>1, <1>2, <1>4
    <3>3. Tree!Total(d, D + 1) = Tree!Total(c, D + 1)
      BY ONLY <3>1, <3>2, TotalGrows
    <3> QED BY <3>3, <1>2
  <2>3. ASSUME NEW k \in 0 .. D + 1 PROVE d[k] <= L[k]
    <3>1. CASE k = 0
      <4>1. L[0] \in Nat
        BY <1>1, <1>5
      <4> QED BY ONLY <4>1, <3>1, <1>4, F < L[0], F \in Nat
    <3>2. CASE k # 0
      <4>1. k \in 1 .. D + 1
        BY <3>2, <1>1
      <4> QED BY ONLY <4>1, <1>4, <1>2, k \in 0 .. D + 1
    <3> QED BY <3>1, <3>2
  <2>4. ASSUME F + 1 = L[0] PROVE \A k \in 0 .. D + 1 : d[k] = L[k]
    <3> DEFINE T == {k \in Nat : k \in 0 .. D + 1 => d[k] = L[k]}
    <3>1. 0 \in T
      BY <2>4, <1>4
    <3>2. ASSUME NEW k \in Nat, k \in T PROVE k + 1 \in T
      <4> SUFFICES ASSUME k + 1 \in 0 .. D + 1 PROVE d[k + 1] = L[k + 1]
        OBVIOUS
      <4>1. k \in 0 .. D /\ k \in 0 .. D + 1 /\ k + 1 \in 1 .. Len(s) /\ (k + 1) - 1 = k
        BY <1>1
      <4>2. d[k] = L[k] /\ d[k + 1] \in Nat
        BY <3>2, <4>1, <1>4
      <4>3. L[k] = (d[k + 1] - 1) * B + u[k + 1].i
        BY <4>1, <4>2, <1>6
      <4>4. u[k + 1].i \in 1 .. B
        <5>1. CASE k = 0
          <6>1. 1 \in 1 .. Len(s) /\ u[k + 1].i = s[1].i + 1
            BY <5>1, <1>1
          <6>2. s[1].i \in 0 .. B
            BY <6>1
          <6> QED BY ONLY <6>1, <6>2, s[1].i < B, <1>5
        <5>2. CASE k # 0
          <6>1. k + 1 \in 2 .. Len(s) /\ k + 1 > 1
            BY <5>2, <4>1
          <6>2. u[k + 1] = s[k + 1] /\ s[k + 1].i \in 0 .. B /\ s[k + 1].i > 0
            BY <6>1, <4>1
          <6> QED BY ONLY <6>2, <1>5
        <5> QED BY <5>1, <5>2
      <4>5. d[k + 1] # 0
        <5>1. L[k] >= 0 /\ L[k] \in Nat \ {0}
          BY <4>1 DEF Shape
        <5>2. SUFFICES ASSUME d[k + 1] = 0 PROVE FALSE
          OBVIOUS
        <5>3. CASE k = 0
          <6>1. k + 1 \in 1 .. D + 1 /\ 1 \in 0 .. D + 1 /\ c[1] = d[1]
            BY <5>3, <1>1, <1>4
          <6>2. c[0] = (c[1] - 1) * B + s[1].i /\ s[1].i \in 0 .. B /\ s[1].i < B /\ c[0] \in Nat
            <7>1. 1 \in 1 .. Len(s) /\ 1 - 1 = 0
              BY <1>1
            <7> QED BY <7>1, <1>3, <1>2
          <6>3. c[1] = 0
            BY <5>2, <5>3, <6>1
          <6> QED BY ONLY <6>2, <6>3, <1>5
        <5>4. CASE k # 0
          <6>1. u[k + 1].i <= B
            BY <4>4, <1>5
          <6>2. L[k] = u[k + 1].i - B
            BY ONLY <4>3, <4>4, <5>2, <1>5
          <6> QED BY ONLY <6>1, <6>2, <5>1, <4>4, <1>5
        <5> QED BY <5>3, <5>4
      <4> QED BY ONLY <1>5, <4>1, <4>2, <4>3, <4>4, <4>5
    <3> HIDE DEF T
    <3>3. \A k \in Nat : k \in T
      BY <3>1, <3>2, SetInduction
    <3> QED BY <3>3, <1>1 DEF T
  <2> QED BY <2>1, <2>2, <2>3, <2>4, <1>4 DEF LevelCounts
<1>8. Filling(d, L, D, R, B, F + 1, u)
  <2> SUFFICES ASSUME F + 1 < L[0] PROVE Filling(d, L, D, R, B, F + 1, u)
    BY DEF Filling
  <2>1. Len(u) > 0 /\ D + 1 - Len(u) = 0 /\ D - Len(u) = 0 - 1
    BY <1>1
  <2>2. \A k \in 0 .. 0 : d[k] < L[k] /\ F + 1 = d[k] * R[k]
    BY <1>4, <1>5
  <2>3. \A k \in 0 .. 0 - 1 : d[k] = d[k + 1] * B
    OBVIOUS
  <2>4. ASSUME NEW x \in 1 .. Len(u), x - 1 > 0
        PROVE u[x].limit = ((L[0] - (d[x] - 1) * R[x]) \div R[x - 1]) + 1
    <3>1. x \in 2 .. Len(s) /\ x \in 1 .. D + 1 /\ x \in 1 .. Len(s)
      BY <1>1, <2>4
    <3>2. u[x] = s[x] /\ d[x] = c[x]
      BY <3>1, <1>4
    <3> QED BY <3>1, <3>2, <2>4, <1>3
  <2>5. \A x \in 1 .. Len(u) : D - Len(u) + x = x - 1 /\ (x - 1) + 1 = x
    BY <1>1
  <2> QED BY ONLY <2>1, <2>2, <2>3, <2>4, <2>5, <1>6, Len(u) = Len(s) DEF Filling
<1> QED BY <1>7, <1>8

\* A call returns before all files have names: its directory is full, and
\* some call is left.
LEMMA CountReturn ==
  ASSUME NEW L, NEW D, NEW R, NEW B, Shape(L, D, R, B),
         NEW c, NEW F \in Nat, NEW N \in Nat, NEW s, Len(s) \in 1 .. D + 1,
         LevelCounts(c, L, D, F, N), Filling(c, L, D, R, B, F, s),
         s[1].i \in 0 .. B, D + 1 - Len(s) = 0 => s[1].limit = B,
         ~ (s[1].i < B /\ s[1].i < s[1].limit /\ F < L[0]),
         NEW u, Len(u) = Len(s) - 1, \A x \in 1 .. Len(u) : u[x] = s[x + 1]
  PROVE  Filling(c, L, D, R, B, F, u)
<1> SUFFICES ASSUME F < L[0] PROVE Filling(c, L, D, R, B, F, u)
  BY DEF Filling
<1> DEFINE t == D + 1 - Len(s)
           i == s[1].i
<1>1. D \in Nat /\ Len(s) \in Nat /\ Len(s) >= 1 /\ Len(s) <= D + 1 /\ t \in Nat /\ t \in 0 .. D
  BY DEF Shape
<1>2. /\ c \in [0 .. D + 1 -> Nat] /\ c[0] = F /\ c[D + 1] = 1
      /\ \A k \in 0 .. D + 1 : c[k] <= L[k] /\ c[k] \in Nat
  BY DEF LevelCounts
<1>3. /\ \A k \in 0 .. t : c[k] < L[k] /\ F = c[k] * R[k]
      /\ \A k \in 0 .. t - 1 : c[k] = c[k + 1] * B
      /\ \A x \in 1 .. Len(s) :
             /\ c[t - 1 + x] = (c[t + x] - 1) * B + s[x].i
             /\ t - 1 + x > 0 =>
                  s[x].limit = ((L[0] - (c[t + x] - 1) * R[t + x]) \div R[t - 1 + x]) + 1
  <2>1. D - Len(s) = t - 1 /\ \A x \in 1 .. Len(s) : D - Len(s) + x = t - 1 + x /\ (t - 1 + x) + 1 = t + x
    BY ONLY <1>1
  <2> HIDE DEF t
  <2>2. t = D + 1 - Len(s)
    BY DEF t
  <2>3. /\ \A k \in 0 .. D + 1 - Len(s) : c[k] < L[k] /\ F = c[k] * R[k]
        /\ \A k \in 0 .. D - Len(s) : c[k] = c[k + 1] * B
        /\ \A x \in 1 .. Len(s) :
             /\ c[D - Len(s) + x] = (c[(D - Len(s) + x) + 1] - 1) * B + s[x].i
             /\ D - Len(s) + x > 0 =>
                  s[x].limit = ((L[0] - (c[(D - Len(s) + x) + 1] - 1) * R[(D - Len(s) + x) + 1])
                                \div R[D - Len(s) + x]) + 1
    BY ONLY Filling(c, L, D, R, B, F, s), F < L[0], Zenon DEF Filling
  <2>4. ASSUME NEW x \in 1 .. Len(s)
        PROVE  /\ c[t - 1 + x] = (c[t + x] - 1) * B + s[x].i
               /\ t - 1 + x > 0 =>
                    s[x].limit = ((L[0] - (c[t + x] - 1) * R[t + x]) \div R[t - 1 + x]) + 1
    <3>1. D - Len(s) + x = t - 1 + x /\ (D - Len(s) + x) + 1 = t + x
      <4>1. (t - 1 + x) + 1 = t + x
        BY ONLY <2>1
      <4> QED BY ONLY <2>1, <4>1
    <3> QED BY ONLY <2>3, <3>1, Zenon
  <2>5. /\ \A k \in 0 .. t : c[k] < L[k] /\ F = c[k] * R[k]
        /\ \A k \in 0 .. t - 1 : c[k] = c[k + 1] * B
    BY ONLY <2>1, <2>2, <2>3, Zenon
  <2> QED BY ONLY <2>4, <2>5, Zenon
<1>4. /\ \A k \in 0 .. D + 1 : L[k] \in Nat /\ R[k] \in Nat \ {0}
      /\ B \in Nat \ {0, 1} /\ \A k \in 0 .. D : L[k] <= L[k + 1] * B /\ R[k + 1] = R[k] * B
      /\ L[D + 1] = 1
  BY DEF Shape
<1>5. /\ c[t] = (c[t + 1] - 1) * B + i /\ c[t] \in Nat /\ c[t + 1] \in Nat
      /\ t > 0 => s[1].limit = ((L[0] - (c[t + 1] - 1) * R[t + 1]) \div R[t]) + 1
      /\ F = c[t] * R[t] /\ c[t] < L[t] /\ R[t + 1] = R[t] * B
      /\ R[t] \in Nat \ {0} /\ R[t + 1] \in Nat /\ L[t] \in Nat /\ L[t + 1] \in Nat /\ L[0] \in Nat
      /\ L[t] <= L[t + 1] * B
  <2>1. 1 \in 1 .. Len(s) /\ t - 1 + 1 = t /\ t \in 0 .. t /\ t \in 0 .. D /\ t \in 0 .. D + 1 /\ t + 1 \in 0 .. D + 1 /\ 0 \in 0 .. D + 1
    BY <1>1
  <2>2. /\ c[t] = (c[t + 1] - 1) * B + i
        /\ t > 0 => s[1].limit = ((L[0] - (c[t + 1] - 1) * R[t + 1]) \div R[t]) + 1
    BY <2>1, <1>3
  <2> HIDE DEF i, t
  <2> QED BY ONLY <2>1, <2>2, <1>2, <1>3, <1>4
<1> HIDE DEF i
<1>6. i \in 0 .. B
  BY DEF i
<1>7. i = B
  <2>1. CASE t = 0
    BY <2>1, <1>4, <1>6 DEF i
  <2>2. CASE t > 0
    <3> DEFINE a == (c[t + 1] - 1) * R[t + 1]
               r == R[t]
               q == (L[0] - a) \div r
    <3>0. c[t + 1] - 1 \in Int /\ B \in Nat /\ R[t] \in Nat /\ i \in Nat
      <4>1. c[t + 1] \in Nat /\ R[t] \in Nat
        BY ONLY <1>5
      <4>2. B \in Nat
        BY ONLY <1>4
      <4> QED BY ONLY <4>1, <4>2, <1>6
    <3>1. /\ (c[t + 1] - 1) * (R[t] * B) = ((c[t + 1] - 1) * B) * R[t]
          /\ ((c[t + 1] - 1) * B + i) * R[t] = ((c[t + 1] - 1) * B) * R[t] + i * R[t]
          /\ ((c[t + 1] - 1) * B) * R[t] \in Int /\ i * R[t] \in Nat
      <4> DEFINE c1 == c[t + 1] - 1
                 r1 == R[t]
      <4>1. c1 \in Int /\ B \in Nat /\ r1 \in Nat /\ i \in Nat
        BY ONLY <3>0
      <4>2. ASSUME c1 \in Int, B \in Nat, r1 \in Nat, i \in Nat
            PROVE  /\ c1 * (r1 * B) = (c1 * B) * r1
                   /\ (c1 * B + i) * r1 = (c1 * B) * r1 + i * r1
                   /\ (c1 * B) * r1 \in Int /\ i * r1 \in Nat
        <5> HIDE DEF c1, r1
        <5> QED BY ONLY <4>2, Products
      <4> QED BY ONLY <4>1, <4>2
    <3>2. a = ((c[t + 1] - 1) * B) * R[t] /\ F = ((c[t + 1] - 1) * B + i) * R[t]
      BY ONLY <1>5, <3>1
    <3>3. a \in Int /\ F = a + i * r /\ i * r \in Nat /\ r \in Nat \ {0}
      <4>1. r \in Nat \ {0}
        BY ONLY <1>5
      <4>2. a \in Int /\ i * R[t] \in Nat /\ F = a + i * R[t]
        <5> HIDE DEF a
        <5> QED BY ONLY <3>1, <3>2
      <4> QED BY ONLY <4>1, <4>2
    <3>l. s[1].limit = q + 1
      BY ONLY <1>5, <2>2
    <3> HIDE DEF a, r
    <3>4. L[0] - a > i * r /\ L[0] - a \in Nat
      <4>1. L[0] \in Nat
        BY ONLY <1>5
      <4> QED BY ONLY <4>1, <3>3, F < L[0], F \in Nat
    <3>5. q \in Nat /\ (L[0] - a) < q * r + r
      BY <3>3, <3>4, DivMod
    <3> HIDE DEF q
    <3>6. ~ q < i
      <4> SUFFICES ASSUME q < i PROVE FALSE
        OBVIOUS
      <4>1. q + 1 <= i
        BY <3>5, <1>6
      <4>2. (q + 1) * r <= i * r
        BY ONLY <4>1, <3>3, <3>5, <1>6, <1>4
      <4>3. (q + 1) * r = q * r + r
        BY ONLY <3>3, <3>5
      <4>4. q * r \in Nat
        BY ONLY <3>3, <3>5
      <4> QED BY ONLY <4>2, <4>3, <4>4, <3>3, <3>4, <3>5
    <3>7. i < s[1].limit
      BY ONLY <3>l, <3>5, <3>6, <1>6, <1>4
    <3> QED BY <3>7, <1>4, <1>6 DEF i
  <2> QED BY <2>1, <2>2, <1>1
<1>8. c[t] = c[t + 1] * B
  <2>1. c[t + 1] \in Nat /\ B \in Nat
    BY ONLY <1>4, <1>5
  <2>2. (c[t + 1] - 1) * B = c[t + 1] * B - B /\ c[t + 1] * B \in Nat
    BY ONLY <2>1, OneLess
  <2> QED BY ONLY <2>1, <2>2, <1>5, <1>7
<1>9. c[t + 1] < L[t + 1]
  <2> SUFFICES ASSUME c[t + 1] >= L[t + 1] PROVE FALSE
    BY <1>5
  <2>1. c[t + 1] * B >= L[t + 1] * B
    BY <1>4, <1>5
  <2>2. c[t + 1] * B \in Nat /\ L[t + 1] * B \in Nat
    <3>1. c[t + 1] \in Nat /\ L[t + 1] \in Nat /\ B \in Nat
      BY ONLY <1>4, <1>5
    <3> QED BY ONLY <3>1, OneLess
  <2> QED BY ONLY <2>1, <2>2, <1>5, <1>8
<1>10. F = c[t + 1] * R[t + 1]
  <2>0. c[t + 1] \in Int /\ B \in Nat /\ R[t] \in Nat
    BY ONLY <1>4, <1>5
  <2>1. (c[t + 1] * B) * R[t] = c[t + 1] * (R[t] * B)
    <3> DEFINE c1 == c[t + 1]
               r1 == R[t]
    <3>1. ASSUME c1 \in Int, B \in Nat, r1 \in Nat
          PROVE  (c1 * B) * r1 = c1 * (r1 * B)
      <4> HIDE DEF c1, r1
      <4> QED BY ONLY <3>1, Products
    <3> QED BY ONLY <2>0, <3>1
  <2> QED BY ONLY <2>1, <1>5, <1>8
<1>11. t # D
  BY ONLY <1>9, <1>2, <1>4, <1>1
<1>12. Len(u) > 0 /\ D + 1 - Len(u) = t + 1 /\ D - Len(u) = t
  BY ONLY <1>1, <1>11, Len(u) = Len(s) - 1 DEF t
<1>13. \A k \in 0 .. t + 1 : c[k] < L[k] /\ F = c[k] * R[k]
  <2>1. \A k \in 0 .. t + 1 : k \in 0 .. t \/ k = t + 1
    BY <1>1
  <2> QED BY ONLY <2>1, <1>3, <1>9, <1>10
<1>14. \A k \in 0 .. t : c[k] = c[k + 1] * B
  <2>1. \A k \in 0 .. t : k \in 0 .. t - 1 \/ k = t
    BY ONLY <1>1
  <2> QED BY ONLY <2>1, <1>3, <1>8
<1>15. ASSUME NEW x \in 1 .. Len(u)
       PROVE  /\ c[t + x] = (c[(t + x) + 1] - 1) * B + u[x].i
              /\ t + x > 0 => u[x].limit = ((L[0] - (c[(t + x) + 1] - 1) * R[(t + x) + 1]) \div R[t + x]) + 1
  <2>1. /\ x + 1 \in 1 .. Len(s) /\ t - 1 + (x + 1) = t + x /\ t + (x + 1) = (t + x) + 1
    <3> HIDE DEF t
    <3> QED BY ONLY <1>1, x \in 1 .. Len(u), Len(u) = Len(s) - 1
  <2>2. u[x] = s[x + 1]
    OBVIOUS
  <2>3. /\ c[t - 1 + (x + 1)] = (c[t + (x + 1)] - 1) * B + s[x + 1].i
        /\ t - 1 + (x + 1) > 0 =>
             s[x + 1].limit = ((L[0] - (c[t + (x + 1)] - 1) * R[t + (x + 1)]) \div R[t - 1 + (x + 1)]) + 1
    BY ONLY <2>1, <1>3
  <2> HIDE DEF t
  <2> QED BY ONLY <2>1, <2>2, <2>3, Zenon
<1> HIDE DEF t
<1> QED BY ONLY <1>12, <1>13, <1>14, <1>15 DEF Filling

-----------------------------------------------------------------------------
(* Paths.  e leads through the directory b to its entry v.                 *)
Through(e, b, v) ==
    /\ Len(b) < Len(e)
    /\ \A j \in 1 .. Len(b) : e[j] = b[j]
    /\ e[Len(b) + 1] = v

\* The entry being made is the path of its directory and a number.
LEMMA EntryPath ==
  ASSUME NEW b \in Seq(Nat), NEW i \in Nat
  PROVE  /\ Append(b, i) \in Seq(Nat) /\ Tree!Front(Append(b, i)) = b /\ Tree!Last(Append(b, i)) = i
<1> DEFINE e == Append(b, i)
<1>1. /\ e \in Seq(Nat) /\ Len(e) = Len(b) + 1 /\ e[Len(b) + 1] = i
  OBVIOUS
<1>2. Tree!Front(e) = b
  <2>1. Len(e) - 1 = Len(b)
    OBVIOUS
  <2>2. SubSeq(e, 1, Len(b)) = b
    OBVIOUS
  <2> QED BY <2>1, <2>2 DEF Tree!Front
<1>3. Tree!Last(e) = i
  BY <1>1 DEF Tree!Last
<1> QED BY <1>1, <1>2, <1>3

\* An entry is in the directory it was made in.
LEMMA EntryThrough ==
  ASSUME NEW b \in Seq(Nat), NEW i \in Nat
  PROVE  Through(Append(b, i), b, i)
<1> DEFINE e == Append(b, i)
<1>1. /\ Len(e) = Len(b) + 1 /\ Len(b) \in Nat
      /\ e[Len(b) + 1] = i /\ \A j \in 1 .. Len(b) : e[j] = b[j]
  OBVIOUS
<1> QED BY <1>1 DEF Through

\* It is one of those that its directory has.
LEMMA ThroughOne ==
  ASSUME NEW e \in Seq(Nat), NEW b, NEW v, Through(e, b, v)
  PROVE  /\ \A w : Through(e, b, w) => w = v
         /\ \A w : ~ Through(e, e, w)
<1>1. Len(e) \in Nat
  OBVIOUS
<1> QED BY <1>1 DEF Through

\* What a directory is in, its entries are in.
LEMMA ThroughDeeper ==
  ASSUME NEW a \in Seq(Nat), NEW b \in Seq(Nat), NEW i \in Nat, NEW v, Through(b, a, v),
         NEW e, e = Append(b, i)
  PROVE  Through(e, a, v)
<1>1. /\ Len(e) = Len(b) + 1 /\ Len(b) \in Nat /\ Len(a) \in Nat
      /\ \A j \in 1 .. Len(b) : e[j] = b[j]
  OBVIOUS
<1>2. Len(a) < Len(b) /\ b[Len(a) + 1] = v /\ \A j \in 1 .. Len(a) : b[j] = a[j]
  BY DEF Through
<1>3. Len(a) + 1 \in 1 .. Len(b) /\ \A j \in 1 .. Len(a) : j \in 1 .. Len(b)
  BY <1>1, <1>2
<1> QED BY ONLY <1>1, <1>2, <1>3 DEF Through

\* What is in an entry of a directory is in the directory.
LEMMA ThroughOuter ==
  ASSUME NEW e \in Seq(Nat), NEW b \in Seq(Nat), NEW i \in Nat, NEW v,
         NEW d, d = Append(b, i), Through(e, d, v)
  PROVE  Through(e, b, i)
<1>1. /\ Len(d) = Len(b) + 1 /\ Len(b) \in Nat /\ Len(e) \in Nat /\ d[Len(b) + 1] = i
      /\ \A j \in 1 .. Len(b) : d[j] = b[j]
  OBVIOUS
<1>2. Len(d) < Len(e) /\ \A j \in 1 .. Len(d) : e[j] = d[j]
  BY DEF Through
<1>3. Len(b) + 1 \in 1 .. Len(d) /\ \A j \in 1 .. Len(b) : j \in 1 .. Len(d)
  BY <1>1
<1>4. Len(b) < Len(e)
  BY ONLY <1>1, <1>2
<1> QED BY ONLY <1>1, <1>2, <1>3, <1>4 DEF Through

(* The open calls are one inside the other, and what there is in their     *)
(* directories comes before their index.                                   *)
Nested(s) ==
    \A x, y \in 1 .. Len(s) : x < y =>
        s[y].i > 0 /\ Through(s[x].base, s[y].base, s[y].i - 1)

Before(s, E) ==
    \A x \in 1 .. Len(s), e \in E, v \in Nat : Through(e, s[x].base, v) => v < s[x].i

Frames(m) == [base : Seq(Nat), depth : Nat, i : 0 .. m, limit : Nat]

\* The next entry is a new one, and the loop counts it.
LEMMA NextEntry ==
  ASSUME NEW m \in Nat, NEW s \in Seq(Frames(m)), Len(s) > 0, NEW E, E \subseteq Seq(Nat),
         Nested(s), Before(s, E), NEW e, e = Append(s[1].base, s[1].i),
         NEW t, Len(t) = Len(s), t[1].base = s[1].base, t[1].i = s[1].i + 1,
         \A x \in 2 .. Len(s) : t[x] = s[x]
  PROVE  e \notin E /\ Nested(t) /\ Before(t, E \cup {e})
<1> DEFINE b == s[1].base
           i == s[1].i
<1>1. 1 \in 1 .. Len(s) /\ Len(s) \in Nat
  OBVIOUS
<1>2. \A x \in 1 .. Len(s) : s[x].base \in Seq(Nat) /\ s[x].i \in Nat
  <2>1. \A x \in 1 .. Len(s) : s[x] \in Frames(m)
    OBVIOUS
  <2>2. \A f \in Frames(m) : f.base \in Seq(Nat) /\ f.i \in Nat
    BY DEF Frames
  <2> QED BY ONLY <2>1, <2>2
<1>3. b \in Seq(Nat) /\ i \in Nat
  BY <1>1, <1>2
<1>b. e = Append(b, i) /\ t[1].base = b /\ t[1].i = i + 1
  OBVIOUS
<1>s. s[1].base = b /\ s[1].i = i
  OBVIOUS
<1> HIDE DEF b, i
<1>4. e \in Seq(Nat) /\ Through(e, b, i) /\ \A v : Through(e, b, v) => v = i
  <2>1. Append(b, i) \in Seq(Nat) /\ Through(Append(b, i), b, i)
    BY <1>3, EntryPath, EntryThrough
  <2>2. e \in Seq(Nat) /\ Through(e, b, i)
    BY ONLY <2>1, <1>b
  <2> QED BY ONLY <2>2, ThroughOne, Zenon
<1>5. e \notin E
  <2> SUFFICES ASSUME e \in E PROVE FALSE
    OBVIOUS
  <2>1. i < i
    BY ONLY <1>1, <1>3, <1>4, <1>s, e \in E, Before(s, E) DEF Before
  <2> QED BY <2>1, <1>3
<1>6. Nested(t)
  <2> SUFFICES ASSUME NEW x \in 1 .. Len(t), NEW y \in 1 .. Len(t), x < y
               PROVE  t[y].i > 0 /\ Through(t[x].base, t[y].base, t[y].i - 1)
    BY DEF Nested
  <2>1. y \in 2 .. Len(s) /\ x \in 1 .. Len(s) /\ y \in 1 .. Len(s) /\ (x = 1 \/ x \in 2 .. Len(s))
    BY <1>1
  <2>2. t[y] = s[y] /\ t[x].base = s[x].base
    BY <2>1
  <2>3. s[y].i > 0 /\ Through(s[x].base, s[y].base, s[y].i - 1)
    BY ONLY <2>1, x < y, Nested(s) DEF Nested
  <2> QED BY ONLY <2>2, <2>3
<1>7. Before(t, E \cup {e})
  <2> SUFFICES ASSUME NEW x \in 1 .. Len(t), NEW f \in E \cup {e}, NEW v \in Nat,
                      Through(f, t[x].base, v)
               PROVE  v < t[x].i
    BY DEF Before
  <2>1. CASE x = 1
    <3>1. CASE f = e
      <4>1. v = i
        BY ONLY <1>4, <1>b, <2>1, <3>1, Through(f, t[x].base, v)
      <4> QED BY ONLY <4>1, <1>3, <1>b, <2>1
    <3>2. CASE f \in E
      <4>1. v < i
        BY ONLY <1>1, <1>s, <1>b, <2>1, <3>2, v \in Nat, Through(f, t[x].base, v), Before(s, E) DEF Before
      <4> QED BY ONLY <4>1, <1>3, <1>b, <2>1, v \in Nat
    <3> QED BY <3>1, <3>2
  <2>2. CASE x # 1
    <3>0. x \in 2 .. Len(s) /\ x \in 1 .. Len(s) /\ 1 < x
      BY <2>2, <1>1
    <3>1. t[x] = s[x] /\ s[x].base \in Seq(Nat) /\ s[x].i \in Nat
      BY <3>0, <1>2
    <3>2. CASE f = e
      <4>1. s[x].i > 0 /\ Through(b, s[x].base, s[x].i - 1)
        BY ONLY <3>0, <1>1, <1>s, Nested(s) DEF Nested
      <4>2. \A w : Through(e, s[x].base, w) => w = s[x].i - 1
        <5> DEFINE a == s[x].base
                   y == s[x].i - 1
        <5>1. a \in Seq(Nat) /\ Through(b, a, y)
          BY ONLY <4>1, <3>1
        <5> HIDE DEF a, y
        <5>2. Through(e, a, y)
          BY ONLY <5>1, <1>3, <1>b, ThroughDeeper
        <5>3. \A w : Through(e, a, w) => w = y
          BY ONLY <5>2 DEF Through
        <5> QED BY <5>3 DEF a, y
      <4>3. v = s[x].i - 1
        BY ONLY <4>2, <3>1, <3>2, Through(f, t[x].base, v)
      <4> QED BY ONLY <4>1, <4>3, <3>1
    <3>3. CASE f \in E
      BY ONLY <3>0, <3>1, <3>3, v \in Nat, Through(f, t[x].base, v), Before(s, E) DEF Before
    <3> QED BY <3>2, <3>3
  <2> QED BY <2>1, <2>2
<1> QED BY <1>5, <1>6, <1>7

\* A call for the new directory.
LEMMA NextCall ==
  ASSUME NEW m \in Nat, NEW s \in Seq(Frames(m)), Len(s) > 0, NEW E, E \subseteq Seq(Nat),
         Nested(s), Before(s, E), NEW e, e = Append(s[1].base, s[1].i),
         NEW t, Len(t) = Len(s), t[1].base = s[1].base, t[1].i = s[1].i + 1,
         \A x \in 2 .. Len(s) : t[x] = s[x],
         NEW u, Len(u) = Len(t) + 1, u[1].base = e, \A x \in 2 .. Len(u) : u[x] = t[x - 1]
  PROVE  Nested(u) /\ Before(u, E \cup {e})
<1>0. e \notin E /\ Nested(t) /\ Before(t, E \cup {e})
  BY NextEntry
<1> DEFINE b == s[1].base
           i == s[1].i
<1>1. 1 \in 1 .. Len(s) /\ Len(s) \in Nat
  OBVIOUS
<1>2. \A x \in 1 .. Len(s) : s[x].base \in Seq(Nat) /\ s[x].i \in Nat
  <2>1. \A x \in 1 .. Len(s) : s[x] \in Frames(m)
    OBVIOUS
  <2>2. \A f \in Frames(m) : f.base \in Seq(Nat) /\ f.i \in Nat
    BY DEF Frames
  <2> QED BY ONLY <2>1, <2>2
<1>3. b \in Seq(Nat) /\ i \in Nat
  BY <1>1, <1>2
<1>b. e = Append(b, i) /\ t[1].base = b /\ t[1].i = i + 1
  OBVIOUS
<1>s. s[1].base = b /\ s[1].i = i
  OBVIOUS
<1> HIDE DEF b, i
<1>4. e \in Seq(Nat) /\ Through(e, b, i) /\ \A v : ~ Through(e, e, v)
  <2>1. Append(b, i) \in Seq(Nat) /\ Through(Append(b, i), b, i)
    BY <1>3, EntryPath, EntryThrough
  <2>2. e \in Seq(Nat) /\ Through(e, b, i)
    BY ONLY <2>1, <1>b
  <2> QED BY ONLY <2>2, ThroughOne, Zenon
<1>5. ASSUME NEW x \in 1 .. Len(t) PROVE t[x].i > 0 /\ Through(e, t[x].base, t[x].i - 1)
  <2>1. CASE x = 1
    <3>1. (i + 1) - 1 = i /\ i + 1 > 0
      BY <1>3
    <3> QED BY ONLY <3>1, <2>1, <1>4, <1>b
  <2>2. CASE x # 1
    <3>0. x \in 2 .. Len(s) /\ x \in 1 .. Len(s) /\ 1 < x
      BY <2>2, <1>1
    <3>1. t[x] = s[x] /\ s[x].base \in Seq(Nat) /\ s[x].i \in Nat
      BY <3>0, <1>2
    <3>2. s[x].i > 0 /\ Through(b, s[x].base, s[x].i - 1)
      BY ONLY <3>0, <1>1, <1>s, Nested(s) DEF Nested
    <3>3. Through(e, s[x].base, s[x].i - 1)
      <4> DEFINE a == s[x].base
                 y == s[x].i - 1
      <4>1. a \in Seq(Nat) /\ Through(b, a, y)
        BY ONLY <3>1, <3>2
      <4> HIDE DEF a, y
      <4>2. Through(e, a, y)
        BY ONLY <4>1, <1>3, <1>b, ThroughDeeper
      <4> QED BY <4>2 DEF a, y
    <3> QED BY ONLY <3>1, <3>2, <3>3
  <2> QED BY <2>1, <2>2
<1>6. Nested(u)
  <2> SUFFICES ASSUME NEW x \in 1 .. Len(u), NEW y \in 1 .. Len(u), x < y
               PROVE  u[y].i > 0 /\ Through(u[x].base, u[y].base, u[y].i - 1)
    BY DEF Nested
  <2>1. y \in 2 .. Len(u) /\ y - 1 \in 1 .. Len(t) /\ (x = 1 \/ (x \in 2 .. Len(u) /\ x - 1 \in 1 .. Len(t) /\ x - 1 < y - 1))
    BY <1>1
  <2>2. u[y] = t[y - 1]
    BY <2>1
  <2>3. CASE x = 1
    BY ONLY <2>1, <2>2, <2>3, <1>5, u[1].base = e
  <2>4. CASE x # 1
    <3>1. u[x] = t[x - 1] /\ x - 1 \in 1 .. Len(t) /\ x - 1 < y - 1
      BY <2>1, <2>4
    <3> QED BY ONLY <3>1, <2>1, <2>2, <1>0 DEF Nested
  <2> QED BY <2>3, <2>4
<1>7. Before(u, E \cup {e})
  <2> SUFFICES ASSUME NEW x \in 1 .. Len(u), NEW f \in E \cup {e}, NEW v \in Nat,
                      Through(f, u[x].base, v)
               PROVE  v < u[x].i
    BY DEF Before
  <2>1. CASE x = 1
    <3>1. CASE f = e
      BY ONLY <1>4, <2>1, <3>1, u[1].base = e, Through(f, u[x].base, v)
    <3>2. CASE f \in E
      <4>1. Through(f, e, v) /\ f \in Seq(Nat)
        BY <2>1, <3>2
      <4>2. Through(f, b, i)
        BY ONLY <4>1, <1>3, <1>b, ThroughOuter
      <4>3. i < i
        BY ONLY <4>2, <3>2, <1>1, <1>3, <1>s, Before(s, E) DEF Before
      <4> QED BY ONLY <4>3, <1>3
    <3> QED BY <3>1, <3>2
  <2>2. CASE x # 1
    <3>1. x \in 2 .. Len(u) /\ x - 1 \in 1 .. Len(t)
      BY <2>2, <1>1
    <3>2. u[x] = t[x - 1]
      BY <3>1
    <3> QED BY ONLY <3>1, <3>2, <1>0, f \in E \cup {e}, v \in Nat, Through(f, u[x].base, v) DEF Before
  <2> QED BY <2>1, <2>2
<1> QED BY <1>6, <1>7

\* Every directory is listed after the one it is in, every name is in a
\* listed directory, and none is listed twice.
Listed(ds, fs, m) ==
    /\ ds \in Seq(Seq(Nat)) /\ fs \in Seq(Seq(Nat))
    /\ Tree!IsInjective(ds) /\ Tree!IsInjective(fs)
    /\ \A j \in 1 .. Len(ds) : ds[j] # <<>> => \E h \in 1 .. j - 1 : ds[h] = Tree!Front(ds[j])
    /\ \A j \in 1 .. Len(fs) : Tree!Front(fs[j]) \in Tree!ToSet(ds) /\ Tree!Last(fs[j]) < m

\* The elements of a longer sequence.
LEMMA SetOfAppended ==
  ASSUME NEW S, NEW s \in Seq(S), NEW e \in S
  PROVE  /\ Append(s, e) \in Seq(S) /\ Len(Append(s, e)) = Len(s) + 1
         /\ Tree!ToSet(Append(s, e)) = Tree!ToSet(s) \cup {e}
         /\ e \notin Tree!ToSet(s) /\ Tree!IsInjective(s) => Tree!IsInjective(Append(s, e))
<1> DEFINE t == Append(s, e)
<1>1. /\ t \in Seq(S) /\ Len(t) = Len(s) + 1 /\ Len(s) \in Nat /\ t[Len(s) + 1] = e
      /\ \A j \in 1 .. Len(s) : t[j] = s[j]
      /\ DOMAIN s = 1 .. Len(s) /\ DOMAIN t = 1 .. Len(t)
  OBVIOUS
<1> HIDE DEF t
<1>2. \A j \in 1 .. Len(t) : j \in 1 .. Len(s) \/ j = Len(s) + 1
  BY ONLY <1>1
<1>3. \A j \in 1 .. Len(s) : j \in 1 .. Len(t) /\ j # Len(s) + 1
  BY ONLY <1>1
<1>4. Len(s) + 1 \in 1 .. Len(t)
  BY ONLY <1>1
<1>5. Tree!ToSet(t) = Tree!ToSet(s) \cup {e}
  BY ONLY <1>1, <1>2, <1>3, <1>4 DEF Tree!ToSet
<1>6. ASSUME e \notin Tree!ToSet(s), Tree!IsInjective(s) PROVE Tree!IsInjective(t)
  <2> SUFFICES ASSUME NEW a \in 1 .. Len(t), NEW b \in 1 .. Len(t), t[a] = t[b] PROVE a = b
    BY <1>1 DEF Tree!IsInjective
  <2>1. \A j \in 1 .. Len(s) : s[j] # e
    BY ONLY <1>1, <1>6 DEF Tree!ToSet
  <2>2. \A j, k \in 1 .. Len(s) : s[j] = s[k] => j = k
    BY ONLY <1>1, <1>6 DEF Tree!IsInjective
  <2> QED BY ONLY <1>1, <1>2, <2>1, <2>2, a \in 1 .. Len(t), b \in 1 .. Len(t), t[a] = t[b]
<1> QED BY <1>1, <1>5, <1>6 DEF t

\* A directory is listed after the one it is in.
LEMMA ListedDir ==
  ASSUME NEW ds, NEW fs, NEW m, Listed(ds, fs, m), NEW e \in Seq(Nat), e \notin Tree!ToSet(ds),
         Tree!Front(e) \in Tree!ToSet(ds)
  PROVE  /\ Listed(Append(ds, e), fs, m) /\ Len(Append(ds, e)) = Len(ds) + 1
         /\ Tree!ToSet(Append(ds, e)) = Tree!ToSet(ds) \cup {e}
<1> DEFINE t == Append(ds, e)
<1>0. ds \in Seq(Seq(Nat))
  BY DEF Listed
<1>1. /\ t \in Seq(Seq(Nat)) /\ Len(t) = Len(ds) + 1 /\ Len(ds) \in Nat /\ t[Len(ds) + 1] = e
      /\ \A j \in 1 .. Len(ds) : t[j] = ds[j]
  BY <1>0
<1>2. Tree!ToSet(t) = Tree!ToSet(ds) \cup {e} /\ Tree!IsInjective(t)
  BY <1>0, SetOfAppended DEF Listed
<1> HIDE DEF t
<1>3. ASSUME NEW j \in 1 .. Len(t), t[j] # <<>> PROVE \E h \in 1 .. j - 1 : t[h] = Tree!Front(t[j])
  <2>1. CASE j = Len(ds) + 1
    <3>1. t[j] = e /\ j - 1 = Len(ds)
      BY <1>1, <2>1
    <3>2. PICK h \in 1 .. Len(ds) : ds[h] = Tree!Front(e)
      BY <1>0 DEF Tree!ToSet
    <3>3. t[h] = Tree!Front(e)
      BY <3>2, <1>1
    <3> QED BY ONLY <3>1, <3>2, <3>3
  <2>2. CASE j # Len(ds) + 1
    <3>1. j \in 1 .. Len(ds)
      BY <2>2, <1>1
    <3>2. t[j] = ds[j]
      BY <1>1, <3>1
    <3>3. PICK h \in 1 .. j - 1 : ds[h] = Tree!Front(ds[j])
      BY <3>1, <3>2, <1>3 DEF Listed
    <3>4. h \in 1 .. Len(ds)
      BY <3>1, <1>1
    <3>5. t[h] = ds[h]
      BY <3>4, <1>1
    <3> QED BY ONLY <3>2, <3>3, <3>5
  <2> QED BY <2>1, <2>2
<1>4. Listed(t, fs, m)
  BY <1>1, <1>2, <1>3 DEF Listed
<1> QED BY <1>1, <1>2, <1>4 DEF t

\* A name is listed with its directory there.
LEMMA ListedName ==
  ASSUME NEW ds, NEW fs, NEW m, Listed(ds, fs, m), NEW e \in Seq(Nat), e \notin Tree!ToSet(fs),
         Tree!Front(e) \in Tree!ToSet(ds), Tree!Last(e) < m
  PROVE  /\ Listed(ds, Append(fs, e), m) /\ Len(Append(fs, e)) = Len(fs) + 1
         /\ Tree!ToSet(Append(fs, e)) = Tree!ToSet(fs) \cup {e}
<1> DEFINE t == Append(fs, e)
<1>0. fs \in Seq(Seq(Nat))
  BY DEF Listed
<1>1. /\ t \in Seq(Seq(Nat)) /\ Len(t) = Len(fs) + 1 /\ Len(fs) \in Nat /\ t[Len(fs) + 1] = e
      /\ \A j \in 1 .. Len(fs) : t[j] = fs[j]
  BY <1>0
<1>2. Tree!ToSet(t) = Tree!ToSet(fs) \cup {e} /\ Tree!IsInjective(t)
  BY <1>0, SetOfAppended DEF Listed
<1> HIDE DEF t
<1>3. ASSUME NEW j \in 1 .. Len(t) PROVE Tree!Front(t[j]) \in Tree!ToSet(ds) /\ Tree!Last(t[j]) < m
  <2>1. j = Len(fs) + 1 \/ j \in 1 .. Len(fs)
    BY <1>1
  <2> QED BY <2>1, <1>1 DEF Listed
<1>4. Listed(ds, t, m)
  BY <1>1, <1>2, <1>3 DEF Listed
<1> QED BY <1>1, <1>2, <1>4 DEF t

-----------------------------------------------------------------------------
(* The inductive invariant of lat_fs.c.                                    *)
Deep == Tree!Depth(Tree!Levels(f_n))

OpenCalls ==
    /\ f_stack \in Seq(Frames(f_max)) /\ Len(f_stack) <= Deep + 1
    /\ \A x \in 1 .. Len(f_stack) :
         /\ f_stack[x].depth = Deep - Len(f_stack) + x
         /\ f_stack[x].base \in Tree!ToSet(f_dirs)
         /\ f_stack[x].depth = 0 => f_stack[x].limit = f_max
    /\ Nested(f_stack)
    /\ Before(f_stack, Tree!ToSet(f_dirs) \cup Tree!ToSet(f_names))

Setup ==
    /\ f_n > 0 /\ f_ndirs = Tree!Total(Tree!Levels(f_n), Deep + 1) /\ f_left = 0
    /\ OpenCalls
    /\ \E c : /\ LevelCounts(c, Tree!Levels(f_n), Deep, Len(f_names), Len(f_dirs))
              /\ Filling(c, Tree!Levels(f_n), Deep, Tree!room, f_max, Len(f_names), f_stack)

\* What there is on the disk.
OnDisk ==
    /\ f_pc \in {"setup", "names"} => f_files = {}
    /\ f_pc \in {"setup", "mk", "rm"} => f_made \subseteq Tree!ToSet(f_dirs)
    /\ f_pc = "mk" => f_files \subseteq Tree!ToSet(f_names)
    /\ f_pc = "rm" => f_files \subseteq {f_names[j] : j \in 1 .. f_left}
    /\ f_pc = "names" => f_made \subseteq {f_dirs[j] : j \in 1 .. f_left}

Idle ==
    /\ f_n = 0 /\ f_ndirs = 0 /\ f_dirs = <<>> /\ f_names = <<>> /\ f_stack = <<>> /\ f_left = 0
    /\ f_made = {} /\ f_files = {}

TreeTypes ==
    /\ f_max \in TreeMaxes /\ f_test \in {"mk", "rm"}
    /\ f_pc \in {"idle", "setup", "mk", "rm", "names", "dead"}
    /\ f_n \in 0 .. TreeFiles /\ f_ndirs \in Nat /\ f_left \in 0 .. f_n + f_ndirs
    /\ Len(f_dirs) <= f_ndirs /\ Len(f_names) <= f_n

TreeInv ==
    /\ TreeTypes
    /\ f_pc = "idle" => Idle
    /\ f_pc = "setup" => Setup
    /\ f_pc \in {"mk", "rm", "names"} =>
         Len(f_dirs) = f_ndirs /\ Len(f_names) = f_n /\ f_stack = <<>>
    /\ f_pc \in {"mk", "rm"} => f_left <= f_n
    /\ f_pc = "names" => f_left <= f_ndirs
    /\ f_pc \in {"setup", "mk", "rm", "names"} => Listed(f_dirs, f_names, f_max) /\ OnDisk

\* Before setup_names() is called.
LEMMA TreeBegins == ASSUME TreeSizes, Tree!Init PROVE TreeInv
  BY DEF TreeSizes, Tree!Init, TreeInv, TreeTypes, Idle

\* What was allocated is what is full when nothing is left to do.
LEMMA TreeImplied == ASSUME TreeInv PROVE Tree!TypeOK /\ Tree!TreeFits /\ Tree!NothingLeft
<1>1. Tree!TypeOK /\ Tree!NothingLeft
  BY DEF TreeInv, TreeTypes, Idle, Tree!TypeOK, Tree!NothingLeft
<1>2. Len(f_dirs) <= f_ndirs /\ Len(f_names) <= f_n
  BY DEF TreeInv, TreeTypes
<1>3. ASSUME f_pc \in {"mk", "rm", "names"}
      PROVE  /\ Len(f_names) = f_n /\ Len(f_dirs) = f_ndirs
             /\ Tree!IsInjective(f_names) /\ Tree!IsInjective(f_dirs)
             /\ \A f \in Tree!ToSet(f_names) : Tree!Front(f) \in Tree!ToSet(f_dirs) /\ Tree!Last(f) < f_max
  <2>1. Len(f_names) = f_n /\ Len(f_dirs) = f_ndirs /\ Listed(f_dirs, f_names, f_max)
    BY <1>3 DEF TreeInv
  <2>2. \A f \in Tree!ToSet(f_names) : \E j \in 1 .. Len(f_names) : f = f_names[j]
    BY <2>1 DEF Listed, Tree!ToSet
  <2> QED BY <2>1, <2>2 DEF Listed
<1> QED BY <1>1, <1>2, <1>3 DEF Tree!TreeFits

\* What setup_names() has computed when the recursion runs.
LEMMA ShapeHere ==
  ASSUME TreeSizes, f_max \in TreeMaxes, NEW count \in 1 .. TreeFiles
  PROVE  /\ Shape(Tree!Levels(count), Tree!Depth(Tree!Levels(count)), Tree!room, f_max)
         /\ Tree!Levels(count)[0] = count /\ Tree!Depth(Tree!Levels(count)) \in 0 .. TreeFiles - 1
<1> DEFINE L == Tree!Levels(count)
           D == Tree!Depth(L)
<1>l. L = Tree!Levels(count)
  OBVIOUS
<1>d. D = Tree!Depth(L)
  OBVIOUS
<1> HIDE DEF L, D
<1>1. TreeFiles \in Nat /\ f_max \in Nat \ {0, 1}
  BY DEF TreeSizes
<1>2. /\ D \in 0 .. TreeFiles - 1 /\ L[D + 1] = 1
      /\ L \in [0 .. TreeFiles -> Nat \ {0}] /\ L[0] = count
      /\ \A k \in 1 .. TreeFiles : L[k] = Tree!Holding(L[k - 1])
  <2>1. LevelsEnd(Tree!Levels(count), Tree!Depth(Tree!Levels(count)), count)
    BY <1>1, DepthFound
  <2> QED BY ONLY <2>1, <1>l, <1>d, Zenon DEF LevelsEnd
<1>3. /\ \A k \in 0 .. TreeFiles : Tree!room[k] \in Nat \ {0}
      /\ Tree!room[0] = 1
      /\ \A k \in 1 .. TreeFiles : Tree!room[k] = Tree!room[k - 1] * f_max
  BY ONLY <1>1, RoomSteps
<1>4. \A k \in 0 .. D + 1 : L[k] \in Nat \ {0} /\ Tree!room[k] \in Nat \ {0}
  <2>1. \A k \in 0 .. D + 1 : k \in 0 .. TreeFiles
    BY ONLY <1>1, <1>2
  <2> QED BY ONLY <2>1, <1>2, <1>3
<1>5. ASSUME NEW k \in 0 .. D
      PROVE  /\ L[k] <= L[k + 1] * f_max /\ Tree!room[k + 1] = Tree!room[k] * f_max
             /\ \A c \in Nat \ {0}, i \in 1 .. f_max : L[k] = (c - 1) * f_max + i => L[k + 1] = c
  <2>1. k + 1 \in 1 .. TreeFiles /\ (k + 1) - 1 = k /\ k \in 0 .. TreeFiles
    BY ONLY <1>1, <1>2, k \in 0 .. D
  <2>2. L[k + 1] = Tree!Holding(L[k]) /\ L[k] \in Nat
    BY ONLY <2>1, <1>2
  <2>3. L[k] <= L[k + 1] * f_max
    BY ONLY <2>2, <1>1, HoldingBounds
  <2>4. Tree!room[k + 1] = Tree!room[k] * f_max
    BY ONLY <2>1, <1>3
  <2>5. ASSUME NEW c \in Nat \ {0}, NEW i \in 1 .. f_max, L[k] = (c - 1) * f_max + i PROVE L[k + 1] = c
    <3>1. c \in Nat /\ c > 0
      OBVIOUS
    <3> QED BY ONLY <3>1, <2>2, <2>5, <1>1, HoldingUnique
  <2> QED BY <2>3, <2>4, <2>5
<1>6. D \in Nat
  BY <1>1, <1>2
<1>7. Shape(L, D, Tree!room, f_max)
  BY ONLY <1>1, <1>2, <1>3, <1>4, <1>5, <1>6 DEF Shape
<1> QED BY <1>2, <1>7 DEF L, D

\* A call made below the others is the last one, and changes none of them.
LEMMA PushedFrame ==
  ASSUME NEW S, NEW t \in Seq(S), NEW f \in S
  PROVE  /\ <<f>> \o t \in Seq(S) /\ Len(<<f>> \o t) = Len(t) + 1 /\ (<<f>> \o t)[1] = f
         /\ \A x \in 2 .. Len(t) + 1 : (<<f>> \o t)[x] = t[x - 1]
OBVIOUS

\* The last call has made one entry more.
LEMMA CountedFrame ==
  ASSUME NEW m \in Nat, NEW g \in Frames(m), g.i < m
  PROVE  LET f == [g EXCEPT !.i = @ + 1] IN
         /\ f \in Frames(m) /\ f.base = g.base /\ f.depth = g.depth
         /\ f.limit = g.limit /\ f.i = g.i + 1
<1>1. /\ g = [base |-> g.base, depth |-> g.depth, i |-> g.i, limit |-> g.limit]
      /\ g.base \in Seq(Nat) /\ g.depth \in Nat /\ g.i \in 0 .. m /\ g.limit \in Nat
  BY DEF Frames
<1>2. [g EXCEPT !.i = @ + 1] = [base |-> g.base, depth |-> g.depth, i |-> g.i + 1, limit |-> g.limit]
  BY <1>1
<1>3. g.i + 1 \in 0 .. m
  BY <1>1
<1> QED BY ONLY <1>1, <1>2, <1>3 DEF Frames

\* The other calls have not.
LEMMA CountedFrames ==
  ASSUME NEW m \in Nat, NEW s \in Seq(Frames(m)), Len(s) > 0, s[1].i < m
  PROVE  LET t == <<[s[1] EXCEPT !.i = @ + 1]>> \o Tail(s) IN
         /\ t \in Seq(Frames(m)) /\ Len(t) = Len(s)
         /\ t[1].base = s[1].base /\ t[1].depth = s[1].depth /\ t[1].limit = s[1].limit
         /\ t[1].i = s[1].i + 1
         /\ \A x \in 2 .. Len(s) : t[x] = s[x]
<1> DEFINE f == [s[1] EXCEPT !.i = @ + 1]
           t == <<[s[1] EXCEPT !.i = @ + 1]>> \o Tail(s)
<1>1. s[1] \in Frames(m)
  OBVIOUS
<1>2. /\ f \in Frames(m) /\ f.base = s[1].base /\ f.depth = s[1].depth
      /\ f.limit = s[1].limit /\ f.i = s[1].i + 1
  BY <1>1, CountedFrame
<1>3. t = <<f>> \o Tail(s)
  OBVIOUS
<1> HIDE DEF f, t
<1>4. /\ Tail(s) \in Seq(Frames(m)) /\ Len(Tail(s)) = Len(s) - 1
      /\ \A x \in 1 .. Len(s) - 1 : Tail(s)[x] = s[x + 1]
  OBVIOUS
<1>5. /\ t \in Seq(Frames(m)) /\ Len(t) = Len(s) /\ t[1] = f
      /\ \A x \in 2 .. Len(s) : t[x] = Tail(s)[x - 1]
  <2> DEFINE r == Tail(s)
  <2>1. r \in Seq(Frames(m)) /\ Len(r) = Len(s) - 1 /\ t = <<f>> \o r /\ Len(s) \in Nat
    BY <1>3, <1>4
  <2> HIDE DEF r
  <2>2. /\ t \in Seq(Frames(m)) /\ Len(t) = Len(r) + 1 /\ t[1] = f
        /\ \A x \in 2 .. Len(r) + 1 : t[x] = r[x - 1]
    BY ONLY <2>1, <1>2, PushedFrame
  <2>3. Len(r) + 1 = Len(s)
    BY <2>1
  <2> QED BY ONLY <2>2, <2>3 DEF r
<1>6. ASSUME NEW x \in 2 .. Len(s) PROVE t[x] = s[x]
  <2>1. x - 1 \in 1 .. Len(s) - 1 /\ (x - 1) + 1 = x
    OBVIOUS
  <2> QED BY <2>1, <1>4, <1>5
<1> QED BY ONLY <1>2, <1>5, <1>6 DEF t

\* Nothing of what setup_names() has computed changes with the recursion.
LEMMA ShapeStays ==
  ASSUME f_max' = f_max, f_n' = f_n
  PROVE  Tree!Levels(f_n)' = Tree!Levels(f_n) /\ Deep' = Deep /\ Tree!room' = Tree!room
<1>1. Tree!Levels(f_n)' = Tree!Levels(f_n)
  BY DEF Tree!Levels, Tree!Holding
<1>2. Deep' = Deep
  BY <1>1 DEF Deep, Tree!Depth
<1>3. Tree!room' = Tree!room
  BY DEF Tree!room
<1> QED BY <1>1, <1>2, <1>3

\* The facts every step of the recursion uses.
LEMMA SetupFacts ==
  ASSUME TreeSizes, TreeInv, f_pc = "setup"
  PROVE  /\ f_max \in Nat \ {0, 1} /\ f_max \in TreeMaxes /\ TreeFiles \in Nat /\ f_n \in 1 .. TreeFiles
         /\ Shape(Tree!Levels(f_n), Deep, Tree!room, f_max) /\ Tree!Levels(f_n)[0] = f_n /\ Deep \in 0 .. TreeFiles - 1
         /\ OpenCalls /\ Listed(f_dirs, f_names, f_max) /\ OnDisk
         /\ Len(f_dirs) \in Nat /\ Len(f_names) \in Nat /\ Len(f_names) <= f_n /\ f_left = 0
         /\ f_ndirs = Tree!Total(Tree!Levels(f_n), Deep + 1)
         /\ f_dirs \in Seq(Seq(Nat)) /\ f_names \in Seq(Seq(Nat))
         /\ Tree!ToSet(f_dirs) \cup Tree!ToSet(f_names) \subseteq Seq(Nat)
<1>1. /\ f_max \in TreeMaxes /\ TreeFiles \in Nat /\ f_max \in Nat \ {0, 1} /\ f_n \in 1 .. TreeFiles /\ Setup
      /\ Listed(f_dirs, f_names, f_max) /\ OnDisk /\ Len(f_names) <= f_n
  BY DEF TreeSizes, TreeInv, TreeTypes, Setup
<1>2. OpenCalls /\ f_left = 0 /\ f_ndirs = Tree!Total(Tree!Levels(f_n), Deep + 1)
  BY <1>1 DEF Setup
<1>3. Shape(Tree!Levels(f_n), Deep, Tree!room, f_max) /\ Tree!Levels(f_n)[0] = f_n /\ Deep \in 0 .. TreeFiles - 1
  BY <1>1, ShapeHere DEF Deep
<1>4. f_dirs \in Seq(Seq(Nat)) /\ f_names \in Seq(Seq(Nat))
  BY <1>1 DEF Listed
<1>5. Len(f_dirs) \in Nat /\ Len(f_names) \in Nat /\ Tree!ToSet(f_dirs) \cup Tree!ToSet(f_names) \subseteq Seq(Nat)
  BY <1>4 DEF Tree!ToSet
<1> QED BY ONLY <1>1, <1>2, <1>3, <1>4, <1>5

\* A loop of setup_names_recurse() that goes on.
LEMMA LoopFacts ==
  ASSUME TreeSizes, TreeInv, f_pc = "setup", f_stack # <<>>, Tree!More
  PROVE  /\ f_stack \in Seq(Frames(f_max)) /\ Len(f_stack) \in 1 .. Deep + 1
         /\ Tree!Top = f_stack[1] /\ Tree!Top \in Frames(f_max) /\ Tree!Top.i < f_max /\ Tree!Top.i < Tree!Top.limit /\ Len(f_names) < f_n
         /\ Tree!Top.base \in Seq(Nat) /\ Tree!Top.base \in Tree!ToSet(f_dirs) /\ Tree!Top.i \in Nat
         /\ Tree!Top.depth = Deep - Len(f_stack) + 1
         /\ Tree!Entry = Append(f_stack[1].base, f_stack[1].i) /\ Tree!Entry \in Seq(Nat)
         /\ Tree!Front(Tree!Entry) \in Tree!ToSet(f_dirs) /\ Tree!Last(Tree!Entry) < f_max
         /\ Tree!Entry \notin Tree!ToSet(f_dirs) \cup Tree!ToSet(f_names)
         /\ Tree!Counted \in Seq(Frames(f_max)) /\ Len(Tree!Counted) = Len(f_stack)
         /\ Tree!Counted[1].base = f_stack[1].base /\ Tree!Counted[1].depth = f_stack[1].depth
         /\ Tree!Counted[1].limit = f_stack[1].limit /\ Tree!Counted[1].i = f_stack[1].i + 1
         /\ \A x \in 2 .. Len(f_stack) : Tree!Counted[x] = f_stack[x]
         /\ Nested(Tree!Counted) /\ Before(Tree!Counted, (Tree!ToSet(f_dirs) \cup Tree!ToSet(f_names)) \cup {Tree!Entry})
<1>1. /\ f_max \in Nat /\ OpenCalls /\ Tree!ToSet(f_dirs) \cup Tree!ToSet(f_names) \subseteq Seq(Nat) /\ Deep \in Nat
  BY SetupFacts
<1>2. /\ f_stack \in Seq(Frames(f_max)) /\ Len(f_stack) <= Deep + 1 /\ Nested(f_stack)
      /\ Before(f_stack, Tree!ToSet(f_dirs) \cup Tree!ToSet(f_names))
      /\ \A x \in 1 .. Len(f_stack) : /\ f_stack[x].depth = Deep - Len(f_stack) + x
                                      /\ f_stack[x].base \in Tree!ToSet(f_dirs)
  BY <1>1 DEF OpenCalls
<1>3. Len(f_stack) \in 1 .. Deep + 1 /\ Tree!Top = f_stack[1] /\ 1 \in 1 .. Len(f_stack) /\ Len(f_stack) > 0
  BY <1>1, <1>2 DEF Tree!Top
<1>4. Tree!Top \in Frames(f_max)
  BY <1>2, <1>3
<1>5. Tree!Top.base \in Seq(Nat) /\ Tree!Top.i \in Nat /\ Tree!Top.i < f_max /\ Tree!Top.i < Tree!Top.limit /\ Len(f_names) < f_n
  BY <1>4 DEF Frames, Tree!More
<1>6. Tree!Top.depth = Deep - Len(f_stack) + 1 /\ Tree!Top.base \in Tree!ToSet(f_dirs)
  BY <1>2, <1>3
<1>7. Tree!Entry = Append(f_stack[1].base, f_stack[1].i) /\ Tree!Counted = <<[f_stack[1] EXCEPT !.i = @ + 1]>> \o Tail(f_stack)
  BY <1>3 DEF Tree!Entry, Tree!Counted
<1>8. Tree!Entry \in Seq(Nat) /\ Tree!Front(Tree!Entry) = Tree!Top.base /\ Tree!Last(Tree!Entry) = Tree!Top.i
  <2>1. Tree!Entry = Append(Tree!Top.base, Tree!Top.i)
    BY DEF Tree!Entry
  <2> QED BY ONLY <2>1, <1>5, EntryPath
<1>9. /\ Tree!Counted \in Seq(Frames(f_max)) /\ Len(Tree!Counted) = Len(f_stack)
      /\ Tree!Counted[1].base = f_stack[1].base /\ Tree!Counted[1].depth = f_stack[1].depth
      /\ Tree!Counted[1].limit = f_stack[1].limit /\ Tree!Counted[1].i = f_stack[1].i + 1
      /\ \A x \in 2 .. Len(f_stack) : Tree!Counted[x] = f_stack[x]
  <2>1. Tree!Top.i < f_max /\ f_stack[1].i < f_max
    BY ONLY <1>3, <1>5
  <2> DEFINE s == f_stack
             t == <<[s[1] EXCEPT !.i = @ + 1]>> \o Tail(s)
  <2>2. /\ f_max \in Nat /\ s \in Seq(Frames(f_max)) /\ Len(s) > 0 /\ s[1].i < f_max
    BY ONLY <2>1, <1>1, <1>2, <1>3
  <2>3. ASSUME f_max \in Nat, s \in Seq(Frames(f_max)), Len(s) > 0, s[1].i < f_max
        PROVE  /\ t \in Seq(Frames(f_max)) /\ Len(t) = Len(s)
               /\ t[1].base = s[1].base /\ t[1].depth = s[1].depth /\ t[1].limit = s[1].limit
               /\ t[1].i = s[1].i + 1
               /\ \A x \in 2 .. Len(s) : t[x] = s[x]
    <3> HIDE DEF s
    <3> QED BY ONLY <2>3, CountedFrames
  <2>4. t = Tree!Counted
    BY ONLY <1>7 DEF s, t
  <2> HIDE DEF t
  <2> QED BY ONLY <2>2, <2>3, <2>4 DEF s
<1>10. /\ Tree!Entry \notin Tree!ToSet(f_dirs) \cup Tree!ToSet(f_names)
       /\ Nested(Tree!Counted) /\ Before(Tree!Counted, (Tree!ToSet(f_dirs) \cup Tree!ToSet(f_names)) \cup {Tree!Entry})
  <2> DEFINE E == Tree!ToSet(f_dirs) \cup Tree!ToSet(f_names)
  <2>1. E \subseteq Seq(Nat) /\ Before(f_stack, E)
    BY <1>1, <1>2
  <2> DEFINE s == f_stack
             t == Tree!Counted
             e == Tree!Entry
  <2>2. /\ f_max \in Nat /\ s \in Seq(Frames(f_max)) /\ Len(s) > 0 /\ Nested(s)
        /\ e = Append(s[1].base, s[1].i)
        /\ Len(t) = Len(s) /\ t[1].base = s[1].base /\ t[1].i = s[1].i + 1
        /\ \A x \in 2 .. Len(s) : t[x] = s[x]
    BY ONLY <1>1, <1>2, <1>3, <1>7, <1>9
  <2> HIDE DEF E, s, t, e
  <2>3. Before(s, E)
    BY <2>1 DEF s
  <2>4. e \notin E /\ Nested(t) /\ Before(t, E \cup {e})
    BY <2>1, <2>2, <2>3, NextEntry
  <2> QED BY <2>4 DEF E, s, t, e
<1> QED BY ONLY <1>2, <1>3, <1>4, <1>5, <1>6, <1>7, <1>8, <1>9, <1>10

\* What is the same in every step of the recursion.
LEMMA SetupNext ==
  ASSUME TreeSizes, TreeInv, f_pc = "setup",
         UNCHANGED <<f_max, f_test, f_pc, f_n, f_ndirs, f_left, f_files>>,
         OpenCalls', Listed(f_dirs', f_names', f_max), f_made' \subseteq Tree!ToSet(f_dirs'),
         Len(f_names') <= f_n,
         NEW c, LevelCounts(c, Tree!Levels(f_n), Deep, Len(f_names'), Len(f_dirs')),
         Filling(c, Tree!Levels(f_n), Deep, Tree!room, f_max, Len(f_names'), f_stack')
  PROVE  TreeInv'
<1>1. /\ Shape(Tree!Levels(f_n), Deep, Tree!room, f_max) /\ f_n \in 1 .. TreeFiles /\ Deep \in Nat
      /\ f_ndirs = Tree!Total(Tree!Levels(f_n), Deep + 1) /\ OnDisk
  BY SetupFacts
<1>2. Tree!Levels(f_n)' = Tree!Levels(f_n) /\ Deep' = Deep /\ Tree!room' = Tree!room
  BY ShapeStays
<1>3. Len(f_dirs') <= f_ndirs
  <2>1. /\ Len(f_dirs') = Tree!Total(c, Deep + 1) /\ Deep + 1 \in Nat
        /\ \A k \in 1 .. Deep + 1 : c[k] \in Nat /\ Tree!Levels(f_n)[k] \in Nat /\ c[k] <= Tree!Levels(f_n)[k]
    BY <1>1 DEF LevelCounts, Shape
  <2>2. Tree!Total(c, Deep + 1) <= Tree!Total(Tree!Levels(f_n), Deep + 1)
    BY ONLY <2>1, TotalGrows
  <2> QED BY <1>1, <2>1, <2>2
<1>4. Setup'
  <2>1. f_n' > 0 /\ f_ndirs' = Tree!Total(Tree!Levels(f_n)', Deep' + 1) /\ f_left' = 0
    BY <1>1, <1>2 DEF TreeInv, Setup
  <2>2. /\ LevelCounts(c, Tree!Levels(f_n)', Deep', Len(f_names'), Len(f_dirs'))
        /\ Filling(c, Tree!Levels(f_n)', Deep', Tree!room', f_max', Len(f_names'), f_stack')
    BY <1>2
  <2> QED BY <2>1, <2>2 DEF Setup
<1>5. OnDisk'
  BY <1>1 DEF OnDisk
<1>6. TreeTypes'
  BY <1>3 DEF TreeInv, TreeTypes
<1> QED BY <1>4, <1>5, <1>6 DEF TreeInv

\* setup_names_recurse() makes a directory and calls itself for it.
LEMMA MakeDirKeeps == ASSUME TreeSizes, TreeInv, Tree!MakeDir PROVE TreeInv'
<1>1. /\ f_pc = "setup" /\ f_stack # <<>> /\ Tree!More /\ Tree!Top.depth > 0
      /\ f_dirs' = Append(f_dirs, Tree!Entry)
      /\ f_stack' = <<Tree!Frame(Tree!Entry, Tree!Top.depth - 1, Len(f_names), f_n)>> \o Tree!Counted
      /\ UNCHANGED <<f_max, f_test, f_pc, f_n, f_ndirs, f_names, f_left, f_files>>
      /\ f_made' \subseteq f_made \cup {Tree!Entry}
  BY DEF Tree!MakeDir
<1>2. /\ f_max \in Nat \ {0, 1} /\ f_n \in Nat /\ Shape(Tree!Levels(f_n), Deep, Tree!room, f_max) /\ Tree!Levels(f_n)[0] = f_n
      /\ OpenCalls /\ Listed(f_dirs, f_names, f_max) /\ OnDisk
      /\ Len(f_dirs) \in Nat /\ Len(f_names) \in Nat /\ Len(f_names) <= f_n /\ Deep \in Nat
      /\ Tree!ToSet(f_dirs) \cup Tree!ToSet(f_names) \subseteq Seq(Nat)
  BY <1>1, SetupFacts
<1>3. /\ f_stack \in Seq(Frames(f_max)) /\ Len(f_stack) \in 1 .. Deep + 1
      /\ Tree!Top = f_stack[1] /\ Tree!Top \in Frames(f_max) /\ Tree!Top.i < f_max /\ Len(f_names) < f_n
      /\ Tree!Top.depth = Deep - Len(f_stack) + 1 /\ Tree!Top.i \in Nat
      /\ Tree!Entry = Append(f_stack[1].base, f_stack[1].i) /\ Tree!Entry \in Seq(Nat)
      /\ Tree!Front(Tree!Entry) \in Tree!ToSet(f_dirs) /\ Tree!Entry \notin Tree!ToSet(f_dirs) \cup Tree!ToSet(f_names)
  BY <1>1, LoopFacts
<1>4. /\ Tree!Counted \in Seq(Frames(f_max)) /\ Len(Tree!Counted) = Len(f_stack)
      /\ Tree!Counted[1].base = f_stack[1].base /\ Tree!Counted[1].depth = f_stack[1].depth
      /\ Tree!Counted[1].limit = f_stack[1].limit /\ Tree!Counted[1].i = f_stack[1].i + 1
      /\ \A x \in 2 .. Len(f_stack) : Tree!Counted[x] = f_stack[x]
  BY <1>1, LoopFacts
<1> DEFINE e == Tree!Entry
           f == Tree!Frame(Tree!Entry, Tree!Top.depth - 1, Len(f_names), f_n)
           s == f_stack
           t == Tree!Counted
           u == f_stack'
           D == Deep
           E == Tree!ToSet(f_dirs) \cup Tree!ToSet(f_names)
<1>5. Len(s) \in 1 .. D /\ Tree!Top.depth - 1 = D - Len(s) /\ D - Len(s) \in 0 .. D + 1
  <2>1. D \in Nat /\ Len(s) \in 1 .. D + 1 /\ Tree!Top.depth = D - Len(s) + 1 /\ Tree!Top.depth > 0
    BY <1>1, <1>2, <1>3
  <2> HIDE DEF D, s
  <2> QED BY ONLY <2>1
<1>6. /\ f.base = e /\ f.depth = D - Len(s) /\ f.i = 0
      /\ f.limit = IF D - Len(s) = 0 THEN f_max ELSE ((f_n - Len(f_names)) \div Tree!room[D - Len(s)]) + 1
  BY <1>5 DEF Tree!Frame
<1>7. f \in Frames(f_max)
  <2>1. f.limit \in Nat
    <3>1. CASE D - Len(s) = 0
      BY <3>1, <1>2, <1>6
    <3>2. CASE D - Len(s) # 0
      <4>1. Tree!room[D - Len(s)] \in Nat \ {0}
        BY <1>2, <1>5 DEF Shape
      <4>2. f_n - Len(f_names) \in Nat
        BY <1>2
      <4>3. (f_n - Len(f_names)) \div Tree!room[D - Len(s)] \in Nat
        BY <4>1, <4>2, DivMod
      <4> HIDE DEF f, D, s
      <4> QED BY ONLY <4>3, <3>2, <1>6
    <3> QED BY <3>1, <3>2
  <2>2. f = [base |-> f.base, depth |-> f.depth, i |-> f.i, limit |-> f.limit]
    BY DEF Tree!Frame
  <2> HIDE DEF f
  <2>3. f.base \in Seq(Nat) /\ f.depth \in Nat /\ f.i \in 0 .. f_max
    BY <1>2, <1>3, <1>5, <1>6
  <2> QED BY ONLY <2>1, <2>2, <2>3 DEF Frames
<1>8. u = <<f>> \o t
  BY <1>1
<1>9. Len(t) = Len(s) /\ t \in Seq(Frames(f_max))
  BY <1>4
<1>f. D = Deep /\ s = f_stack /\ u = f_stack' /\ e = Tree!Entry /\ t = Tree!Counted /\ E = Tree!ToSet(f_dirs) \cup Tree!ToSet(f_names)
  OBVIOUS
<1> HIDE DEF e, f, s, t, u, D, E
<1>10. /\ u \in Seq(Frames(f_max)) /\ Len(u) = Len(t) + 1 /\ u[1] = f
       /\ \A x \in 2 .. Len(t) + 1 : u[x] = t[x - 1]
  BY <1>7, <1>8, <1>9, PushedFrame
<1>11. /\ Len(u) = Len(s) + 1 /\ Len(s) \in Nat /\ u[2] = t[1]
       /\ \A x \in 3 .. Len(u) : u[x] = s[x - 1]
  <2>1. Len(s) \in Nat /\ Len(u) = Len(s) + 1 /\ 2 \in 2 .. Len(t) + 1 /\ 2 - 1 = 1
    BY <1>5, <1>9, <1>10
  <2>2. ASSUME NEW x \in 3 .. Len(u) PROVE u[x] = s[x - 1]
    <3>1. x \in 2 .. Len(t) + 1 /\ x - 1 \in 2 .. Len(s)
      BY <2>1, <1>9
    <3> QED BY ONLY <3>1, <1>4, <1>10, <1>f
  <2> QED BY <2>1, <2>2, <1>10
<1>12. /\ t[1].base = s[1].base /\ t[1].depth = s[1].depth /\ t[1].limit = s[1].limit /\ t[1].i = s[1].i + 1
       /\ \A x \in 2 .. Len(s) : t[x] = s[x]
       /\ e = Append(s[1].base, s[1].i) /\ s[1].i \in Nat
  BY ONLY <1>3, <1>4, <1>f
<1>13. Nested(u) /\ Before(u, E \cup {e})
  <2>1. /\ s \in Seq(Frames(f_max)) /\ Len(s) > 0 /\ E \subseteq Seq(Nat) /\ Nested(s) /\ Before(s, E) /\ f_max \in Nat
    BY <1>2, <1>5, <1>f DEF OpenCalls
  <2>2. u[1].base = e /\ \A x \in 2 .. Len(u) : u[x] = t[x - 1]
    BY <1>6, <1>10
  <2> QED BY ONLY <2>1, <2>2, <1>9, <1>10, <1>12, NextCall
<1>14. /\ Listed(f_dirs', f_names', f_max) /\ Len(f_dirs') = Len(f_dirs) + 1
       /\ Tree!ToSet(f_dirs') = Tree!ToSet(f_dirs) \cup {e}
  <2>1. Listed(f_dirs, f_names, f_max) /\ e \in Seq(Nat) /\ e \notin Tree!ToSet(f_dirs) /\ Tree!Front(e) \in Tree!ToSet(f_dirs)
    BY <1>2, <1>3, <1>f
  <2>2. /\ Listed(Append(f_dirs, e), f_names, f_max) /\ Len(Append(f_dirs, e)) = Len(f_dirs) + 1
        /\ Tree!ToSet(Append(f_dirs, e)) = Tree!ToSet(f_dirs) \cup {e}
    BY ONLY <2>1, ListedDir
  <2>3. f_dirs' = Append(f_dirs, e) /\ f_names' = f_names
    BY <1>1, <1>f
  <2> QED BY ONLY <2>2, <2>3
<1>15. OpenCalls'
  <2>1. Deep' = D /\ f_max' = f_max /\ f_stack' = u
    BY <1>1, <1>f, ShapeStays
  <2>2. Len(u) <= D + 1
    BY ONLY <1>2, <1>5, <1>11, <1>f
  <2>3. \A x \in 1 .. Len(s) : /\ s[x].depth = D - Len(s) + x /\ s[x].base \in Tree!ToSet(f_dirs)
                               /\ s[x].depth = 0 => s[x].limit = f_max
    BY <1>2, <1>f DEF OpenCalls
  <2>4. ASSUME NEW x \in 1 .. Len(u)
        PROVE  /\ u[x].depth = D - Len(u) + x
               /\ u[x].base \in Tree!ToSet(f_dirs')
               /\ u[x].depth = 0 => u[x].limit = f_max
    <3>1. CASE x = 1
      <4>1. D - Len(u) + 1 = D - Len(s)
        BY <1>11, <1>2, <1>f
      <4> QED BY ONLY <4>1, <3>1, <1>6, <1>10, <1>14
    <3>2. CASE x = 2
      <4>1. D - Len(u) + 2 = D - Len(s) + 1 /\ 1 \in 1 .. Len(s)
        BY <1>5, <1>11, <1>2, <1>f
      <4> QED BY ONLY <4>1, <3>2, <2>3, <1>11, <1>12, <1>14
    <3>3. CASE x \in 3 .. Len(u)
      <4>1. D - Len(u) + x = D - Len(s) + (x - 1) /\ x - 1 \in 1 .. Len(s)
        BY <3>3, <1>11, <1>2, <1>f
      <4> QED BY ONLY <4>1, <3>3, <2>3, <1>11, <1>14
    <3>4. x = 1 \/ x = 2 \/ x \in 3 .. Len(u)
      BY <1>11
    <3> QED BY <3>1, <3>2, <3>3, <3>4
  <2>5. Tree!ToSet(f_dirs') \cup Tree!ToSet(f_names') = E \cup {e}
    BY <1>1, <1>14, <1>f
  <2> QED BY ONLY <2>1, <2>2, <2>4, <2>5, <1>10, <1>13 DEF OpenCalls
<1>16. PICK d : /\ LevelCounts(d, Tree!Levels(f_n), D, Len(f_names), Len(f_dirs) + 1)
                /\ Filling(d, Tree!Levels(f_n), D, Tree!room, f_max, Len(f_names), u)
  <2>1. PICK c : /\ LevelCounts(c, Tree!Levels(f_n), D, Len(f_names), Len(f_dirs))
                 /\ Filling(c, Tree!Levels(f_n), D, Tree!room, f_max, Len(f_names), s)
    BY <1>1, <1>f DEF TreeInv, Setup
  <2>2. /\ Len(f_names) < Tree!Levels(f_n)[0] /\ Len(f_names) \in Nat /\ Len(f_dirs) \in Nat
        /\ Shape(Tree!Levels(f_n), D, Tree!room, f_max)
    BY <1>2, <1>3, <1>f
  <2>3. u[1].i = 0 /\ (Len(s) < D => u[1].limit = ((Tree!Levels(f_n)[0] - Len(f_names)) \div Tree!room[D - Len(s)]) + 1)
    <3>1. Len(s) < D => D - Len(s) # 0
      BY <1>2, <1>5, <1>f
    <3> QED BY ONLY <3>1, <1>2, <1>6, <1>10
  <2>4. u[2].i = s[1].i + 1 /\ u[2].limit = s[1].limit
    BY ONLY <1>11, <1>12
  <2> QED BY ONLY <2>1, <2>2, <2>3, <2>4, <1>5, <1>11, <1>12, CountDir
<1>17. f_made' \subseteq Tree!ToSet(f_dirs')
  <2>1. f_made \subseteq Tree!ToSet(f_dirs)
    BY <1>1, <1>2 DEF OnDisk
  <2> QED BY <2>1, <1>1, <1>14, <1>f
<1>18. /\ LevelCounts(d, Tree!Levels(f_n), Deep, Len(f_names'), Len(f_dirs'))
       /\ Filling(d, Tree!Levels(f_n), Deep, Tree!room, f_max, Len(f_names'), f_stack')
  BY <1>16, <1>14, <1>1, <1>f
<1> QED
  <2>1. UNCHANGED <<f_max, f_test, f_pc, f_n, f_ndirs, f_left, f_files>> /\ f_pc = "setup" /\ Len(f_names') <= f_n
    BY <1>1, <1>2
  <2> QED BY ONLY <2>1, <1>14, <1>15, <1>17, <1>18, TreeSizes, TreeInv, SetupNext

\* setup_names_recurse() names a file.
LEMMA NameFileKeeps == ASSUME TreeSizes, TreeInv, Tree!NameFile PROVE TreeInv'
<1>1. /\ f_pc = "setup" /\ f_stack # <<>> /\ Tree!More /\ Tree!Top.depth = 0
      /\ f_names' = Append(f_names, Tree!Entry)
      /\ f_stack' = Tree!Counted
      /\ UNCHANGED <<f_max, f_test, f_pc, f_n, f_ndirs, f_dirs, f_left, f_made, f_files>>
  BY DEF Tree!NameFile
<1>2. /\ f_max \in Nat \ {0, 1} /\ f_n \in Nat /\ Shape(Tree!Levels(f_n), Deep, Tree!room, f_max) /\ Tree!Levels(f_n)[0] = f_n
      /\ OpenCalls /\ Listed(f_dirs, f_names, f_max) /\ OnDisk
      /\ Len(f_dirs) \in Nat /\ Len(f_names) \in Nat /\ Len(f_names) <= f_n /\ Deep \in Nat
  BY <1>1, SetupFacts
<1>3. /\ f_stack \in Seq(Frames(f_max)) /\ Len(f_stack) \in 1 .. Deep + 1
      /\ Tree!Top = f_stack[1] /\ Tree!Top.i < f_max /\ Len(f_names) < f_n
      /\ Tree!Top.depth = Deep - Len(f_stack) + 1
      /\ Tree!Entry \in Seq(Nat)
      /\ Tree!Front(Tree!Entry) \in Tree!ToSet(f_dirs) /\ Tree!Last(Tree!Entry) < f_max
      /\ Tree!Entry \notin Tree!ToSet(f_dirs) \cup Tree!ToSet(f_names)
  BY <1>1, LoopFacts
<1>4. /\ Tree!Counted \in Seq(Frames(f_max)) /\ Len(Tree!Counted) = Len(f_stack)
      /\ Tree!Counted[1].base = f_stack[1].base /\ Tree!Counted[1].depth = f_stack[1].depth
      /\ Tree!Counted[1].limit = f_stack[1].limit /\ Tree!Counted[1].i = f_stack[1].i + 1
      /\ \A x \in 2 .. Len(f_stack) : Tree!Counted[x] = f_stack[x]
      /\ Nested(Tree!Counted) /\ Before(Tree!Counted, (Tree!ToSet(f_dirs) \cup Tree!ToSet(f_names)) \cup {Tree!Entry})
  BY <1>1, LoopFacts
<1> DEFINE e == Tree!Entry
           s == f_stack
           u == f_stack'
           D == Deep
<1>f. D = Deep /\ s = f_stack /\ u = f_stack' /\ e = Tree!Entry /\ u = Tree!Counted
  BY <1>1
<1> HIDE DEF e, s, u, D
<1>5. /\ Listed(f_dirs', f_names', f_max) /\ Len(f_names') = Len(f_names) + 1
      /\ Tree!ToSet(f_names') = Tree!ToSet(f_names) \cup {e}
  <2>1. Listed(f_dirs, f_names, f_max) /\ e \in Seq(Nat) /\ e \notin Tree!ToSet(f_names) /\ Tree!Front(e) \in Tree!ToSet(f_dirs) /\ Tree!Last(e) < f_max
    BY <1>2, <1>3, <1>f
  <2>2. /\ Listed(f_dirs, Append(f_names, e), f_max) /\ Len(Append(f_names, e)) = Len(f_names) + 1
        /\ Tree!ToSet(Append(f_names, e)) = Tree!ToSet(f_names) \cup {e}
    BY ONLY <2>1, ListedName
  <2>3. f_names' = Append(f_names, e) /\ f_dirs' = f_dirs
    BY <1>1, <1>f
  <2> QED BY ONLY <2>2, <2>3
<1>6. /\ u \in Seq(Frames(f_max)) /\ Len(u) = Len(s) /\ Len(s) \in 1 .. D + 1
      /\ u[1].base = s[1].base /\ u[1].depth = s[1].depth
      /\ u[1].limit = s[1].limit /\ u[1].i = s[1].i + 1
      /\ \A x \in 2 .. Len(s) : u[x] = s[x]
  BY ONLY <1>3, <1>4, <1>f
<1>7. OpenCalls'
  <2>1. Deep' = D /\ f_max' = f_max /\ f_stack' = u
    BY <1>1, <1>f, ShapeStays
  <2>2. Len(u) <= D + 1
    BY ONLY <1>2, <1>6, <1>f
  <2>3. \A x \in 1 .. Len(s) : /\ s[x].depth = D - Len(s) + x /\ s[x].base \in Tree!ToSet(f_dirs)
                               /\ s[x].depth = 0 => s[x].limit = f_max
    BY <1>2, <1>f DEF OpenCalls
  <2>4. ASSUME NEW x \in 1 .. Len(u)
        PROVE  /\ u[x].depth = D - Len(u) + x
               /\ u[x].base \in Tree!ToSet(f_dirs')
               /\ u[x].depth = 0 => u[x].limit = f_max
    <3>1. x = 1 \/ x \in 2 .. Len(s)
      BY <1>6
    <3>2. f_dirs' = f_dirs
      BY <1>1
    <3> QED BY ONLY <3>1, <3>2, <2>3, <1>6, x \in 1 .. Len(u)
  <2>5. (Tree!ToSet(f_dirs) \cup Tree!ToSet(f_names)) \cup {e} = Tree!ToSet(f_dirs') \cup Tree!ToSet(f_names')
    BY <1>1, <1>5
  <2>6. Nested(u) /\ Before(u, Tree!ToSet(f_dirs') \cup Tree!ToSet(f_names'))
    BY ONLY <2>5, <1>4, <1>f
  <2> QED BY ONLY <2>1, <2>2, <2>4, <2>6, <1>6 DEF OpenCalls
<1>8. PICK d : /\ LevelCounts(d, Tree!Levels(f_n), D, Len(f_names) + 1, Len(f_dirs))
               /\ Filling(d, Tree!Levels(f_n), D, Tree!room, f_max, Len(f_names) + 1, u)
  <2>1. PICK c : /\ LevelCounts(c, Tree!Levels(f_n), D, Len(f_names), Len(f_dirs))
                 /\ Filling(c, Tree!Levels(f_n), D, Tree!room, f_max, Len(f_names), s)
    BY <1>1, <1>f DEF TreeInv, Setup
  <2>2. /\ Len(f_names) < Tree!Levels(f_n)[0] /\ Len(f_names) \in Nat /\ Len(f_dirs) \in Nat
        /\ Shape(Tree!Levels(f_n), D, Tree!room, f_max)
    BY <1>2, <1>3, <1>f
  <2>3. Len(s) = D + 1
    BY <1>1, <1>2, <1>3, <1>f
  <2>4. \A x \in 1 .. Len(s) : s[x].i \in 0 .. f_max /\ (x > 1 => s[x].i > 0)
    <3>1. \A x \in 1 .. Len(s) : s[x].i \in 0 .. f_max
      <4>1. \A x \in 1 .. Len(s) : s[x] \in Frames(f_max)
        BY <1>3, <1>f
      <4>2. \A g \in Frames(f_max) : g.i \in 0 .. f_max
        BY DEF Frames
      <4> QED BY ONLY <4>1, <4>2
    <3>2. Nested(s) /\ 1 \in 1 .. Len(s)
      BY <1>2, <1>6, <1>f DEF OpenCalls
    <3>3. \A x \in 1 .. Len(s) : x > 1 => s[x].i > 0
      BY ONLY <3>2 DEF Nested
    <3> QED BY <3>1, <3>3
  <2>5. s[1].i < f_max
    BY <1>3, <1>f
  <2> QED BY ONLY <2>1, <2>2, <2>3, <2>4, <2>5, <1>6, CountFile
<1>9. /\ LevelCounts(d, Tree!Levels(f_n), Deep, Len(f_names'), Len(f_dirs'))
      /\ Filling(d, Tree!Levels(f_n), Deep, Tree!room, f_max, Len(f_names'), f_stack')
  BY <1>8, <1>5, <1>1, <1>f
<1>10. f_made' \subseteq Tree!ToSet(f_dirs') /\ Len(f_names') <= f_n
  BY <1>1, <1>2, <1>3, <1>5 DEF OnDisk
<1> QED
  <2>1. UNCHANGED <<f_max, f_test, f_pc, f_n, f_ndirs, f_left, f_files>> /\ f_pc = "setup"
    BY <1>1
  <2> QED BY ONLY <2>1, <1>5, <1>7, <1>9, <1>10, TreeSizes, TreeInv, SetupNext

\* setup_names_recurse() returns, and the loop that called it counts.
LEMMA RecurseReturnsKeeps == ASSUME TreeSizes, TreeInv, Tree!RecurseReturns PROVE TreeInv'
<1>1. /\ f_pc = "setup" /\ f_stack # <<>> /\ ~ Tree!More /\ f_stack' = Tail(f_stack)
      /\ UNCHANGED <<f_max, f_test, f_pc, f_n, f_ndirs, f_dirs, f_names, f_left, f_made, f_files>>
  BY DEF Tree!RecurseReturns
<1>2. /\ f_max \in Nat \ {0, 1} /\ f_n \in Nat /\ Shape(Tree!Levels(f_n), Deep, Tree!room, f_max) /\ Tree!Levels(f_n)[0] = f_n
      /\ OpenCalls /\ Listed(f_dirs, f_names, f_max) /\ OnDisk
      /\ Len(f_dirs) \in Nat /\ Len(f_names) \in Nat /\ Len(f_names) <= f_n /\ Deep \in Nat
  BY <1>1, SetupFacts
<1> DEFINE s == f_stack
           u == f_stack'
           D == Deep
<1>f. D = Deep /\ s = f_stack /\ u = f_stack'
  OBVIOUS
<1>3. /\ s \in Seq(Frames(f_max)) /\ Len(s) <= D + 1 /\ Nested(s)
      /\ Before(s, Tree!ToSet(f_dirs) \cup Tree!ToSet(f_names))
      /\ \A x \in 1 .. Len(s) : /\ s[x].depth = D - Len(s) + x /\ s[x].base \in Tree!ToSet(f_dirs)
                                /\ s[x].depth = 0 => s[x].limit = f_max
  BY <1>2 DEF OpenCalls
<1>4. /\ u \in Seq(Frames(f_max)) /\ Len(u) = Len(s) - 1 /\ Len(s) \in Nat /\ Len(s) > 0
      /\ \A x \in 1 .. Len(u) : u[x] = s[x + 1]
  BY <1>1, <1>3
<1> HIDE DEF s, u, D
<1>5. Len(s) \in 1 .. D + 1 /\ 1 \in 1 .. Len(s)
  BY <1>2, <1>3, <1>4, <1>f
<1>6. \A x \in 1 .. Len(u) : x + 1 \in 1 .. Len(s) /\ D - Len(u) + x = D - Len(s) + (x + 1)
  BY <1>2, <1>4, <1>f
<1>7. OpenCalls'
  <2>1. Deep' = D /\ f_max' = f_max /\ f_stack' = u /\ f_dirs' = f_dirs /\ f_names' = f_names
    BY <1>1, <1>f, ShapeStays
  <2>2. Len(u) <= D + 1
    BY ONLY <1>2, <1>4, <1>5, <1>f
  <2>3. ASSUME NEW x \in 1 .. Len(u)
        PROVE  /\ u[x].depth = D - Len(u) + x
               /\ u[x].base \in Tree!ToSet(f_dirs)
               /\ u[x].depth = 0 => u[x].limit = f_max
    BY ONLY <1>3, <1>4, <1>6, x \in 1 .. Len(u)
  <2>4. Nested(u)
    <3> SUFFICES ASSUME NEW x \in 1 .. Len(u), NEW y \in 1 .. Len(u), x < y
                 PROVE  u[y].i > 0 /\ Through(u[x].base, u[y].base, u[y].i - 1)
      BY DEF Nested
    <3>1. x + 1 \in 1 .. Len(s) /\ y + 1 \in 1 .. Len(s) /\ x + 1 < y + 1 /\ u[x] = s[x + 1] /\ u[y] = s[y + 1]
      BY <1>4, <1>6
    <3> QED BY ONLY <3>1, <1>3 DEF Nested
  <2>5. Before(u, Tree!ToSet(f_dirs) \cup Tree!ToSet(f_names))
    BY ONLY <1>3, <1>4, <1>6 DEF Before
  <2> QED BY ONLY <2>1, <2>2, <2>3, <2>4, <2>5, <1>4 DEF OpenCalls
<1>8. PICK c : /\ LevelCounts(c, Tree!Levels(f_n), D, Len(f_names), Len(f_dirs))
               /\ Filling(c, Tree!Levels(f_n), D, Tree!room, f_max, Len(f_names), s)
  BY <1>1, <1>f DEF TreeInv, Setup
<1>9. Filling(c, Tree!Levels(f_n), D, Tree!room, f_max, Len(f_names), u)
  <2>1. ~ (s[1].i < f_max /\ s[1].i < s[1].limit /\ Len(f_names) < Tree!Levels(f_n)[0])
    <3>1. Tree!Top = s[1]
      BY <1>1, <1>3, <1>f DEF Tree!Top
    <3> QED BY <3>1, <1>1, <1>2 DEF Tree!More
  <2>2. s[1].i \in 0 .. f_max
    <3>1. s[1] \in Frames(f_max)
      BY <1>3, <1>5
    <3> QED BY <3>1 DEF Frames
  <2>3. D + 1 - Len(s) = 0 => s[1].limit = f_max
    <3>1. D + 1 - Len(s) = D - Len(s) + 1
      BY <1>2, <1>4, <1>f
    <3> QED BY ONLY <3>1, <1>3, <1>5
  <2>4. /\ Len(f_names) \in Nat /\ Len(f_dirs) \in Nat /\ Shape(Tree!Levels(f_n), D, Tree!room, f_max)
    BY <1>2, <1>f
  <2> QED BY ONLY <2>1, <2>2, <2>3, <2>4, <1>4, <1>5, <1>8, CountReturn
<1>10. /\ LevelCounts(c, Tree!Levels(f_n), Deep, Len(f_names'), Len(f_dirs'))
       /\ Filling(c, Tree!Levels(f_n), Deep, Tree!room, f_max, Len(f_names'), f_stack')
  BY <1>8, <1>9, <1>1, <1>f
<1>11. /\ f_made' \subseteq Tree!ToSet(f_dirs') /\ Len(f_names') <= f_n /\ Listed(f_dirs', f_names', f_max)
       /\ UNCHANGED <<f_max, f_test, f_pc, f_n, f_ndirs, f_left, f_files>> /\ f_pc = "setup"
  BY <1>1, <1>2 DEF OnDisk
<1> QED BY ONLY <1>7, <1>10, <1>11, TreeSizes, TreeInv, SetupNext

\* setup_names() computes its sizes and calls setup_names_recurse().
LEMMA SetupNamesKeeps == ASSUME TreeSizes, TreeInv, Tree!setup_names PROVE TreeInv'
<1>1. PICK iterations \in 1 .. TreeFiles :
        /\ f_n' = iterations
        /\ f_ndirs' = Tree!Total(Tree!Levels(iterations), Tree!Depth(Tree!Levels(iterations)) + 1)
        /\ f_stack' = <<Tree!Frame(<<>>, Tree!Depth(Tree!Levels(iterations)), 0, iterations)>>
  BY DEF Tree!setup_names
<1>2. /\ f_pc = "idle" /\ f_pc' = "setup" /\ f_dirs' = <<<<>>>> /\ f_made' = {<<>>}
      /\ UNCHANGED <<f_max, f_test, f_names, f_left, f_files, f_fails>>
  BY DEF Tree!setup_names
<1>3. /\ f_max \in TreeMaxes /\ f_max \in Nat \ {0, 1} /\ TreeFiles \in Nat /\ f_names = <<>> /\ f_left = 0 /\ f_files = {}
      /\ f_test \in {"mk", "rm"}
  BY <1>2 DEF TreeInv, TreeTypes, Idle, TreeSizes
<1> DEFINE L == Tree!Levels(iterations)
           D == Tree!Depth(L)
           f == Tree!Frame(<<>>, D, 0, iterations)
           u == <<f>>
<1>4. Shape(L, D, Tree!room, f_max) /\ L[0] = iterations /\ D \in 0 .. TreeFiles - 1
  BY <1>3, ShapeHere
<1>f. f_n' = iterations /\ f_ndirs' = Tree!Total(L, D + 1) /\ f_stack' = u
  BY <1>1
<1>5. Tree!Levels(f_n)' = L /\ Deep' = D /\ Tree!room' = Tree!room
  <2>1. Tree!Levels(f_n)' = L
    BY <1>1, <1>2 DEF Tree!Levels, Tree!Holding
  <2>2. Deep' = D
    BY <2>1 DEF Deep, Tree!Depth
  <2>3. Tree!room' = Tree!room
    BY <1>2 DEF Tree!room
  <2> QED BY <2>1, <2>2, <2>3
<1> HIDE DEF D, L
<1>6. /\ f.base = <<>> /\ f.depth = D /\ f.i = 0
      /\ f.limit = IF D = 0 THEN f_max ELSE (iterations \div Tree!room[D]) + 1
  BY DEF Tree!Frame
<1>7. f \in Frames(f_max)
  <2>1. f.limit \in Nat
    <3>1. CASE D = 0
      BY <3>1, <1>3, <1>6
    <3>2. CASE D # 0
      <4>1. Tree!room[D] \in Nat \ {0} /\ iterations \in Nat
        <5>1. D \in 0 .. D + 1
          BY <1>3, <1>4
        <5> QED BY <5>1, <1>4 DEF Shape
      <4>2. iterations \div Tree!room[D] \in Nat
        BY <4>1, DivMod
      <4> HIDE DEF f
      <4> QED BY ONLY <4>2, <3>2, <1>6
    <3> QED BY <3>1, <3>2
  <2>2. f = [base |-> f.base, depth |-> f.depth, i |-> f.i, limit |-> f.limit]
    BY DEF Tree!Frame
  <2> HIDE DEF f
  <2>3. f.base \in Seq(Nat) /\ f.depth \in Nat /\ f.i \in 0 .. f_max
    BY <1>3, <1>4, <1>6
  <2> QED BY ONLY <2>1, <2>2, <2>3 DEF Frames
<1> HIDE DEF f
<1>8. u \in Seq(Frames(f_max)) /\ Len(u) = 1 /\ u[1] = f
  BY <1>7
<1> HIDE DEF u
<1>9. /\ Tree!ToSet(f_dirs') = {<<>>} /\ Len(f_dirs') = 1 /\ f_dirs' \in Seq(Seq(Nat)) /\ f_dirs'[1] = <<>>
      /\ f_names' = <<>> /\ Len(f_names') = 0 /\ f_names' \in Seq(Seq(Nat)) /\ Tree!ToSet(f_names') = {}
  BY <1>2, <1>3 DEF Tree!ToSet
<1>10. Listed(f_dirs', f_names', f_max')
  <2>1. Tree!IsInjective(f_dirs') /\ Tree!IsInjective(f_names')
    BY <1>2, <1>3 DEF Tree!IsInjective
  <2> QED BY <2>1, <1>9 DEF Listed
<1>11. OpenCalls'
  <2>1. Deep' = D /\ f_max' = f_max /\ f_stack' = u /\ D \in Nat
    BY <1>2, <1>5, <1>f, <1>4
  <2>2. Nested(u)
    BY <1>8 DEF Nested
  <2>3. Before(u, Tree!ToSet(f_dirs') \cup Tree!ToSet(f_names'))
    BY <1>8, <1>6, <1>9 DEF Before, Through
  <2>4. ASSUME NEW x \in 1 .. Len(u)
        PROVE  /\ u[x].depth = D - Len(u) + x
               /\ u[x].base \in Tree!ToSet(f_dirs')
               /\ u[x].depth = 0 => u[x].limit = f_max
    <3>1. x = 1 /\ D - 1 + 1 = D
      BY <1>8, <2>1
    <3> QED BY <3>1, <1>6, <1>8, <1>9
  <2>5. Len(u) <= D + 1
    BY <1>8, <2>1
  <2> QED BY ONLY <2>1, <2>2, <2>3, <2>4, <2>5, <1>8 DEF OpenCalls
<1> DEFINE c == [k \in 0 .. D + 1 |-> IF k = D + 1 THEN 1 ELSE 0]
<1>12. /\ D \in Nat /\ c \in [0 .. D + 1 -> Nat] /\ c[D + 1] = 1 /\ c[0] = 0
       /\ \A k \in 0 .. D : c[k] = 0
       /\ \A k \in 0 .. D + 1 : L[k] \in Nat \ {0} /\ Tree!room[k] \in Nat \ {0} /\ c[k] <= L[k]
  <2>1. D \in Nat
    BY <1>4
  <2>2. \A k \in 0 .. D + 1 : L[k] \in Nat \ {0} /\ Tree!room[k] \in Nat \ {0}
    BY <1>4 DEF Shape
  <2> QED BY <2>1, <2>2
<1> HIDE DEF c
<1>13. LevelCounts(c, L, D, 0, 1)
  <2>1. Tree!Total(c, D + 1) = 1
    <3>1. D + 1 \in Nat \ {0} /\ \A k \in 1 .. (D + 1) - 1 : c[k] = 0
      BY <1>12
    <3> QED BY ONLY <3>1, <1>12, TotalOne
  <2>2. L[0] # 0
    BY <1>12
  <2> QED BY ONLY <2>1, <2>2, <1>12 DEF LevelCounts
<1>14. Filling(c, L, D, Tree!room, f_max, 0, u)
  <2>1. Len(u) > 0 /\ D + 1 - Len(u) = D /\ D - Len(u) = D - 1
    BY <1>8, <1>12
  <2>2. ASSUME NEW k \in 0 .. D PROVE c[k] < L[k] /\ 0 = c[k] * Tree!room[k]
    <3>1. k \in 0 .. D + 1 /\ c[k] = 0
      BY <1>12
    <3> QED BY ONLY <3>1, <1>12
  <2>3. ASSUME NEW k \in 0 .. D - 1 PROVE c[k] = c[k + 1] * f_max
    <3>1. k \in 0 .. D /\ k + 1 \in 0 .. D
      BY <1>12
    <3>2. c[k] = 0 /\ c[k + 1] = 0
      BY <3>1, <1>12
    <3> QED BY ONLY <3>2, <1>3
  <2>4. ASSUME NEW x \in 1 .. Len(u)
        PROVE  LET k == D - Len(u) + x IN
               /\ c[k] = (c[k + 1] - 1) * f_max + u[x].i
               /\ k > 0 => u[x].limit = ((L[0] - (c[k + 1] - 1) * Tree!room[k + 1]) \div Tree!room[k]) + 1
    <3>1. x = 1 /\ D - Len(u) + x = D
      BY <1>8, <1>12
    <3>2. c[D] = 0 /\ c[D + 1] = 1 /\ D \in 0 .. D /\ D + 1 \in 0 .. D + 1
      BY <1>12
    <3>3. (1 - 1) * f_max = 0 /\ (1 - 1) * Tree!room[D + 1] = 0 /\ L[0] - 0 = iterations
      BY <1>3, <1>4, <1>12, <3>2
    <3>4. u[1].i = 0 /\ (D > 0 => u[1].limit = (iterations \div Tree!room[D]) + 1)
      BY <1>6, <1>8, <1>12
    <3> QED BY ONLY <3>1, <3>2, <3>3, <3>4
  <2> QED BY ONLY <2>1, <2>2, <2>3, <2>4 DEF Filling
<1>15. Tree!Total(c, D + 1) <= Tree!Total(L, D + 1) /\ Tree!Total(L, D + 1) \in Nat /\ Tree!Total(c, D + 1) = 1
  <2>1. D + 1 \in Nat /\ \A k \in 1 .. D + 1 : c[k] \in Nat /\ L[k] \in Nat /\ c[k] <= L[k]
    BY <1>12
  <2> QED BY ONLY <2>1, <1>13, TotalGrows DEF LevelCounts
<1>16. Setup'
  <2>1. f_n' > 0 /\ f_ndirs' = Tree!Total(Tree!Levels(f_n)', Deep' + 1) /\ f_left' = 0
    BY <1>f, <1>2, <1>3, <1>5
  <2>2. /\ LevelCounts(c, Tree!Levels(f_n)', Deep', Len(f_names'), Len(f_dirs'))
        /\ Filling(c, Tree!Levels(f_n)', Deep', Tree!room', f_max', Len(f_names'), f_stack')
    BY <1>13, <1>14, <1>f, <1>2, <1>5, <1>9
  <2> QED BY <2>1, <2>2, <1>11 DEF Setup
<1>17. TreeTypes'
  BY <1>2, <1>3, <1>f, <1>9, <1>15 DEF TreeTypes
<1>18. OnDisk'
  BY <1>2, <1>3, <1>9 DEF OnDisk
<1> QED BY <1>2, <1>10, <1>16, <1>17, <1>18 DEF TreeInv

\* All calls have returned: every file has a name, every level is complete.
LEMMA SetupReturnsKeeps == ASSUME TreeSizes, TreeInv, Tree!SetupReturns PROVE TreeInv'
<1>1. /\ f_pc = "setup" /\ f_stack = <<>> /\ f_pc' = "mk" /\ f_left' = f_n
      /\ UNCHANGED <<f_max, f_test, f_n, f_ndirs, f_dirs, f_names, f_stack, f_made, f_files, f_fails>>
  BY DEF Tree!SetupReturns, Tree!Turn
<1>2. /\ f_n \in Nat /\ Tree!Levels(f_n)[0] = f_n /\ Listed(f_dirs, f_names, f_max) /\ OnDisk
      /\ Len(f_names) \in Nat /\ Len(f_names) <= f_n /\ Deep \in Nat /\ f_ndirs = Tree!Total(Tree!Levels(f_n), Deep + 1)
      /\ Shape(Tree!Levels(f_n), Deep, Tree!room, f_max)
  BY <1>1, SetupFacts
<1>3. PICK c : /\ LevelCounts(c, Tree!Levels(f_n), Deep, Len(f_names), Len(f_dirs))
               /\ Filling(c, Tree!Levels(f_n), Deep, Tree!room, f_max, Len(f_names), f_stack)
  BY <1>1 DEF TreeInv, Setup
<1>4. Len(f_names) = f_n
  <2>1. Len(f_stack) = 0
    BY <1>1
  <2> QED BY <2>1, <1>2, <1>3 DEF Filling
<1>5. Len(f_dirs) = f_ndirs
  <2>1. /\ Deep + 1 \in Nat /\ Len(f_dirs) = Tree!Total(c, Deep + 1)
        /\ \A k \in 1 .. Deep + 1 : c[k] \in Nat /\ Tree!Levels(f_n)[k] \in Nat /\ c[k] = Tree!Levels(f_n)[k]
    BY <1>2, <1>3, <1>4 DEF LevelCounts, Shape
  <2>2. \A k \in 1 .. Deep + 1 : c[k] <= Tree!Levels(f_n)[k]
    BY <2>1
  <2>3. Tree!Total(c, Deep + 1) = Tree!Total(Tree!Levels(f_n), Deep + 1)
    BY ONLY <2>1, <2>2, TotalGrows
  <2> QED BY <2>1, <2>3, <1>2
<1>6. OnDisk'
  BY <1>1, <1>2 DEF OnDisk
<1>7. TreeTypes'
  BY <1>1 DEF TreeInv, TreeTypes
<1> QED BY <1>1, <1>2, <1>4, <1>5, <1>6, <1>7 DEF TreeInv

\* A file is made, or creat() fails.
LEMMA MkKeeps == ASSUME TreeSizes, TreeInv, Tree!benchmark_mk PROVE TreeInv'
<1>1. /\ f_pc = "mk" /\ Len(f_dirs) = f_ndirs /\ Len(f_names) = f_n /\ f_stack = <<>> /\ f_left <= f_n
      /\ Listed(f_dirs, f_names, f_max) /\ OnDisk /\ TreeTypes
  BY DEF Tree!benchmark_mk, TreeInv
<1>2. Tree!ToSet(f_names) = {f_names[j] : j \in 1 .. Len(f_names)}
  <2>1. DOMAIN f_names = 1 .. Len(f_names)
    BY <1>1 DEF Listed
  <2> QED BY <2>1, Zenon DEF Tree!ToSet
<1>3. CASE f_left = 0 /\ Tree!Turn("rm", f_n)
  <2>1. OnDisk'
    BY <1>1, <1>2, <1>3 DEF Tree!Turn, OnDisk
  <2>2. TreeTypes'
    BY <1>1, <1>3 DEF Tree!Turn, TreeTypes
  <2> QED BY <1>1, <1>3, <2>1, <2>2 DEF Tree!Turn, TreeInv
<1>4. CASE f_left > 0 /\ f_left' = f_left - 1 /\ Tree!mkfile(f_names[f_left])
           /\ UNCHANGED <<f_max, f_test, f_pc, f_n, f_ndirs, f_dirs, f_names, f_stack, f_made>>
  <2>1. f_left \in Nat /\ f_left \in 1 .. Len(f_names) /\ f_left' \in 0 .. f_n + f_ndirs /\ f_left' <= f_n
    BY <1>1, <1>4 DEF TreeTypes
  <2>2. f_names[f_left] \in Tree!ToSet(f_names)
    BY <2>1, <1>2
  <2>3. f_files' \subseteq f_files \cup {f_names[f_left]}
    BY <1>4 DEF Tree!mkfile
  <2>4. OnDisk'
    BY <1>1, <1>4, <2>2, <2>3 DEF OnDisk
  <2>5. TreeTypes'
    BY <1>1, <1>4, <2>1 DEF TreeTypes
  <2> QED BY <1>1, <1>4, <2>1, <2>4, <2>5 DEF TreeInv
<1> QED BY <1>3, <1>4 DEF Tree!benchmark_mk

\* A file is removed.
LEMMA RmKeeps == ASSUME TreeSizes, TreeInv, Tree!benchmark_rm PROVE TreeInv'
<1>1. /\ f_pc = "rm" /\ Len(f_dirs) = f_ndirs /\ Len(f_names) = f_n /\ f_stack = <<>> /\ f_left <= f_n
      /\ Listed(f_dirs, f_names, f_max) /\ OnDisk /\ TreeTypes
  BY DEF Tree!benchmark_rm, TreeInv
<1>2. Tree!ToSet(f_dirs) = {f_dirs[j] : j \in 1 .. Len(f_dirs)}
  <2>1. DOMAIN f_dirs = 1 .. Len(f_dirs)
    BY <1>1 DEF Listed
  <2> QED BY <2>1, Zenon DEF Tree!ToSet
<1>3. CASE f_left = 0 /\ Tree!Turn("names", f_ndirs)
  <2>1. OnDisk'
    BY <1>1, <1>2, <1>3 DEF Tree!Turn, OnDisk
  <2>2. TreeTypes'
    BY <1>1, <1>3 DEF Tree!Turn, TreeTypes
  <2>3. f_ndirs <= f_ndirs
    BY <1>1 DEF TreeTypes
  <2> QED BY <1>1, <1>3, <2>1, <2>2, <2>3 DEF Tree!Turn, TreeInv
<1>4. CASE f_left > 0 /\ f_left' = f_left - 1 /\ f_files' = f_files \ {f_names[f_left]}
           /\ UNCHANGED <<f_max, f_test, f_pc, f_n, f_ndirs, f_dirs, f_names, f_stack, f_made, f_fails>>
  <2>1. f_left \in Nat /\ f_left' \in 0 .. f_n + f_ndirs /\ f_left' <= f_n
    BY <1>1, <1>4 DEF TreeTypes
  <2>2. \A j \in 1 .. f_left : j # f_left => j \in 1 .. f_left'
    BY <2>1, <1>4
  <2>3. f_files' \subseteq {f_names[j] : j \in 1 .. f_left'}
    BY <1>1, <1>4, <2>2 DEF OnDisk
  <2>4. OnDisk'
    BY <1>1, <1>4, <2>3 DEF OnDisk
  <2>5. TreeTypes'
    BY <1>1, <1>4, <2>1 DEF TreeTypes
  <2> QED BY <1>1, <1>4, <2>1, <2>4, <2>5 DEF TreeInv
<1> QED BY <1>3, <1>4 DEF Tree!benchmark_rm

\* A directory is removed after all that are listed behind it, so it is
\* empty then.
LEMMA CleanupKeeps == ASSUME TreeSizes, TreeInv, Tree!cleanup_names PROVE TreeInv'
<1>1. /\ f_pc = "names" /\ Len(f_dirs) = f_ndirs /\ Len(f_names) = f_n /\ f_stack = <<>> /\ f_left <= f_ndirs
      /\ Listed(f_dirs, f_names, f_max) /\ OnDisk /\ TreeTypes
      /\ f_left > 0 /\ f_left' = f_left - 1
      /\ f_made' = IF f_left <= Len(f_dirs) /\ Tree!Empty(f_dirs[f_left]) THEN f_made \ {f_dirs[f_left]} ELSE f_made
      /\ UNCHANGED <<f_max, f_test, f_pc, f_n, f_ndirs, f_dirs, f_names, f_stack, f_files, f_fails>>
  BY DEF Tree!cleanup_names, TreeInv
<1>2. f_left \in 1 .. Len(f_dirs) /\ Len(f_dirs) \in Nat /\ f_left' \in 0 .. f_n + f_ndirs /\ f_left' <= f_ndirs
  BY <1>1 DEF TreeTypes
<1>3. f_made \subseteq {f_dirs[j] : j \in 1 .. f_left} /\ f_files = {}
  BY <1>1 DEF OnDisk
<1>4. Tree!Empty(f_dirs[f_left])
  <2> SUFFICES ASSUME NEW entry \in f_made, entry # <<>>, Tree!Front(entry) = f_dirs[f_left] PROVE FALSE
    BY <1>3 DEF Tree!Empty
  <2>1. PICK j \in 1 .. f_left : entry = f_dirs[j]
    BY <1>3
  <2>2. j \in 1 .. Len(f_dirs)
    BY <1>2
  <2>3. PICK h \in 1 .. j - 1 : f_dirs[h] = Tree!Front(f_dirs[j])
    BY <1>1, <2>1, <2>2 DEF Listed
  <2>4. h \in 1 .. Len(f_dirs) /\ h # f_left
    BY <1>2, <2>2
  <2>5. DOMAIN f_dirs = 1 .. Len(f_dirs)
    BY <1>1 DEF Listed
  <2>6. f_dirs[h] = f_dirs[f_left]
    BY <2>1, <2>3
  <2> QED BY <2>4, <2>5, <2>6, <1>1, <1>2 DEF Listed, Tree!IsInjective
<1>5. \A j \in 1 .. f_left : j # f_left => j \in 1 .. f_left'
  BY <1>1, <1>2
<1>6. f_made' \subseteq {f_dirs[j] : j \in 1 .. f_left'}
  BY <1>1, <1>2, <1>3, <1>4, <1>5
<1>7. OnDisk'
  BY <1>1, <1>3, <1>6 DEF OnDisk
<1>8. TreeTypes'
  BY <1>1, <1>2 DEF TreeTypes
<1> QED BY <1>1, <1>2, <1>7, <1>8 DEF TreeInv

\* Every step.
LEMMA TreeKeeps == ASSUME TreeSizes, TreeInv, [Tree!Next]_(Tree!vars) PROVE TreeInv'
<1>1. CASE Tree!setup_names
  BY <1>1, SetupNamesKeeps
<1>2. CASE Tree!MakeDir
  BY <1>2, MakeDirKeeps
<1>3. CASE Tree!NameFile
  BY <1>3, NameFileKeeps
<1>4. CASE Tree!RecurseReturns
  BY <1>4, RecurseReturnsKeeps
<1>5. CASE Tree!SetupReturns
  BY <1>5, SetupReturnsKeeps
<1>6. CASE Tree!benchmark_mk
  BY <1>6, MkKeeps
<1>7. CASE Tree!benchmark_rm
  BY <1>7, RmKeeps
<1>8. CASE Tree!cleanup_names
  BY <1>8, CleanupKeeps
<1>9. CASE Tree!CleanupReturns
  <2>1. /\ f_pc = "names" /\ f_left = 0 /\ f_stack = <<>> /\ OnDisk /\ TreeTypes /\ f_pc' = "idle"
        /\ f_test' \in {f_test, "rm"} /\ f_n' = 0 /\ f_ndirs' = 0 /\ f_dirs' = <<>> /\ f_names' = <<>>
        /\ UNCHANGED <<f_max, f_stack, f_left, f_made, f_files, f_fails>>
    BY <1>9 DEF Tree!CleanupReturns, TreeInv
  <2>2. f_made = {} /\ f_files = {}
    BY <2>1 DEF OnDisk
  <2>3. Idle'
    BY <2>1, <2>2 DEF Idle
  <2>4. TreeTypes'
    BY <2>1 DEF TreeTypes, TreeSizes
  <2> QED BY <2>1, <2>3, <2>4 DEF TreeInv
<1>10. CASE Tree!Killed
  BY <1>10 DEF Tree!Killed, TreeInv, TreeTypes
<1>11. CASE UNCHANGED Tree!vars
  <2>1. UNCHANGED <<f_max, f_test, f_pc, f_n, f_ndirs, f_dirs, f_names, f_stack, f_left, f_made, f_files>>
    BY <1>11 DEF Tree!vars
  <2>2. Tree!Levels(f_n)' = Tree!Levels(f_n) /\ Deep' = Deep /\ Tree!room' = Tree!room
    BY <2>1, ShapeStays
  <2>3. Setup => Setup'
    <3> SUFFICES ASSUME Setup PROVE Setup'
      OBVIOUS
    <3>1. OpenCalls'
      BY <2>1, <2>2 DEF Setup, OpenCalls
    <3> QED BY <2>1, <2>2, <3>1 DEF Setup
  <2>4. TreeTypes' /\ (Idle => Idle') /\ (OnDisk => OnDisk')
    BY <2>1 DEF TreeInv, TreeTypes, Idle, OnDisk
  <2> QED BY <2>1, <2>3, <2>4 DEF TreeInv
<1> QED BY <1>1, <1>2, <1>3, <1>4, <1>5, <1>6, <1>7, <1>8, <1>9, <1>10, <1>11 DEF Tree!Next

-----------------------------------------------------------------------------
(* lmdd.c.  InPlace follows from where the two files stand: between two    *)
(* blocks the output is at `off', or the one child will bring it there,    *)
(* and the input is ahead of it by the padding, or at its end.             *)
CONSTANTS
    Bsize, InSize, Areas, CopyEnds, CopyCounts, Millis, MaxIos, CopyFaults

VARIABLES
    d_opt, d_pc, d_count, d_off, d_pos, d_got, d_ints, d_shifts, d_sigs,
    d_pad, d_tab, d_norepeats, d_kids, d_log, d_hist, d_done, d_faults

Copy == INSTANCE Lmdd WITH
    Bsize <- Bsize, InSize <- InSize, Areas <- Areas, Ends <- CopyEnds,
    Counts <- CopyCounts, Millis <- Millis, MaxIos <- MaxIos,
    Faults <- CopyFaults,
    opt <- d_opt, pc <- d_pc, count <- d_count, off <- d_off, pos <- d_pos,
    got <- d_got, ints <- d_ints, shifts <- d_shifts, sigs <- d_sigs,
    pad <- d_pad, tab <- d_tab, norepeats <- d_norepeats, kids <- d_kids,
    log <- d_log, hist <- d_hist, done <- d_done, faults <- d_faults

\* Blocks of at least a byte.
CopySizes ==
    /\ Bsize \in Nat \ {0} /\ InSize \in Nat /\ MaxIos \in Nat
    /\ Areas \subseteq Nat /\ CopyEnds \subseteq Nat /\ CopyCounts \subseteq Nat
    /\ Millis \subseteq Nat

CopyWrites == [at : Nat, off : Nat, from : Nat, n : Nat]
CopyKids == [off : Nat, from : Nat, n : Nat, at : {"write", "count", "exit"}, ints : Nat]
Ending == {"done", "shifted", "over"}

CopyTypes ==
    /\ d_opt \in Copy!Options
    /\ d_pc \in {"loop", "read", "got", "written", "forked"} \cup Ending
    /\ d_count \in Int /\ (d_opt.cnt # Copy!None => d_count \in 0 .. d_opt.cnt)
    /\ d_off \in Nat /\ d_ints \in Nat /\ d_shifts \in Nat /\ d_sigs \in Nat
    /\ d_pos \in [in : Nat, out : Nat]
    /\ d_got \in [from : Nat, n : Nat]
    /\ d_pad \in BOOLEAN
    /\ d_tab \in [-1 .. MaxIos -> Nat] /\ d_norepeats \in -1 .. MaxIos
    /\ d_kids \subseteq CopyKids
    /\ d_log \in Seq(CopyWrites)
    /\ d_done \in [timed : Nat, counted : Nat, drawn : Seq(Nat), lost : Nat]
    /\ d_faults \in Nat

(* What a padding read has shifted the input by.                           *)
Padding == IF d_opt.pad THEN Bsize ELSE 0
Padded == IF d_opt.pad /\ ~ d_pad THEN Bsize ELSE 0

(* The table: what was drawn, from the second on; entry -1 is the first.   *)
Remembered ==
    /\ Len(d_done.drawn) <= MaxIos
    /\ d_opt.norepeat => /\ d_norepeats = Len(d_done.drawn) - 1
                         /\ \A i \in -1 .. d_norepeats - 1 : d_tab[i] = d_done.drawn[i + 2]
    /\ d_pad => d_opt.pad
    /\ d_opt.mode # "seq" => ~ d_opt.pad

(* A sequential copy reads where it stands.                                *)
BlockHere == d_got.from = d_off + Padding /\ d_pos.in = d_off + Padding + d_got.n

InputHere ==
    d_opt.mode = "seq" /\ d_opt.in /\ d_faults = 0 =>
        /\ d_pc = "read" => ~ d_pad /\ (d_got.n = 0 \/ BlockHere)
        /\ d_pc \in {"got", "written", "forked"} => ~ d_pad /\ BlockHere
        /\ d_pc = "loop" => d_pos.in = d_off + Padded \/ d_pos.in >= InSize

(* ... and writes where it stands, or its child does.                      *)
Stands == IF d_pc \in {"written", "forked"} THEN d_off + d_got.n ELSE d_off

OutputHere ==
    /\ ~ d_opt.fork => d_kids = {}
    /\ \A k, l \in d_kids : k = l
    /\ d_opt.mode = "seq" /\ d_faults = 0 /\ d_opt.out =>
        /\ \A k \in d_kids : k.at = "write" =>
              k.off = d_pos.out /\ (d_opt.in => k.from = k.off + Padding)
        /\ d_pc \notin Ending =>
              /\ (\A k \in d_kids : k.at # "write") => d_pos.out = Stands
              /\ \A k \in d_kids : k.at = "write" => k.off + k.n = Stands
    /\ d_opt.mode # "seq" /\ d_pc \in {"read", "got"} /\ ~ d_opt.fork => d_pos.out = d_off
    /\ d_opt.mode = "seq" /\ d_log # <<>> => d_pos.out = d_log[Len(d_log)].at + d_log[Len(d_log)].n

CopyInv == /\ CopyTypes /\ Remembered /\ InputHere /\ OutputHere
           /\ Copy!InPlace /\ Copy!InArea /\ Copy!RepeatsOnlyFirst


-----------------------------------------------------------------------------
(* Multiples of the block size.                                            *)
LEMMA SmallerMultiple ==
  ASSUME NEW q \in Int, NEW r \in Int, NEW b \in Nat \ {0}
  PROVE  /\ q * b \in Int
         /\ q < r => q * b + b <= r * b
         /\ q <= r => q * b <= r * b
         /\ q * b < r * b => q < r
<1>1. q < r => q * b + b <= r * b
  <2> SUFFICES ASSUME q < r PROVE q * b + b <= r * b
    OBVIOUS
  <2>1. r - q - 1 \in Nat /\ (r - q - 1) * b \in Nat /\ r * b = q * b + b + (r - q - 1) * b
    OBVIOUS
  <2>2. q * b \in Int
    OBVIOUS
  <2> QED BY <2>1, <2>2
<1>2. r <= q => r * b <= q * b
  <2> SUFFICES ASSUME r <= q PROVE r * b <= q * b
    OBVIOUS
  <2>1. q - r \in Nat /\ (q - r) * b \in Nat /\ q * b = r * b + (q - r) * b
    OBVIOUS
  <2>2. r * b \in Int
    OBVIOUS
  <2> QED BY <2>1, <2>2
<1>3. q * b \in Int /\ r * b \in Int
  OBVIOUS
<1>4. q < r \/ q = r \/ q > r
  OBVIOUS
<1> QED BY <1>1, <1>2, <1>3, <1>4

\* A quotient times its divisor, and what is missing.
LEMMA Divides ==
  ASSUME NEW a \in Int, NEW b \in Nat \ {0}
  PROVE  a \div b \in Int /\ (a \div b) * b <= a /\ a < (a \div b) * b + b
  OBVIOUS

(* ALIGN rounds up to a multiple of the block size, by less than a block,  *)
(* and keeps the order.                                                    *)
LEMMA Rounded ==
  ASSUME CopySizes, NEW x \in Int
  PROVE  /\ Copy!RoundTo(x) \in Int /\ x <= Copy!RoundTo(x) /\ Copy!RoundTo(x) <= x + Bsize - 1
         /\ \A y \in Int : x <= y => Copy!RoundTo(x) <= Copy!RoundTo(y)
         /\ \A y \in Int : x < Copy!RoundTo(y) - Bsize + 1 => Copy!RoundTo(x) <= Copy!RoundTo(y) - Bsize
<1> DEFINE q(z) == (z + Bsize - 1) \div Bsize
<1>1. Bsize \in Nat \ {0}
  BY DEF CopySizes
<1>2. \A z \in Int : /\ q(z) \in Int /\ q(z) * Bsize \in Int /\ Copy!RoundTo(z) = q(z) * Bsize
                     /\ q(z) * Bsize <= z + Bsize - 1 /\ z + Bsize - 1 < q(z) * Bsize + Bsize
  <2> SUFFICES ASSUME NEW z \in Int
               PROVE  /\ q(z) \in Int /\ q(z) * Bsize \in Int /\ Copy!RoundTo(z) = q(z) * Bsize
                      /\ q(z) * Bsize <= z + Bsize - 1 /\ z + Bsize - 1 < q(z) * Bsize + Bsize
    OBVIOUS
  <2>1. z + Bsize - 1 \in Int
    BY <1>1
  <2>2. q(z) \in Int /\ q(z) * Bsize <= z + Bsize - 1 /\ z + Bsize - 1 < q(z) * Bsize + Bsize
    BY <1>1, <2>1, Divides
  <2>3. q(z) * Bsize \in Int
    BY <1>1, <2>2, SmallerMultiple
  <2> QED BY <2>2, <2>3 DEF Copy!RoundTo
<1> HIDE DEF q
<1>3. \A y \in Int : x <= y => Copy!RoundTo(x) <= Copy!RoundTo(y)
  <2> SUFFICES ASSUME NEW y \in Int, x <= y PROVE q(x) * Bsize <= q(y) * Bsize
    BY <1>2
  <2>1. q(x) * Bsize < q(y) * Bsize + Bsize
    BY <1>1, <1>2
  <2>2. q(x) * Bsize < (q(y) + 1) * Bsize /\ q(y) + 1 \in Int
    BY <1>1, <1>2, <2>1
  <2>3. q(x) < q(y) + 1
    BY <1>1, <1>2, <2>2, SmallerMultiple
  <2>4. q(x) \in Int /\ q(y) \in Int /\ q(x) <= q(y)
    BY <1>2, <2>3
  <2> QED BY <1>1, <2>4, SmallerMultiple
<1>4. \A y \in Int : x < Copy!RoundTo(y) - Bsize + 1 => Copy!RoundTo(x) <= Copy!RoundTo(y) - Bsize
  <2> SUFFICES ASSUME NEW y \in Int, x < q(y) * Bsize - Bsize + 1 PROVE q(x) * Bsize <= q(y) * Bsize - Bsize
    BY <1>2
  <2>1. q(x) * Bsize < q(y) * Bsize
    BY <1>1, <1>2
  <2>2. q(x) < q(y)
    BY <1>1, <1>2, <2>1, SmallerMultiple
  <2>3. q(x) * Bsize + Bsize <= q(y) * Bsize
    BY <1>1, <1>2, <2>2, SmallerMultiple
  <2> QED BY <1>1, <1>2, <2>3
<1> QED BY <1>1, <1>2, <1>3, <1>4

(* What read() returns: a block, what is left of the input, or nothing.    *)
LEMMA Amount ==
  ASSUME CopySizes, NEW a \in Nat
  PROVE  Copy!Max({0, Copy!Min({Bsize, InSize - a})})
           = IF InSize <= a THEN 0 ELSE IF InSize - a < Bsize THEN InSize - a ELSE Bsize
<1>1. Bsize \in Nat \ {0} /\ InSize - a \in Int
  BY DEF CopySizes
<1>2. \A x, y \in Int : Copy!Min({x, y}) = IF x <= y THEN x ELSE y
  <2> SUFFICES ASSUME NEW x \in Int, NEW y \in Int PROVE Copy!Min({x, y}) = IF x <= y THEN x ELSE y
    OBVIOUS
  <2>1. \E z \in {x, y} : \A w \in {x, y} : z <= w
    OBVIOUS
  <2>2. Copy!Min({x, y}) \in {x, y} /\ \A w \in {x, y} : Copy!Min({x, y}) <= w
    BY <2>1 DEF Copy!Min
  <2> QED BY <2>2
<1>3. \A x, y \in Int : Copy!Max({x, y}) = IF x <= y THEN y ELSE x
  <2> SUFFICES ASSUME NEW x \in Int, NEW y \in Int PROVE Copy!Max({x, y}) = IF x <= y THEN y ELSE x
    OBVIOUS
  <2>1. \E z \in {x, y} : \A w \in {x, y} : z >= w
    OBVIOUS
  <2>2. Copy!Max({x, y}) \in {x, y} /\ \A w \in {x, y} : Copy!Max({x, y}) >= w
    BY <2>1 DEF Copy!Max
  <2> QED BY <2>2
<1>4. Copy!Min({Bsize, InSize - a}) = IF Bsize <= InSize - a THEN Bsize ELSE InSize - a
  BY <1>1, <1>2
<1>5. Copy!Max({0, Copy!Min({Bsize, InSize - a})})
        = IF 0 <= Copy!Min({Bsize, InSize - a}) THEN Copy!Min({Bsize, InSize - a}) ELSE 0
  BY <1>1, <1>3, <1>4
<1> QED BY <1>1, <1>4, <1>5 DEF CopySizes

\* A number of whole words.
LEMMA WholeNat == ASSUME NEW n \in Nat PROVE Copy!Whole(n) \in Nat
BY DEF Copy!Whole

(* What the arguments are.                                                 *)
LEMMA OptTypes ==
  ASSUME CopySizes, d_opt \in Copy!Options
  PROVE  /\ d_opt.in \in BOOLEAN /\ d_opt.out \in BOOLEAN /\ d_opt.pad \in BOOLEAN
         /\ d_opt.fork \in BOOLEAN /\ d_opt.norepeat \in BOOLEAN
         /\ d_opt.mode \in Copy!Modes /\ d_opt.cnt \in Int /\ d_opt.skip \in {0, 1}
         /\ d_opt.cnt # Copy!None => d_opt.cnt \in Nat
         /\ d_opt.area \in Nat /\ d_opt.end \in Nat /\ d_opt.end <= d_opt.area
         /\ d_opt.norepeat => d_opt.mode # "seq"
         /\ d_opt.mode # "seq" => ~ d_opt.pad
         /\ d_opt.fork => d_opt.out
<1>1. /\ d_opt \in [in : BOOLEAN, out : BOOLEAN, cnt : CopyCounts \cup {Copy!None}, mode : Copy!Modes, area : Areas,
                 end : CopyEnds, skip : {0, 1}, pad : BOOLEAN, fork : BOOLEAN, norepeat : BOOLEAN,
                 rt : {Copy!None, 10, 15}]
      /\ d_opt.norepeat => d_opt.mode # "seq"
      /\ d_opt.fork => d_opt.out
      /\ d_opt.mode # "seq" => ~ d_opt.pad
      /\ d_opt.end <= d_opt.area
  BY DEF Copy!Options
<1>2. /\ d_opt.in \in BOOLEAN /\ d_opt.out \in BOOLEAN /\ d_opt.pad \in BOOLEAN
      /\ d_opt.fork \in BOOLEAN /\ d_opt.norepeat \in BOOLEAN
      /\ d_opt.mode \in Copy!Modes /\ d_opt.cnt \in CopyCounts \cup {Copy!None} /\ d_opt.skip \in {0, 1}
      /\ d_opt.area \in Areas /\ d_opt.end \in CopyEnds
  BY <1>1
<1>3. d_opt.area \in Nat /\ d_opt.end \in Nat
  BY <1>2 DEF CopySizes
<1>4. d_opt.cnt \in Int /\ (d_opt.cnt # Copy!None => d_opt.cnt \in Nat)
  <2>1. d_opt.cnt \in CopyCounts \/ d_opt.cnt = Copy!None
    BY <1>2
  <2>2. Copy!None \in Int
    BY DEF Copy!None
  <2>3. \A c \in CopyCounts : c \in Nat /\ c \in Int
    BY DEF CopySizes
  <2>4. CASE d_opt.cnt \in CopyCounts
    BY <2>3, <2>4, Zenon
  <2>5. CASE d_opt.cnt = Copy!None
    BY <2>2, <2>5, Zenon
  <2> QED BY <2>1, <2>4, <2>5
<1> QED BY <1>1, <1>2, <1>3, <1>4

\* Whether a random offset is odd or even is what its half leaves.
LEMMA Parity ==
  ASSUME NEW n \in Nat
  PROVE  n % 2 = 0 <=> (n + 1) % 2 = 1
  OBVIOUS

(* Every offset drawn next is in the area, at the end of it or at its      *)
(* start in turn with `end'.                                               *)
LEMMA DrawnInArea ==
  ASSUME CopySizes, d_opt \in Copy!Options, d_off \in Nat, d_done.drawn \in Seq(Nat), NEW o \in Copy!Drawn
  PROVE  /\ o \in Nat
         /\ d_opt.mode = "seq" => o = d_off
         /\ d_opt.mode = "rand" => o + Bsize <= d_opt.area
         /\ d_opt.mode = "end" =>
              LET part == IF (Len(d_done.drawn) + 1) % 2 = 1 THEN d_opt.area - d_opt.end ELSE 0
              IN  o \in part .. part + Copy!RoundTo(d_opt.end)
<1>1. /\ d_opt.mode \in Copy!Modes /\ d_opt.area \in Nat /\ d_opt.end \in Nat
      /\ d_opt.end <= d_opt.area /\ Bsize \in Nat \ {0} /\ Len(d_done.drawn) \in Nat
  BY OptTypes DEF CopySizes
<1>2. CASE d_opt.mode = "seq"
  BY <1>2 DEF Copy!Drawn
<1>3. CASE d_opt.mode = "rand"
  <2> DEFINE size == Copy!RoundTo(d_opt.area - Bsize)
  <2>1. PICK x \in 0 .. size - Bsize - 1 : o = Copy!RoundTo(x)
    BY <1>3 DEF Copy!Drawn
  <2>2. d_opt.area - Bsize \in Int
    BY <1>1
  <2>3. size \in Int /\ size <= d_opt.area - Bsize + Bsize - 1
    BY <2>2, Rounded
  <2>4. x \in Int /\ 0 <= x /\ x < size - Bsize + 1
    BY <2>1, <2>3, <1>1
  <2>5. Copy!RoundTo(x) \in Int /\ x <= Copy!RoundTo(x) /\ Copy!RoundTo(x) <= size - Bsize
    BY <2>2, <2>4, Rounded
  <2> HIDE DEF size
  <2> QED BY <2>1, <2>3, <2>4, <2>5, <1>1, <1>3
<1>4. CASE d_opt.mode = "end"
  <2> DEFINE s == IF Len(d_done.drawn) % 2 = 0 THEN d_opt.area - d_opt.end ELSE 0
  <2>1. PICK x \in 0 .. d_opt.end - 1 : o = Copy!RoundTo(x) + s
    <3>1. Copy!Drawn = {Copy!RoundTo(y) + t : y \in 0 .. d_opt.end - 1, t \in {s}}
      BY <1>4 DEF Copy!Drawn
    <3> HIDE DEF s
    <3> QED BY <3>1
  <2>2. x \in Int /\ 0 <= x /\ x <= d_opt.end /\ d_opt.end \in Int
    BY <2>1, <1>1
  <2>3. /\ Copy!RoundTo(x) \in Int /\ x <= Copy!RoundTo(x)
        /\ \A y \in Int : x <= y => Copy!RoundTo(x) <= Copy!RoundTo(y)
    BY <2>2, Rounded
  <2>4. Copy!RoundTo(x) <= Copy!RoundTo(d_opt.end) /\ Copy!RoundTo(d_opt.end) \in Int
    BY <2>2, <2>3, Rounded
  <2>5. Len(d_done.drawn) % 2 = 0 <=> (Len(d_done.drawn) + 1) % 2 = 1
    BY <1>1, Parity
  <2>6. s = IF (Len(d_done.drawn) + 1) % 2 = 1 THEN d_opt.area - d_opt.end ELSE 0
    BY <2>5
  <2>7. s \in Nat
    <3>1. d_opt.area - d_opt.end \in Nat
      BY <1>1
    <3> QED BY <3>1
  <2> HIDE DEF s
  <2>8. o \in s .. s + Copy!RoundTo(d_opt.end) /\ o \in Nat
    BY <2>1, <2>2, <2>3, <2>4, <2>7
  <2> QED BY <2>6, <2>8, <1>4
<1> QED BY <1>1, <1>2, <1>3, <1>4 DEF Copy!Modes

-----------------------------------------------------------------------------
(* The steps of lmdd.                                                      *)
LEMMA CopyBegins == ASSUME CopySizes, Copy!Init PROVE CopyInv
<1>1. /\ Bsize \in Nat \ {0} /\ MaxIos \in Nat /\ d_opt \in Copy!Options
      /\ d_opt.skip \in {0, 1} /\ d_opt.cnt \in Int /\ (d_opt.cnt # Copy!None => d_opt.cnt \in Nat)
      /\ d_opt.pad \in BOOLEAN /\ (d_opt.mode # "seq" => ~d_opt.pad)
  BY OptTypes DEF Copy!Init, CopySizes
<1>2. d_opt.skip * Bsize \in Nat
  BY <1>1
<1>3. d_log = <<>> /\ d_done.drawn = <<>> /\ d_kids = {} /\ d_norepeats = -1 /\ d_faults = 0 /\ d_pc = "loop"
  BY DEF Copy!Init
<1>4. CopyTypes
  BY <1>1, <1>2 DEF Copy!Init, CopyTypes
<1>5. Remembered
  BY <1>1, <1>3 DEF Remembered, Copy!Init
<1>6. InputHere
  BY <1>1, <1>2 DEF InputHere, Copy!Init, Padded
<1>7. OutputHere
  BY <1>3, <1>2 DEF OutputHere, Stands, Copy!Init
<1>8. Copy!InPlace /\ Copy!InArea /\ Copy!RepeatsOnlyFirst
  BY <1>3 DEF Copy!InPlace, Copy!InArea, Copy!RepeatsOnlyFirst, Copy!Range
<1> QED BY <1>4, <1>5, <1>6, <1>7, <1>8 DEF CopyInv

(* The program ends, and nothing else happens.                             *)
LEMMA EndKeeps ==
  ASSUME CopySizes, CopyInv, d_pc' \in Ending, d_faults' \in Nat, d_faults' >= d_faults,
         d_shifts' \in Nat, d_sigs' \in Nat,
         UNCHANGED <<d_opt, d_count, d_off, d_pos, d_got, d_ints, d_pad, d_tab, d_norepeats, d_kids, d_log, d_done>>
  PROVE  CopyInv'
<1>1. CopyTypes /\ Remembered /\ InputHere /\ OutputHere /\ Copy!InPlace /\ Copy!InArea /\ Copy!RepeatsOnlyFirst
  BY DEF CopyInv
<1>2. d_faults' = 0 => d_faults = 0
  BY <1>1 DEF CopyTypes
<1>3. CopyTypes' /\ Remembered' /\ Copy!InArea' /\ Copy!RepeatsOnlyFirst'
  BY <1>1 DEF CopyTypes, Remembered, Copy!InArea, Copy!RepeatsOnlyFirst
<1>4. InputHere'
  BY DEF InputHere, Ending
<1>5. OutputHere'
  BY <1>1, <1>2 DEF OutputHere, Padding, Ending
<1>6. Copy!InPlace'
  BY <1>1, <1>2 DEF Copy!InPlace
<1> QED BY <1>3, <1>4, <1>5, <1>6 DEF CopyInv

(* What is left alone when nothing is drawn.                               *)
LEMMA DrawsNothing ==
  ASSUME Remembered, Copy!InArea, Copy!RepeatsOnlyFirst,
         UNCHANGED <<d_opt, d_pad, d_tab, d_norepeats>>, d_done'.drawn = d_done.drawn
  PROVE  Remembered' /\ Copy!InArea' /\ Copy!RepeatsOnlyFirst'
  BY DEF Remembered, Copy!InArea, Copy!RepeatsOnlyFirst

(* A write, by the process itself or by a child.                           *)
LEMMA WrittenInPlace ==
  ASSUME CopySizes, CopyTypes, OutputHere, Copy!InPlace, NEW w, Copy!Written(w), UNCHANGED d_opt,
         w.off \in Nat, w.from \in Nat, w.n \in Nat, d_faults' = d_faults,
         d_opt.mode = "seq" /\ d_faults = 0 =>
            d_pos.out = w.off /\ (d_opt.in => w.from = w.off + Padding),
         d_opt.mode # "seq" /\ ~d_opt.fork => d_pos.out = w.off
  PROVE  /\ Copy!InPlace' /\ d_log' \in Seq(CopyWrites)
         /\ d_pos' \in [in : Nat, out : Nat] /\ d_pos'.in = d_pos.in /\ d_pos'.out = d_pos.out + w.n
         /\ d_log' # <<>> /\ d_pos'.out = d_log'[Len(d_log')].at + d_log'[Len(d_log')].n
<1> DEFINE e == [at |-> d_pos.out, off |-> w.off, from |-> w.from, n |-> w.n]
<1>1. /\ d_log \in Seq(CopyWrites) /\ d_pos \in [in : Nat, out : Nat] /\ d_pos.out \in Nat /\ d_pos.in \in Nat
      /\ w.off \in Nat /\ w.from \in Nat /\ w.n \in Nat /\ Len(d_log) \in Nat
  BY DEF CopyTypes
<1>2. /\ e \in CopyWrites /\ e.at = d_pos.out /\ e.off = w.off /\ e.from = w.from /\ e.n = w.n
  BY <1>1 DEF CopyWrites
<1>3. d_log' = Append(d_log, e) /\ d_pos' = [d_pos EXCEPT !.out = @ + w.n]
  BY DEF Copy!Written
<1> HIDE DEF e
<1>4. /\ d_log' \in Seq(CopyWrites) /\ Len(d_log') = Len(d_log) + 1 /\ d_log'[Len(d_log) + 1] = e
      /\ \A i \in 1 .. Len(d_log) : d_log'[i] = d_log[i]
  BY <1>1, <1>2, <1>3
<1>5. d_pos' \in [in : Nat, out : Nat] /\ d_pos'.in = d_pos.in /\ d_pos'.out = d_pos.out + w.n
  BY <1>1, <1>3
<1>6. \A x \in Copy!Range(d_log') : x \in Copy!Range(d_log) \/ x = e
  <2> SUFFICES ASSUME NEW i \in 1 .. Len(d_log') PROVE d_log'[i] \in Copy!Range(d_log) \/ d_log'[i] = e
    BY <1>4 DEF Copy!Range
  <2>1. CASE i \in 1 .. Len(d_log)
    BY <2>1, <1>1, <1>4 DEF Copy!Range
  <2>2. CASE i = Len(d_log) + 1
    BY <2>2, <1>4
  <2> QED BY <2>1, <2>2, <1>1, <1>4
<1>7. \A x \in Copy!Range(d_log') : d_opt.mode = "seq" /\ d_faults = 0 =>
            x.at = x.off /\ (d_opt.in => x.from = x.at + (IF d_opt.pad THEN Bsize ELSE 0))
  BY <1>2, <1>6 DEF Copy!InPlace, Padding
<1>8. \A x \in Copy!Range(d_log') : d_opt.mode # "seq" /\ ~ d_opt.fork => x.at = x.off
  BY <1>2, <1>6 DEF Copy!InPlace
<1>9. d_opt.mode = "seq" => \A i \in 2 .. Len(d_log') : d_log'[i].at = d_log'[i - 1].at + d_log'[i - 1].n
  <2> SUFFICES ASSUME d_opt.mode = "seq", NEW i \in 2 .. Len(d_log')
               PROVE  d_log'[i].at = d_log'[i - 1].at + d_log'[i - 1].n
    OBVIOUS
  <2>1. CASE i \in 2 .. Len(d_log)
    <3>1. i \in 1 .. Len(d_log) /\ i - 1 \in 1 .. Len(d_log)
      BY <2>1, <1>1
    <3> QED BY <2>1, <3>1, <1>4 DEF Copy!InPlace
  <2>2. CASE i = Len(d_log) + 1
    <3>1. Len(d_log) \in 1 .. Len(d_log) /\ d_log # <<>> /\ i - 1 = Len(d_log)
      BY <2>2, <1>1, <1>4
    <3>2. d_pos.out = d_log[Len(d_log)].at + d_log[Len(d_log)].n
      BY <3>1 DEF OutputHere
    <3> QED BY <2>2, <3>1, <3>2, <1>2, <1>4
  <2> QED BY <2>1, <2>2, <1>1, <1>4
<1>10. Copy!InPlace'
  BY <1>7, <1>8, <1>9 DEF Copy!InPlace
<1> QED BY <1>1, <1>2, <1>4, <1>5, <1>10

(* The end of an iteration: the input has been read up to here.            *)
LEMMA CountKeeps == ASSUME CopySizes, CopyInv, Copy!CountBlock PROVE CopyInv'
<1>1. CopyTypes /\ Remembered /\ InputHere /\ OutputHere /\ Copy!InPlace /\ Copy!InArea /\ Copy!RepeatsOnlyFirst
  BY DEF CopyInv
<1>2. /\ d_pc \in {"written", "forked"} /\ d_pc' = "loop"
      /\ d_off' = d_off + d_got.n /\ d_ints' = d_ints + Copy!Whole(d_got.n)
      /\ d_done' = [d_done EXCEPT !.counted = @ + 1]
      /\ UNCHANGED <<d_opt, d_count, d_pos, d_got, d_shifts, d_sigs, d_pad, d_tab, d_norepeats, d_kids, d_log, d_faults>>
  BY DEF Copy!CountBlock, Copy!ending, Copy!drawing
<1>3. /\ d_off \in Nat /\ d_ints \in Nat /\ d_got.n \in Nat /\ d_got.from \in Nat /\ d_pos.in \in Nat
      /\ d_done \in [timed : Nat, counted : Nat, drawn : Seq(Nat), lost : Nat]
  BY <1>1 DEF CopyTypes
<1>4. /\ d_done' \in [timed : Nat, counted : Nat, drawn : Seq(Nat), lost : Nat]
      /\ d_done'.drawn = d_done.drawn
  <2>1. d_done.counted + 1 \in Nat
    BY <1>3
  <2> QED BY <1>2, <1>3, <2>1
<1>5. Remembered' /\ Copy!InArea' /\ Copy!RepeatsOnlyFirst'
  BY <1>1, <1>2, <1>4, DrawsNothing
<1>6. InputHere'
  <2> SUFFICES ASSUME d_opt.mode = "seq", d_opt.in, d_faults = 0 PROVE d_pos.in = d_off + d_got.n + Padded
    BY <1>2 DEF InputHere, Padded
  <2>1. ~d_pad /\ d_pos.in = d_off + Padding + d_got.n
    BY <1>1, <1>2 DEF InputHere, BlockHere
  <2>2. Padded = Padding /\ Padding \in Nat
    <3>1. Padded = Padding
      BY <2>1 DEF Padded, Padding
    <3>2. Bsize \in Nat /\ Padding \in {0, Bsize}
      BY DEF Padding, CopySizes
    <3> QED BY <3>1, <3>2
  <2> QED BY <1>3, <2>1, <2>2
<1>7. d_off' \in Nat /\ d_ints' \in Nat
  BY <1>2, <1>3, WholeNat
<1>8. CopyTypes'
  BY <1>1, <1>2, <1>4, <1>7 DEF CopyTypes
<1>9. OutputHere'
  <2>1. d_pc \notin Ending /\ Stands = d_off' /\ Stands' = d_off'
    BY <1>2 DEF Stands, Ending
  <2>2. Padding' = Padding
    BY <1>2 DEF Padding
  <2> QED BY <1>1, <1>2, <2>1, <2>2 DEF OutputHere
<1>10. Copy!InPlace'
  BY <1>1, <1>2 DEF Copy!InPlace
<1> QED BY <1>5, <1>6, <1>8, <1>9, <1>10 DEF CopyInv

(* write() in the process itself, or no output.                            *)
LEMMA WriteKeeps == ASSUME CopySizes, CopyInv, Copy!Write PROVE CopyInv'
<1>1. CopyTypes /\ Remembered /\ InputHere /\ OutputHere /\ Copy!InPlace /\ Copy!InArea /\ Copy!RepeatsOnlyFirst
  BY DEF CopyInv
<1>2. /\ d_pc = "got" /\ ~d_opt.fork /\ d_pc' = "written"
      /\ UNCHANGED <<d_opt, d_count, d_off, d_got, d_ints, d_shifts, d_sigs, d_pad, d_tab, d_norepeats, d_kids, d_done, d_faults>>
  BY DEF Copy!Write, Copy!ending, Copy!drawing
<1>3. d_kids = {}
  BY <1>1, <1>2 DEF OutputHere
<1> DEFINE w == [off |-> d_off, from |-> d_got.from, n |-> d_got.n]
<1>4. /\ w.off = d_off /\ w.from = d_got.from /\ w.n = d_got.n
      /\ d_off \in Nat /\ d_got.from \in Nat /\ d_got.n \in Nat
      /\ d_pos \in [in : Nat, out : Nat] /\ d_pos.out \in Nat /\ d_pos.in \in Nat
  BY <1>1 DEF CopyTypes
<1>5. Remembered' /\ Copy!InArea' /\ Copy!RepeatsOnlyFirst'
  BY <1>1, <1>2, DrawsNothing
<1>6. Padding' = Padding /\ Padded' = Padded /\ Stands = d_off /\ Stands' = d_off + d_got.n
  BY <1>2 DEF Padding, Padded, Stands
<1>7. CASE d_opt.out
  <2>1. Copy!Written(w)
    BY <1>7 DEF Copy!Write, Copy!Block
  <2> HIDE DEF w
  <2>2. d_opt.mode = "seq" /\ d_faults = 0 => d_pos.out = w.off /\ (d_opt.in => w.from = w.off + Padding)
    BY <1>1, <1>2, <1>3, <1>4, <1>6, <1>7 DEF OutputHere, InputHere, BlockHere, Ending
  <2>3. d_opt.mode # "seq" /\ ~d_opt.fork => d_pos.out = w.off
    BY <1>1, <1>2, <1>4 DEF OutputHere
  <2>5. /\ Copy!InPlace' /\ d_log' \in Seq(CopyWrites)
        /\ d_pos' \in [in : Nat, out : Nat] /\ d_pos'.in = d_pos.in /\ d_pos'.out = d_pos.out + w.n
        /\ d_log' # <<>> /\ d_pos'.out = d_log'[Len(d_log')].at + d_log'[Len(d_log')].n
    BY <1>1, <1>2, <1>4, <2>1, <2>2, <2>3, WrittenInPlace
  <2>6. InputHere'
    BY <1>1, <1>2, <1>6, <2>5 DEF InputHere, BlockHere
  <2>7. CopyTypes'
    BY <1>1, <1>2, <2>5 DEF CopyTypes
  <2>8. OutputHere'
    <3>1. d_opt.mode = "seq" /\ d_faults = 0 => d_pos'.out = Stands'
      BY <2>2, <2>5, <1>4, <1>6
    <3> QED BY <3>1, <1>2, <1>3, <2>5 DEF OutputHere
  <2> QED BY <1>5, <2>5, <2>6, <2>7, <2>8 DEF CopyInv
<1>8. CASE ~d_opt.out
  <2>1. UNCHANGED <<d_log, d_pos>>
    BY <1>8 DEF Copy!Write
  <2>2. InputHere'
    BY <1>1, <1>2, <1>6, <2>1 DEF InputHere, BlockHere
  <2>3. CopyTypes'
    BY <1>1, <1>2, <2>1 DEF CopyTypes
  <2>4. OutputHere' /\ Copy!InPlace'
    BY <1>1, <1>2, <1>3, <1>8, <2>1 DEF OutputHere, Copy!InPlace
  <2> QED BY <1>5, <2>2, <2>3, <2>4 DEF CopyInv
<1> QED BY <1>7, <1>8, <1>1, OptTypes DEF CopyTypes

(* A child gets the block, or fork() fails.                                *)
LEMMA ForkKeeps == ASSUME CopySizes, CopyInv, Copy!Fork \/ Copy!ForkFails PROVE CopyInv'
<1>1. CopyTypes /\ Remembered /\ InputHere /\ OutputHere /\ Copy!InPlace /\ Copy!InArea /\ Copy!RepeatsOnlyFirst
  BY DEF CopyInv
<1>2. /\ d_pc = "got" /\ d_opt.fork /\ d_kids = {} /\ d_pc' = "forked"
      /\ UNCHANGED <<d_opt, d_count, d_off, d_pos, d_got, d_ints, d_shifts, d_sigs, d_pad, d_tab, d_norepeats, d_log>>
  BY DEF Copy!Fork, Copy!ForkFails, Copy!ending, Copy!drawing
<1> DEFINE w == Copy!Child
<1>3. /\ w \in CopyKids /\ w.off = d_off /\ w.from = d_got.from /\ w.n = d_got.n /\ d_faults \in Nat
      /\ d_done \in [timed : Nat, counted : Nat, drawn : Seq(Nat), lost : Nat] /\ d_got.n \in Nat
  BY <1>1 DEF CopyTypes, CopyKids, Copy!Child
<1> HIDE DEF w
<1>4. \/ d_kids' = {w} /\ d_faults' = d_faults /\ d_done' = d_done
      \/ /\ d_kids' = {} /\ d_faults' = d_faults + 1
         /\ d_done' = [d_done EXCEPT !.lost = @ + Copy!Whole(d_got.n)]
  BY <1>2 DEF Copy!Fork, Copy!ForkFails, w
<1>5. /\ d_done' \in [timed : Nat, counted : Nat, drawn : Seq(Nat), lost : Nat]
      /\ d_done'.drawn = d_done.drawn
  <2>1. d_done.lost + Copy!Whole(d_got.n) \in Nat
    <3>1. Copy!Whole(d_got.n) \in Nat /\ d_done.lost \in Nat
      BY <1>3, WholeNat
    <3> QED BY <3>1
  <2> QED BY <1>3, <1>4, <2>1
<1>6. d_faults' \in Nat /\ (d_faults' = 0 => d_faults = 0 /\ d_kids' = {w}) /\ d_kids' \subseteq CopyKids
      /\ \A k \in d_kids' : k = w
  BY <1>3, <1>4
<1>7. CopyTypes'
  BY <1>1, <1>2, <1>5, <1>6 DEF CopyTypes
<1>8. Padding' = Padding /\ Padded' = Padded /\ Stands = d_off /\ Stands' = d_off + d_got.n /\ d_pc \notin Ending
  BY <1>2 DEF Padding, Padded, Stands, Ending
<1>9. InputHere'
  BY <1>1, <1>2, <1>6, <1>8 DEF InputHere, BlockHere
<1>10. OutputHere'
  <2>1. d_opt.mode = "seq" /\ d_opt.out /\ d_faults = 0 =>
          w.off = d_pos.out /\ w.off + w.n = Stands' /\ (d_opt.in => w.from = w.off + Padding)
    BY <1>1, <1>2, <1>3, <1>8 DEF OutputHere, InputHere, BlockHere
  <2>2. CASE d_faults' = 0
    <3>1. d_kids' = {w} /\ d_faults = 0
      BY <1>6, <2>2
    <3>2. w.at = "write"
      BY DEF w, Copy!Child
    <3> QED BY <1>1, <1>2, <1>8, <2>1, <3>1, <3>2 DEF OutputHere
  <2>3. CASE d_faults' # 0
    BY <1>1, <1>2, <1>6, <2>3 DEF OutputHere
  <2> QED BY <2>2, <2>3
<1>11. Remembered' /\ Copy!InArea' /\ Copy!RepeatsOnlyFirst'
  BY <1>1, <1>2, <1>5, DrawsNothing
<1>12. Copy!InPlace'
  BY <1>1, <1>2, <1>6 DEF Copy!InPlace
<1> QED BY <1>7, <1>9, <1>10, <1>11, <1>12 DEF CopyInv

(* The child brings the output to where the parent stands.                 *)
LEMMA KidWritesKeeps == ASSUME CopySizes, CopyInv, Copy!KidWrites PROVE CopyInv'
<1>1. CopyTypes /\ Remembered /\ InputHere /\ OutputHere /\ Copy!InPlace /\ Copy!InArea /\ Copy!RepeatsOnlyFirst
  BY DEF CopyInv
<1>2. PICK k \in d_kids : /\ k.at = "write" /\ Copy!Written(k)
                          /\ d_kids' = (d_kids \ {k}) \cup {[k EXCEPT !.at = "count"]}
  BY DEF Copy!KidWrites
<1>3. UNCHANGED <<d_opt, d_pc, d_count, d_off, d_got, d_ints, d_shifts, d_sigs, d_pad, d_tab, d_norepeats, d_done, d_faults>>
  BY DEF Copy!KidWrites, Copy!ending, Copy!drawing
<1> DEFINE w == [k EXCEPT !.at = "count"]
<1>4. /\ k \in CopyKids /\ w \in CopyKids /\ w.at = "count" /\ d_opt.fork /\ d_opt.out
      /\ k.off \in Nat /\ k.from \in Nat /\ k.n \in Nat
  BY <1>1, <1>2, OptTypes DEF CopyTypes, CopyKids, OutputHere
<1> HIDE DEF w
<1>5. d_kids' = {w}
  BY <1>1, <1>2 DEF OutputHere, w
<1>6. d_opt.mode = "seq" /\ d_faults = 0 => d_pos.out = k.off /\ (d_opt.in => k.from = k.off + Padding)
  BY <1>1, <1>2, <1>4 DEF OutputHere
<1>7. /\ Copy!InPlace' /\ d_log' \in Seq(CopyWrites)
      /\ d_pos' \in [in : Nat, out : Nat] /\ d_pos'.in = d_pos.in /\ d_pos'.out = d_pos.out + k.n
      /\ d_log' # <<>> /\ d_pos'.out = d_log'[Len(d_log')].at + d_log'[Len(d_log')].n
  BY <1>1, <1>2, <1>3, <1>4, <1>6, WrittenInPlace
<1>8. CopyTypes'
  BY <1>1, <1>3, <1>4, <1>5, <1>7 DEF CopyTypes
<1>9. Remembered' /\ Copy!InArea' /\ Copy!RepeatsOnlyFirst'
  BY <1>1, <1>3, DrawsNothing
<1>10. InputHere'
  BY <1>1, <1>3, <1>7 DEF InputHere, BlockHere, Padding, Padded
<1>11. OutputHere'
  <2>1. d_opt.mode = "seq" /\ d_faults = 0 /\ d_pc \notin Ending => d_pos'.out = Stands
    BY <1>1, <1>2, <1>4, <1>7 DEF OutputHere
  <2>2. Stands' = Stands
    BY <1>3 DEF Stands
  <2> QED BY <2>1, <2>2, <1>3, <1>4, <1>5, <1>7 DEF OutputHere
<1> QED BY <1>7, <1>8, <1>9, <1>10, <1>11 DEF CopyInv

(* It counts the block; or it ends, perhaps before it has written it.      *)
LEMMA KidLeavesKeeps == ASSUME CopySizes, CopyInv, Copy!KidCounts \/ Copy!KidEnds PROVE CopyInv'
<1>1. CopyTypes /\ Remembered /\ InputHere /\ OutputHere /\ Copy!InPlace /\ Copy!InArea /\ Copy!RepeatsOnlyFirst
  BY DEF CopyInv
<1>2. UNCHANGED <<d_opt, d_pc, d_count, d_off, d_pos, d_got, d_ints, d_shifts, d_sigs, d_pad, d_tab, d_norepeats, d_log>>
  BY DEF Copy!KidCounts, Copy!KidEnds, Copy!ending, Copy!drawing
<1>3. /\ d_faults \in Nat /\ d_kids \subseteq CopyKids /\ \A k, l \in d_kids : k = l
      /\ d_done \in [timed : Nat, counted : Nat, drawn : Seq(Nat), lost : Nat]
  BY <1>1 DEF CopyTypes, OutputHere
<1>4. /\ d_kids' \subseteq CopyKids /\ \A k \in d_kids' : k.at # "write"
      /\ \A k, l \in d_kids' : k = l
      /\ d_kids # {}
      /\ d_done' \in [timed : Nat, counted : Nat, drawn : Seq(Nat), lost : Nat] /\ d_done'.drawn = d_done.drawn
      /\ \/ d_faults' = d_faults /\ \A k \in d_kids : k.at # "write"
         \/ d_faults' = d_faults + 1
  <2>1. CASE Copy!KidCounts
    <3>1. PICK k \in d_kids : /\ k.at = "count"
                              /\ d_kids' = (d_kids \ {k})
                                    \cup {[k EXCEPT !.at = "exit", !.ints = @ + Copy!Whole(k.n)]}
      BY <2>1 DEF Copy!KidCounts
    <3> DEFINE w == [k EXCEPT !.at = "exit", !.ints = @ + Copy!Whole(k.n)]
    <3>2. k \in CopyKids /\ k.n \in Nat /\ k.ints \in Nat
      BY <1>3 DEF CopyKids
    <3>3. k.ints + Copy!Whole(k.n) \in Nat
      BY <3>2, WholeNat
    <3>4. w \in CopyKids /\ w.at = "exit"
      BY <3>2, <3>3 DEF CopyKids
    <3> HIDE DEF w
    <3>5. d_kids' = {w}
      BY <1>3, <3>1 DEF w
    <3>6. d_faults' = d_faults /\ d_done' = d_done
      BY <2>1 DEF Copy!KidCounts
    <3> QED BY <1>3, <3>1, <3>4, <3>5, <3>6
  <2>2. CASE Copy!KidEnds
    <3>1. PICK k \in d_kids : /\ d_kids' = d_kids \ {k}
                              /\ IF k.at = "write"
                                 THEN /\ d_faults < CopyFaults /\ d_faults' = d_faults + 1
                                      /\ d_done' = [d_done EXCEPT !.lost = @ + Copy!Whole(k.n)]
                                 ELSE UNCHANGED <<d_faults, d_done>>
      BY <2>2 DEF Copy!KidEnds
    <3>2. k.n \in Nat /\ d_done.lost \in Nat /\ d_kids' = {}
      BY <1>3, <3>1 DEF CopyKids
    <3>3. d_done.lost + Copy!Whole(k.n) \in Nat
      BY <3>2, WholeNat
    <3> QED BY <1>3, <3>1, <3>2, <3>3
  <2> QED BY <2>1, <2>2
<1>5. d_faults' \in Nat /\ (d_faults' = 0 => d_faults = 0 /\ \A k \in d_kids : k.at # "write")
  BY <1>3, <1>4
<1>6. CopyTypes'
  BY <1>1, <1>2, <1>4, <1>5 DEF CopyTypes
<1>7. Remembered' /\ Copy!InArea' /\ Copy!RepeatsOnlyFirst'
  BY <1>1, <1>2, <1>4, DrawsNothing
<1>8. InputHere'
  BY <1>1, <1>2, <1>5 DEF InputHere, BlockHere, Padding, Padded
<1>9. OutputHere'
  <2>1. Stands' = Stands /\ d_opt.fork
    BY <1>1, <1>2, <1>4 DEF Stands, OutputHere
  <2> QED BY <1>1, <1>2, <1>4, <1>5, <2>1 DEF OutputHere
<1>10. Copy!InPlace'
  BY <1>1, <1>2, <1>5 DEF Copy!InPlace
<1> QED BY <1>6, <1>7, <1>8, <1>9, <1>10 DEF CopyInv

(* The time of a read is counted.                                          *)
LEMMA TimeKeeps == ASSUME CopySizes, CopyInv, Copy!TimeRead PROVE CopyInv'
<1>1. CopyTypes /\ Remembered /\ InputHere /\ OutputHere /\ Copy!InPlace /\ Copy!InArea /\ Copy!RepeatsOnlyFirst
  BY DEF CopyInv
<1>2. /\ d_pc = "read" /\ d_pc' = IF d_got.n = 0 THEN "done" ELSE "got"
      /\ UNCHANGED <<d_opt, d_count, d_off, d_pos, d_got, d_ints, d_shifts, d_sigs, d_pad, d_tab, d_norepeats,
                     d_kids, d_log, d_done, d_faults>>
  BY DEF Copy!TimeRead, Copy!Moved, Copy!ending, Copy!drawing
<1>3. CopyTypes'
  BY <1>1, <1>2 DEF CopyTypes, Ending
<1>4. Remembered' /\ Copy!InArea' /\ Copy!RepeatsOnlyFirst'
  BY <1>1, <1>2, DrawsNothing
<1>5. Padding' = Padding /\ Padded' = Padded /\ Stands' = Stands /\ d_pc \notin Ending
  BY <1>2 DEF Padding, Padded, Stands, Ending
<1>6. InputHere'
  BY <1>1, <1>2, <1>5 DEF InputHere, BlockHere
<1>7. OutputHere' /\ Copy!InPlace'
  BY <1>1, <1>2, <1>5 DEF OutputHere, Copy!InPlace
<1> QED BY <1>3, <1>4, <1>6, <1>7 DEF CopyInv

(* What read() returns, from where the input stands.                       *)
From(o) == IF d_opt.mode = "seq" THEN d_pos ELSE [in |-> o, out |-> o]
Amt(o) == IF ~ d_opt.in THEN Bsize ELSE Copy!Max({0, Copy!Min({Bsize, InSize - From(o).in})})

\* What a read may change.
LEMMA ReadTypes ==
  ASSUME CopySizes, CopyInv, NEW o \in Copy!Drawn
  PROVE  /\ o \in Nat /\ From(o) \in [in : Nat, out : Nat]
         /\ From(o).in \in Nat /\ From(o).out \in Nat /\ Amt(o) \in Nat
         /\ (d_opt.mode = "seq" => From(o) = d_pos /\ o = d_off)
         /\ (d_opt.mode # "seq" => From(o).out = o)
         /\ d_opt.in => Amt(o) = IF InSize <= From(o).in THEN 0
                              ELSE IF InSize - From(o).in < Bsize THEN InSize - From(o).in ELSE Bsize
<1>1. CopyTypes /\ d_opt \in Copy!Options /\ d_off \in Nat /\ d_done.drawn \in Seq(Nat)
      /\ Bsize \in Nat \ {0} /\ InSize \in Nat
  BY DEF CopyInv, CopyTypes, CopySizes
<1>2. o \in Nat /\ (d_opt.mode = "seq" => o = d_off)
  BY <1>1, DrawnInArea
<1>3. /\ From(o) \in [in : Nat, out : Nat]
      /\ (d_opt.mode = "seq" => From(o) = d_pos)
      /\ (d_opt.mode # "seq" => From(o).out = o)
  BY <1>1, <1>2 DEF From, CopyTypes
<1>4. From(o).in \in Nat /\ From(o).out \in Nat
  BY <1>3
<1>5. d_opt.in => Amt(o) = IF InSize <= From(o).in THEN 0
                         ELSE IF InSize - From(o).in < Bsize THEN InSize - From(o).in ELSE Bsize
  BY <1>4, Amount DEF Amt
<1>6. Amt(o) \in Nat
  <2>1. CASE d_opt.in
    BY <2>1, <1>1, <1>4, <1>5
  <2>2. CASE ~d_opt.in
    BY <2>2, <1>1 DEF Amt
  <2> QED BY <2>1, <2>2
<1> QED BY <1>2, <1>3, <1>4, <1>5, <1>6

(* An offset is drawn and remembered.                                      *)
LEMMA Draws ==
  ASSUME CopySizes, CopyInv, NEW o \in Copy!Drawn, Len(d_done.drawn) < MaxIos, d_opt.norepeat => ~Copy!been_there(o),
         IF d_opt.norepeat THEN /\ d_tab' = [d_tab EXCEPT ![d_norepeats] = o]
                                /\ d_norepeats' = d_norepeats + 1
                         ELSE UNCHANGED <<d_tab, d_norepeats>>,
         d_done'.drawn = Append(d_done.drawn, o), UNCHANGED <<d_opt, d_pad>>
  PROVE  /\ Remembered' /\ Copy!InArea' /\ Copy!RepeatsOnlyFirst'
         /\ d_tab' \in [-1 .. MaxIos -> Nat] /\ d_norepeats' \in -1 .. MaxIos
         /\ d_done'.drawn \in Seq(Nat)
<1> DEFINE d == d_done.drawn
           L == Len(d_done.drawn)
<1>1. CopyTypes /\ Remembered /\ Copy!InArea /\ Copy!RepeatsOnlyFirst /\ MaxIos \in Nat
  BY DEF CopyInv, CopySizes
<1>2. /\ d \in Seq(Nat) /\ L \in Nat /\ L < MaxIos /\ o \in Nat
      /\ d_tab \in [-1 .. MaxIos -> Nat] /\ d_norepeats \in -1 .. MaxIos
  <2>1. d_done \in [timed : Nat, counted : Nat, drawn : Seq(Nat), lost : Nat]
    BY <1>1 DEF CopyTypes
  <2>2. d \in Seq(Nat) /\ L \in Nat
    BY <2>1
  <2>3. d_tab \in [-1 .. MaxIos -> Nat] /\ d_norepeats \in -1 .. MaxIos
    BY <1>1 DEF CopyTypes
  <2> QED BY <2>2, <2>3, ReadTypes
<1> HIDE DEF d, L
<1>0. d = d_done.drawn /\ L = Len(d_done.drawn) /\ L = Len(d)
  BY DEF d, L
<1>3. /\ d_done'.drawn \in Seq(Nat) /\ Len(d_done'.drawn) = L + 1 /\ d_done'.drawn[L + 1] = o
      /\ \A i \in 1 .. L : d_done'.drawn[i] = d[i]
  BY <1>0, <1>2
<1>4. ASSUME d_opt.norepeat
      PROVE  /\ d_norepeats = L - 1 /\ \A i \in -1 .. d_norepeats - 1 : d_tab[i] = d[i + 2]
             /\ d_tab' = [d_tab EXCEPT ![d_norepeats] = o] /\ d_norepeats' = d_norepeats + 1 /\ ~Copy!been_there(o)
  BY <1>0, <1>1, <1>4 DEF Remembered
<1>5. d_tab' \in [-1 .. MaxIos -> Nat] /\ d_norepeats' \in -1 .. MaxIos
  <2>1. CASE d_opt.norepeat
    <3>1. d_norepeats' = d_norepeats + 1 /\ d_norepeats = L - 1 /\ d_tab' = [d_tab EXCEPT ![d_norepeats] = o]
      BY <2>1, <1>4
    <3>2. d_norepeats' \in -1 .. MaxIos
      BY <3>1, <1>1, <1>2
    <3> QED BY <3>1, <3>2, <1>2
  <2>2. CASE ~d_opt.norepeat
    BY <2>2, <1>2
  <2> QED BY <2>1, <2>2
<1>6. Remembered'
  <2>1. ASSUME d_opt.norepeat
        PROVE  /\ d_norepeats' = Len(d_done'.drawn) - 1
               /\ \A i \in -1 .. d_norepeats' - 1 : d_tab'[i] = d_done'.drawn[i + 2]
    <3>1. d_norepeats' = L /\ d_norepeats = L - 1
      BY <1>2, <1>4, <2>1
    <3>2. ASSUME NEW i \in -1 .. L - 1 PROVE d_tab'[i] = d_done'.drawn[i + 2]
      <4>1. CASE i = L - 1
        BY <4>1, <3>1, <1>2, <1>3, <1>4, <2>1
      <4>2. CASE i # L - 1
        <5>1. i \in -1 .. d_norepeats - 1 /\ i + 2 \in 1 .. L /\ i # d_norepeats /\ i \in -1 .. MaxIos
          <6>1. i \in Int /\ L \in Int /\ MaxIos \in Int /\ -1 <= i /\ i < L - 1 /\ L < MaxIos
            BY <4>2, <1>1, <1>2
          <6> QED BY <6>1, <3>1
        <5>2. d_tab'[i] = d_tab[i]
          BY <5>1, <1>2, <1>4, <2>1
        <5> QED BY <5>1, <5>2, <1>3, <1>4, <2>1
      <4> QED BY <4>1, <4>2
    <3>3. d_norepeats' = Len(d_done'.drawn) - 1 /\ d_norepeats' - 1 = L - 1
      BY <3>1, <1>2, <1>3
    <3> QED BY <3>2, <3>3
  <2>2. Len(d_done'.drawn) <= MaxIos
    BY <1>1, <1>2, <1>3
  <2>3. (d_pad => d_opt.pad) /\ (d_opt.mode # "seq" => ~d_opt.pad)
    BY <1>1 DEF Remembered
  <2> QED BY <2>1, <2>2, <2>3 DEF Remembered
<1>7. Copy!InArea'
  <2>0. DOMAIN d_done'.drawn = 1 .. L + 1 /\ d_opt' = d_opt
    BY <1>2, <1>3
  <2>1. ASSUME NEW i \in 1 .. L + 1
        PROVE  /\ d_opt.mode = "rand" => d_done'.drawn[i] + Bsize <= d_opt.area
               /\ d_opt.mode = "end" =>
                    LET part == IF i % 2 = 1 THEN d_opt.area - d_opt.end ELSE 0
                    IN  d_done'.drawn[i] \in part .. part + Copy!RoundTo(d_opt.end)
    <3>1. CASE i = L + 1
      <4>1. d_opt \in Copy!Options /\ d_off \in Nat
        BY <1>1 DEF CopyTypes
      <4>2. /\ d_opt.mode = "rand" => o + Bsize <= d_opt.area
            /\ d_opt.mode = "end" =>
                 LET part == IF (L + 1) % 2 = 1 THEN d_opt.area - d_opt.end ELSE 0
                 IN  o \in part .. part + Copy!RoundTo(d_opt.end)
        BY <4>1, <1>0, <1>2, DrawnInArea
      <4> QED BY <3>1, <4>2, <1>3
    <3>2. CASE i \in 1 .. L
      <4>1. i \in DOMAIN d /\ d_done'.drawn[i] = d[i]
        BY <3>2, <1>0, <1>2, <1>3
      <4> QED BY <4>1, <1>0, <1>1 DEF Copy!InArea
    <3>3. i \in 1 .. L \/ i = L + 1
      BY <1>2
    <3> QED BY <3>1, <3>2, <3>3
  <2> QED BY ONLY <2>0, <2>1 DEF Copy!InArea
<1>8. Copy!RepeatsOnlyFirst'
  <2> SUFFICES ASSUME d_opt.norepeat, NEW i \in 2 .. L + 1, NEW j \in 2 .. L + 1,
                      d_done'.drawn[i] = d_done'.drawn[j]
               PROVE  i = j
    BY <1>3 DEF Copy!RepeatsOnlyFirst
  <2>1. \A k \in 2 .. L : d[k] # o
    <3> SUFFICES ASSUME NEW k \in 2 .. L, d[k] = o PROVE FALSE
      OBVIOUS
    <3>1. k - 2 \in 0 .. d_norepeats /\ k - 2 \in -1 .. d_norepeats - 1 /\ (k - 2) + 2 = k
      BY <1>2, <1>4
    <3>2. d_tab[k - 2] = o
      BY <3>1, <1>4
    <3> QED BY <3>1, <3>2, <1>4 DEF Copy!been_there
  <2>2. CASE i \in 2 .. L /\ j \in 2 .. L
    <3>1. d_done'.drawn[i] = d[i] /\ d_done'.drawn[j] = d[j]
      BY <2>2, <1>2, <1>3
    <3>2. \A a, b \in 2 .. L : d[a] = d[b] => a = b
      BY <1>0, <1>1 DEF Copy!RepeatsOnlyFirst
    <3> QED BY <2>2, <3>1, <3>2
  <2>3. CASE i = L + 1 /\ j \in 2 .. L
    <3>1. d_done'.drawn[i] = o /\ d_done'.drawn[j] = d[j]
      <4>1. j \in 1 .. L
        BY <2>3, <1>2
      <4> QED BY <2>3, <4>1, <1>3
    <3> QED BY <2>1, <2>3, <3>1
  <2>4. CASE j = L + 1 /\ i \in 2 .. L
    <3>1. d_done'.drawn[j] = o /\ d_done'.drawn[i] = d[i]
      <4>1. i \in 1 .. L
        BY <2>4, <1>2
      <4> QED BY <2>4, <4>1, <1>3
    <3> QED BY <2>1, <2>4, <3>1
  <2>5. CASE i = L + 1 /\ j = L + 1
    BY <2>5
  <2>6. (i \in 2 .. L \/ i = L + 1) /\ (j \in 2 .. L \/ j = L + 1)
    BY <1>2
  <2> QED BY <2>2, <2>3, <2>4, <2>5, <2>6
<1> QED BY <1>3, <1>5, <1>6, <1>7, <1>8

(* The start of an iteration: the padding read, or a block.                *)
LEMMA ReadKeeps == ASSUME CopySizes, CopyInv, Copy!Read PROVE CopyInv'
<1>1. /\ CopyTypes /\ Remembered /\ InputHere /\ OutputHere /\ Copy!InPlace /\ Copy!InArea /\ Copy!RepeatsOnlyFirst
      /\ Bsize \in Nat \ {0} /\ InSize \in Nat /\ d_off \in Nat /\ d_pos.in \in Nat /\ d_faults \in Nat
  BY DEF CopyInv, CopySizes, CopyTypes
<1>2. /\ d_pc = "loop" /\ d_count # 0 /\ Len(d_done.drawn) < MaxIos
      /\ UNCHANGED <<d_opt, d_ints, d_shifts, d_sigs, d_kids, d_log>>
  BY DEF Copy!Read, Copy!ending
<1>3. PICK o \in Copy!Drawn, fails \in BOOLEAN :
         LET n == IF fails THEN 0 ELSE Amt(o)
         IN  /\ fails => d_opt.in /\ d_faults < CopyFaults
             /\ d_faults' = IF fails THEN d_faults + 1 ELSE d_faults
             /\ d_opt.norepeat => ~ Copy!been_there(o)
             /\ d_off' = o
             /\ IF d_opt.norepeat
                THEN /\ d_tab' = [d_tab EXCEPT ![d_norepeats] = o]
                     /\ d_norepeats' = d_norepeats + 1
                ELSE UNCHANGED <<d_tab, d_norepeats>>
             /\ d_pos' = IF d_opt.in THEN [From(o) EXCEPT !.in = @ + n] ELSE From(o)
             /\ IF d_pad /\ d_opt.in
                THEN /\ d_pad' = FALSE
                     /\ UNCHANGED <<d_pc, d_count, d_got, d_done>>
                ELSE /\ d_count' = d_count - 1
                     /\ d_done' = [d_done EXCEPT !.drawn = Append(@, o),
                                                 !.timed = IF d_opt.rt # Copy!None THEN @ + 1 ELSE @]
                     /\ d_got' = [from |-> From(o).in, n |-> n]
                     /\ d_pc' = IF d_opt.rt # Copy!None THEN "read" ELSE Copy!Moved(n)
                     /\ UNCHANGED d_pad
  BY DEF Copy!Read, From, Amt
<1> DEFINE n == IF fails THEN 0 ELSE Amt(o)
<1>4. /\ o \in Nat /\ From(o) \in [in : Nat, out : Nat]
      /\ From(o).in \in Nat /\ From(o).out \in Nat /\ n \in Nat
      /\ (d_opt.mode = "seq" => From(o) = d_pos /\ o = d_off)
      /\ (d_opt.mode # "seq" => From(o).out = o)
      /\ d_opt.in /\ ~ fails => n = IF InSize <= From(o).in THEN 0
                                  ELSE IF InSize - From(o).in < Bsize THEN InSize - From(o).in ELSE Bsize
  BY ReadTypes
<1>f. d_faults' \in Nat /\ (d_faults' = 0 => d_faults = 0 /\ ~ fails)
  BY <1>1, <1>3
<1>5. /\ d_pos' \in [in : Nat, out : Nat] /\ d_pos'.out = From(o).out
      /\ d_opt.in => d_pos'.in = From(o).in + n
  <2>1. From(o).in + n \in Nat
    BY <1>4
  <2> QED BY <1>3, <1>4, <2>1
<1>6. d_opt.mode = "seq" => d_off' = d_off /\ d_pos'.out = d_pos.out
  BY <1>3, <1>4, <1>5
<1>7. CASE d_pad /\ d_opt.in
  <2>1. /\ d_opt.pad /\ d_opt.mode = "seq" /\ ~d_opt.norepeat
    BY <1>1, <1>7, OptTypes DEF Remembered, CopyTypes
  <2>2. /\ d_pad' = FALSE /\ UNCHANGED <<d_pc, d_count, d_got, d_done, d_tab, d_norepeats>>
    BY <1>3, <1>7, <2>1
  <2>3. CopyTypes'
    BY <1>1, <1>2, <1>3, <1>4, <1>5, <1>f, <2>2 DEF CopyTypes
  <2>4. Remembered' /\ Copy!InArea' /\ Copy!RepeatsOnlyFirst'
    BY <1>1, <1>2, <2>1, <2>2 DEF Remembered, Copy!InArea, Copy!RepeatsOnlyFirst
  <2>5. InputHere'
    <3> SUFFICES ASSUME d_faults' = 0 PROVE InputHere'
      BY DEF InputHere
    <3>0. d_faults = 0 /\ ~ fails
      BY <1>f
    <3>1. d_pos.in = d_off \/ d_pos.in >= InSize
      BY <1>1, <1>2, <1>7, <2>1, <3>0 DEF InputHere, Padded
    <3>2. d_pos'.in = d_pos.in + n /\ d_off' = d_off
      BY <1>4, <1>5, <1>6, <1>7, <2>1
    <3> HIDE DEF n
    <3>3. d_pos'.in = d_off + Bsize \/ d_pos'.in >= InSize
      BY <3>0, <3>1, <3>2, <1>1, <1>4, <1>7, <2>1
    <3> QED BY <3>2, <3>3, <1>2, <2>1, <2>2 DEF InputHere, Padded
  <2>6. OutputHere' /\ Copy!InPlace'
    <3>1. Stands' = Stands /\ Padding' = Padding
      BY <1>2, <1>6, <2>1, <2>2 DEF Stands, Padding
    <3> QED BY <1>1, <1>2, <1>6, <1>f, <2>1, <2>2, <3>1 DEF OutputHere, Copy!InPlace
  <2> QED BY <2>3, <2>4, <2>5, <2>6 DEF CopyInv
<1>8. CASE ~(d_pad /\ d_opt.in)
  <2>1. /\ d_count' = d_count - 1
        /\ d_done' = [d_done EXCEPT !.drawn = Append(@, o), !.timed = IF d_opt.rt # Copy!None THEN @ + 1 ELSE @]
        /\ d_got' = [from |-> From(o).in, n |-> n]
        /\ d_pc' \in {"read", "got", "done"} /\ (d_pc' = "got" => n # 0)
        /\ UNCHANGED d_pad
    BY <1>3, <1>8 DEF Copy!Moved
  <2> HIDE DEF n
  <2>d. d_done \in [timed : Nat, counted : Nat, drawn : Seq(Nat), lost : Nat]
    BY <1>1 DEF CopyTypes
  <2>2. /\ d_done'.drawn = Append(d_done.drawn, o)
        /\ d_done' \in [timed : Nat, counted : Nat, drawn : Seq(Nat), lost : Nat]
    <3>1. Append(d_done.drawn, o) \in Seq(Nat) /\ (IF d_opt.rt # Copy!None THEN d_done.timed + 1 ELSE d_done.timed) \in Nat
      BY <1>4, <2>d
    <3> QED BY <2>1, <2>d, <3>1
  <2>3. /\ Remembered' /\ Copy!InArea' /\ Copy!RepeatsOnlyFirst'
        /\ d_tab' \in [-1 .. MaxIos -> Nat] /\ d_norepeats' \in -1 .. MaxIos
        /\ d_done'.drawn \in Seq(Nat)
    BY <1>2, <1>3, <2>1, <2>2, Draws
  <2>5. d_count' \in Int /\ (d_opt.cnt # Copy!None => d_count' \in 0 .. d_opt.cnt)
    <3>1. d_count \in Int /\ (d_opt.cnt # Copy!None => d_count \in 0 .. d_opt.cnt) /\ d_opt.cnt \in Int
      BY <1>1, OptTypes DEF CopyTypes
    <3> QED BY <3>1, <2>1, <1>2
  <2>6. d_got' \in [from : Nat, n : Nat] /\ d_got'.from = From(o).in /\ d_got'.n = n
    BY <2>1, <1>4
  <2>7. CopyTypes'
    BY <1>1, <1>2, <1>3, <1>4, <1>5, <1>f, <2>1, <2>2, <2>3, <2>5, <2>6 DEF CopyTypes, Ending
  <2>8. InputHere'
    <3> SUFFICES ASSUME d_opt.mode = "seq", d_opt.in, d_faults' = 0, d_pc' \in {"read", "got"}
                 PROVE  /\ ~d_pad
                        /\ \/ n = 0 /\ d_pc' = "read"
                           \/ d_got'.from = d_off + Padding /\ d_pos'.in = d_off + Padding + d_got'.n
      BY <1>2, <1>6, <2>1, <2>6 DEF InputHere, BlockHere, Padding
    <3>1. ~d_pad /\ From(o) = d_pos /\ d_faults = 0 /\ ~ fails
      BY <1>4, <1>8, <1>f
    <3> SUFFICES ASSUME n # 0 PROVE d_got'.from = d_off + Padding /\ d_pos'.in = d_off + Padding + d_got'.n
      BY <2>1, <3>1
    <3>2. d_pos.in < InSize
      BY <3>1, <1>1, <1>4
    <3>3. d_pos.in = d_off + Padded /\ Padded = Padding
      BY <3>1, <3>2, <1>1, <1>2 DEF InputHere, Padded, Padding
    <3> QED BY <3>1, <3>3, <1>5, <2>6
  <2>9. OutputHere' /\ Copy!InPlace'
    <3>1. d_opt.mode # "seq" => d_pos'.out = d_off'
      BY <1>3, <1>4, <1>5
    <3>2. Padding' = Padding /\ Stands = d_off /\ Stands' = d_off' /\ d_pc \notin Ending
      BY <1>2, <2>1 DEF Padding, Stands, Ending
    <3> QED BY <1>1, <1>2, <1>6, <1>f, <3>1, <3>2 DEF OutputHere, Copy!InPlace
  <2> QED BY <2>3, <2>7, <2>8, <2>9 DEF CopyInv
<1> QED BY <1>7, <1>8

\* Every step.
LEMMA CopyKeeps == ASSUME CopySizes, CopyInv, [Copy!Next]_(Copy!vars) PROVE CopyInv'
<1>1. CASE UNCHANGED Copy!vars
  BY <1>1 DEF Copy!vars, Copy!ending, Copy!drawing, CopyInv, CopyTypes, Remembered, InputHere, BlockHere, OutputHere,
              Stands, Padding, Padded, Copy!InPlace, Copy!InArea, Copy!RepeatsOnlyFirst
<1>2. CASE Copy!WriteFails \/ Copy!CountDone \/ Copy!Shift \/ Copy!Prints \/ Copy!Signal
  <2>1. d_faults \in Nat /\ d_shifts \in Nat /\ d_sigs \in Nat
    BY DEF CopyInv, CopyTypes
  <2>2. /\ d_pc' \in Ending /\ d_faults' \in {d_faults, d_faults + 1}
        /\ d_shifts' \in {d_shifts, d_shifts + 1} /\ d_sigs' \in {d_sigs, d_sigs + 1}
        /\ UNCHANGED <<d_opt, d_count, d_off, d_pos, d_got, d_ints, d_pad, d_tab, d_norepeats, d_kids, d_log, d_done>>
    BY <1>2 DEF Copy!WriteFails, Copy!CountDone, Copy!Shift, Copy!Prints, Copy!Signal, Copy!Exits, Copy!ending,
                Copy!drawing, Ending
  <2> QED BY <2>1, <2>2, EndKeeps
<1> QED BY <1>1, <1>2, ReadKeeps, TimeKeeps, WriteKeeps, ForkKeeps, CountKeeps, KidWritesKeeps, KidLeavesKeeps
        DEF Copy!Next

\* What was written is where it belongs.
LEMMA CopyImplied ==
  ASSUME CopySizes, CopyInv
  PROVE  Copy!TypeOK /\ Copy!InPlace /\ Copy!InArea /\ Copy!RepeatsOnlyFirst
  BY DEF CopyInv, CopyTypes, Copy!TypeOK, Ending

-----------------------------------------------------------------------------
(* lmdd.c, what it prints: the words it has counted are those in the       *)
(* output, those a child is still to write and those a child has lost, but *)
(* for the block it is about to count; every timed read is in one bucket   *)
(* of the histogram, but for the one it is about to put there.             *)
Lack == Copy!Words(d_log) + Copy!Pending + d_done.lost - d_ints

LackOf(x) ==
    /\ d_pc \in {"loop", "read", "got"} => Lack = 0
    /\ d_pc \in {"written", "forked"} => Lack = x
    /\ d_pc \in Ending => Lack = 0 \/ (d_sigs # 0 /\ Lack = x)

KidsCount ==
    \A k \in d_kids : Copy!Words(d_log) + d_done.lost - k.ints = IF k.at = "count" THEN Copy!Whole(k.n) ELSE 0

CountFits ==
    d_opt.cnt # Copy!None =>
        d_done.counted + d_count + (IF d_pc \in {"read", "got", "written", "forked"} THEN 1 ELSE 0) <= d_opt.cnt

TimesFit(left) ==
    /\ d_pc = "read" => left = 1
    /\ d_pc \in {"loop", "got", "written", "forked"} => left = 0
    /\ d_pc \in Ending => left = 0 \/ (d_sigs # 0 /\ left = 1)

Accounts ==
    /\ d_opt.out => LackOf(Copy!Whole(d_got.n)) /\ KidsCount
    /\ d_sigs = 0 => d_shifts = IF d_pc \in {"shifted", "over"} THEN 1 ELSE 0
    /\ CountFits
    /\ d_hist \in [0 .. 11 -> Nat]
    /\ d_opt.rt = 10 => TimesFit(d_done.timed - Copy!InHistogram(d_hist))

\* What the induction over a sum of amounts needs.
LEMMA WordsSteps ==
  ASSUME NEW s \in Seq(CopyWrites)
  PROVE  \E f : /\ f[0] = 0 /\ \A i \in 0 .. Len(s) : f[i] \in Nat
                /\ \A i \in 1 .. Len(s) : f[i] = f[i - 1] + Copy!Whole(s[i].n)
                /\ Copy!Words(s) = f[Len(s)]
<1> DEFINE N == Len(s)
           amount(i) == Copy!Whole(s[i].n)
           Step(q, x) == IF x \in 1 .. N THEN q + amount(x) ELSE q
           F == [c \in Nat \X Nat |-> Step(c[1], c[2])]
           Def(f) == [i \in 0 .. N |-> IF i = 0 THEN 0 ELSE f[i - 1] + amount(i)]
           after == CHOOSE f : f = Def(f)
<1>n. N \in Nat
  OBVIOUS
<1>b. \A i \in 1 .. N : amount(i) \in Nat
  <2> SUFFICES ASSUME NEW i \in 1 .. N PROVE amount(i) \in Nat
    BY Zenon
  <2>1. s[i] \in CopyWrites
    OBVIOUS
  <2>2. s[i].n \in Nat
    BY <2>1 DEF CopyWrites
  <2> QED BY <2>2, WholeNat
<1>e. Copy!Words(s) = after[N]
  BY Zenon DEF Copy!Words
<1> HIDE DEF amount, N, Step
<1>1. F \in [Nat \X Nat -> Nat]
  <2>1. ASSUME NEW q \in Nat, NEW x \in Nat PROVE Step(q, x) \in Nat
    <3>1. CASE x \in 1 .. N
      <4>1. amount(x) \in Nat
        BY ONLY <3>1, <1>b, Zenon
      <4> QED BY <4>1, <3>1 DEF Step
    <3>2. CASE x \notin 1 .. N
      BY <3>2 DEF Step
    <3> QED BY <3>1, <3>2
  <2> QED BY <2>1
<1> HIDE DEF F
<1>2. PICK g \in [0 .. N -> Nat] : g[0] = 0 /\ \A m \in 1 .. N : g[m] = F[<<g[m - 1], m>>]
  <2>0. 0 \in Nat
    OBVIOUS
  <2>1. \A k \in Nat : \E g \in [0 .. k -> Nat] : Iterates(g, F, 0, k)
    BY ONLY <1>1, <2>0, LoopExists, Zenon
  <2> QED BY ONLY <2>1, <1>n, Zenon DEF Iterates
<1>3. ASSUME NEW m \in 1 .. N PROVE g[m] = g[m - 1] + amount(m)
  <2>1. g[m - 1] \in Nat /\ m \in Nat
    BY <1>n
  <2>2. F[<<g[m - 1], m>>] = Step(g[m - 1], m)
    BY <2>1 DEF F
  <2> QED BY <2>2, <1>2 DEF Step
<1>4. g = Def(g)
  <2>1. g = [i \in 0 .. N |-> g[i]]
    OBVIOUS
  <2>2. ASSUME NEW i \in 0 .. N PROVE g[i] = IF i = 0 THEN 0 ELSE g[i - 1] + amount(i)
    <3>1. CASE i = 0
      BY <3>1, <1>2, Zenon
    <3>2. CASE i # 0
      <4>1. i \in 1 .. N
        BY <3>2, <1>n
      <4> QED BY <4>1, <3>2, <1>3, Zenon
    <3> QED BY <3>1, <3>2
  <2> QED BY <2>1, <2>2, Zenon
<1> HIDE DEF Def
<1>5. after = Def(after)
  BY <1>4
<1> HIDE DEF after
<1>6. after[0] = 0 /\ \A i \in 1 .. N : after[i] = after[i - 1] + amount(i)
  <2>1. ASSUME NEW i \in 0 .. N PROVE after[i] = IF i = 0 THEN 0 ELSE after[i - 1] + amount(i)
    BY <1>5, Zenon DEF Def
  <2>2. 0 \in 0 .. N /\ \A i \in 1 .. N : i \in 0 .. N /\ i # 0
    BY <1>n
  <2> QED BY ONLY <2>1, <2>2, Zenon
<1> DEFINE T == {i \in Nat : i \in 0 .. N => after[i] \in Nat}
<1>7. 0 \in T
  BY <1>6
<1>8. ASSUME NEW i \in Nat, i \in T PROVE i + 1 \in T
  <2> SUFFICES ASSUME i + 1 \in 0 .. N PROVE after[i + 1] \in Nat
    OBVIOUS
  <2>1. i + 1 \in 1 .. N /\ (i + 1) - 1 = i /\ i \in 0 .. N
    BY <1>n
  <2>2. after[i] \in Nat /\ amount(i + 1) \in Nat
    BY <1>8, <2>1, <1>b, Zenon
  <2>3. after[i + 1] = after[i] + amount(i + 1)
    BY ONLY <1>6, <2>1, Zenon
  <2> QED BY ONLY <2>2, <2>3
<1> HIDE DEF T
<1>9. \A i \in Nat : i \in T
  BY <1>7, <1>8, SetInduction
<1>10. \A i \in 0 .. N : after[i] \in Nat
  BY <1>9, <1>n DEF T
<1> QED BY <1>6, <1>10, <1>e, Zenon DEF N, amount

\* A write adds its words.
LEMMA WordsAppend ==
  ASSUME NEW s \in Seq(CopyWrites), NEW w \in CopyWrites
  PROVE  Copy!Words(s) \in Nat /\ Copy!Words(Append(s, w)) = Copy!Words(s) + Copy!Whole(w.n)
<1> DEFINE t == Append(s, w)
<1>1. /\ t \in Seq(CopyWrites) /\ Len(t) = Len(s) + 1 /\ Len(s) \in Nat
      /\ t[Len(s) + 1] = w /\ \A i \in 1 .. Len(s) : t[i] = s[i]
  OBVIOUS
<1> HIDE DEF t
<1>2. PICK f : /\ f[0] = 0 /\ \A i \in 0 .. Len(s) : f[i] \in Nat
               /\ \A i \in 1 .. Len(s) : f[i] = f[i - 1] + Copy!Whole(s[i].n)
               /\ Copy!Words(s) = f[Len(s)]
  BY WordsSteps
<1>3. PICK g : /\ g[0] = 0 /\ \A i \in 0 .. Len(t) : g[i] \in Nat
               /\ \A i \in 1 .. Len(t) : g[i] = g[i - 1] + Copy!Whole(t[i].n)
               /\ Copy!Words(t) = g[Len(t)]
  BY <1>1, WordsSteps
<1> DEFINE T == {i \in Nat : i \in 0 .. Len(s) => f[i] = g[i]}
<1>4. 0 \in T
  BY <1>2, <1>3
<1>5. ASSUME NEW i \in Nat, i \in T PROVE i + 1 \in T
  <2> SUFFICES ASSUME i + 1 \in 0 .. Len(s) PROVE f[i + 1] = g[i + 1]
    OBVIOUS
  <2>1. /\ i + 1 \in 1 .. Len(s) /\ i + 1 \in 1 .. Len(t) /\ (i + 1) - 1 = i /\ i \in 0 .. Len(s)
    BY <1>1
  <2>2. f[i] = g[i]
    BY <1>5, <2>1
  <2>3. f[i + 1] = f[i] + Copy!Whole(s[i + 1].n) /\ g[i + 1] = g[i] + Copy!Whole(t[i + 1].n) /\ t[i + 1] = s[i + 1]
    BY ONLY <1>1, <1>2, <1>3, <2>1, Zenon
  <2> QED BY ONLY <2>2, <2>3, Zenon
<1> HIDE DEF T
<1>6. \A i \in Nat : i \in T
  BY <1>4, <1>5, SetInduction
<1>7. f[Len(s)] = g[Len(s)] /\ f[Len(s)] \in Nat
  BY <1>1, <1>2, <1>6 DEF T
<1>8. Len(t) \in 1 .. Len(t) /\ Len(t) - 1 = Len(s)
  BY <1>1
<1>9. g[Len(t)] = g[Len(s)] + Copy!Whole(t[Len(t)].n) /\ t[Len(t)] = w
  BY ONLY <1>1, <1>3, <1>8, Zenon
<1> QED BY ONLY <1>2, <1>3, <1>7, <1>9, Zenon DEF t

\* Nothing written yet.
LEMMA WordsEmpty == Copy!Words(<<>>) = 0
<1>1. <<>> \in Seq(CopyWrites) /\ Len(<<>>) = 0
  OBVIOUS
<1> QED BY <1>1, WordsSteps

\* The histogram is the sum of its buckets.
LEMMA HistogramSum ==
  ASSUME NEW h \in [0 .. 11 -> Nat]
  PROVE  Copy!InHistogram(h) = h[0] + h[1] + h[2] + h[3] + h[4] + h[5]
                         + h[6] + h[7] + h[8] + h[9] + h[10] + h[11]
<1> DEFINE Def(f) == [b \in 0 .. 12 |-> IF b = 0 THEN 0 ELSE f[b - 1] + h[b - 1]]
           after == CHOOSE f : f = Def(f)
           Step(q, x) == IF x \in 1 .. 12 THEN q + h[x - 1] ELSE q
           F == [c \in Nat \X Nat |-> Step(c[1], c[2])]
<1>e. Copy!InHistogram(h) = after[12]
  BY Zenon DEF Copy!InHistogram
<1>b. \A x \in 1 .. 12 : h[x - 1] \in Nat
  OBVIOUS
<1> HIDE DEF Step
<1>1. F \in [Nat \X Nat -> Nat]
  <2>1. ASSUME NEW q \in Nat, NEW x \in Nat PROVE Step(q, x) \in Nat
    <3>1. CASE x \in 1 .. 12
      <4>1. h[x - 1] \in Nat
        BY ONLY <3>1, <1>b, Zenon
      <4> QED BY <4>1, <3>1 DEF Step
    <3>2. CASE x \notin 1 .. 12
      BY <3>2 DEF Step
    <3> QED BY <3>1, <3>2
  <2> QED BY <2>1
<1> HIDE DEF F
<1>2. PICK g \in [0 .. 12 -> Nat] : g[0] = 0 /\ \A m \in 1 .. 12 : g[m] = F[<<g[m - 1], m>>]
  <2>0. 0 \in Nat /\ 12 \in Nat
    OBVIOUS
  <2>1. \A k \in Nat : \E g \in [0 .. k -> Nat] : Iterates(g, F, 0, k)
    BY ONLY <1>1, <2>0, LoopExists, Zenon
  <2> QED BY ONLY <2>1, <2>0, Zenon DEF Iterates
<1>3. ASSUME NEW m \in 1 .. 12 PROVE g[m] = g[m - 1] + h[m - 1]
  <2>1. g[m - 1] \in Nat /\ m \in Nat
    OBVIOUS
  <2>2. F[<<g[m - 1], m>>] = Step(g[m - 1], m)
    BY <2>1 DEF F
  <2> QED BY <2>2, <1>2 DEF Step
<1>4. g = Def(g)
  <2>1. g = [i \in 0 .. 12 |-> g[i]]
    OBVIOUS
  <2>2. ASSUME NEW i \in 0 .. 12 PROVE g[i] = IF i = 0 THEN 0 ELSE g[i - 1] + h[i - 1]
    <3>1. CASE i = 0
      BY <3>1, <1>2, Zenon
    <3>2. CASE i # 0
      <4>1. i \in 1 .. 12
        BY <3>2
      <4> QED BY <4>1, <3>2, <1>3, Zenon
    <3> QED BY <3>1, <3>2
  <2> QED BY <2>1, <2>2, Zenon
<1> HIDE DEF Def
<1>5. after = Def(after)
  BY <1>4
<1> HIDE DEF after
<1>6. ASSUME NEW i \in 0 .. 12 PROVE after[i] = IF i = 0 THEN 0 ELSE after[i - 1] + h[i - 1]
  BY <1>5, Zenon DEF Def
<1>7. after[0] = 0 /\ after[1] = after[0] + h[0]
  BY ONLY <1>6
<1>8. after[2] = after[1] + h[1] /\ after[3] = after[2] + h[2] /\ after[4] = after[3] + h[3]
  BY ONLY <1>6
<1>9. after[5] = after[4] + h[4] /\ after[6] = after[5] + h[5] /\ after[7] = after[6] + h[6]
  BY ONLY <1>6
<1>10. after[8] = after[7] + h[7] /\ after[9] = after[8] + h[8] /\ after[10] = after[9] + h[9]
  BY ONLY <1>6
<1>11. after[11] = after[10] + h[10] /\ after[12] = after[11] + h[11]
  BY ONLY <1>6
<1>12. /\ h[0] \in Nat /\ h[1] \in Nat /\ h[2] \in Nat /\ h[3] \in Nat /\ h[4] \in Nat
       /\ h[5] \in Nat /\ h[6] \in Nat /\ h[7] \in Nat /\ h[8] \in Nat /\ h[9] \in Nat
       /\ h[10] \in Nat /\ h[11] \in Nat
  OBVIOUS
<1> QED BY ONLY <1>e, <1>7, <1>8, <1>9, <1>10, <1>11, <1>12

\* With a range of ten milliseconds every time has one bucket.
LEMMA BucketOne ==
  ASSUME d_opt.rt = 10, NEW mills \in Nat
  PROVE  \E b \in 0 .. 11 : Copy!Bucket(mills) = {b}
<1>1. d_opt.rt \div 10 = 1
  OBVIOUS
<1>2. CASE mills >= 10
  <2>1. Copy!Bucket(mills) = {11}
    BY <1>2 DEF Copy!Bucket
  <2> QED BY <2>1
<1>3. CASE mills < 10
  <2> DEFINE S == {i \in 1 .. 10 : mills < i * 1 /\ ~ \E j \in 1 .. i - 1 : mills < j * 1}
  <2>1. Copy!Bucket(mills) = S
    <3>1. ~ (mills >= d_opt.rt)
      BY <1>3
    <3> QED BY <1>1, <3>1, Zenon DEF Copy!Bucket
  <2>2. mills + 1 \in 1 .. 10
    BY <1>3
  <2>3. mills + 1 \in S
    <3>1. \A j \in 1 .. (mills + 1) - 1 : ~ (mills < j * 1)
      OBVIOUS
    <3> QED BY <2>2, <3>1
  <2>4. ASSUME NEW i \in S PROVE i = mills + 1
    <3>1. i \in 1 .. 10 /\ mills < i
      OBVIOUS
    <3>2. ~ (mills + 1 \in 1 .. i - 1)
      <4> SUFFICES ASSUME mills + 1 \in 1 .. i - 1 PROVE FALSE
        OBVIOUS
      <4>1. mills < (mills + 1) * 1
        OBVIOUS
      <4> QED BY <4>1
    <3> QED BY ONLY <3>1, <3>2, mills \in Nat
  <2>5. S = {mills + 1}
    BY <2>3, <2>4
  <2>6. mills + 1 \in 0 .. 11
    BY ONLY <2>2
  <2> QED BY ONLY <2>1, <2>5, <2>6, Zenon
<1> QED BY <1>2, <1>3

\* A time goes to one bucket, and its count grows by one.
LEMMA CountOne ==
  ASSUME d_opt.rt = 10, NEW mills \in Nat, d_hist \in [0 .. 11 -> Nat], Copy!Count(mills)
  PROVE  Copy!InHistogram(d_hist') = Copy!InHistogram(d_hist) + 1
<1>1. PICK b \in 0 .. 11 : Copy!Bucket(mills) = {b}
  BY BucketOne
<1>2. d_hist' = [c \in 0 .. 11 |-> IF c = b THEN d_hist[c] + 1 ELSE d_hist[c]]
  <2>1. \A c : c \in Copy!Bucket(mills) <=> c = b
    BY ONLY <1>1
  <2> QED BY ONLY <2>1, Copy!Count(mills), Zenon DEF Copy!Count
<1>3. d_hist' \in [0 .. 11 -> Nat]
  BY <1>2
<1>4. /\ Copy!InHistogram(d_hist) = d_hist[0] + d_hist[1] + d_hist[2] + d_hist[3] + d_hist[4] + d_hist[5]
                                + d_hist[6] + d_hist[7] + d_hist[8] + d_hist[9] + d_hist[10] + d_hist[11]
      /\ Copy!InHistogram(d_hist') = d_hist'[0] + d_hist'[1] + d_hist'[2] + d_hist'[3] + d_hist'[4] + d_hist'[5]
                                + d_hist'[6] + d_hist'[7] + d_hist'[8] + d_hist'[9] + d_hist'[10] + d_hist'[11]
  BY <1>3, HistogramSum
<1> DEFINE d(c) == IF c = b THEN 1 ELSE 0
<1>5. \A c \in 0 .. 11 : d_hist[c] \in Nat /\ d(c) \in Nat /\ d_hist'[c] = d_hist[c] + d(c)
  BY <1>2
<1>6. d(0) + d(1) + d(2) + d(3) + d(4) + d(5) + d(6) + d(7) + d(8) + d(9) + d(10) + d(11) = 1
  OBVIOUS
<1> HIDE DEF d
<1>7. /\ d_hist[0] \in Nat /\ d(0) \in Nat /\ d_hist'[0] = d_hist[0] + d(0)
      /\ d_hist[1] \in Nat /\ d(1) \in Nat /\ d_hist'[1] = d_hist[1] + d(1)
      /\ d_hist[2] \in Nat /\ d(2) \in Nat /\ d_hist'[2] = d_hist[2] + d(2)
      /\ d_hist[3] \in Nat /\ d(3) \in Nat /\ d_hist'[3] = d_hist[3] + d(3)
  BY ONLY <1>5
<1>8. /\ d_hist[4] \in Nat /\ d(4) \in Nat /\ d_hist'[4] = d_hist[4] + d(4)
      /\ d_hist[5] \in Nat /\ d(5) \in Nat /\ d_hist'[5] = d_hist[5] + d(5)
      /\ d_hist[6] \in Nat /\ d(6) \in Nat /\ d_hist'[6] = d_hist[6] + d(6)
      /\ d_hist[7] \in Nat /\ d(7) \in Nat /\ d_hist'[7] = d_hist[7] + d(7)
  BY ONLY <1>5
<1>9. /\ d_hist[8] \in Nat /\ d(8) \in Nat /\ d_hist'[8] = d_hist[8] + d(8)
      /\ d_hist[9] \in Nat /\ d(9) \in Nat /\ d_hist'[9] = d_hist[9] + d(9)
      /\ d_hist[10] \in Nat /\ d(10) \in Nat /\ d_hist'[10] = d_hist[10] + d(10)
      /\ d_hist[11] \in Nat /\ d(11) \in Nat /\ d_hist'[11] = d_hist[11] + d(11)
  BY ONLY <1>5
<1>10. (d_hist'[0] + d_hist'[1] + d_hist'[2] + d_hist'[3]) = (d_hist[0] + d_hist[1] + d_hist[2] + d_hist[3]) + (d(0) + d(1) + d(2) + d(3))
  BY ONLY <1>7
<1>11. (d_hist'[4] + d_hist'[5] + d_hist'[6] + d_hist'[7]) = (d_hist[4] + d_hist[5] + d_hist[6] + d_hist[7]) + (d(4) + d(5) + d(6) + d(7))
  BY ONLY <1>8
<1>12. (d_hist'[8] + d_hist'[9] + d_hist'[10] + d_hist'[11]) = (d_hist[8] + d_hist[9] + d_hist[10] + d_hist[11]) + (d(8) + d(9) + d(10) + d(11))
  BY ONLY <1>9
<1> DEFINE a1 == d_hist[0] + d_hist[1] + d_hist[2] + d_hist[3]
           a2 == d_hist[4] + d_hist[5] + d_hist[6] + d_hist[7]
           a3 == d_hist[8] + d_hist[9] + d_hist[10] + d_hist[11]
           b1 == d_hist'[0] + d_hist'[1] + d_hist'[2] + d_hist'[3]
           b2 == d_hist'[4] + d_hist'[5] + d_hist'[6] + d_hist'[7]
           b3 == d_hist'[8] + d_hist'[9] + d_hist'[10] + d_hist'[11]
           e1 == d(0) + d(1) + d(2) + d(3)
           e2 == d(4) + d(5) + d(6) + d(7)
           e3 == d(8) + d(9) + d(10) + d(11)
<1>13. a1 \in Nat /\ b1 \in Nat /\ e1 \in Nat /\ b1 = a1 + e1
  BY ONLY <1>7, <1>10
<1>14. a2 \in Nat /\ b2 \in Nat /\ e2 \in Nat /\ b2 = a2 + e2
  BY ONLY <1>8, <1>11
<1>15. a3 \in Nat /\ b3 \in Nat /\ e3 \in Nat /\ b3 = a3 + e3
  BY ONLY <1>9, <1>12
<1>16. Copy!InHistogram(d_hist) = a1 + a2 + a3
  BY ONLY <1>4, <1>7, <1>8, <1>9
<1>17. Copy!InHistogram(d_hist') = b1 + b2 + b3
  <2>1. \A c \in 0 .. 11 : d_hist'[c] \in Nat
    BY ONLY <1>3
  <2>2. /\ d_hist'[0] \in Nat /\ d_hist'[1] \in Nat /\ d_hist'[2] \in Nat /\ d_hist'[3] \in Nat
        /\ d_hist'[4] \in Nat /\ d_hist'[5] \in Nat /\ d_hist'[6] \in Nat /\ d_hist'[7] \in Nat
        /\ d_hist'[8] \in Nat /\ d_hist'[9] \in Nat /\ d_hist'[10] \in Nat /\ d_hist'[11] \in Nat
    BY ONLY <2>1
  <2> QED BY ONLY <1>4, <2>2
<1>18. e1 + e2 + e3 = 1
  BY ONLY <1>6, <1>7, <1>8, <1>9
<1> HIDE DEF a1, a2, a3, b1, b2, b3, e1, e2, e3
<1> QED BY ONLY <1>13, <1>14, <1>15, <1>16, <1>17, <1>18

\* CopyInv, as far as it is needed here.
LEMMA OneKid == ASSUME CopyInv PROVE CopyTypes /\ \A k, l \in d_kids : k = l
BY DEF CopyInv, OutputHere

\* What the one child is still to write.
LEMMA PendingIs ==
  ASSUME NEW K, \A k, l \in K : k = l
  PROVE  LET pending == IF \E k \in K : k.at = "write" THEN Copy!Whole((CHOOSE k \in K : TRUE).n) ELSE 0
         IN  /\ (\A k \in K : k.at # "write") => pending = 0
             /\ \A k \in K : k.at = "write" => pending = Copy!Whole(k.n)
<1>1. \A k \in K : (CHOOSE l \in K : TRUE) = k
  <2> SUFFICES ASSUME NEW k \in K PROVE (CHOOSE l \in K : TRUE) = k
    OBVIOUS
  <2>1. (CHOOSE l \in K : TRUE) \in K
    OBVIOUS
  <2> QED BY <2>1
<1> QED BY <1>1, Zenon

\* The numbers are numbers.
LEMMA AccountTypes ==
  ASSUME CopyInv
  PROVE  /\ Copy!Words(d_log) \in Nat /\ Copy!Pending \in Nat /\ d_done.lost \in Nat /\ d_ints \in Nat
         /\ Copy!Whole(d_got.n) \in Nat /\ d_done.timed \in Nat /\ d_done.counted \in Nat /\ d_count \in Int
         /\ d_done \in [timed : Nat, counted : Nat, drawn : Seq(Nat), lost : Nat]
         /\ \A k \in d_kids : k.n \in Nat /\ k.ints \in Nat /\ Copy!Whole(k.n) \in Nat
         /\ (\A k \in d_kids : k.at # "write") => Copy!Pending = 0
         /\ \A k \in d_kids : k.at = "write" => Copy!Pending = Copy!Whole(k.n)
<1>1. CopyTypes /\ \A k, l \in d_kids : k = l
  BY OneKid
<1>2. /\ d_done \in [timed : Nat, counted : Nat, drawn : Seq(Nat), lost : Nat] /\ d_ints \in Nat /\ d_got.n \in Nat
      /\ d_count \in Int /\ d_log \in Seq(CopyWrites) /\ d_kids \subseteq CopyKids
  BY <1>1 DEF CopyTypes
<1>3. \A k \in d_kids : k.n \in Nat /\ k.ints \in Nat /\ Copy!Whole(k.n) \in Nat
  BY <1>2, WholeNat DEF CopyKids
<1>4. /\ (\A k \in d_kids : k.at # "write") => Copy!Pending = 0
      /\ \A k \in d_kids : k.at = "write" => Copy!Pending = Copy!Whole(k.n)
  BY <1>1, PendingIs DEF Copy!Pending
<1>5. Copy!Pending \in Nat
  BY <1>3, <1>4
<1>6. Copy!Words(d_log) \in Nat
  <2>1. Len(d_log) \in 0 .. Len(d_log)
    BY <1>2
  <2> QED BY ONLY <1>2, <2>1, WordsSteps
<1>7. Copy!Whole(d_got.n) \in Nat /\ d_done.timed \in Nat /\ d_done.counted \in Nat /\ d_done.lost \in Nat
  BY <1>2, WholeNat
<1> QED BY <1>2, <1>3, <1>4, <1>5, <1>6, <1>7

\* Nothing was read or written.
LEMMA AccountsBegin == ASSUME CopySizes, Copy!Init PROVE Accounts
<1>1. d_hist \in [0 .. 11 -> Nat] /\ \A b \in 0 .. 11 : d_hist[b] = 0
  BY DEF Copy!Init
<1>2. Copy!InHistogram(d_hist) = 0
  <2>1. Copy!InHistogram(d_hist) = d_hist[0] + d_hist[1] + d_hist[2] + d_hist[3] + d_hist[4] + d_hist[5]
                         + d_hist[6] + d_hist[7] + d_hist[8] + d_hist[9] + d_hist[10] + d_hist[11]
    BY ONLY <1>1, HistogramSum, Zenon
  <2> QED BY ONLY <1>1, <2>1
<1>3. d_ints = 0 /\ d_log = <<>> /\ Copy!Pending = 0 /\ d_kids = {} /\ d_shifts = 0 /\ d_pc = "loop"
  BY DEF Copy!Init, Copy!Pending
<1>4. Copy!Words(d_log) = 0
  BY <1>3, WordsEmpty
<1>5. d_done.timed = 0 /\ d_done.lost = 0 /\ d_done.counted = 0
  BY DEF Copy!Init
<1>6. CountFits
  <2>1. d_opt.cnt # Copy!None => d_opt.cnt \in Nat
    BY DEF Copy!Init, Copy!Options, CopySizes
  <2>2. d_count = d_opt.cnt
    BY DEF Copy!Init
  <2> QED BY <1>3, <1>5, <2>1, <2>2 DEF CountFits
<1>7. LackOf(Copy!Whole(d_got.n)) /\ KidsCount
  BY <1>3, <1>4, <1>5 DEF LackOf, Lack, KidsCount, Ending
<1>8. TimesFit(d_done.timed - Copy!InHistogram(d_hist))
  BY <1>2, <1>3, <1>5 DEF TimesFit, Ending
<1> QED BY <1>1, <1>3, <1>6, <1>7, <1>8 DEF Accounts

\* The words in the output, from the writes.
LEMMA WriteAccounts ==
  ASSUME CopySizes, CopyInv, NEW w, w.off \in Nat, w.from \in Nat, w.n \in Nat, Copy!Written(w)
  PROVE  Copy!Words(d_log') = Copy!Words(d_log) + Copy!Whole(w.n)
<1>1. d_log \in Seq(CopyWrites) /\ d_pos.out \in Nat
  BY OneKid DEF CopyTypes
<1> DEFINE x == [at |-> d_pos.out, off |-> w.off, from |-> w.from, n |-> w.n]
<1>2. x \in CopyWrites /\ x.n = w.n
  BY <1>1 DEF CopyWrites
<1>3. d_log' = Append(d_log, x)
  BY DEF Copy!Written
<1> HIDE DEF x
<1>4. Copy!Words(Append(d_log, x)) = Copy!Words(d_log) + Copy!Whole(x.n)
  BY ONLY <1>1, <1>2, WordsAppend
<1> QED BY ONLY <1>2, <1>3, <1>4, Zenon

\* What is printed about the reads.
ReadsCount ==
    /\ d_sigs = 0 => d_shifts = IF d_pc \in {"shifted", "over"} THEN 1 ELSE 0
    /\ CountFits
    /\ d_hist \in [0 .. 11 -> Nat]
    /\ d_opt.rt = 10 => TimesFit(d_done.timed - Copy!InHistogram(d_hist))

\* A step inside an iteration, or of a child, reads nothing.
LEMMA StepReads ==
  ASSUME CopyInv, Accounts, UNCHANGED <<d_opt, d_count, d_shifts, d_sigs, d_hist>>,
         d_done'.timed = d_done.timed, d_done'.counted = d_done.counted,
         \/ d_pc' = d_pc
         \/ d_pc = "got" /\ d_pc' \in {"written", "forked"}
  PROVE  ReadsCount'
<1>1. /\ d_sigs = 0 => d_shifts = IF d_pc \in {"shifted", "over"} THEN 1 ELSE 0
      /\ CountFits
      /\ d_hist \in [0 .. 11 -> Nat]
      /\ d_opt.rt = 10 => TimesFit(d_done.timed - Copy!InHistogram(d_hist))
  BY DEF Accounts
<1>2. CountFits'
  BY <1>1 DEF CountFits
<1>3. d_opt'.rt = 10 => TimesFit(d_done.timed - Copy!InHistogram(d_hist))'
  BY <1>1 DEF TimesFit, Ending
<1> QED BY <1>1, <1>2, <1>3 DEF ReadsCount

\* The program is ending, and nothing is counted.
LEMMA StopAccounts ==
  ASSUME CopySizes, CopyInv, Accounts, d_pc' \in Ending, d_sigs' \in Nat,
         UNCHANGED <<d_opt, d_count, d_ints, d_got, d_kids, d_log, d_hist, d_done>>,
         \/ d_sigs' = d_sigs + 1
         \/ /\ d_sigs' = d_sigs /\ d_pc \in {"loop", "got"} \cup Ending
            /\ d_sigs = 0 => d_shifts' = IF d_pc' \in {"shifted", "over"} THEN 1 ELSE 0
  PROVE  Accounts'
<1>1. CopyTypes /\ d_count \in Int /\ d_done.counted \in Nat /\ d_sigs \in Nat
  BY OneKid, AccountTypes DEF CopyTypes
<1>2. Lack' = Lack /\ Copy!Words(d_log') = Copy!Words(d_log)
  BY DEF Lack, Copy!Pending
<1>3. ASSUME d_opt.out PROVE (LackOf(Copy!Whole(d_got.n)) /\ KidsCount)'
  <2>1. LackOf(Copy!Whole(d_got.n)) /\ KidsCount
    BY <1>3 DEF Accounts
  <2>2. KidsCount'
    BY <2>1, <1>2 DEF KidsCount
  <2>3. LackOf(Copy!Whole(d_got.n))'
    BY <2>1, <1>1, <1>2 DEF LackOf, CopyTypes, Ending
  <2> QED BY <2>2, <2>3
<1>4. CountFits'
  <2>1. d_opt.cnt # Copy!None => d_opt.cnt \in Nat
    BY OneKid DEF CopyTypes, Copy!Options, CopySizes
  <2> QED BY <1>1, <2>1 DEF Accounts, CountFits, Ending
<1>5. ASSUME d_opt.rt = 10 PROVE TimesFit(d_done.timed - Copy!InHistogram(d_hist))'
  <2>1. TimesFit(d_done.timed - Copy!InHistogram(d_hist))
    BY <1>5 DEF Accounts
  <2> QED BY <2>1, <1>1 DEF TimesFit, CopyTypes, Ending
<1>6. d_sigs' = 0 => d_shifts' = IF d_pc' \in {"shifted", "over"} THEN 1 ELSE 0
  BY <1>1
<1> QED BY <1>3, <1>4, <1>5, <1>6 DEF Accounts

\* A read; its time is put into the histogram later.
LEMMA ReadAccounts == ASSUME CopySizes, CopyInv, Accounts, Copy!Read PROVE Accounts'
<1>1. /\ CopyTypes /\ d_count \in Int /\ d_done \in [timed : Nat, counted : Nat, drawn : Seq(Nat), lost : Nat]
      /\ (d_opt.cnt # Copy!None => d_opt.cnt \in Nat)
  BY OneKid DEF CopyTypes, Copy!Options, CopySizes
<1>2. /\ d_pc = "loop" /\ UNCHANGED <<d_opt, d_ints, d_shifts, d_sigs, d_kids, d_log, d_hist>>
  BY DEF Copy!Read, Copy!ending
<1>3. \/ UNCHANGED <<d_pc, d_count, d_got, d_done>>
      \/ /\ d_count' = d_count - 1 /\ d_done'.counted = d_done.counted /\ d_done'.lost = d_done.lost
         /\ d_opt.rt = 10 => d_done'.timed = d_done.timed + 1 /\ d_pc' = "read"
         /\ d_pc' \in {"read", "got", "done"}
  <2>1. PICK o \in Copy!Drawn, fails \in BOOLEAN :
          LET n == IF fails THEN 0 ELSE Amt(o)
          IN
            IF d_pad /\ d_opt.in
            THEN UNCHANGED <<d_pc, d_count, d_got, d_done>>
            ELSE /\ d_count' = d_count - 1
                 /\ d_done' = [d_done EXCEPT !.drawn = Append(@, o),
                                             !.timed = IF d_opt.rt # Copy!None THEN @ + 1 ELSE @]
                 /\ d_pc' = IF d_opt.rt # Copy!None THEN "read" ELSE Copy!Moved(n)
    BY DEF Copy!Read, From, Amt
  <2>2. CASE d_pad /\ d_opt.in
    BY <2>1, <2>2
  <2>3. CASE ~ (d_pad /\ d_opt.in)
    <3>1. /\ d_count' = d_count - 1
          /\ d_done' = [d_done EXCEPT !.drawn = Append(@, o),
                                      !.timed = IF d_opt.rt # Copy!None THEN @ + 1 ELSE @]
          /\ d_pc' \in {"read", "got", "done"} /\ (d_opt.rt # Copy!None => d_pc' = "read")
      BY <2>1, <2>3 DEF Copy!Moved
    <3>2. /\ d_done'.counted = d_done.counted /\ d_done'.lost = d_done.lost
          /\ d_opt.rt # Copy!None => d_done'.timed = d_done.timed + 1
      BY <1>1, <3>1
    <3>3. d_opt.rt = 10 => d_opt.rt # Copy!None
      BY DEF Copy!None
    <3> QED BY <3>1, <3>2, <3>3
  <2> QED BY <2>2, <2>3
<1>4. d_done'.lost = d_done.lost /\ d_pc' \in {"loop", "read", "got", "done"}
  BY <1>2, <1>3
<1>5. Lack' = Lack /\ Copy!Words(d_log') = Copy!Words(d_log)
  BY <1>2, <1>4 DEF Lack, Copy!Pending
<1>6. ASSUME d_opt.out PROVE (LackOf(Copy!Whole(d_got.n)) /\ KidsCount)'
  <2>1. LackOf(Copy!Whole(d_got.n)) /\ KidsCount
    BY <1>6 DEF Accounts
  <2>2. KidsCount'
    BY <2>1, <1>2, <1>4, <1>5 DEF KidsCount
  <2>3. Lack = 0
    BY <1>2, <2>1 DEF LackOf
  <2>4. LackOf(Copy!Whole(d_got.n))'
    BY <2>3, <1>4, <1>5 DEF LackOf, Ending
  <2> QED BY <2>2, <2>4
<1>7. CountFits'
  <2>1. d_done.counted \in Nat
    BY <1>1
  <2>2. d_opt.cnt # Copy!None => d_done.counted + d_count + 0 <= d_opt.cnt
    BY <1>2 DEF Accounts, CountFits
  <2>3. CASE UNCHANGED <<d_pc, d_count, d_got, d_done>>
    BY <1>2, <2>3 DEF Accounts, CountFits
  <2>4. CASE ~ UNCHANGED <<d_pc, d_count, d_got, d_done>>
    <3>1. d_count' = d_count - 1 /\ d_done'.counted = d_done.counted
      BY <1>3, <2>4
    <3> QED BY <1>1, <1>2, <2>1, <2>2, <3>1 DEF CountFits
  <2> QED BY <2>3, <2>4
<1>8. ASSUME d_opt.rt = 10 PROVE TimesFit(d_done.timed - Copy!InHistogram(d_hist))'
  <2>1. d_done.timed - Copy!InHistogram(d_hist) = 0 /\ d_done.timed \in Nat
    BY <1>1, <1>2, <1>8 DEF Accounts, TimesFit
  <2>2. Copy!InHistogram(d_hist) \in Int
    <3>1. \A b \in 0 .. 11 : d_hist[b] \in Nat
      BY DEF Accounts
    <3>2. d_hist \in [0 .. 11 -> Nat]
      BY DEF Accounts
    <3> QED BY <3>1, <3>2, HistogramSum
  <2>3. Copy!InHistogram(d_hist)' = Copy!InHistogram(d_hist)
    BY <1>2
  <2> QED BY <1>2, <1>3, <1>8, <2>1, <2>2, <2>3 DEF TimesFit, Ending
<1>9. d_hist' \in [0 .. 11 -> Nat] /\ (d_sigs' = 0 => d_shifts' = IF d_pc' \in {"shifted", "over"} THEN 1 ELSE 0)
  BY <1>2, <1>4 DEF Accounts
<1> QED BY <1>2, <1>6, <1>7, <1>8, <1>9 DEF Accounts

\* The read is put into the histogram.
LEMMA TimeAccounts == ASSUME CopySizes, CopyInv, Accounts, Copy!TimeRead PROVE Accounts'
<1>1. /\ d_pc = "read" /\ d_pc' \in {"got", "done"}
      /\ UNCHANGED <<d_opt, d_count, d_got, d_ints, d_shifts, d_sigs, d_kids, d_log, d_done>>
  BY DEF Copy!TimeRead, Copy!Moved, Copy!ending
<1>2. PICK mills \in Millis : Copy!Count(mills)
  BY DEF Copy!TimeRead
<1>3. mills \in Nat /\ d_hist \in [0 .. 11 -> Nat] /\ d_done.timed \in Nat /\ d_done.counted \in Nat /\ d_count \in Int
  BY AccountTypes DEF CopySizes, Accounts
<1>4. d_hist' \in [0 .. 11 -> Nat]
  <2>1. d_hist' = [b \in 0 .. 11 |-> IF b \in Copy!Bucket(mills) THEN d_hist[b] + 1 ELSE d_hist[b]]
    BY <1>2 DEF Copy!Count
  <2>2. \A b \in 0 .. 11 : d_hist[b] \in Nat /\ d_hist[b] + 1 \in Nat
    BY <1>3
  <2> QED BY ONLY <2>1, <2>2
<1>5. Lack' = Lack /\ Copy!Words(d_log') = Copy!Words(d_log)
  BY <1>1 DEF Lack, Copy!Pending
<1>6. ASSUME d_opt.out PROVE (LackOf(Copy!Whole(d_got.n)) /\ KidsCount)'
  <2>1. LackOf(Copy!Whole(d_got.n)) /\ KidsCount
    BY <1>6 DEF Accounts
  <2>2. KidsCount'
    BY <2>1, <1>1, <1>5 DEF KidsCount
  <2>3. Lack = 0
    BY <1>1, <2>1 DEF LackOf
  <2>4. LackOf(Copy!Whole(d_got.n))'
    BY <2>3, <1>1, <1>5 DEF LackOf, Ending
  <2> QED BY <2>2, <2>4
<1>7. CountFits'
  <2>1. d_opt.cnt # Copy!None => d_opt.cnt \in Nat
    BY OneKid DEF CopyTypes, Copy!Options, CopySizes
  <2> QED BY <1>1, <1>3, <2>1 DEF Accounts, CountFits
<1>8. ASSUME d_opt.rt = 10 PROVE TimesFit(d_done.timed - Copy!InHistogram(d_hist))'
  <2>1. d_done.timed - Copy!InHistogram(d_hist) = 1
    BY <1>1, <1>8 DEF Accounts, TimesFit
  <2>2. Copy!InHistogram(d_hist') = Copy!InHistogram(d_hist) + 1
    BY <1>2, <1>3, <1>8, CountOne
  <2>3. Copy!InHistogram(d_hist) \in Int
    <3>1. \A b \in 0 .. 11 : d_hist[b] \in Nat
      BY <1>3
    <3> QED BY <1>3, <3>1, HistogramSum
  <2>4. d_done'.timed - Copy!InHistogram(d_hist') = 0
    BY <1>1, <1>3, <2>1, <2>2, <2>3
  <2> QED BY <1>1, <2>4 DEF TimesFit, Ending
<1>9. d_sigs' = 0 => d_shifts' = IF d_pc' \in {"shifted", "over"} THEN 1 ELSE 0
  BY <1>1 DEF Accounts
<1> QED BY <1>1, <1>4, <1>6, <1>7, <1>8, <1>9 DEF Accounts

\* The block is counted.
LEMMA CountAccounts == ASSUME CopySizes, CopyInv, Accounts, Copy!CountBlock PROVE Accounts'
<1>1. /\ d_pc \in {"written", "forked"} /\ d_pc' = "loop" /\ d_ints' = d_ints + Copy!Whole(d_got.n)
      /\ d_done' = [d_done EXCEPT !.counted = @ + 1]
      /\ UNCHANGED <<d_opt, d_count, d_got, d_shifts, d_sigs, d_kids, d_log, d_hist>>
  BY DEF Copy!CountBlock, Copy!ending
<1>2. /\ d_done \in [timed : Nat, counted : Nat, drawn : Seq(Nat), lost : Nat] /\ d_ints \in Nat
      /\ Copy!Whole(d_got.n) \in Nat /\ Copy!Words(d_log) \in Nat /\ Copy!Pending \in Nat /\ d_count \in Int
  BY AccountTypes
<1>3. /\ d_done'.counted = d_done.counted + 1 /\ d_done'.timed = d_done.timed /\ d_done'.lost = d_done.lost
      /\ d_done.counted \in Nat /\ d_done.timed \in Nat /\ d_done.lost \in Nat
  BY ONLY <1>1, <1>2
<1>4. Lack' = Lack - Copy!Whole(d_got.n)
  <2>1. Copy!Pending' = Copy!Pending
    BY <1>1 DEF Copy!Pending
  <2> QED BY <1>1, <1>2, <1>3, <2>1 DEF Lack
<1>5. ASSUME d_opt.out PROVE (LackOf(Copy!Whole(d_got.n)) /\ KidsCount)'
  <2>1. LackOf(Copy!Whole(d_got.n)) /\ KidsCount
    BY <1>5 DEF Accounts
  <2>2. KidsCount'
    BY <2>1, <1>1, <1>3 DEF KidsCount
  <2>3. Lack' = 0
    BY <1>1, <1>2, <1>4, <2>1 DEF LackOf
  <2> QED BY <2>2, <2>3, <1>1 DEF LackOf, Ending
<1>6. CountFits'
  <2>1. d_opt.cnt # Copy!None => d_done.counted + d_count + 1 <= d_opt.cnt
    BY <1>1 DEF Accounts, CountFits
  <2>2. d_opt.cnt # Copy!None => d_done'.counted + d_count' + 0 <= d_opt.cnt
    BY ONLY <1>1, <1>2, <1>3, <2>1
  <2> QED BY <1>1, <2>2 DEF CountFits
<1>7. ASSUME d_opt.rt = 10 PROVE TimesFit(d_done.timed - Copy!InHistogram(d_hist))'
  BY <1>1, <1>3, <1>7 DEF Accounts, TimesFit, Ending
<1> QED BY <1>1, <1>5, <1>6, <1>7 DEF Accounts

\* The block is written, or left to a child, or to nobody.
LEMMA LeaveAccounts ==
  ASSUME CopySizes, CopyInv, Accounts, Copy!Write \/ Copy!Fork \/ Copy!ForkFails
  PROVE  Accounts'
<1>1. /\ d_pc = "got" /\ d_pc' \in {"written", "forked"}
      /\ UNCHANGED <<d_opt, d_count, d_got, d_ints, d_shifts, d_sigs, d_hist>>
  BY DEF Copy!Write, Copy!Fork, Copy!ForkFails, Copy!ending
<1> DEFINE x == Copy!Whole(d_got.n)
<1>2. /\ d_done \in [timed : Nat, counted : Nat, drawn : Seq(Nat), lost : Nat] /\ d_ints \in Nat
      /\ d_done.lost \in Nat /\ x \in Nat /\ Copy!Words(d_log) \in Nat /\ Copy!Pending \in Nat
  BY AccountTypes
<1>3. CopyTypes /\ \A k, l \in d_kids : k = l
  BY OneKid
<1>4. /\ d_done'.timed = d_done.timed /\ d_done'.counted = d_done.counted
      /\ d_opt.out => Lack' = Lack + x /\ KidsCount'
  <2>0. d_opt.out => Lack = 0 /\ KidsCount
    BY <1>1 DEF Accounts, LackOf
  <2>1. CASE Copy!Write
    <3>1. ~ d_opt.fork /\ d_kids' = d_kids /\ d_done' = d_done
      BY <2>1 DEF Copy!Write
    <3>2. d_kids = {} /\ Copy!Pending' = Copy!Pending
      BY <3>1 DEF CopyInv, OutputHere, Copy!Pending
    <3>3. ASSUME d_opt.out PROVE Copy!Words(d_log') = Copy!Words(d_log) + x
      <4>1. Copy!Written(Copy!Block)
        BY <2>1, <3>3 DEF Copy!Write
      <4>2. /\ Copy!Block.off \in Nat /\ Copy!Block.from \in Nat /\ Copy!Block.n \in Nat
            /\ Copy!Block.n = d_got.n
        BY <1>3 DEF Copy!Block, CopyTypes
      <4> QED BY <4>1, <4>2, WriteAccounts
    <3> HIDE DEF x
    <3> QED BY <1>1, <1>2, <3>1, <3>2, <3>3 DEF Lack, KidsCount
  <2>2. CASE Copy!Fork
    <3>1. d_kids = {} /\ d_kids' = {Copy!Child} /\ d_done' = d_done /\ d_log' = d_log
      BY <2>2 DEF Copy!Fork
    <3>2. Copy!Child.n = d_got.n /\ Copy!Child.ints = d_ints /\ Copy!Child.at = "write"
      BY DEF Copy!Child
    <3>3. Copy!Pending = 0
      BY <3>1, AccountTypes
    <3>4. Copy!Pending' = x
      <4>1. \A k, l \in d_kids' : k = l
        BY <3>1
      <4>2. Copy!Child \in d_kids'
        BY <3>1
      <4> QED BY <4>1, <4>2, <3>2, PendingIs DEF Copy!Pending
    <3>5. Lack' = Lack + x
      BY <1>1, <1>2, <3>1, <3>3, <3>4 DEF Lack
    <3>6. d_opt.out => KidsCount'
      <4>1. d_opt.out => Copy!Words(d_log) + d_done.lost - d_ints = 0
        BY <1>2, <2>0, <3>3 DEF Lack
      <4> QED BY <4>1, <1>1, <3>1, <3>2 DEF KidsCount
    <3> QED BY <3>1, <3>5, <3>6
  <2>3. CASE Copy!ForkFails
    <3>1. d_kids = {} /\ d_kids' = d_kids /\ d_log' = d_log /\ d_done' = [d_done EXCEPT !.lost = @ + x]
      BY <2>3 DEF Copy!ForkFails
    <3> HIDE DEF x
    <3>2. Copy!Pending' = Copy!Pending
      BY <3>1 DEF Copy!Pending
    <3>3. d_done'.lost = d_done.lost + x /\ d_done'.timed = d_done.timed /\ d_done'.counted = d_done.counted
      BY ONLY <1>2, <3>1
    <3> QED BY <1>1, <1>2, <3>1, <3>2, <3>3 DEF Lack, KidsCount
  <2> QED BY <2>1, <2>2, <2>3
<1>5. ReadsCount'
  BY <1>1, <1>4, StepReads
<1>6. ASSUME d_opt.out PROVE LackOf(Copy!Whole(d_got.n))'
  <2>1. Lack = 0
    BY <1>1, <1>6 DEF Accounts, LackOf
  <2>2. Lack' = x /\ Copy!Whole(d_got.n)' = x
    BY <1>1, <1>2, <1>4, <1>6, <2>1
  <2> HIDE DEF x
  <2> QED BY <1>1, <2>2 DEF LackOf, Ending
<1> QED BY <1>1, <1>4, <1>5, <1>6 DEF Accounts, ReadsCount

\* A child writes its block, counts it, or ends.
LEMMA KidAccounts ==
  ASSUME CopySizes, CopyInv, Accounts, Copy!KidWrites \/ Copy!KidCounts \/ Copy!KidEnds
  PROVE  Accounts'
<1>1. UNCHANGED <<d_opt, d_pc, d_count, d_got, d_ints, d_shifts, d_sigs, d_hist>>
  BY DEF Copy!KidWrites, Copy!KidCounts, Copy!KidEnds, Copy!ending
<1>2. /\ d_done \in [timed : Nat, counted : Nat, drawn : Seq(Nat), lost : Nat] /\ d_ints \in Nat
      /\ d_done.lost \in Nat /\ Copy!Words(d_log) \in Nat /\ Copy!Pending \in Nat
      /\ \A k \in d_kids : k.n \in Nat /\ k.ints \in Nat /\ Copy!Whole(k.n) \in Nat
      /\ (\A k \in d_kids : k.at # "write") => Copy!Pending = 0
      /\ \A k \in d_kids : k.at = "write" => Copy!Pending = Copy!Whole(k.n)
  BY AccountTypes
<1>3. /\ CopyTypes /\ \A k, l \in d_kids : k = l
      /\ \A k \in d_kids : k \in CopyKids
  BY OneKid DEF CopyTypes
<1>4. d_opt.out => KidsCount
  BY DEF Accounts
<1>5. /\ d_done'.timed = d_done.timed /\ d_done'.counted = d_done.counted
      /\ d_opt.out => Lack' = Lack /\ KidsCount'
  <2>1. CASE Copy!KidWrites
    <3>1. PICK k \in d_kids : /\ k.at = "write" /\ Copy!Written(k)
                              /\ d_kids' = (d_kids \ {k}) \cup {[k EXCEPT !.at = "count"]}
      BY <2>1 DEF Copy!KidWrites
    <3>2. d_done' = d_done
      BY <2>1 DEF Copy!KidWrites
    <3> DEFINE w == [k EXCEPT !.at = "count"]
    <3>3. /\ w.at = "count" /\ w.n = k.n /\ w.ints = k.ints
          /\ k.off \in Nat /\ k.from \in Nat /\ k.n \in Nat
      BY <1>3 DEF CopyKids
    <3> HIDE DEF w
    <3>4. d_kids' = {w}
      BY <1>3, <3>1 DEF w
    <3>5. Copy!Words(d_log') = Copy!Words(d_log) + Copy!Whole(k.n)
      BY <3>1, <3>3, WriteAccounts
    <3>6. Copy!Pending = Copy!Whole(k.n) /\ Copy!Pending' = 0
      <4>1. (\A l, m \in d_kids' : l = m) /\ \A l \in d_kids' : l.at # "write"
        BY <3>3, <3>4
      <4>2. Copy!Pending' = 0
        BY <4>1, PendingIs DEF Copy!Pending
      <4> QED BY <1>2, <3>1, <4>2
    <3>7. Lack' = Lack
      BY <1>1, <1>2, <3>1, <3>2, <3>5, <3>6 DEF Lack
    <3>8. d_opt.out => KidsCount'
      <4>1. d_opt.out => Copy!Words(d_log) + d_done.lost - k.ints = 0
        BY <1>4, <3>1 DEF KidsCount
      <4>2. d_opt.out => Copy!Words(d_log') + d_done'.lost - w.ints = Copy!Whole(w.n)
        BY <1>2, <3>1, <3>2, <3>3, <3>5, <4>1
      <4> QED BY <4>2, <3>3, <3>4 DEF KidsCount
    <3> QED BY <3>2, <3>7, <3>8
  <2>2. CASE Copy!KidCounts
    <3>1. PICK k \in d_kids : /\ k.at = "count"
                              /\ d_kids' = (d_kids \ {k})
                                    \cup {[k EXCEPT !.at = "exit", !.ints = @ + Copy!Whole(k.n)]}
      BY <2>2 DEF Copy!KidCounts
    <3>2. d_done' = d_done /\ d_log' = d_log
      BY <2>2 DEF Copy!KidCounts
    <3> DEFINE w == [k EXCEPT !.at = "exit", !.ints = @ + Copy!Whole(k.n)]
    <3>3. /\ w.at = "exit" /\ w.ints = k.ints + Copy!Whole(k.n)
      BY <1>3 DEF CopyKids
    <3> HIDE DEF w
    <3>4. d_kids' = {w}
      BY <1>3, <3>1 DEF w
    <3>5. Copy!Pending = 0 /\ Copy!Pending' = 0
      <4>1. (\A l, m \in d_kids' : l = m) /\ \A l \in d_kids' : l.at # "write"
        BY <3>3, <3>4
      <4>2. Copy!Pending' = 0
        BY <4>1, PendingIs DEF Copy!Pending
      <4>3. \A l \in d_kids : l.at # "write"
        BY <1>3, <3>1
      <4> QED BY <1>2, <4>2, <4>3
    <3>6. Lack' = Lack
      BY <1>1, <3>2, <3>5 DEF Lack
    <3>7. d_opt.out => KidsCount'
      <4>1. d_opt.out => Copy!Words(d_log) + d_done.lost - k.ints = Copy!Whole(k.n)
        BY <1>4, <3>1 DEF KidsCount
      <4>2. d_opt.out => Copy!Words(d_log') + d_done'.lost - w.ints = 0
        BY <1>2, <3>1, <3>2, <3>3, <4>1
      <4> QED BY <4>2, <3>3, <3>4 DEF KidsCount
    <3> QED BY <3>2, <3>6, <3>7
  <2>3. CASE Copy!KidEnds
    <3>1. PICK k \in d_kids : /\ d_kids' = d_kids \ {k}
                              /\ IF k.at = "write"
                                 THEN d_done' = [d_done EXCEPT !.lost = @ + Copy!Whole(k.n)]
                                 ELSE d_done' = d_done
      BY <2>3 DEF Copy!KidEnds
    <3>2. d_kids' = {} /\ d_log' = d_log
      BY <1>3, <2>3, <3>1 DEF Copy!KidEnds
    <3>3. Copy!Pending' = 0
      BY <3>2 DEF Copy!Pending
    <3>4. CASE k.at = "write"
      <4>1. d_done' = [d_done EXCEPT !.lost = @ + Copy!Whole(k.n)] /\ Copy!Pending = Copy!Whole(k.n)
        BY <1>2, <3>1, <3>4
      <4>2. d_done'.lost = d_done.lost + Copy!Whole(k.n) /\ d_done'.timed = d_done.timed
            /\ d_done'.counted = d_done.counted
        BY ONLY <1>2, <4>1
      <4> QED BY <1>1, <1>2, <3>1, <3>2, <3>3, <4>1, <4>2 DEF Lack, KidsCount
    <3>5. CASE k.at # "write"
      <4>1. d_done' = d_done /\ \A l \in d_kids : l.at # "write"
        BY <1>3, <3>1, <3>5
      <4>2. Copy!Pending = 0
        BY <1>2, <4>1
      <4> QED BY <1>1, <3>2, <3>3, <4>1, <4>2 DEF Lack, KidsCount
    <3> QED BY <3>4, <3>5
  <2> QED BY <2>1, <2>2, <2>3
<1>6. ReadsCount'
  BY <1>1, <1>5, StepReads
<1>7. ASSUME d_opt.out PROVE LackOf(Copy!Whole(d_got.n))'
  <2>1. LackOf(Copy!Whole(d_got.n)) /\ Lack' = Lack
    BY <1>5, <1>7 DEF Accounts
  <2> QED BY <1>1, <2>1 DEF LackOf
<1> QED BY <1>1, <1>5, <1>6, <1>7 DEF Accounts, ReadsCount

\* Every step.
LEMMA AccountsKeep == ASSUME CopySizes, CopyInv, Accounts, [Copy!Next]_(Copy!vars) PROVE Accounts'
<1>1. CASE Copy!CountDone \/ Copy!WriteFails \/ Copy!Shift \/ Copy!Prints \/ Copy!Signal
  <2>1. d_sigs \in Nat /\ d_shifts \in Nat /\ (d_sigs = 0 => d_shifts = IF d_pc \in {"shifted", "over"} THEN 1 ELSE 0)
    BY OneKid DEF CopyTypes, Accounts
  <2>2. /\ d_pc' \in Ending /\ d_sigs' \in Nat
        /\ UNCHANGED <<d_opt, d_count, d_ints, d_got, d_kids, d_log, d_hist, d_done>>
    BY <1>1, <2>1 DEF Copy!CountDone, Copy!WriteFails, Copy!Shift, Copy!Prints, Copy!Signal, Copy!Exits, Copy!ending, Ending
  <2>3. \/ d_sigs' = d_sigs + 1
        \/ /\ d_sigs' = d_sigs /\ d_pc \in {"loop", "got"} \cup Ending
           /\ d_sigs = 0 => d_shifts' = IF d_pc' \in {"shifted", "over"} THEN 1 ELSE 0
    BY <1>1, <2>1 DEF Copy!CountDone, Copy!WriteFails, Copy!Shift, Copy!Prints, Copy!Signal, Copy!Exits, Copy!ending, Ending
  <2> QED BY <2>2, <2>3, StopAccounts
<1>2. CASE UNCHANGED Copy!vars
  <2>1. UNCHANGED <<d_opt, d_pc, d_count, d_got, d_ints, d_shifts, d_sigs, d_kids, d_log, d_hist, d_done>>
    BY <1>2 DEF Copy!vars, Copy!ending
  <2>2. Lack' = Lack /\ Copy!Whole(d_got.n)' = Copy!Whole(d_got.n)
    BY <2>1 DEF Lack, Copy!Pending
  <2>3. (LackOf(Copy!Whole(d_got.n)))' = LackOf(Copy!Whole(d_got.n)) /\ KidsCount' = KidsCount
    BY <2>1, <2>2 DEF LackOf, KidsCount
  <2>4. CountFits' = CountFits
        /\ TimesFit(d_done.timed - Copy!InHistogram(d_hist))' = TimesFit(d_done.timed - Copy!InHistogram(d_hist))
    BY <2>1 DEF CountFits, TimesFit
  <2> QED BY <2>1, <2>3, <2>4 DEF Accounts
<1> QED BY <1>1, <1>2, ReadAccounts, TimeAccounts, LeaveAccounts, CountAccounts, KidAccounts DEF Copy!Next

\* What done() prints is what was written, but for what it may be short of.
LEMMA AccountsImplied == ASSUME CopySizes, CopyInv, Accounts PROVE Copy!Accounted
<1>1. CopyTypes /\ \A k, l \in d_kids : k = l
  BY OneKid
<1>2. d_opt.cnt # Copy!None => d_done.counted <= d_opt.cnt
  <2>1. d_opt.cnt # Copy!None => d_count \in 0 .. d_opt.cnt /\ d_opt.cnt \in Nat
    BY <1>1 DEF CopyTypes, Copy!Options, CopySizes
  <2>2. d_done.counted \in Nat
    BY <1>1 DEF CopyTypes
  <2> QED BY ONLY <2>1, <2>2, Accounts DEF Accounts, CountFits
<1>3. d_pc \in {"loop", "read", "got", "written", "forked"} \cup Ending /\ d_sigs \in Nat
  BY <1>1 DEF CopyTypes
<1>4. ASSUME d_opt.out PROVE Lack \in Copy!Short({"written", "forked"}, Copy!Whole(d_got.n))
  BY <1>3, <1>4 DEF Accounts, LackOf, Copy!Short, Ending
<1>5. ASSUME d_opt.rt = 10 PROVE d_done.timed - Copy!InHistogram(d_hist) \in Copy!Short({"read"}, 1)
  BY <1>3, <1>5 DEF Accounts, TimesFit, Copy!Short, Ending
<1> QED BY <1>1, <1>2, <1>4, <1>5 DEF Accounts, KidsCount, Lack, Copy!Accounted
===============================================================================
