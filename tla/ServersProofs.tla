---------------------------- MODULE ServersProofs ----------------------------
(***************************************************************************)
(* WaitNeverBlocks of module Servers for any number of connections, server *)
(* processes, failing forks and killed clients.  Signals carry no name and *)
(* merge, so the argument is about distinct zombies: a pending signal      *)
(* stands for one, a handler that is about to wait() for another.  For     *)
(* this a fork() must never be for a connection that had a process before, *)
(* which follows from the way of a connection: asked for once, queued      *)
(* once, accepted by one process.                                          *)
(*                                                                         *)
(* TypeOK and StopsOnlyWhenTold, for any number of them, retries of a      *)
(* connect() and answers on a wire: what a server hears was said by a      *)
(* client, and only a first word, or its absence, can end a process.       *)
(***************************************************************************)
EXTENDS Servers, FiniteSetTheorems, TLAPS

(* The dead children that signals stand for.                               *)
Zombie(c) == kid[c] = "zombie"
Covered ==
  /\ sig => \E c \in Clients : Zombie(c)
  /\ inWait => \E c \in Clients : Zombie(c)
  /\ sig /\ inWait => \E c, d \in Clients : c # d /\ Zombie(c) /\ Zombie(d)

(* What the proofs of the steps need to know of the types.                 *)
Types ==
  /\ sig \in BOOLEAN /\ inWait \in BOOLEAN
  /\ queue \in Seq(Clients)
  /\ on \in [Threads -> Clients \cup {None}]
  /\ kid \in [Clients -> {"none", "hello", "serve", "zombie", "gone"}]
  /\ DOMAIN cl = Clients

(* A connection on its way to a process has none yet ...                   *)
Unconnected(c) == cl[c] \in {"new", "resolved"}
Queued(c) == \E i \in 1 .. Len(queue) : queue[i] = c
Fresh ==
  \A c \in Clients :
    /\ Unconnected(c) => kid[c] = "none" /\ ~Queued(c) /\ \A w \in Threads : on[w] # c
    /\ Queued(c) => kid[c] = "none" /\ \A w \in Threads : on[w] # c
    /\ (\E w \in Threads : on[w] = c) => kid[c] = "none"

(* ... and is in one place.                                                *)
OncePlaced ==
  /\ \A i, j \in 1 .. Len(queue) : queue[i] = queue[j] => i = j
  /\ \A v, w \in Threads : v # w /\ on[v] = on[w] => on[v] = None

IInv == Types /\ Covered /\ Fresh /\ OncePlaced

Apart == None \notin Clients /\ 1 \in Threads
Finite == IsFiniteSet(Clients)

LEMMA InitIInv == ASSUME Apart PROVE Init => IInv
<1> SUFFICES ASSUME Init PROVE IInv
  OBVIOUS
<1>1. Types /\ Covered
  <2>1. queue \in Seq(Clients)
    BY DEF Init
  <2>2. DOMAIN cl = Clients
    BY DEF Init
  <2>3. sig \in BOOLEAN /\ inWait \in BOOLEAN /\ Covered
    BY DEF Init, Covered
  <2>4. on \in [Threads -> Clients \cup {None}]
    BY DEF Init
  <2>5. kid \in [Clients -> {"none", "hello", "serve", "zombie", "gone"}]
    BY DEF Init
  <2> QED BY <2>1, <2>2, <2>3, <2>4, <2>5 DEF Types
<1>2. Len(queue) = 0 /\ \A w \in Threads : on[w] = None
  BY DEF Init
<1>3. Fresh
  BY <1>2 DEF Init, Fresh, Unconnected, Queued, Apart
<1>4. OncePlaced
  BY <1>2 DEF OncePlaced
<1> QED BY <1>1, <1>3, <1>4 DEF IInv

-----------------------------------------------------------------------------
(* Steps that leave the processes, the queue and the signals alone, and    *)
(* never begin a connection again.                                         *)
Beside ==
  /\ UNCHANGED <<kid, sig, inWait, queue, on>>
  /\ DOMAIN cl' = DOMAIN cl
  /\ \A c \in Clients : cl'[c] \in {"new", "resolved"} => Unconnected(c)

LEMMA BesideKeeps == ASSUME IInv, Beside PROVE IInv'
<1>1. Types' /\ Covered' /\ OncePlaced'
  BY DEF IInv, Beside, Types, Covered, Zombie, OncePlaced
<1>2. Fresh'
  BY DEF IInv, Beside, Fresh, Unconnected, Queued
<1> QED BY <1>1, <1>2 DEF IInv

LEMMA ClientBeside ==
  ASSUME IInv, NEW c \in Clients,
         \/ Lookup(c) \/ ConnectRefused(c) \/ Speak(c) \/ Take(c) \/ Close(c)
         \/ Hangup(c) \/ Killed(c)
  PROVE  Beside
<1> USE DEF IInv, Types, Beside, Unconnected, signals, parent
<1>1. CASE Lookup(c)
  BY <1>1 DEF Lookup
<1>2. CASE ConnectRefused(c)
  BY <1>2 DEF ConnectRefused
<1>3. CASE Speak(c)
  BY <1>3 DEF Speak, Say, LatTcpInit, BwTcpInitialize, http, doclient, BwTcpStop,
              LatConnectStop, LatUnixConnectStop, killhttp
<1>4. CASE Take(c)
  BY <1>4 DEF Take
<1>5. CASE Close(c)
  BY <1>5 DEF Close, Leave, LatTcpCleanup, BwTcpCleanup, SelectCleanup,
              LatConnectClient, LatUnixConnectClient, LatTcpStop, StopExits
<1>6. CASE Hangup(c)
  BY <1>6 DEF Hangup, Leave
<1>7. CASE Killed(c)
  BY <1>7 DEF Killed, Leave
<1> QED BY <1>1, <1>2, <1>3, <1>4, <1>5, <1>6, <1>7

(* connect(): the connection was nowhere, so it is queued once.            *)
LEMMA ConnectKeeps == ASSUME IInv, NEW c \in Clients, Connect(c) PROVE IInv'
<1> USE DEF IInv
<1>1. /\ UNCHANGED <<kid, sig, inWait, on>>
      /\ queue' = Append(queue, c) /\ cl' = [cl EXCEPT ![c] = "open"]
      /\ Unconnected(c)
  BY DEF Connect, signals, Unconnected
<1>2. Types' /\ Covered'
  BY <1>1 DEF Types, Covered, Zombie
<1>3. /\ Len(queue') = Len(queue) + 1 /\ queue'[Len(queue) + 1] = c
      /\ \A i \in 1 .. Len(queue) : queue'[i] = queue[i]
      /\ Len(queue) \in Nat
  BY <1>1 DEF Types
<1>4. ~Queued(c) /\ kid[c] = "none" /\ \A w \in Threads : on[w] # c
  BY <1>1 DEF Fresh
<1>5. \A b \in Clients : Queued(b)' => Queued(b) \/ b = c
  BY <1>3 DEF Queued
<1>6. \A b \in Clients : Unconnected(b)' => Unconnected(b) /\ b # c
  BY <1>1 DEF Unconnected, Types
<1>7. Fresh'
  BY <1>1, <1>4, <1>5, <1>6 DEF Fresh
<1>8. OncePlaced'
  BY <1>1, <1>3, <1>4 DEF OncePlaced, Queued
<1> QED BY <1>2, <1>7, <1>8

-----------------------------------------------------------------------------
(* accept(): from the queue to one process.                                *)
LEMMA AcceptKeeps == ASSUME Apart, IInv, NEW w \in Threads, Accept(w) PROVE IInv'
<1> USE DEF IInv
<1> DEFINE c == Head(queue)
<1>1. /\ UNCHANGED <<kid, sig, inWait, cl>> /\ queue # <<>>
      /\ queue' = Tail(queue) /\ on' = [on EXCEPT ![w] = c]
  BY DEF Accept, signals, client
<1>2. /\ Len(queue) \in Nat /\ Len(queue) >= 1 /\ c = queue[1] /\ c \in Clients
      /\ Len(queue') = Len(queue) - 1
      /\ \A i \in 1 .. Len(queue') : queue'[i] = queue[i + 1]
  BY <1>1 DEF Types
<1>3. Types' /\ Covered'
  BY <1>1, <1>2 DEF Types, Covered, Zombie
<1>4. Queued(c) /\ kid[c] = "none" /\ ~Unconnected(c) /\ \A v \in Threads : on[v] # c
  BY <1>2 DEF Fresh, Queued
<1>5. \A b \in Clients : Queued(b)' => Queued(b) /\ b # c
  BY <1>2 DEF Queued, OncePlaced
<1>6. on'[w] = c /\ \A v \in Threads : v # w => on'[v] = on[v]
  BY <1>1 DEF Types
<1>7. Fresh'
  <2> SUFFICES ASSUME NEW b \in Clients
               PROVE  /\ Unconnected(b)' => kid'[b] = "none" /\ ~Queued(b)'
                                            /\ \A v \in Threads : on'[v] # b
                      /\ Queued(b)' => kid'[b] = "none" /\ \A v \in Threads : on'[v] # b
                      /\ (\E v \in Threads : on'[v] = b) => kid'[b] = "none"
    BY DEF Fresh
  <2>1. Unconnected(b)' => Unconnected(b) /\ b # c
    BY <1>1, <1>4 DEF Unconnected
  <2>2. \A v \in Threads : on'[v] = b => on[v] = b \/ b = c
    BY <1>6
  <2> QED BY <2>1, <2>2, <1>1, <1>4, <1>5 DEF Fresh
<1>8. OncePlaced'
  <2>1. \A i, j \in 1 .. Len(queue') : queue'[i] = queue'[j] => i = j
    BY <1>2 DEF OncePlaced
  <2>2. \A u, v \in Threads : u # v /\ on'[u] = on'[v] => on'[u] = None
    BY <1>4, <1>6 DEF OncePlaced
  <2> QED BY <2>1, <2>2 DEF OncePlaced
<1> QED BY <1>3, <1>7, <1>8

(* Steps after which processes hold fewer connections.                     *)
Releases ==
  /\ UNCHANGED <<kid, cl, queue>>
  /\ on' \in [Threads -> Clients \cup {None}]
  /\ \A w \in Threads : on'[w] = on[w] \/ on'[w] = None

LEMMA ReleasesKeeps ==
  ASSUME Apart, IInv, Releases, UNCHANGED <<sig, inWait>> PROVE IInv'
<1>1. Types' /\ Covered'
  BY DEF IInv, Releases, Types, Covered, Zombie
<1>2. \A c \in Clients, w \in Threads : on'[w] = c => on[w] = c
  BY DEF Releases, Apart
<1>3. Fresh'
  BY <1>2 DEF IInv, Releases, Fresh, Unconnected, Queued
<1>4. OncePlaced'
  BY DEF IInv, Releases, OncePlaced
<1> QED BY <1>1, <1>3, <1>4 DEF IInv

LEMMA ReleaseReleases ==
  ASSUME IInv, UNCHANGED <<kid, cl, queue>>, NEW w, NEW next, Release(w, next)
  PROVE  Releases
  BY DEF IInv, Types, Release, Releases

LEMMA ServerReleases ==
  ASSUME IInv,
         \/ tcp_server \/ unix_server \/ SelectEnds
         \/ \E w \in Workers : \/ LatConnectServer(w) \/ LatUnixConnectServer(w)
                               \/ SelectServer(w) \/ source(w) \/ mmap_rdwr(w)
                               \/ rdwr(w) \/ ForkFails(w)
  PROVE  Releases /\ UNCHANGED <<sig, inWait>>
<1> USE DEF signals, client
<1>1. CASE tcp_server \/ unix_server
  BY <1>1 DEF tcp_server, unix_server, Bound, Releases, IInv, Types
<1>2. CASE SelectEnds
  BY <1>2, ReleaseReleases DEF SelectEnds
<1>3. ASSUME NEW w \in Workers, LatConnectServer(w)
      PROVE  Releases /\ UNCHANGED <<sig, inWait>>
  BY <1>3, ReleaseReleases DEF LatConnectServer
<1>4. ASSUME NEW w \in Workers, LatUnixConnectServer(w)
      PROVE  Releases /\ UNCHANGED <<sig, inWait>>
  BY <1>4, ReleaseReleases DEF LatUnixConnectServer
<1>5. ASSUME NEW w \in Workers, SelectServer(w) \/ ForkFails(w)
      PROVE  Releases /\ UNCHANGED <<sig, inWait>>
  BY <1>5, ReleaseReleases DEF SelectServer, ForkFails
<1>6. ASSUME NEW w \in Workers, source(w)
      PROVE  Releases /\ UNCHANGED <<sig, inWait>>
  <2>1. UNCHANGED <<kid, cl, queue, sig, inWait>>
    BY <1>6 DEF source
  <2>2. UNCHANGED on \/ \E next : Release(w, next)
    BY <1>6 DEF source
  <2> QED BY <2>1, <2>2, ReleaseReleases DEF Releases, IInv, Types
<1>7. ASSUME NEW w \in Workers, mmap_rdwr(w) \/ rdwr(w)
      PROVE  Releases /\ UNCHANGED <<sig, inWait>>
  <2>1. UNCHANGED <<kid, cl, queue, sig, inWait>>
    BY <1>7 DEF mmap_rdwr, rdwr, Sending
  <2>2. UNCHANGED on \/ \E next : Release(w, next)
    BY <1>7 DEF mmap_rdwr, rdwr, SendMore, AllSent
  <2> QED BY <2>1, <2>2, ReleaseReleases DEF Releases, IInv, Types
<1> QED BY <1>1, <1>2, <1>3, <1>4, <1>5, <1>6, <1>7

-----------------------------------------------------------------------------
(* fork(): for a connection that has no process and is nowhere else.       *)
LEMMA ForkKeeps == ASSUME Apart, IInv, NEW w \in Threads, Fork(w) PROVE IInv'
<1> USE DEF IInv
<1> DEFINE c == on[w]
<1>1. /\ UNCHANGED <<cl, queue, sig, inWait>>
      /\ kid' = [kid EXCEPT ![c] = "hello"] /\ on' = [on EXCEPT ![w] = None]
  BY DEF Fork, Release, signals, client
<1>2. \A b \in Clients : kid'[b] = IF b = c THEN "hello" ELSE kid[b]
  BY <1>1 DEF Types
<1>3. c \in Clients => kid[c] = "none" /\ ~Queued(c) /\ ~Unconnected(c)
  BY DEF Fresh
<1>4. Types'
  BY <1>1 DEF Types
<1>5. \A b \in Clients : Zombie(b) => Zombie(b)'
  BY <1>2, <1>3 DEF Zombie
<1>6. Covered'
  BY <1>1, <1>5 DEF Covered
<1>7. on'[w] = None /\ \A v \in Threads : v # w => on'[v] = on[v]
  BY <1>1 DEF Types
<1>8. Fresh'
  <2> SUFFICES ASSUME NEW b \in Clients
               PROVE  /\ Unconnected(b)' => kid'[b] = "none" /\ ~Queued(b)'
                                            /\ \A v \in Threads : on'[v] # b
                      /\ Queued(b)' => kid'[b] = "none" /\ \A v \in Threads : on'[v] # b
                      /\ (\E v \in Threads : on'[v] = b) => kid'[b] = "none"
    BY DEF Fresh
  <2>1. Unconnected(b)' = Unconnected(b) /\ Queued(b)' = Queued(b)
    BY <1>1 DEF Unconnected, Queued
  <2>2. \A v \in Threads : on'[v] = b => on[v] = b /\ b # c
    BY <1>7 DEF OncePlaced, Apart
  <2> QED BY <2>1, <2>2, <1>2, <1>3 DEF Fresh
<1>9. OncePlaced'
  BY <1>1, <1>7 DEF OncePlaced
<1> QED BY <1>4, <1>6, <1>8, <1>9

(* Steps of and about forked processes: they happen to connections that    *)
(* are neither queued nor accepted.                                        *)
LEMMA KidsKeepFresh ==
  ASSUME Apart, IInv, UNCHANGED <<cl, queue>>, Types',
         on' = on \/ on' = [on EXCEPT ![1] = None],
         \A c \in Clients : kid[c] = "none" => kid'[c] = "none"
  PROVE  Fresh' /\ OncePlaced'
<1>1. \A w \in Threads : on'[w] = on[w] \/ on'[w] = None
  BY DEF IInv, Types
<1>2. \A c \in Clients, w \in Threads : on'[w] = c => on[w] = c
  BY <1>1 DEF Apart
<1>3. Fresh'
  BY <1>2 DEF IInv, Fresh, Unconnected, Queued
<1>4. OncePlaced'
  BY <1>1 DEF IInv, OncePlaced
<1> QED BY <1>3, <1>4

(* exit(): a new zombie, other than those that are waited for.             *)
LEMMA ExitKeeps ==
  ASSUME Apart, IInv, NEW c \in Clients, Running(c), Exit(c), UNCHANGED <<cl, queue>>
  PROVE  IInv'
<1> USE DEF IInv
<1>1. Types'
  BY DEF Exit, Types, Alive
<1>2. ~Zombie(c) /\ \A b \in Clients : b # c => kid'[b] = kid[b]
  BY DEF Running, Zombie, Exit, Types
<1>3. sig' => Zombie(c)'
  BY DEF Exit, Zombie, Types, Alive
<1>4. \A b \in Clients : Zombie(b) => Zombie(b)' /\ b # c
  BY <1>2 DEF Zombie
<1>5. Covered'
  BY <1>3, <1>4 DEF Covered, Exit
<1>6. Fresh' /\ OncePlaced'
  <2>1. \A b \in Clients : kid[b] = "none" => kid'[b] = "none"
    BY <1>2 DEF Running
  <2> QED BY <1>1, <2>1, KidsKeepFresh DEF Exit
<1> QED BY <1>1, <1>5, <1>6

(* kill(getppid(), SIGTERM): no parent, no signals.                        *)
LEMMA ShutdownKeeps ==
  ASSUME Apart, IInv, NEW c \in Clients, Running(c), Shutdown(c), UNCHANGED <<cl, queue>>
  PROVE  IInv'
<1> USE DEF IInv
<1>1. Types' /\ Covered'
  BY DEF Shutdown, Release, Types, Covered
<1>2. \A b \in Clients : kid[b] = "none" => kid'[b] = "none"
  BY DEF Shutdown, Running
<1> QED BY <1>1, <1>2, KidsKeepFresh DEF Shutdown, Release

LEMMA KidKeeps ==
  ASSUME Apart, IInv, NEW c \in Clients, KidStep(c) PROVE IInv'
<1>1. UNCHANGED <<cl, queue>>
  BY DEF KidStep, KidStart, doserver, BwTcpSource, client
<1>2. Running(c)
  BY DEF KidStep, KidStart, doserver, BwTcpSource, Running
<1>3. \/ Exit(c) \/ Shutdown(c)
      \/ /\ kid' = kid \/ kid' = [kid EXCEPT ![c] = "serve"]
         /\ UNCHANGED <<on, sig, inWait>>
  BY DEF KidStep, KidStart, Silent, doserver, BwTcpSource, KidEnds, signals
<1>4. CASE Exit(c)
  BY <1>1, <1>2, <1>4, ExitKeeps
<1>5. CASE Shutdown(c)
  BY <1>1, <1>2, <1>5, ShutdownKeeps
<1>6. CASE /\ kid' = kid \/ kid' = [kid EXCEPT ![c] = "serve"]
           /\ UNCHANGED <<on, sig, inWait>>
  <2> USE DEF IInv
  <2>1. Types'
    BY <1>1, <1>6 DEF Types
  <2>2. \A b \in Clients : /\ kid[b] = "none" => kid'[b] = "none"
                           /\ Zombie(b) => Zombie(b)'
    BY <1>2, <1>6 DEF Types, Running, Zombie
  <2>3. Covered'
    BY <1>6, <2>2 DEF Covered
  <2> QED BY <1>1, <1>6, <2>1, <2>2, <2>3, KidsKeepFresh
<1> QED BY <1>3, <1>4, <1>5, <1>6

-----------------------------------------------------------------------------
(* The handler takes over the zombie of the signal ...                     *)
LEMMA SigChldKeeps == ASSUME IInv, SigChld PROVE IInv'
<1>1. Types' /\ Covered'
  BY DEF IInv, SigChld, Types, Covered, Zombie, parent, client
<1>2. Fresh' /\ OncePlaced'
  BY DEF IInv, SigChld, Fresh, OncePlaced, Unconnected, Queued, parent, client
<1> QED BY <1>1, <1>2 DEF IInv

(* ... and wait() leaves the one of a signal that has come since.          *)
LEMMA WaitKeeps == ASSUME Apart, IInv, Wait PROVE IInv'
<1> USE DEF IInv
<1>1. PICK z \in Clients : kid[z] = "zombie" /\ kid' = [kid EXCEPT ![z] = "gone"]
  BY DEF Wait, Zombies
<1>2. inWait /\ inWait' = FALSE /\ UNCHANGED <<cl, queue, on, sig>>
  BY DEF Wait, parent, client
<1>3. Types'
  BY <1>1, <1>2 DEF Types
<1>4. \A b \in Clients : b # z => kid'[b] = kid[b]
  BY <1>1 DEF Types
<1>5. Covered'
  BY <1>2, <1>4 DEF Covered, Zombie
<1>6. \A b \in Clients : kid[b] = "none" => kid'[b] = "none"
  BY <1>1, <1>4
<1> QED BY <1>2, <1>3, <1>5, <1>6, KidsKeepFresh

LEMMA NextKeeps == ASSUME Apart, IInv, [Next]_vars PROVE IInv'
<1>1. CASE Next
  <2>1. CASE \E c \in Clients : ClientStep(c) \/ Killed(c)
    <3>1. PICK c \in Clients : ClientStep(c) \/ Killed(c)
      BY <2>1
    <3>2. CASE Connect(c)
      BY <3>2, ConnectKeeps
    <3>3. CASE ~Connect(c)
      <4>1. Beside
        BY <3>1, <3>3, ClientBeside DEF ClientStep
      <4> QED BY <4>1, BesideKeeps
    <3> QED BY <3>2, <3>3
  <2>2. CASE \E c \in Clients : KidStep(c)
    BY <2>2, KidKeeps
  <2>3. CASE \E w \in Workers : tcp_accept(w) \/ unix_accept(w) \/ Fork(w)
    <3>1. PICK w \in Workers : Accept(w) \/ Fork(w)
      BY <2>3 DEF tcp_accept, unix_accept
    <3>2. w \in Threads
      BY DEF Workers, Apart
    <3> QED BY <3>1, <3>2, AcceptKeeps, ForkKeeps
  <2>4. CASE \/ tcp_server \/ unix_server \/ SelectEnds
             \/ \E w \in Workers : \/ LatConnectServer(w) \/ LatUnixConnectServer(w)
                                   \/ SelectServer(w) \/ source(w) \/ mmap_rdwr(w)
                                   \/ rdwr(w) \/ ForkFails(w)
    BY <2>4, ServerReleases, ReleasesKeeps
  <2>5. CASE SigChld
    BY <2>5, SigChldKeeps
  <2>6. CASE Wait
    BY <2>6, WaitKeeps
  <2> QED BY <1>1, <2>1, <2>2, <2>3, <2>4, <2>5, <2>6 DEF Next, SoleStep, WorkerStep
<1>2. CASE UNCHANGED vars
  <2>1. Beside
    BY <1>2 DEF vars, parent, signals, client, Beside, Unconnected
  <2> QED BY <2>1, BesideKeeps
<1> QED BY <1>1, <1>2

-----------------------------------------------------------------------------
(* The zombies, counted.                                                   *)
LEMMA Counted == ASSUME Finite, IInv PROVE WaitNeverBlocks
<1>1. IsFiniteSet(Zombies) /\ Cardinality(Zombies) \in Nat
  BY FS_Subset, FS_CardinalityType DEF Zombies, Finite
<1>2. \A c \in Zombies : Cardinality(Zombies) >= 1
  BY <1>1, FS_EmptySet
<1>3. ASSUME NEW c \in Zombies, NEW d \in Zombies, c # d
      PROVE  Cardinality(Zombies) >= 2
  <2>1. IsFiniteSet({d}) /\ Cardinality({d}) = 1
    BY FS_Singleton
  <2>2. IsFiniteSet({c, d}) /\ Cardinality({c, d}) = 2
    <3>1. c \notin {d} /\ {d} \cup {c} = {c, d}
      BY <1>3
    <3> QED BY <2>1, <3>1, FS_AddElement
  <2>3. {c, d} \subseteq Zombies
    OBVIOUS
  <2> QED BY <1>1, <2>2, <2>3, FS_Subset
<1>4. CASE sig /\ inWait
  <2>1. \E c, d \in Zombies : c # d
    BY <1>4 DEF IInv, Covered, Zombie, Zombies
  <2> QED BY <1>1, <1>3, <1>4, <2>1 DEF WaitNeverBlocks
<1>5. CASE (sig \/ inWait) /\ ~(sig /\ inWait)
  <2>1. \E c \in Zombies : TRUE
    BY <1>5 DEF IInv, Covered, Zombie, Zombies
  <2> QED BY <1>1, <1>2, <1>5, <2>1 DEF WaitNeverBlocks
<1>6. CASE ~sig /\ ~inWait
  BY <1>1, <1>6 DEF WaitNeverBlocks
<1> QED BY <1>4, <1>5, <1>6

(* sigchld_wait_handler() of lib_timing.c waits without WNOHANG, and never *)
(* blocks the servers that use it: there is a dead child for every signal. *)
THEOREM NeverBlocks ==
  ASSUME Apart, Finite PROVE Spec => []WaitNeverBlocks
<1>1. IInv /\ [Next]_vars => IInv'
  BY NextKeeps
<1>2. IInv => WaitNeverBlocks
  BY Counted
<1>3. Init => IInv
  BY InitIInv
<1> QED BY <1>1, <1>2, <1>3, PTL DEF Spec

-----------------------------------------------------------------------------
(* Who tells a server to stop.  What is on a wire was said, and in this    *)
(* order; the first word decides.                                          *)
Words == {"size", "request", "stop"}
Connecting(c) == cl[c] \in {"new", "resolved", "open"}
TextOf(c) ==
  /\ Connecting(c) => Len(said[c]) = 0 /\ Len(toServer[c]) = 0
  /\ \A i \in 1 .. Len(toServer[c]) :
       toServer[c][i] = "stop" => Len(said[c]) > 0 /\ said[c][1] = "stop"
  /\ kind = "lat_connect" => \A i \in 1 .. Len(toServer[c]) : toServer[c][i] = "stop"
  /\ kind = "lmhttp" => Len(toServer[c]) <= 1
  /\ kind \in Forking /\ kid[c] \in {"none", "hello"} => toServer[c] = said[c]
Texts ==
  /\ said \in [Clients -> Seq(Words)] /\ toServer \in [Clients -> Seq(Words)]
  /\ \A c \in Clients : TextOf(c)

(* lat_tcp: one request at a time, so one answer at a time.                *)
AnswerOf(c) ==
  kind = "lat_tcp" =>
    /\ toClient[c] \in 0 .. 1
    /\ kid[c] \in {"none", "hello"} =>
         /\ toClient[c] = 0 /\ Len(toServer[c]) <= 2
         /\ cl[c] = "ready" => Len(toServer[c]) <= 1
    /\ kid[c] = "serve" =>
         /\ ~Connecting(c) /\ Len(toServer[c]) + toClient[c] <= 1
         /\ cl[c] = "ready" => Len(toServer[c]) = 0 /\ toClient[c] = 0
Answers == \A c \in Clients : AnswerOf(c)

(* A connection some process has, or will accept: its client has not seen  *)
(* it end ...                                                              *)
Attended(c) ==
  \/ Running(c) \/ \E w \in Workers : Alive(w) /\ on[w] = c
  \/ Listening /\ Queued(c)
Present == \A c \in Clients : Attended(c) => cl[c] # "failed" /\ ~Unconnected(c)

(* ... and unless it was killed still waits for the answer of lmhttp.      *)
Waiting ==
  kind = "lmhttp" /\ crashes = 0 =>
    /\ \A c \in Clients :
         Attended(c) /\ Len(toServer[c]) > 0 /\ toServer[c][1] = "request" => cl[c] = "asked"
    /\ \A w \in Workers : pc[w] = "send" => cl[on[w]] = "asked"

(* Nothing happens before the server is bound, and a server process that   *)
(* is busy is so with a connection.                                        *)
Begun ==
  /\ pc[1] = "start" => /\ Len(queue) = 0 /\ \A w \in Threads : pc[w] = "start"
                        /\ \A c \in Clients : kid[c] = "none"
  /\ \A w \in Threads : pc[w] \in {"fork", "read", "send"} => on[w] \in Clients
  /\ \A w \in Threads : /\ pc[w] = "fork" => kind \in Forking
                        /\ pc[w] = "send" => kind = "lmhttp"

(* tcp_connect() counts its failures.                                      *)
Patience == \A c \in Clients : Unconnected(c) => tries[c] <= MaxTries

(* The reasons to stop.                                                    *)
Told ==
  \/ \E c \in Clients : Len(said[c]) > 0 /\ said[c][1] = "stop"
  \/ kind = "lat_tcp" /\ \E c \in Clients : cl[c] = "closed" /\ Len(said[c]) = 0
  \/ kind = "lat_select" /\ \A c \in Clients : ~ClientEnd(c) /\ ~Unconnected(c)
  \/ kind = "lmhttp" /\ crashes > 0
Obeys == \A w \in Workers : pc[w] = "dead" => Told

SInv == TypeOK /\ Texts /\ Answers /\ Present /\ Waiting /\ Begun /\ Patience
        /\ toClient \in [Clients -> 0 .. Window] /\ crashes \in Nat /\ Obeys

Limits == MaxTries \in Nat /\ Window \in Nat \ {0}

LEMMA InitSInv == ASSUME Apart, Limits PROVE Init => SInv
<1> SUFFICES ASSUME Init PROVE SInv
  OBVIOUS
<1>1. TypeOK
  <2>1. queue \in Seq(Clients)
    BY DEF Init
  <2>2. \A c \in Clients : toClient[c] \in 0 .. Window
    BY DEF Init, Limits
  <2>3. tries \in [Clients -> 0 .. MaxTries + 1]
    BY DEF Init, Limits
  <2>4. /\ pc \in [Threads -> {"start", "accept", "fork", "read", "send", "dead"}]
        /\ cl \in [Clients -> {"new", "resolved", "open", "ready", "asked", "closed", "failed"}]
        /\ kid \in [Clients -> {"none", "hello", "serve", "zombie", "gone"}]
    BY DEF Init
  <2>5. on \in [Threads -> Clients \cup {None}] /\ held \subseteq Clients
    BY DEF Init
  <2>6. /\ kind \in Kinds /\ role \in [Clients -> {"bench", "stop"}]
        /\ advertised \in BOOLEAN /\ sig \in BOOLEAN /\ inWait \in BOOLEAN
    BY DEF Init
  <2> QED BY <2>1, <2>2, <2>3, <2>4, <2>5, <2>6 DEF TypeOK
<1>2. \A c \in Clients : /\ cl[c] = "new" /\ kid[c] = "none" /\ toClient[c] = 0
                         /\ Len(said[c]) = 0 /\ Len(toServer[c]) = 0 /\ tries[c] = 0
                         /\ said[c] = toServer[c]
  BY DEF Init
<1>3. Len(queue) = 0 /\ \A w \in Threads : pc[w] = "start" /\ on[w] = None
  BY DEF Init
<1>4. Texts
  <2>1. said \in [Clients -> Seq(Words)] /\ toServer \in [Clients -> Seq(Words)]
    BY DEF Init
  <2> QED BY <1>2, <2>1 DEF Texts, TextOf
<1>5. Answers
  BY <1>2 DEF Answers, AnswerOf
<1>6. Workers \subseteq Threads
  BY DEF Workers, Apart
<1>7. \A c \in Clients : ~Attended(c)
  BY <1>2, <1>3, <1>6 DEF Attended, Running, Listening, Queued, Apart
<1>8. Present /\ Waiting /\ Begun /\ Obeys
  BY <1>2, <1>3, <1>6, <1>7 DEF Present, Waiting, Begun, Obeys, Apart
<1>9. Patience
  BY <1>2 DEF Patience, Limits
<1>10. crashes \in Nat /\ toClient \in [Clients -> 0 .. Window]
  BY DEF Init, Limits
<1> QED BY <1>1, <1>4, <1>5, <1>8, <1>9, <1>10 DEF SInv

LEMMA ToldMeansStops == ASSUME SInv PROVE StopsOnlyWhenTold
<1>1. \A c \in Clients : Len(said[c]) > 0 => said[c] # <<>> /\ Head(said[c]) = said[c][1]
  BY DEF SInv, Texts
<1>2. \A c \in Clients : Len(said[c]) = 0 => said[c] = <<>>
  BY DEF SInv, Texts
<1> QED BY <1>1, <1>2 DEF SInv, Obeys, Told, StopsOnlyWhenTold

(* The clients.  What the server has is not touched by them.               *)
LEMMA SameAttended ==
  ASSUME UNCHANGED <<kind, pc, on, queue, kid>>
  PROVE  /\ \A c \in Clients : Attended(c)' = Attended(c)
         /\ Workers' = Workers /\ (Begun => Begun')
  BY DEF Attended, Running, Workers, Alive, Listening, Queued, Begun

LEMMA AloneTold ==
  ASSUME Obeys, Told => Told', UNCHANGED <<kind, pc>> PROVE Obeys'
  BY DEF Obeys, Workers

(* A step of the client of one connection.                                 *)
States == {"new", "resolved", "open", "ready", "asked", "closed", "failed"}
ClientOnly(c) ==
  /\ UNCHANGED <<kind, role, parent, kid, signals>>
  /\ cl' \in [Clients -> States] /\ tries' \in [Clients -> 0 .. MaxTries + 1]
  /\ said' \in [Clients -> Seq(Words)] /\ toServer' \in [Clients -> Seq(Words)]
  /\ toClient' \in [Clients -> 0 .. Window] /\ crashes' \in {crashes, crashes + 1}
  /\ \A d \in Clients : d # c =>
       /\ cl'[d] = cl[d] /\ tries'[d] = tries[d] /\ said'[d] = said[d]
       /\ toServer'[d] = toServer[d] /\ toClient'[d] = toClient[d]

LEMMA ClientKeeps ==
  ASSUME Apart, Limits, SInv, NEW c \in Clients, ClientOnly(c),
         cl[c] \notin {"closed", "failed"},
         Len(said[c]) > 0 => Len(said'[c]) > 0 /\ said'[c][1] = said[c][1],
         TextOf(c)', AnswerOf(c)',
         Attended(c) => cl'[c] \notin {"failed", "new", "resolved"},
         kind = "lmhttp" /\ crashes' = 0 /\ Attended(c) =>
           /\ cl[c] = "asked" => cl'[c] = "asked"
           /\ Len(toServer'[c]) > 0 /\ toServer'[c][1] = "request" => cl'[c] = "asked",
         Unconnected(c)' => tries'[c] <= MaxTries
  PROVE  SInv'
<1>a. crashes \in Nat /\ crashes' \in {crashes, crashes + 1}
  BY DEF SInv, ClientOnly
<1>b. /\ cl' \in [Clients -> States] /\ tries' \in [Clients -> 0 .. MaxTries + 1]
      /\ said' \in [Clients -> Seq(Words)] /\ toServer' \in [Clients -> Seq(Words)]
      /\ toClient' \in [Clients -> 0 .. Window]
  BY DEF ClientOnly
<1>c. \A d \in Clients : d # c =>
        /\ cl'[d] = cl[d] /\ tries'[d] = tries[d] /\ said'[d] = said[d]
        /\ toServer'[d] = toServer[d] /\ toClient'[d] = toClient[d]
  BY DEF ClientOnly
<1>1. UNCHANGED <<kind, role, pc, on, queue, advertised, held, kid, sig, inWait>>
  BY DEF ClientOnly, parent, signals
<1>2. /\ \A d \in Clients : Attended(d)' = Attended(d)
      /\ Workers' = Workers /\ Begun' /\ Workers \subseteq Threads
  BY <1>1, SameAttended DEF Workers, Apart, SInv
<1>3. TypeOK'
  <2>1. \A d \in Clients : toClient'[d] \in 0 .. Window
    BY <1>b
  <2> QED BY <1>1, <1>b, <2>1 DEF TypeOK, States, SInv
<1>4. Texts'
  <2>1. ASSUME NEW d \in Clients, d # c PROVE TextOf(d)'
    <3>1. /\ TextOf(d) /\ cl'[d] = cl[d] /\ said'[d] = said[d] /\ toServer'[d] = toServer[d]
          /\ kind' = kind /\ kid' = kid
      BY <1>1, <1>c, <2>1 DEF Texts, SInv
    <3> QED BY <3>1 DEF TextOf, Connecting
  <2> QED BY <1>b, <2>1 DEF Texts
<1>5. Answers'
  <2>1. \A d \in Clients : d # c => AnswerOf(d)'
    BY <1>1, <1>c DEF Answers, AnswerOf, Connecting, SInv
  <2> QED BY <2>1 DEF Answers
<1>6. Present'
  BY <1>2, <1>c DEF Present, Unconnected, SInv
<1>7. crashes' \in Nat /\ (crashes' = 0 => crashes = 0 /\ crashes' = crashes)
  BY <1>a
<1>8. Waiting'
  <2> SUFFICES ASSUME kind = "lmhttp", crashes' = 0 PROVE
         /\ \A d \in Clients : Attended(d) /\ Len(toServer'[d]) > 0 /\ toServer'[d][1] = "request"
                                 => cl'[d] = "asked"
         /\ \A w \in Workers : pc[w] = "send" => cl'[on[w]] = "asked"
    BY <1>1, <1>2 DEF Waiting, SInv
  <2>1. \A d \in Clients : Attended(d) /\ Len(toServer'[d]) > 0 /\ toServer'[d][1] = "request"
                                 => cl'[d] = "asked"
    BY <1>7, <1>c DEF Waiting, SInv
  <2>2. \A w \in Workers : pc[w] = "send" => Attended(on[w]) /\ on[w] \in Clients
    BY <1>2 DEF Attended, Alive, Begun, SInv
  <2>3. \A w \in Workers : pc[w] = "send" => cl'[on[w]] = "asked"
    BY <1>7, <1>c, <2>2 DEF Waiting, SInv
  <2> QED BY <2>1, <2>3
<1>9. Patience'
  BY <1>c DEF Patience, Unconnected, SInv
<1>10. Told => Told'
  <2>1. CASE \E d \in Clients : Len(said[d]) > 0 /\ said[d][1] = "stop"
    BY <1>c, <2>1 DEF Told
  <2>2. CASE kind = "lat_tcp" /\ \E d \in Clients : cl[d] = "closed" /\ Len(said[d]) = 0
    BY <1>1, <1>c, <2>2 DEF Told
  <2>3. CASE kind = "lat_select" /\ \A d \in Clients : ~ClientEnd(d) /\ ~Unconnected(d)
    BY <1>1, <2>3 DEF ClientEnd, Unconnected, TypeOK, SInv
  <2>4. CASE kind = "lmhttp" /\ crashes > 0
    BY <1>1, <1>a, <2>4 DEF Told
  <2> QED BY <2>1, <2>2, <2>3, <2>4 DEF Told
<1>11. Obeys'
  BY <1>1, <1>10, AloneTold DEF SInv
<1> QED BY <1>b, <1>2, <1>3, <1>4, <1>5, <1>6, <1>7, <1>8, <1>9, <1>11 DEF SInv

LEMMA DialSettled ==
  ASSUME Apart, Limits, SInv, NEW c \in Clients, Lookup(c) \/ ConnectRefused(c)
  PROVE  SInv'
<1>1. /\ Unconnected(c) /\ tries[c] <= MaxTries /\ tries[c] \in Nat
      /\ UNCHANGED <<kind, role, parent, kid, signals, said, wires, crashes>>
  BY DEF Lookup, ConnectRefused, Unconnected, Patience, TypeOK, Limits, SInv
<1>2. PICK x \in {"resolved", "failed"} : cl' = [cl EXCEPT ![c] = x]
  <2>1. CASE Lookup(c)
    BY <2>1 DEF Lookup
  <2>2. CASE ConnectRefused(c)
    BY <2>2 DEF ConnectRefused
  <2> QED BY <2>1, <2>2
<1>3. /\ tries' \in [Clients -> 0 .. MaxTries + 1]
      /\ \A d \in Clients : d # c => tries'[d] = tries[d]
      /\ cl'[c] = "resolved" => tries'[c] <= MaxTries
  <2>1. CASE Lookup(c)
    BY <1>1, <2>1 DEF Lookup, TypeOK, SInv
  <2>2. CASE ConnectRefused(c)
    BY <1>1, <2>2 DEF ConnectRefused, TypeOK, Limits, SInv
  <2> QED BY <2>1, <2>2
<1>4. /\ cl' \in [Clients -> States] /\ cl'[c] = x
      /\ \A d \in Clients : d # c => cl'[d] = cl[d]
  BY <1>2 DEF TypeOK, States, SInv
<1>5. ClientOnly(c)
  BY <1>1, <1>3, <1>4 DEF ClientOnly, Texts, wires, SInv
<1>6. ~Attended(c)
  BY <1>1 DEF Present, SInv
<1>7. TextOf(c) /\ AnswerOf(c) /\ Connecting(c)
  BY <1>1 DEF Texts, Answers, Connecting, Unconnected, SInv
<1>8. TextOf(c)' /\ AnswerOf(c)'
  BY <1>1, <1>4, <1>7 DEF TextOf, AnswerOf, Connecting, wires
<1>9. Unconnected(c)' => tries'[c] <= MaxTries
  BY <1>2, <1>3, <1>4 DEF Unconnected
<1> QED BY <1>1, <1>4, <1>5, <1>6, <1>8, <1>9, ClientKeeps DEF Unconnected, wires

(* write(): the word is said and on the wire.                              *)
LEMMA SaySettled ==
  ASSUME Apart, Limits, SInv, NEW c \in Clients, NEW what \in Words, NEW next \in {"ready", "asked"},
         Say(c, what, next),
         \/ cl[c] = "open"
         \/ cl[c] = "ready" /\ kind = "lat_tcp" /\ next = "asked",
         what = "stop" => cl[c] = "open", kind = "lat_connect" => what = "stop",
         kind = "lmhttp" => (what = "request" => next = "asked"),
         kind = "lat_tcp" /\ cl[c] = "open" => next = "ready"
  PROVE  SInv'
<1>1. /\ UNCHANGED <<kind, role, parent, kid, signals, tries, toClient, crashes>>
      /\ said' = [said EXCEPT ![c] = Append(said[c], what)]
      /\ toServer' = [toServer EXCEPT ![c] = Append(toServer[c], what)]
      /\ cl' = [cl EXCEPT ![c] = next]
  BY DEF Say
<1>2. said[c] \in Seq(Words) /\ toServer[c] \in Seq(Words)
  BY DEF Texts, SInv
<1>3. /\ said' \in [Clients -> Seq(Words)] /\ toServer' \in [Clients -> Seq(Words)]
      /\ said'[c] = Append(said[c], what) /\ toServer'[c] = Append(toServer[c], what)
      /\ \A d \in Clients : d # c => said'[d] = said[d] /\ toServer'[d] = toServer[d]
  BY <1>1, <1>2 DEF Texts, SInv
<1>4. /\ cl' \in [Clients -> States] /\ cl'[c] = next
      /\ \A d \in Clients : d # c => cl'[d] = cl[d]
  BY <1>1 DEF TypeOK, States, SInv
<1>5. ClientOnly(c)
  BY <1>1, <1>3, <1>4 DEF ClientOnly, TypeOK, SInv
<1>6. /\ Len(said'[c]) = Len(said[c]) + 1 /\ Len(toServer'[c]) = Len(toServer[c]) + 1
      /\ Len(said[c]) > 0 => said'[c][1] = said[c][1]
      /\ Len(said[c]) = 0 => said'[c][1] = what
      /\ Len(toServer[c]) = 0 => toServer'[c][1] = what
      /\ \A i \in 1 .. Len(toServer'[c]) :
            toServer'[c][i] = what \/ (i \in 1 .. Len(toServer[c]) /\ toServer'[c][i] = toServer[c][i])
      /\ Len(said[c]) \in Nat /\ Len(toServer[c]) \in Nat
  BY <1>2, <1>3
<1>7. TextOf(c) /\ AnswerOf(c) /\ (cl[c] = "open" => Connecting(c))
  BY DEF Texts, Answers, Connecting, SInv
<1>8. TextOf(c)'
  <2>1. ~Connecting(c)'
    BY <1>4 DEF Connecting
  <2>2. \A i \in 1 .. Len(toServer'[c]) :
          toServer'[c][i] = "stop" => Len(said'[c]) > 0 /\ said'[c][1] = "stop"
    BY <1>6, <1>7 DEF TextOf
  <2>3. kind' = "lat_connect" => \A i \in 1 .. Len(toServer'[c]) : toServer'[c][i] = "stop"
    BY <1>1, <1>6, <1>7 DEF TextOf
  <2>4. kind' = "lmhttp" => Len(toServer'[c]) <= 1
    BY <1>1, <1>6, <1>7 DEF TextOf
  <2>5. kind' \in Forking /\ kid'[c] \in {"none", "hello"} => toServer'[c] = said'[c]
    BY <1>1, <1>3, <1>7 DEF TextOf
  <2> QED BY <2>1, <2>2, <2>3, <2>4, <2>5 DEF TextOf
<1>9. AnswerOf(c)'
  BY <1>1, <1>4, <1>6, <1>7 DEF AnswerOf, TextOf, Connecting
<1>10. kind = "lmhttp" =>
         /\ cl[c] # "asked"
         /\ Len(toServer'[c]) > 0 /\ toServer'[c][1] = "request" => cl'[c] = "asked"
  BY <1>4, <1>6, <1>7 DEF TextOf
<1>11. ~Unconnected(c)' /\ cl'[c] \notin {"failed", "new", "resolved"}
  BY <1>4 DEF Unconnected
<1> QED BY <1>5, <1>6, <1>8, <1>9, <1>10, <1>11, ClientKeeps

LEMMA SpeakSettled ==
  ASSUME Apart, Limits, SInv, NEW c \in Clients, Speak(c) PROVE SInv'
<1>1. CASE LatTcpInit(c)
  BY <1>1, SaySettled DEF LatTcpInit, At, Words
<1>2. CASE BwTcpInitialize(c)
  BY <1>2, SaySettled DEF BwTcpInitialize, At, Words
<1>3. CASE http(c)
  BY <1>3, SaySettled DEF http, At, Words
<1>4. CASE doclient(c)
  BY <1>4, SaySettled DEF doclient, At, Words
<1>5. CASE BwTcpStop(c) \/ LatConnectStop(c) \/ LatUnixConnectStop(c) \/ killhttp(c)
  BY <1>5, SaySettled DEF BwTcpStop, LatConnectStop, LatUnixConnectStop, killhttp, At, Words
<1> QED BY <1>1, <1>2, <1>3, <1>4, <1>5 DEF Speak

(* read(): an answer less.                                                 *)
LEMMA TakeSettled ==
  ASSUME Apart, Limits, SInv, NEW c \in Clients, Take(c) PROVE SInv'
<1>1. /\ UNCHANGED <<kind, role, parent, kid, signals, tries, said, toServer, crashes>>
      /\ toClient[c] > 0 /\ toClient' = [toClient EXCEPT ![c] = @ - 1]
      /\ cl[c] \in {"asked", "ready"} /\ (cl[c] # "asked" => kind = "bw_tcp")
      /\ cl' = [cl EXCEPT ![c] = IF kind = "lat_tcp" THEN "ready" ELSE @]
  BY DEF Take
<1>2. TextOf(c) /\ AnswerOf(c) /\ toClient[c] \in 0 .. Window
  BY DEF Texts, Answers, TypeOK, SInv
<1>3. /\ cl' \in [Clients -> States] /\ cl'[c] = IF kind = "lat_tcp" THEN "ready" ELSE cl[c]
      /\ \A d \in Clients : d # c => cl'[d] = cl[d]
  BY <1>1 DEF TypeOK, States, SInv
<1>4. /\ toClient' \in [Clients -> 0 .. Window] /\ toClient'[c] = toClient[c] - 1
      /\ \A d \in Clients : d # c => toClient'[d] = toClient[d]
  BY <1>1 DEF SInv, Limits
<1>5. ClientOnly(c)
  BY <1>1, <1>3, <1>4 DEF ClientOnly, TypeOK, Texts, SInv
<1>6. TextOf(c)' /\ AnswerOf(c)'
  <2>1. TextOf(c)'
    BY <1>1, <1>2, <1>3 DEF TextOf, Connecting
  <2>2. Len(toServer[c]) \in Nat
    BY DEF Texts, SInv
  <2>3. AnswerOf(c)'
    BY <1>1, <1>2, <1>3, <1>4, <2>2 DEF AnswerOf, Connecting
  <2> QED BY <2>1, <2>3
<1>7. ~Unconnected(c)' /\ cl'[c] \notin {"failed", "new", "resolved"}
  BY <1>1, <1>3 DEF Unconnected
<1>8. kind = "lmhttp" => cl[c] = "asked" /\ cl'[c] = "asked"
  BY <1>1, <1>3
<1> QED BY <1>1, <1>5, <1>6, <1>7, <1>8, ClientKeeps

(* The end of a client.                                                    *)
LEMMA LeaveSettled ==
  ASSUME Apart, Limits, SInv, NEW c \in Clients, NEW how \in {"closed", "failed"},
         Leave(c, how), ClientEnd(c), crashes' \in {crashes, crashes + 1},
         how = "failed" => ~Attended(c),
         cl[c] = "asked" => ~Attended(c) \/ crashes' = crashes + 1 \/ kind # "lmhttp",
         kind = "lmhttp" /\ cl[c] = "open" => crashes' = crashes + 1
  PROVE  SInv'
<1>1. /\ UNCHANGED <<kind, role, parent, kid, signals, tries, said, toServer, toClient>>
      /\ cl' = [cl EXCEPT ![c] = how]
  BY DEF Leave, wires
<1>2. TextOf(c) /\ AnswerOf(c)
  BY DEF Texts, Answers, SInv
<1>3. /\ cl' \in [Clients -> States] /\ cl'[c] = how
      /\ \A d \in Clients : d # c => cl'[d] = cl[d]
  BY <1>1 DEF TypeOK, States, SInv
<1>4. ClientOnly(c)
  BY <1>1, <1>3 DEF ClientOnly, TypeOK, Texts, SInv
<1>5. TextOf(c)' /\ AnswerOf(c)'
  BY <1>1, <1>2, <1>3 DEF TextOf, AnswerOf, Connecting
<1>6. ~Unconnected(c)' /\ (Attended(c) => cl'[c] \notin {"failed", "new", "resolved"})
  BY <1>3 DEF Unconnected
<1>7. kind = "lmhttp" /\ crashes' = 0 /\ Attended(c) =>
        cl[c] # "asked" /\ ~(Len(toServer'[c]) > 0 /\ toServer'[c][1] = "request")
  BY <1>1 DEF Waiting, SInv
<1> QED BY <1>1, <1>4, <1>5, <1>6, <1>7, ClientKeeps DEF ClientEnd

LEMMA AttendedEnd == ASSUME SInv, NEW c \in Clients, ~ServerEnd(c) PROVE ~Attended(c)
<1>1. DOMAIN queue = 1 .. Len(queue)
  BY DEF SInv, TypeOK
<1> QED BY <1>1 DEF ServerEnd, Attended, Queued

LEMMA EndSettled ==
  ASSUME Apart, Limits, SInv, NEW c \in Clients, Close(c) \/ Hangup(c) \/ Killed(c)
  PROVE  SInv'
<1>1. CASE Hangup(c)
  BY <1>1, AttendedEnd, LeaveSettled DEF Hangup, ClientEnd
<1>2. CASE Killed(c)
  BY <1>2, LeaveSettled DEF Killed
<1>3. CASE Close(c)
  <2>1. Leave(c, "closed") /\ crashes' = crashes
    BY <1>3 DEF Close, LatTcpCleanup, BwTcpCleanup, SelectCleanup, LatConnectClient,
       LatUnixConnectClient, LatTcpStop, StopExits
  <2>2. cl[c] \in {"open", "ready"} /\ (kind = "lmhttp" => cl[c] = "ready")
    BY <1>3 DEF Close, LatTcpCleanup, BwTcpCleanup, SelectCleanup, LatConnectClient,
       LatUnixConnectClient, LatTcpStop, StopExits, At
  <2> QED BY <2>1, <2>2, LeaveSettled DEF ClientEnd
<1> QED BY <1>1, <1>2, <1>3

(* connect(): somebody listens, and the connection is new.                 *)
LEMMA ConnectSettled ==
  ASSUME Apart, Limits, IInv, IInv', SInv, NEW c \in Clients, Connect(c) PROVE SInv'
<1>1. /\ UNCHANGED <<kind, role, pc, on, advertised, held, kid, sig, inWait, said, toServer,
                     toClient, crashes>>
      /\ cl[c] = "resolved" /\ Listening /\ queue' = Append(queue, c)
      /\ cl' = [cl EXCEPT ![c] = "open"] /\ tries' = [tries EXCEPT ![c] = 0]
  BY DEF Connect, signals, wires
<1>2. /\ cl' \in [Clients -> States] /\ cl'[c] = "open"
      /\ \A d \in Clients : d # c => cl'[d] = cl[d]
  BY <1>1 DEF SInv, TypeOK, States
<1>3. /\ tries' \in [Clients -> 0 .. MaxTries + 1]
      /\ \A d \in Clients : tries'[d] = tries[d] \/ tries'[d] = 0
  BY <1>1 DEF SInv, TypeOK, Limits
<1>4. TypeOK'
  BY <1>1, <1>2, <1>3 DEF SInv, TypeOK, States, IInv, Types
<1>5. TextOf(c) /\ AnswerOf(c) /\ Connecting(c)
  BY <1>1 DEF SInv, Texts, Answers, Connecting
<1>6. Texts'
  <2>1. ASSUME NEW d \in Clients PROVE TextOf(d)'
    <3>1. TextOf(d) /\ (Connecting(d)' => Connecting(d))
      BY <1>1, <1>2 DEF SInv, Texts, Connecting
    <3> QED BY <1>1, <3>1 DEF TextOf
  <2> QED BY <1>1, <2>1 DEF SInv, Texts
<1>7. Answers'
  <2>1. ASSUME NEW d \in Clients PROVE AnswerOf(d)'
    <3>1. AnswerOf(d) /\ (Connecting(d)' => Connecting(d)) /\ (cl'[d] = "ready" => cl[d] = "ready")
      BY <1>1, <1>2 DEF SInv, Answers, Connecting
    <3> QED BY <1>1, <3>1 DEF AnswerOf
  <2> QED BY <2>1 DEF Answers
<1>8. Workers' = Workers /\ Workers \subseteq Threads
  BY <1>1 DEF Workers, Apart
<1>9. \A d \in Clients : d # c /\ Attended(d)' => Attended(d)
  <2>1. \A d \in Clients : d # c /\ Queued(d)' => Queued(d)
    <3>1. queue \in Seq(Clients)
      BY DEF SInv, TypeOK
    <3> QED BY <1>1, <3>1 DEF Queued
  <2> QED BY <1>1, <1>8, <2>1 DEF Attended, Running, Alive, Listening
<1>10. Present'
  BY <1>2, <1>9 DEF SInv, Present, Unconnected
<1>11. Waiting'
  <2>1. Len(toServer[c]) = 0
    BY <1>5 DEF TextOf
  <2>2. \A w \in Workers : pc[w] = "send" => cl[on[w]] # "asked" \/ (on[w] \in Clients /\ on[w] # c)
    BY <1>1, <1>8 DEF SInv, Begun
  <2> QED BY <1>1, <1>2, <1>8, <1>9, <2>1, <2>2 DEF SInv, Waiting
<1>12. Begun'
  <2>1. pc[1] # "start"
    BY <1>1, <1>8 DEF SInv, Begun, Listening, Running
  <2> QED BY <1>1, <2>1 DEF SInv, Begun
<1>13. Patience'
  BY <1>1, <1>2, <1>3 DEF SInv, Patience, Unconnected, Limits
<1>14. Told => Told'
  <2>1. CASE kind = "lat_tcp" /\ \E d \in Clients : cl[d] = "closed" /\ Len(said[d]) = 0
    BY <1>1, <1>2, <2>1 DEF Told
  <2>2. CASE kind = "lat_select" /\ \A d \in Clients : ~ClientEnd(d) /\ ~Unconnected(d)
    BY <1>1, <2>2 DEF Unconnected
  <2>3. CASE \/ \E d \in Clients : Len(said[d]) > 0 /\ said[d][1] = "stop"
             \/ kind = "lmhttp" /\ crashes > 0
    BY <1>1, <2>3 DEF Told
  <2> QED BY <2>1, <2>2, <2>3 DEF Told
<1>15. Obeys'
  BY <1>1, <1>14, AloneTold DEF SInv
<1>16. crashes' \in Nat /\ toClient' \in [Clients -> 0 .. Window]
  BY <1>1 DEF SInv
<1> QED BY <1>4, <1>6, <1>7, <1>10, <1>11, <1>12, <1>13, <1>15, <1>16 DEF SInv

-----------------------------------------------------------------------------
(* The server.  What a client has done and said is not touched by it; it   *)
(* reads what was written, and ends only when told to.                     *)
ServerOnly ==
  /\ UNCHANGED <<kind, role, cl, tries, said, crashes>>
  /\ pc' \in [Threads -> {"start", "accept", "fork", "read", "send", "dead"}]
  /\ advertised' \in BOOLEAN /\ held' \subseteq Clients
  /\ toServer' \in [Clients -> Seq(Words)] /\ toClient' \in [Clients -> 0 .. Window]

LEMMA ServerKeeps ==
  ASSUME Apart, Limits, SInv, Types', ServerOnly,
         \A d \in Clients : Attended(d)' => Attended(d),
         \A d \in Clients : TextOf(d)' /\ AnswerOf(d)',
         kind = "lmhttp" => \A d \in Clients : Len(toServer'[d]) > 0 => toServer'[d] = toServer[d],
         \A w \in Workers : pc'[w] = "send" =>
            \/ pc[w] = "send" /\ on'[w] = on[w]
            \/ /\ on'[w] \in Clients /\ Attended(on'[w])
               /\ Len(toServer[on'[w]]) > 0 /\ toServer[on'[w]][1] = "request",
         Begun', \A w \in Workers : pc'[w] = "dead" => pc[w] = "dead" \/ Told
  PROVE  SInv'
<1>1. UNCHANGED <<kind, role, cl, tries, said, crashes>>
  BY DEF ServerOnly
<1>2. Workers' = Workers
  BY <1>1 DEF Workers
<1>3. TypeOK'
  <2>1. \A d \in Clients : toClient'[d] \in 0 .. Window
    BY DEF ServerOnly
  <2> QED BY <1>1, <2>1 DEF SInv, TypeOK, ServerOnly, Types
<1>4. Texts' /\ Answers'
  BY <1>1 DEF SInv, Texts, Answers, ServerOnly
<1>5. Present' /\ Patience'
  BY <1>1 DEF SInv, Present, Patience, Unconnected
<1>6. Waiting'
  BY <1>1, <1>2 DEF SInv, Waiting
<1>7. Told' = Told
  BY <1>1 DEF Told, ClientEnd, Unconnected
<1>8. Obeys'
  BY <1>2, <1>7 DEF SInv, Obeys
<1>9. crashes' \in Nat /\ toClient' \in [Clients -> 0 .. Window]
  BY <1>1 DEF SInv, ServerOnly
<1> QED BY <1>3, <1>4, <1>5, <1>6, <1>8, <1>9 DEF SInv

(* ... in particular when it reads and writes nothing.                     *)
Unread == UNCHANGED <<kind, role, cl, tries, said, crashes, toServer, toClient>>

LEMMA UnreadKeeps ==
  ASSUME Apart, Limits, SInv, Types', Unread,
         pc' \in [Threads -> {"start", "accept", "fork", "read", "send", "dead"}],
         advertised' \in BOOLEAN, held' \subseteq Clients,
         \A d \in Clients : kid'[d] = kid[d] \/ kid'[d] \notin {"none", "hello", "serve"}
                            \/ (kid[d] = "none" /\ kid'[d] = "hello"),
         \A d \in Clients : Attended(d)' => Attended(d),
         \A w \in Workers : pc'[w] = "send" => pc[w] = "send" /\ on'[w] = on[w],
         Begun', \A w \in Workers : pc'[w] = "dead" => pc[w] = "dead" \/ Told
  PROVE  SInv'
<1>1. ServerOnly
  BY DEF Unread, ServerOnly, SInv, Texts
<1>2. ASSUME NEW d \in Clients PROVE TextOf(d)' /\ AnswerOf(d)'
  <2>1. TextOf(d) /\ AnswerOf(d)
    BY DEF SInv, Texts, Answers
  <2>2. TextOf(d)'
    BY <2>1 DEF Unread, TextOf, Connecting
  <2>3. AnswerOf(d)'
    BY <2>1 DEF Unread, AnswerOf, Connecting
  <2> QED BY <2>2, <2>3
<1>3. kind = "lmhttp" => \A d \in Clients : Len(toServer'[d]) > 0 => toServer'[d] = toServer[d]
  BY DEF Unread
<1> QED BY <1>1, <1>2, <1>3, ServerKeeps

(* A process that ends a connection.                                       *)
LEMMA ReleaseFewer ==
  ASSUME Apart, SInv, NEW w \in Workers, NEW next \in {"accept", "dead"}, Release(w, next),
         pc[w] \notin {"start", "dead"}, UNCHANGED <<kind, kid, queue>>
  PROVE  /\ pc' \in [Threads -> {"start", "accept", "fork", "read", "send", "dead"}]
         /\ \A d \in Clients : Attended(d)' => Attended(d)
         /\ \A v \in Workers : pc'[v] = "send" => pc[v] = "send" /\ on'[v] = on[v]
         /\ \A v \in Workers : pc'[v] = "dead" => pc[v] = "dead" \/ (v = w /\ next = "dead")
         /\ Begun'
<1>1. w \in Threads /\ Workers \subseteq Threads /\ Workers' = Workers
  BY DEF Workers, Apart
<1>2. /\ pc' = [pc EXCEPT ![w] = next] /\ on' = [on EXCEPT ![w] = None]
      /\ pc \in [Threads -> {"start", "accept", "fork", "read", "send", "dead"}]
      /\ on \in [Threads -> Clients \cup {None}]
  BY DEF Release, SInv, TypeOK
<1>3. /\ pc' \in [Threads -> {"start", "accept", "fork", "read", "send", "dead"}]
      /\ pc'[w] = next /\ on'[w] = None
      /\ \A v \in Threads : v # w => pc'[v] = pc[v] /\ on'[v] = on[v]
  BY <1>1, <1>2
<1>4. \A d \in Clients : Attended(d)' => Attended(d)
  <2>1. Listening
    BY DEF Listening
  <2> QED BY <1>1, <1>3, <2>1 DEF Attended, Running, Queued, Alive, Apart
<1>5. pc[1] # "start"
  BY <1>1 DEF SInv, Begun
<1>6. Begun'
  BY <1>1, <1>3, <1>5 DEF SInv, Begun, Apart
<1> QED BY <1>1, <1>3, <1>4, <1>6

LEMMA ReleaseSettled ==
  ASSUME Apart, Limits, SInv, Types', Unread, NEW w \in Workers, NEW next \in {"accept", "dead"},
         Release(w, next), pc[w] \notin {"start", "dead"}, UNCHANGED <<kid, queue>>,
         advertised' \in BOOLEAN, held' \subseteq Clients, next = "dead" => Told
  PROVE  SInv'
<1>1. kind' = kind
  BY DEF Unread
<1>2. /\ pc' \in [Threads -> {"start", "accept", "fork", "read", "send", "dead"}]
      /\ \A d \in Clients : Attended(d)' => Attended(d)
      /\ \A v \in Workers : pc'[v] = "send" => pc[v] = "send" /\ on'[v] = on[v]
      /\ \A v \in Workers : pc'[v] = "dead" => pc[v] = "dead" \/ Told
      /\ Begun'
  BY <1>1, ReleaseFewer
<1> QED BY <1>2, UnreadKeeps

LEMMA BoundSettled ==
  ASSUME Apart, Limits, SInv, Types', tcp_server \/ unix_server PROVE SInv'
<1>1. PICK r \in BOOLEAN : Bound(r)
  BY DEF tcp_server, unix_server
<1>2. /\ pc[1] = "start" /\ UNCHANGED <<on, queue, held, kid>> /\ Unread
      /\ pc' = [w \in Threads |-> IF w \in Workers THEN "accept" ELSE pc[w]]
      /\ advertised' \in BOOLEAN
  BY <1>1 DEF Bound, Unread, client, wires
<1>3. 1 \in Workers /\ Workers \subseteq Threads /\ Workers' = Workers
  BY <1>2 DEF Workers, Apart, Unread
<1>4. /\ \A w \in Threads : pc[w] = "start"
      /\ Len(queue) = 0 /\ \A c \in Clients : kid[c] = "none"
  BY <1>2 DEF SInv, Begun
<1>5. /\ pc' \in [Threads -> {"start", "accept", "fork", "read", "send", "dead"}]
      /\ \A w \in Workers : pc'[w] = "accept"
      /\ \A w \in Threads : pc'[w] \in {"start", "accept"}
  BY <1>2, <1>3, <1>4
<1>6. \A d \in Clients : Attended(d)' => Attended(d)
  BY <1>2, <1>3, <1>4 DEF Attended, Running, Queued, Alive
<1>7. Begun'
  BY <1>3, <1>5 DEF Begun
<1>8. held' \subseteq Clients
  BY <1>2 DEF SInv, TypeOK
<1> QED BY <1>2, <1>5, <1>6, <1>7, <1>8, UnreadKeeps

LEMMA AcceptSettled ==
  ASSUME Apart, Limits, SInv, Types', NEW w \in Workers, Accept(w) PROVE SInv'
<1>1. /\ pc[w] = "accept" /\ queue # <<>> /\ UNCHANGED <<advertised, held, kid>> /\ Unread
      /\ on' = [on EXCEPT ![w] = Head(queue)] /\ queue' = Tail(queue)
      /\ pc' = [pc EXCEPT ![w] = IF kind \in Forking THEN "fork" ELSE "read"]
  BY DEF Accept, Unread, client, wires
<1>2. w \in Threads /\ Workers \subseteq Threads /\ Workers' = Workers
  BY <1>1 DEF Workers, Apart, Unread
<1>3. /\ pc \in [Threads -> {"start", "accept", "fork", "read", "send", "dead"}]
      /\ on \in [Threads -> Clients \cup {None}] /\ queue \in Seq(Clients)
      /\ advertised' \in BOOLEAN /\ held' \subseteq Clients
  BY <1>1 DEF SInv, TypeOK
<1>4. /\ Head(queue) = queue[1] /\ Len(queue) >= 1 /\ Head(queue) \in Clients
      /\ Len(queue') = Len(queue) - 1
      /\ \A i \in 1 .. Len(queue') : queue'[i] = queue[i + 1]
      /\ Len(queue) \in Nat
  BY <1>1, <1>3
<1>5. /\ pc' \in [Threads -> {"start", "accept", "fork", "read", "send", "dead"}]
      /\ pc'[w] \in {"fork", "read"} /\ (pc'[w] = "fork" => kind \in Forking)
      /\ on'[w] = Head(queue)
      /\ \A v \in Threads : v # w => pc'[v] = pc[v] /\ on'[v] = on[v]
  BY <1>1, <1>2, <1>3
<1>6. \A d \in Clients : Attended(d)' => Attended(d)
  <2>1. Listening /\ Queued(Head(queue))
    BY <1>1, <1>4 DEF Listening, Queued
  <2>2. \A d \in Clients : Queued(d)' => Queued(d)
    BY <1>4 DEF Queued
  <2> QED BY <1>1, <1>2, <1>5, <2>1, <2>2 DEF Attended, Running, Alive
<1>7. pc[1] # "start"
  BY <1>1, <1>2 DEF SInv, Begun
<1>8. Begun'
  BY <1>1, <1>2, <1>4, <1>5, <1>7 DEF SInv, Begun, Apart, Unread
<1> QED BY <1>1, <1>2, <1>3, <1>5, <1>6, <1>8, UnreadKeeps

(* fork(): the connection of the parent becomes the child's.               *)
LEMMA ForkedSettled ==
  ASSUME Apart, Limits, IInv, SInv, Types', NEW w \in Workers, Fork(w) PROVE SInv'
<1>1. /\ pc[w] = "fork" /\ UNCHANGED <<queue, advertised, held>> /\ Unread
      /\ kid' = [kid EXCEPT ![on[w]] = "hello"]
      /\ pc' = [pc EXCEPT ![w] = "accept"] /\ on' = [on EXCEPT ![w] = None]
  BY DEF Fork, Unread, client, wires, Release
<1>2. w \in Threads /\ Workers \subseteq Threads /\ Workers' = Workers
  BY <1>1 DEF Workers, Apart, Unread
<1>3. /\ pc \in [Threads -> {"start", "accept", "fork", "read", "send", "dead"}]
      /\ on \in [Threads -> Clients \cup {None}]
      /\ kid \in [Clients -> {"none", "hello", "serve", "zombie", "gone"}]
      /\ advertised' \in BOOLEAN /\ held' \subseteq Clients
  BY <1>1 DEF SInv, TypeOK
<1>4. on[w] \in Clients /\ kid[on[w]] = "none"
  BY <1>1, <1>2 DEF SInv, Begun, IInv, Fresh
<1>5. /\ pc' \in [Threads -> {"start", "accept", "fork", "read", "send", "dead"}]
      /\ pc'[w] = "accept" /\ on'[w] = None
      /\ \A v \in Threads : v # w => pc'[v] = pc[v] /\ on'[v] = on[v]
  BY <1>1, <1>2, <1>3
<1>6. \A d \in Clients : kid'[d] = IF d = on[w] THEN "hello" ELSE kid[d]
  BY <1>1, <1>3
<1>7. \A d \in Clients : Attended(d)' => Attended(d)
  <2>1. Listening /\ Alive(w)
    BY <1>1 DEF Listening, Alive
  <2> QED BY <1>1, <1>2, <1>5, <1>6, <2>1 DEF Attended, Running, Queued, Alive, Apart
<1>8. pc[1] # "start"
  BY <1>1, <1>2 DEF SInv, Begun
<1>9. Begun'
  BY <1>1, <1>2, <1>5, <1>8 DEF SInv, Begun, Apart, Unread
<1> QED BY <1>1, <1>2, <1>3, <1>4, <1>5, <1>6, <1>7, <1>9, UnreadKeeps

(* The processes that read from the connections they accept.               *)
LEMMA StopHeard ==
  ASSUME SInv, NEW c \in Clients, toServer[c] # <<>>,
         Head(toServer[c]) = "stop" \/ kind = "lat_connect"
  PROVE  Told
<1>1. /\ toServer[c] \in Seq(Words) /\ Len(toServer[c]) > 0 /\ Head(toServer[c]) = toServer[c][1]
      /\ 1 \in 1 .. Len(toServer[c])
  BY DEF SInv, Texts
<1>2. TextOf(c)
  BY DEF SInv, Texts
<1>3. toServer[c][1] = "stop"
  BY <1>1, <1>2 DEF TextOf
<1> QED BY <1>1, <1>2, <1>3 DEF TextOf, Told

LEMMA SoleServerSettled ==
  ASSUME Apart, Limits, SInv, Types', NEW w \in Workers,
         LatConnectServer(w) \/ LatUnixConnectServer(w) \/ SelectServer(w) \/ ForkFails(w)
  PROVE  SInv'
<1>1. /\ pc[w] \in {"read", "fork"} /\ UNCHANGED <<queue, kid>> /\ Unread
      /\ w \in Threads
  BY DEF LatConnectServer, LatUnixConnectServer, SelectServer, ForkFails, Unread, client,
         wires, Workers, Apart
<1>2. on[w] \in Clients
  BY <1>1 DEF SInv, Begun
<1>3. advertised' \in BOOLEAN /\ held' \subseteq Clients
  BY <1>2 DEF LatConnectServer, LatUnixConnectServer, SelectServer, ForkFails, SInv, TypeOK
<1>4. Release(w, "accept") \/ (Release(w, "dead") /\ Told)
  BY <1>2, StopHeard DEF LatConnectServer, LatUnixConnectServer, SelectServer, ForkFails
<1> QED BY <1>1, <1>3, <1>4, ReleaseSettled

LEMMA SelectEndsSettled ==
  ASSUME Apart, Limits, SInv, Types', SelectEnds PROVE SInv'
<1>1. /\ pc[1] \in {"accept", "read"} /\ UNCHANGED <<queue, kid, advertised, held>> /\ Unread
      /\ Release(1, "dead") /\ kind = "lat_select"
      /\ \A c \in Clients : cl[c] \in {"closed", "failed"}
  BY DEF SelectEnds, Unread, client, wires
<1>2. 1 \in Workers
  BY <1>1 DEF Workers
<1>3. Told
  BY <1>1 DEF Told, ClientEnd, Unconnected
<1>4. advertised' \in BOOLEAN /\ held' \subseteq Clients
  BY <1>1 DEF SInv, TypeOK
<1> QED BY <1>1, <1>2, <1>3, <1>4, ReleaseSettled

(* read() of a server: one word less on the wire.                          *)
LEMMA ReadText ==
  ASSUME SInv, NEW c \in Clients, toServer[c] # <<>>,
         toServer' = [toServer EXCEPT ![c] = Tail(@)],
         UNCHANGED <<kind, cl, said>>,
         kind \in Forking => kid'[c] \notin {"none", "hello"},
         \A d \in Clients : d # c => kid'[d] = kid[d]
  PROVE  /\ toServer' \in [Clients -> Seq(Words)]
         /\ \A d \in Clients : TextOf(d)'
         /\ Len(toServer'[c]) = Len(toServer[c]) - 1 /\ Len(toServer[c]) \in Nat
         /\ ~Connecting(c) /\ Len(toServer[c]) > 0
         /\ \A d \in Clients : d # c => toServer'[d] = toServer[d]
<1>1. toServer \in [Clients -> Seq(Words)] /\ toServer[c] \in Seq(Words)
  BY DEF SInv, Texts
<1>2. /\ Tail(toServer[c]) \in Seq(Words) /\ Len(Tail(toServer[c])) = Len(toServer[c]) - 1
      /\ \A i \in 1 .. Len(Tail(toServer[c])) : /\ Tail(toServer[c])[i] = toServer[c][i + 1]
                                                /\ i + 1 \in 1 .. Len(toServer[c])
      /\ Len(toServer[c]) \in Nat /\ Len(toServer[c]) > 0
  BY <1>1
<1>3. /\ toServer' \in [Clients -> Seq(Words)] /\ toServer'[c] = Tail(toServer[c])
      /\ \A d \in Clients : d # c => toServer'[d] = toServer[d]
  BY <1>1, <1>2
<1>4. TextOf(c) /\ ~Connecting(c)
  BY <1>2 DEF SInv, Texts, TextOf
<1>5. TextOf(c)'
  <2>1. ~Connecting(c)'
    BY <1>4 DEF Connecting
  <2>2. \A i \in 1 .. Len(toServer'[c]) :
          toServer'[c][i] = "stop" => Len(said'[c]) > 0 /\ said'[c][1] = "stop"
    BY <1>2, <1>3, <1>4 DEF TextOf
  <2>3. kind' = "lat_connect" => \A i \in 1 .. Len(toServer'[c]) : toServer'[c][i] = "stop"
    BY <1>2, <1>3, <1>4 DEF TextOf
  <2>4. kind' = "lmhttp" => Len(toServer'[c]) <= 1
    BY <1>2, <1>3, <1>4 DEF TextOf
  <2> QED BY <2>1, <2>2, <2>3, <2>4 DEF TextOf
<1>6. ASSUME NEW d \in Clients, d # c PROVE TextOf(d)'
  <2>1. TextOf(d) /\ toServer'[d] = toServer[d] /\ kid'[d] = kid[d]
    BY <1>3, <1>6 DEF SInv, Texts
  <2> QED BY <2>1 DEF TextOf, Connecting
<1> QED BY <1>2, <1>3, <1>4, <1>5, <1>6

(* lmhttp.                                                                 *)
LEMMA SourceSettled ==
  ASSUME Apart, Limits, SInv, Types', NEW w \in Workers, source(w) PROVE SInv'
<1> DEFINE c == on[w]
<1>1. /\ pc[w] = "read" /\ kind = "lmhttp"
      /\ UNCHANGED <<kind, role, cl, tries, said, crashes, queue, kid, advertised, held, toClient>>
      /\ w \in Threads
  BY DEF source, client, Workers
<1>2. c \in Clients
  BY <1>1 DEF SInv, Begun
<1>3. advertised' \in BOOLEAN /\ held' \subseteq Clients
  BY <1>1 DEF SInv, TypeOK
<1>4. CASE toServer' = toServer /\ (Release(w, "accept") \/ (Release(w, "dead") /\ Told))
  BY <1>1, <1>3, <1>4, ReleaseSettled DEF Unread
<1>5. CASE /\ toServer[c] # <<>> /\ Head(toServer[c]) = "request"
           /\ toServer' = [toServer EXCEPT ![c] = Tail(@)]
           /\ \/ pc' = [pc EXCEPT ![w] = "send"] /\ UNCHANGED on
              \/ Release(w, "accept")
  <2>1. kind \notin Forking
    BY <1>1 DEF Forking
  <2>2. /\ toServer' \in [Clients -> Seq(Words)] /\ \A d \in Clients : TextOf(d)'
        /\ Len(toServer'[c]) = Len(toServer[c]) - 1 /\ Len(toServer[c]) > 0
        /\ \A d \in Clients : d # c => toServer'[d] = toServer[d]
    BY <1>1, <1>2, <1>5, <2>1, ReadText
  <2>3. \A d \in Clients : AnswerOf(d)'
    BY <1>1 DEF AnswerOf
  <2>4. TextOf(c) /\ toServer[c] \in Seq(Words)
    BY <1>2 DEF SInv, Texts
  <2>5. \A d \in Clients : Len(toServer'[d]) > 0 => toServer'[d] = toServer[d]
    <3>1. Len(toServer[c]) \in Nat /\ Len(toServer[c]) <= 1
      BY <1>1, <2>4 DEF TextOf
    <3> QED BY <2>2, <3>1
  <2>6. /\ pc' \in [Threads -> {"start", "accept", "fork", "read", "send", "dead"}]
        /\ \A d \in Clients : Attended(d)' => Attended(d)
        /\ \A v \in Workers : pc'[v] = "send" => on'[v] = on[v] /\ (pc[v] = "send" \/ v = w)
        /\ \A v \in Workers : pc'[v] = "dead" => pc[v] = "dead"
        /\ Begun'
    <3>1. CASE Release(w, "accept")
      BY <1>1, <3>1, ReleaseFewer
    <3>2. CASE pc' = [pc EXCEPT ![w] = "send"] /\ UNCHANGED on
      <4>1. /\ pc' \in [Threads -> {"start", "accept", "fork", "read", "send", "dead"}]
            /\ pc'[w] = "send" /\ \A v \in Threads : v # w => pc'[v] = pc[v]
        BY <1>1, <3>2 DEF SInv, TypeOK
      <4>2. Workers \subseteq Threads /\ Workers' = Workers
        BY <1>1 DEF Workers
      <4>3. Listening
        BY <1>1 DEF Listening
      <4>4. \A d \in Clients : Attended(d)' => Attended(d)
        BY <1>1, <3>2, <4>1, <4>2, <4>3 DEF Attended, Running, Queued, Alive
      <4>5. pc[1] # "start"
        BY <1>1 DEF SInv, Begun
      <4>6. Begun'
        BY <1>1, <1>2, <3>2, <4>1, <4>5 DEF SInv, Begun, Apart
      <4> QED BY <3>2, <4>1, <4>2, <4>4, <4>6
    <3> QED BY <1>5, <3>1, <3>2
  <2>7. Attended(c) /\ toServer[c][1] = "request"
    BY <1>1, <1>2, <1>5, <2>4 DEF Attended, Alive
  <2>8. ServerOnly
    BY <1>1, <1>3, <2>2, <2>6 DEF ServerOnly, SInv
  <2> QED BY <1>2, <2>2, <2>3, <2>5, <2>6, <2>7, <2>8, ServerKeeps
<1> QED BY <1>1, <1>2, <1>4, <1>5, StopHeard DEF source

(* A write() to a client: one answer more.                                 *)
LEMMA WriteSettled ==
  ASSUME Apart, Limits, SInv, Types', NEW c \in Clients, kind # "lat_tcp", toClient[c] < Window,
         toClient' = [toClient EXCEPT ![c] = @ + 1],
         UNCHANGED <<kind, role, cl, tries, said, crashes, toServer, pc, on, queue, advertised,
                     held, kid>>
  PROVE  SInv'
<1>1. toClient' \in [Clients -> 0 .. Window]
  BY DEF SInv, Limits
<1>2. ServerOnly
  BY <1>1 DEF ServerOnly, SInv, TypeOK, Texts
<1>3. \A d \in Clients : Attended(d)' = Attended(d)
  BY SameAttended
<1>4. Begun'
  BY DEF SInv, Begun
<1>5. ASSUME NEW d \in Clients PROVE TextOf(d)' /\ AnswerOf(d)'
  <2>1. TextOf(d)
    BY DEF SInv, Texts
  <2> QED BY <2>1 DEF TextOf, AnswerOf, Connecting
<1> QED BY <1>2, <1>3, <1>4, <1>5, ServerKeeps

LEMMA SendSettled ==
  ASSUME Apart, Limits, SInv, Types', NEW w \in Workers, mmap_rdwr(w) \/ rdwr(w)
  PROVE  SInv'
<1>1. /\ pc[w] = "send"
      /\ UNCHANGED <<kind, role, cl, tries, said, crashes, queue, kid, advertised, held, toServer>>
      /\ w \in Threads
  BY DEF mmap_rdwr, rdwr, Sending, client, Workers, Apart
<1>2. on[w] \in Clients /\ kind = "lmhttp"
  BY <1>1 DEF SInv, Begun
<1>3. advertised' \in BOOLEAN /\ held' \subseteq Clients
  BY <1>1 DEF SInv, TypeOK
<1>4. CASE SendMore(w)
  BY <1>1, <1>2, <1>4, WriteSettled DEF SendMore
<1>5. CASE toClient' = toClient /\ Release(w, "accept")
  BY <1>1, <1>3, <1>5, ReleaseSettled DEF Unread
<1>6. CASE toClient' = toClient /\ Release(w, "dead") /\ ~ClientEnd(on[w])
  <2>1. Told
    BY <1>1, <1>2, <1>6 DEF SInv, Waiting, Told, ClientEnd
  <2> QED BY <1>1, <1>3, <1>6, <2>1, ReleaseSettled DEF Unread
<1> QED BY <1>4, <1>5, <1>6 DEF mmap_rdwr, rdwr, AllSent

(* Forked processes: some end, and with one of them the parent may.        *)
LEMMA KidsFewer ==
  ASSUME Apart, SInv, kind' = kind, queue' = queue,
         (pc' = pc /\ on' = on) \/ Release(1, "dead"),
         \A d \in Clients : Running(d)' => Running(d),
         \E d \in Clients : kid[d] # "none"
  PROVE  /\ pc' \in [Threads -> {"start", "accept", "fork", "read", "send", "dead"}]
         /\ \A d \in Clients : Attended(d)' => Attended(d)
         /\ \A v \in Workers : pc'[v] = "send" => pc[v] = "send" /\ on'[v] = on[v]
         /\ \A v \in Workers : pc'[v] = "dead" => pc[v] = "dead" \/ Release(1, "dead")
         /\ Begun'
<1>1. Workers \subseteq Threads /\ Workers' = Workers
  BY DEF Workers, Apart
<1>2. /\ pc' \in [Threads -> {"start", "accept", "fork", "read", "send", "dead"}]
      /\ \A v \in Threads : (pc'[v] = pc[v] /\ on'[v] = on[v]) \/ pc'[v] = "dead"
  BY DEF Release, SInv, TypeOK
<1>3. Listening' => Listening
  BY <1>1, <1>2 DEF Listening
<1>4. \A d \in Clients : Attended(d)' => Attended(d)
  BY <1>1, <1>2, <1>3 DEF Attended, Alive, Queued
<1>5. pc[1] # "start"
  BY DEF SInv, Begun
<1>6. Begun'
  BY <1>1, <1>2, <1>5 DEF SInv, Begun, Apart
<1> QED BY <1>1, <1>2, <1>4, <1>6

LEMMA ExitSettled ==
  ASSUME Apart, Limits, SInv, Types', NEW c \in Clients, Running(c), Unread,
         UNCHANGED <<queue, held>>, advertised' \in BOOLEAN,
         Exit(c) \/ (Shutdown(c) /\ Told)
  PROVE  SInv'
<1>1. \A d \in Clients : kid'[d] = kid[d] \/ kid'[d] \in {"zombie", "gone"}
  BY DEF Exit, Shutdown, SInv, TypeOK
<1>2. \A d \in Clients : Running(d)' => Running(d)
  BY <1>1 DEF Running
<1>3. kid[c] # "none" /\ kind' = kind
  BY DEF Running, Unread
<1>4. (pc' = pc /\ on' = on) \/ (Release(1, "dead") /\ Told)
  BY DEF Exit, Shutdown
<1>5. /\ pc' \in [Threads -> {"start", "accept", "fork", "read", "send", "dead"}]
      /\ \A d \in Clients : Attended(d)' => Attended(d)
      /\ \A v \in Workers : pc'[v] = "send" => pc[v] = "send" /\ on'[v] = on[v]
      /\ Begun'
  BY <1>2, <1>3, <1>4, KidsFewer
<1>6. \A v \in Workers : pc'[v] = "dead" => pc[v] = "dead" \/ Told
  BY <1>4
<1>7. held' \subseteq Clients
  BY DEF SInv, TypeOK
<1> QED BY <1>1, <1>5, <1>6, <1>7, UnreadKeeps

(* A word read by a forked process.                                        *)
LEMMA HeardSettled ==
  ASSUME Apart, Limits, SInv, Types', NEW c \in Clients, Running(c), toServer[c] # <<>>,
         toServer' = [toServer EXCEPT ![c] = Tail(@)], kid' = [kid EXCEPT ![c] = "serve"],
         UNCHANGED <<kind, role, cl, tries, said, crashes, pc, on, queue, advertised, held>>,
         \/ kid[c] = "hello" /\ toClient' = toClient
         \/ kid[c] = "serve" /\ kind = "lat_tcp" /\ toClient' = [toClient EXCEPT ![c] = @ + 1]
  PROVE  SInv'
<1>1. kid'[c] = "serve" /\ \A d \in Clients : d # c => kid'[d] = kid[d]
  BY DEF SInv, TypeOK
<1>2. /\ toServer' \in [Clients -> Seq(Words)] /\ \A d \in Clients : TextOf(d)'
      /\ Len(toServer'[c]) = Len(toServer[c]) - 1 /\ Len(toServer[c]) \in Nat
      /\ ~Connecting(c) /\ Len(toServer[c]) > 0
      /\ \A d \in Clients : d # c => toServer'[d] = toServer[d]
  BY <1>1, ReadText
<1>3. TextOf(c) /\ AnswerOf(c) /\ toClient[c] \in 0 .. Window
  BY DEF SInv, Texts, Answers, TypeOK
<1>4. /\ toClient' \in [Clients -> 0 .. Window]
      /\ \A d \in Clients : d # c => toClient'[d] = toClient[d]
      /\ toClient'[c] = IF kid[c] = "hello" THEN toClient[c] ELSE toClient[c] + 1
  <2>1. CASE kid[c] = "hello" /\ toClient' = toClient
    BY <2>1 DEF SInv
  <2>2. CASE kid[c] = "serve" /\ kind = "lat_tcp" /\ toClient' = [toClient EXCEPT ![c] = @ + 1]
    <3>1. toClient[c] = 0 /\ 1 \in 0 .. Window
      BY <1>2, <1>3, <2>2 DEF AnswerOf, Limits
    <3> QED BY <2>2, <3>1 DEF SInv
  <2> QED BY <2>1, <2>2
<1>5. AnswerOf(c)'
  BY <1>1, <1>2, <1>3, <1>4 DEF AnswerOf, Connecting
<1>6. ASSUME NEW d \in Clients, d # c PROVE AnswerOf(d)'
  <2>1. /\ AnswerOf(d) /\ kid'[d] = kid[d] /\ toServer'[d] = toServer[d]
        /\ toClient'[d] = toClient[d]
    BY <1>1, <1>2, <1>4, <1>6 DEF SInv, Answers
  <2> QED BY <2>1 DEF AnswerOf, Connecting
<1>7. kind = "lmhttp" => \A d \in Clients : Len(toServer'[d]) > 0 => toServer'[d] = toServer[d]
  BY <1>2, <1>3 DEF TextOf
<1>8. \A d \in Clients : Running(d)' => Running(d)
  BY <1>1 DEF Running
<1>9. kid[c] # "none"
  BY DEF Running
<1>10. (\A d \in Clients : Attended(d)' => Attended(d)) /\ Begun'
  BY <1>8, <1>9, KidsFewer
<1>11. ServerOnly
  BY <1>2, <1>4 DEF ServerOnly, SInv, TypeOK
<1> QED BY <1>2, <1>5, <1>6, <1>7, <1>10, <1>11, ServerKeeps

LEMMA KidSettled ==
  ASSUME Apart, Limits, SInv, Types', NEW c \in Clients, KidStep(c) PROVE SInv'
<1>1. UNCHANGED <<kind, role, cl, tries, said, crashes, queue, held>> /\ Running(c)
  BY DEF KidStep, KidStart, doserver, BwTcpSource, client, Running
<1>2. advertised \in BOOLEAN
  BY DEF SInv, TypeOK
<1>3. kid = [kid EXCEPT ![c] = kid[c]]
  BY DEF SInv, TypeOK
<1>4. CASE KidStart(c)
  <2>1. toClient' = toClient /\ kid[c] = "hello"
    BY <1>4 DEF KidStart
  <2>2. CASE /\ toServer[c] # <<>> /\ kid' = [kid EXCEPT ![c] = "serve"]
             /\ toServer' = [toServer EXCEPT ![c] = Tail(@)]
             /\ UNCHANGED <<pc, on, advertised, signals>>
    BY <1>1, <2>1, <2>2, HeardSettled
  <2>3. CASE toServer[c] # <<>> /\ Head(toServer[c]) = "stop" /\ Shutdown(c) /\ toServer' = toServer
    <3>1. Told
      BY <2>3, StopHeard
    <3> QED BY <1>1, <2>1, <2>3, <3>1, ExitSettled DEF Unread, Shutdown
  <2>4. CASE toServer[c] = <<>> /\ ~ClientEnd(c) /\ Silent(c) /\ toServer' = toServer
    <3>1. CASE kind = "lat_tcp"
      <4>1. Attended(c) /\ TextOf(c)
        BY <1>1 DEF Attended, SInv, Texts
      <4>2. cl[c] = "closed"
        BY <2>4, <4>1 DEF SInv, Present, Unconnected, ClientEnd, TypeOK
      <4>3. Len(said[c]) = 0
        BY <2>1, <2>4, <3>1, <4>1 DEF TextOf, Forking
      <4>4. Told
        BY <3>1, <4>2, <4>3 DEF Told
      <4> QED BY <1>1, <2>1, <2>4, <3>1, <4>4, ExitSettled DEF Unread, Shutdown, Silent
    <3>2. CASE kind # "lat_tcp"
      BY <1>1, <1>2, <2>1, <2>4, <3>2, ExitSettled DEF Unread, Silent
    <3> QED BY <3>1, <3>2
  <2> QED BY <1>4, <2>2, <2>3, <2>4 DEF KidStart
<1>5. CASE KidEnds(c)
  BY <1>1, <1>2, <1>5, ExitSettled DEF KidEnds, Unread, wires
<1>6. CASE doserver(c) /\ ~KidEnds(c)
  <2>1. /\ kind = "lat_tcp" /\ kid[c] = "serve" /\ toServer[c] # <<>>
        /\ toServer' = [toServer EXCEPT ![c] = Tail(@)]
        /\ toClient' = [toClient EXCEPT ![c] = @ + 1] /\ UNCHANGED <<pc, on, advertised, kid>>
    BY <1>6 DEF doserver
  <2> QED BY <1>1, <1>3, <2>1, HeardSettled
<1>7. CASE BwTcpSource(c) /\ ~KidEnds(c)
  <2>1. /\ kind = "bw_tcp" /\ toClient[c] < Window
        /\ toClient' = [toClient EXCEPT ![c] = @ + 1]
        /\ UNCHANGED <<pc, on, advertised, kid, toServer>>
    BY <1>7 DEF BwTcpSource
  <2> QED BY <1>1, <2>1, WriteSettled
<1> QED BY <1>4, <1>5, <1>6, <1>7 DEF KidStep

(* The signal handler, and a step of another program.                      *)
LEMMA AsideSettled ==
  ASSUME Apart, Limits, SInv, Types', SigChld \/ Wait \/ UNCHANGED vars PROVE SInv'
<1>1. Unread /\ UNCHANGED <<pc, on, queue, advertised, held>>
  BY DEF SigChld, Wait, vars, parent, client, wires, Unread
<1>2. \A d \in Clients : kid'[d] = kid[d] \/ (kid[d] = "zombie" /\ kid'[d] = "gone")
  BY DEF SigChld, Wait, vars, Zombies, SInv, TypeOK
<1>3. \A d \in Clients : Attended(d)' => Attended(d)
  BY <1>1, <1>2 DEF Attended, Running, Listening, Alive, Queued, Workers, Unread
<1>4. Begun'
  BY <1>1, <1>2 DEF SInv, Begun, Unread
<1>5. /\ pc' \in [Threads -> {"start", "accept", "fork", "read", "send", "dead"}]
      /\ advertised' \in BOOLEAN /\ held' \subseteq Clients
  BY <1>1 DEF SInv, TypeOK
<1> QED BY <1>1, <1>2, <1>3, <1>4, <1>5, UnreadKeeps

LEMMA NextSettled ==
  ASSUME Apart, Limits, IInv, SInv, [Next]_vars PROVE SInv'
<1>1. IInv' /\ Types'
  BY NextKeeps DEF IInv
<1>2. ASSUME NEW c \in Clients, ClientStep(c) \/ Killed(c) PROVE SInv'
  BY <1>1, <1>2, DialSettled, ConnectSettled, SpeakSettled, TakeSettled, EndSettled DEF ClientStep
<1>3. ASSUME NEW c \in Clients, KidStep(c) PROVE SInv'
  BY <1>1, <1>3, KidSettled
<1>4. ASSUME NEW w \in Workers, WorkerStep(w) \/ ForkFails(w) PROVE SInv'
  BY <1>1, <1>4, AcceptSettled, ForkedSettled, SoleServerSettled, SourceSettled, SendSettled
     DEF WorkerStep, tcp_accept, unix_accept
<1>5. CASE SoleStep
  BY <1>1, <1>5, BoundSettled, SelectEndsSettled, AsideSettled DEF SoleStep
<1>6. CASE UNCHANGED vars
  BY <1>1, <1>6, AsideSettled
<1> QED BY <1>2, <1>3, <1>4, <1>5, <1>6 DEF Next

(* A server ends only on a word to stop, or for one of the reasons the     *)
(* model lists: whoever else comes, goes, is killed or never says a word.  *)
THEOREM StopsWhenTold ==
  ASSUME Apart, Limits PROVE Spec => [](TypeOK /\ StopsOnlyWhenTold)
<1>1. IInv /\ SInv /\ [Next]_vars => IInv' /\ SInv'
  BY NextKeeps, NextSettled
<1>2. IInv /\ SInv => TypeOK /\ StopsOnlyWhenTold
  BY ToldMeansStops DEF SInv
<1>3. Init => IInv /\ SInv
  BY InitIInv, InitSInv
<1> QED BY <1>1, <1>2, <1>3, PTL DEF Spec
==============================================================================
