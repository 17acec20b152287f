------------------------------ MODULE Servers ------------------------------
(***************************************************************************)
(* The TCP and UNIX-socket servers of lmbench and their clients:           *)
(*   lat_tcp, bw_tcp      fork() a process for every connection and reap   *)
(*                        it in a SIGCHLD handler (lib_timing.c);          *)
(*   lat_connect,         one process that reads from each connection it   *)
(*   lat_unix_connect     accepts;                                         *)
(*   lat_select           the same, as a child of the benchmark;           *)
(*   lmhttp (lat_http)    several processes accept on one socket.          *)
(* `kind' says which of them a behaviour is about.  A client is one        *)
(* connection: of a benchmark ("bench") or of `-S' ("stop").               *)
(*                                                                         *)
(* A connection carries a sequence of messages to the server and a number  *)
(* of answers back; it is at its end when the other side has closed it or  *)
(* died.  Sizes, socket options and the one-hour alarm of GO_AWAY are      *)
(* abstracted away.                                                        *)
(***************************************************************************)
EXTENDS Naturals, Sequences, FiniteSets

CONSTANTS Clients,      \* connections
          Threads,      \* processes of lmhttp, 1 .. fflg
          MaxTries,     \* 10 in tcp_connect()
          MaxAsks,      \* bound: requests of a client
          Window,       \* bound: answers in a connection
          MaxForkFails, \* bound: failing fork() calls
          MaxCrashes    \* bound: clients killed

VARIABLES kind,         \* the program
          role,         \* of each client: "bench" or "stop"
          pc,           \* of each server process: "start", "accept", "fork",
                        \* "read", "send" or "dead"
          on,           \* the connection a server process has accepted
          queue,        \* connections not yet accepted
          advertised,   \* the port is registered with the port mapper
          kid,          \* of each connection: the process forked for it
          held,         \* connections the parent forgot to close
          sig, inWait,  \* SIGCHLD is pending; the handler is before its wait()
          cl,           \* what each client does
          tries,        \* failed connect() calls in a row
          said,         \* messages a client has written
          toServer,     \* those of them not read yet
          toClient,     \* answers not read yet
          forkFails, crashes

parent == <<pc, on, queue, advertised, held, forkFails>>
signals == <<sig, inWait>>
client == <<cl, tries, said>>
wires == <<toServer, toClient>>
vars == <<kind, role, parent, kid, signals, client, wires, crashes>>

None == "none"          \* no connection

Kinds == {"lat_tcp", "bw_tcp", "lat_connect", "lat_unix_connect",
          "lat_select", "lmhttp"}
Forking == {"lat_tcp", "bw_tcp"}

\* One process accepts, except in lmhttp (main: for (i = 1; i < fflg; ++i)).
Workers == IF kind = "lmhttp" THEN Threads ELSE {1}
Alive(w) == pc[w] # "dead"
Running(c) == kid[c] \in {"hello", "serve"}
Zombies == {c \in Clients : kid[c] = "zombie"}

\* Forked processes have inherited the listening socket: it outlives the
\* parent until the last of them ends.
Listening == \/ \E w \in Workers : pc[w] \notin {"start", "dead"}
             \/ \E c \in Clients : Running(c)

\* The descriptor of connection c is open in some process of the server.
ServerEnd(c) == \/ Running(c)
                \/ \E w \in Workers : Alive(w) /\ on[w] = c
                \/ Listening /\ (c \in held \/ \E i \in DOMAIN queue : queue[i] = c)
ClientEnd(c) == cl[c] \in {"open", "ready", "asked"}

Init ==
  /\ kind \in Kinds
  /\ role \in [Clients -> {"bench", "stop"}]
  /\ kind = "lat_select" => \A c \in Clients : role[c] = "bench"
  /\ pc = [w \in Threads |-> "start"]
  /\ on = [w \in Threads |-> None]
  /\ queue = <<>>
  /\ advertised = FALSE
  /\ kid = [c \in Clients |-> "none"]
  /\ held = {}
  /\ sig = FALSE /\ inWait = FALSE
  /\ cl = [c \in Clients |-> "new"]
  /\ tries = [c \in Clients |-> 0]
  /\ said = [c \in Clients |-> <<>>]
  /\ toServer = [c \in Clients |-> <<>>]
  /\ toClient = [c \in Clients |-> 0]
  /\ forkFails = 0 /\ crashes = 0

-----------------------------------------------------------------------------
(* Clients *)

\* tcp_connect(): the port is looked up once and kept, so a retry connects to
\* where the server was; lmhttp and the UNIX socket have fixed addresses.
Lookup(c) ==
  /\ cl[c] = "new"
  /\ cl' = [cl EXCEPT ![c] = IF advertised \/ kind \in {"lmhttp", "lat_unix_connect"}
                             THEN "resolved" ELSE "failed"]
  /\ UNCHANGED <<kind, role, parent, kid, signals, tries, said, wires, crashes>>

\* connect() succeeds as soon as the connection is queued.
Connect(c) ==
  /\ cl[c] = "resolved" /\ Listening
  /\ cl' = [cl EXCEPT ![c] = "open"]
  /\ tries' = [tries EXCEPT ![c] = 0]
  /\ queue' = Append(queue, c)
  /\ UNCHANGED <<kind, role, pc, on, advertised, held, forkFails, kid, signals,
                 said, wires, crashes>>

\* ECONNREFUSED: tcp_connect() calls itself again; unix_connect() exits.
ConnectRefused(c) ==
  /\ cl[c] = "resolved" /\ ~Listening
  /\ tries' = [tries EXCEPT ![c] = @ + 1]
  /\ cl' = [cl EXCEPT ![c] = IF kind = "lat_unix_connect" \/ tries[c] + 1 > MaxTries
                             THEN "failed" ELSE @]
  /\ UNCHANGED <<kind, role, parent, kid, signals, said, wires, crashes>>

Say(c, what, next) ==
  /\ said' = [said EXCEPT ![c] = Append(@, what)]
  /\ toServer' = [toServer EXCEPT ![c] = Append(@, what)]
  /\ cl' = [cl EXCEPT ![c] = next]
  /\ UNCHANGED <<kind, role, parent, kid, signals, tries, toClient, crashes>>

At(c, k, r, where) == kind = k /\ role[c] = r /\ cl[c] = where

\* init() and initialize(): the first message is the size of the others.
LatTcpInit(c) == At(c, "lat_tcp", "bench", "open") /\ Say(c, "size", "ready")
BwTcpInitialize(c) == At(c, "bw_tcp", "bench", "open") /\ Say(c, "size", "ready")

\* http(): one request, then read() until the server closes.
http(c) == At(c, "lmhttp", "bench", "open") /\ Say(c, "request", "asked")

\* -S: a size of zero, any byte, the byte 0 or EXIT.
BwTcpStop(c) == At(c, "bw_tcp", "stop", "open") /\ Say(c, "stop", "ready")
LatConnectStop(c) == At(c, "lat_connect", "stop", "open") /\ Say(c, "stop", "ready")
LatUnixConnectStop(c) ==
  At(c, "lat_unix_connect", "stop", "open") /\ Say(c, "stop", "ready")
killhttp(c) == At(c, "lmhttp", "stop", "open") /\ Say(c, "stop", "ready")

\* lat_tcp doclient(): write(), then read().
doclient(c) ==
  /\ At(c, "lat_tcp", "bench", "ready")
  /\ Len(said[c]) <= MaxAsks
  /\ Say(c, "request", "asked")

Speak(c) == \/ LatTcpInit(c) \/ BwTcpInitialize(c) \/ http(c) \/ doclient(c)
            \/ BwTcpStop(c) \/ LatConnectStop(c) \/ LatUnixConnectStop(c) \/ killhttp(c)

\* The client reads an answer, or as much as there is of the data.
Take(c) ==
  /\ toClient[c] > 0
  /\ \/ cl[c] = "asked"
     \/ kind = "bw_tcp" /\ role[c] = "bench" /\ cl[c] = "ready"
  /\ toClient' = [toClient EXCEPT ![c] = @ - 1]
  /\ cl' = [cl EXCEPT ![c] = IF kind = "lat_tcp" THEN "ready" ELSE @]
  /\ UNCHANGED <<kind, role, parent, kid, signals, tries, said, toServer, crashes>>

Leave(c, how) ==
  /\ cl' = [cl EXCEPT ![c] = how]
  /\ UNCHANGED <<kind, role, parent, kid, signals, tries, said, wires>>

\* cleanup(): the harness calls it between two batches, never while the client
\* waits for an answer.
LatTcpCleanup(c) == At(c, "lat_tcp", "bench", "ready") /\ Leave(c, "closed")
BwTcpCleanup(c) == At(c, "bw_tcp", "bench", "ready") /\ Leave(c, "closed")
SelectCleanup(c) == At(c, "lat_select", "bench", "open") /\ Leave(c, "closed")

\* An iteration of lat_connect and lat_unix_connect is a connection without a
\* word, and so is -S of lat_tcp.
LatConnectClient(c) == At(c, "lat_connect", "bench", "open") /\ Leave(c, "closed")
LatUnixConnectClient(c) ==
  At(c, "lat_unix_connect", "bench", "open") /\ Leave(c, "closed")
LatTcpStop(c) == At(c, "lat_tcp", "stop", "open") /\ Leave(c, "closed")

\* The other programs exit when they have said their word to stop.
StopExits(c) == role[c] = "stop" /\ cl[c] = "ready" /\ Leave(c, "closed")

Close(c) ==
  /\ \/ LatTcpCleanup(c) \/ BwTcpCleanup(c) \/ SelectCleanup(c)
     \/ LatConnectClient(c) \/ LatUnixConnectClient(c)
     \/ LatTcpStop(c) \/ StopExits(c)
  /\ UNCHANGED crashes

\* End of file, or a connection reset: what http() waits for, and the end of
\* every other client that reads.
Hangup(c) ==
  /\ \/ cl[c] = "asked"
     \/ kind = "bw_tcp" /\ role[c] = "bench" /\ cl[c] = "ready"
  /\ toClient[c] = 0 /\ ~ServerEnd(c)
  /\ Leave(c, IF kind = "lmhttp" THEN "closed" ELSE "failed")
  /\ UNCHANGED crashes

Killed(c) ==
  /\ ClientEnd(c) /\ crashes < MaxCrashes
  /\ crashes' = crashes + 1
  /\ Leave(c, "closed")

-----------------------------------------------------------------------------
(* Server processes *)

Bound(registered) ==
  /\ pc[1] = "start"
  /\ pc' = [w \in Threads |-> IF w \in Workers THEN "accept" ELSE pc[w]]
  /\ advertised' = registered
  /\ UNCHANGED <<kind, role, on, queue, held, forkFails, kid, signals, client,
                 wires, crashes>>

\* tcp_server(); lmhttp has a port of its own and forks its processes afterwards.
tcp_server == kind # "lat_unix_connect" /\ Bound(kind # "lmhttp")

unix_server == kind = "lat_unix_connect" /\ Bound(FALSE)

\* accept(): a SIGCHLD only makes it try again.
Accept(w) ==
  /\ pc[w] = "accept" /\ queue # <<>> /\ ~inWait
  /\ on' = [on EXCEPT ![w] = Head(queue)]
  /\ queue' = Tail(queue)
  /\ pc' = [pc EXCEPT ![w] = IF kind \in Forking THEN "fork" ELSE "read"]
  /\ UNCHANGED <<kind, role, advertised, held, forkFails, kid, signals, client,
                 wires, crashes>>

tcp_accept(w) == kind # "lat_unix_connect" /\ Accept(w)
unix_accept(w) == kind = "lat_unix_connect" /\ Accept(w)

Release(w, next) ==
  /\ pc' = [pc EXCEPT ![w] = next]
  /\ on' = [on EXCEPT ![w] = None]

\* server_main() of lat_tcp and bw_tcp: the parent closes its copy of the
\* connection.
Fork(w) ==
  /\ pc[w] = "fork" /\ ~inWait
  /\ kid' = [kid EXCEPT ![on[w]] = "hello"]
  /\ Release(w, "accept")
  /\ UNCHANGED <<kind, role, queue, advertised, held, forkFails, signals, client,
                 wires, crashes>>

\* ... but not when fork() fails.
ForkFails(w) ==
  /\ pc[w] = "fork" /\ ~inWait /\ forkFails < MaxForkFails
  /\ forkFails' = forkFails + 1
  /\ held' = held \cup {on[w]}
  /\ Release(w, "accept")
  /\ UNCHANGED <<kind, role, queue, advertised, kid, signals, client, wires, crashes>>

\* server_main() of lat_connect: any byte is the word to stop.
LatConnectServer(w) ==
  /\ kind = "lat_connect" /\ pc[w] = "read"
  /\ LET c == on[w] IN
     \/ /\ toServer[c] # <<>>
        /\ advertised' = FALSE
        /\ Release(w, "dead")
     \/ /\ toServer[c] = <<>> /\ ~ClientEnd(c)
        /\ Release(w, "accept")
        /\ UNCHANGED advertised
  /\ UNCHANGED <<kind, role, queue, held, forkFails, kid, signals, client, wires,
                 crashes>>

\* server_main() of lat_unix_connect: c is cleared before every read().
LatUnixConnectServer(w) ==
  /\ kind = "lat_unix_connect" /\ pc[w] = "read"
  /\ LET c == on[w] IN
     \/ toServer[c] # <<>> /\ Head(toServer[c]) = "stop" /\ Release(w, "dead")
     \/ toServer[c] = <<>> /\ ~ClientEnd(c) /\ Release(w, "accept")
  /\ UNCHANGED <<kind, role, queue, advertised, held, forkFails, kid, signals,
                 client, wires, crashes>>

\* lat_select, child of server(): waits for the end of each connection.
SelectServer(w) ==
  /\ kind = "lat_select" /\ pc[w] = "read" /\ ~ClientEnd(on[w])
  /\ Release(w, "accept")
  /\ UNCHANGED <<kind, role, queue, advertised, held, forkFails, kid, signals,
                 client, wires, crashes>>

\* lat_select main(): kill(SIGKILL) and waitpid() after the measurement.
SelectEnds ==
  /\ kind = "lat_select" /\ pc[1] \in {"accept", "read"}
  /\ \A c \in Clients : cl[c] \in {"closed", "failed"}
  /\ Release(1, "dead")
  /\ UNCHANGED <<kind, role, queue, advertised, held, forkFails, kid, signals,
                 client, wires, crashes>>

\* lmhttp source(): a request is answered unless the file cannot be opened,
\* EXIT ends this process only, a connection without a word is closed.
source(w) ==
  /\ kind = "lmhttp" /\ pc[w] = "read"
  /\ LET c == on[w] IN
     \/ /\ toServer[c] # <<>> /\ Head(toServer[c]) = "stop"
        /\ Release(w, "dead")
        /\ UNCHANGED toServer
     \/ /\ toServer[c] # <<>> /\ Head(toServer[c]) = "request"
        /\ toServer' = [toServer EXCEPT ![c] = Tail(@)]
        /\ \/ pc' = [pc EXCEPT ![w] = "send"] /\ UNCHANGED on
           \/ Release(w, "accept")
     \/ /\ toServer[c] = <<>> /\ ~ClientEnd(c)
        /\ Release(w, "accept")
        /\ UNCHANGED toServer
  /\ UNCHANGED <<kind, role, queue, advertised, held, forkFails, kid, signals,
                 client, toClient, crashes>>

\* The answer: a header, then the file.  Everything is written before the
\* connection is closed; write() blocks when the client does not read.
Sending(w) ==
  /\ pc[w] = "send"
  /\ UNCHANGED <<kind, role, queue, advertised, held, forkFails, kid, signals,
                 client, toServer, crashes>>

SendMore(w) ==
  /\ ClientEnd(on[w]) /\ toClient[on[w]] < Window
  /\ toClient' = [toClient EXCEPT ![on[w]] = @ + 1]
  /\ UNCHANGED <<pc, on>>

AllSent(w) ==
  /\ ClientEnd(on[w]) /\ toClient[on[w]] > 0
  /\ Release(w, "accept")
  /\ UNCHANGED toClient

\* mmap_rdwr(), and fake() likewise: return when the client is gone.
mmap_rdwr(w) ==
  /\ Sending(w)
  /\ \/ SendMore(w) \/ AllSent(w)
     \/ ~ClientEnd(on[w]) /\ Release(w, "accept") /\ UNCHANGED toClient

\* rdwr() adds the -1 of a failed write() to its index, notices the negative
\* index after the next write() and exits.
rdwr(w) ==
  /\ Sending(w)
  /\ \/ SendMore(w) \/ AllSent(w)
     \/ ~ClientEnd(on[w]) /\ Release(w, "dead") /\ UNCHANGED toClient

-----------------------------------------------------------------------------
(* Forked processes *)

\* exit(): a zombie and a SIGCHLD for the parent, or nothing if it is gone.
Exit(c) ==
  /\ kid' = [kid EXCEPT ![c] = IF Alive(1) THEN "zombie" ELSE "gone"]
  /\ sig' = Alive(1)
  /\ UNCHANGED <<pc, on, inWait>>

\* Mutant of Shutdown: no kill(getppid(), SIGTERM).
Shutdown_SparesParent(c) ==
  /\ advertised' = FALSE
  /\ Exit(c)

\* tcp_done(), kill(getppid(), SIGTERM), exit(): the parent does not catch
\* SIGTERM, and its zombies are taken over by init.
Shutdown(c) ==
  /\ advertised' = FALSE
  /\ Release(1, "dead")
  /\ kid' = [k \in Clients |-> IF k = c \/ kid[k] = "zombie" THEN "gone" ELSE kid[k]]
  /\ sig' = FALSE /\ inWait' = FALSE

\* Mutant of Silent: an early end of file stops bw_tcp, too.
Silent_AlwaysStops(c) == Shutdown(c)

\* A connection that ends without a word shuts lat_tcp down, and is an error
\* of the client for bw_tcp (exit(7)).
Silent(c) == IF kind = "lat_tcp" THEN Shutdown(c) ELSE Exit(c) /\ UNCHANGED advertised

KidStart(c) ==
  /\ kid[c] = "hello"
  /\ \/ /\ toServer[c] # <<>> /\ Head(toServer[c]) = "size"
        /\ kid' = [kid EXCEPT ![c] = "serve"]
        /\ toServer' = [toServer EXCEPT ![c] = Tail(@)]
        /\ UNCHANGED <<pc, on, advertised, signals>>
     \/ /\ toServer[c] # <<>> /\ Head(toServer[c]) = "stop"
        /\ Shutdown(c)
        /\ UNCHANGED toServer
     \/ /\ toServer[c] = <<>> /\ ~ClientEnd(c)
        /\ Silent(c)
        /\ UNCHANGED toServer
  /\ UNCHANGED <<kind, role, queue, held, forkFails, client, toClient, crashes>>

KidEnds(c) ==
  /\ toServer[c] = <<>> /\ ~ClientEnd(c)
  /\ Exit(c)
  /\ UNCHANGED <<advertised, wires>>

\* doserver() of lat_tcp: an answer to every request until end of file.
doserver(c) ==
  /\ kind = "lat_tcp" /\ kid[c] = "serve"
  /\ \/ /\ toServer[c] # <<>>
        /\ toServer' = [toServer EXCEPT ![c] = Tail(@)]
        /\ toClient' = [toClient EXCEPT ![c] = @ + 1]
        /\ UNCHANGED <<pc, on, advertised, kid, signals>>
     \/ KidEnds(c)
  /\ UNCHANGED <<kind, role, queue, held, forkFails, client, crashes>>

\* source() of bw_tcp: data as fast as they are taken until write() fails.
BwTcpSource(c) ==
  /\ kind = "bw_tcp" /\ kid[c] = "serve"
  /\ \/ /\ ClientEnd(c) /\ toClient[c] < Window
        /\ toClient' = [toClient EXCEPT ![c] = @ + 1]
        /\ UNCHANGED <<pc, on, advertised, kid, signals, toServer>>
     \/ KidEnds(c)
  /\ UNCHANGED <<kind, role, queue, held, forkFails, client, crashes>>

\* sigchld_wait_handler(): signals of several dead children are one signal.
SigChld ==
  /\ sig /\ ~inWait
  /\ sig' = FALSE /\ inWait' = TRUE
  /\ UNCHANGED <<kind, role, parent, kid, client, wires, crashes>>

\* Mutant of Wait: the handler waits for every dead child.
Wait_All ==
  /\ inWait
  /\ kid' = [c \in Clients |-> IF c \in Zombies THEN "gone" ELSE kid[c]]
  /\ inWait' = FALSE
  /\ UNCHANGED <<kind, role, parent, sig, client, wires, crashes>>

Wait ==
  /\ inWait
  /\ \E c \in Zombies : kid' = [kid EXCEPT ![c] = "gone"]
  /\ inWait' = FALSE
  /\ UNCHANGED <<kind, role, parent, sig, client, wires, crashes>>

-----------------------------------------------------------------------------
ClientStep(c) == \/ Lookup(c) \/ Connect(c) \/ ConnectRefused(c)
                 \/ Speak(c) \/ Take(c) \/ Close(c) \/ Hangup(c)
KidStep(c) == KidStart(c) \/ doserver(c) \/ BwTcpSource(c)
WorkerStep(w) == \/ tcp_accept(w) \/ unix_accept(w) \/ Fork(w)
                 \/ LatConnectServer(w) \/ LatUnixConnectServer(w)
                 \/ SelectServer(w) \/ source(w) \/ mmap_rdwr(w) \/ rdwr(w)

SoleStep == tcp_server \/ unix_server \/ SelectEnds \/ SigChld \/ Wait

Next == \/ SoleStep
        \/ \E c \in Clients : ClientStep(c) \/ Killed(c) \/ KidStep(c)
        \/ \E w \in Workers : WorkerStep(w) \/ ForkFails(w)

\* Every process runs, and everybody who can take a step some day does; no
\* fairness for failures and deaths.
Fairness == /\ WF_vars(SoleStep)
            /\ \A c \in Clients : WF_vars(ClientStep(c)) /\ WF_vars(KidStep(c))
            /\ \A w \in Threads : WF_vars(w \in Workers /\ WorkerStep(w))

Spec == Init /\ [][Next]_vars /\ Fairness

-----------------------------------------------------------------------------
TypeOK ==
  /\ kind \in Kinds /\ role \in [Clients -> {"bench", "stop"}]
  /\ pc \in [Threads -> {"start", "accept", "fork", "read", "send", "dead"}]
  /\ on \in [Threads -> Clients \cup {None}]
  /\ queue \in Seq(Clients) /\ advertised \in BOOLEAN
  /\ kid \in [Clients -> {"none", "hello", "serve", "zombie", "gone"}]
  /\ held \subseteq Clients /\ sig \in BOOLEAN /\ inWait \in BOOLEAN
  /\ cl \in [Clients -> {"new", "resolved", "open", "ready", "asked", "closed",
                         "failed"}]
  /\ tries \in [Clients -> 0 .. MaxTries + 1]
  /\ \A c \in Clients : toClient[c] \in 0 .. Window

\* The wait() in sigchld_wait_handler() has no WNOHANG: it returns at once only
\* because every signal taken or pending stands for a dead child of its own.
\* If the handler blocked, the server would accept nobody any more.
WaitNeverBlocks ==
  Cardinality(Zombies) >= (IF sig THEN 1 ELSE 0) + (IF inWait THEN 1 ELSE 0)

\* A server ends only on a word to stop; lat_tcp takes a connection closed
\* without a word for one (also that of a client killed between connect() and
\* its first write()), lat_select is killed by main(), and a process of lmhttp
\* also ends in rdwr() when its client is gone.
StopsOnlyWhenTold ==
  \A w \in Workers : pc[w] = "dead" =>
    \/ \E c \in Clients : said[c] # <<>> /\ Head(said[c]) = "stop"
    \/ kind = "lat_tcp" /\ \E c \in Clients : cl[c] = "closed" /\ said[c] = <<>>
    \/ kind = "lat_select" /\ \A c \in Clients : ~ClientEnd(c)
    \/ kind = "lmhttp" /\ crashes > 0

\* `-S' stops a server: once its connection is queued the process that accepts
\* it ends, unless fork() failed for it or the client was killed too early.
Stopping(c) == role[c] = "stop" /\ cl[c] = "open"
Stopped(c) == \/ \E w \in Workers : pc[w] = "dead"
              \/ c \in held
              \/ crashes > 0
StopStops == \A c \in Clients : Stopping(c) ~> Stopped(c)
=============================================================================
