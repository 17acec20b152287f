----------------------------- MODULE MCNetwork -----------------------------
(***************************************************************************)
(* The programs that talk to one another, side by side: a behaviour is one *)
(* of PingPong, MsgRing, Servers, Udp or Stream; the variables of the      *)
(* others stay 0, those of PingPong stay as they begin for lat_fcntl.      *)
(* MCNetwork.cfg has two clients, which is enough for the signals of two   *)
(* children to merge, for a client to be refused by a server another one   *)
(* has stopped, and for the requests of two clients to alternate at a      *)
(* datagram server; three losses leave one of the four datagrams that stop *)
(* it.  MsgRing and Servers come in with the lemmas about them, which      *)
(* NetworkProofs cites.                                                    *)
(***************************************************************************)
EXTENDS PingPong

CONSTANTS
    P, Rounds, MaxRetry, RingCrashes,               \* of MsgRing
    Connections, Threads, MaxTries, MaxAsks, Window,
    MaxForkFails, ClientCrashes,                    \* of Servers
    Senders, MaxSeq, Stops, MaxLost,                \* of Udp
    MaxBytes, MaxXfer, StreamSize, ControlSize,
    MaxIterations                                   \* of Stream

VARIABLES
    which,      \* the program a behaviour is about
    r_at, r_msg, r_bad, r_file, r_tries, r_knows, r_round, r_runs, r_hops,
    r_crashes,
    s_kind, s_role, s_pc, s_on, s_queue, s_advertised, s_kid, s_held, s_sig,
    s_inWait, s_cl, s_tries, s_said, s_toServer, s_toClient, s_forkFails,
    s_crashes,
    u_server, u_seq, u_cl, u_next, u_got, u_net, u_n, u_lost,
    b_kind, b_xfer, b_bytes, b_reader, b_done, b_iterations, b_writer,
    b_left, b_stream, b_control

RingVars == <<r_at, r_msg, r_bad, r_file, r_tries, r_knows, r_round, r_runs,
              r_hops, r_crashes>>
SrvVars == <<s_kind, s_role, s_pc, s_on, s_queue, s_advertised, s_kid,
             s_held, s_sig, s_inWait, s_cl, s_tries, s_said, s_toServer,
             s_toClient, s_forkFails, s_crashes>>
DgmVars == <<u_server, u_seq, u_cl, u_next, u_got, u_net, u_n, u_lost>>
StrVars == <<b_kind, b_xfer, b_bytes, b_reader, b_done, b_iterations,
             b_writer, b_left, b_stream, b_control>>

Ring == INSTANCE MsgRingProofs WITH
    P <- P, Rounds <- Rounds, MaxRetry <- MaxRetry, MaxCrash <- RingCrashes,
    ForkMayFail <- TRUE,
    at <- r_at, msg <- r_msg, bad <- r_bad, file <- r_file, tries <- r_tries,
    knows <- r_knows, round <- r_round, runs <- r_runs, hops <- r_hops,
    crashes <- r_crashes

Srv == INSTANCE ServersProofs WITH
    Clients <- Connections, Threads <- Threads, MaxTries <- MaxTries,
    MaxAsks <- MaxAsks, Window <- Window, MaxForkFails <- MaxForkFails,
    MaxCrashes <- ClientCrashes,
    kind <- s_kind, role <- s_role, pc <- s_pc, on <- s_on, queue <- s_queue,
    advertised <- s_advertised, kid <- s_kid, held <- s_held, sig <- s_sig,
    inWait <- s_inWait, cl <- s_cl, tries <- s_tries, said <- s_said,
    toServer <- s_toServer, toClient <- s_toClient, forkFails <- s_forkFails,
    crashes <- s_crashes

Dgm == INSTANCE Udp WITH
    Clients <- Senders, MaxSeq <- MaxSeq, Stops <- Stops, MaxLost <- MaxLost,
    server <- u_server, seq <- u_seq, cl <- u_cl, next <- u_next,
    got <- u_got, net <- u_net, n <- u_n, lost <- u_lost

Str == INSTANCE Stream WITH
    MaxBytes <- MaxBytes, MaxXfer <- MaxXfer, StreamSize <- StreamSize,
    ControlSize <- ControlSize, MaxIterations <- MaxIterations,
    kind <- b_kind, xfer <- b_xfer, bytes <- b_bytes, reader <- b_reader,
    done <- b_done, iterations <- b_iterations, writer <- b_writer,
    left <- b_left, stream <- b_stream, control <- b_control

\* Two processes or more in a ring, one round or more; clients that are not
\* confused with the names for none, the server and -S; lmhttp has a process 1.
ASSUME RingAssumption == Ring!Sizes /\ Ring!Limits
ASSUME ServersAssumption == Srv!Apart /\ Srv!Limits /\ Srv!Finite
ASSUME UdpAssumption == Dgm!Server \notin Senders /\ Dgm!Stopper \notin Senders

\* The variables of the programs a behaviour is not about.
PingIdle == Init /\ prog = "fcntl"
RingIdle ==
    /\ r_at = 0 /\ r_msg = 0 /\ r_bad = 0 /\ r_file = 0 /\ r_tries = 0
    /\ r_knows = 0 /\ r_round = 0 /\ r_runs = 0 /\ r_hops = 0
    /\ r_crashes = 0
SrvIdle ==
    /\ s_kind = 0 /\ s_role = 0 /\ s_pc = 0 /\ s_on = 0 /\ s_queue = 0
    /\ s_advertised = 0 /\ s_kid = 0 /\ s_held = 0 /\ s_sig = 0
    /\ s_inWait = 0 /\ s_cl = 0 /\ s_tries = 0 /\ s_said = 0
    /\ s_toServer = 0 /\ s_toClient = 0 /\ s_forkFails = 0 /\ s_crashes = 0
DgmIdle ==
    /\ u_server = 0 /\ u_seq = 0 /\ u_cl = 0 /\ u_next = 0 /\ u_got = 0
    /\ u_net = 0 /\ u_n = 0 /\ u_lost = 0
StrIdle ==
    /\ b_kind = 0 /\ b_xfer = 0 /\ b_bytes = 0 /\ b_reader = 0 /\ b_done = 0
    /\ b_iterations = 0 /\ b_writer = 0 /\ b_left = 0 /\ b_stream = 0
    /\ b_control = 0

NetworkInit ==
    \/ /\ which = "Ping" /\ Init
       /\ RingIdle /\ SrvIdle /\ DgmIdle /\ StrIdle
    \/ /\ which = "Ring" /\ Ring!Init
       /\ PingIdle /\ SrvIdle /\ DgmIdle /\ StrIdle
    \/ /\ which = "Srv" /\ Srv!Init
       /\ PingIdle /\ RingIdle /\ DgmIdle /\ StrIdle
    \/ /\ which = "Dgm" /\ Dgm!Init
       /\ PingIdle /\ RingIdle /\ SrvIdle /\ StrIdle
    \/ /\ which = "Str" /\ Str!Init
       /\ PingIdle /\ RingIdle /\ SrvIdle /\ DgmIdle

NetworkNext ==
    \/ /\ which = "Ping" /\ Next
       /\ UNCHANGED <<which, RingVars, SrvVars, DgmVars, StrVars>>
    \/ /\ which = "Ring" /\ Ring!Next
       /\ UNCHANGED <<which, vars, SrvVars, DgmVars, StrVars>>
    \/ /\ which = "Srv" /\ Srv!Next
       /\ UNCHANGED <<which, vars, RingVars, DgmVars, StrVars>>
    \/ /\ which = "Dgm" /\ Dgm!Next
       /\ UNCHANGED <<which, vars, RingVars, SrvVars, StrVars>>
    \/ /\ which = "Str" /\ Str!Next
       /\ UNCHANGED <<which, vars, RingVars, SrvVars, DgmVars>>

NetworkVars == <<which, vars, RingVars, SrvVars, DgmVars, StrVars>>

\* The fairness of each program, for the behaviours that are about it.
NetworkFairness ==
    /\ WF_vars(which = "Ping" /\ MainStep)
    /\ WF_vars(which = "Ping" /\ OpenFifos)
    /\ WF_vars(which = "Ping" /\ PartnerStep)
    /\ WF_vars(which = "Ping" /\ Sigchld)
    /\ WF_vars(which = "Ping" /\ Alarm)
    /\ \A p \in 0 .. P - 1 : WF_RingVars(which = "Ring" /\ Ring!Step(p))
    /\ WF_RingVars(which = "Ring" /\ (\/ Ring!OpenFile \/ Ring!ReadFile \/ Ring!Connect
                                     \/ Ring!Report \/ Ring!Finish))
    /\ WF_SrvVars(which = "Srv" /\ Srv!SoleStep)
    /\ \A c \in Connections :
         /\ WF_SrvVars(which = "Srv" /\ Srv!ClientStep(c))
         /\ WF_SrvVars(which = "Srv" /\ Srv!KidStep(c))
    /\ \A c \in Senders : WF_DgmVars(which = "Dgm" /\ Dgm!ClientStep(c))
    /\ \A t \in Threads : WF_SrvVars(which = "Srv" /\ t \in Srv!Workers /\ Srv!WorkerStep(t))
    /\ WF_DgmVars(which = "Dgm" /\ Dgm!Serve)
    /\ WF_DgmVars(which = "Dgm" /\ u_n < 0 /\ Dgm!StopSend)
    /\ WF_StrVars(which = "Str" /\ Str!ReaderStep)
    /\ WF_StrVars(which = "Str" /\ Str!WriterStep)

NetworkSpec == NetworkInit /\ [][NetworkNext]_NetworkVars /\ NetworkFairness

-----------------------------------------------------------------------------
(* lat_pipe.c, lat_fifo.c, lat_unix.c, lat_sem.c, lat_fcntl.c: main ends,  *)
(* unless its partner is gone and it holds the other end itself.           *)
PingEnds == <>(which # "Ping" \/ EndedOrMayWait)

(* msgring.c: there is one message in the ring, whoever dies, and who has  *)
(* sent it waits for the reply.                                            *)
SinglePotato == which = "Ring" => /\ Ring!TypeOK /\ Ring!OnePotato
                                  /\ Ring!SenderWaits

(* msgring.c: the number of passes the printed time is divided by is the   *)
(* number of passes that took place.                                       *)
PassesAsPrinted == which = "Ring" => Ring!PassesAsPrinted

(* msgring.c: the test ends, unless a jumper is killed.                    *)
RingEnds == <>(which # "Ring" \/ Ring!Dead(0) \/ r_crashes > 0)

(* lib_timing.c, sigchld_wait_handler(): the wait() of the handler never   *)
(* blocks the server, though signals of several children merge.            *)
WaitNeverBlocks == which = "Srv" => Srv!WaitNeverBlocks

(* bw_tcp.c, lat_tcp.c, lat_connect.c, lmhttp.c: a server ends only on a   *)
(* word to stop, or what its code takes for one.                           *)
StopsOnlyWhenTold == which = "Srv" => Srv!TypeOK /\ Srv!StopsOnlyWhenTold

(* The same programs with -S: the server that is told to stop does.        *)
StopStops ==
    \A c \in Connections : (which = "Srv" /\ Srv!Stopping(c))
            ~> (which # "Srv" \/ Srv!Stopped(c))

(* lat_udp.c: recv() looks at no number, yet counts only answers to the    *)
(* request just sent.                                                      *)
AnswerIsCurrent == which = "Dgm" => Dgm!TypeOK /\ Dgm!AnswerIsCurrent

(* lat_udp.c: four datagrams stop the server if fewer than four are lost.  *)
StopReaches ==
    (which = "Dgm" /\ u_n < 0)
            ~> (which # "Dgm" \/ u_server = "down" \/ u_lost >= Stops)

(* bw_pipe.c, bw_unix.c: with whole packets an iteration always ends.      *)
IterationsEnd ==
    \A i \in 0 .. MaxIterations - 1 :
        (which = "Str" /\ Str!InIteration /\ b_iterations = i)
            ~> (which # "Str" \/ Str!IterationEnds(i))
=============================================================================
