------------------------------- MODULE Udp ---------------------------------
(***************************************************************************)
(* lat_udp: clients that send a numbered datagram and wait for an answer,  *)
(* a server that echoes the number, and `-S', which sends four datagrams   *)
(* with negative numbers.  The network loses datagrams and delivers them   *)
(* in any order; it delivers none twice.                                   *)
(*                                                                         *)
(* A request is never sent again: recv() has no timeout of its own, and    *)
(* SIGALRM, armed for 15 seconds at the start of each batch, ends the      *)
(* client whether an answer is late, lost or merely follows a long batch.  *)
(***************************************************************************)
EXTENDS Integers, FiniteSets

CONSTANTS Clients,      \* children of benchmp that measure
          MaxSeq,       \* bound: requests of a client
          Stops,        \* datagrams of `-S': 4
          MaxLost       \* bound: datagrams the network loses

VARIABLES server,       \* "new", "up" (registered) or "down"
          seq,          \* of the server
          cl,           \* of each client: "new", "ready", "waiting", "failed", "done"
          next,         \* seq of each client
          got,          \* number in the answer it read last
          net,          \* datagrams on their way, [to, from, n]
          n,            \* loop variable of `-S'; 0 when it has not begun
          lost

vars == <<server, seq, cl, next, got, net, n, lost>>

Stopper == "stopper"
Server == "server"
Datagram(to, from, num) == [to |-> to, from |-> from, n |-> num]

Init ==
  /\ server = "new" /\ seq = 0
  /\ cl = [c \in Clients |-> "new"]
  /\ next = [c \in Clients |-> 0]
  /\ got = [c \in Clients |-> -1]
  /\ net = {} /\ n = 0 /\ lost = 0

\* The port is registered as long as the server is there.
udp_server ==
  /\ server = "new"
  /\ server' = "up"
  /\ UNCHANGED <<seq, cl, next, got, net, n, lost>>

\* udp_connect() exits unless it finds the port; it sends nothing.
udp_connect == server = "up"

\* init()
Start(c) ==
  /\ cl[c] = "new"
  /\ cl' = [cl EXCEPT ![c] = IF udp_connect THEN "ready" ELSE "failed"]
  /\ UNCHANGED <<server, seq, next, got, net, n, lost>>

\* doit(): send().
Send(c) ==
  /\ cl[c] = "ready" /\ next[c] < MaxSeq
  /\ net' = net \cup {Datagram(Server, c, next[c])}
  /\ next' = [next EXCEPT ![c] = @ + 1]
  /\ cl' = [cl EXCEPT ![c] = "waiting"]
  /\ UNCHANGED <<server, seq, got, n, lost>>

\* doit(): recv() takes any answer and never looks at its number.
Recv(c) ==
  /\ cl[c] = "waiting"
  /\ \E d \in net :
       /\ d.to = c
       /\ net' = net \ {d}
       /\ got' = [got EXCEPT ![c] = d.n]
  /\ cl' = [cl EXCEPT ![c] = "ready"]
  /\ UNCHANGED <<server, seq, next, n, lost>>

\* timeout(): exit(1) in the middle of a batch.
Timeout(c) ==
  /\ cl[c] \in {"ready", "waiting"}
  /\ cl' = [cl EXCEPT ![c] = "failed"]
  /\ UNCHANGED <<server, seq, next, got, net, n, lost>>

\* cleanup()
Finish(c) ==
  /\ cl[c] = "ready"
  /\ cl' = [cl EXCEPT ![c] = "done"]
  /\ UNCHANGED <<server, seq, next, got, net, n, lost>>

\* Mutant of Follow: the server only counts.
Follow_Counts(sent) == seq + 1

\* server_main(): seq follows what was sent, so that the answer carries the
\* number of the request whichever client it came from.
Follow(sent) == IF sent # seq + 1 THEN sent ELSE seq + 1

Serve ==
  /\ server = "up"
  /\ \E d \in net :
       /\ d.to = Server
       /\ IF d.n < 0
          THEN /\ server' = "down"
               /\ net' = net \ {d}
               /\ UNCHANGED seq
          ELSE /\ seq' = Follow(d.n)
               /\ net' = (net \ {d}) \cup {Datagram(d.from, Server, Follow(d.n))}
               /\ UNCHANGED server
  /\ UNCHANGED <<cl, next, got, n, lost>>

\* Mutant of MoreStops: one datagram less.
MoreStops_Fewer == n > 1 - Stops

\* main(), -S: for (n = -1; n > -5; --n) send().
MoreStops == n > -Stops

StopSend ==
  /\ n = 0 => udp_connect
  /\ MoreStops
  /\ n' = n - 1
  /\ net' = net \cup {Datagram(Server, Stopper, n - 1)}
  /\ UNCHANGED <<server, seq, cl, next, got, lost>>

\* The network, and the host of a server or client that is gone.
Lose ==
  /\ lost < MaxLost
  /\ \E d \in net : net' = net \ {d}
  /\ lost' = lost + 1
  /\ UNCHANGED <<server, seq, cl, next, got, n>>

ClientStep(c) == Start(c) \/ Send(c) \/ Recv(c) \/ Finish(c) \/ Timeout(c)

Next == \/ \E c \in Clients : ClientStep(c)
        \/ udp_server \/ Serve \/ StopSend \/ Lose

\* The kernel delivers what is not lost, `-S' runs to its end once begun.
Fairness == /\ WF_vars(Serve) /\ WF_vars(n < 0 /\ StopSend)
            /\ \A c \in Clients : WF_vars(ClientStep(c))

Spec == Init /\ [][Next]_vars /\ Fairness

-----------------------------------------------------------------------------
TypeOK ==
  /\ server \in {"new", "up", "down"} /\ seq \in Int
  /\ cl \in [Clients -> {"new", "ready", "waiting", "failed", "done"}]
  /\ next \in [Clients -> Nat] /\ got \in [Clients -> Int]
  /\ \A d \in net : /\ d.to \in Clients \cup {Server}
                    /\ d.from \in Clients \cup {Server, Stopper}
                    /\ d.n \in Int
  /\ n \in Int /\ lost \in Nat

\* What a client counts as one exchange is the answer to the request it has
\* just sent, although recv() does not look at the number: nothing is sent
\* again, and every request has at most one answer.
AnswerIsCurrent ==
  \A c \in Clients : cl[c] = "ready" /\ next[c] > 0 => got[c] = next[c] - 1

\* Four datagrams are sent to stop the server since some may be lost: it stops
\* if the network loses fewer.
StopReaches == (n < 0) ~> (server = "down" \/ lost >= 4)
=============================================================================
