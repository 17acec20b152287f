------------------------------ MODULE Stream -------------------------------
(***************************************************************************)
(* bw_pipe and bw_unix: a reader that measures and a writer it has forked. *)
(* The writer of bw_pipe writes packets of xfer bytes for ever; that of    *)
(* bw_unix waits on a control pipe for the number of bytes to write and    *)
(* writes whole packets until it has written that many.                    *)
(*                                                                         *)
(* The stream and the control pipe are bounded; data are counted, not      *)
(* named.  Requests <<bytes, xfer>> stand for the options -M and -m.       *)
(***************************************************************************)
EXTENDS Naturals

CONSTANTS MaxBytes, MaxXfer,    \* bounds: the options -M and -m
          StreamSize,           \* bytes the pipe or socket holds
          ControlSize,          \* numbers the control pipe holds
          MaxIterations         \* bound: iterations measured

VARIABLES kind,         \* "bw_pipe" or "bw_unix"
          xfer, bytes,  \* state->xfer, state->bytes after rounding
          reader,       \* "new", "idle", "read", "done", "gone"
          done,         \* bytes read in this iteration
          iterations,   \* iterations completed
          writer,       \* "none", "idle", "write", "dead"
          left,         \* bytes the writer still writes
          stream,       \* bytes in the pipe or socket
          control       \* numbers in the control pipe

vars == <<kind, xfer, bytes, reader, done, iterations, writer, left, stream, control>>
options == <<kind, xfer, bytes>>

Least(a, b) == IF a < b THEN a ELSE b

\* "round up total byte count to a multiple of xfer", as main() does it: what
\* is added is the part that was whole already.
Rounded(b, x) == IF b % x = 0 THEN b ELSE b + b - (b % x)
Total(k, b, x) == IF k = "bw_pipe" /\ b < x THEN x ELSE Rounded(b, x)

Init ==
  /\ kind \in {"bw_pipe", "bw_unix"}
  /\ xfer \in 1 .. MaxXfer
  /\ \E b \in 1 .. MaxBytes : bytes = Total(kind, b, xfer)
  /\ reader = "new" /\ done = 0 /\ iterations = 0
  /\ writer = "none" /\ left = 0 /\ stream = 0 /\ control = 0

\* initialize(): the channel, and fork().
Initialize ==
  /\ reader = "new"
  /\ reader' = "idle"
  /\ writer' = IF kind = "bw_pipe" THEN "write" ELSE "idle"
  /\ left' = IF kind = "bw_pipe" THEN xfer ELSE 0
  /\ UNCHANGED <<options, done, iterations, stream, control>>

\* A failure ends bw_pipe; bw_unix notes it in initerr, which nobody reads, and
\* measures a channel without a writer.
InitializeFails ==
  /\ reader = "new"
  /\ reader' = IF kind = "bw_pipe" THEN "gone" ELSE "idle"
  /\ UNCHANGED <<options, done, iterations, writer, left, stream, control>>

\* reader(): the next iteration; write() to the control pipe blocks when full.
StartIteration ==
  /\ reader = "idle" /\ iterations < MaxIterations
  /\ \/ kind = "bw_pipe" /\ UNCHANGED control
     \/ kind = "bw_unix" /\ control < ControlSize /\ control' = control + 1
  /\ reader' = "read" /\ done' = 0
  /\ UNCHANGED <<options, iterations, writer, left, stream>>

\* reader(): read() returns what there is, at most xfer bytes.
Read ==
  /\ reader = "read"
  /\ \E n \in 1 .. Least(xfer, stream) :
       /\ stream' = stream - n
       /\ done' = done + n
       /\ IF done + n < bytes
          THEN UNCHANGED <<reader, iterations>>
          ELSE reader' = "idle" /\ iterations' = iterations + 1
  /\ UNCHANGED <<options, writer, left, control>>

\* End of file: bw_unix exits; bw_pipe adds 0 to done and reads again, for ever.
ReadEnds ==
  /\ reader = "read" /\ stream = 0 /\ writer = "dead" /\ kind = "bw_unix"
  /\ reader' = "gone"
  /\ UNCHANGED <<options, done, iterations, writer, left, stream, control>>

\* Mutant of Packets: the loop ends one packet too early.
Packets_Fewer(todo) == todo - (todo % xfer) - xfer

\* writer() of bw_unix: for (done = 0; done < todo; done += n) writes packets of
\* xfer bytes, so the last one may be more than was asked for.
Packets(todo) == ((todo + xfer - 1) \div xfer) * xfer

\* writer() of bw_unix: read() from the control pipe.
ReadControl ==
  /\ writer = "idle" /\ control > 0
  /\ control' = control - 1
  /\ left' = Packets(bytes)
  /\ writer' = "write"
  /\ UNCHANGED <<options, reader, done, iterations, stream>>

\* writer(): write() fills the stream as the reader makes room.  bw_pipe goes
\* on to the next packet, bw_unix to the next number.
Write ==
  /\ writer = "write"
  /\ \E n \in 1 .. Least(left, StreamSize - stream) :
       /\ stream' = stream + n
       /\ left' = IF left = n /\ kind = "bw_pipe" THEN xfer ELSE left - n
       /\ writer' = IF left = n /\ kind = "bw_unix" THEN "idle" ELSE "write"
  /\ UNCHANGED <<options, reader, done, iterations, control>>

\* cleanup(): kill(SIGKILL) and waitpid().
Cleanup ==
  /\ reader = "idle"
  /\ reader' = "done"
  /\ writer' = IF writer = "none" THEN "none" ELSE "dead"
  /\ UNCHANGED <<options, done, iterations, left, stream, control>>

WriterKilled ==
  /\ writer \in {"idle", "write"}
  /\ writer' = "dead"
  /\ UNCHANGED <<options, reader, done, iterations, left, stream, control>>

ReaderStep == StartIteration \/ Read \/ ReadEnds
WriterStep == ReadControl \/ Write

Next == \/ Initialize \/ InitializeFails \/ ReaderStep \/ WriterStep
        \/ Cleanup \/ WriterKilled

\* Both processes run; nothing is assumed of failures, of the harness or of kill().
Fairness == WF_vars(ReaderStep) /\ WF_vars(WriterStep)
Spec == Init /\ [][Next]_vars /\ Fairness

-----------------------------------------------------------------------------
TypeOK ==
  /\ kind \in {"bw_pipe", "bw_unix"} /\ xfer \in Nat /\ bytes \in Nat
  /\ reader \in {"new", "idle", "read", "done", "gone"}
  /\ writer \in {"none", "idle", "write", "dead"}
  /\ done \in Nat /\ iterations \in Nat /\ left \in Nat
  /\ stream \in 0 .. StreamSize /\ control \in 0 .. ControlSize

\* The byte count of main() is what its comment says it is: whole packets.
WholePackets == bytes % xfer = 0

\* With whole packets reader and writer never wait for one another for ever:
\* as long as the writer lives, an iteration ends and the next can begin.
InIteration == WholePackets /\ reader = "idle" /\ iterations < MaxIterations
IterationEnds(i) == iterations = i + 1 \/ reader = "done" \/ writer \in {"none", "dead"}
IterationsEnd ==
  \A i \in 0 .. MaxIterations - 1 :
    (InIteration /\ iterations = i) ~> IterationEnds(i)
=============================================================================
