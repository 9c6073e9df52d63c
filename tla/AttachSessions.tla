--------------------------- MODULE AttachSessions ---------------------------
(***************************************************************************)
(* The daemon's attach sessions (libs/core/src/daemon.rs): the loops that  *)
(* read client frames and relay a container's output, the reaper, and the  *)
(* handshake between the two that ends a session with its exit frame.      *)
(*                                                                         *)
(* Each loop is a chain of ops; a step is the callback of one completion.  *)
(* An op is queued with a descriptor number and the kernel looks the       *)
(* number up when the ring is submitted, so the descriptor table is part   *)
(* of the model.  A descriptor that is closed is handed out again.         *)
(*                                                                         *)
(* Frames are read whole here; FrameStream models how they are cut out of  *)
(* the stream.  A container's lines reach late sessions through the log    *)
(* gateway, which may skip any of them (a pipe still busy with the line    *)
(* before).  Window size frames change no state and are left out.          *)
(***************************************************************************)
EXTENDS Descriptors, Sequences, FiniteSets, FiniteSetsExt

CONSTANTS MaxSess,   \* bound on the sessions accepted
          Pids,      \* containers that may be run
          MaxOut     \* bound on the chunks of output a container prints

ASSUME BoundsAssumption == {MaxSess, MaxOut} \subseteq Nat
\* The id 0 stands for no container.
ASSUME PidsAssumption == 0 \notin Pids

VARIABLES
  sess,        \* DaemonState::attach_sessions
  next_sess,   \* DaemonState::next_session_id
  containers,  \* DaemonState::containers
  ops,         \* ops in flight; equal stdin writes of a session count as one
  fds,         \* the descriptor table
  proc,        \* what has become of the container's process
  out_open,    \* the container's output has a writer
  left,        \* chunks the container may still print
  src,         \* chunks readable from a session's output source
  client,      \* the client's end of each session
  wire         \* history: what was written to each session's stream

daemonVars == <<sess, next_sess, containers>>
worldVars == <<proc, out_open, left, src, client>>
sessionVars == <<daemonVars, ops, fds, worldVars, wire>>

Sids == 1..MaxSess
Fds == 1..MaxFd

\* What a descriptor may stand for.
Stream(s) == <<"stream", s>>
Input(p) == <<"input", p>>
Free == <<"free", 0>>
Queued == <<"queued", 0>>

NoFd == 0
NoSession == [fd |-> NoFd, pid |-> 0]
NoContainer == [drains |-> 0, pipes |-> {}, input |-> -1]

Open(s) == sess[s] # NoSession
Listed(p) == containers[p] # NoContainer

Lookup(fd) == IF fd \in Fds THEN fds[fd] ELSE Free
FreeFds == {f \in Fds : fds[f] = Free}
LowestFd == Min(FreeFds)

\* An op on fd, and the file the code means it for; file is what the kernel
\* found under the number.  A log pipe's reader is never closed: NoFd.
NewOp(kind, s, fd, for) == [kind |-> kind, s |-> s, fd |-> fd, file |-> Queued,
                            for |-> for, part |-> FALSE]
StreamOp(kind, s, fd) == NewOp(kind, s, fd, Stream(s))
OutputOp(s, p, ptm) == NewOp("output", s, ptm, IF ptm = NoFd THEN Free ELSE Input(p))

\* The op of a kind that a session has in the kernel: the runtime keeps at
\* most one read and one output read for each.
Submitted(o) == o \in ops /\ o.file # Queued
InKernel(kind, s) == {o \in ops : o.kind = kind /\ o.s = s /\ o.file # Queued}

SessionsInit ==
  /\ sess = [s \in Sids |-> NoSession] /\ next_sess = 1
  /\ containers = [p \in Pids |-> NoContainer]
  /\ ops = {}
  /\ fds = [f \in Fds |-> Free]
  /\ proc = [p \in Pids |-> "none"]
  /\ out_open = [p \in Pids |-> FALSE] /\ left = [p \in Pids |-> 0]
  /\ src = [s \in Sids |-> 0]
  /\ client = [s \in Sids |-> "none"]
  /\ wire = [s \in Sids |-> <<>>]

-----------------------------------------------------------------------------
(* Pieces of callbacks.                                                    *)

\* close_session.  The session's read and output ops are cancelled: they come
\* back with no session to act on, see StaleRead and StaleOutput.
CloseSession(s) ==
  /\ sess' = [sess EXCEPT ![s] = NoSession]
  /\ fds' = IF sess[s].fd \in Fds THEN [fds EXCEPT ![sess[s].fd] = Free] ELSE fds

\* Mutant of MayExit: the exit frame does not wait for the output drain.
MayExitUndrained(x) == x.child_exited /\ ~x.exit_sent

\* maybe_finish_session for a session in state x: the test, and the effect.
MayExit(x) == x.drain_done /\ x.child_exited /\ ~x.exit_sent
Settled(x) == IF MayExit(x) THEN [x EXCEPT !.exit_sent = TRUE] ELSE x
ExitWrite(s, x) == IF MayExit(x) THEN {StreamOp("exit", s, x.fd)} ELSE {}

\* Mutant of FinishOutput: only the reaper looks whether the session is over.
FinishOutputOnly(s, rest) ==
  /\ sess' = IF Open(s) THEN [sess EXCEPT ![s].drain_done = TRUE] ELSE sess
  /\ ops' = rest

\* finish_session_output, the other ops being `rest`.
FinishOutput(s, rest) ==
  LET x == [sess[s] EXCEPT !.drain_done = TRUE] IN
  IF Open(s)
  THEN /\ sess' = [sess EXCEPT ![s] = Settled(x)]
       /\ ops' = rest \union ExitWrite(s, x)
  ELSE UNCHANGED sess /\ ops' = rest

\* arm_session_output
ArmOutput(s, rest) ==
  IF Open(s) /\ (sess[s].ptm # NoFd \/ sess[s].log)
  THEN UNCHANGED sess /\ ops' = rest \union {OutputOp(s, sess[s].pid, sess[s].ptm)}
  ELSE FinishOutput(s, rest)

\* A container leaves the map: its stdin or pty master and its pipes close.
Unlist(p) ==
  /\ containers' = [containers EXCEPT ![p] = NoContainer]
  /\ fds' = IF containers[p].input \in Fds
            THEN [fds EXCEPT ![containers[p].input] = Free] ELSE fds

-----------------------------------------------------------------------------
(* Accept, and the frames of a client.                                     *)

on_accept ==
  /\ next_sess <= MaxSess /\ FreeFds # {}
  /\ next_sess' = next_sess + 1
  /\ fds' = [fds EXCEPT ![LowestFd] = Stream(next_sess)]
  /\ sess' = [sess EXCEPT ![next_sess] =
                [fd |-> LowestFd, pid |-> 0, ptm |-> NoFd, input |-> NoFd,
                 log |-> FALSE, own |-> FALSE, child_exited |-> FALSE,
                 drain_done |-> FALSE, exit_sent |-> FALSE]]
  /\ ops' = ops \union {StreamOp("read", next_sess, LowestFd)}
  /\ client' = [client EXCEPT ![next_sess] = "open"]
  /\ UNCHANGED <<containers, proc, out_open, left, src, wire>>

\* A frame of an open session has been read.
FrameRead(s) == Open(s) /\ InKernel("read", s) # {} /\ client[s] = "open"

\* The ops once that read is consumed, and once the next one is armed.
Unread(s) == ops \ InKernel("read", s)
Rearmed(s) == Unread(s) \union {StreamOp("read", s, sess[s].fd)}

\* A client sends one request (a second one is outside the model).
Unserved(s) == FrameRead(s) /\ sess[s].pid = 0

Starts(p) ==
  /\ proc[p] = "none"
  /\ proc' = [proc EXCEPT ![p] = "running"]
  /\ out_open' = [out_open EXCEPT ![p] = TRUE]
  /\ left' = [left EXCEPT ![p] = MaxOut]

Served(s, out) == ops' = Rearmed(s) \union {StreamOp("resp", s, sess[s].fd), out}

\* handle_run_attach, with a pty or with a log pipe of its own.
handle_run_attach(s, p, pty) ==
  /\ Unserved(s)
  /\ Starts(p)
  /\ pty => FreeFds # {}
  /\ fds' = IF pty THEN [fds EXCEPT ![LowestFd] = Input(p)] ELSE fds
  /\ sess' = [sess EXCEPT ![s].pid = p, ![s].own = TRUE, ![s].log = ~pty,
                          ![s].ptm = IF pty THEN LowestFd ELSE NoFd]
  /\ containers' = [containers EXCEPT ![p] = [drains |-> 0, pipes |-> {}, input |-> NoFd]]
  /\ Served(s, OutputOp(s, p, IF pty THEN LowestFd ELSE NoFd))
  /\ UNCHANGED <<next_sess, src, client, wire>>

\* A run that fails, an attach to an unknown container: the answer is written
\* at once and the session closed.
RequestRefused(s) ==
  /\ Unserved(s)
  /\ wire' = [wire EXCEPT ![s] = Append(@, <<"resp", s>>)]
  /\ CloseSession(s)
  /\ ops' = Unread(s)
  /\ UNCHANGED <<next_sess, containers, worldVars>>

\* handle_attach
handle_attach(s, p) ==
  /\ Unserved(s)
  /\ Listed(p)
  /\ containers' = [containers EXCEPT ![p].pipes = @ \union {s}]
  /\ sess' = [sess EXCEPT ![s].pid = p, ![s].log = TRUE,
                          ![s].input = containers[p].input]
  /\ Served(s, OutputOp(s, p, NoFd))
  /\ UNCHANGED <<next_sess, fds, worldVars, wire>>

\* The descriptor stdin goes to, and what it is meant to be.
StdinFd(s) == IF sess[s].ptm # NoFd THEN sess[s].ptm ELSE sess[s].input

\* A 0x10 frame: arm_session_stdin.
StdinData(s) ==
  /\ FrameRead(s)
  /\ StdinFd(s) # NoFd
  /\ ops' = Rearmed(s) \union {NewOp("stdin", s, StdinFd(s), Input(sess[s].pid))}
  /\ UNCHANGED <<daemonVars, fds, worldVars, wire>>

\* A 0x11 frame: the session's input is closed.
StdinEof(s) ==
  /\ FrameRead(s)
  /\ StdinFd(s) # NoFd
  /\ fds' = [fds EXCEPT ![StdinFd(s)] = Free]
  /\ sess' = IF sess[s].ptm # NoFd THEN [sess EXCEPT ![s].ptm = NoFd]
                                   ELSE [sess EXCEPT ![s].input = NoFd]
  /\ ops' = Rearmed(s)
  /\ UNCHANGED <<next_sess, containers, worldVars, wire>>

\* A frame that ends the session, or the end of the client's stream.
SessionHangup(s) ==
  /\ Open(s) /\ InKernel("read", s) # {}
  /\ CloseSession(s)
  /\ ops' = Unread(s)
  /\ UNCHANGED <<next_sess, containers, worldVars, wire>>

\* The read of a session already closed comes back: cancelled, or with a
\* frame, of which an attach still registers its pipe.
StaleRead(s) ==
  /\ ~Open(s) /\ InKernel("read", s) # {}
  /\ ops' = Unread(s)
  /\ \/ UNCHANGED containers
     \/ \E p \in Pids : /\ Listed(p)
                        /\ containers' = [containers EXCEPT ![p].pipes = @ \union {s}]
  /\ UNCHANGED <<sess, next_sess, fds, worldVars, wire>>

-----------------------------------------------------------------------------
(* The ring.                                                               *)

\* Submission: the kernel resolves the descriptors of everything queued.
Submit ==
  /\ \E o \in ops : o.file = Queued
  /\ ops' = {IF o.file = Queued THEN [o EXCEPT !.file = Lookup(o.fd)] ELSE o : o \in ops}
  /\ UNCHANGED <<daemonVars, fds, worldVars, wire>>

\* A response is the first frame of its stream: it finds the socket empty, is
\* written whole as it is submitted, and completes before what follows it.
Turn(o) ==
  o.kind # "resp" => \A q \in ops : ~(q.kind = "resp" /\ q.s = o.s)

\* A write to a stream goes through while its client is there; a write that
\* met a container's input under the number goes through as well.
Writable(o) ==
  \/ o.file[1] = "stream" /\ client[o.file[2]] = "open"
  \/ o.file[1] = "input"
Written(o) ==
  wire' = IF o.file[1] = "stream"
          THEN [wire EXCEPT ![o.file[2]] = Append(@, <<o.kind, o.s>>)] ELSE wire

\* A short write: the rest is armed on the descriptor number of the op.
ShortWrite(o) ==
  /\ Submitted(o) /\ o.kind \in {"exit", "header", "payload"} /\ Turn(o)
  /\ Writable(o) /\ ~o.part
  /\ ops' = (ops \ {o}) \union {[o EXCEPT !.part = TRUE, !.file = Queued]}
  /\ UNCHANGED <<daemonVars, fds, worldVars, wire>>

\* on_session_frame
on_session_frame(o) ==
  /\ Submitted(o) /\ o.kind \in {"resp", "exit"} /\ Turn(o)
  /\ ops' = ops \ {o}
  /\ \/ /\ Writable(o)
        /\ Written(o)
        /\ IF Open(o.s) /\ sess[o.s].exit_sent THEN CloseSession(o.s)
                                               ELSE UNCHANGED <<sess, fds>>
     \/ /\ ~Writable(o)
        /\ CloseSession(o.s)
        /\ UNCHANGED wire
  /\ UNCHANGED <<next_sess, containers, worldVars>>

\* An output read of an open session comes back.
OutputRead(o) == Submitted(o) /\ o.kind = "output" /\ Turn(o) /\ Open(o.s)

\* on_session_output with bytes.
OutputData(o) ==
  /\ OutputRead(o)
  /\ o.file = o.for /\ src[o.s] > 0
  /\ src' = [src EXCEPT ![o.s] = @ - 1]
  /\ ops' = (ops \ {o}) \union {StreamOp("header", o.s, sess[o.s].fd)}
  /\ UNCHANGED <<daemonVars, fds, proc, out_open, left, client, wire>>

\* No writer is left for the session's output source.
SourceClosed(s) ==
  IF sess[s].own THEN ~out_open[sess[s].pid]
  ELSE s \notin containers[sess[s].pid].pipes

\* on_session_output at the end of the output, or with an error: the pty
\* master was closed before its read reached the kernel.
OutputEof(o) ==
  /\ OutputRead(o)
  /\ IF o.file = o.for THEN src[o.s] = 0 /\ SourceClosed(o.s) ELSE TRUE
  /\ FinishOutput(o.s, ops \ {o})
  /\ UNCHANGED <<next_sess, containers, fds, worldVars, wire>>

\* on_session_output with any other error, a read that found no buffer say, or
\* with bytes for which no header can be queued: the output ends with more to
\* read.
OutputFails(o) ==
  /\ OutputRead(o)
  /\ \/ UNCHANGED src
     \/ /\ o.file = o.for /\ src[o.s] > 0
        /\ src' = [src EXCEPT ![o.s] = @ - 1]
  /\ FinishOutput(o.s, ops \ {o})
  /\ UNCHANGED <<next_sess, containers, fds, proc, out_open, left, client, wire>>

StaleOutput(s) ==
  /\ ~Open(s) /\ InKernel("output", s) # {}
  /\ ops' = ops \ InKernel("output", s)
  /\ UNCHANGED <<daemonVars, fds, worldVars, wire>>

\* Mutant of on_session_data_header: the drain goes on beside the payload.
on_session_data_headerAhead(o) ==
  /\ Submitted(o) /\ o.kind = "header" /\ Turn(o)
  /\ \/ /\ Writable(o)
        /\ Written(o)
        /\ ArmOutput(o.s, (ops \ {o}) \union {StreamOp("payload", o.s, o.fd)})
     \/ /\ ~Writable(o)
        /\ FinishOutput(o.s, ops \ {o})
        /\ UNCHANGED wire
  /\ UNCHANGED <<next_sess, containers, fds, worldVars>>

\* on_session_data_header: the payload goes to the same descriptor number.
on_session_data_header(o) ==
  /\ Submitted(o) /\ o.kind = "header" /\ Turn(o)
  /\ \/ /\ Writable(o)
        /\ Written(o)
        /\ ops' = (ops \ {o}) \union {StreamOp("payload", o.s, o.fd)}
        /\ UNCHANGED sess
     \/ /\ ~Writable(o)
        /\ FinishOutput(o.s, ops \ {o})
        /\ UNCHANGED wire
  /\ UNCHANGED <<next_sess, containers, fds, worldVars>>

on_session_data_payload(o) ==
  /\ Submitted(o) /\ o.kind = "payload" /\ Turn(o)
  /\ \/ Writable(o) /\ Written(o) /\ ArmOutput(o.s, ops \ {o})
     \/ ~Writable(o) /\ FinishOutput(o.s, ops \ {o}) /\ UNCHANGED wire
  /\ UNCHANGED <<next_sess, containers, fds, worldVars>>

\* on_session_stdin, done or failed; a short write is armed again on what the
\* session's input is by then.
on_session_stdin(o) ==
  /\ Submitted(o) /\ o.kind = "stdin"
  /\ \/ /\ ops' = ops \ {o}
        /\ IF Writable(o) THEN Written(o) ELSE UNCHANGED wire
     \/ /\ ~o.part /\ Writable(o)
        /\ ops' = (ops \ {o}) \union
             {[o EXCEPT !.part = TRUE, !.file = Queued,
                        !.fd = IF Open(o.s) THEN StdinFd(o.s) ELSE NoFd]}
        /\ UNCHANGED wire
  /\ UNCHANGED <<daemonVars, fds, worldVars>>

-----------------------------------------------------------------------------
(* Containers: detached runs, drains and the reaper.                       *)

\* handle_run, of an interactive container or not.
handle_run(p, interactive) ==
  /\ Starts(p)
  /\ interactive => FreeFds # {}
  /\ fds' = IF interactive THEN [fds EXCEPT ![LowestFd] = Input(p)] ELSE fds
  /\ containers' = [containers EXCEPT ![p] =
       [drains |-> 1, pipes |-> {}, input |-> IF interactive THEN LowestFd ELSE NoFd]]
  /\ UNCHANGED <<sess, next_sess, ops, src, client, wire>>

\* finish_drain: the container's output reached its end, or a read of it failed.
finish_drain(p) ==
  /\ Listed(p) /\ containers[p].drains = 1
  /\ Unlist(p)
  /\ UNCHANGED <<sess, next_sess, ops, worldVars, wire>>

\* reap_children, for one child.  Among the sessions of the container the
\* first in the map's order is told; the order is the hash map's.
reap_children(p) ==
  LET told == {s \in Sids : Open(s) /\ sess[s].pid = p} IN
  /\ proc[p] = "exited"
  /\ proc' = [proc EXCEPT ![p] = "reaped"]
  /\ \/ /\ told = {}
        /\ UNCHANGED <<sess, ops>>
     \/ \E s \in told :
          LET x == [sess[s] EXCEPT !.child_exited = TRUE] IN
          /\ sess' = [sess EXCEPT ![s] = Settled(x)]
          /\ ops' = ops \union ExitWrite(s, x)
  /\ IF Listed(p) /\ containers[p].drains = 0 THEN Unlist(p)
     ELSE UNCHANGED <<containers, fds>>
  /\ UNCHANGED <<next_sess, out_open, left, src, client, wire>>

-----------------------------------------------------------------------------
(* The world.                                                              *)

\* A chunk of output: to the session that runs the container, or through the
\* drain to those of the attached sessions whose pipe is idle.
Prints(p) ==
  /\ proc[p] = "running" /\ out_open[p] /\ left[p] > 0
  /\ left' = [left EXCEPT ![p] = @ - 1]
  /\ \E idle \in SUBSET containers[p].pipes :
       src' = [s \in Sids |->
                 IF \/ Open(s) /\ sess[s].pid = p /\ sess[s].own
                    \/ containers[p].drains = 1 /\ s \in idle
                 THEN src[s] + 1 ELSE src[s]]
  /\ UNCHANGED <<daemonVars, ops, fds, proc, out_open, client, wire>>

ClosesOutput(p) ==
  /\ proc[p] = "running" /\ out_open[p]
  /\ out_open' = [out_open EXCEPT ![p] = FALSE]
  /\ UNCHANGED <<daemonVars, ops, fds, proc, left, src, client, wire>>

Exits(p) ==
  /\ proc[p] = "running"
  /\ proc' = [proc EXCEPT ![p] = "exited"]
  /\ out_open' = [out_open EXCEPT ![p] = FALSE]
  /\ UNCHANGED <<daemonVars, ops, fds, left, src, client, wire>>

Disconnects(s) ==
  /\ client[s] = "open"
  /\ client' = [client EXCEPT ![s] = "gone"]
  /\ UNCHANGED <<daemonVars, ops, fds, proc, out_open, left, src, wire>>

-----------------------------------------------------------------------------
OpDone(o) ==
  \/ on_session_frame(o)
  \/ OutputData(o) \/ OutputEof(o)
  \/ on_session_data_header(o)
  \/ on_session_data_payload(o)

Stale(s) == StaleOutput(s) \/ StaleRead(s)

SessionsNext ==
  \/ on_accept
  \/ \E s \in Sids :
       \/ \E p \in Pids : \/ \E pty \in BOOLEAN : handle_run_attach(s, p, pty)
                          \/ handle_attach(s, p)
       \/ RequestRefused(s)
       \/ SessionHangup(s)
       \/ Stale(s)
       \/ Disconnects(s)
  \/ Submit
  \/ \E o \in ops : OpDone(o) \/ OutputFails(o) \/ ShortWrite(o)
  \/ \E p \in Pids :
       \/ \E i \in BOOLEAN : handle_run(p, i)
       \/ finish_drain(p)
       \/ reap_children(p)
       \/ Prints(p) \/ ClosesOutput(p) \/ Exits(p)

\* The same with clients that send stdin frames.
NextStdin ==
  \/ SessionsNext
  \/ \E s \in Sids : StdinData(s) \/ StdinEof(s)
  \/ \E o \in ops : on_session_stdin(o)

\* The ring is submitted, ops on a stream or a source complete, a client that
\* is gone is read to its end, and SIGCHLD is delivered and read.
Fairness ==
  /\ WF_sessionVars(Submit)
  /\ \A s \in Sids :
       /\ WF_sessionVars(Stale(s))
       /\ WF_sessionVars(\E o \in ops : o.s = s /\ OpDone(o))
       /\ WF_sessionVars(client[s] = "gone" /\ SessionHangup(s))
  /\ \A p \in Pids : WF_sessionVars(~out_open[p] /\ finish_drain(p)) /\ WF_sessionVars(reap_children(p))

SessionsSpec == SessionsInit /\ [][SessionsNext]_sessionVars

StdinSpec == SessionsInit /\ [][NextStdin]_sessionVars

FairSpec == SessionsSpec /\ Fairness

-----------------------------------------------------------------------------
(* Properties.                                                             *)

\* The places on a stream w of the frames session s wrote itself.
Own(w, s) == {k \in DOMAIN w : w[k][2] = s}

\* On stream w of session s: no data or exit frame comes after an exit frame,
\* and the headers before it have their payloads before it.
ExitLast(w, s) ==
  \A k \in Own(w, s) : w[k][1] = "exit" =>
    \A m \in Own(w, s) :
      /\ m > k => w[m][1] \notin {"header", "payload", "exit"}
      /\ (m < k /\ w[m][1] = "header") =>
           \E n \in Own(w, s) : m < n /\ n < k /\ w[n][1] = "payload"

\* The exit frame is sent once, after the child was reaped and every data
\* frame is whole on the wire, and no data frame follows it.
ExitFrameLast ==
  /\ \A s \in Sids : ExitLast(wire[s], s)
  /\ \A o \in ops : o.kind = "exit" /\ Open(o.s) => proc[sess[o.s].pid] = "reaped"

\* On stream w of session s: the payloads are the frames right after a header.
FramesWhole(w, s) ==
  \A m \in Own(w, s) :
    w[m][1] = "payload" <=>
      \E k \in Own(w, s) : /\ k < m /\ w[k][1] = "header"
                           /\ \A j \in Own(w, s) : j <= k \/ m <= j

\* The two writes of a data frame are next to each other on the stream: no
\* frame of the session gets in between, and no payload comes without header.
DataFramesWhole == \A s \in Sids : FramesWhole(wire[s], s)

\* A write the kernel performs goes to the file the code meant it for, and
\* never to one that has since been given the same descriptor number.
WritesReachTheirFile == \A o \in ops : o.file \in {Queued, Free, o.for}

\* A container's record names its own stdin or pty master: "write end of stdin
\* pipe (-1 if none)" (daemon.rs:494).  The code keeps it so while no session
\* sends StdinEof; that frame closes the descriptor under the record's number
\* (daemon.rs:2554), and the next accept or container may get the number.
InputIsOwn ==
  \A p \in Pids :
    Listed(p) /\ containers[p].input # NoFd =>
      fds[containers[p].input] = Input(p)

\* A session whose container has exited comes to an end: the later of the
\* two events, end of output and reaping, sends the exit frame.
SessionEnds ==
  \A s \in Sids, p \in Pids :
    (Open(s) /\ sess[s].pid = p /\ proc[p] = "exited") ~> ~Open(s)
=============================================================================
