----------------------------- MODULE Containers -----------------------------
(***************************************************************************)
(* The daemon's containers (libs/core/src/daemon.rs): runs, the drains     *)
(* that read a container's output into its log, the pipes of those who     *)
(* follow the log, the reaper, and the removal of a container.             *)
(*                                                                         *)
(* A drain is a read op that re-arms itself; a line's write to a follow    *)
(* pipe is a chain of write ops, each on the descriptor number the first   *)
(* was armed with.  The kernel looks a number up at submission.  Output    *)
(* comes in halves of lines, the second with the newline.  LogCache models *)
(* the log's ring; here the log keeps all lines.                           *)
(***************************************************************************)
EXTENDS Descriptors, Sequences, SequencesExt, FiniteSets, FiniteSetsExt

CONSTANTS Pids,       \* containers that may be run
          Attached,   \* those of them that are only run attached
          MaxHalves,  \* bound on the half lines a container prints
          MaxPipes    \* bound on the follow pipes made

ContainersAssumption == {MaxHalves, MaxPipes} \subseteq Nat /\ Attached \subseteq Pids

VARIABLES
  containers,  \* DaemonState::containers
  graveyard,   \* DaemonState::log_graveyard, <<>> where absent
  armed,       \* the drains of a container whose read is armed
  queued,      \* those of them whose read is not submitted yet, <<pid, output>>
  writes,      \* follow writes in flight
  fds,         \* write ends of follow pipes by descriptor: a pipe id or NoPipe
  next_pipe,   \* DaemonState::next_pipe_id
  death,       \* containers whose death pipe's write end is open
  overlay,     \* containers whose overlay directory is there
  proc,        \* what has become of the container's process
  writer,      \* the outputs the process holds open
  failed,      \* outputs of a container closed because a read of them failed
  printed,     \* half lines printed to each output
  taken,       \* half lines read from each output
  reader,      \* who holds the read end of a pipe
  content,     \* history: what was written to a pipe, <<line, half>>
  strayed      \* history: pipes that a write of a closed pipe went to

daemonVars == <<containers, graveyard, armed, queued, writes, next_pipe>>
worldVars == <<proc, writer, failed, printed>>
pipeHistory == <<content, strayed>>
containerVars == <<daemonVars, fds, death, overlay, worldVars, taken, reader, pipeHistory>>

OutputKinds == {"pipe", "pty"}
Pipes == 1..MaxPipes
Fds == 1..MaxFd
NoPipe == 0
Queued == -1

NoContainer == [drains |-> -1]
Listed(p) == containers[p] # NoContainer

\* The n-th line of an output.
Lines(d, from, to) == [k \in 1..(to - from) |-> <<d, from + k>>]
Halves(line) == <<<<line, 1>>, <<line, 2>>>>

\* The lines of a log, half by half.
Backlog(log) ==
  [k \in 1..(2 * Len(log)) |-> <<log[(k + 1) \div 2], IF k % 2 = 1 THEN 1 ELSE 2>>]

ContainersInit ==
  /\ containers = [p \in Pids |-> NoContainer]
  /\ graveyard = [p \in Pids |-> <<>>]
  /\ armed = [p \in Pids |-> {}]
  /\ queued = {} /\ writes = {}
  /\ fds = [f \in Fds |-> NoPipe] /\ next_pipe = 1
  /\ death = {} /\ overlay = {}
  /\ proc = [p \in Pids |-> "none"]
  /\ writer = [p \in Pids |-> {}] /\ failed = [p \in Pids |-> {}]
  /\ printed = [p \in Pids |-> [d \in OutputKinds |-> 0]]
  /\ taken = [p \in Pids |-> [d \in OutputKinds |-> 0]]
  /\ reader = [i \in Pipes |-> "none"]
  /\ content = [i \in Pipes |-> <<>>]
  /\ strayed = {}

-----------------------------------------------------------------------------
(* Runs.                                                                   *)

Starts(p, drains) ==
  /\ proc[p] = "none"
  /\ proc' = [proc EXCEPT ![p] = "running"]
  /\ containers' = [containers EXCEPT ![p] =
       [drains |-> Cardinality(drains), cache |-> <<>>, pipes |-> {}]]
  /\ armed' = [armed EXCEPT ![p] = drains]
  /\ queued' = queued \union ({p} \X drains)
  /\ writer' = [writer EXCEPT ![p] = drains]
  /\ death' = death \union {p}
  /\ overlay' = overlay \union {p}
  /\ UNCHANGED <<graveyard, writes, fds, next_pipe, failed, printed, taken, reader,
                 pipeHistory>>

\* Mutant of handle_run: the pty drain is armed and not counted.
handle_runUncounted(p, tty) ==
  /\ proc[p] = "none"
  /\ proc' = [proc EXCEPT ![p] = "running"]
  /\ containers' = [containers EXCEPT ![p] = [drains |-> 1, cache |-> <<>>, pipes |-> {}]]
  /\ armed' = [armed EXCEPT ![p] = IF tty THEN OutputKinds ELSE {"pipe"}]
  /\ UNCHANGED queued
  /\ writer' = [writer EXCEPT ![p] = IF tty THEN OutputKinds ELSE {"pipe"}]
  /\ death' = death \union {p}
  /\ overlay' = overlay \union {p}
  /\ UNCHANGED <<graveyard, writes, fds, next_pipe, failed, printed, taken, reader,
                 pipeHistory>>

\* handle_run: a drain for stdout and stderr, and one for the pty's echo.
handle_run(p, tty) == Starts(p, IF tty THEN OutputKinds ELSE {"pipe"})

\* handle_run_attach: the session reads the output, no drain does.
handle_run_attach(p) == Starts(p, {})

-----------------------------------------------------------------------------
(* Removal.                                                                *)

PipeFds(p) == {q.fd : q \in containers[p].pipes}

\* The container leaves the map: its log goes to the graveyard, its follow
\* pipes close, its overlay is cleaned up.
RemoveContainer(p) ==
  /\ containers' = [containers EXCEPT ![p] = NoContainer]
  /\ graveyard' = [graveyard EXCEPT ![p] = containers[p].cache]
  /\ fds' = [f \in Fds |-> IF f \in PipeFds(p) THEN NoPipe ELSE fds[f]]
  /\ overlay' = overlay \ {p}

\* Mutant of finish_drain: the counter is tested before it is decremented.
finish_drainTestsFirst(p) ==
  /\ IF Listed(p) /\ containers[p].drains = 0 THEN RemoveContainer(p)
     ELSE /\ containers' = IF Listed(p) THEN [containers EXCEPT ![p].drains = @ - 1]
                                        ELSE containers
          /\ UNCHANGED <<graveyard, fds, overlay>>
  /\ UNCHANGED death

\* Mutant of finish_drain: the death pipe is closed with the other descriptors.
finish_drainClosesDeath(p) ==
  IF Listed(p) /\ containers[p].drains <= 1
  THEN RemoveContainer(p) /\ death' = death \ {p}
  ELSE /\ containers' = IF Listed(p) THEN [containers EXCEPT ![p].drains = @ - 1]
                                     ELSE containers
       /\ UNCHANGED <<graveyard, fds, overlay, death>>

\* finish_drain: the last drain removes the container.  It leaves the
\* death pipe open.
finish_drain(p) ==
  /\ IF Listed(p) /\ containers[p].drains <= 1 THEN RemoveContainer(p)
     ELSE /\ containers' = IF Listed(p) THEN [containers EXCEPT ![p].drains = @ - 1]
                                        ELSE containers
          /\ UNCHANGED <<graveyard, fds, overlay>>
  /\ UNCHANGED death

\* reap_children, for one child.
reap_children(p) ==
  /\ proc[p] = "exited"
  /\ proc' = [proc EXCEPT ![p] = "reaped"]
  /\ \/ /\ Listed(p) /\ containers[p].drains = 0
        /\ RemoveContainer(p)
        /\ death' = death \ {p}
     \/ /\ ~(Listed(p) /\ containers[p].drains = 0)
        /\ UNCHANGED <<containers, graveyard, fds, overlay, death>>
  /\ UNCHANGED <<armed, queued, writes, next_pipe, writer, failed, printed, taken,
                 reader, pipeHistory>>

-----------------------------------------------------------------------------
(* Drains.                                                                 *)

NewWrite(p, q, line) ==
  [pid |-> p, pipe |-> q.id, fd |-> q.fd, file |-> Queued, line |-> line, half |-> 1]

\* Mutant of IdlePipes: a line is written to a busy pipe as well.
IdlePipesAll(p) == containers[p].pipes

\* The pipes LogGateway::push picks.
IdlePipes(p) == {q \in containers[p].pipes : ~q.in_flight}

\* write_lines: every line goes to the log, and to the pipes that are idle;
\* the first line makes those busy, so they miss the others.
WriteLines(p, lines) ==
  IF Listed(p) /\ lines # <<>>
  THEN /\ containers' = [containers EXCEPT
            ![p].cache = @ \o lines,
            ![p].pipes = {[q EXCEPT !.in_flight = TRUE] : q \in @}]
       /\ writes' = writes \union {NewWrite(p, q, lines[1]) : q \in IdlePipes(p)}
       /\ UNCHANGED graveyard
  ELSE /\ graveyard' = [graveyard EXCEPT ![p] = @ \o lines]
       /\ UNCHANGED <<containers, writes>>

\* Mutant of drain_lines: what a read leaves of a line is forgotten.
drain_linesFresh(d, before, after) ==
  Lines(d, (before + 1) \div 2, after \div 2)

\* drain_lines: the lines that bytes up to `after` complete, a half line of
\* before included.
drain_lines(d, before, after) == Lines(d, before \div 2, after \div 2)

\* The read of drain d is with the kernel.
Reading(p, d) == d \in armed[p] /\ <<p, d>> \notin queued

\* on_container_output and on_container_pty_output with bytes.
on_container_output(p, d, k) ==
  /\ Reading(p, d)
  /\ k <= printed[p][d] - taken[p][d]
  /\ taken' = [taken EXCEPT ![p][d] = @ + k]
  /\ WriteLines(p, drain_lines(d, taken[p][d], taken[p][d] + k))
  /\ queued' = queued \union {<<p, d>>}
  /\ UNCHANGED <<armed, next_pipe, fds, death, overlay, worldVars, reader, pipeHistory>>

\* finish_container_output, finish_container_pty_output: the drain is over.
finish_container_output(p, d) ==
  /\ armed' = [armed EXCEPT ![p] = @ \ {d}]
  /\ finish_drain(p)
  /\ UNCHANGED <<queued, writes, next_pipe, proc, writer, printed, taken, reader,
                 pipeHistory>>

\* The same handlers at the end of the output.
OutputEnds(p, d) ==
  /\ Reading(p, d)
  /\ d \notin writer[p] /\ printed[p][d] = taken[p][d]
  /\ finish_container_output(p, d)
  /\ UNCHANGED failed

\* The same handlers with an error, which may come at any time (no buffer is
\* left, say): the output is closed, read to its end or not.
OutputReadFails(p, d) ==
  /\ Reading(p, d)
  /\ finish_container_output(p, d)
  /\ failed' = [failed EXCEPT ![p] = @ \union {d}]

-----------------------------------------------------------------------------
(* Followers.                                                              *)

FreeFds == {f \in Fds : fds[f] = NoPipe}

\* handle_follow: the backlog is written to a new pipe, which is then
\* registered; its read end is on the way to the client.
handle_follow(p) ==
  /\ Listed(p)
  /\ next_pipe \in Pipes /\ FreeFds # {}
  /\ next_pipe' = next_pipe + 1
  /\ fds' = [fds EXCEPT ![Min(FreeFds)] = next_pipe]
  /\ reader' = [reader EXCEPT ![next_pipe] = "daemon"]
  /\ content' = [content EXCEPT ![next_pipe] =
       Backlog(containers[p].cache)]
  /\ containers' = [containers EXCEPT ![p].pipes = @ \union
       {[id |-> next_pipe, fd |-> Min(FreeFds), in_flight |-> FALSE]}]
  /\ UNCHANGED <<graveyard, armed, queued, writes, death, overlay, worldVars, taken,
                 strayed>>

\* on_follow_send: the client has the read end, or nobody has.
on_follow_send(i) ==
  /\ reader[i] = "daemon"
  /\ reader' \in {[reader EXCEPT ![i] = "client"], [reader EXCEPT ![i] = "closed"]}
  /\ UNCHANGED <<daemonVars, fds, death, overlay, worldVars, taken, pipeHistory>>

Submit ==
  /\ queued # {} \/ \E w \in writes : w.file = Queued
  /\ queued' = {}
  /\ writes' = {IF w.file = Queued THEN [w EXCEPT !.file = fds[w.fd]] ELSE w : w \in writes}
  /\ UNCHANGED <<containers, graveyard, armed, next_pipe, fds, death, overlay,
                 worldVars, taken, reader, pipeHistory>>

\* A write the kernel can perform, and its effect on the pipe.
Goes(w) == w.file \in Pipes /\ reader[w.file] # "closed"
Puts(w, halves) ==
  /\ content' = [content EXCEPT ![w.file] = @ \o halves]
  /\ strayed' = IF w.file = w.pipe THEN strayed ELSE strayed \union {w.file}

\* complete_write: the pipe is idle again, or removed and closed.
CompleteWrite(w, ok) ==
  LET mine == {q \in IF Listed(w.pid) THEN containers[w.pid].pipes ELSE {} : q.id = w.pipe}
      kept == IF ok THEN {[q EXCEPT !.in_flight = FALSE] : q \in mine} ELSE {}
  IN /\ containers' = IF mine = {} THEN containers
                      ELSE [containers EXCEPT ![w.pid].pipes = (@ \ mine) \union kept]
     /\ fds' = IF ok THEN fds
               ELSE [f \in Fds |-> IF \E q \in mine : q.fd = f THEN NoPipe ELSE fds[f]]

\* on_follow_write: all that was left of the line is written.
FollowWriteDone(w) ==
  /\ w \in writes /\ w.file # Queued /\ Goes(w)
  /\ writes' = writes \ {w}
  /\ Puts(w, SubSeq(Halves(w.line), w.half, 2))
  /\ CompleteWrite(w, TRUE)
  /\ UNCHANGED <<graveyard, armed, queued, next_pipe, death, overlay, worldVars,
                 taken, reader>>

\* on_follow_write: a chunk or a part of one; the rest is armed on the number.
FollowWritePart(w) ==
  /\ w \in writes /\ w.file # Queued /\ Goes(w) /\ w.half = 1
  /\ writes' = (writes \ {w}) \union {[w EXCEPT !.half = 2, !.file = Queued]}
  /\ Puts(w, <<Halves(w.line)[1]>>)
  /\ UNCHANGED <<containers, graveyard, armed, queued, next_pipe, fds, death,
                 overlay, worldVars, taken, reader>>

\* on_follow_write with an error.
FollowWriteFailed(w) ==
  /\ w \in writes /\ w.file # Queued /\ ~Goes(w)
  /\ writes' = writes \ {w}
  /\ CompleteWrite(w, FALSE)
  /\ UNCHANGED <<graveyard, armed, queued, next_pipe, death, overlay, worldVars,
                 taken, reader, pipeHistory>>

-----------------------------------------------------------------------------
(* The world.                                                              *)

\* A write to an output the daemon has closed fails.
Prints(p, d) ==
  /\ proc[p] = "running" /\ d \in writer[p] \ failed[p]
  /\ printed[p]["pipe"] + printed[p]["pty"] < MaxHalves
  /\ printed' = [printed EXCEPT ![p][d] = @ + 1]
  /\ UNCHANGED <<daemonVars, fds, death, overlay, proc, writer, failed, taken, reader,
                 pipeHistory>>

ClosesOutput(p, d) ==
  /\ proc[p] = "running" /\ d \in writer[p]
  /\ writer' = [writer EXCEPT ![p] = @ \ {d}]
  /\ UNCHANGED <<daemonVars, fds, death, overlay, proc, failed, printed, taken, reader,
                 pipeHistory>>

\* The container's init ends by itself or by a Kill request, and with it all
\* the processes of its pid namespace.
Exits(p) ==
  /\ proc[p] = "running"
  /\ proc' = [proc EXCEPT ![p] = "exited"]
  /\ writer' = [writer EXCEPT ![p] = {}]
  /\ UNCHANGED <<daemonVars, fds, death, overlay, failed, printed, taken, reader, pipeHistory>>

FollowerLeaves(i) ==
  /\ reader[i] = "client"
  /\ reader' = [reader EXCEPT ![i] = "closed"]
  /\ UNCHANGED <<daemonVars, fds, death, overlay, worldVars, taken, pipeHistory>>

-----------------------------------------------------------------------------
Drain(p) ==
  \E d \in OutputKinds :
    \/ \E k \in 1..MaxHalves : on_container_output(p, d, k)
    \/ OutputEnds(p, d)

ContainersNext ==
  \/ \E p \in Pids :
       \/ \E tty \in BOOLEAN : p \notin Attached /\ handle_run(p, tty)
       \/ handle_run_attach(p)
       \/ Drain(p)
       \/ \E d \in OutputKinds : OutputReadFails(p, d)
       \/ reap_children(p)
       \/ handle_follow(p)
       \/ \E d \in OutputKinds : Prints(p, d) \/ ClosesOutput(p, d)
       \/ Exits(p)
  \/ \E i \in Pipes : on_follow_send(i) \/ FollowerLeaves(i)
  \/ Submit
  \/ \E w \in writes : FollowWriteDone(w) \/ FollowWritePart(w) \/ FollowWriteFailed(w)

\* The ring is submitted, reads of an output with bytes or at its end complete,
\* and SIGCHLD is read.
Fairness ==
  /\ WF_containerVars(Submit)
  /\ \A p \in Pids : WF_containerVars(Drain(p)) /\ WF_containerVars(reap_children(p))

ContainersSpec == ContainersInit /\ [][ContainersNext]_containerVars

FairSpec == ContainersSpec /\ Fairness

-----------------------------------------------------------------------------
(* Properties.                                                             *)

\* drains_pending is the number of drains that run, and a drain never
\* outlives its container: its lines always find a log to go to.
DrainsCounted ==
  \A p \in Pids :
    IF Listed(p) THEN containers[p].drains = Cardinality(armed[p])
                 ELSE armed[p] = {}

\* What a `logs` request reads.
Log(p) == IF Listed(p) THEN containers[p].cache ELSE graveyard[p]

\* The numbers of the lines of output d in container p's log.
Logged(p, d) == {Log(p)[k][2] : k \in {j \in DOMAIN Log(p) : Log(p)[j][1] = d}}

\* Each output's lines are in the log whole, once and in order, as far as they
\* were read, however the reads cut them and whatever the other output's drain
\* puts between them; and once the container is gone, every line printed to a
\* drained output, whose reads did not fail, is in the graveyard's log.
LogIsComplete ==
  \A p \in Pids :
    /\ \A d \in OutputKinds : Logged(p, d) = 1..(taken[p][d] \div 2)
    /\ \A j, k \in DOMAIN Log(p) :
         j < k /\ Log(p)[j][1] = Log(p)[k][1] => Log(p)[j][2] < Log(p)[k][2]
    /\ proc[p] = "reaped" /\ ~Listed(p) =>
         \A d \in OutputKinds \ failed[p] : taken[p][d] = printed[p][d]

\* Where a line is in the log of container p.
Position(p, line) == CHOOSE k \in DOMAIN Log(p) : Log(p)[k] = line

\* The lines LogGateway::push and on_follow_write put into a follower's pipe:
\* none starts before the one before it is whole, and they come in the order
\* of the log.  The exception is a pipe that was given the number of one closed
\* with a write under way: the rest of that line goes to it.
FollowedInOrder ==
  \A p \in Pids : Listed(p) => \A q \in containers[p].pipes : q.id \notin strayed =>
    LET c == content[q.id] IN
    /\ \A k \in DOMAIN c : c[k][2] = IF k % 2 = 1 THEN 1 ELSE 2
    /\ \A k \in 1..(Len(c) - 1) :
         IF c[k][2] = 1 THEN c[k + 1][1] = c[k][1]
         ELSE Position(p, c[k][1]) < Position(p, c[k + 1][1])

\* A container that has exited leaves the map, its log in the graveyard.
ContainerRemoved == \A p \in Pids : (proc[p] = "exited") ~> ~Listed(p)

\* A follower that stays reads its last line to the end: a pipe closes, or
\* stays without a write under way, only with whole lines in it.
LastLineDelivered ==
  \A i \in Pipes :
    reader[i] \in {"daemon", "client"} /\ (\A w \in writes : w.pipe # i)
      => Len(content[i]) % 2 = 0

\* A container that runs keeps what it lives on: the write end of its death
\* pipe, whose closing makes its init kill it, to the end, and its overlay for
\* as long as it holds a drained output, in whatever order outputs close or
\* their reads fail.  A container whose every output failed loses its overlay
\* while it runs: an output whose read failed no longer counts.
HeldWhileRunning ==
  \A p \in Pids :
    proc[p] = "running" =>
      p \in death /\ (writer[p] \ failed[p] # {} => p \in overlay)
=============================================================================
