------------------------------ MODULE MCClients ------------------------------
(***************************************************************************)
(* What the daemon and its clients wait for: the attach stream with its    *)
(* client, the control socket with its loops and clients, one attach       *)
(* session that sends stdin, and the removal of one container.  The four   *)
(* share no state; a behaviour is one of one of them, `which`, and the     *)
(* others stand still.                                                     *)
(***************************************************************************)
EXTENDS MCFrames

CONSTANTS Clients, Entries, MaxKids,  \* of ControlLoops
          MaxFd, MaxOut,              \* of AttachSessions
          MaxHalves                   \* of Containers

VARIABLES which,
          op, entries, unsent, over, dgrams, sends, client, signal, kids,
          sess, next_sess, containers, ops, fds, proc, out_open, left, src, peer, streams,
          entry, graveyard, armed, queued, writes, numbers, next_pipe, death, overlay,
          process, writer, failed, output, taken, follower, content, strayed

Control == INSTANCE ControlLoops
Session == INSTANCE AttachSessions WITH MaxSess <- 1, Pids <- {1}, client <- peer,
                                       wire <- streams
Drained == INSTANCE Containers WITH Pids <- {1}, Attached <- {}, MaxPipes <- 1, MaxFd <- 1,
            containers <- entry, fds <- numbers, proc <- process, printed <- output,
            reader <- follower

ASSUME LoopsAssumption == Control!LoopsAssumption

controlVars == <<op, entries, unsent, over, dgrams, sends, client, signal, kids>>
sessionVars == <<sess, next_sess, containers, ops, fds, proc, out_open, left, src, peer,
                 streams>>
outputVars ==
  <<entry, graveyard, armed, queued, writes, numbers, next_pipe, death, overlay,
    process, writer, failed, output, taken, follower, content, strayed>>

SumInit ==
  /\ which \in {"stream", "control", "session", "output"}
  /\ IF which = "stream" THEN Init ELSE Init /\ reader = "daemon"
  /\ Control!Init /\ Session!SessionsInit /\ Drained!ContainersInit

SumNext ==
  /\ UNCHANGED which
  /\ \/ /\ which = "stream" /\ Next
        /\ UNCHANGED <<controlVars, sessionVars, outputVars>>
     \/ /\ which = "control" /\ Control!Next
        /\ UNCHANGED <<vars, sessionVars, outputVars>>
     \/ /\ which = "session" /\ Session!NextStdin
        /\ UNCHANGED <<vars, controlVars, outputVars>>
     \/ /\ which = "output" /\ Drained!ContainersNext
        /\ UNCHANGED <<vars, controlVars, sessionVars>>

SumSpec ==
  /\ SumInit /\ [][SumNext]_<<which, vars, controlVars, sessionVars, outputVars>>
  /\ Fairness /\ Control!Fairness /\ Session!Fairness /\ Drained!Fairness

\* ControlLoops: requests are answered and children reaped unless the loop
\* that serves them was refused.
EveryoneServed == Control!EveryoneServed

\* AttachSessions, with one session: it ends once its container has exited.
SessionEnds == Session!SessionEnds

\* Containers: one that has exited leaves the map.
ContainerRemoved == Drained!ContainerRemoved
=============================================================================
