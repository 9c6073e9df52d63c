------------------------------- MODULE Launch -------------------------------
(***************************************************************************)
(* Starting a container and its first process: the daemon's half of        *)
(* handle_run and handle_run_attach from clone3 on, the child's wait for   *)
(* its user namespace maps, the built-in init with its death pipe and      *)
(* signalfd, and the death of the daemon at any point                      *)
(* (libs/core/src/daemon.rs and interprocess.rs).                          *)
(*                                                                         *)
(* A clone3 copies every descriptor of the daemon, and all are CLOEXEC: an *)
(* exec drops them, and the built-in init never execs.  So an init keeps   *)
(* the write ends the daemon held for the containers before it, and the    *)
(* model keeps, for every process, the set of write ends it has open.      *)
(*                                                                         *)
(* Containers are numbered in the order of their clone3.  Overlay          *)
(* directories, mounts and the network have no part in these properties.   *)
(***************************************************************************)
EXTENDS Integers, FiniteSets

CONSTANTS MaxCont,   \* bound on the containers started
          Status     \* how a command may end, as wait4 reports it

ASSUME LaunchAssumption ==
  MaxCont \in Nat /\ Status \subseteq [how : {"exited", "signaled"}, n : 0..127]

VARIABLES
  daemon,     \* "up" or "dead"
  launching,  \* the container whose handle_run is past clone3, or 0
  next,       \* the number of the next container
  builtin,    \* does the container run the built-in init?
  sync,       \* the daemon's end of the OneshotSignal: "open", "sent", "closed"
  st,         \* the container's first process
  status,     \* how that process ended
  cmd,        \* the user command under the built-in init
  ended,      \* how the command ended
  pending,    \* the signals in the init's signalfd, which coalesce
  got,        \* history: the command was sent the forwarded signal
  listed,     \* is the container in DaemonState::containers, and how was it run?
  reaped,     \* has the daemon waited for the process?
  holds       \* the write ends every process has open

contVars == <<builtin, sync, st, status, cmd, ended, pending, got>>
recVars == <<listed, reaped>>
launchVars == <<daemon, launching, next, contVars, recVars, holds>>

Cont == 1..MaxCont

Daemon == <<"daemon", 0>>
First(c) == <<"first", c>>    \* PID 1 of the container
Command(c) == <<"cmd", c>>    \* PID 2, under the built-in init
Proc == {Daemon} \cup {First(c) : c \in Cont} \cup {Command(c) : c \in Cont}

Death(c) == <<"death", c>>    \* the write end of the death pipe
Pipe(c) == <<"pipe", c>>      \* that of a stdin or a follow pipe
WriteEnds(c) == {Death(c), Pipe(c)}

Held(e) == \E p \in Proc : e \in holds[p]

NotEnded == [how |-> "none", n |-> 0]
Exited(n) == [how |-> "exited", n |-> n % 256]
Killed == [how |-> "signaled", n |-> 9]

\* The exit code that init and reaper make of a wait status.
exit_code(s) == IF s.how = "exited" THEN s.n ELSE 128 + s.n

LaunchInit ==
  /\ daemon = "up" /\ launching = 0 /\ next = 1
  /\ builtin = [c \in Cont |-> FALSE]
  /\ sync = [c \in Cont |-> "closed"]
  /\ st = [c \in Cont |-> "none"]
  /\ status = [c \in Cont |-> NotEnded]
  /\ cmd = [c \in Cont |-> "none"]
  /\ ended = [c \in Cont |-> NotEnded]
  /\ pending = [c \in Cont |-> {}]
  /\ got = [c \in Cont |-> FALSE]
  /\ listed = [c \in Cont |-> "no"] /\ reaped = [c \in Cont |-> FALSE]
  /\ holds = [p \in Proc |-> {}]

-----------------------------------------------------------------------------
(* The daemon.                                                             *)

\* prepare_run and clone3: the child has a copy of everything the daemon has
\* open, and of its own pipes it keeps the death pipe's write end for now.
Clone(own) ==
  /\ daemon = "up" /\ launching = 0 /\ next \in Cont
  /\ launching' = next /\ next' = next + 1
  /\ builtin' = [builtin EXCEPT ![next] = own]
  /\ sync' = [sync EXCEPT ![next] = "open"]
  /\ st' = [st EXCEPT ![next] = "waiting"]
  /\ LET death == IF own THEN {Death(next)} ELSE {}
     IN holds' = [holds EXCEPT ![Daemon] = @ \cup death \cup {Pipe(next)},
                               ![First(next)] = holds[Daemon] \cup death]
  /\ UNCHANGED <<daemon, status, cmd, ended, pending, got, recVars>>

\* parent_setup_maps_and_signal succeeds; handle_run lists the container with
\* drains of its own, handle_run_attach without.
Started(how) ==
  /\ daemon = "up" /\ launching # 0
  /\ sync' = [sync EXCEPT ![launching] = "sent"]
  /\ listed' = [listed EXCEPT ![launching] = how]
  /\ launching' = 0
  /\ UNCHANGED <<daemon, next, builtin, st, status, cmd, ended, pending, got,
                 reaped, holds>>

\* It fails: the daemon closes its ends and drops the signal unsent.
Aborted ==
  /\ daemon = "up" /\ launching # 0
  /\ sync' = [sync EXCEPT ![launching] = "closed"]
  /\ holds' = [holds EXCEPT ![Daemon] = @ \ WriteEnds(launching)]
  /\ launching' = 0
  /\ UNCHANGED <<daemon, next, builtin, st, status, cmd, ended, pending, got,
                 recVars>>

\* A stdin or a follow pipe is closed while the container lives.
ClosePipe(c) ==
  /\ daemon = "up" /\ launching = 0 /\ listed[c] # "no" /\ Pipe(c) \in holds[Daemon]
  /\ holds' = [holds EXCEPT ![Daemon] = @ \ {Pipe(c)}]
  /\ UNCHANGED <<daemon, launching, next, contVars, recVars>>

\* The process is gone, and with it, if it is PID 1, its whole namespace.
Ends(c, how) ==
  /\ st' = [st EXCEPT ![c] = "dead"]
  /\ status' = [status EXCEPT ![c] = how]
  /\ cmd' = [cmd EXCEPT ![c] = IF @ = "none" THEN @ ELSE "gone"]
  /\ pending' = [pending EXCEPT ![c] = {}]
  /\ holds' = [holds EXCEPT ![First(c)] = {}, ![Command(c)] = {}]

\* A Kill request; one for a process already reaped changes nothing here.
Kill(c) ==
  /\ daemon = "up" /\ launching = 0 /\ listed[c] # "no"
  /\ st[c] \notin {"none", "dead"}
  /\ Ends(c, Killed)
  /\ UNCHANGED <<daemon, launching, next, builtin, sync, ended, got, recVars>>

\* reap_children, for one child.  A container without drains is removed, and
\* all its descriptors closed; one that still drains is left to finish_drain.
Reap(c) ==
  /\ daemon = "up" /\ launching = 0
  /\ st[c] = "dead" /\ ~reaped[c]
  /\ reaped' = [reaped EXCEPT ![c] = TRUE]
  /\ IF listed[c] = "attached"
     THEN /\ listed' = [listed EXCEPT ![c] = "no"]
          /\ holds' = [holds EXCEPT ![Daemon] = @ \ WriteEnds(c)]
     ELSE UNCHANGED <<listed, holds>>
  /\ UNCHANGED <<daemon, launching, next, contVars>>

\* Mutant of finish_drain: it closes what the reaper closes.
finish_drainAll(c) ==
  /\ daemon = "up" /\ launching = 0
  /\ listed[c] = "detached"
  /\ listed' = [listed EXCEPT ![c] = "no"]
  /\ holds' = [holds EXCEPT ![Daemon] = @ \ WriteEnds(c)]
  /\ UNCHANGED <<daemon, launching, next, contVars, reaped>>

\* finish_drain for the last drain: the container's output has ended, and it
\* is removed, whether it still runs or not.  Its death pipe stays open.
finish_drain(c) ==
  /\ daemon = "up" /\ launching = 0
  /\ listed[c] = "detached"
  /\ listed' = [listed EXCEPT ![c] = "no"]
  /\ holds' = [holds EXCEPT ![Daemon] = @ \ {Pipe(c)}]
  /\ UNCHANGED <<daemon, launching, next, contVars, reaped>>

\* The daemon dies, wherever it is; the kernel closes what it had open.
Dies ==
  /\ daemon = "up"
  /\ daemon' = "dead"
  /\ launching' = 0
  /\ sync' = [c \in Cont |-> IF sync[c] = "open" THEN "closed" ELSE sync[c]]
  /\ holds' = [holds EXCEPT ![Daemon] = {}]
  /\ UNCHANGED <<next, builtin, st, status, cmd, ended, pending, got, recVars>>

-----------------------------------------------------------------------------
(* The child.                                                              *)

others == <<daemon, launching, next, builtin, sync, recVars>>

\* Mutant of Proceed: the child keeps the write end of its own death pipe.
ProceedHolding(c) ==
  /\ st[c] = "waiting" /\ sync[c] = "sent"
  /\ st' = [st EXCEPT ![c] = "setup"]
  /\ UNCHANGED <<others, status, cmd, ended, pending, got, holds>>

\* OneshotSignal::wait returns Ok: the child closes its copy of the death
\* pipe's write end and sets its environment up.
Proceed(c) ==
  /\ st[c] = "waiting" /\ sync[c] = "sent"
  /\ st' = [st EXCEPT ![c] = "setup"]
  /\ holds' = [holds EXCEPT ![First(c)] = @ \ {Death(c)}]
  /\ UNCHANGED <<others, status, cmd, ended, pending, got>>

\* wait sees the end of the pipe, the environment cannot be set up, or an
\* exec or fork fails.
Fails(c) ==
  /\ \/ st[c] = "waiting" /\ sync[c] = "closed"
     \/ st[c] = "setup"
  /\ \E n \in {1, 127} : Ends(c, Exited(n))
  /\ UNCHANGED <<others, ended, got>>

\* The child cannot set up its terminal or its standard input, and exits before
\* it waits for the signal, whatever its parent does.
ExitsEarly(c) ==
  /\ st[c] = "waiting"
  /\ Ends(c, Exited(1))
  /\ UNCHANGED <<others, ended, got>>

\* A custom init, or the command itself, is exec'd as PID 1.
Execs(c) ==
  /\ st[c] = "setup" /\ ~builtin[c]
  /\ st' = [st EXCEPT ![c] = "foreign"]
  /\ holds' = [holds EXCEPT ![First(c)] = {}]
  /\ UNCHANGED <<others, status, cmd, ended, pending, got>>

\* A foreign PID 1 ends as it likes.
ForeignEnds(c, s) ==
  /\ st[c] = "foreign"
  /\ Ends(c, s)
  /\ UNCHANGED <<others, ended, got>>

\* run_init_loop up to its loop: signals blocked, then the command forked
\* with a copy of the init's descriptors.
Forks(c) ==
  /\ st[c] = "setup" /\ builtin[c]
  /\ st' = [st EXCEPT ![c] = "init"]
  /\ cmd' = [cmd EXCEPT ![c] = "forked"]
  /\ holds' = [holds EXCEPT ![Command(c)] = holds[First(c)]]
  /\ UNCHANGED <<others, status, ended, pending, got>>

\* The forked child execs the command.
CommandExecs(c) ==
  /\ cmd[c] = "forked"
  /\ cmd' = [cmd EXCEPT ![c] = "running"]
  /\ holds' = [holds EXCEPT ![Command(c)] = {}]
  /\ UNCHANGED <<others, st, status, ended, pending, got>>

\* The command ends, or cannot be exec'd (127): SIGCHLD.
CommandEnds(c, s) ==
  /\ \/ cmd[c] = "running" /\ s \in Status
     \/ cmd[c] = "forked" /\ s = Exited(127)
  /\ cmd' = [cmd EXCEPT ![c] = "zombie"]
  /\ ended' = [ended EXCEPT ![c] = s]
  /\ pending' = [pending EXCEPT ![c] = @ \cup {"CHLD"}]
  /\ holds' = [holds EXCEPT ![Command(c)] = {}]
  /\ UNCHANGED <<others, st, status, got>>

\* A process the init has inherited ends: SIGCHLD too, merged with a pending
\* one.  The init never waits for it.
OrphanEnds(c) ==
  /\ st[c] = "init" /\ cmd[c] \in {"running", "zombie"}
  /\ pending' = [pending EXCEPT ![c] = @ \cup {"CHLD"}]
  /\ UNCHANGED <<others, st, status, cmd, ended, got, holds>>

\* Someone sends the init a signal it forwards.
Signalled(c) ==
  /\ st[c] = "init" /\ ~got[c]
  /\ pending' = [pending EXCEPT ![c] = @ \cup {"TERM"}]
  /\ UNCHANGED <<others, st, status, cmd, ended, got, holds>>

\* The poll of the init shows the death pipe without a writer.
InitSeesDeath(c) ==
  /\ st[c] = "init" /\ ~Held(Death(c))
  /\ Ends(c, Exited(137))
  /\ UNCHANGED <<others, ended, got>>

\* Mutant of InitReadsSignal: a read takes all that is pending, and only the
\* first signal of it is looked at.
InitReadsSignalAll(c) ==
  /\ st[c] = "init" /\ Held(Death(c))
  /\ \/ /\ "CHLD" \in pending[c]
        /\ IF cmd[c] = "zombie"
           THEN Ends(c, Exited(exit_code(ended[c]))) /\ UNCHANGED got
           ELSE /\ pending' = [pending EXCEPT ![c] = {}]
                /\ UNCHANGED <<st, status, cmd, got, holds>>
     \/ /\ "TERM" \in pending[c]
        /\ pending' = [pending EXCEPT ![c] = {}]
        /\ got' = [got EXCEPT ![c] = TRUE]
        /\ UNCHANGED <<st, status, cmd, holds>>
  /\ UNCHANGED <<others, ended>>

\* The init reads one signal: SIGCHLD, and it waits for its command alone;
\* any other, and it sends it on.
InitReadsSignal(c) ==
  /\ st[c] = "init" /\ Held(Death(c))
  /\ \/ /\ "CHLD" \in pending[c]
        /\ IF cmd[c] = "zombie"
           THEN Ends(c, Exited(exit_code(ended[c]))) /\ UNCHANGED got
           ELSE /\ pending' = [pending EXCEPT ![c] = @ \ {"CHLD"}]
                /\ UNCHANGED <<st, status, cmd, got, holds>>
     \/ /\ "TERM" \in pending[c]
        /\ pending' = [pending EXCEPT ![c] = @ \ {"TERM"}]
        /\ got' = [got EXCEPT ![c] = TRUE]
        /\ UNCHANGED <<st, status, cmd, holds>>
  /\ UNCHANGED <<others, ended>>

-----------------------------------------------------------------------------
Handler ==
  \/ \E own \in BOOLEAN : Clone(own)
  \/ \E how \in {"attached", "detached"} : Started(how)
  \/ Aborted \/ Dies
  \/ \E c \in Cont : ClosePipe(c) \/ Kill(c) \/ Reap(c) \/ finish_drain(c)

Child(c) == Proceed(c) \/ Fails(c) \/ Execs(c) \/ Forks(c)

World(c) ==
  \/ \E s \in Status : ForeignEnds(c, s)
  \/ \E s \in Status \cup {Exited(127)} : CommandEnds(c, s)
  \/ OrphanEnds(c) \/ Signalled(c) \/ ExitsEarly(c)

LaunchNext ==
  \/ Handler
  \/ \E c \in Cont :
       Child(c) \/ CommandExecs(c) \/ InitSeesDeath(c) \/ InitReadsSignal(c) \/ World(c)

\* Processes run: a child goes on once its read returns, a forked command
\* execs, and the init's poll returns when there is something to see.
LaunchFairness ==
  \A c \in Cont :
    /\ WF_launchVars(Child(c)) /\ WF_launchVars(CommandExecs(c))
    /\ WF_launchVars(InitSeesDeath(c)) /\ WF_launchVars(InitReadsSignal(c))

LaunchSpec == LaunchInit /\ [][LaunchNext]_launchVars

FairLaunchSpec == LaunchSpec /\ LaunchFairness

-----------------------------------------------------------------------------
\* What is known of how a command, and of how a first process, has ended.
CommandEndings == Status \cup {NotEnded, Exited(127)}
Endings ==
  CommandEndings \cup {Killed, Exited(1), Exited(137)}
  \cup {Exited(exit_code(s)) : s \in CommandEndings}

LaunchTypeOK ==
  /\ daemon \in {"up", "dead"}
  /\ launching \in Cont \cup {0} /\ next \in Nat \ {0}
  /\ builtin \in [Cont -> BOOLEAN]
  /\ sync \in [Cont -> {"open", "sent", "closed"}]
  /\ st \in [Cont -> {"none", "waiting", "setup", "init", "foreign", "dead"}]
  /\ status \in [Cont -> Endings]
  /\ cmd \in [Cont -> {"none", "forked", "running", "zombie", "gone"}]
  /\ ended \in [Cont -> CommandEndings]
  /\ pending \in [Cont -> SUBSET {"CHLD", "TERM"}]
  /\ got \in [Cont -> BOOLEAN]
  /\ listed \in [Cont -> {"no", "attached", "detached"}] /\ reaped \in [Cont -> BOOLEAN]
  /\ holds \in [Proc -> SUBSET UNION {WriteEnds(c) : c \in Cont}]

\* A write end made for a container is never in the hands of that container
\* past its wait for the maps, nor of an earlier one: only of the daemon and
\* of containers cloned later.  So inits never keep each other alive in a
\* circle, and a pipe the daemon has closed ends once the later ones are gone.
WriteEndsHeldLater ==
  \A c, d \in Cont : \A e \in WriteEnds(c) :
    e \in holds[First(d)] \cup holds[Command(d)] =>
      \/ c < d
      \/ c = d /\ e = Death(c) /\ st[c] = "waiting"

\* An init takes its namespace down only when the daemon is dead: while it is
\* up, no launch, refusal, kill or removal of any container closes the last
\* write end of a running container's death pipe, not even its own removal
\* when it has closed its output and runs on.
NoInitKilledEarly ==
  \A c \in Cont : st[c] = "init" /\ daemon = "up" => Death(c) \in holds[Daemon]

\* Once the daemon is dead every container with the built-in init dies
\* (README, "so containers die with the daemon"), although the inits of later
\* containers still hold the write ends of the earlier ones.
ContainersDieWithDaemon ==
  (daemon = "dead") ~> (\A c \in Cont : builtin[c] => st[c] = "dead")

\* However signals coalesce, a command that ended takes its container down,
\* and the daemon gets the command's exit code, unless the container is killed
\* or the daemon dies first.
CommandEndsContainer ==
  \A c \in Cont :
    (ended[c] # NotEnded /\ st[c] = "init") ~>
      (/\ st[c] = "dead"
       /\ \/ exit_code(status[c]) = exit_code(ended[c])
          \/ status[c] = Killed \/ daemon = "dead")
=============================================================================
