---------------------------- MODULE ControlLoops ----------------------------
(***************************************************************************)
(* The daemon's persistent loops (libs/core/src/daemon.rs), each an op     *)
(* whose callback arms the next: control datagrams and SIGCHLD; and the    *)
(* clients of the control socket (send_request and its callers,            *)
(* follow_logs).  The third loop, the accepts, is in AttachSessions and    *)
(* here one of those that fill the submission queue.                       *)
(*                                                                         *)
(* Arming takes a submission queue entry, which the other ops of the       *)
(* daemon want as well; the result is ignored, so a refused loop is over.  *)
(* What a request does to the containers is in Containers, Launch and      *)
(* AttachSessions; here it is answered, at once or, for a follow, by an op *)
(* that passes a descriptor.                                               *)
(***************************************************************************)
EXTENDS Naturals, Sequences

CONSTANTS Clients,   \* clients of the control socket, one request each
          Entries,   \* size of the submission queue
          MaxKids    \* bound on the children of the daemon

LoopsAssumption == Entries \in Nat /\ MaxKids \in Nat /\ Entries >= 3

VARIABLES
  op,       \* the op each loop has in flight: none, or which
  entries,  \* submission queue entries taken since the last submission
  unsent,   \* the loops and clients whose op is in the queue still
  over,     \* the loops that have ended, the clients whose op was refused
  dgrams,   \* datagrams on the control socket, oldest first
  sends,    \* clients a descriptor is on its way to
  client,   \* where each client is
  signal,   \* SIGCHLD is pending on the signalfd
  kids      \* children: how many run, how many are zombies

ring == <<op, entries, unsent, over>>
loopVars == <<ring, dgrams, sends, client, signal, kids>>

Loops == {"datagram", "sigchld"}
Idle == "none"
Booted == op["datagram"] # "boot"
Kinds == {"request", "follow", "empty"}

Init ==
  /\ op = [l \in Loops |-> "boot"]
  /\ entries = 0 /\ unsent = {} /\ over = {}
  /\ dgrams = <<>> /\ sends = {}
  /\ client = [c \in Clients |-> "idle"]
  /\ signal = FALSE /\ kids = [run |-> MaxKids, zombies |-> 0]

-----------------------------------------------------------------------------
(* Arming.  Full is the refusal of RuntimeUring's queue.                   *)

Full(n) == entries + n > Entries

\* Loop l goes on with op what, or ends; n entries are taken in all, the last
\* of them for the loop.
Arm(l, what, n) ==
  /\ op' = [op EXCEPT ![l] = IF Full(n) THEN Idle ELSE what]
  /\ unsent' = IF Full(n) THEN unsent ELSE unsent \union {l}
  /\ over' = IF Full(n) THEN over \union {l} ELSE over
  /\ entries' = IF Full(n) THEN Entries ELSE entries + n

\* Loop l's op has completed: its callback may run.
Completed(l, what) == op[l] = what /\ l \notin unsent

\* boot: the sockets are bound, SIGCHLD is blocked and its signalfd made, and
\* the three loops are armed.  If one of these fails nothing is armed and the
\* runtime returns: the behaviour ends here.
boot ==
  /\ ~Booted
  /\ entries' = 3 /\ unsent' = Loops
  /\ op' = [datagram |-> "peek", sigchld |-> "read"]
  /\ UNCHANGED <<over, dgrams, sends, client, signal, kids>>

\* Another callback of the pass arms an op of its own.
OthersArm ==
  /\ Booted /\ ~Full(1)
  /\ entries' = entries + 1
  /\ UNCHANGED <<op, unsent, over, dgrams, sends, client, signal, kids>>

\* The end of a pass: submit_and_wait.
Submit ==
  /\ entries > 0
  /\ entries' = 0 /\ unsent' = {}
  /\ UNCHANGED <<op, over, dgrams, sends, client, signal, kids>>

-----------------------------------------------------------------------------
(* Control datagrams.                                                      *)

\* on_datagram_peek: the receive is armed, or, when that is refused, the peek
\* again; an error peeks again.
on_datagram_peek ==
  /\ Completed("datagram", "peek")
  /\ \/ dgrams # <<>> /\ Arm("datagram", "recv", 1)
     \/ Arm("datagram", "peek", 1)
  /\ UNCHANGED <<dgrams, sends, client, signal, kids>>

RecvFails ==
  /\ Completed("datagram", "recv")
  /\ Arm("datagram", "peek", 1)
  /\ UNCHANGED <<dgrams, sends, client, signal, kids>>

\* reply_datagram: a client that is gone is only logged.
Answered(c) ==
  client' = IF client[c] = "waiting" THEN [client EXCEPT ![c] = "answered"] ELSE client

\* The head of the socket's queue is received.
Receives(kinds) ==
  /\ Completed("datagram", "recv")
  /\ dgrams # <<>> /\ Head(dgrams).kind \in kinds
  /\ dgrams' = Tail(dgrams)

\* on_datagram: an answer at once, an error if the request does not parse or
\* cannot be met, and the next peek; a datagram of no bytes has no answer.
on_datagram ==
  LET d == Head(dgrams) IN
  /\ Receives(Kinds)
  /\ IF d.kind = "empty" THEN UNCHANGED client ELSE Answered(d.from)
  /\ Arm("datagram", "peek", 1)
  /\ UNCHANGED <<sends, signal, kids>>

\* on_datagram with handle_follow on a container that is there: the sendmsg
\* is armed before the peek.  Refused, or when the backlog cannot be written,
\* the client hears nothing.
Follow(sent) ==
  LET c == Head(dgrams).from
      n == IF sent THEN 1 ELSE 0 IN
  /\ Receives({"follow"})
  /\ sent => ~Full(1)
  /\ sends' = IF sent THEN sends \union {c} ELSE sends
  /\ op' = [op EXCEPT !["datagram"] = IF Full(n + 1) THEN Idle ELSE "peek"]
  /\ entries' = entries + n + (IF Full(n + 1) THEN 0 ELSE 1)
  /\ unsent' = (unsent \union (IF sent THEN {c} ELSE {}))
                 \union (IF Full(n + 1) THEN {} ELSE {"datagram"})
  /\ over' = (over \union (IF sent THEN {} ELSE {c}))
               \union (IF Full(n + 1) THEN {"datagram"} ELSE {})
  /\ UNCHANGED <<client, signal, kids>>

\* on_follow_send
on_follow_send(c) ==
  /\ c \in sends /\ c \notin unsent
  /\ sends' = sends \ {c}
  /\ Answered(c)
  /\ UNCHANGED <<ring, dgrams, signal, kids>>

-----------------------------------------------------------------------------
(* SIGCHLD.                                                                *)

\* Mutant of reap_children: one wait4 for one signal.
reap_childrenOne == kids' = [kids EXCEPT !.zombies = IF @ > 0 THEN @ - 1 ELSE @]

\* reap_children: wait4 until there is no more.
reap_children == kids' = [kids EXCEPT !.zombies = 0]

\* on_sigchld: the pending signal is read, every child that is done reaped,
\* the next read armed unless no buffer is left.
on_sigchld ==
  /\ Completed("sigchld", "read") /\ signal
  /\ signal' = FALSE
  /\ reap_children
  /\ \/ Arm("sigchld", "read", 1)
     \/ /\ op' = [op EXCEPT !["sigchld"] = Idle] /\ over' = over \union {"sigchld"}
        /\ UNCHANGED <<entries, unsent>>
  /\ UNCHANGED <<dgrams, sends, client>>

\* The read fails, for want of a ring buffer: the reaper is over.
SigchldFails ==
  /\ Completed("sigchld", "read")
  /\ op' = [op EXCEPT !["sigchld"] = Idle] /\ over' = over \union {"sigchld"}
  /\ UNCHANGED <<entries, unsent, dgrams, sends, client, signal, kids>>

-----------------------------------------------------------------------------
(* The world.                                                              *)

\* send_request and its callers, follow_logs: bind, connect, send; then the
\* client waits for its answer, shows it and ends.
Sends(c, kind) ==
  /\ client[c] = "idle"
  /\ Booted
  /\ client' = [client EXCEPT ![c] = IF kind = "empty" THEN "ignored" ELSE "waiting"]
  /\ dgrams' = Append(dgrams, [from |-> c, kind |-> kind])
  /\ UNCHANGED <<ring, sends, signal, kids>>

ClientGone(c) ==
  /\ client[c] = "waiting"
  /\ client' = [client EXCEPT ![c] = "gone"]
  /\ UNCHANGED <<ring, dgrams, sends, signal, kids>>

\* A child ends; signals that are pending at once are one.
Exits ==
  /\ Booted /\ kids.run > 0
  /\ kids' = [run |-> kids.run - 1, zombies |-> kids.zombies + 1]
  /\ signal' = TRUE
  /\ UNCHANGED <<ring, dgrams, sends, client>>

-----------------------------------------------------------------------------
Next ==
  \/ boot \/ OthersArm \/ Submit
  \/ on_datagram_peek \/ RecvFails \/ on_datagram
  \/ \E sent \in BOOLEAN : Follow(sent)
  \/ on_sigchld \/ SigchldFails
  \/ Exits
  \/ \E c \in Clients :
       \/ \E kind \in Kinds : Sends(c, kind)
       \/ on_follow_send(c)
       \/ ClientGone(c)

\* The ring is submitted at the end of each pass, a receive on a socket that
\* holds a datagram succeeds in the end (it may fail any number of times
\* before), a signalfd with a signal is read, a send completes.
Fairness ==
  /\ WF_loopVars(Submit)
  /\ SF_loopVars(dgrams # <<>> /\ on_datagram_peek /\ op'["datagram"] # "peek")
  /\ SF_loopVars(on_datagram \/ \E sent \in BOOLEAN : Follow(sent))
  /\ WF_loopVars(on_sigchld)
  /\ \A c \in Clients : WF_loopVars(on_follow_send(c))

Spec == Init /\ [][Next]_loopVars /\ Fairness

-----------------------------------------------------------------------------
(* Properties.                                                             *)

\* No client is left waiting and no child unreaped, however requests, failures
\* and coalesced signals come, unless the loop that serves them (or the op of
\* a follow) was refused.  A client sends once and a child ends once, so what
\* holds again and again holds of each of them in the end.
EveryoneServed ==
  /\ []<>(\A c \in Clients : \/ client[c] # "waiting"
                              \/ over \intersect {"datagram", c} # {})
  /\ []<>(kids.zombies = 0 \/ "sigchld" \in over)
=============================================================================
