------------------------------ MODULE MCRuntime ------------------------------
(***************************************************************************)
(* What the daemon's process waits for and what it starts: the runtime     *)
(* over io_uring, and the launch of containers with their inits.  The two  *)
(* share no state; a behaviour is one of one of them, `which`, and the     *)
(* other stands still.                                                     *)
(***************************************************************************)
EXTENDS RuntimeUring, Launch

VARIABLE which

ModelStatus == {[how |-> "exited", n |-> 3], [how |-> "signaled", n |-> 15]}

SumInit == which \in {"uring", "launch"} /\ UringInit /\ LaunchInit

\* Launches may come to rest.  The runtime may not before it is dropped: a
\* deadlock would be a completion no handler takes.
Rests == which = "launch" /\ UNCHANGED <<allVars, launchVars>>

SumNext ==
  /\ UNCHANGED which
  /\ \/ which = "uring" /\ UringNext /\ UNCHANGED launchVars
     \/ which = "launch" /\ LaunchNext /\ UNCHANGED allVars
     \/ Rests

\* The runtime's fairness is a premise of LoopEnds and not of the specification:
\* in a behaviour of the launch the runtime stands still before its program
\* begins, which that fairness forbids.  Where the launch stands still no step
\* of its is due.
SumSpec == SumInit /\ [][SumNext]_<<which, allVars, launchVars>> /\ LaunchFairness

\* DriveStops, in the runtime's behaviours.
LoopEnds == which = "uring" /\ UringFairness => DriveStops
=============================================================================
