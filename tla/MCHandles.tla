----------------------------- MODULE MCHandles ------------------------------
(***************************************************************************)
(* What is known by a number that is given out again: the descriptors of   *)
(* attach sessions, two on one container ("sessions"), the op slots in the *)
(* table of the readiness backend ("mio"), and the buffer slots of the     *)
(* pools ("pools").  They share no state; a behaviour is one of one of     *)
(* them, `which`, and the others stand still.                              *)
(***************************************************************************)
EXTENDS AttachSessions, RuntimeMio, BufPools, TLC

VARIABLE which

ViewSymmetry == Permutations(ViewId)

SumInit ==
  /\ which \in {"sessions", "mio", "pools"}
  /\ SessionsInit /\ MioInit /\ PoolsInit

\* Sessions and views may come to rest.  The runtime may not before it is
\* dropped: a deadlock would be a completion no handler takes.
Rests == which # "mio" /\ UNCHANGED <<sessionVars, mioAllVars, poolVars>>

SumNext ==
  /\ UNCHANGED which
  /\ \/ which = "sessions" /\ SessionsNext /\ UNCHANGED <<mioAllVars, poolVars>>
     \/ which = "mio" /\ MioNext /\ UNCHANGED <<sessionVars, poolVars>>
     \/ which = "pools" /\ PoolsNext /\ UNCHANGED <<sessionVars, mioAllVars>>
     \/ Rests

SumSpec == SumInit /\ [][SumNext]_<<which, sessionVars, mioAllVars, poolVars>>
=============================================================================
