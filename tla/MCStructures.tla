---------------------------- MODULE MCStructures ----------------------------
(***************************************************************************)
(* What the runtime and the daemon keep their things in: the slabs of ops  *)
(* and cancels, over any backend ("slabs"), the arena of erased buffers    *)
(* ("arena"), the log ring ("log") and the table of containers with their  *)
(* drains and followers ("containers").  They share no state; a behaviour  *)
(* is one of one of them, `which`, and the others stand still.             *)
(***************************************************************************)
EXTENDS Runtime, BufArena, LogCache, Containers

VARIABLE which

ModelClasses == <<1, 2, 4>>

SumInit ==
  /\ which \in {"slabs", "arena", "log", "containers"}
  /\ Init /\ ArenaInit /\ LogInit /\ ContainersInit

\* Ops, lines and containers may run out.  The runtime may not stop before it
\* is dropped: a deadlock would be a completion no handler takes.
Rests == which # "slabs" /\ UNCHANGED <<vars, arenaVars, logVars, containerVars>>

SumNext ==
  /\ UNCHANGED which
  /\ \/ which = "slabs" /\ Next /\ UNCHANGED <<arenaVars, logVars, containerVars>>
     \/ which = "arena" /\ ArenaNext /\ UNCHANGED <<vars, logVars, containerVars>>
     \/ which = "log" /\ LogNext /\ UNCHANGED <<vars, arenaVars, containerVars>>
     \/ which = "containers" /\ ContainersNext /\ UNCHANGED <<vars, arenaVars, logVars>>
     \/ Rests

SumSpec == SumInit /\ [][SumNext]_<<which, vars, arenaVars, logVars, containerVars>>
=============================================================================
