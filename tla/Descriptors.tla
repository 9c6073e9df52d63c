----------------------------- MODULE Descriptors -----------------------------
(***************************************************************************)
(* The descriptor numbers of the daemon.  A new descriptor takes the       *)
(* lowest free number, and one that is closed is free at once, whatever    *)
(* ops are armed with its number: each module that extends this one keeps  *)
(* the table of the descriptors it is about.                               *)
(***************************************************************************)
EXTENDS Integers

CONSTANT MaxFd  \* bound on the descriptors open at once

ASSUME MaxFdAssumption == MaxFd \in Nat
=============================================================================
