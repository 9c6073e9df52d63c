----------------------------- MODULE OpContract -----------------------------
(***************************************************************************)
(* What the coio runtime promises the code that dispatches operations      *)
(* through it (the documentation of Runtime::register_op and               *)
(* Runtime::cancel), with no slot, free stack or backend in sight:         *)
(*  - an op's callback runs at most once, and only for a dispatched op;    *)
(*  - a cancel callback runs at most once per op, for an op that has not   *)
(*    been called yet, and the next op callback is that op's;              *)
(*  - the op is called with Cancelled exactly when its cancel callback     *)
(*    ran before.                                                          *)
(***************************************************************************)
CONSTANT Ids

VARIABLES live,      \* dispatched and not called yet
          called,    \* called back
          done_ran,  \* their cancel callback ran
          cancelled  \* called back with Cancelled

vars == <<live, called, done_ran, cancelled>>

Init == live = {} /\ called = {} /\ done_ran = {} /\ cancelled = {}

Dispatch(id) ==
  /\ id \notin live \union called
  /\ live' = live \union {id}
  /\ UNCHANGED <<called, done_ran, cancelled>>

RunDone(id) ==
  /\ id \in live
  /\ done_ran \subseteq called
  /\ done_ran' = done_ran \union {id}
  /\ UNCHANGED <<live, called, cancelled>>

Call(id) ==
  /\ id \in live
  /\ done_ran \subseteq called \union {id}
  /\ live' = live \ {id}
  /\ called' = called \union {id}
  /\ cancelled' = IF id \in done_ran THEN cancelled \union {id} ELSE cancelled
  /\ UNCHANGED done_ran

Next == \E id \in Ids : Dispatch(id) \/ RunDone(id) \/ Call(id)

Spec == Init /\ [][Next]_vars
=============================================================================
