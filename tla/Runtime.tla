------------------------------ MODULE Runtime ------------------------------
(***************************************************************************)
(* The callback runtime of coio-core (libs/coio-core/src/runtime.rs): the  *)
(* op slab, the cancel slab, their free stacks, the in-flight counters and *)
(* the cancel protocol, driven one completion at a time.                   *)
(*                                                                         *)
(* The backend is left open.  `Backend` is a public trait and its          *)
(* completions are untrusted input to the runtime, so Next lets the        *)
(* backend refuse any request and report any completion: whatever holds    *)
(* here holds of the runtime over every backend.  RuntimeUring closes the  *)
(* system with the io_uring backend.                                       *)
(*                                                                         *)
(* The program is single-threaded.  A step is the code between two points  *)
(* at which control passes to someone else: user code (boot, a cancel      *)
(* callback, an op callback) or the backend.                               *)
(***************************************************************************)
EXTENDS Integers, Sequences

CONSTANTS MaxId,     \* bound on the ids next_op_id hands out
          PanicIn    \* the user code that may panic, by the value of `at`

UserCode == {"boot", "cancel_cb", "op_cb"}

ASSUME MaxIdAssumption   == MaxId \in Nat
ASSUME PanicInAssumption == PanicIn \subseteq UserCode

VARIABLES
  io_slab,           \* sequence of op slots; slot number = position
  free_slots,        \* the intrusive free-op stack, its head last
  cancel_slab,       \* sequence of cancel slots
  free_cancels,      \* the intrusive free-cancel stack, its head last
  inflight_ops,
  inflight_cancels,
  next_id,           \* NEXT_OP_ID, shared by ops and cancels
  at,                \* where control is
  cur,               \* the op complete_op is working on, or NoOp
  \* History, read by no action:
  issued,            \* every Op handle register_op returned
  called,            \* ids of the ops whose callback was entered
  done_ran,          \* ids of the ops whose cancel callback was entered
  cancelled,         \* ids of the ops called with OpOutcome::Cancelled
  disposed,          \* ids whose local was moved to a callback or dropped
  twice              \* ids whose local was disposed of more than once

slabVars == <<io_slab, free_slots, inflight_ops>>
cslabVars == <<cancel_slab, free_cancels, inflight_cancels>>
history == <<issued, called, done_ran, cancelled, disposed, twice>>
vars == <<slabVars, cslabVars, next_id, at, cur, history>>

-----------------------------------------------------------------------------
(* Slots and free stacks.                                                  *)

\* IoSlot: id 0 is free; the CANCEL_PENDING bit is a field of its own.
IoSlot == [id : Nat, cancel_pending : BOOLEAN]
CancelSlot == [id : Nat, target : Nat, target_id : Nat]
Op == [slot : Nat, id : Nat]

FreeIoSlot == [id |-> 0, cancel_pending |-> FALSE]
NoOp == [slot |-> 0, id |-> 0]

IsFree(slot) == slot.id = 0

\* The slot alloc_op_slot/alloc_cancel_slot returns: the head of the free
\* stack, or a new slot at the end of the slab.
AllocIndex(slab, free) ==
  IF free = <<>> THEN Len(slab) + 1 ELSE free[Len(free)]

\* Mutant of AllocRest: the head is handed out and stays on the stack.
AllocRestKept(free) == free

\* The free stack once that slot has been popped.
AllocRest(free) ==
  IF free = <<>> THEN <<>> ELSE SubSeq(free, 1, Len(free) - 1)

\* The slab with slot i holding s, grown by one when i is new.
Put(slab, i, s) ==
  IF i = Len(slab) + 1 THEN Append(slab, s) ELSE [slab EXCEPT ![i] = s]

-----------------------------------------------------------------------------
(* Locals.  A local is named by the id of the op or cancel that owns it.   *)

\* The locals of `ids` leave the runtime: moved to a callback or dropped.
Dispose(ids) ==
  /\ twice' = twice \union (ids \intersect disposed)
  /\ disposed' = disposed \union ids

-----------------------------------------------------------------------------
Init ==
  /\ io_slab = <<>> /\ free_slots = <<>> /\ inflight_ops = 0
  /\ cancel_slab = <<>> /\ free_cancels = <<>> /\ inflight_cancels = 0
  /\ next_id = 1
  /\ at = "boot"
  /\ cur = NoOp
  /\ issued = {} /\ called = {} /\ done_ran = {} /\ cancelled = {}
  /\ disposed = {} /\ twice = {}

-----------------------------------------------------------------------------
(* What user code calls: register_op and cancel.                           *)

\* register_op whose backend.arm succeeds.
RegisterOp ==
  LET i == AllocIndex(io_slab, free_slots) IN
  /\ at \in UserCode
  /\ next_id <= MaxId
  /\ inflight_ops' = inflight_ops + 1
  /\ free_slots' = AllocRest(free_slots)
  /\ io_slab' = Put(io_slab, i, [id |-> next_id, cancel_pending |-> FALSE])
  /\ next_id' = next_id + 1
  /\ issued' = issued \union {[slot |-> i, id |-> next_id]}
  /\ UNCHANGED <<cslabVars, at, cur, called, done_ran, cancelled, disposed,
                 twice>>

\* Mutant of RegisterOpRefused: the slot is freed and its local forgotten.
RegisterOpRefusedLeaks ==
  LET i == AllocIndex(io_slab, free_slots) IN
  /\ at \in UserCode
  /\ next_id <= MaxId
  /\ free_slots' = Append(AllocRest(free_slots), i)
  /\ io_slab' = Put(io_slab, i, FreeIoSlot)
  /\ next_id' = next_id + 1
  /\ UNCHANGED <<inflight_ops, cslabVars, at, cur, history>>

\* register_op whose backend.arm fails: the slot just claimed goes back to
\* the free stack and the local is dropped.
RegisterOpRefused ==
  LET i == AllocIndex(io_slab, free_slots) IN
  /\ at \in UserCode
  /\ next_id <= MaxId
  /\ free_slots' = Append(AllocRest(free_slots), i)
  /\ io_slab' = Put(io_slab, i, FreeIoSlot)
  /\ next_id' = next_id + 1
  /\ Dispose({next_id})
  /\ UNCHANGED <<inflight_ops, cslabVars, at, cur, issued, called, done_ran,
                 cancelled>>

\* Mutant of Cancellable: any live op in the handle's slot will do.
CancellableById(op) ==
  /\ op.slot \in DOMAIN io_slab
  /\ ~IsFree(io_slab[op.slot])
  /\ ~io_slab[op.slot].cancel_pending

\* The test cancel makes on the handle before it does anything.
Cancellable(op) ==
  /\ op.slot \in DOMAIN io_slab
  /\ io_slab[op.slot].id = op.id
  /\ ~io_slab[op.slot].cancel_pending

\* cancel of a live op whose request the backend accepts.
Cancel(op) ==
  LET c == AllocIndex(cancel_slab, free_cancels) IN
  /\ at \in UserCode
  /\ next_id <= MaxId
  /\ Cancellable(op)
  /\ inflight_cancels' = inflight_cancels + 1
  /\ free_cancels' = AllocRest(free_cancels)
  /\ cancel_slab' = Put(cancel_slab, c, [id |-> next_id, target |-> op.slot,
                                         target_id |-> op.id])
  /\ next_id' = next_id + 1
  /\ io_slab' = [io_slab EXCEPT ![op.slot].cancel_pending = TRUE]
  /\ UNCHANGED <<free_slots, inflight_ops, at, cur, history>>

\* cancel of a live op whose request the backend refuses: the cancel slot
\* and its local go, and the op keeps no mark.
CancelRefused(op) ==
  LET c == AllocIndex(cancel_slab, free_cancels) IN
  /\ at \in UserCode
  /\ next_id <= MaxId
  /\ Cancellable(op)
  /\ free_cancels' = Append(AllocRest(free_cancels), c)
  /\ cancel_slab' = Put(cancel_slab, c, [id |-> 0, target |-> op.slot,
                                         target_id |-> op.id])
  /\ next_id' = next_id + 1
  /\ Dispose({next_id})
  /\ UNCHANGED <<inflight_cancels, slabVars, at, cur, issued, called,
                 done_ran, cancelled>>

-----------------------------------------------------------------------------
(* Completions.                                                            *)

\* find_cancel_of: the live cancel slots naming slot i and its present id.
CancelsOf(i) ==
  {c \in DOMAIN cancel_slab :
     /\ ~IsFree(cancel_slab[c])
     /\ cancel_slab[c].target = i
     /\ cancel_slab[c].target_id = io_slab[i].id}

FirstCancelOf(i) ==
  CHOOSE c \in CancelsOf(i) : \A d \in CancelsOf(i) : c <= d

\* Mutants of FreeCancel: the slot goes on the stack still live; the
\* cancellation is still counted.
FreeCancelStillLive(c) ==
  /\ inflight_cancels' = inflight_cancels - 1
  /\ free_cancels' = Append(free_cancels, c)
  /\ UNCHANGED cancel_slab

FreeCancelUncounted(c) ==
  /\ cancel_slab' = [cancel_slab EXCEPT ![c].id = 0]
  /\ free_cancels' = Append(free_cancels, c)
  /\ UNCHANGED inflight_cancels

\* free_cancel_slot
FreeCancel(c) ==
  /\ inflight_cancels' = inflight_cancels - 1
  /\ cancel_slab' = [cancel_slab EXCEPT ![c].id = 0]
  /\ free_cancels' = Append(free_cancels, c)

\* Mutant of FreeAndCall: the slot keeps its id.
FreeAndCallStillLive(i) ==
  /\ inflight_ops' = inflight_ops - 1
  /\ io_slab' = [io_slab EXCEPT ![i].cancel_pending = FALSE]
  /\ free_slots' = Append(free_slots, i)
  /\ at' = "op_cb"
  /\ cur' = NoOp
  /\ called' = called \union {io_slab[i].id}

\* The tail of complete_op: the mark is cleared, the slot freed, and the op's
\* local moved into its callback.
FreeAndCall(i) ==
  /\ inflight_ops' = inflight_ops - 1
  /\ io_slab' = [io_slab EXCEPT ![i] = FreeIoSlot]
  /\ free_slots' = Append(free_slots, i)
  /\ at' = "op_cb"
  /\ cur' = NoOp
  /\ called' = called \union {io_slab[i].id}

\* A live op's slot the backend may name.
LiveSlot(i) == i \in DOMAIN io_slab /\ ~IsFree(io_slab[i])

\* Mutant of CompleteOp: the backend's flag alone makes the op cancelled.
CompleteOpTrustsFlag(i, cancelFlag) ==
  /\ at = "drain"
  /\ LiveSlot(i)
  /\ io_slab[i].cancel_pending => CancelsOf(i) = {}
  /\ FreeAndCall(i)
  /\ cancelled' = IF cancelFlag THEN cancelled \union {io_slab[i].id}
                                ELSE cancelled
  /\ Dispose({io_slab[i].id})
  /\ UNCHANGED <<cslabVars, next_id, issued, done_ran>>

\* complete_op for an op no cancellation of which is pending, or a pending
\* one whose cancel slot is not found: only the op's callback runs.
CompleteOp(i, cancelFlag) ==
  LET won == cancelFlag /\ io_slab[i].cancel_pending IN
  /\ at = "drain"
  /\ LiveSlot(i)
  /\ io_slab[i].cancel_pending => CancelsOf(i) = {}
  /\ FreeAndCall(i)
  /\ cancelled' = IF won THEN cancelled \union {io_slab[i].id} ELSE cancelled
  /\ Dispose({io_slab[i].id})
  /\ UNCHANGED <<cslabVars, next_id, issued, done_ran>>

\* complete_op for an op that finished although a cancellation was pending:
\* drop_cancel_of frees the cancel slot and drops its local first.
CompleteOpCancelLost(i) ==
  LET c == FirstCancelOf(i) IN
  /\ at = "drain"
  /\ LiveSlot(i)
  /\ io_slab[i].cancel_pending
  /\ CancelsOf(i) # {}
  /\ FreeCancel(c)
  /\ FreeAndCall(i)
  /\ Dispose({io_slab[i].id, cancel_slab[c].id})
  /\ UNCHANGED <<next_id, issued, done_ran, cancelled>>

\* Mutant of CompleteOpCancelWon: the winning cancel's callback is dropped.
CompleteOpCancelWonDropped(i) ==
  LET c == FirstCancelOf(i) IN
  /\ at = "drain"
  /\ LiveSlot(i)
  /\ io_slab[i].cancel_pending
  /\ CancelsOf(i) # {}
  /\ FreeCancel(c)
  /\ FreeAndCall(i)
  /\ cancelled' = cancelled \union {io_slab[i].id}
  /\ Dispose({io_slab[i].id, cancel_slab[c].id})
  /\ UNCHANGED <<next_id, issued, done_ran>>

\* complete_op for an op its cancellation stopped, up to the cancel callback:
\* the op's local is out of the slot, the slot still live and marked, and the
\* cancel slot already free when `done` runs.
CompleteOpCancelWon(i) ==
  LET c == FirstCancelOf(i) IN
  /\ at = "drain"
  /\ LiveSlot(i)
  /\ io_slab[i].cancel_pending
  /\ CancelsOf(i) # {}
  /\ FreeCancel(c)
  /\ Dispose({cancel_slab[c].id})
  /\ at' = "cancel_cb"
  /\ cur' = [slot |-> i, id |-> io_slab[i].id]
  /\ done_ran' = done_ran \union {io_slab[i].id}
  /\ UNCHANGED <<slabVars, next_id, issued, called, cancelled>>

\* Mutant of CancelCbReturn: the op is called as if it had finished.
CancelCbReturnCompleted ==
  /\ at = "cancel_cb"
  /\ FreeAndCall(cur.slot)
  /\ Dispose({cur.id})
  /\ UNCHANGED <<cslabVars, next_id, issued, done_ran, cancelled>>

\* The cancel callback returns and complete_op goes on to the op's callback.
CancelCbReturn ==
  /\ at = "cancel_cb"
  /\ FreeAndCall(cur.slot)
  /\ cancelled' = cancelled \union {io_slab[cur.slot].id}
  /\ Dispose({cur.id})
  /\ UNCHANGED <<cslabVars, next_id, issued, done_ran>>

\* complete_cancel that leaves everything alone: the slot is already free, or
\* the cancellation took effect and the op's completion will settle it.
CompleteCancelIgnored(c, result) ==
  /\ at = "drain"
  /\ c \in DOMAIN cancel_slab
  /\ IsFree(cancel_slab[c]) \/ result = 0
  /\ UNCHANGED vars

\* Mutant of CompleteCancelFailed: the op keeps its mark.
CompleteCancelFailedMarked(c) ==
  /\ at = "drain"
  /\ c \in DOMAIN cancel_slab
  /\ ~IsFree(cancel_slab[c])
  /\ FreeCancel(c)
  /\ Dispose({cancel_slab[c].id})
  /\ UNCHANGED <<slabVars, next_id, at, cur, issued, called, done_ran,
                 cancelled>>

\* complete_cancel of a cancellation that did not take effect.
CompleteCancelFailed(c) ==
  LET t == cancel_slab[c].target IN
  /\ at = "drain"
  /\ c \in DOMAIN cancel_slab
  /\ ~IsFree(cancel_slab[c])
  /\ FreeCancel(c)
  /\ Dispose({cancel_slab[c].id})
  /\ io_slab' = IF /\ t \in DOMAIN io_slab
                   /\ io_slab[t].cancel_pending
                   /\ io_slab[t].id = cancel_slab[c].target_id
                THEN [io_slab EXCEPT ![t].cancel_pending = FALSE]
                ELSE io_slab
  /\ UNCHANGED <<free_slots, inflight_ops, next_id, at, cur, issued, called,
                 done_ran, cancelled>>

-----------------------------------------------------------------------------
(* The drive loop and teardown.                                            *)

UserReturn ==
  /\ at \in {"boot", "op_cb"}
  /\ at' = "drain"
  /\ UNCHANGED <<slabVars, cslabVars, next_id, cur, history>>

\* Mutant of HasInflight: conjunction for disjunction.
HasInflightBoth == inflight_ops # 0 /\ inflight_cancels # 0

HasInflight == inflight_ops # 0 \/ inflight_cancels # 0

\* drain_cqes found no completion: drive waits, or ends when nothing is in
\* flight.
DrainEmpty ==
  /\ at = "drain"
  /\ at' = IF HasInflight THEN "wait" ELSE "ended"
  /\ UNCHANGED <<slabVars, cslabVars, next_id, cur, history>>

WaitOk ==
  /\ at = "wait"
  /\ at' = "drain"
  /\ UNCHANGED <<slabVars, cslabVars, next_id, cur, history>>

\* A backend error ends the drive loop with ops still in flight.
WaitErr ==
  /\ at = "wait"
  /\ at' = "failed"
  /\ UNCHANGED <<slabVars, cslabVars, next_id, cur, history>>

LiveIds ==
  ( {io_slab[i].id : i \in DOMAIN io_slab} \union
    {cancel_slab[c].id : c \in DOMAIN cancel_slab} ) \ {0}

\* Drop: the locals of every slot still live are dropped.  After it the
\* runtime is gone.
Drop ==
  /\ at \in {"ended", "failed", "unwinding"}
  /\ at' = "dropped"
  /\ Dispose(LiveIds)
  /\ UNCHANGED <<slabVars, cslabVars, next_id, cur, issued, called, done_ran,
                 cancelled>>

\* User code panics.  Unwinding through complete_op drops the local it had
\* taken out of the slot; the runtime's Drop follows.
Panic ==
  /\ at \in PanicIn
  /\ at' = "unwinding"
  /\ Dispose(IF at = "cancel_cb" THEN {cur.id} ELSE {})
  /\ UNCHANGED <<slabVars, cslabVars, next_id, cur, issued, called, done_ran,
                 cancelled>>

\* take_completion refuses a completion that names no slot, or an op
\* completion that names a free one, with a panic.
RejectCompletion ==
  /\ at = "drain"
  /\ at' = "unwinding"
  /\ UNCHANGED <<slabVars, cslabVars, next_id, cur, history>>

Dropped ==
  /\ at = "dropped"
  /\ UNCHANGED vars

-----------------------------------------------------------------------------
User ==
  \/ RegisterOp
  \/ RegisterOpRefused
  \/ \E op \in issued : Cancel(op) \/ CancelRefused(op)
  \/ CancelCbReturn
  \/ UserReturn
  \/ Panic

\* Any completion an arbitrary backend can report.
TakeCompletion ==
  \/ \E i \in DOMAIN io_slab : \/ \E f \in BOOLEAN : CompleteOp(i, f)
                               \/ CompleteOpCancelLost(i)
                               \/ CompleteOpCancelWon(i)
  \/ \E c \in DOMAIN cancel_slab : \/ \E r \in {0, 1} : CompleteCancelIgnored(c, r)
                                   \/ CompleteCancelFailed(c)
  \/ RejectCompletion

Drive == DrainEmpty \/ WaitOk \/ WaitErr \/ Drop \/ Dropped

Next == User \/ TakeCompletion \/ Drive

Spec == Init /\ [][Next]_vars

-----------------------------------------------------------------------------
(* Properties.                                                             *)

\* The slots and the unsigned counters hold values of their types (neither
\* counter underflows), and control is at a point where the code passes it on.
TypeOK ==
  /\ io_slab \in Seq(IoSlot) /\ free_slots \in Seq(Nat)
  /\ cancel_slab \in Seq(CancelSlot) /\ free_cancels \in Seq(Nat)
  /\ inflight_ops \in Nat /\ inflight_cancels \in Nat
  /\ next_id \in Nat \ {0}
  /\ at \in UserCode \union {"drain", "wait", "ended", "failed", "unwinding",
                             "dropped"}
  /\ cur \in Op
  /\ issued \subseteq Op
  /\ \A s \in {called, done_ran, cancelled, disposed, twice} : s \subseteq Nat

\* The free stack of a slab: no slot twice, and exactly the free slots.
FreeStackOK(slab, free) ==
  /\ \A k \in 1..Len(free) : free[k] \in 1..Len(slab) /\ IsFree(slab[free[k]])
  /\ \A k, l \in 1..Len(free) : free[k] = free[l] => k = l
  /\ \A i \in 1..Len(slab) :
       IsFree(slab[i]) => \E k \in 1..Len(free) : free[k] = i

\* alloc_op_slot and alloc_cancel_slot never hand out a slot that is in use,
\* and no free slot is forgotten: both stacks hold exactly the free slots of
\* their slab, each once.  The in-flight counters count the rest, which is
\* what lets drive stop.
SlabInv ==
  /\ FreeStackOK(io_slab, free_slots)
  /\ FreeStackOK(cancel_slab, free_cancels)
  /\ inflight_ops = Len(io_slab) - Len(free_slots)
  /\ inflight_cancels = Len(cancel_slab) - Len(free_cancels)

\* The CANCEL_PENDING marks and the live cancel slots are in one-to-one
\* correspondence: a marked op has exactly one live cancel slot, found by
\* find_cancel_of, and a live cancel slot names a marked op by slot and id.
\* Only the op whose cancel callback is running is marked with its cancel
\* slot already free.
PendingInv ==
  /\ \A c \in DOMAIN cancel_slab :
       ~IsFree(cancel_slab[c]) =>
         LET t == cancel_slab[c].target IN
         /\ t \in DOMAIN io_slab
         /\ io_slab[t].id = cancel_slab[c].target_id
         /\ io_slab[t].cancel_pending
         /\ t # cur.slot
  /\ \A c, d \in DOMAIN cancel_slab :
       /\ ~IsFree(cancel_slab[c])
       /\ ~IsFree(cancel_slab[d])
       /\ cancel_slab[c].target = cancel_slab[d].target
       => c = d
  /\ \A i \in DOMAIN io_slab :
       io_slab[i].cancel_pending /\ i # cur.slot => CancelsOf(i) # {}

\* No op is lost and none is called twice: the op behind a handle register_op
\* returned is live in the handle's slot or has had its callback entered, and
\* never both.
OpConserved ==
  \A op \in issued : (op.id \in called) # (io_slab[op.slot].id = op.id)

\* An op called with Cancelled is one whose cancel callback ran before, and
\* an op whose cancel callback ran is not called with anything else.
CancelledIffDone ==
  /\ cancelled \subseteq done_ran
  /\ done_ran \intersect called \subseteq cancelled

\* Every local leaves the runtime at most once: no double drop, no local both
\* handed to a callback and dropped by Drop or by an error path.  The one
\* exception is the op whose cancel callback panics: complete_op has copied its
\* local out of a slot that is still live, and Drop finds it there again.
LocalOnce == twice \subseteq {cur.id}

\* Nothing leaks either: once the runtime is dropped every id it ever gave
\* out has had its local disposed of.
NoLeak == at = "dropped" => disposed = 1..(next_id - 1)

\* drive stops by itself only when every slot of both slabs is free.
QuiescentEnd ==
  at = "ended" =>
    /\ \A i \in DOMAIN io_slab : IsFree(io_slab[i])
    /\ \A c \in DOMAIN cancel_slab : IsFree(cancel_slab[c])

-----------------------------------------------------------------------------
\* The runtime implements OpContract, its live ops being the ids in the slab.
Contract == INSTANCE OpContract WITH
  Ids <- 1..MaxId,
  live <- {io_slab[i].id : i \in DOMAIN io_slab} \ {0}

\* Whatever the backend reports, callbacks run in the order and as often as
\* register_op and cancel document: see OpContract.
ImplementsContract == Contract!Spec
=============================================================================
