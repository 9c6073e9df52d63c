---------------------------- MODULE RuntimeUring ----------------------------
(***************************************************************************)
(* The runtime over its io_uring backend (libs/coio-uring/src/uring.rs).   *)
(*                                                                         *)
(* arm and cancel push to the submission queue, which the kernel reads, in *)
(* order, when the code submits.  A completion carries only the user_data  *)
(* of its request: the slot, the class and a cancel tag, never the op's    *)
(* id, and ASYNC_CANCEL names its target the same way.  The model gives    *)
(* all ops one class, the case in which user_data distinguishes least.     *)
(* The fields `id` and `meant` of requests are history: the kernel never   *)
(* looks at them.                                                          *)
(***************************************************************************)
EXTENDS Runtime

CONSTANT RingEntries   \* UringConfig::ring_entries
ASSUME RingEntriesAssumption == RingEntries \in Nat \ {0}

VARIABLES sq,    \* submission queue
          kern,  \* op requests the kernel is working on
          cq,    \* completion queue
          submitting,  \* the code is inside submit or submit_and_wait
          won    \* history: ids of the ops ASYNC_CANCEL stopped

ringVars == <<sq, kern, cq, submitting, won>>
allVars == <<vars, ringVars>>

OpEntry(slot, id) == [kind |-> "op", slot |-> slot, id |-> id]
CancelEntry(c, id, op) == [kind |-> "cancel", slot |-> c, id |-> id,
                           target |-> op.slot, meant |-> op.id]

\* Completions as next_completion decodes them.
OpCqe(r, stopped) == [kind |-> "op", slot |-> r.slot, id |-> r.id,
                      cancelled |-> stopped]
CancelCqe(r, res) == [kind |-> "cancel", slot |-> r.slot, result |-> res]

SqFull == Len(sq) = RingEntries

UringInit ==
  /\ Init
  /\ sq = <<>> /\ kern = {} /\ cq = <<>>
  /\ submitting = FALSE
  /\ won = {}

-----------------------------------------------------------------------------
(* arm and cancel: EAGAIN when the submission queue is full.               *)

\* Mutant of UringArm: a full submission queue goes unreported.
UringArmUnreported ==
  /\ ~submitting
  /\ RegisterOp
  /\ sq' = IF SqFull THEN sq
           ELSE Append(sq, OpEntry(AllocIndex(io_slab, free_slots), next_id))
  /\ UNCHANGED <<kern, cq, submitting, won>>

UringArm ==
  /\ ~submitting
  /\ \/ /\ ~SqFull
        /\ RegisterOp
        /\ sq' = Append(sq, OpEntry(AllocIndex(io_slab, free_slots), next_id))
        /\ UNCHANGED <<kern, cq, submitting, won>>
     \/ /\ SqFull
        /\ RegisterOpRefused
        /\ UNCHANGED ringVars

UringCancel(op) ==
  /\ ~submitting
  /\ \/ /\ ~SqFull
        /\ Cancel(op)
        /\ sq' = Append(sq, CancelEntry(AllocIndex(cancel_slab, free_cancels),
                                        next_id, op))
        /\ UNCHANGED <<kern, cq, submitting, won>>
     \/ /\ SqFull
        /\ CancelRefused(op)
        /\ UNCHANGED ringVars

\* A callback calls UringExt::submit.
UringSubmit ==
  /\ at \in UserCode
  /\ ~submitting /\ sq # <<>>
  /\ submitting' = TRUE
  /\ UNCHANGED <<vars, sq, kern, cq, won>>

-----------------------------------------------------------------------------
(* The kernel.                                                             *)

\* The requests an ASYNC_CANCEL finds: those with the target's user_data.
Victims(r) == {v \in kern : v.slot = r.target}

\* The kernel consumes the oldest submission, until none is left.  A cancel
\* finds its target gone (ENOENT), too far advanced (EALREADY), or stops it,
\* and then the two completions land in either order.
KernelSubmit ==
  /\ submitting
  /\ sq' = Tail(sq)
  /\ submitting' = (Tail(sq) # <<>>)
  /\ LET r == Head(sq) IN
     \/ /\ r.kind = "op"
        /\ kern' = kern \union {r}
        /\ UNCHANGED <<cq, won>>
     \/ /\ r.kind = "cancel"
        /\ cq' = Append(cq, CancelCqe(r, 1))
        /\ UNCHANGED <<kern, won>>
     \/ /\ r.kind = "cancel"
        /\ \E v \in Victims(r) :
             /\ kern' = kern \ {v}
             /\ won' = won \union {v.id}
             /\ \/ cq' = cq \o <<CancelCqe(r, 0), OpCqe(v, TRUE)>>
                \/ cq' = cq \o <<OpCqe(v, TRUE), CancelCqe(r, 0)>>
  /\ UNCHANGED vars

\* A request the kernel is working on completes.
KernelFinish(v) ==
  /\ at # "dropped"
  /\ v \in kern
  /\ kern' = kern \ {v}
  /\ cq' = Append(cq, OpCqe(v, FALSE))
  /\ UNCHANGED <<vars, sq, submitting, won>>

-----------------------------------------------------------------------------
(* The drive loop over the ring.                                           *)

\* Mutant of UringTake: a completion of an op with a pending cancellation is
\* taken for a cancelled one.
UringTakePendingWins ==
  /\ at = "drain"
  /\ cq # <<>>
  /\ cq' = Tail(cq)
  /\ LET e == Head(cq) IN
     \/ /\ e.kind = "op"
        /\ CompleteOp(e.slot, e.cancelled) \/ CompleteOpCancelWon(e.slot)
     \/ /\ e.kind = "cancel"
        /\ \/ CompleteCancelIgnored(e.slot, e.result)
           \/ e.result # 0 /\ CompleteCancelFailed(e.slot)
  /\ UNCHANGED <<sq, kern, submitting, won>>

\* next_completion and take_completion.  There is no disjunct for the panic
\* on an op completion that names a free slot: OneRequestPerOp rules it out,
\* and a completion none of the disjuncts accepts is a deadlock to TLC.
UringTake ==
  /\ at = "drain"
  /\ cq # <<>>
  /\ cq' = Tail(cq)
  /\ LET e == Head(cq) IN
     \/ /\ e.kind = "op"
        /\ \/ CompleteOp(e.slot, e.cancelled)
           \/ ~e.cancelled /\ CompleteOpCancelLost(e.slot)
           \/ e.cancelled /\ CompleteOpCancelWon(e.slot)
     \/ /\ e.kind = "cancel"
        /\ \/ CompleteCancelIgnored(e.slot, e.result)
           \/ e.result # 0 /\ CompleteCancelFailed(e.slot)
  /\ UNCHANGED <<sq, kern, submitting, won>>

\* wait is submit_and_wait(1): the kernel first takes what is queued.
UringDrainEmpty ==
  /\ cq = <<>>
  /\ DrainEmpty
  /\ submitting' = (HasInflight /\ sq # <<>>)
  /\ UNCHANGED <<sq, kern, cq, won>>

\* submit_and_wait returns once a completion is there; with EBUSY it does so
\* before everything was submitted, and wait reports no error.
UringWaitOk ==
  /\ cq # <<>>
  /\ WaitOk
  /\ submitting' = FALSE
  /\ UNCHANGED <<sq, kern, cq, won>>

UringWaitErr ==
  /\ WaitErr
  /\ submitting' = FALSE
  /\ UNCHANGED <<sq, kern, cq, won>>

\* Drop begins with begin_teardown, which closes the ring.
UringDrop ==
  /\ Drop
  /\ sq' = <<>> /\ kern' = {} /\ cq' = <<>>
  /\ UNCHANGED <<submitting, won>>

UringReturn ==
  /\ ~submitting
  /\ CancelCbReturn \/ UserReturn
  /\ UNCHANGED ringVars

UringPanic == ~submitting /\ Panic /\ UNCHANGED ringVars

UringNext ==
  \/ UringArm
  \/ \E op \in issued : UringCancel(op)
  \/ UringSubmit
  \/ UringReturn
  \/ UringPanic
  \/ KernelSubmit
  \/ \E v \in kern : KernelFinish(v)
  \/ UringTake
  \/ UringDrainEmpty
  \/ UringWaitOk
  \/ UringWaitErr
  \/ UringDrop
  \/ Dropped /\ UNCHANGED ringVars

\* The drive loop never stops on its own account, callbacks return, the
\* kernel consumes what is submitted, and every armed request completes (the
\* contract of Backend).
UringFairness ==
  /\ WF_allVars(UringReturn)
  /\ WF_allVars(UringTake)
  /\ WF_allVars(UringDrainEmpty)
  /\ WF_allVars(UringWaitOk)
  /\ WF_allVars(UringDrop)
  /\ WF_allVars(KernelSubmit)
  /\ WF_allVars(\E v \in kern : KernelFinish(v))

UringSpec == UringInit /\ [][UringNext]_allVars

FairUringSpec == UringSpec /\ UringFairness

-----------------------------------------------------------------------------
(* Properties.                                                             *)

\* The op requests under way for slot i: in a queue or in the kernel.
RequestsFor(i) ==
  {r \in kern : r.slot = i}
  \union {sq[k] : k \in {k \in DOMAIN sq : sq[k].kind = "op" /\ sq[k].slot = i}}
  \union {cq[k] : k \in {k \in DOMAIN cq : cq[k].kind = "op" /\ cq[k].slot = i}}

\* Every live op has exactly one request or completion under way, with its
\* own id, and a free slot has none: so no completion is ever applied to a
\* later op in a recycled slot, and the assertion in take_completion that an
\* op completion names a live slot never fires.  The op whose cancel callback
\* is running has had its completion already.
OneRequestPerOp ==
  at # "dropped" =>
    \A i \in DOMAIN io_slab :
      {r.id : r \in RequestsFor(i)} =
        IF IsFree(io_slab[i]) \/ i = cur.slot THEN {} ELSE {io_slab[i].id}

\* An ASYNC_CANCEL stops the op it was submitted for and no later op that
\* was given the same slot, although user_data does not tell them apart:
\* while a cancel is queued, no other op with its target's user_data is.
CancelHitsItsTarget ==
  \A k \in DOMAIN sq :
    sq[k].kind = "cancel" =>
      /\ \A v \in Victims(sq[k]) : v.id = sq[k].meant
      /\ \A l \in 1..(k - 1) :
           sq[l].kind = "op" /\ sq[l].slot = sq[k].target
             => sq[l].id = sq[k].meant

\* Only an op the kernel stopped is ever reported as Cancelled.
CancelledWereStopped == cancelled \subseteq won

\* `done` runs whenever its cancel won: an op ASYNC_CANCEL stopped has had
\* its cancel callback run by the time its own callback runs.
WonCancelRunsDone == won \intersect called \subseteq done_ran

\* drive comes to an end once nothing is in flight: neither counter is left
\* raised by a lost or refused cancel.
DriveStops == <>(at = "dropped")
=============================================================================
