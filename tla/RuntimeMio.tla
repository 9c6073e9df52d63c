----------------------------- MODULE RuntimeMio -----------------------------
(***************************************************************************)
(* The runtime over its readiness backend (libs/coio-mio/src/mio.rs).      *)
(*                                                                         *)
(* An armed op waits in the per-slot table until the poller reports its    *)
(* descriptor; the backend then issues the syscall itself.  Cancelling     *)
(* decides the op at once, through the ready queue.                        *)
(*                                                                         *)
(* The poller is mio's on Linux, epoll with EPOLLET: a descriptor is       *)
(* reported once for each time it becomes ready.  The backend is written   *)
(* for a level-triggered one, which would report it in every wait.         *)
(***************************************************************************)
EXTENDS Runtime

VARIABLES pending,     \* Mio::pending: the slots whose entry is Some
          registered,  \* the slots whose descriptor the poller watches
          edges,       \* those of them the next wait reports
          fired,       \* those whose descriptor has become ready
          event,       \* the first of Mio::events, or NoEvent
          ready,       \* Mio::ready
          removed      \* history: ids of the ops a cancel removed

watching == <<registered, edges, fired>>
mioVars == <<pending, watching, event, ready, removed>>
mioAllVars == <<vars, mioVars>>

NoEvent == 0

\* Only cancel decides an op ahead of its event, so `cancelled` is set in
\* every op completion of the ready queue.
OpCompletion(slot) == [kind |-> "op", slot |-> slot]
CancelDone(c) == [kind |-> "cancel", slot |-> c]

MioInit ==
  /\ Init
  /\ pending = {} /\ registered = {} /\ edges = {} /\ fired = {}
  /\ event = NoEvent /\ ready = <<>>
  /\ removed = {}

-----------------------------------------------------------------------------
\* Registration::new and detach.  A descriptor that is ready already becomes
\* so at once for the poller.
Watch(i) ==
  /\ registered' = registered \union {i}
  /\ edges' = edges \ {i} /\ fired' = fired \ {i}

Unwatch(i) ==
  /\ registered' = registered \ {i}
  /\ edges' = edges \ {i} /\ fired' = fired \ {i}

\* A watched descriptor becomes ready, for the first time or once more.
BecomesReady(i) ==
  /\ at # "dropped"
  /\ i \in registered \ edges
  /\ edges' = edges \union {i} /\ fired' = fired \union {i}
  /\ UNCHANGED <<vars, pending, registered, event, ready, removed>>

\* arm: the poller may refuse the descriptor.
MioArm ==
  \/ /\ RegisterOp
     /\ LET i == AllocIndex(io_slab, free_slots) IN
        /\ pending' = pending \union {i}
        /\ Watch(i)
     /\ UNCHANGED <<event, ready, removed>>
  \/ RegisterOpRefused /\ UNCHANGED mioVars

\* cancel: take_pending, then the cancel's completion and the op's.
MioCancel(op) ==
  \/ /\ op.slot \in pending
     /\ Cancel(op)
     /\ pending' = pending \ {op.slot}
     /\ Unwatch(op.slot)
     /\ ready' = ready \o <<CancelDone(AllocIndex(cancel_slab, free_cancels)),
                            OpCompletion(op.slot)>>
     /\ removed' = removed \union {op.id}
     /\ UNCHANGED event
  \/ op.slot \notin pending /\ CancelRefused(op) /\ UNCHANGED mioVars

\* next_completion with a decided completion, and its dispatch.  A completion
\* complete_op would treat in another way, or take_completion reject, finds no
\* disjunct here and is a deadlock to TLC: there is none.
TakeReady ==
  /\ at = "drain"
  /\ ready # <<>>
  /\ ready' = Tail(ready)
  /\ LET e == Head(ready) IN
     \/ e.kind = "op" /\ CompleteOpCancelWon(e.slot)
     \/ e.kind = "cancel" /\ CompleteCancelIgnored(e.slot, 0)
  /\ UNCHANGED <<pending, watching, event, removed>>

\* Mutant of TakeEvent: the entry outlives its op's completion.
TakeEventKept ==
  /\ at = "drain"
  /\ ready = <<>>
  /\ event \in pending
  /\ CompleteOp(event, FALSE)
  /\ UNCHANGED mioVars

\* next_completion with an event for an armed op whose syscall goes through.
\* The first event stays first: nothing removes it before the next wait.
TakeEvent ==
  /\ at = "drain"
  /\ ready = <<>>
  /\ event \in pending
  /\ pending' = pending \ {event}
  /\ Unwatch(event)
  /\ CompleteOp(event, FALSE)
  /\ UNCHANGED <<event, ready, removed>>

\* The syscall reports EAGAIN: take_pending has taken the descriptor off the
\* poller, the entry is put back, and None ends the drain pass.
TakeEventBlocked ==
  /\ ready = <<>>
  /\ event \in pending
  /\ Unwatch(event)
  /\ DrainEmpty
  /\ UNCHANGED <<pending, event, ready, removed>>

\* No event, or one for a slot no op is armed in: None either way.
MioDrainEmpty ==
  /\ ready = <<>>
  /\ event \notin pending
  /\ DrainEmpty
  /\ UNCHANGED mioVars

\* wait clears the events and polls until a descriptor is reported; EINTR is
\* retried.  All that became ready are reported, in some order: only the first
\* is ever looked at.
MioWaitOk ==
  /\ WaitOk
  /\ event' \in edges
  /\ edges' = {}
  /\ UNCHANGED <<pending, registered, fired, ready, removed>>

MioWaitErr == WaitErr /\ event' = NoEvent /\ UNCHANGED <<pending, watching, ready, removed>>

\* Drop begins with begin_teardown.
MioDrop ==
  /\ Drop
  /\ pending' = {} /\ ready' = <<>>
  /\ registered' = {} /\ edges' = {} /\ fired' = {}
  /\ UNCHANGED <<event, removed>>

MioReturn == (CancelCbReturn \/ UserReturn) /\ UNCHANGED mioVars

MioPanic == Panic /\ UNCHANGED mioVars

MioNext ==
  \/ MioArm
  \/ \E op \in issued : MioCancel(op)
  \/ MioReturn
  \/ MioPanic
  \/ TakeReady
  \/ TakeEvent
  \/ TakeEventBlocked
  \/ MioDrainEmpty
  \/ MioWaitOk
  \/ MioWaitErr
  \/ \E i \in registered : BecomesReady(i)
  \/ MioDrop
  \/ Dropped /\ UNCHANGED mioVars

\* The drive loop goes on, callbacks return, and every descriptor that is
\* watched becomes ready once, sooner or later.
MioFairness ==
  /\ WF_mioAllVars(MioReturn)
  /\ WF_mioAllVars(TakeReady)
  /\ WF_mioAllVars(TakeEvent)
  /\ WF_mioAllVars(MioDrainEmpty)
  /\ WF_mioAllVars(MioWaitOk)
  /\ WF_mioAllVars(MioDrop)
  /\ \A i \in 1..MaxId : WF_mioAllVars(i \notin fired /\ BecomesReady(i))

MioSpec == MioInit /\ [][MioNext]_mioAllVars

FairMioSpec == MioSpec /\ MioFairness

-----------------------------------------------------------------------------
(* Properties.                                                             *)

\* How many completions of slot i's op have been decided.
Decided(i) ==
  {k \in DOMAIN ready : ready[k].kind = "op" /\ ready[k].slot = i}

\* Every op in flight is held by the backend exactly once, in the table or in
\* the ready queue, and a free slot in neither: so nothing is completed twice
\* and a stale event finds no entry.  The op whose cancel callback is running
\* has had its completion already.
MioHoldsEveryOp ==
  at # "dropped" =>
    \A i \in DOMAIN io_slab :
      IF IsFree(io_slab[i]) \/ i = cur.slot
      THEN i \notin pending /\ Decided(i) = {}
      ELSE IF i \in pending THEN Decided(i) = {}
      ELSE \E k \in Decided(i) : Decided(i) = {k}

\* Cancels the backend accepts always win here, and the winner's callback
\* runs before the op's: what the ring cannot promise (see RuntimeUring).
MioCancelRunsDone == removed \intersect called \subseteq done_ran

\* An armed op whose syscall reported EAGAIN: its entry is back in the table
\* and its descriptor is not back with the poller.
Stranded == pending \ registered

\* drive comes to an end once every descriptor became ready, since the entries
\* hold what "an event will finish" (mio.rs:39).  The code breaks it: of two
\* events of one wait the second is dropped, and not reported again.  An op
\* that EAGAIN has stranded waits for ever too, and is left out here.
MioDriveStops == <>(at = "dropped" \/ Stranded # {})
=============================================================================
