------------------------ MODULE RuntimeBackendProofs ------------------------
(***************************************************************************)
(* Proofs about the runtime over its two backends.                         *)
(*                                                                         *)
(* io_uring, for every size of the submission queue: a queue is the set of *)
(* the handles of the ops it has an entry for; the live ops are those in   *)
(* the submission queue, in the kernel and in the completion queue, each   *)
(* in one of the three.                                                    *)
(*                                                                         *)
(* Readiness: the slots in use, but for the one complete_op works on, are  *)
(* split between the table of armed ops and the queue of decided           *)
(* completions.                                                            *)
(***************************************************************************)
EXTENDS RuntimeUring, RuntimeMio, RuntimeProofs

-----------------------------------------------------------------------------
(* io_uring: requests and completions as handles of ops.                   *)

OpEntries == [kind : {"op"}, slot : Nat, id : Nat]
CancelEntries ==
  [kind : {"cancel"}, slot : Nat, id : Nat, target : Nat, meant : Nat]
OpCqes == [kind : {"op"}, slot : Nat, id : Nat, cancelled : BOOLEAN]
CancelCqes == [kind : {"cancel"}, slot : Nat, result : {0, 1}]

HandleOf(e) == [slot |-> e.slot, id |-> e.id]

\* Where a queue has the entries of ops, and the handles of those ops.
OpPos(q) == {k \in 1..Len(q) : q[k].kind = "op"}
Handles(q) == {HandleOf(q[k]) : k \in OpPos(q)}

\* No op has two entries in a queue.
Distinct(q) == \A k, l \in OpPos(q) : HandleOf(q[k]) = HandleOf(q[l]) => k = l

KernHandles == {HandleOf(v) : v \in kern}

-----------------------------------------------------------------------------
(* io_uring: the inductive invariant.                                      *)

RingTypes ==
  /\ sq \in Seq(OpEntries \union CancelEntries)
  /\ kern \subseteq OpEntries
  /\ cq \in Seq(OpCqes \union CancelCqes)

\* Every live op but the one complete_op works on is in exactly one place.
PlaceInv ==
  /\ at # "dropped" =>
       Handles(sq) \union KernHandles \union Handles(cq) = Ops \ {cur}
  /\ Handles(sq) \intersect KernHandles = {}
  /\ Handles(sq) \intersect Handles(cq) = {}
  /\ KernHandles \intersect Handles(cq) = {}
  /\ Distinct(sq) /\ Distinct(cq)

\* The kernel is entered with something to submit, from user code or from
\* wait.
SubmitInv == submitting => sq # <<>> /\ at \in UserCode \union {"wait"}

\* The completions of a queue that say cancelled are of ops in `stopped`.
OnlyStopped(q, stopped) ==
  \A k \in OpPos(q) : q[k].cancelled => q[k].id \in stopped

\* A completion says cancelled, and a cancel callback runs, only for an op
\* the kernel stopped.
StopInv == done_ran \subseteq won /\ OnlyStopped(cq, won)

\* CancelHitsItsTarget at one position of the queue.
HitsTarget(q, K, k) ==
  /\ \A v \in K : v.slot = q[k].target => v.id = q[k].meant
  /\ \A l \in 1..(k - 1) : q[l].kind = "op" /\ q[l].slot = q[k].target
                             => q[l].id = q[k].meant

\* A panic unwinds with complete_op's op still in its slot.
UnwindInv == at = "unwinding" => cur = NoOp \/ cur \in Ops

RingInv ==
  RingTypes /\ PlaceInv /\ SubmitInv /\ StopInv /\ CancelHitsItsTarget

-----------------------------------------------------------------------------
(* io_uring: queues.                                                       *)

\* A push adds one position.
LEMMA PushFacts ==
  ASSUME NEW S, NEW q \in Seq(S), NEW e \in S, NEW q2, q2 = Append(q, e)
  PROVE  /\ q2 \in Seq(S) /\ Len(q) \in Nat /\ Len(q2) = Len(q) + 1
         /\ q2[Len(q) + 1] = e
         /\ \A k \in 1..Len(q) : q2[k] = q[k]
         /\ DOMAIN q2 = 1..(Len(q) + 1)
  OBVIOUS

\* Pushing an op's entry adds its handle.
LEMMA PushOp ==
  ASSUME NEW S, NEW q \in Seq(S), NEW e \in S, e.kind = "op",
         NEW q2, q2 = Append(q, e)
  PROVE  /\ Handles(q2) = Handles(q) \union {HandleOf(e)}
         /\ (Distinct(q) /\ HandleOf(e) \notin Handles(q)) => Distinct(q2)
  <1>1. /\ q2 \in Seq(S) /\ Len(q2) = Len(q) + 1 /\ q2[Len(q) + 1] = e
        /\ \A k \in 1..Len(q) : q2[k] = q[k]
        /\ Len(q) \in Nat
    BY PushFacts
  <1>2. OpPos(q2) = OpPos(q) \union {Len(q) + 1}
    BY <1>1 DEF OpPos
  <1>3. \A k \in OpPos(q) : q2[k] = q[k]
    BY <1>1 DEF OpPos
  <1>4. Handles(q2) = Handles(q) \union {HandleOf(e)}
    BY <1>1, <1>2, <1>3 DEF Handles
  <1>5. ASSUME Distinct(q), HandleOf(e) \notin Handles(q) PROVE Distinct(q2)
    <2>1. \A k \in OpPos(q) : HandleOf(q2[k]) # HandleOf(e)
      BY <1>3, <1>5 DEF Handles
    <2> QED
      BY <1>1, <1>2, <1>3, <1>5, <2>1 DEF Distinct
  <1> QED
    BY <1>4, <1>5

\* Pushing a cancel's entry adds no handle.
LEMMA PushCancel ==
  ASSUME NEW S, NEW q \in Seq(S), NEW e \in S, e.kind # "op",
         NEW q2, q2 = Append(q, e)
  PROVE  /\ Handles(q2) = Handles(q)
         /\ Distinct(q) => Distinct(q2)
  <1>1. /\ q2 \in Seq(S) /\ Len(q2) = Len(q) + 1 /\ q2[Len(q) + 1] = e
        /\ \A k \in 1..Len(q) : q2[k] = q[k]
        /\ Len(q) \in Nat
    BY PushFacts
  <1>2. OpPos(q2) = OpPos(q)
    BY <1>1 DEF OpPos
  <1>3. \A k \in OpPos(q) : q2[k] = q[k]
    BY <1>1 DEF OpPos
  <1> QED
    BY <1>2, <1>3 DEF Handles, Distinct

\* Taking the oldest entry removes its handle, if it is an op's.
LEMMA TakeHandles ==
  ASSUME NEW S, NEW q \in Seq(S), q # <<>>, Distinct(q)
  PROVE  /\ Tail(q) \in Seq(S) /\ Head(q) \in S /\ Distinct(Tail(q))
         /\ Head(q).kind = "op" =>
              /\ HandleOf(Head(q)) \in Handles(q)
              /\ Handles(Tail(q)) = Handles(q) \ {HandleOf(Head(q))}
         /\ Head(q).kind # "op" => Handles(Tail(q)) = Handles(q)
  <1> DEFINE e == Head(q)
             q2 == Tail(q)
  <1>1. /\ q2 \in Seq(S) /\ Len(q2) = Len(q) - 1 /\ Len(q) \in Nat \ {0}
        /\ e = q[1] /\ e \in S
        /\ \A k \in 1..Len(q2) : k + 1 \in 2..Len(q) /\ q2[k] = q[k + 1]
    OBVIOUS
  <1> HIDE DEF e, q2
  <1>2. \A k \in OpPos(q2) : k + 1 \in OpPos(q) /\ k + 1 # 1 /\ q2[k] = q[k + 1]
                             /\ k \in Nat
    BY <1>1 DEF OpPos
  <1>3. \A k \in OpPos(q) : k # 1 => k - 1 \in OpPos(q2) /\ q2[k - 1] = q[k]
    <2> SUFFICES ASSUME NEW k \in OpPos(q), k # 1
                 PROVE  k - 1 \in OpPos(q2) /\ q2[k - 1] = q[k]
      OBVIOUS
    <2>1. k \in 2..Len(q) /\ q[k].kind = "op"
      BY <1>1 DEF OpPos
    <2>2. k - 1 \in 1..Len(q2) /\ (k - 1) + 1 = k
      BY <1>1, <2>1
    <2> QED
      BY <1>1, <2>1, <2>2 DEF OpPos
  <1>4. Distinct(q2)
    <2> SUFFICES ASSUME NEW k \in OpPos(q2), NEW l \in OpPos(q2),
                        HandleOf(q2[k]) = HandleOf(q2[l])
                 PROVE  k = l
      BY DEF Distinct
    <2>1. k + 1 = l + 1 /\ k \in Nat /\ l \in Nat
      BY <1>2 DEF Distinct
    <2> QED
      BY <2>1
  <1>5. ASSUME NEW h \in Handles(q2)
        PROVE  \E k \in OpPos(q) : k # 1 /\ h = HandleOf(q[k])
    BY <1>2 DEF Handles
  <1>6. ASSUME NEW k \in OpPos(q), k # 1
        PROVE  HandleOf(q[k]) \in Handles(q2)
    BY <1>3, <1>6 DEF Handles
  <1>7. e.kind = "op" <=> 1 \in OpPos(q)
    BY <1>1 DEF OpPos
  <1>8. ASSUME e.kind = "op"
        PROVE  /\ HandleOf(e) \in Handles(q)
               /\ Handles(q2) = Handles(q) \ {HandleOf(e)}
    <2>1. HandleOf(e) \in Handles(q)
      BY <1>1, <1>7, <1>8 DEF Handles
    <2>2. \A k \in OpPos(q) : k # 1 <=> HandleOf(q[k]) # HandleOf(e)
      BY <1>1, <1>7, <1>8 DEF Distinct
    <2>3. Handles(q2) \subseteq Handles(q) \ {HandleOf(e)}
      BY <1>5, <2>2 DEF Handles
    <2>4. Handles(q) \ {HandleOf(e)} \subseteq Handles(q2)
      BY <1>6, <2>2 DEF Handles
    <2> QED
      BY <2>1, <2>3, <2>4
  <1>9. ASSUME e.kind # "op" PROVE Handles(q2) = Handles(q)
    <2>1. \A k \in OpPos(q) : k # 1
      BY <1>7, <1>9
    <2>2. Handles(q2) \subseteq Handles(q)
      BY <1>5 DEF Handles
    <2>3. Handles(q) \subseteq Handles(q2)
      BY <1>6, <2>1 DEF Handles
    <2> QED
      BY <2>2, <2>3
  <1> QED
    BY <1>1, <1>4, <1>8, <1>9 DEF e, q2

\* Two entries posted at once are two pushes.
LEMMA PostTwo ==
  ASSUME NEW S, NEW q \in Seq(S), NEW a \in S, NEW b \in S
  PROVE  q \o <<a, b>> = Append(Append(q, a), b)
  <1> DEFINE u == q \o <<a, b>>
             v == Append(Append(q, a), b)
  <1>1. u \in Seq(S) /\ v \in Seq(S) /\ Len(u) = Len(q) + 2 /\ Len(v) = Len(q) + 2
    OBVIOUS
  <1>2. \A k \in 1..Len(u) : u[k] = v[k]
    OBVIOUS
  <1> QED
    BY <1>1, <1>2, SeqEqual

\* What a push and a take do to OnlyStopped.
LEMMA PushStopped ==
  ASSUME NEW S, NEW q \in Seq(S), NEW e \in S, NEW w, OnlyStopped(q, w),
         e.kind = "op" => (e.cancelled => e.id \in w),
         NEW q2, q2 = Append(q, e)
  PROVE  OnlyStopped(q2, w)
  <1>1. /\ Len(q2) = Len(q) + 1 /\ q2[Len(q) + 1] = e /\ Len(q) \in Nat
        /\ \A k \in 1..Len(q) : q2[k] = q[k]
    BY PushFacts
  <1>2. \A k \in OpPos(q2) : \/ k \in OpPos(q) /\ q2[k] = q[k]
                             \/ e.kind = "op" /\ q2[k] = e
    BY <1>1 DEF OpPos
  <1> QED
    BY <1>2 DEF OnlyStopped

\* A cancel's completion and an op's, posted together in either order.
Posts(q, a, b, q2) == q2 = q \o <<a, b>> \/ q2 = q \o <<b, a>>

\* Together they add the op's handle.
LEMMA PostPair ==
  ASSUME NEW S, NEW q \in Seq(S), NEW a \in S, a.kind # "op",
         NEW b \in S, b.kind = "op", Distinct(q), HandleOf(b) \notin Handles(q),
         NEW w, OnlyStopped(q, w), b.cancelled => b.id \in w,
         NEW q2, Posts(q, a, b, q2)
  PROVE  /\ q2 \in Seq(S) /\ Handles(q2) = Handles(q) \union {HandleOf(b)}
         /\ Distinct(q2) /\ OnlyStopped(q2, w)
  <1>1. CASE q2 = q \o <<a, b>>
    <2> DEFINE p == Append(q, a)
    <2>1. q2 = Append(p, b)
      BY <1>1, PostTwo
    <2>2. p \in Seq(S)
      BY PushFacts
    <2>3. Handles(p) = Handles(q) /\ Distinct(p)
      BY PushCancel
    <2>4. OnlyStopped(p, w)
      BY PushStopped
    <2> HIDE DEF p
    <2>5. q2 \in Seq(S)
      BY <2>1, <2>2, PushFacts
    <2>6. /\ Handles(q2) = Handles(p) \union {HandleOf(b)}
          /\ (Distinct(p) /\ HandleOf(b) \notin Handles(p)) => Distinct(q2)
      BY <2>1, <2>2, PushOp
    <2>7. OnlyStopped(q2, w)
      BY <2>1, <2>2, <2>4, PushStopped
    <2> QED
      BY <2>3, <2>5, <2>6, <2>7
  <1>2. CASE q2 = q \o <<b, a>>
    <2> DEFINE p == Append(q, b)
    <2>1. q2 = Append(p, a)
      BY <1>2, PostTwo
    <2>2. p \in Seq(S)
      BY PushFacts
    <2>3. /\ Handles(p) = Handles(q) \union {HandleOf(b)}
          /\ (Distinct(q) /\ HandleOf(b) \notin Handles(q)) => Distinct(p)
      BY PushOp
    <2>4. OnlyStopped(p, w)
      BY PushStopped
    <2> HIDE DEF p
    <2>5. q2 \in Seq(S)
      BY <2>1, <2>2, PushFacts
    <2>6. Handles(q2) = Handles(p) /\ Distinct(q2)
      BY <2>1, <2>2, <2>3, PushCancel
    <2>7. OnlyStopped(q2, w)
      BY <2>1, <2>2, <2>4, PushStopped
    <2> QED
      BY <2>3, <2>5, <2>6, <2>7
  <1> QED
    BY <1>1, <1>2 DEF Posts

\* Taking the oldest completion keeps OnlyStopped.
LEMMA TakeStopped ==
  ASSUME NEW S, NEW q \in Seq(S), q # <<>>, NEW w, OnlyStopped(q, w),
         NEW q2, q2 = Tail(q)
  PROVE  OnlyStopped(q2, w)
  <1>1. \A k \in 1..Len(q2) : k + 1 \in 1..Len(q) /\ q2[k] = q[k + 1]
    OBVIOUS
  <1>2. \A k \in OpPos(q2) : k + 1 \in OpPos(q) /\ q2[k] = q[k + 1]
    BY <1>1 DEF OpPos
  <1> QED
    BY <1>2 DEF OnlyStopped

\* The kernel's requests differ in their handles.
LEMMA KernRemove ==
  ASSUME NEW K \in SUBSET OpEntries, NEW v \in K
  PROVE  {HandleOf(w) : w \in K \ {v}} = {HandleOf(w) : w \in K} \ {HandleOf(v)}
  <1>1. \A w \in K : HandleOf(w) = HandleOf(v) => w = v
    <2> SUFFICES ASSUME NEW w \in K, HandleOf(w) = HandleOf(v) PROVE w = v
      OBVIOUS
    <2>1. w \in OpEntries /\ v \in OpEntries
      OBVIOUS
    <2>2. w.slot = v.slot /\ w.id = v.id
      BY DEF HandleOf
    <2> QED
      BY <2>1, <2>2 DEF OpEntries
  <1> QED
    BY <1>1

\* Two live ops never share a slot, and no live op is NoOp.
LEMMA OpsFacts ==
  ASSUME IInv
  PROVE  /\ \A g, h \in Ops : g.slot = h.slot => g = h
         /\ NoOp \notin Ops
  BY LiveMember DEF Ops, NoOp, IsFree

\* CancelHitsItsTarget, position by position, now and after a step.
LEMMA HitsMeaning ==
  /\ CancelHitsItsTarget <=>
       \A k \in DOMAIN sq : sq[k].kind = "cancel" => HitsTarget(sq, kern, k)
  /\ CancelHitsItsTarget' <=>
       \A k \in DOMAIN sq' : sq'[k].kind = "cancel" => HitsTarget(sq', kern', k)
  <1>1. CancelHitsItsTarget <=>
          \A k \in DOMAIN sq : sq[k].kind = "cancel" => HitsTarget(sq, kern, k)
    BY DEF CancelHitsItsTarget, HitsTarget, Victims
  <1>2. CancelHitsItsTarget' <=>
          \A k \in DOMAIN sq' : sq'[k].kind = "cancel" => HitsTarget(sq', kern', k)
    BY DEF CancelHitsItsTarget, HitsTarget, Victims
  <1> QED
    BY <1>1, <1>2

-----------------------------------------------------------------------------
(* io_uring: the steps of the runtime under the ring.                      *)

\* A step that moves nothing in the ring.
LEMMA SameRing ==
  ASSUME RingInv, at # "dropped", SubmitInv',
         UNCHANGED <<sq, kern, cq, won, done_ran>>,
         Ops' \ {cur'} = Ops \ {cur}
  PROVE  RingInv'
  <1>1. RingTypes' /\ StopInv'
    BY DEF RingInv, RingTypes, StopInv
  <1>2. KernHandles' = KernHandles /\ Handles(sq)' = Handles(sq)
        /\ Handles(cq)' = Handles(cq) /\ (Distinct(sq) <=> Distinct(sq)')
        /\ (Distinct(cq) <=> Distinct(cq)')
    BY DEF KernHandles
  <1>3. PlaceInv'
    BY <1>2 DEF RingInv, PlaceInv
  <1>4. CancelHitsItsTarget'
    BY DEF RingInv, CancelHitsItsTarget, Victims
  <1> QED
    BY <1>1, <1>3, <1>4 DEF RingInv

\* arm pushes the one request of the new op.
LEMMA ArmRing ==
  ASSUME IInv, HInv, RingInv, ~submitting, RegisterOp,
         sq' = Append(sq, OpEntry(AllocIndex(io_slab, free_slots), next_id)),
         UNCHANGED <<kern, cq, submitting, won>>
  PROVE  RingInv'
  <1> DEFINE i == AllocIndex(io_slab, free_slots)
             e == OpEntry(i, next_id)
             h == [slot |-> i, id |-> next_id]
  <1>1. Ops' = Ops \union {h} /\ i \in 1..Len(io_slab')
    BY RegisterOpLive
  <1>2. /\ at \in UserCode /\ UNCHANGED <<at, cur, done_ran>>
        /\ next_id \in Nat /\ i \in Nat
    <2>1. i \in Nat
      BY <1>1
    <2> QED
      BY <2>1 DEF RegisterOp, IInv, Types
  <1> HIDE DEF i
  <1>3. /\ e \in OpEntries \union CancelEntries /\ e.kind = "op"
        /\ HandleOf(e) = h
    BY <1>2 DEF OpEntry, OpEntries, HandleOf
  <1>4. sq \in Seq(OpEntries \union CancelEntries) /\ sq' = Append(sq, e)
    BY DEF RingInv, RingTypes, i
  <1>5. h \notin Ops /\ h # cur
    <2>1. \A g \in Ops : g.id # next_id
      BY DEF HInv, IdInv, IdsOf, Given, IInv, Types
    <2>2. h.id = next_id
      OBVIOUS
    <2>3. h \notin Ops
      BY <2>1, <2>2
    <2>4. cur = NoOp \/ cur \in Ops
      BY <1>2 DEF IInv, CurInv, UserCode, HInv, CallInv
    <2>5. next_id # 0
      BY DEF IInv, Types
    <2> QED
      BY <2>2, <2>3, <2>4, <2>5 DEF NoOp
  <1> HIDE DEF e, h
  <1>6. /\ sq' \in Seq(OpEntries \union CancelEntries)
        /\ \A k \in 1..Len(sq) : sq'[k] = sq[k]
        /\ Handles(sq') = Handles(sq) \union {h}
        /\ (Distinct(sq) /\ HandleOf(e) \notin Handles(sq)) => Distinct(sq')
    <2>1. /\ sq' \in Seq(OpEntries \union CancelEntries)
          /\ \A k \in 1..Len(sq) : sq'[k] = sq[k]
      BY <1>3, <1>4, PushFacts
    <2>2. /\ Handles(sq') = Handles(sq) \union {HandleOf(e)}
          /\ (Distinct(sq) /\ HandleOf(e) \notin Handles(sq)) => Distinct(sq')
      BY <1>3, <1>4, PushOp
    <2> QED
      BY <1>3, <2>1, <2>2
  <1>7. /\ at # "dropped"
        /\ Handles(sq) \union KernHandles \union Handles(cq) = Ops \ {cur}
    BY <1>2 DEF RingInv, PlaceInv, UserCode
  <1>8. RingTypes' /\ SubmitInv' /\ StopInv'
    BY <1>2, <1>6 DEF RingInv, RingTypes, SubmitInv, StopInv
  <1>9. PlaceInv'
    <2>1. KernHandles' = KernHandles
      BY DEF KernHandles
    <2>2. Distinct(sq')
      BY <1>3, <1>5, <1>6, <1>7 DEF RingInv, PlaceInv
    <2>3. (Ops \union {h}) \ {cur} = (Ops \ {cur}) \union {h}
      BY <1>5
    <2>4. /\ h \notin KernHandles /\ h \notin Handles(cq)
      BY <1>5, <1>7
    <2> QED
      BY <1>1, <1>2, <1>6, <1>7, <2>1, <2>2, <2>3, <2>4 DEF RingInv, PlaceInv
  <1>10. CancelHitsItsTarget'
    <2> SUFFICES ASSUME NEW k \in DOMAIN sq', sq'[k].kind = "cancel"
                 PROVE  HitsTarget(sq', kern', k)
      BY HitsMeaning
    <2>1. k \in 1..Len(sq) /\ k \in Nat /\ Len(sq) \in Nat
      <3>1. k \in 1..(Len(sq) + 1) /\ Len(sq) \in Nat
        BY <1>4
      <3>2. sq'[Len(sq) + 1] = e
        BY <1>4
      <3> QED
        BY <1>3, <3>1, <3>2
    <2>2. \A l \in 1..(k - 1) : l \in 1..Len(sq) /\ sq'[l] = sq[l]
      BY <1>6, <2>1
    <2>3. sq'[k] = sq[k] /\ k \in DOMAIN sq
      BY <1>4, <1>6, <2>1
    <2>4. HitsTarget(sq, kern, k)
      BY <2>3, HitsMeaning DEF RingInv
    <2> QED
      BY <2>2, <2>3, <2>4 DEF HitsTarget
  <1> QED
    BY <1>8, <1>9, <1>10 DEF RingInv

\* cancel pushes its request behind every request of its target.
LEMMA CancelRing ==
  ASSUME IInv, HInv, RingInv, ~submitting, NEW op \in issued, Cancel(op),
         sq' = Append(sq, CancelEntry(AllocIndex(cancel_slab, free_cancels),
                                      next_id, op)),
         UNCHANGED <<kern, cq, submitting, won>>
  PROVE  RingInv'
  <1> DEFINE c == AllocIndex(cancel_slab, free_cancels)
             e == CancelEntry(c, next_id, op)
  <1>1. Ops' = Ops /\ op \in Ops
    BY CancelLive
  <1>2. /\ at \in UserCode /\ UNCHANGED <<at, cur, done_ran>>
        /\ next_id \in Nat /\ op \in Op
    BY DEF Cancel, history, IInv, Types
  <1>3. c \in Nat
    <2>1. cancel_slab \in Seq(CancelSlot) /\ free_cancels \in Seq(Nat)
          /\ FreeStackOK(cancel_slab, free_cancels)
      BY DEF IInv, Types, SlabInv
    <2>2. Len(cancel_slab) \in Nat
      BY <2>1
    <2> QED
      BY <2>1, <2>2, IndexFacts
  <1> HIDE DEF c
  <1>4. /\ e \in OpEntries \union CancelEntries /\ e.kind = "cancel"
        /\ e.target = op.slot /\ e.meant = op.id
    BY <1>2, <1>3 DEF CancelEntry, CancelEntries, Op
  <1>5. sq \in Seq(OpEntries \union CancelEntries) /\ sq' = Append(sq, e)
    BY DEF RingInv, RingTypes, c
  <1> HIDE DEF e
  <1>6. /\ sq' \in Seq(OpEntries \union CancelEntries)
        /\ \A k \in 1..Len(sq) : sq'[k] = sq[k]
        /\ Handles(sq') = Handles(sq)
        /\ Distinct(sq) => Distinct(sq')
    <2>1. /\ sq' \in Seq(OpEntries \union CancelEntries)
          /\ \A k \in 1..Len(sq) : sq'[k] = sq[k]
      BY <1>4, <1>5, PushFacts
    <2>2. /\ Handles(sq') = Handles(sq)
          /\ Distinct(sq) => Distinct(sq')
      BY <1>4, <1>5, PushCancel
    <2> QED
      BY <2>1, <2>2
  <1>7. /\ at # "dropped"
        /\ Handles(sq) \union KernHandles \union Handles(cq) = Ops \ {cur}
    BY <1>2 DEF RingInv, PlaceInv, UserCode
  <1>8. RingTypes' /\ SubmitInv' /\ StopInv'
    BY <1>2, <1>6 DEF RingInv, RingTypes, SubmitInv, StopInv
  <1>9. PlaceInv'
    <2>1. KernHandles' = KernHandles
      BY DEF KernHandles
    <2> QED
      BY <1>1, <1>2, <1>6, <2>1 DEF RingInv, PlaceInv
  <1>10. CancelHitsItsTarget'
    <2> SUFFICES ASSUME NEW k \in DOMAIN sq', sq'[k].kind = "cancel"
                 PROVE  HitsTarget(sq', kern', k)
      BY HitsMeaning
    <2>1. k \in 1..(Len(sq) + 1) /\ Len(sq) \in Nat
      BY <1>5
    <2>2. \A l \in 1..(k - 1) : l \in 1..Len(sq) /\ sq'[l] = sq[l]
      BY <1>6, <2>1
    <2>3. CASE k \in 1..Len(sq)
      <3>1. sq'[k] = sq[k] /\ k \in DOMAIN sq
        BY <1>5, <1>6, <2>3
      <3>2. HitsTarget(sq, kern, k)
        BY <3>1, HitsMeaning DEF RingInv
      <3> QED
        BY <2>2, <3>1, <3>2 DEF HitsTarget
    <2>4. CASE k = Len(sq) + 1
      <3>1. sq'[k] = e
        BY <1>5, <2>4
      <3>2. ASSUME NEW v, HandleOf(v) \in Ops, v.slot = op.slot
            PROVE  v.id = op.id
        <4>1. HandleOf(v).slot = v.slot /\ HandleOf(v).id = v.id
          BY DEF HandleOf
        <4> HIDE DEF HandleOf
        <4> QED
          BY <1>1, <3>2, <4>1, OpsFacts
      <3>3. \A v \in kern : HandleOf(v) \in Ops
        BY <1>7 DEF KernHandles
      <3>4. \A l \in 1..Len(sq) : sq[l].kind = "op" => HandleOf(sq[l]) \in Ops
        BY <1>7 DEF Handles, OpPos
      <3> QED
        BY <1>4, <2>2, <3>1, <3>2, <3>3, <3>4 DEF HitsTarget
    <2> QED
      BY <2>1, <2>3, <2>4
  <1> QED
    BY <1>8, <1>9, <1>10 DEF RingInv

\* The kernel takes the oldest request: those behind it keep their targets.
LEMMA TailHits ==
  ASSUME RingInv, sq # <<>>, sq' = Tail(sq),
         \A v \in kern' : v \in kern \/ (v = Head(sq) /\ Head(sq).kind = "op")
  PROVE  CancelHitsItsTarget'
  <1>1. /\ Len(sq') = Len(sq) - 1 /\ Len(sq) \in Nat \ {0} /\ Head(sq) = sq[1]
        /\ \A k \in 1..Len(sq') : k + 1 \in 2..Len(sq) /\ sq'[k] = sq[k + 1]
        /\ DOMAIN sq' = 1..Len(sq') /\ DOMAIN sq = 1..Len(sq)
    BY DEF RingInv, RingTypes
  <1> SUFFICES ASSUME NEW k \in 1..Len(sq'), sq'[k].kind = "cancel"
               PROVE  HitsTarget(sq', kern', k)
    BY <1>1, HitsMeaning
  <1>2. k + 1 \in DOMAIN sq /\ sq'[k] = sq[k + 1] /\ k \in Nat /\ k >= 1
    BY <1>1
  <1>3. HitsTarget(sq, kern, k + 1)
    BY <1>2, HitsMeaning DEF RingInv
  <1>4. ASSUME NEW v \in kern', v.slot = sq'[k].target
        PROVE  v.id = sq'[k].meant
    <2>1. CASE v \in kern
      BY <1>2, <1>3, <1>4, <2>1 DEF HitsTarget
    <2>2. CASE v = sq[1] /\ sq[1].kind = "op"
      <3>1. 1 \in 1..((k + 1) - 1)
        BY <1>2
      <3> QED
        BY <1>2, <1>3, <1>4, <2>2, <3>1 DEF HitsTarget
    <2> QED
      BY <1>1, <2>1, <2>2
  <1>5. ASSUME NEW l \in 1..(k - 1), sq'[l].kind = "op", sq'[l].slot = sq'[k].target
        PROVE  sq'[l].id = sq'[k].meant
    <2>1. l \in 1..Len(sq') /\ l + 1 \in 1..((k + 1) - 1)
      BY <1>1, <1>2
    <2>2. sq'[l] = sq[l + 1]
      BY <1>1, <2>1
    <2> QED
      BY <1>2, <1>3, <1>5, <2>1, <2>2 DEF HitsTarget
  <1> QED
    BY <1>4, <1>5 DEF HitsTarget

\* What a step of the kernel leaves alone.
LEMMA KernelKeeps ==
  ASSUME UNCHANGED vars
  PROVE  Ops' = Ops /\ UNCHANGED <<at, cur, done_ran>>
  BY DEF vars, slabVars, history, Ops

\* An op request passes from the submission queue to the kernel.
LEMMA KernelOpRing ==
  ASSUME RingInv, sq # <<>>, at # "dropped", UNCHANGED vars,
         sq' = Tail(sq), SubmitInv',
         Head(sq).kind = "op", kern' = kern \union {Head(sq)},
         UNCHANGED <<cq, won>>
  PROVE  RingInv'
  <1> DEFINE r == Head(sq)
             h == HandleOf(r)
             S == OpEntries \union CancelEntries
  <1>1. sq \in Seq(S) /\ Distinct(sq)
    BY DEF RingInv, RingTypes, PlaceInv
  <1>2. /\ sq' \in Seq(S) /\ r \in S /\ Distinct(sq') /\ h \in Handles(sq)
        /\ Handles(sq') = Handles(sq) \ {h}
    BY <1>1, TakeHandles
  <1>3. r \in OpEntries
    BY <1>2 DEF CancelEntries
  <1>4. KernHandles' = KernHandles \union {h}
    BY DEF KernHandles
  <1>5. Ops' = Ops /\ UNCHANGED <<at, cur, done_ran>>
    BY KernelKeeps
  <1>6. RingTypes'
    BY <1>2, <1>3 DEF RingInv, RingTypes
  <1>7. StopInv'
    BY <1>5 DEF RingInv, StopInv
  <1>8. PlaceInv'
    <2> HIDE DEF h
    <2> QED
      BY <1>2, <1>4, <1>5 DEF RingInv, PlaceInv
  <1>9. CancelHitsItsTarget'
    BY TailHits
  <1> QED
    BY <1>6, <1>7, <1>8, <1>9 DEF RingInv

\* An ASYNC_CANCEL that finds nothing, or too late, posts its own completion.
LEMMA KernelMissRing ==
  ASSUME RingInv, sq # <<>>, at # "dropped", UNCHANGED vars,
         sq' = Tail(sq), SubmitInv', Head(sq).kind = "cancel",
         cq' = Append(cq, CancelCqe(Head(sq), 1)), UNCHANGED <<kern, won>>
  PROVE  RingInv'
  <1> DEFINE r == Head(sq)
             S == OpEntries \union CancelEntries
             T == OpCqes \union CancelCqes
             e == CancelCqe(r, 1)
  <1>1. sq \in Seq(S) /\ Distinct(sq) /\ cq \in Seq(T) /\ Distinct(cq)
    BY DEF RingInv, RingTypes, PlaceInv
  <1>2. /\ sq' \in Seq(S) /\ r \in S /\ Distinct(sq')
        /\ Handles(sq') = Handles(sq)
    BY <1>1, TakeHandles
  <1>3. e \in T /\ e.kind # "op"
    BY <1>2 DEF CancelCqe, CancelCqes, OpEntries, CancelEntries
  <1>4. cq' = Append(cq, e)
    OBVIOUS
  <1>5. /\ cq' \in Seq(T) /\ Handles(cq') = Handles(cq) /\ Distinct(cq')
        /\ OnlyStopped(cq', won)
    <2> HIDE DEF e, T
    <2>1. cq' \in Seq(T)
      BY <1>1, <1>3, <1>4, PushFacts
    <2>2. Handles(cq') = Handles(cq) /\ Distinct(cq')
      BY <1>1, <1>3, <1>4, PushCancel
    <2>3. OnlyStopped(cq', won)
      BY <1>1, <1>3, <1>4, PushStopped DEF RingInv, StopInv
    <2> QED
      BY <2>1, <2>2, <2>3
  <1>6. Ops' = Ops /\ UNCHANGED <<at, cur, done_ran>>
    BY KernelKeeps
  <1>7. KernHandles' = KernHandles
    BY DEF KernHandles
  <1>8. RingTypes'
    BY <1>2, <1>5 DEF RingInv, RingTypes
  <1>9. StopInv'
    BY <1>5, <1>6 DEF RingInv, StopInv
  <1>10. PlaceInv'
    BY <1>2, <1>5, <1>6, <1>7 DEF RingInv, PlaceInv
  <1>11. CancelHitsItsTarget'
    <2>1. kern' = kern
      OBVIOUS
    <2>2. \A v \in kern' : v \in kern \/ (v = Head(sq) /\ Head(sq).kind = "op")
      BY <2>1, Zenon
    <2> QED
      BY <2>2, TailHits
  <1> QED
    BY <1>8, <1>9, <1>10, <1>11 DEF RingInv

\* A completion passes from the kernel to the completion queue.
LEMMA FinishFacts ==
  ASSUME RingInv, NEW v \in kern, kern' = kern \ {v}, NEW stopped \in BOOLEAN,
         NEW e, e = OpCqe(v, stopped), NEW w, won \subseteq w,
         stopped => v.id \in w
  PROVE  /\ e \in OpCqes /\ e.kind = "op" /\ HandleOf(e) = HandleOf(v)
         /\ KernHandles' = KernHandles \ {HandleOf(v)}
         /\ HandleOf(v) \in KernHandles
         /\ e.cancelled => e.id \in w
         /\ OnlyStopped(cq, w)
  <1>1. v \in OpEntries /\ kern \in SUBSET OpEntries
    BY DEF RingInv, RingTypes
  <1>2. e \in OpCqes /\ e.kind = "op" /\ HandleOf(e) = HandleOf(v)
        /\ (e.cancelled => e.id \in w)
    BY <1>1 DEF OpCqe, OpCqes, OpEntries, HandleOf
  <1>3. KernHandles' = KernHandles \ {HandleOf(v)}
    BY <1>1, KernRemove DEF KernHandles
  <1>4. HandleOf(v) \in KernHandles
    BY DEF KernHandles
  <1>5. OnlyStopped(cq, w)
    BY DEF RingInv, StopInv, OnlyStopped
  <1> QED
    BY <1>2, <1>3, <1>4, <1>5

\* A request the kernel was working on completes.
LEMMA KernelFinishRing ==
  ASSUME RingInv, NEW v \in kern, KernelFinish(v)
  PROVE  RingInv'
  <1> DEFINE e == OpCqe(v, FALSE)
             T == OpCqes \union CancelCqes
  <1>1. /\ UNCHANGED <<vars, sq, submitting, won>> /\ kern' = kern \ {v}
        /\ cq' = Append(cq, e)
    BY DEF KernelFinish
  <1>2. Ops' = Ops /\ UNCHANGED <<at, cur, done_ran>>
    BY <1>1, KernelKeeps
  <1>3. e = OpCqe(v, FALSE) /\ FALSE \in BOOLEAN /\ won \subseteq won
    OBVIOUS
  <1> HIDE DEF e
  <1>4. /\ e \in OpCqes /\ e.kind = "op" /\ HandleOf(e) = HandleOf(v)
        /\ KernHandles' = KernHandles \ {HandleOf(v)}
        /\ HandleOf(v) \in KernHandles
        /\ e.cancelled => e.id \in won
        /\ OnlyStopped(cq, won)
    BY <1>1, <1>3, FinishFacts
  <1>5. cq \in Seq(T) /\ Distinct(cq) /\ e \in T /\ HandleOf(e) \notin Handles(cq)
    BY <1>4 DEF RingInv, RingTypes, PlaceInv
  <1> HIDE DEF T
  <1>6. /\ cq' \in Seq(T) /\ Handles(cq') = Handles(cq) \union {HandleOf(v)}
        /\ Distinct(cq') /\ OnlyStopped(cq', won)
    <2>1. cq' \in Seq(T)
      BY <1>1, <1>5, PushFacts
    <2>2. /\ Handles(cq') = Handles(cq) \union {HandleOf(e)}
          /\ (Distinct(cq) /\ HandleOf(e) \notin Handles(cq)) => Distinct(cq')
      <3>1. cq' = Append(cq, e) /\ e.kind = "op"
        BY <1>1, <1>4
      <3> QED
        BY <1>5, <3>1, PushOp
    <2>3. OnlyStopped(cq', won)
      BY <1>1, <1>4, <1>5, PushStopped
    <2> QED
      BY <1>4, <1>5, <2>1, <2>2, <2>3
  <1>7. RingTypes' /\ StopInv' /\ SubmitInv'
    BY <1>1, <1>2, <1>6 DEF RingInv, RingTypes, StopInv, SubmitInv, T
  <1>8. PlaceInv'
    BY <1>1, <1>2, <1>4, <1>6 DEF RingInv, PlaceInv
  <1>9. CancelHitsItsTarget'
    BY <1>1 DEF RingInv, CancelHitsItsTarget, Victims
  <1> QED
    BY <1>7, <1>8, <1>9 DEF RingInv

\* An ASYNC_CANCEL that stops its victim posts two completions, in either
\* order: the victim's handle goes to the completion queue.
LEMMA KernelHitRing ==
  ASSUME RingInv, sq # <<>>, at # "dropped", UNCHANGED vars,
         sq' = Tail(sq), SubmitInv', Head(sq).kind = "cancel",
         NEW v \in kern, kern' = kern \ {v}, won' = won \union {v.id},
         \/ cq' = cq \o <<CancelCqe(Head(sq), 0), OpCqe(v, TRUE)>>
         \/ cq' = cq \o <<OpCqe(v, TRUE), CancelCqe(Head(sq), 0)>>
  PROVE  RingInv'
  <1> DEFINE S == OpEntries \union CancelEntries
             T == OpCqes \union CancelCqes
             r == Head(sq)
             a == CancelCqe(r, 0)
             b == OpCqe(v, TRUE)
             h == HandleOf(v)
  <1>1. sq \in Seq(S) /\ Distinct(sq) /\ cq \in Seq(T) /\ Distinct(cq)
    BY DEF RingInv, RingTypes, PlaceInv
  <1>2. /\ sq' \in Seq(S) /\ r \in S /\ Distinct(sq')
        /\ Handles(sq') = Handles(sq)
    BY <1>1, TakeHandles
  <1>3. a \in T /\ a.kind # "op"
    BY <1>2 DEF CancelCqe, CancelCqes, OpEntries, CancelEntries
  <1>4. won \subseteq won' /\ v.id \in won' /\ b = OpCqe(v, TRUE)
        /\ TRUE \in BOOLEAN
    OBVIOUS
  <1> HIDE DEF a, b
  <1>5. /\ b \in OpCqes /\ b.kind = "op" /\ HandleOf(b) = HandleOf(v)
        /\ KernHandles' = KernHandles \ {HandleOf(v)}
        /\ HandleOf(v) \in KernHandles
        /\ b.cancelled => b.id \in won'
        /\ OnlyStopped(cq, won')
    BY <1>4, FinishFacts
  <1>6. b \in T /\ HandleOf(b) = h /\ h \in KernHandles /\ h \notin Handles(cq)
        /\ KernHandles' = KernHandles \ {h}
    BY <1>5 DEF RingInv, PlaceInv
  <1> HIDE DEF T, h
  <1>7. /\ cq' \in Seq(T) /\ Handles(cq') = Handles(cq) \union {h}
        /\ Distinct(cq') /\ OnlyStopped(cq', won')
    <2>1. Posts(cq, a, b, cq')
      BY DEF Posts, a, b
    <2>2. /\ cq \in Seq(T) /\ Distinct(cq) /\ OnlyStopped(cq, won')
          /\ a \in T /\ a.kind # "op" /\ b \in T /\ b.kind = "op"
          /\ HandleOf(b) \notin Handles(cq) /\ (b.cancelled => b.id \in won')
      BY <1>1, <1>3, <1>5, <1>6
    <2>3. /\ cq' \in Seq(T) /\ Handles(cq') = Handles(cq) \union {HandleOf(b)}
          /\ Distinct(cq') /\ OnlyStopped(cq', won')
      BY <2>1, <2>2, PostPair
    <2> QED
      BY <1>6, <2>3
  <1>8. Ops' = Ops /\ UNCHANGED <<at, cur, done_ran>>
    BY KernelKeeps
  <1>9. RingTypes'
    BY <1>2, <1>7 DEF RingInv, RingTypes, T
  <1>10. StopInv'
    BY <1>4, <1>7, <1>8 DEF RingInv, StopInv
  <1>11. PlaceInv'
    BY <1>2, <1>6, <1>7, <1>8 DEF RingInv, PlaceInv
  <1>12. CancelHitsItsTarget'
    <2>1. \A w \in kern' : w \in kern \/ (w = Head(sq) /\ Head(sq).kind = "op")
      OBVIOUS
    <2> QED
      BY <2>1, TailHits
  <1> QED
    BY <1>9, <1>10, <1>11, <1>12 DEF RingInv

\* Whatever the kernel does with the oldest submission.
LEMMA KernelSubmitRing ==
  ASSUME RingInv, KernelSubmit
  PROVE  RingInv'
  <1>1. sq # <<>> /\ at # "dropped"
    BY DEF KernelSubmit, RingInv, SubmitInv, UserCode
  <1>2. UNCHANGED vars /\ sq' = Tail(sq) /\ submitting' = (Tail(sq) # <<>>)
    BY DEF KernelSubmit
  <1>3. SubmitInv'
    <2>1. at' = at /\ at \in UserCode \union {"wait"}
      BY <1>2, KernelKeeps DEF KernelSubmit, RingInv, SubmitInv
    <2> QED
      BY <1>2, <2>1 DEF SubmitInv
  <1> DEFINE r == Head(sq)
  <1>4. CASE /\ r.kind = "op" /\ kern' = kern \union {r}
             /\ UNCHANGED <<cq, won>>
    BY <1>1, <1>2, <1>3, <1>4, KernelOpRing
  <1>5. CASE /\ r.kind = "cancel" /\ cq' = Append(cq, CancelCqe(r, 1))
             /\ UNCHANGED <<kern, won>>
    BY <1>1, <1>2, <1>3, <1>5, KernelMissRing
  <1>6. CASE /\ r.kind = "cancel"
             /\ \E v \in Victims(r) :
                  /\ kern' = kern \ {v}
                  /\ won' = won \union {v.id}
                  /\ \/ cq' = cq \o <<CancelCqe(r, 0), OpCqe(v, TRUE)>>
                     \/ cq' = cq \o <<OpCqe(v, TRUE), CancelCqe(r, 0)>>
    <2>1. PICK v \in kern :
            /\ kern' = kern \ {v}
            /\ won' = won \union {v.id}
            /\ \/ cq' = cq \o <<CancelCqe(r, 0), OpCqe(v, TRUE)>>
               \/ cq' = cq \o <<OpCqe(v, TRUE), CancelCqe(r, 0)>>
      BY <1>6 DEF Victims
    <2> QED
      BY <1>1, <1>2, <1>3, <1>6, <2>1, KernelHitRing
  <1> QED
    BY <1>4, <1>5, <1>6 DEF KernelSubmit

\* The runtime takes the oldest completion off the queue, with its op if it is
\* an op's.
LEMMA TakeRing ==
  ASSUME RingInv, at = "drain", at' # "dropped", cq # <<>>, cq' = Tail(cq),
         UNCHANGED <<sq, kern, submitting, won>>, done_ran' \subseteq won,
         Ops' \ {cur'} = IF Head(cq).kind = "op"
                         THEN (Ops \ {cur}) \ {HandleOf(Head(cq))}
                         ELSE Ops \ {cur}
  PROVE  RingInv'
  <1> DEFINE T == OpCqes \union CancelCqes
             h == HandleOf(Head(cq))
  <1>1. cq \in Seq(T) /\ Distinct(cq)
    BY DEF RingInv, RingTypes, PlaceInv
  <1>2. /\ cq' \in Seq(T) /\ Distinct(cq')
        /\ Head(cq).kind = "op" => /\ h \in Handles(cq)
                                   /\ Handles(cq') = Handles(cq) \ {h}
        /\ Head(cq).kind # "op" => Handles(cq') = Handles(cq)
    BY <1>1, TakeHandles
  <1>3. OnlyStopped(cq', won)
    BY <1>1, TakeStopped DEF RingInv, StopInv
  <1>4. ~submitting
    BY DEF RingInv, SubmitInv, UserCode
  <1>5. RingTypes' /\ StopInv' /\ SubmitInv'
    BY <1>2, <1>3, <1>4 DEF RingInv, RingTypes, StopInv, SubmitInv
  <1>6. PlaceInv'
    <2>1. KernHandles' = KernHandles
      BY DEF KernHandles
    <2>2. /\ Handles(sq) \union KernHandles \union Handles(cq) = Ops \ {cur}
          /\ Handles(sq) \intersect KernHandles = {}
          /\ Handles(sq) \intersect Handles(cq) = {}
          /\ KernHandles \intersect Handles(cq) = {}
          /\ Distinct(sq)
      BY DEF RingInv, PlaceInv
    <2> HIDE DEF h
    <2>3. CASE Head(cq).kind = "op"
      BY <1>2, <2>1, <2>2, <2>3 DEF PlaceInv, h
    <2>4. CASE Head(cq).kind # "op"
      BY <1>2, <2>1, <2>2, <2>4 DEF PlaceInv
    <2> QED
      BY <2>3, <2>4
  <1>7. CancelHitsItsTarget'
    BY DEF RingInv, CancelHitsItsTarget, Victims
  <1> QED
    BY <1>5, <1>6, <1>7 DEF RingInv

\* The completion at the head of the queue, if it is an op's, names a live
\* slot that still holds the op it is for.
LEMMA HeadNamesLive ==
  ASSUME IInv, RingInv, at = "drain", cq # <<>>, Head(cq).kind = "op",
         NEW i, i = Head(cq).slot
  PROVE  /\ HandleOf(Head(cq)) = [slot |-> i, id |-> io_slab[i].id]
         /\ HandleOf(Head(cq)) \in Ops /\ i \in 1..Len(io_slab)
         /\ Head(cq).cancelled \in BOOLEAN
         /\ Head(cq).cancelled => io_slab[i].id \in won
  <1> DEFINE T == OpCqes \union CancelCqes
             e == Head(cq)
             h == HandleOf(e)
  <1>1. cq \in Seq(T) /\ Distinct(cq)
    BY DEF RingInv, RingTypes, PlaceInv
  <1>2. h \in Handles(cq) /\ e \in T
    BY <1>1, TakeHandles
  <1>3. h \in Ops
    BY <1>2 DEF RingInv, PlaceInv
  <1>4. h.slot = i /\ h.id = e.id
    BY DEF HandleOf
  <1>5. h = [slot |-> i, id |-> io_slab[i].id] /\ i \in 1..Len(io_slab)
    BY <1>3, <1>4, LiveMember DEF Ops
  <1>6. e.cancelled \in BOOLEAN
    BY <1>2 DEF OpCqes, CancelCqes
  <1>7. e.cancelled => e.id \in won
    <2>1. 1 \in OpPos(cq) /\ cq[1] = e
      BY <1>1 DEF OpPos
    <2> QED
      BY <2>1 DEF RingInv, StopInv, OnlyStopped
  <1>8. e.id = io_slab[i].id
    BY <1>4, <1>5
  <1> QED
    BY <1>3, <1>5, <1>6, <1>7, <1>8

\* take_completion of an op's completion.
LEMMA TakeOpRing ==
  ASSUME IInv, HInv, RingInv, at = "drain", cq # <<>>, cq' = Tail(cq),
         UNCHANGED <<sq, kern, submitting, won>>,
         Head(cq).kind = "op", NEW i, i = Head(cq).slot,
         \/ CompleteOp(i, Head(cq).cancelled)
         \/ CompleteOpCancelLost(i)
         \/ Head(cq).cancelled /\ CompleteOpCancelWon(i)
  PROVE  RingInv'
  <1> DEFINE h == HandleOf(Head(cq))
  <1>1. /\ h = [slot |-> i, id |-> io_slab[i].id] /\ h \in Ops
        /\ i \in 1..Len(io_slab)
        /\ Head(cq).cancelled => io_slab[i].id \in won
    BY HeadNamesLive
  <1>2. cur = NoOp /\ NoOp \notin Ops /\ done_ran \subseteq won
    BY OpsFacts DEF IInv, CurInv, RingInv, StopInv
  <1> HIDE DEF h
  <1>3. CASE CompleteOp(i, Head(cq).cancelled) \/ CompleteOpCancelLost(i)
    <2>1. FreeAndCall(i) /\ ~IsFree(io_slab[i]) /\ done_ran' = done_ran
      BY <1>3 DEF CompleteOp, CompleteOpCancelLost, LiveSlot
    <2>2. cur' = NoOp /\ at' = "op_cb"
      BY <2>1 DEF FreeAndCall
    <2>3. Ops' = Ops \ {h}
      BY <1>1, <2>1, FreeOpLive
    <2>4. Ops' \ {cur'} = (Ops \ {cur}) \ {HandleOf(Head(cq))}
      BY <1>2, <2>2, <2>3 DEF h
    <2>5. done_ran' \subseteq won /\ at' # "dropped"
      BY <1>2, <2>1, <2>2
    <2> QED
      BY <2>4, <2>5, TakeRing
  <1>4. CASE Head(cq).cancelled /\ CompleteOpCancelWon(i)
    <2>1. /\ io_slab' = io_slab /\ at' = "cancel_cb"
          /\ cur' = [slot |-> i, id |-> io_slab[i].id]
          /\ done_ran' = done_ran \union {io_slab[i].id}
      BY <1>4 DEF CompleteOpCancelWon, slabVars
    <2>2. Ops' = Ops /\ cur' = h
      BY <1>1, <2>1 DEF Ops
    <2>3. Ops' \ {cur'} = (Ops \ {cur}) \ {HandleOf(Head(cq))}
      BY <1>2, <2>2 DEF h
    <2>4. done_ran' \subseteq won /\ at' # "dropped"
      BY <1>1, <1>2, <1>4, <2>1
    <2> QED
      BY <2>3, <2>4, TakeRing
  <1> QED
    BY <1>3, <1>4

\* take_completion of a cancel's completion.
LEMMA TakeCancelRing ==
  ASSUME IInv, HInv, RingInv, at = "drain", cq # <<>>, cq' = Tail(cq),
         UNCHANGED <<sq, kern, submitting, won>>,
         Head(cq).kind = "cancel", NEW c, NEW r,
         CompleteCancelIgnored(c, r) \/ CompleteCancelFailed(c)
  PROVE  RingInv'
  <1>1. Ops' = Ops /\ UNCHANGED <<at, cur, done_ran>>
    <2>1. CASE CompleteCancelIgnored(c, r)
      BY <2>1, KernelKeeps DEF CompleteCancelIgnored
    <2>2. CASE CompleteCancelFailed(c)
      <3>1. c \in DOMAIN cancel_slab /\ UNCHANGED <<at, cur, done_ran>>
        BY <2>2 DEF CompleteCancelFailed
      <3> QED
        BY <2>2, <3>1, CompleteCancelFailedLive
    <2> QED
      BY <2>1, <2>2
  <1>2. done_ran' \subseteq won /\ at' # "dropped"
    BY <1>1 DEF RingInv, StopInv
  <1> QED
    BY <1>1, <1>2, TakeRing

\* Whatever completion is next.
LEMMA UringTakeRing ==
  ASSUME IInv, HInv, RingInv, UringTake
  PROVE  RingInv' /\ [Next]_vars
  <1> DEFINE e == Head(cq)
  <1>1. /\ at = "drain" /\ cq # <<>> /\ cq' = Tail(cq)
        /\ UNCHANGED <<sq, kern, submitting, won>>
    BY DEF UringTake
  <1>2. CASE /\ e.kind = "op"
             /\ \/ CompleteOp(e.slot, e.cancelled)
                \/ CompleteOpCancelLost(e.slot)
                \/ e.cancelled /\ CompleteOpCancelWon(e.slot)
    <2>1. RingInv'
      BY <1>1, <1>2, TakeOpRing
    <2>2. e.slot \in DOMAIN io_slab /\ e.cancelled \in BOOLEAN
      BY <1>1, <1>2, HeadNamesLive DEF IInv, Types
    <2>3. TakeCompletion
      BY <1>2, <2>2 DEF TakeCompletion
    <2> QED
      BY <2>1, <2>3 DEF Next
  <1>3. CASE /\ e.kind = "cancel"
             /\ \/ CompleteCancelIgnored(e.slot, e.result)
                \/ CompleteCancelFailed(e.slot)
    <2>1. RingInv'
      BY <1>1, <1>3, TakeCancelRing
    <2>2. [Next]_vars
      BY <1>3 DEF CompleteCancelIgnored, CompleteCancelFailed, TakeCompletion,
                  Next
    <2> QED
      BY <2>1, <2>2
  <1> QED
    BY <1>2, <1>3 DEF UringTake

\* arm and cancel, accepted or refused.
LEMMA UringArmRing ==
  ASSUME IInv, HInv, RingInv, UringArm
  PROVE  RingInv' /\ [Next]_vars
  <1>1. CASE ~SqFull /\ RegisterOp
    BY <1>1, ArmRing DEF UringArm, Next, User, RegisterOpRefused
  <1>2. CASE SqFull
    <2>1. RegisterOpRefused /\ UNCHANGED ringVars /\ ~submitting
      BY <1>2 DEF UringArm
    <2>2. Ops' = Ops
      BY <2>1, RegisterOpRefusedLive
    <2>3. UNCHANGED <<at, cur, done_ran>> /\ at # "dropped"
          /\ UNCHANGED <<sq, kern, cq, submitting, won>>
      BY <2>1 DEF RegisterOpRefused, ringVars, UserCode
    <2>4. SubmitInv'
      BY <2>1, <2>3 DEF SubmitInv
    <2> QED
      BY <2>1, <2>2, <2>3, <2>4, SameRing DEF Next, User
  <1> QED
    BY <1>1, <1>2 DEF UringArm

\* cancel, queued for the kernel or refused with the queue full.
LEMMA UringCancelRing ==
  ASSUME IInv, HInv, RingInv, NEW op \in issued, UringCancel(op)
  PROVE  RingInv' /\ [Next]_vars
  <1>1. CASE ~SqFull
    <2>1. /\ Cancel(op) /\ ~submitting /\ UNCHANGED <<kern, cq, submitting, won>>
          /\ sq' = Append(sq, CancelEntry(AllocIndex(cancel_slab, free_cancels),
                                          next_id, op))
      BY <1>1 DEF UringCancel
    <2> QED
      BY <2>1, CancelRing DEF Next, User
  <1>2. CASE SqFull
    <2>1. CancelRefused(op) /\ UNCHANGED ringVars /\ ~submitting
      BY <1>2 DEF UringCancel
    <2>2. UNCHANGED <<io_slab, at, cur, done_ran>> /\ at # "dropped"
          /\ UNCHANGED <<sq, kern, cq, submitting, won>>
      BY <2>1 DEF CancelRefused, ringVars, UserCode, slabVars
    <2>3. Ops' = Ops
      BY <2>2 DEF Ops
    <2>4. SubmitInv'
      BY <2>1, <2>2 DEF SubmitInv
    <2> QED
      BY <2>1, <2>2, <2>3, <2>4, SameRing DEF Next, User
  <1> QED
    BY <1>1, <1>2

\* Callbacks return: with the cancel callback's return its op leaves the slab.
LEMMA UringReturnRing ==
  ASSUME IInv, HInv, RingInv, UringReturn
  PROVE  RingInv' /\ [Next]_vars
  <1>1. ~submitting /\ UNCHANGED <<sq, kern, cq, submitting, won>>
    BY DEF UringReturn, ringVars
  <1>2. SubmitInv'
    BY <1>1 DEF SubmitInv
  <1>3. CASE UserReturn
    <2>1. UNCHANGED <<io_slab, cur, done_ran>> /\ at # "dropped"
      BY <1>3 DEF UserReturn, slabVars, history
    <2>2. Ops' = Ops
      BY <2>1 DEF Ops
    <2> QED
      BY <1>1, <1>2, <1>3, <2>1, <2>2, SameRing DEF Next, User
  <1>4. CASE CancelCbReturn
    <2> DEFINE i == cur.slot
    <2>1. /\ i \in 1..Len(io_slab) /\ ~IsFree(io_slab[i])
          /\ io_slab[i].id = cur.id /\ at = "cancel_cb"
      BY <1>4 DEF IInv, CurInv, CancelCbReturn
    <2>2. FreeAndCall(i) /\ done_ran' = done_ran
      BY <1>4 DEF CancelCbReturn
    <2>3. cur = [slot |-> i, id |-> io_slab[i].id]
      BY <2>1 DEF IInv, Types, Op
    <2>4. cur' = NoOp
      BY <2>2 DEF FreeAndCall
    <2> HIDE DEF i
    <2>5. cur \in Ops /\ Ops' = Ops \ {cur}
      BY <2>1, <2>2, <2>3, FreeOpLive
    <2>6. Ops' \ {cur'} = Ops \ {cur}
      BY <2>4, <2>5, OpsFacts
    <2>7. at # "dropped"
      BY <2>1
    <2> QED
      BY <1>1, <1>2, <1>4, <2>2, <2>6, <2>7, SameRing DEF Next, User
  <1> QED
    BY <1>3, <1>4 DEF UringReturn

\* The steps of the drive loop and the calls that leave the slabs alone.
LEMMA UringControlRing ==
  ASSUME IInv, RingInv, UringSubmit \/ UringPanic \/ UringDrainEmpty
                        \/ UringWaitOk \/ UringWaitErr
  PROVE  RingInv' /\ [Next]_vars
  <1>1. UNCHANGED <<io_slab, cur, done_ran, sq, kern, cq, won>>
    BY DEF UringSubmit, UringPanic, UringDrainEmpty, UringWaitOk, UringWaitErr,
           Panic, DrainEmpty, WaitOk, WaitErr, ringVars, vars, slabVars, history
  <1>2. at # "dropped"
    BY PanicInAssumption DEF UringSubmit, UringPanic, UringDrainEmpty,
       UringWaitOk, UringWaitErr, Panic, DrainEmpty, WaitOk, WaitErr, UserCode
  <1>3. Ops' = Ops
    BY <1>1 DEF Ops
  <1>4. SubmitInv'
    BY <1>1 DEF UringSubmit, UringPanic, UringDrainEmpty, UringWaitOk,
      UringWaitErr, DrainEmpty, SubmitInv, ringVars, vars
  <1>5. [Next]_vars
    BY DEF UringSubmit, UringPanic, UringDrainEmpty, UringWaitOk, UringWaitErr,
           Next, User, Drive
  <1> QED
    BY <1>1, <1>2, <1>3, <1>4, <1>5, SameRing

\* begin_teardown closes the ring.
LEMMA UringDropRing ==
  ASSUME IInv, RingInv, UringDrop
  PROVE  RingInv' /\ [Next]_vars
  <1>1. /\ Drop /\ sq' = <<>> /\ kern' = {} /\ cq' = <<>>
        /\ UNCHANGED <<submitting, won, done_ran>> /\ at' = "dropped"
    BY DEF UringDrop, Drop
  <1>2. ~submitting
    BY <1>1 DEF RingInv, SubmitInv, Drop, UserCode
  <1>3. OpPos(<<>>) = {}
    BY DEF OpPos
  <1>4. RingTypes' /\ SubmitInv' /\ CancelHitsItsTarget'
    BY <1>1, <1>2 DEF RingTypes, SubmitInv, CancelHitsItsTarget
  <1>5. StopInv'
    BY <1>1, <1>3 DEF RingInv, StopInv, OnlyStopped
  <1>6. PlaceInv'
    BY <1>1, <1>3 DEF PlaceInv, Handles, KernHandles, Distinct
  <1> QED
    BY <1>1, <1>4, <1>5, <1>6 DEF RingInv, Next, Drive

\* A step that changes nothing at all.
LEMMA UringStutterRing ==
  ASSUME RingInv, UNCHANGED <<vars, ringVars>>
  PROVE  RingInv'
  <1>1. UNCHANGED <<sq, kern, cq, submitting, won>>
    BY DEF ringVars
  <1>2. Ops' = Ops /\ UNCHANGED <<at, cur, done_ran>>
    BY KernelKeeps
  <1>3. KernHandles' = KernHandles
    BY <1>1 DEF KernHandles
  <1>4. RingTypes' /\ SubmitInv' /\ StopInv'
    BY <1>1, <1>2 DEF RingInv, RingTypes, SubmitInv, StopInv
  <1>5. PlaceInv'
    BY <1>1, <1>2, <1>3 DEF RingInv, PlaceInv
  <1>6. CancelHitsItsTarget'
    BY <1>1 DEF RingInv, CancelHitsItsTarget, Victims
  <1> QED
    BY <1>4, <1>5, <1>6 DEF RingInv

\* Every step preserves the ring's invariant, and is a step of the runtime
\* over an arbitrary backend or leaves the runtime alone.
LEMMA UringNextRing ==
  ASSUME IInv, HInv, RingInv, [UringNext]_allVars
  PROVE  RingInv' /\ [Next]_vars
  <1>1. CASE UringArm
    BY <1>1, UringArmRing
  <1>2. ASSUME NEW op \in issued, UringCancel(op)
        PROVE  RingInv' /\ [Next]_vars
    BY <1>2, UringCancelRing
  <1>3. CASE UringReturn
    BY <1>3, UringReturnRing
  <1>4. CASE UringSubmit \/ UringPanic \/ UringDrainEmpty \/ UringWaitOk
             \/ UringWaitErr
    BY <1>4, UringControlRing
  <1>5. CASE KernelSubmit
    BY <1>5, KernelSubmitRing DEF KernelSubmit
  <1>6. ASSUME NEW v \in kern, KernelFinish(v)
        PROVE  RingInv' /\ [Next]_vars
    BY <1>6, KernelFinishRing DEF KernelFinish
  <1>7. CASE UringTake
    BY <1>7, UringTakeRing
  <1>8. CASE UringDrop
    BY <1>8, UringDropRing
  <1>9. CASE UNCHANGED allVars \/ (Dropped /\ UNCHANGED ringVars)
    <2>1. UNCHANGED <<vars, ringVars>>
      BY <1>9 DEF allVars, Dropped
    <2> QED
      BY <2>1, UringStutterRing
  <1> QED
    BY <1>1, <1>2, <1>3, <1>4, <1>5, <1>6, <1>7, <1>8, <1>9 DEF UringNext

\* Nothing happens to the slab while a panic unwinds.
LEMMA NextUnwind ==
  ASSUME IInv, HInv, UnwindInv, [Next]_vars
  PROVE  UnwindInv'
  <1> SUFFICES ASSUME at' = "unwinding" PROVE (cur = NoOp \/ cur \in Ops)'
    BY DEF UnwindInv
  <1>1. CASE Panic
    <2>1. cur = NoOp \/ cur \in Ops
      BY <1>1, PanicInAssumption
         DEF IInv, CurInv, HInv, CallInv, Panic, UserCode
    <2> QED
      BY <1>1, <2>1 DEF Panic, slabVars, Ops
  <1>2. CASE RejectCompletion
    BY <1>2 DEF RejectCompletion, IInv, CurInv, slabVars
  <1>3. CASE UNCHANGED vars
    BY <1>3, KernelKeeps DEF UnwindInv
  <1> QED
    BY <1>1, <1>2, <1>3
       DEF Next, User, TakeCompletion, Drive, RegisterOp, RegisterOpRefused,
           Cancel, CancelRefused, CancelCbReturn, UserReturn, CompleteOp,
           CompleteOpCancelLost, CompleteOpCancelWon, CompleteCancelIgnored,
           CompleteCancelFailed, DrainEmpty, WaitOk, WaitErr, Drop, Dropped,
           FreeAndCall, UserCode

\* The op complete_op works on, if any, is live until the runtime is gone.
LEMMA CurLive ==
  ASSUME IInv, HInv, UnwindInv, at # "dropped"
  PROVE  cur = NoOp \/ cur \in Ops
  BY DEF IInv, CurInv, HInv, CallInv, UnwindInv

\* The runtime over io_uring satisfies all the invariants.
LEMMA UringHolds == UringSpec => [](IInv /\ HInv /\ UnwindInv /\ RingInv)
  <1> DEFINE All == IInv /\ HInv /\ UnwindInv /\ RingInv
  <1>1. UringInit => All
    <2> SUFFICES ASSUME UringInit PROVE All
      OBVIOUS
    <2>1. IInv /\ HInv
      BY InitIInv, InitHInv DEF UringInit
    <2>8. UnwindInv
      BY DEF UringInit, Init, UnwindInv
    <2>2. /\ sq = <<>> /\ kern = {} /\ cq = <<>> /\ submitting = FALSE
          /\ won = {} /\ done_ran = {} /\ io_slab = <<>>
      BY DEF UringInit, Init
    <2>3. OpPos(<<>>) = {}
      BY DEF OpPos
    <2>4. Ops = {}
      BY <2>2 DEF Ops, Live, LiveSlots
    <2>5. RingTypes /\ SubmitInv /\ CancelHitsItsTarget
      BY <2>2 DEF RingTypes, SubmitInv, CancelHitsItsTarget
    <2>6. StopInv
      BY <2>2, <2>3 DEF StopInv, OnlyStopped
    <2>7. PlaceInv
      BY <2>2, <2>3, <2>4 DEF PlaceInv, Handles, KernHandles, Distinct
    <2> QED
      BY <2>1, <2>5, <2>6, <2>7, <2>8 DEF RingInv
  <1>2. All /\ [UringNext]_allVars => All'
    <2> SUFFICES ASSUME IInv, HInv, UnwindInv, RingInv, [UringNext]_allVars
                 PROVE  IInv' /\ HInv' /\ UnwindInv' /\ RingInv'
      OBVIOUS
    <2>1. RingInv' /\ [Next]_vars
      BY UringNextRing
    <2>2. UnwindInv'
      BY <2>1, NextUnwind
    <2> QED
      BY <2>1, <2>2, NextIInv, NextHInv
  <1> QED
    BY <1>1, <1>2, PTL DEF UringSpec

-----------------------------------------------------------------------------
(* io_uring: theorems.                                                     *)

\* Whatever the order in which requests, cancels and completions pass through
\* the ring, and however slots are recycled, every live op has exactly one
\* request or completion under way: no completion is applied to a later op,
\* although user_data does not carry the id.
THEOREM RequestsMatchOps == UringSpec => []OneRequestPerOp
  <1>1. IInv /\ HInv /\ UnwindInv /\ RingInv => OneRequestPerOp
    <2> SUFFICES ASSUME IInv, HInv, UnwindInv, RingInv, at # "dropped",
                        NEW i \in DOMAIN io_slab
                 PROVE  {r.id : r \in RequestsFor(i)} =
                          IF IsFree(io_slab[i]) \/ i = cur.slot
                          THEN {} ELSE {io_slab[i].id}
      BY DEF OneRequestPerOp
    <2> DEFINE H == Handles(sq) \union KernHandles \union Handles(cq)
               R == RequestsFor(i)
    <2>1. DOMAIN sq = 1..Len(sq) /\ DOMAIN cq = 1..Len(cq)
          /\ DOMAIN io_slab = 1..Len(io_slab)
      BY DEF RingInv, RingTypes, IInv, Types
    <2>2. \A r \in R : HandleOf(r) \in H /\ r.slot = i
      BY <2>1 DEF RequestsFor, Handles, KernHandles, OpPos
    <2>3. \A h \in H : h.slot = i => \E r \in R : h = HandleOf(r)
      BY <2>1 DEF RequestsFor, Handles, KernHandles, OpPos, HandleOf
    <2>4. H = Ops \ {cur}
      BY DEF RingInv, PlaceInv
    <2> HIDE DEF H, R
    <2>5. \A r : HandleOf(r).id = r.id /\ HandleOf(r).slot = r.slot
      BY DEF HandleOf
    <2>6. {r.id : r \in R} = {h.id : h \in {g \in Ops \ {cur} : g.slot = i}}
      BY <2>2, <2>3, <2>4, <2>5
    <2>7. \A h \in Ops : h.slot = i =>
            ~IsFree(io_slab[i]) /\ h = [slot |-> i, id |-> io_slab[i].id]
      BY LiveMember DEF Ops
    <2>8. ~IsFree(io_slab[i]) => [slot |-> i, id |-> io_slab[i].id] \in Ops
      BY <2>1, LiveMember DEF Ops
    <2>9. CASE IsFree(io_slab[i])
      BY <2>6, <2>7, <2>9 DEF R
    <2>10. CASE ~IsFree(io_slab[i])
      <3>1. cur.slot = i <=> [slot |-> i, id |-> io_slab[i].id] = cur
        <4>1. i # NoOp.slot /\ (cur = NoOp \/ cur \in Ops)
          BY <2>1, CurLive DEF NoOp
        <4> QED
          BY <2>7, <4>1
      <3>2. CASE i = cur.slot
        <4>1. {g \in Ops \ {cur} : g.slot = i} = {}
          BY <2>7, <3>1, <3>2
        <4> QED
          BY <2>6, <3>2, <4>1 DEF R
      <3>3. CASE i # cur.slot
        <4>1. {g \in Ops \ {cur} : g.slot = i}
                = {[slot |-> i, id |-> io_slab[i].id]}
          BY <2>7, <2>8, <2>10, <3>1, <3>3
        <4>2. {r.id : r \in R} = {io_slab[i].id}
          <5> DEFINE g == [slot |-> i, id |-> io_slab[i].id]
          <5>1. {r.id : r \in R} = {h.id : h \in {g}} /\ g.id = io_slab[i].id
            BY <2>6, <4>1
          <5> HIDE DEF g
          <5> QED
            BY <5>1
        <4> QED
          BY <2>10, <3>3, <4>2 DEF R
      <3> QED
        BY <3>2, <3>3
    <2> QED
      BY <2>9, <2>10
  <1> QED
    BY <1>1, UringHolds, PTL

\* An ASYNC_CANCEL stops the op it was submitted for and no later op that was
\* given its slot, for every size of the submission queue.
THEOREM CancelsHitTheirTarget == UringSpec => []CancelHitsItsTarget
  <1>1. IInv /\ HInv /\ UnwindInv /\ RingInv => CancelHitsItsTarget
    BY DEF RingInv
  <1> QED
    BY <1>1, UringHolds, PTL

\* Only an op the kernel stopped is ever reported as Cancelled.
THEOREM OnlyStoppedAreCancelled == UringSpec => []CancelledWereStopped
  <1>1. IInv /\ HInv /\ UnwindInv /\ RingInv => CancelledWereStopped
    BY DEF HInv, CallInv, RingInv, StopInv, CancelledWereStopped
  <1> QED
    BY <1>1, UringHolds, PTL

-----------------------------------------------------------------------------
(* Readiness: the inductive invariant.                                     *)

Dones == [kind : {"op", "cancel"}, slot : Nat]

\* Where the queue has completions of ops, and the slots they name.
DonePos(q) == {k \in 1..Len(q) : q[k].kind = "op"}
OpSlots(q) == {q[k].slot : k \in DonePos(q)}

\* No slot is named twice.
OnePerSlot(q) == \A k, l \in DonePos(q) : q[k].slot = q[l].slot => k = l

SlotsOf(handles) == {h.slot : h \in handles}

\* Every slot in use but the one complete_op works on is in the table or in
\* the queue, and no slot is in both.
HoldInv ==
  /\ ready \in Seq(Dones)
  /\ at # "dropped" => pending \union OpSlots(ready) = SlotsOf(Ops) \ {cur.slot}
  /\ pending \intersect OpSlots(ready) = {}
  /\ OnePerSlot(ready)

\* An op in the table has not been cancelled; a cancelled op that was called
\* had its cancel callback run first.
WonInv ==
  /\ removed \subseteq Given
  /\ \A h \in Ops : h.slot \in pending => h.id \notin removed
  /\ removed \intersect called \subseteq done_ran

MioInv == HoldInv /\ WonInv

-----------------------------------------------------------------------------
(* Readiness: the queue of decided completions.                            *)

\* cancel pushes its own completion and then the op's.
Posted(q, c, i, q2) == q2 = q \o <<CancelDone(c), OpCompletion(i)>>

\* The queue after cancel holds one op more, and still each op once.
LEMMA PostSlots ==
  ASSUME NEW q \in Seq(Dones), NEW c \in Nat, NEW i \in Nat, NEW q2,
         Posted(q, c, i, q2), OnePerSlot(q), i \notin OpSlots(q)
  PROVE  /\ q2 \in Seq(Dones) /\ OpSlots(q2) = OpSlots(q) \union {i}
         /\ OnePerSlot(q2)
  <1> DEFINE a == CancelDone(c)
             b == OpCompletion(i)
  <1>1. /\ a \in Dones /\ b \in Dones /\ a.kind = "cancel" /\ b.kind = "op"
        /\ b.slot = i
    BY DEF CancelDone, OpCompletion, Dones
  <1>2. q2 = q \o <<a, b>>
    BY DEF Posted
  <1> HIDE DEF a, b
  <1>3. /\ q2 \in Seq(Dones) /\ Len(q) \in Nat /\ Len(q2) = Len(q) + 2
        /\ \A k \in 1..Len(q) : q2[k] = q[k]
        /\ q2[Len(q) + 1] = a /\ q2[Len(q) + 2] = b
    BY <1>1, <1>2
  <1>4. DonePos(q2) = DonePos(q) \union {Len(q) + 2}
    BY <1>1, <1>3 DEF DonePos
  <1>5. \A k \in DonePos(q) : q2[k] = q[k]
    BY <1>3 DEF DonePos
  <1>6. OpSlots(q2) = OpSlots(q) \union {i}
    BY <1>1, <1>3, <1>4, <1>5 DEF OpSlots
  <1>7. OnePerSlot(q2)
    <2>1. \A k \in DonePos(q) : q2[k].slot # i
      BY <1>5 DEF OpSlots
    <2> QED
      BY <1>1, <1>3, <1>4, <1>5, <2>1 DEF OnePerSlot
  <1> QED
    BY <1>3, <1>6, <1>7

\* Taking the oldest completion removes the slot it names, if it is an op's.
LEMMA TakeSlots ==
  ASSUME NEW q \in Seq(Dones), q # <<>>, OnePerSlot(q)
  PROVE  /\ Tail(q) \in Seq(Dones) /\ OnePerSlot(Tail(q))
         /\ Head(q).kind = "op" =>
              /\ Head(q).slot \in OpSlots(q)
              /\ OpSlots(Tail(q)) = OpSlots(q) \ {Head(q).slot}
         /\ Head(q).kind # "op" => OpSlots(Tail(q)) = OpSlots(q)
  <1> DEFINE e == Head(q)
             q2 == Tail(q)
  <1>1. /\ q2 \in Seq(Dones) /\ Len(q2) = Len(q) - 1 /\ Len(q) \in Nat \ {0}
        /\ e = q[1] /\ e \in Dones
        /\ \A k \in 1..Len(q2) : k + 1 \in 2..Len(q) /\ q2[k] = q[k + 1]
    OBVIOUS
  <1> HIDE DEF e, q2
  <1>2. \A k \in DonePos(q2) : k + 1 \in DonePos(q) /\ k + 1 # 1 /\ q2[k] = q[k + 1]
                             /\ k \in Nat
    BY <1>1 DEF DonePos
  <1>3. \A k \in DonePos(q) : k # 1 => k - 1 \in DonePos(q2) /\ q2[k - 1] = q[k]
    <2> SUFFICES ASSUME NEW k \in DonePos(q), k # 1
                 PROVE  k - 1 \in DonePos(q2) /\ q2[k - 1] = q[k]
      OBVIOUS
    <2>1. k \in 2..Len(q) /\ q[k].kind = "op"
      BY <1>1 DEF DonePos
    <2>2. k - 1 \in 1..Len(q2) /\ (k - 1) + 1 = k
      BY <1>1, <2>1
    <2> QED
      BY <1>1, <2>1, <2>2 DEF DonePos
  <1>4. OnePerSlot(q2)
    <2> SUFFICES ASSUME NEW k \in DonePos(q2), NEW l \in DonePos(q2),
                        q2[k].slot = q2[l].slot
                 PROVE  k = l
      BY DEF OnePerSlot
    <2>1. k + 1 = l + 1 /\ k \in Nat /\ l \in Nat
      BY <1>2 DEF OnePerSlot
    <2> QED
      BY <2>1
  <1>5. \A s \in OpSlots(q2) : \E k \in DonePos(q) : k # 1 /\ s = q[k].slot
    BY <1>2 DEF OpSlots
  <1>6. \A k \in DonePos(q) : k # 1 => q[k].slot \in OpSlots(q2)
    BY <1>3 DEF OpSlots
  <1>7. e.kind = "op" <=> 1 \in DonePos(q)
    BY <1>1 DEF DonePos
  <1>8. ASSUME e.kind = "op"
        PROVE  e.slot \in OpSlots(q) /\ OpSlots(q2) = OpSlots(q) \ {e.slot}
    <2>1. 1 \in DonePos(q) /\ e = q[1]
      BY <1>1, <1>7, <1>8
    <2>2. \A k \in DonePos(q) : k # 1 => q[k].slot # e.slot
      BY <2>1 DEF OnePerSlot
    <2>3. OpSlots(q2) \subseteq OpSlots(q) \ {e.slot}
      BY <1>5, <2>2 DEF OpSlots
    <2>4. OpSlots(q) \ {e.slot} \subseteq OpSlots(q2)
      BY <1>6, <2>1 DEF OpSlots
    <2> QED
      BY <2>1, <2>3, <2>4 DEF OpSlots
  <1>9. ASSUME e.kind # "op" PROVE OpSlots(q2) = OpSlots(q)
    <2>1. \A k \in DonePos(q) : k # 1
      BY <1>7, <1>9
    <2>2. OpSlots(q2) \subseteq OpSlots(q)
      BY <1>5 DEF OpSlots
    <2>3. OpSlots(q) \subseteq OpSlots(q2)
      BY <1>6, <2>1 DEF OpSlots
    <2> QED
      BY <2>2, <2>3
  <1> QED
    BY <1>1, <1>4, <1>8, <1>9 DEF e, q2

-----------------------------------------------------------------------------
(* Readiness: slots in use.                                                *)

\* Live ops have slots of their own, and slot 0 is no op's.
LEMMA SlotFact ==
  ASSUME IInv
  PROVE  /\ \A g, h \in Ops : g.slot = h.slot => g = h
         /\ 0 \notin SlotsOf(Ops)
  <1>1. \A h \in Ops : h.slot \in 1..Len(io_slab)
                       /\ h = [slot |-> h.slot, id |-> io_slab[h.slot].id]
    BY LiveMember DEF Ops
  <1>2. \A g, h \in Ops : g.slot = h.slot => g = h
    BY <1>1
  <1>3. \A h \in Ops : h.slot # 0
    BY <1>1
  <1> QED
    BY <1>2, <1>3 DEF SlotsOf

\* Taking an op out of the slab takes out its slot.
LEMMA SlotsRemove ==
  ASSUME IInv, NEW h \in Ops
  PROVE  SlotsOf(Ops \ {h}) = SlotsOf(Ops) \ {h.slot}
  <1>1. \A g \in Ops : g.slot = h.slot => g = h
    BY SlotFact
  <1> QED
    BY <1>1 DEF SlotsOf

\* A slot in use holds a live op.
LEMMA SlotLive ==
  ASSUME IInv, NEW i \in SlotsOf(Ops), NEW h,
         h = [slot |-> i, id |-> io_slab[i].id]
  PROVE  i \in 1..Len(io_slab) /\ ~IsFree(io_slab[i]) /\ h \in Ops /\ h.slot = i
         /\ h.id = io_slab[i].id
  <1>1. PICK g \in Ops : g.slot = i
    BY DEF SlotsOf
  <1>2. PICK j \in 1..Len(io_slab) :
          ~IsFree(io_slab[j]) /\ g = [slot |-> j, id |-> io_slab[j].id]
    BY LiveMember DEF Ops
  <1>3. i = j
    BY <1>1, <1>2
  <1> QED
    BY <1>1, <1>2, <1>3

-----------------------------------------------------------------------------
(* Readiness: the steps.                                                   *)

\* A step that leaves the backend, the ops' slots and the callbacks alone.
LEMMA SameHold ==
  ASSUME MioInv, at # "dropped", UNCHANGED <<pending, ready, removed>>,
         SlotsOf(Ops') \ {cur'.slot} = SlotsOf(Ops) \ {cur.slot}, Ops' \subseteq Ops,
         UNCHANGED done_ran, Given \subseteq Given',
         removed \intersect called' \subseteq done_ran
  PROVE  MioInv'
  <1>1. HoldInv'
    BY DEF MioInv, HoldInv
  <1>2. WonInv'
    BY DEF MioInv, WonInv
  <1> QED
    BY <1>1, <1>2 DEF MioInv

\* arm: the new op goes into the table, with an id no cancel has seen.
LEMMA MioArmHolds ==
  ASSUME IInv, HInv, MioInv, MioArm
  PROVE  MioInv' /\ [Next]_vars
  <1>1. CASE RegisterOpRefused /\ UNCHANGED mioVars
    <2>1. Ops' = Ops
      BY <1>1, RegisterOpRefusedLive
    <2>2. /\ UNCHANGED <<at, cur, called, done_ran, pending, ready, removed>>
          /\ at # "dropped" /\ next_id' = next_id + 1
      BY <1>1 DEF RegisterOpRefused, mioVars, UserCode
    <2>3. Given \subseteq Given'
      BY <2>2, GivenNext DEF IInv, Types
    <2>4. MioInv'
      BY <2>1, <2>2, <2>3, SameHold DEF MioInv, WonInv
    <2> QED
      BY <1>1, <2>4 DEF Next, User
  <1>2. CASE RegisterOp
    <2> DEFINE i == AllocIndex(io_slab, free_slots)
               h == [slot |-> i, id |-> next_id]
    <2>1. Ops' = Ops \union {h}
      BY <1>2, RegisterOpLive
    <2>2. /\ UNCHANGED <<at, cur, called, done_ran>> /\ at # "dropped"
          /\ next_id' = next_id + 1
      BY <1>2 DEF RegisterOp, UserCode
    <2>3. pending' = pending \union {i} /\ UNCHANGED <<ready, removed>>
      BY <1>2 DEF MioArm, RegisterOp, RegisterOpRefused
    <2>4. i \in 1..Len(io_slab') /\ h.slot = i /\ h.id = next_id
      BY <1>2, RegisterOpLive
    <2>5. i \notin SlotsOf(Ops)
      <3>1. i \in 1..Len(io_slab) => IsFree(io_slab[i])
        BY AllocFree DEF IInv, Types, SlabInv
      <3> HIDE DEF i
      <3> QED
        BY <3>1, SlotLive
    <2>6. cur.slot # i
      <3>1. CASE at = "cancel_cb"
        BY <2>5, <3>1 DEF HInv, CallInv, SlotsOf
      <3>2. CASE at # "cancel_cb"
        BY <1>2, <2>4, <3>2 DEF RegisterOp, UserCode, IInv, CurInv, NoOp
      <3> QED
        BY <3>1, <3>2
    <2>7. Given' = Given \union {next_id} /\ next_id \notin Given
      BY <2>2, GivenNext
    <2> HIDE DEF i, h
    <2>8. SlotsOf(Ops') = SlotsOf(Ops) \union {i}
      BY <2>1, <2>4 DEF SlotsOf
    <2>9. i \notin OpSlots(ready)
      BY <2>2, <2>5 DEF MioInv, HoldInv
    <2>10. HoldInv'
      BY <2>2, <2>3, <2>6, <2>8, <2>9 DEF MioInv, HoldInv
    <2>11. WonInv'
      <3>1. \A g \in Ops : g.slot # i
        BY <2>5 DEF SlotsOf
      <3> QED
        BY <2>1, <2>2, <2>3, <2>4, <2>7, <3>1 DEF MioInv, WonInv
    <2> QED
      BY <1>2, <2>10, <2>11 DEF MioInv, Next, User
  <1> QED
    BY <1>1, <1>2 DEF MioArm

\* cancel: an op in the table goes to the queue; for any other, EAGAIN.
LEMMA MioCancelHolds ==
  ASSUME IInv, HInv, MioInv, NEW op \in issued, MioCancel(op)
  PROVE  MioInv' /\ [Next]_vars
  <1>1. CASE CancelRefused(op) /\ UNCHANGED mioVars
    <2>1. /\ UNCHANGED <<io_slab, at, cur, called, done_ran, pending, ready, removed>>
          /\ at # "dropped" /\ next_id' = next_id + 1
      BY <1>1 DEF CancelRefused, mioVars, UserCode, slabVars
    <2>2. Ops' = Ops
      BY <2>1 DEF Ops
    <2>3. Given \subseteq Given'
      BY <2>1, GivenNext
    <2>4. MioInv'
      BY <2>1, <2>2, <2>3, SameHold DEF MioInv, WonInv
    <2> QED
      BY <1>1, <2>4 DEF Next, User
  <1>2. CASE op.slot \in pending /\ Cancel(op)
    <2> DEFINE c == AllocIndex(cancel_slab, free_cancels)
    <2>1. Ops' = Ops /\ op \in Ops
      BY <1>2, CancelLive
    <2>2. /\ UNCHANGED <<at, cur, called, done_ran>> /\ at # "dropped"
          /\ next_id' = next_id + 1
      BY <1>2 DEF Cancel, UserCode, history
    <2>3. /\ pending' = pending \ {op.slot} /\ removed' = removed \union {op.id}
          /\ Posted(ready, c, op.slot, ready')
      BY <1>2 DEF MioCancel, Posted
    <2>4. c \in Nat
      <3>1. cancel_slab \in Seq(CancelSlot) /\ free_cancels \in Seq(Nat)
            /\ FreeStackOK(cancel_slab, free_cancels)
        BY DEF IInv, Types, SlabInv
      <3>2. Len(cancel_slab) \in Nat /\ Len(free_cancels) \in Nat
        BY <3>1
      <3> QED
        BY <3>1, <3>2, IndexFacts
    <2>5. /\ op.slot \in Nat /\ ready \in Seq(Dones) /\ OnePerSlot(ready)
          /\ op.slot \notin OpSlots(ready)
      BY <1>2 DEF IInv, Types, Op, MioInv, HoldInv
    <2> HIDE DEF c
    <2>6. /\ ready' \in Seq(Dones) /\ OnePerSlot(ready')
          /\ OpSlots(ready') = OpSlots(ready) \union {op.slot}
      BY <2>3, <2>4, <2>5, PostSlots
    <2>7. HoldInv'
      BY <1>2, <2>1, <2>2, <2>3, <2>6 DEF MioInv, HoldInv
    <2>8. op.id \in Given /\ op.id \notin called /\ Given \subseteq Given'
      <3>1. Given \subseteq Given'
        BY <2>2, GivenNext
      <3> QED
        BY <2>1, <3>1 DEF HInv, IssuedInv, CallInv
    <2>9. \A g \in Ops : g.slot # op.slot => g.id # op.id
      BY <2>1 DEF HInv, IdInv
    <2>10. WonInv'
      <3>1. removed' \subseteq Given'
        BY <2>3, <2>8 DEF MioInv, WonInv
      <3>2. \A g \in Ops' : g.slot \in pending' => g.id \notin removed'
        BY <2>1, <2>3, <2>9 DEF MioInv, WonInv
      <3>3. removed' \intersect called' \subseteq done_ran'
        BY <2>2, <2>3, <2>8 DEF MioInv, WonInv
      <3> QED
        BY <3>1, <3>2, <3>3 DEF WonInv
    <2> QED
      BY <1>2, <2>7, <2>10 DEF MioInv, Next, User
  <1> QED
    BY <1>1, <1>2 DEF MioCancel

\* A decided completion leaves the queue: an op's cancel callback starts.
LEMMA TakeReadyHolds ==
  ASSUME IInv, HInv, MioInv, TakeReady
  PROVE  MioInv' /\ [Next]_vars
  <1> DEFINE e == Head(ready)
             i == e.slot
  <1>1. /\ at = "drain" /\ ready # <<>> /\ ready' = Tail(ready)
        /\ UNCHANGED <<pending, removed>>
    BY DEF TakeReady
  <1>2. cur.slot = 0 /\ 0 \notin SlotsOf(Ops)
    BY <1>1, SlotFact DEF IInv, CurInv, NoOp
  <1>3. /\ ready' \in Seq(Dones) /\ OnePerSlot(ready')
        /\ e.kind = "op" => /\ i \in OpSlots(ready)
                            /\ OpSlots(ready') = OpSlots(ready) \ {i}
        /\ e.kind # "op" => OpSlots(ready') = OpSlots(ready)
    BY <1>1, TakeSlots DEF MioInv, HoldInv
  <1> HIDE DEF e, i
  <1>4. CASE e.kind = "op" /\ CompleteOpCancelWon(i)
    <2>1. /\ UNCHANGED <<io_slab, next_id, called>> /\ at' = "cancel_cb"
          /\ cur'.slot = i /\ done_ran \subseteq done_ran'
          /\ i \in DOMAIN io_slab
      BY <1>4 DEF CompleteOpCancelWon, slabVars, LiveSlot
    <2>2. Ops' = Ops /\ Given' = Given
      BY <2>1 DEF Ops, Given
    <2>3. HoldInv'
      BY <1>1, <1>2, <1>3, <1>4, <2>1, <2>2 DEF MioInv, HoldInv
    <2>4. WonInv'
      BY <1>1, <2>1, <2>2 DEF MioInv, WonInv
    <2> QED
      BY <1>4, <2>1, <2>3, <2>4 DEF MioInv, Next, TakeCompletion
  <1>5. CASE e.kind = "cancel" /\ CompleteCancelIgnored(i, 0)
    <2>1. UNCHANGED vars
      BY <1>5 DEF CompleteCancelIgnored
    <2>2. UNCHANGED <<io_slab, next_id, called, at, cur, done_ran>>
      BY <2>1 DEF vars, slabVars, history
    <2>3. Ops' = Ops /\ Given' = Given
      BY <2>2 DEF Ops, Given
    <2>4. HoldInv'
      BY <1>1, <1>3, <1>5, <2>2, <2>3 DEF MioInv, HoldInv
    <2>5. WonInv'
      BY <1>1, <2>2, <2>3 DEF MioInv, WonInv
    <2> QED
      BY <2>1, <2>4, <2>5 DEF MioInv
  <1> QED
    BY <1>4, <1>5 DEF TakeReady, e, i

\* An armed op's syscall goes through: it leaves the table and the slab.
LEMMA TakeEventHolds ==
  ASSUME IInv, HInv, MioInv, TakeEvent
  PROVE  MioInv' /\ [Next]_vars
  <1> DEFINE h == [slot |-> event, id |-> io_slab[event].id]
  <1>1. /\ at = "drain" /\ event \in pending /\ pending' = pending \ {event}
        /\ CompleteOp(event, FALSE) /\ UNCHANGED <<ready, removed>>
    BY DEF TakeEvent
  <1>2. cur.slot = 0 /\ 0 \notin SlotsOf(Ops)
    BY <1>1, SlotFact DEF IInv, CurInv, NoOp
  <1>3. event \in SlotsOf(Ops) /\ event \notin OpSlots(ready)
    BY <1>1 DEF MioInv, HoldInv
  <1>4. /\ event \in 1..Len(io_slab) /\ ~IsFree(io_slab[event])
        /\ h.slot = event /\ h.id = io_slab[event].id /\ h \in Ops
    BY <1>3, SlotLive
  <1>5. /\ FreeAndCall(event) /\ UNCHANGED <<next_id, done_ran>>
        /\ called' = called \union {io_slab[event].id} /\ at' = "op_cb"
        /\ cur'.slot = 0
    BY <1>1 DEF CompleteOp, FreeAndCall, NoOp
  <1>6. Ops' = Ops \ {h}
    BY <1>4, <1>5, FreeOpLive
  <1> HIDE DEF h
  <1>7. SlotsOf(Ops') = SlotsOf(Ops) \ {event}
    BY <1>4, <1>6, SlotsRemove
  <1>8. HoldInv'
    BY <1>1, <1>2, <1>3, <1>5, <1>7 DEF MioInv, HoldInv
  <1>9. h.id \notin removed /\ Given' = Given
    BY <1>1, <1>4, <1>5 DEF MioInv, WonInv, Given
  <1>10. WonInv'
    BY <1>1, <1>4, <1>5, <1>6, <1>9 DEF MioInv, WonInv
  <1>11. TakeCompletion
    <2>1. event \in DOMAIN io_slab /\ FALSE \in BOOLEAN
      BY <1>4 DEF IInv, Types
    <2>2. \E i \in DOMAIN io_slab : \E f \in BOOLEAN : CompleteOp(i, f)
      BY <1>1, <2>1
    <2> QED
      BY <2>2 DEF TakeCompletion
  <1> QED
    BY <1>8, <1>10, <1>11 DEF MioInv, Next

\* Callbacks return: with the cancel callback's return its op leaves the slab.
LEMMA MioReturnHolds ==
  ASSUME IInv, HInv, MioInv, MioReturn
  PROVE  MioInv' /\ [Next]_vars
  <1>1. UNCHANGED <<pending, ready, removed>>
    BY DEF MioReturn, mioVars
  <1>2. CASE UserReturn
    <2>1. UNCHANGED <<io_slab, cur, done_ran, next_id, called>> /\ at # "dropped"
      BY <1>2 DEF UserReturn, slabVars, history
    <2>2. Ops' = Ops /\ Given' = Given
      BY <2>1 DEF Ops, Given
    <2>3. MioInv'
      BY <1>1, <2>1, <2>2, SameHold DEF MioInv, WonInv
    <2> QED
      BY <1>2, <2>3 DEF Next, User
  <1>3. CASE CancelCbReturn
    <2> DEFINE i == cur.slot
    <2>1. /\ i \in 1..Len(io_slab) /\ ~IsFree(io_slab[i])
          /\ io_slab[i].id = cur.id /\ at = "cancel_cb"
      BY <1>3 DEF IInv, CurInv, CancelCbReturn
    <2>2. FreeAndCall(i) /\ UNCHANGED <<done_ran, next_id>>
      BY <1>3 DEF CancelCbReturn
    <2>3. cur = [slot |-> i, id |-> io_slab[i].id]
      BY <2>1 DEF IInv, Types, Op
    <2>4. cur'.slot = 0 /\ called' = called \union {cur.id}
      BY <2>1, <2>2 DEF FreeAndCall, NoOp
    <2> HIDE DEF i
    <2>5. cur \in Ops /\ Ops' = Ops \ {cur}
      BY <2>1, <2>2, <2>3, FreeOpLive
    <2>6. SlotsOf(Ops') \ {cur'.slot} = SlotsOf(Ops) \ {cur.slot}
      BY <2>4, <2>5, SlotsRemove, SlotFact
    <2>7. removed \intersect called' \subseteq done_ran /\ Given' = Given
      BY <2>1, <2>2, <2>4 DEF HInv, CallInv, MioInv, WonInv, Given
    <2>8. at # "dropped" /\ Ops' \subseteq Ops
      BY <2>1, <2>5
    <2>9. MioInv'
      BY <1>1, <2>2, <2>6, <2>7, <2>8, SameHold
    <2> QED
      BY <1>3, <2>9 DEF Next, User
  <1> QED
    BY <1>2, <1>3 DEF MioReturn

\* The drive loop and the panics leave the slabs and the table alone.
LEMMA MioControlHolds ==
  ASSUME IInv, HInv, MioInv, MioPanic \/ TakeEventBlocked \/ MioDrainEmpty
                             \/ MioWaitOk \/ MioWaitErr
  PROVE  MioInv' /\ [Next]_vars
  <1>1. UNCHANGED <<io_slab, cur, done_ran, next_id, called, pending, ready, removed>>
    BY DEF MioPanic, TakeEventBlocked, MioDrainEmpty, MioWaitOk, MioWaitErr,
           Panic, DrainEmpty, WaitOk, WaitErr, mioVars, slabVars, history
  <1>2. at # "dropped"
    BY PanicInAssumption
       DEF MioPanic, TakeEventBlocked, MioDrainEmpty, MioWaitOk, MioWaitErr,
           Panic, DrainEmpty, WaitOk, WaitErr, UserCode
  <1>3. Ops' = Ops /\ Given' = Given
    BY <1>1 DEF Ops, Given
  <1>4. MioInv'
    BY <1>1, <1>2, <1>3, SameHold DEF MioInv, WonInv
  <1> QED
    BY <1>4 DEF MioPanic, TakeEventBlocked, MioDrainEmpty, MioWaitOk,
                MioWaitErr, Next, User, Drive

\* begin_teardown empties the table and the queue.
LEMMA MioDropHolds ==
  ASSUME IInv, HInv, MioInv, MioDrop
  PROVE  MioInv' /\ [Next]_vars
  <1>1. /\ Drop /\ pending' = {} /\ ready' = <<>> /\ at' = "dropped"
        /\ UNCHANGED <<removed, io_slab, next_id, called, done_ran>>
    BY DEF MioDrop, Drop, slabVars
  <1>2. DonePos(<<>>) = {}
    BY DEF DonePos
  <1>3. HoldInv'
    BY <1>1, <1>2 DEF HoldInv, OpSlots, OnePerSlot
  <1>4. Given' = Given
    BY <1>1 DEF Given
  <1>5. WonInv'
    BY <1>1, <1>4 DEF MioInv, WonInv
  <1> QED
    BY <1>1, <1>3, <1>5 DEF MioInv, Next, Drive

\* Every step preserves the backend's invariant and is a step of the runtime
\* over an arbitrary backend.
LEMMA MioNextHolds ==
  ASSUME IInv, HInv, MioInv, [MioNext]_mioAllVars
  PROVE  MioInv' /\ [Next]_vars
  <1>1. CASE MioArm
    BY <1>1, MioArmHolds
  <1>2. ASSUME NEW op \in issued, MioCancel(op)
        PROVE  MioInv' /\ [Next]_vars
    BY <1>2, MioCancelHolds
  <1>3. CASE MioReturn
    BY <1>3, MioReturnHolds
  <1>4. CASE MioPanic \/ TakeEventBlocked \/ MioDrainEmpty \/ MioWaitOk
             \/ MioWaitErr
    BY <1>4, MioControlHolds
  <1>5. CASE TakeReady
    BY <1>5, TakeReadyHolds
  <1>6. CASE TakeEvent
    BY <1>6, TakeEventHolds
  <1>7. CASE MioDrop
    BY <1>7, MioDropHolds
  <1>8. CASE UNCHANGED mioAllVars \/ (Dropped /\ UNCHANGED mioVars)
             \/ \E i \in registered : BecomesReady(i)
    <2>1. UNCHANGED <<vars, pending, ready, removed>>
      BY <1>8 DEF mioAllVars, mioVars, Dropped, BecomesReady
    <2>2. UNCHANGED <<io_slab, at, cur, next_id, called, done_ran, pending,
                      ready, removed>>
      BY <2>1 DEF vars, slabVars, history
    <2>3. Ops' = Ops /\ Given' = Given
      BY <2>2 DEF Ops, Given
    <2>4. HoldInv' /\ WonInv'
      BY <2>2, <2>3 DEF MioInv, HoldInv, WonInv
    <2> QED
      BY <2>1, <2>4 DEF MioInv
  <1> QED
    BY <1>1, <1>2, <1>3, <1>4, <1>5, <1>6, <1>7, <1>8 DEF MioNext

\* The runtime over the readiness backend satisfies all three invariants.
LEMMA MioHolds == MioSpec => [](IInv /\ HInv /\ MioInv)
  <1> DEFINE All == IInv /\ HInv /\ MioInv
  <1>1. MioInit => All
    <2> SUFFICES ASSUME MioInit PROVE All
      OBVIOUS
    <2>1. IInv /\ HInv
      BY InitIInv, InitHInv DEF MioInit
    <2>2. pending = {} /\ ready = <<>> /\ removed = {} /\ io_slab = <<>>
      BY DEF MioInit, Init
    <2>3. DonePos(<<>>) = {}
      BY DEF DonePos
    <2>4. Ops = {}
      BY <2>2 DEF Ops, Live, LiveSlots
    <2>5. HoldInv
      BY <2>2, <2>3, <2>4 DEF HoldInv, OpSlots, OnePerSlot, SlotsOf
    <2>6. WonInv
      BY <2>2, <2>4 DEF WonInv
    <2> QED
      BY <2>1, <2>5, <2>6 DEF MioInv
  <1>2. All /\ [MioNext]_mioAllVars => All'
    <2> SUFFICES ASSUME IInv, HInv, MioInv, [MioNext]_mioAllVars
                 PROVE  IInv' /\ HInv' /\ MioInv'
      OBVIOUS
    <2>1. MioInv' /\ [Next]_vars
      BY MioNextHolds
    <2> QED
      BY <2>1, NextIInv, NextHInv
  <1> QED
    BY <1>1, <1>2, PTL DEF MioSpec

-----------------------------------------------------------------------------
(* Readiness: theorems.                                                    *)

\* The backend holds every op in flight exactly once, in its table of armed
\* ops or in its queue of decided completions, and holds nothing for a free
\* slot: a stale event finds no entry, and no op is completed twice.
THEOREM MioHoldsOpsOnce == MioSpec => []MioHoldsEveryOp
  <1>1. IInv /\ HInv /\ MioInv => MioHoldsEveryOp
    <2> SUFFICES ASSUME IInv, MioInv, at # "dropped", NEW i \in DOMAIN io_slab
                 PROVE  IF IsFree(io_slab[i]) \/ i = cur.slot
                        THEN i \notin pending /\ Decided(i) = {}
                        ELSE IF i \in pending THEN Decided(i) = {}
                        ELSE \E k \in Decided(i) : Decided(i) = {k}
      BY DEF MioHoldsEveryOp
    <2>1. DOMAIN ready = 1..Len(ready) /\ i \in 1..Len(io_slab)
      BY DEF MioInv, HoldInv, IInv, Types
    <2>2. Decided(i) = {k \in DonePos(ready) : ready[k].slot = i}
      BY <2>1 DEF Decided, DonePos
    <2>3. Decided(i) = {} <=> i \notin OpSlots(ready)
      BY <2>2 DEF OpSlots
    <2>4. \A k, l \in Decided(i) : k = l
      BY <2>2 DEF MioInv, HoldInv, OnePerSlot
    <2>5. i \in SlotsOf(Ops) <=> ~IsFree(io_slab[i])
      <3>1. ASSUME ~IsFree(io_slab[i]) PROVE i \in SlotsOf(Ops)
        <4>1. [slot |-> i, id |-> io_slab[i].id] \in Ops
          BY <2>1, <3>1, LiveMember DEF Ops
        <4> QED
          BY <4>1 DEF SlotsOf
      <3> QED
        BY <3>1, SlotLive
    <2>6. (i \in pending \/ i \in OpSlots(ready))
            <=> (~IsFree(io_slab[i]) /\ i # cur.slot)
      BY <2>5 DEF MioInv, HoldInv
    <2>7. ~(i \in pending /\ i \in OpSlots(ready))
      BY DEF MioInv, HoldInv
    <2>8. CASE IsFree(io_slab[i]) \/ i = cur.slot
      BY <2>3, <2>6, <2>8
    <2>9. CASE ~(IsFree(io_slab[i]) \/ i = cur.slot) /\ i \in pending
      BY <2>3, <2>7, <2>9
    <2>10. CASE ~(IsFree(io_slab[i]) \/ i = cur.slot) /\ i \notin pending
      <3>1. PICK k : k \in Decided(i)
        BY <2>3, <2>6, <2>10
      <3>2. Decided(i) = {k}
        BY <2>4, <3>1
      <3> QED
        BY <2>10, <3>1, <3>2
    <2> QED
      BY <2>8, <2>9, <2>10
  <1> QED
    BY <1>1, MioHolds, PTL

\* Every cancel this backend accepts wins: the cancel callback of an op it
\* removed has run by the time the op's own callback does.
THEOREM MioWinnersRunDone == MioSpec => []MioCancelRunsDone
  <1>1. IInv /\ HInv /\ MioInv => MioCancelRunsDone
    BY DEF MioInv, WonInv, MioCancelRunsDone
  <1> QED
    BY <1>1, MioHolds, PTL
=============================================================================
