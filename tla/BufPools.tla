----------------------------- MODULE BufPools -----------------------------
(***************************************************************************)
(* The pooled buffers of the io_uring runtime: one slab of fixed (write)   *)
(* buffers and one of provided (read) buffers, the borrow count of every   *)
(* slot, the views a program holds over the slots, and the ring through    *)
(* which provided buffers go back to the kernel.  Sources:                 *)
(* libs/coio-uring/src/buf.rs, buf/, pools.rs and io.rs.                   *)
(*                                                                         *)
(* Size classes are slabs of their own that share nothing, so one class    *)
(* per direction is modelled.  A view is Ref, RefMut, Slice or SliceMut by *)
(* what they differ in: shared or exclusive, and the bytes covered.  A     *)
(* panic of an assertion is the action not being enabled.                  *)
(***************************************************************************)
EXTENDS Integers, Sequences, FiniteSets

CONSTANTS FixedCount,  \* slots of the fixed class
          RingCount,   \* slots of the provided class, entries of its ring
          TailMod,     \* values of the ring's tail, 2^16 in the code
          SlotSize,    \* bytes of a slot
          ViewId,      \* the places where a program can keep a view
          MaxGen,      \* bound on the runtimes started, as generations
          MaxReads,    \* bound on the provided reads in flight
          GrowsHalves  \* does the program set_len past a split?

ASSUME CountsAssumption ==
  /\ FixedCount \in Nat \ {0} /\ RingCount \in Nat \ {0}
  /\ TailMod \in Nat \ {0} /\ TailMod % RingCount = 0 /\ TailMod > RingCount
ASSUME SizesAssumption ==
  SlotSize \in Nat \ {0} /\ MaxGen \in Nat \ {0} /\ MaxReads \in Nat
ASSUME ViewIdAssumption == IsFiniteSet(ViewId)
ASSUME UseAssumption == GrowsHalves \in BOOLEAN

VARIABLES
  phase,      \* "running", "teardown" or "stopped": RUNNING, CURRENT_POOLS
  gen,        \* ACTIVE_GEN
  borrows,    \* BorrowTracker::borrows of both slabs, by slot
  free,       \* FixedSlab::free, its top last
  ring,       \* the descriptors of ProvidedSlab's ring, by index
  tail,       \* ProvidedSlab::tail
  published,  \* the tail in the ring's header, which the kernel reads
  head,       \* external: the kernel's position in the ring
  reads,      \* provided reads in flight
  selected,   \* completions that carry a buffer, not yet taken
  views,      \* the views the program holds
  lost        \* history: provided slots no read callback ever saw

slabs == <<borrows, free, ring, tail, published>>
poolVars == <<phase, gen, slabs, head, reads, selected, views, lost>>

Fixed == {"fixed"} \X (0..(FixedCount - 1))
Provided == {"provided"} \X (0..(RingCount - 1))
\* A packed bid: the pool and the slot's local id.
Slot == Fixed \cup Provided

View == [bid : Slot, gen : 1..MaxGen, excl : BOOLEAN,
         off : 0..SlotSize, len : 0..SlotSize]
NoView == [bid |-> <<"none", 0>>, gen |-> 0, excl |-> FALSE, off |-> 0, len |-> 0]
Held(v) == views[v] # NoView

Running == phase = "running"

\* Mutant of Live: a view matches any runtime that is up, not only its own.
LiveAnyGen(view) == phase # "stopped" /\ view.gen > 0

\* active_gen_matches: the runtime that made the view is still up.
Live(view) == phase # "stopped" /\ view.gen = gen

-----------------------------------------------------------------------------
\* Fresh pools: slot 0 on top of the free stack, every ring entry published.
\* (While no runtime is up there are no pools, and these values mean nothing.)
FreshBorrows == [s \in Slot |-> 0]
FreshFree == [i \in 1..FixedCount |-> FixedCount - i]
FreshRing == [i \in 0..(RingCount - 1) |-> i]

PoolsInit ==
  /\ phase = "stopped" /\ gen = 1
  /\ borrows = FreshBorrows /\ free = FreshFree
  /\ ring = FreshRing /\ tail = RingCount /\ published = RingCount /\ head = 0
  /\ reads = 0 /\ selected = {}
  /\ views = [v \in ViewId |-> NoView]
  /\ lost = {}

Rebuilt ==
  /\ borrows' = FreshBorrows /\ free' = FreshFree
  /\ ring' = FreshRing /\ tail' = RingCount /\ published' = RingCount /\ head' = 0

\* block_on: the next generation, and pools built from scratch.
Start ==
  /\ phase = "stopped" /\ gen < MaxGen
  /\ phase' = "running" /\ gen' = gen + 1
  /\ Rebuilt
  /\ UNCHANGED <<reads, selected, views, lost>>

\* The runtime is dropped: the drive loop ended, or a callback panicked.  The
\* ring is closed, and with it go the reads in flight and the completions
\* nobody took; no shim runs any more, only the locals of the ops are dropped.
BeginTeardown ==
  /\ Running /\ tail = published
  /\ phase' = "teardown"
  /\ reads' = 0 /\ selected' = {}
  /\ lost' = lost \cup {<<"provided", c.local>> : c \in selected}
  /\ UNCHANGED <<gen, slabs, head, views>>

\* The locals are gone: the slab is freed, the pools are no longer current.
Stop ==
  /\ phase = "teardown" /\ tail = published
  /\ phase' = "stopped"
  /\ Rebuilt /\ lost' = {}
  /\ UNCHANGED <<gen, reads, selected, views>>

-----------------------------------------------------------------------------
\* Mutant of Recycle: the index is taken from the tail after its increment.
RecycleNextIndex(s) ==
  \/ /\ s \in Fixed
     /\ free' = Append(free, s[2])
     /\ UNCHANGED <<ring, tail, published>>
  \/ /\ s \in Provided
     /\ ring' = [ring EXCEPT ![(tail + 1) % RingCount] = s[2]]
     /\ tail' = (tail + 1) % TailMod
     /\ UNCHANGED <<free, published>>

\* Slab::recycle: push to the free stack, or write the ring entry at the tail;
\* PublishTail then shows the new tail to the kernel.
Recycle(s) ==
  \/ /\ s \in Fixed
     /\ free' = Append(free, s[2])
     /\ UNCHANGED <<ring, tail, published>>
  \/ /\ s \in Provided
     /\ ring' = [ring EXCEPT ![tail % RingCount] = s[2]]
     /\ tail' = (tail + 1) % TailMod
     /\ UNCHANGED <<free, published>>

PublishTail ==
  /\ tail # published
  /\ published' = tail
  /\ UNCHANGED <<phase, gen, borrows, free, ring, tail, head, reads, selected,
                 views, lost>>

\* BorrowTracker::drop_view: the count one closer to 0, for the view's kind.
Released(n, excl) == IF excl THEN n + 1 ELSE n - 1
Releasable(n, excl) == IF excl THEN n < 0 ELSE n > 0

\* drop_view of pools.rs: nothing for a view of a runtime that has ended.
Release(view) ==
  \/ /\ ~Live(view)
     /\ UNCHANGED slabs
  \/ /\ Live(view)
     /\ LET s == view.bid
            n == Released(borrows[s], view.excl)
        IN /\ Releasable(borrows[s], view.excl)
           /\ borrows' = [borrows EXCEPT ![s] = n]
           /\ IF n = 0 THEN Recycle(s) ELSE UNCHANGED <<free, ring, tail, published>>

\* The drop of any view, and Bytes::into_vec.  A recycle in progress ends
\* before the thread does anything else.
DropView(v) ==
  /\ Held(v) /\ tail = published
  /\ Release(views[v])
  /\ views' = [views EXCEPT ![v] = NoView]
  /\ UNCHANGED <<phase, gen, head, reads, selected, lost>>

-----------------------------------------------------------------------------
\* The program runs: not in the middle of a recycle, not while its runtime is
\* being dropped.
Idle == phase # "teardown" /\ tail = published

Rest == UNCHANGED <<phase, gen, head, reads, selected, lost>>

\* alloc (shared), alloc_mut, alloc_slice_mut, alloc_bytes (exclusive) over
\* acquire_slot and acquire_slot_shared; None on an empty stack.
Alloc(v, excl, len) ==
  /\ Running /\ Idle /\ ~Held(v)
  /\ free # <<>>
  /\ LET s == <<"fixed", free[Len(free)]>>
     IN /\ borrows[s] = 0
        /\ borrows' = [borrows EXCEPT ![s] = IF excl THEN -1 ELSE 1]
        /\ views' = [views EXCEPT ![v] =
             [bid |-> s, gen |-> gen, excl |-> excl, off |-> 0, len |-> len]]
  /\ free' = SubSeq(free, 1, Len(free) - 1)
  /\ UNCHANGED <<ring, tail, published>> /\ Rest

\* Ref::clone (the whole view) and Bytes::sub(a, b).
Sub(v, w, a, b) ==
  /\ Idle /\ Held(v) /\ ~views[v].excl /\ ~Held(w)
  /\ a <= b /\ b <= views[v].len
  /\ \/ ~Live(views[v]) /\ UNCHANGED borrows
     \/ /\ Live(views[v]) /\ borrows[views[v].bid] > 0
        /\ borrows' = [borrows EXCEPT ![views[v].bid] = @ + 1]
  /\ views' = [views EXCEPT ![w] =
       [views[v] EXCEPT !.off = @ + a, !.len = b - a]]
  /\ UNCHANGED <<free, ring, tail, published>> /\ Rest

\* Mutant of IntoMut: any shared holder may upgrade, not only the sole one.
IntoMutShared(v) ==
  /\ Idle /\ Held(v) /\ ~views[v].excl /\ Live(views[v])
  /\ borrows[views[v].bid] >= 1
  /\ borrows' = [borrows EXCEPT ![views[v].bid] = -1]
  /\ views' = [views EXCEPT ![v].excl = TRUE]
  /\ UNCHANGED <<free, ring, tail, published>> /\ Rest

\* Ref::into_mut, Bytes::into_mut: upgrade_view of the sole shared holder.
IntoMut(v) ==
  /\ Idle /\ Held(v) /\ ~views[v].excl /\ Live(views[v])
  /\ borrows[views[v].bid] = 1
  /\ borrows' = [borrows EXCEPT ![views[v].bid] = -1]
  /\ views' = [views EXCEPT ![v].excl = TRUE]
  /\ UNCHANGED <<free, ring, tail, published>> /\ Rest

\* RefMut::into_ref, BytesMut::into_bytes: downgrade_view of the sole holder.
IntoRef(v) ==
  /\ Idle /\ Held(v) /\ views[v].excl /\ Live(views[v])
  /\ borrows[views[v].bid] = -1
  /\ borrows' = [borrows EXCEPT ![views[v].bid] = 1]
  /\ views' = [views EXCEPT ![v].excl = FALSE]
  /\ UNCHANGED <<free, ring, tail, published>> /\ Rest

\* BytesMut::split_at(mid): v keeps the head, w gets the tail.
SplitAt(v, w, mid) ==
  /\ Idle /\ Held(v) /\ views[v].excl /\ ~Held(w)
  /\ mid <= views[v].len
  /\ \/ ~Live(views[v]) /\ UNCHANGED borrows
     \/ /\ Live(views[v]) /\ borrows[views[v].bid] < 0
        /\ borrows' = [borrows EXCEPT ![views[v].bid] = @ - 1]
  /\ views' = [views EXCEPT ![v].len = mid,
                            ![w] = [views[v] EXCEPT !.off = @ + mid, !.len = @ - mid]]
  /\ UNCHANGED <<free, ring, tail, published>> /\ Rest

\* BytesMut::set_len and clear, capacity being the rest of the whole slot.
\* Unless GrowsHalves, a view that shares its slot is never grown.
SetLen(v, len) ==
  /\ Idle /\ Held(v) /\ views[v].excl
  /\ len = 0 \/ (Live(views[v]) /\ len <= SlotSize - views[v].off)
  /\ GrowsHalves \/ len <= views[v].len \/ borrows[views[v].bid] = -1
  /\ views' = [views EXCEPT ![v].len = len]
  /\ UNCHANGED slabs /\ Rest

\* Slice::cast, SliceMut::cast: the `base` read out of the consumed view is
\* dropped on return, which releases the borrow the returned view stands for.
CastSlice(v) ==
  /\ Idle /\ Held(v)
  /\ Release(views[v])
  /\ UNCHANGED views /\ Rest

-----------------------------------------------------------------------------
\* read_provided is armed.
ReadProvided ==
  /\ Running /\ Idle /\ reads + Cardinality(selected) < MaxReads
  /\ reads' = reads + 1
  /\ UNCHANGED <<phase, gen, slabs, head, selected, views, lost>>

\* External: a read ends with the buffer at the kernel's head.  An error may
\* carry a buffer too, as the buffer is picked before the file is read.
KernelSelect(ok) ==
  /\ reads > 0 /\ head # published
  /\ reads' = reads - 1
  /\ selected' = selected \cup {[local |-> ring[head % RingCount], ok |-> ok]}
  /\ head' = (head + 1) % TailMod
  /\ UNCHANGED <<phase, gen, slabs, views, lost>>

\* External: a read ends without a buffer (ENOBUFS, an error, a cancel); the
\* callback gets the error.
KernelRefuse ==
  /\ reads > 0
  /\ reads' = reads - 1
  /\ UNCHANGED <<phase, gen, slabs, head, selected, views, lost>>

\* The shim of read_provided on success: provided_bytes takes the slot shared
\* and the callback gets the view.
OnRead(v, len) ==
  /\ Running /\ Idle /\ ~Held(v)
  /\ \E c \in selected :
       LET s == <<"provided", c.local>>
       IN /\ c.ok
          /\ borrows[s] = 0
          /\ borrows' = [borrows EXCEPT ![s] = 1]
          /\ views' = [views EXCEPT ![v] =
               [bid |-> s, gen |-> gen, excl |-> FALSE, off |-> 0, len |-> len]]
          /\ selected' = selected \ {c}
  /\ UNCHANGED <<free, ring, tail, published, phase, gen, head, reads, lost>>

\* The shim on an error: the flags are not looked at, so a buffer that came
\* with the error is neither handed on nor recycled.
OnReadError ==
  /\ Running /\ Idle
  /\ \E c \in selected :
       /\ ~c.ok
       /\ selected' = selected \ {c}
       /\ lost' = lost \cup {<<"provided", c.local>>}
  /\ UNCHANGED <<phase, gen, slabs, head, reads, views>>

-----------------------------------------------------------------------------
Kernel ==
  \/ \E ok \in BOOLEAN : KernelSelect(ok)
  \/ KernelRefuse

PoolsNext ==
  \/ Start \/ BeginTeardown \/ Stop
  \/ PublishTail
  \/ \E v \in ViewId :
       \/ DropView(v)
       \/ \E excl \in BOOLEAN, len \in 1..SlotSize : Alloc(v, excl, len)
       \/ IntoMut(v) \/ IntoRef(v)
       \/ \E len \in 0..SlotSize : SetLen(v, len) \/ OnRead(v, len)
       \/ \E w \in ViewId, mid \in 0..SlotSize : SplitAt(v, w, mid)
       \/ \E w \in ViewId, a, b \in 0..SlotSize : Sub(v, w, a, b)
  \/ ReadProvided \/ OnReadError
  \/ Kernel

PoolsSpec == PoolsInit /\ [][PoolsNext]_poolVars

\* The same for a program that also casts slices.
CastSpec == PoolsInit /\ [][PoolsNext \/ \E v \in ViewId : CastSlice(v)]_poolVars

-----------------------------------------------------------------------------
\* The fields hold what their types say, and the tail the program keeps is at
\* most one entry ahead of the one the kernel sees.
PoolsTypeOK ==
  /\ phase \in {"running", "teardown", "stopped"}
  /\ gen \in 1..MaxGen
  /\ borrows \in [Slot -> Int]
  /\ free \in Seq(0..(FixedCount - 1))
  /\ ring \in [0..(RingCount - 1) -> 0..(RingCount - 1)]
  /\ tail \in 0..(TailMod - 1) /\ published \in 0..(TailMod - 1)
  /\ head \in 0..(TailMod - 1)
  /\ reads \in 0..MaxReads
  /\ selected \subseteq [local : 0..(RingCount - 1), ok : BOOLEAN]
  /\ views \in [ViewId -> View \cup {NoView}]
  /\ lost \subseteq Provided
  /\ tail = published \/ tail = (published + 1) % TailMod

\* A view of the runtime that is up.
Current(view) == phase # "stopped" /\ view.gen = gen

ViewsOf(s, excl) ==
  {v \in ViewId : views[v].bid = s /\ Current(views[v]) /\ views[v].excl = excl}

\* While a runtime is up, the borrow count of a slot is the number of shared
\* views of this runtime on it, or minus the number of exclusive ones, and the
\* two kinds never hold a slot together: what clone, sub, split_at, into_mut,
\* into_ref and drop do to the count, views of earlier runtimes included.
BorrowsMatchViews ==
  phase # "stopped" =>
    \A s \in Slot :
      /\ borrows[s] = Cardinality(ViewsOf(s, FALSE)) - Cardinality(ViewsOf(s, TRUE))
      /\ ViewsOf(s, FALSE) = {} \/ ViewsOf(s, TRUE) = {}

\* The bytes a view covers do not meet those of an exclusive view of the same
\* slot and runtime (buf.rs, "two exclusive views of the same slot never
\* overlap"), however views were split, cloned, converted and dropped.
ExclusiveDisjoint ==
  \A v, w \in ViewId :
    (/\ v # w /\ views[v].excl
     /\ Current(views[v]) /\ Current(views[w]) /\ views[v].bid = views[w].bid)
    => \A i \in 0..(SlotSize - 1) :
         ~ (/\ views[v].off <= i /\ i < views[v].off + views[v].len
            /\ views[w].off <= i /\ i < views[w].off + views[w].len)

\* The ring entries the kernel may still take, given a tail.
Entries(t) == [k \in 0..(((t - head) % TailMod) - 1) |-> ring[(head + k) % RingCount]]

\* While a runtime is up, every slot is in exactly one place: once on the free
\* stack or once in the ring, with a completion, under a view, or lost with an
\* error completion; so no slot is handed out twice, the ring is never overrun
\* as its tail wraps, and when all views are gone every other slot is back.
SlotsAccounted ==
  phase # "stopped" =>
    /\ (tail - head) % TailMod <= RingCount
    /\ \A s \in Slot :
         Cardinality({i \in DOMAIN free : <<"fixed", free[i]>> = s})
         + Cardinality({k \in DOMAIN Entries(tail) : <<"provided", Entries(tail)[k]>> = s})
         + Cardinality({c \in selected : <<"provided", c.local>> = s})
         + Cardinality({l \in lost : l = s})
         + (IF \E v \in ViewId : views[v].bid = s /\ Current(views[v]) THEN 1 ELSE 0)
         = 1
=============================================================================
