--------------------------- MODULE BufPoolsProofs ---------------------------
(***************************************************************************)
(* Proofs about BufPools, for every number and size of slots, every set of *)
(* views and any number of runtimes: the borrow counts match the views     *)
(* that are held, exclusive views never overlap, and every slot is in      *)
(* exactly one place.                                                      *)
(*                                                                         *)
(* A change of one view adds one holder to a slot, takes one away, or      *)
(* turns a sole holder from one kind to the other.  The lemmas about       *)
(* holders say what each of these does to the count; the proofs about the  *)
(* actions then only have to say which of them the action is.              *)
(*                                                                         *)
(* Where the slots are needs the ring as well: tail and head are positions *)
(* that wrap at TailMod, the entries between them hold different slots,    *)
(* and a slot on its way back is in none of them, so there is room for it. *)
(***************************************************************************)
EXTENDS BufPools, FiniteSetTheorems, SequenceTheorems, TLAPS

\* The holders of slot s among the views vs made by runtime g, by kind.
Shared(vs, g, s) == {v \in ViewId : vs[v].bid = s /\ vs[v].gen = g /\ ~vs[v].excl}
Exclusive(vs, g, s) == {v \in ViewId : vs[v].bid = s /\ vs[v].gen = g /\ vs[v].excl}

\* A count n for the shared holders A and the exclusive holders B of a slot.
Match(n, A, B) ==
  /\ n = Cardinality(A) - Cardinality(B)
  /\ (A = {} \/ B = {})

Counted(vs, g, bs) ==
  \A s \in Slot : Match(bs[s], Shared(vs, g, s), Exclusive(vs, g, s))

\* The bytes of two views have nothing in common.
Apart(x, y) ==
  \/ x.len = 0 \/ y.len = 0
  \/ x.off + x.len <= y.off \/ y.off + y.len <= x.off

AllApart(vs, g) ==
  \A v, w \in ViewId :
    (v # w /\ vs[v].excl /\ vs[v].gen = g /\ vs[w].gen = g /\ vs[v].bid = vs[w].bid)
    => Apart(vs[v], vs[w])

\* Types, with what the counts need: no view is of a runtime still to come,
\* and the bytes of a view are inside its slot.
PoolTypes ==
  /\ PoolsTypeOK
  /\ IsFiniteSet(selected)
  /\ \A v \in ViewId : views[v].gen <= gen /\ views[v].off + views[v].len <= SlotSize

CountInv == phase # "stopped" => Counted(views, gen, borrows)

ApartInv == (phase # "stopped" /\ ~GrowsHalves) => AllApart(views, gen)

\* The inductive invariant.  Apartness is not inductive without the counts:
\* a borrow count of -1 is what says that a view about to grow is alone.
PoolInv == PoolTypes /\ CountInv /\ ApartInv

-----------------------------------------------------------------------------
(* Holders and counts.                                                     *)

\* Any set of views is finite.
LEMMA FiniteHolders ==
  ASSUME NEW A \in SUBSET ViewId
  PROVE  IsFiniteSet(A) /\ Cardinality(A) \in Nat
BY ViewIdAssumption, FS_Subset, FS_CardinalityType

\* What a count says about the holders: which kind there is, and when a slot
\* has no holder or a single one.
LEMMA CountSays ==
  ASSUME NEW A \in SUBSET ViewId, NEW B \in SUBSET ViewId, NEW n, Match(n, A, B)
  PROVE  /\ n \in Int
         /\ n > 0 => B = {}
         /\ n < 0 => A = {}
         /\ n = 0 => A = {} /\ B = {}
         /\ n = 1 => \A v, w \in A : v = w
         /\ n = -1 => \A v, w \in B : v = w
<1>1. IsFiniteSet(A) /\ Cardinality(A) \in Nat /\ IsFiniteSet(B) /\ Cardinality(B) \in Nat
  BY FiniteHolders
<1>2. Cardinality(A) = 0 <=> A = {}
  BY <1>1, FS_EmptySet
<1>3. Cardinality(B) = 0 <=> B = {}
  BY <1>1, FS_EmptySet
<1>4. n = Cardinality(A) - Cardinality(B) /\ (A = {} \/ B = {})
  BY DEF Match
<1>5. n = 1 => Cardinality(A) = 1
  BY <1>1, <1>2, <1>3, <1>4
<1>6. n = -1 => Cardinality(B) = 1
  BY <1>1, <1>2, <1>3, <1>4
<1>7. n = 1 => \A v, w \in A : v = w
  <2>1. Cardinality(A) = 1 => \E x : A = {x}
    BY <1>1, FS_Singleton
  <2> QED BY <2>1, <1>5
<1>8. n = -1 => \A v, w \in B : v = w
  <2>1. Cardinality(B) = 1 => \E x : B = {x}
    BY <1>1, FS_Singleton
  <2> QED BY <2>1, <1>6
<1>9. n \in Int
  BY <1>1, <1>4
<1>10. n > 0 => B = {}
  BY <1>1, <1>2, <1>3, <1>4
<1>11. n < 0 => A = {}
  BY <1>1, <1>2, <1>3, <1>4
<1>12. n = 0 => A = {} /\ B = {}
  BY <1>1, <1>2, <1>3, <1>4
<1> QED BY <1>7, <1>8, <1>9, <1>10, <1>11, <1>12

\* One more shared holder, or one more exclusive holder.
LEMMA OneMore ==
  ASSUME NEW A \in SUBSET ViewId, NEW B \in SUBSET ViewId, NEW n \in Int, Match(n, A, B),
         NEW v \in ViewId
  PROVE  /\ B = {} /\ v \notin A => Match(n + 1, A \cup {v}, B)
         /\ A = {} /\ v \notin B => Match(n - 1, A, B \cup {v})
<1>1. IsFiniteSet(A) /\ Cardinality(A) \in Nat /\ IsFiniteSet(B) /\ Cardinality(B) \in Nat
  BY FiniteHolders
<1>2. v \notin A => Cardinality(A \cup {v}) = Cardinality(A) + 1
  BY <1>1, FS_AddElement
<1>3. v \notin B => Cardinality(B \cup {v}) = Cardinality(B) + 1
  BY <1>1, FS_AddElement
<1>4. n = Cardinality(A) - Cardinality(B)
  BY DEF Match
<1> QED BY <1>1, <1>2, <1>3, <1>4 DEF Match

\* One holder less, of either kind.
LEMMA OneLess ==
  ASSUME NEW A \in SUBSET ViewId, NEW B \in SUBSET ViewId, NEW n \in Int, Match(n, A, B),
         NEW v \in ViewId
  PROVE  /\ v \in A => Match(n - 1, A \ {v}, B)
         /\ v \in B => Match(n + 1, A, B \ {v})
<1>1. IsFiniteSet(A) /\ Cardinality(A) \in Nat /\ IsFiniteSet(B) /\ Cardinality(B) \in Nat
  BY FiniteHolders
<1>2. v \in A => Cardinality(A \ {v}) = Cardinality(A) - 1
  BY <1>1, FS_RemoveElement
<1>3. v \in B => Cardinality(B \ {v}) = Cardinality(B) - 1
  BY <1>1, FS_RemoveElement
<1>4. n = Cardinality(A) - Cardinality(B) /\ (A = {} \/ B = {})
  BY DEF Match
<1> QED BY <1>1, <1>2, <1>3, <1>4 DEF Match

\* No holders, and a sole holder that changes kind.
LEMMA SoleCounts ==
  ASSUME NEW v \in ViewId
  PROVE  Match(0, {}, {}) /\ Match(1, {v}, {}) /\ Match(-1, {}, {v})
<1>1. Cardinality({v}) = 1
  BY FS_Singleton
<1>2. Cardinality({}) = 0
  BY FS_EmptySet
<1> QED BY <1>1, <1>2 DEF Match

-----------------------------------------------------------------------------
(* What a change of views does to the holders.                             *)

AnyView == View \cup {NoView}

\* A change of one view: the one at v becomes x.
OneChange(vs, us, v, x) == us[v] = x /\ \A w \in ViewId \ {v} : us[w] = vs[w]

\* Views that keep their slot, runtime and kind keep their holders.
LEMMA HoldersSame ==
  ASSUME NEW vs, NEW us, NEW g, NEW s,
         \A v \in ViewId : us[v].bid = vs[v].bid /\ us[v].gen = vs[v].gen
                           /\ us[v].excl = vs[v].excl
  PROVE  Shared(us, g, s) = Shared(vs, g, s) /\ Exclusive(us, g, s) = Exclusive(vs, g, s)
BY DEF Shared, Exclusive

\* A record x of runtime g that is a view of slot s, by kind.
IsExcl(x, g, s) == x.bid = s /\ x.gen = g /\ x.excl
IsShared(x, g, s) == x.bid = s /\ x.gen = g /\ ~x.excl

\* Holders after the view at v has become x, an exclusive view of the slot.
LEMMA HoldersExcl ==
  ASSUME NEW vs, NEW us, NEW g, NEW s, NEW v \in ViewId, NEW x, OneChange(vs, us, v, x),
         IsExcl(x, g, s)
  PROVE  /\ Shared(us, g, s) = Shared(vs, g, s) \ {v}
         /\ Exclusive(us, g, s) = Exclusive(vs, g, s) \cup {v}
BY DEF Shared, Exclusive, OneChange, IsExcl

\* Holders after the view at v has become x, a shared view of the slot.
LEMMA HoldersShared ==
  ASSUME NEW vs, NEW us, NEW g, NEW s, NEW v \in ViewId, NEW x, OneChange(vs, us, v, x),
         IsShared(x, g, s)
  PROVE  /\ Shared(us, g, s) = Shared(vs, g, s) \cup {v}
         /\ Exclusive(us, g, s) = Exclusive(vs, g, s) \ {v}
BY DEF Shared, Exclusive, OneChange, IsShared

\* Holders after the view at v has become one of another slot or runtime.
LEMMA HoldersUnset ==
  ASSUME NEW vs, NEW us, NEW g, NEW s, NEW v \in ViewId, NEW x, OneChange(vs, us, v, x),
         x.gen # g \/ x.bid # s
  PROVE  /\ Shared(us, g, s) = Shared(vs, g, s) \ {v}
         /\ Exclusive(us, g, s) = Exclusive(vs, g, s) \ {v}
BY DEF Shared, Exclusive, OneChange

\* The holders of a slot are views of this runtime.
LEMMA HoldersAre ==
  ASSUME NEW vs, NEW g, NEW s
  PROVE  /\ Shared(vs, g, s) \in SUBSET ViewId /\ Exclusive(vs, g, s) \in SUBSET ViewId
         /\ \A v : vs[v].gen # g => v \notin Shared(vs, g, s) /\ v \notin Exclusive(vs, g, s)
BY DEF Shared, Exclusive

\* A change of one count: the one of slot s becomes n.
OneCount(bs, cs, s, n) == cs[s] = n /\ \A t \in Slot \ {s} : cs[t] = bs[t]

\* The counts still match when no view changes slot, runtime or kind.
LEMMA CountedSame ==
  ASSUME NEW vs, NEW us, NEW g, NEW bs, Counted(vs, g, bs),
         \A v \in ViewId : us[v].bid = vs[v].bid /\ us[v].gen = vs[v].gen
                           /\ us[v].excl = vs[v].excl
  PROVE  Counted(us, g, bs)
<1>1. \A s : /\ Shared(us, g, s) = Shared(vs, g, s)
            /\ Exclusive(us, g, s) = Exclusive(vs, g, s)
  BY HoldersSame
<1> QED BY <1>1 DEF Counted

\* alloc, clone, sub, split_at, a provided read: a place that held no view of
\* this runtime gets one, and the count moves one away from zero.
LEMMA CountedAdd ==
  ASSUME NEW vs, NEW us, NEW g, NEW bs, NEW cs, NEW v \in ViewId, NEW x, NEW n \in Int,
         Counted(vs, g, bs), vs[v].gen # g, OneChange(vs, us, v, x),
         x.bid \in Slot, x.gen = g, x.excl \in BOOLEAN, bs[x.bid] = n,
         OneCount(bs, cs, x.bid, IF x.excl THEN n - 1 ELSE n + 1),
         IF x.excl THEN n <= 0 ELSE n >= 0
  PROVE  Counted(us, g, cs)
<1> SUFFICES ASSUME NEW s \in Slot
             PROVE  Match(cs[s], Shared(us, g, s), Exclusive(us, g, s))
  BY DEF Counted
<1> DEFINE A == Shared(vs, g, s)
           B == Exclusive(vs, g, s)
<1>1. A \in SUBSET ViewId /\ B \in SUBSET ViewId /\ v \notin A /\ v \notin B
  BY HoldersAre
<1>2. Match(bs[s], A, B)
  BY DEF Counted
<1>3. /\ IsExcl(x, g, s) => /\ Shared(us, g, s) = A \ {v}
                            /\ Exclusive(us, g, s) = B \cup {v}
      /\ IsShared(x, g, s) => /\ Shared(us, g, s) = A \cup {v}
                              /\ Exclusive(us, g, s) = B \ {v}
      /\ x.bid # s => /\ Shared(us, g, s) = A \ {v}
                      /\ Exclusive(us, g, s) = B \ {v}
  BY HoldersExcl, HoldersShared, HoldersUnset
<1>4. CASE s # x.bid
  <2>1. Shared(us, g, s) = A /\ Exclusive(us, g, s) = B
    BY <1>1, <1>3, <1>4
  <2> QED BY <2>1, <1>2, <1>4 DEF OneCount
<1>5. CASE s = x.bid /\ x.excl
  <2>1. Shared(us, g, s) = A /\ Exclusive(us, g, s) = B \cup {v}
    BY <1>1, <1>3, <1>5 DEF IsExcl
  <2>2. A = {}
    <3> HIDE DEF A, B
    <3>1. (n < 0 => A = {}) /\ (n = 0 => A = {})
      BY <1>1, <1>2, <1>5, CountSays
    <3> QED BY <3>1, <1>5
  <2>3. Match(n - 1, A, B \cup {v})
    <3> HIDE DEF A, B
    <3> QED BY <1>1, <1>2, <1>5, <2>2, OneMore
  <2> QED BY <2>1, <2>3, <1>5 DEF OneCount
<1>6. CASE s = x.bid /\ ~x.excl
  <2>1. Shared(us, g, s) = A \cup {v} /\ Exclusive(us, g, s) = B
    BY <1>1, <1>3, <1>6 DEF IsShared
  <2>2. B = {}
    <3> HIDE DEF A, B
    <3>1. (n > 0 => B = {}) /\ (n = 0 => B = {})
      BY <1>1, <1>2, <1>6, CountSays
    <3> QED BY <3>1, <1>6
  <2>3. Match(n + 1, A \cup {v}, B)
    <3> HIDE DEF A, B
    <3> QED BY <1>1, <1>2, <1>6, <2>2, OneMore
  <2> QED BY <2>1, <2>3, <1>6 DEF OneCount
<1> QED BY <1>4, <1>5, <1>6

\* drop_view: a view of this runtime goes, and the count moves towards zero.
LEMMA CountedRemove ==
  ASSUME NEW vs, NEW us, NEW g, NEW bs, NEW cs, NEW v \in ViewId, NEW n \in Int,
         Counted(vs, g, bs), vs[v].gen = g, g # 0, OneChange(vs, us, v, NoView),
         vs[v].bid \in Slot, vs[v].excl \in BOOLEAN, bs[vs[v].bid] = n,
         OneCount(bs, cs, vs[v].bid, Released(n, vs[v].excl))
  PROVE  Counted(us, g, cs)
<1> SUFFICES ASSUME NEW s \in Slot
             PROVE  Match(cs[s], Shared(us, g, s), Exclusive(us, g, s))
  BY DEF Counted
<1> DEFINE A == Shared(vs, g, s)
           B == Exclusive(vs, g, s)
<1>1. A \in SUBSET ViewId /\ B \in SUBSET ViewId
  BY HoldersAre
<1>2. Match(bs[s], A, B)
  BY DEF Counted
<1>3. Shared(us, g, s) = A \ {v} /\ Exclusive(us, g, s) = B \ {v}
  <2>1. NoView.gen # g
    BY DEF NoView
  <2> QED BY <2>1, HoldersUnset
<1>4. CASE s # vs[v].bid
  <2>1. v \notin A /\ v \notin B
    BY <1>4 DEF Shared, Exclusive
  <2>2. Shared(us, g, s) = A /\ Exclusive(us, g, s) = B
    BY <2>1, <1>3
  <2> QED BY <2>2, <1>2, <1>4 DEF OneCount
<1>5. CASE s = vs[v].bid /\ vs[v].excl
  <2>1. v \in B /\ v \notin A
    BY <1>5 DEF Shared, Exclusive
  <2>2. Shared(us, g, s) = A /\ Exclusive(us, g, s) = B \ {v}
    BY <2>1, <1>3
  <2>3. Match(n + 1, A, B \ {v})
    <3> HIDE DEF A, B
    <3> QED BY <1>1, <1>2, <1>5, <2>1, OneLess
  <2> QED BY <2>2, <2>3, <1>5 DEF OneCount, Released
<1>6. CASE s = vs[v].bid /\ ~vs[v].excl
  <2>1. v \in A /\ v \notin B
    BY <1>6 DEF Shared, Exclusive
  <2>2. Shared(us, g, s) = A \ {v} /\ Exclusive(us, g, s) = B
    BY <2>1, <1>3
  <2>3. Match(n - 1, A \ {v}, B)
    <3> HIDE DEF A, B
    <3> QED BY <1>1, <1>2, <1>6, <2>1, OneLess
  <2> QED BY <2>2, <2>3, <1>6 DEF OneCount, Released
<1> QED BY <1>4, <1>5, <1>6

\* A view of a runtime that has ended is nobody's holder, before and after.
LEMMA CountedDead ==
  ASSUME NEW vs, NEW us, NEW g, NEW bs, NEW v \in ViewId, NEW x,
         Counted(vs, g, bs), vs[v].gen # g, x.gen # g, OneChange(vs, us, v, x)
  PROVE  Counted(us, g, bs)
<1>1. \A s : /\ Shared(us, g, s) = Shared(vs, g, s)
            /\ Exclusive(us, g, s) = Exclusive(vs, g, s)
  <2> TAKE s
  <2>1. v \notin Shared(vs, g, s) /\ v \notin Exclusive(vs, g, s)
    BY HoldersAre
  <2>2. /\ Shared(us, g, s) = Shared(vs, g, s) \ {v}
        /\ Exclusive(us, g, s) = Exclusive(vs, g, s) \ {v}
    BY HoldersUnset
  <2> QED BY <2>1, <2>2
<1> QED BY <1>1 DEF Counted

\* into_mut, into_ref: the sole holder of a slot changes kind.
LEMMA CountedFlip ==
  ASSUME NEW vs, NEW us, NEW g, NEW bs, NEW cs, NEW v \in ViewId, NEW x,
         Counted(vs, g, bs), vs[v].gen = g, OneChange(vs, us, v, x),
         vs[v].bid \in Slot, vs[v].excl \in BOOLEAN,
         x.bid = vs[v].bid, x.gen = g, x.excl \in BOOLEAN, x.excl # vs[v].excl,
         bs[x.bid] = (IF vs[v].excl THEN -1 ELSE 1),
         OneCount(bs, cs, x.bid, IF x.excl THEN -1 ELSE 1)
  PROVE  Counted(us, g, cs)
<1> SUFFICES ASSUME NEW s \in Slot
             PROVE  Match(cs[s], Shared(us, g, s), Exclusive(us, g, s))
  BY DEF Counted
<1> DEFINE A == Shared(vs, g, s)
           B == Exclusive(vs, g, s)
<1>1. A \in SUBSET ViewId /\ B \in SUBSET ViewId
  BY HoldersAre
<1>2. Match(bs[s], A, B)
  BY DEF Counted
<1>3. /\ IsExcl(x, g, s) => /\ Shared(us, g, s) = A \ {v}
                            /\ Exclusive(us, g, s) = B \cup {v}
      /\ IsShared(x, g, s) => /\ Shared(us, g, s) = A \cup {v}
                              /\ Exclusive(us, g, s) = B \ {v}
      /\ x.bid # s => /\ Shared(us, g, s) = A \ {v}
                      /\ Exclusive(us, g, s) = B \ {v}
  <2>1. ASSUME IsExcl(x, g, s)
        PROVE  Shared(us, g, s) = A \ {v} /\ Exclusive(us, g, s) = B \cup {v}
    BY <2>1 DEF Shared, Exclusive, OneChange, IsExcl
  <2>2. ASSUME IsShared(x, g, s)
        PROVE  Shared(us, g, s) = A \cup {v} /\ Exclusive(us, g, s) = B \ {v}
    BY <2>2, HoldersShared
  <2>3. ASSUME x.bid # s
        PROVE  Shared(us, g, s) = A \ {v} /\ Exclusive(us, g, s) = B \ {v}
    BY <2>3, HoldersUnset
  <2> QED BY <2>1, <2>2, <2>3
<1>4. CASE s # x.bid
  <2>1. v \notin A /\ v \notin B
    BY <1>4 DEF Shared, Exclusive
  <2>2. Shared(us, g, s) = A /\ Exclusive(us, g, s) = B
    BY <2>1, <1>3, <1>4
  <2> QED BY <2>2, <1>2, <1>4 DEF OneCount
<1>5. CASE s = x.bid /\ x.excl
  <2>1. v \in A /\ v \notin B /\ bs[s] = 1
    BY <1>5 DEF Shared, Exclusive
  <2>2. B = {} /\ \A w \in A : w = v
    <3> HIDE DEF A, B
    <3>1. bs[s] > 0
      BY <2>1
    <3> QED BY <1>1, <1>2, <2>1, <3>1, CountSays
  <2>3. Shared(us, g, s) = {} /\ Exclusive(us, g, s) = {v}
    BY <2>1, <2>2, <1>3, <1>5 DEF IsExcl
  <2> QED BY <2>3, <1>5, SoleCounts DEF OneCount
<1>6. CASE s = x.bid /\ ~x.excl
  <2>1. v \in B /\ v \notin A /\ bs[s] = -1
    BY <1>6 DEF Shared, Exclusive
  <2>2. A = {} /\ \A w \in B : w = v
    <3> HIDE DEF A, B
    <3>1. bs[s] < 0
      BY <2>1
    <3> QED BY <1>1, <1>2, <2>1, <3>1, CountSays
  <2>3. Shared(us, g, s) = {v} /\ Exclusive(us, g, s) = {}
    BY <2>1, <2>2, <1>3, <1>6 DEF IsShared
  <2> QED BY <2>3, <1>6, SoleCounts DEF OneCount
<1> QED BY <1>4, <1>5, <1>6

-----------------------------------------------------------------------------
(* Types.                                                                  *)

\* The types of what both slabs keep.
SlabTypes ==
  /\ borrows \in [Slot -> Int]
  /\ free \in Seq(0..(FixedCount - 1))
  /\ ring \in [0..(RingCount - 1) -> 0..(RingCount - 1)]
  /\ tail \in 0..(TailMod - 1) /\ published \in 0..(TailMod - 1)
  /\ (tail = published \/ tail = (published + 1) % TailMod)

\* The types of the views, which stay inside their slot.
ViewTypes ==
  /\ views \in [ViewId -> AnyView]
  /\ \A v \in ViewId : views[v].gen <= gen /\ views[v].off + views[v].len <= SlotSize

\* The types of everything else.
RestTypes ==
  /\ phase \in {"running", "teardown", "stopped"}
  /\ gen \in 1..MaxGen
  /\ head \in 0..(TailMod - 1)
  /\ reads \in 0..MaxReads
  /\ selected \subseteq [local : 0..(RingCount - 1), ok : BOOLEAN]
  /\ lost \subseteq Provided
  /\ IsFiniteSet(selected)

\* The three parts are PoolTypes.
LEMMA TypeParts == PoolTypes <=> (SlabTypes /\ ViewTypes /\ RestTypes)
BY DEF PoolTypes, PoolsTypeOK, SlabTypes, ViewTypes, RestTypes, AnyView

\* Positions of the ring stay inside it as they move.
LEMMA RingPositions ==
  ASSUME NEW t \in 0..(TailMod - 1)
  PROVE  (t + 1) % TailMod \in 0..(TailMod - 1) /\ t % RingCount \in 0..(RingCount - 1)
BY CountsAssumption

\* Fresh pools are well formed.
LEMMA FreshTypes ==
  /\ FreshBorrows \in [Slot -> Int]
  /\ FreshFree \in Seq(0..(FixedCount - 1))
  /\ FreshRing \in [0..(RingCount - 1) -> 0..(RingCount - 1)]
  /\ RingCount \in 0..(TailMod - 1) /\ 0 \in 0..(TailMod - 1)
<1>1. FreshBorrows \in [Slot -> Int]
  BY DEF FreshBorrows
<1>2. FreshFree \in Seq(0..(FixedCount - 1))
  <2>1. FreshFree \in [1..FixedCount -> 0..(FixedCount - 1)]
    BY CountsAssumption DEF FreshFree
  <2> QED BY <2>1, CountsAssumption
<1>3. FreshRing \in [0..(RingCount - 1) -> 0..(RingCount - 1)]
  BY DEF FreshRing
<1>4. RingCount \in 0..(TailMod - 1) /\ 0 \in 0..(TailMod - 1)
  BY CountsAssumption
<1> QED BY <1>1, <1>2, <1>3, <1>4

\* recycle keeps the free stack, the ring and its tail well formed.
LEMMA RecycleTypes ==
  ASSUME SlabTypes, NEW s \in Slot, tail = published, Recycle(s), borrows' \in [Slot -> Int]
  PROVE  SlabTypes'
<1>1. CASE s \in Fixed
  <2>1. s[2] \in 0..(FixedCount - 1) /\ s \notin Provided
    BY <1>1 DEF Fixed, Provided
  <2>2. free' = Append(free, s[2]) /\ UNCHANGED <<ring, tail, published>>
    BY <2>1 DEF Recycle
  <2>3. free' \in Seq(0..(FixedCount - 1))
    BY <2>1, <2>2 DEF SlabTypes
  <2> QED BY <2>2, <2>3 DEF SlabTypes
<1>2. CASE s \in Provided
  <2>1. s[2] \in 0..(RingCount - 1) /\ s \notin Fixed
    BY <1>2 DEF Fixed, Provided
  <2>2. /\ ring' = [ring EXCEPT ![tail % RingCount] = s[2]]
        /\ tail' = (tail + 1) % TailMod
        /\ UNCHANGED <<free, published>>
    BY <2>1 DEF Recycle
  <2>3. tail' \in 0..(TailMod - 1) /\ tail % RingCount \in 0..(RingCount - 1)
    BY <2>2, RingPositions DEF SlabTypes
  <2>4. ring' \in [0..(RingCount - 1) -> 0..(RingCount - 1)]
    BY <2>1, <2>2 DEF SlabTypes
  <2> QED BY <2>2, <2>3, <2>4 DEF SlabTypes
<1> QED BY <1>1, <1>2 DEF Slot

\* Dropping a view keeps the slabs well formed.
LEMMA ReleaseTypes ==
  ASSUME SlabTypes, NEW x \in View, tail = published, Release(x)
  PROVE  SlabTypes'
<1>1. CASE UNCHANGED slabs
  BY <1>1 DEF slabs, SlabTypes
<1>2. CASE Live(x) /\ ~UNCHANGED slabs
  <2> DEFINE n == Released(borrows[x.bid], x.excl)
  <2>1. x.bid \in Slot /\ x.excl \in BOOLEAN
    BY DEF View
  <2>2. n \in Int
    BY <2>1 DEF Released, SlabTypes
  <2>3. /\ borrows' = [borrows EXCEPT ![x.bid] = n]
        /\ IF n = 0 THEN Recycle(x.bid) ELSE UNCHANGED <<free, ring, tail, published>>
    BY <1>2 DEF Release
  <2> HIDE DEF n
  <2>4. borrows' \in [Slot -> Int]
    BY <2>1, <2>2, <2>3 DEF SlabTypes
  <2>5. CASE n = 0
    BY <2>1, <2>3, <2>4, <2>5, RecycleTypes
  <2>6. CASE n # 0
    BY <2>3, <2>4, <2>6 DEF SlabTypes
  <2> QED BY <2>5, <2>6
<1> QED BY <1>1, <1>2 DEF Release

\* One view that changes to a view inside its slot keeps the views' types.
LEMMA ViewSet ==
  ASSUME ViewTypes, NEW v \in ViewId, NEW x \in AnyView,
         views' = [views EXCEPT ![v] = x], gen' = gen,
         x.gen <= gen, x.off + x.len <= SlotSize
  PROVE  ViewTypes'
BY DEF ViewTypes

\* A place of the program holds a view or none.
LEMMA HeldIsView ==
  ASSUME ViewTypes, NEW v \in ViewId
  PROVE  views[v] \in AnyView /\ (Held(v) => views[v] \in View)
BY DEF ViewTypes, AnyView, Held

\* A change of one count alone.
LEMMA CountsSet ==
  ASSUME SlabTypes, NEW s \in Slot, NEW n \in Int,
         borrows' = borrows \/ borrows' = [borrows EXCEPT ![s] = n],
         UNCHANGED <<free, ring, tail, published>>
  PROVE  SlabTypes'
BY DEF SlabTypes

\* The fields of a view.
LEMMA ViewFields ==
  ASSUME NEW x \in View
  PROVE  /\ x.bid \in Slot /\ x.gen \in 1..MaxGen /\ x.excl \in BOOLEAN
         /\ x.off \in 0..SlotSize /\ x.len \in 0..SlotSize
         /\ x.off \in Nat /\ x.len \in Nat /\ x.gen \in Nat
BY SizesAssumption DEF View

\* y is x cut down to l bytes from its byte a on.
PartOf(x, a, l, y) == y = [x EXCEPT !.off = x.off + a, !.len = l]

\* A part of the bytes of a view is a view inside its slot.
LEMMA PartOfView ==
  ASSUME NEW x \in View, x.off + x.len <= SlotSize, NEW a \in Nat, NEW l \in Nat,
         a + l <= x.len, NEW y, PartOf(x, a, l, y)
  PROVE  /\ y \in View /\ y.bid = x.bid /\ y.gen = x.gen /\ y.excl = x.excl
         /\ y.off = x.off + a /\ y.len = l
         /\ y.off + y.len <= SlotSize
<1>1. /\ x.bid \in Slot /\ x.gen \in 1..MaxGen /\ x.excl \in BOOLEAN
      /\ x.off \in 0..SlotSize /\ x.len \in 0..SlotSize
  BY DEF View
<1>2. y = [bid |-> x.bid, gen |-> x.gen, excl |-> x.excl, off |-> x.off + a, len |-> l]
  BY DEF View, PartOf
<1>3. /\ y.bid = x.bid /\ y.gen = x.gen /\ y.excl = x.excl
      /\ y.off = x.off + a /\ y.len = l
  BY <1>2
<1>4. x.off + a \in 0..SlotSize /\ l \in 0..SlotSize /\ x.off + a + l <= SlotSize
  BY <1>1, SizesAssumption
<1> HIDE DEF View
<1>5. y \in View
  BY <1>1, <1>2, <1>4 DEF View
<1> QED BY <1>3, <1>4, <1>5

\* The starting state is well formed.
LEMMA InitTypes == PoolsInit => PoolTypes
<1> SUFFICES ASSUME PoolsInit PROVE SlabTypes /\ ViewTypes /\ RestTypes
  BY TypeParts
<1>1. SlabTypes
  BY FreshTypes DEF PoolsInit, SlabTypes
<1>2. ViewTypes
  BY SizesAssumption DEF PoolsInit, ViewTypes, AnyView, NoView
<1>3. RestTypes
  BY FreshTypes, SizesAssumption, FS_EmptySet DEF PoolsInit, RestTypes
<1> QED BY <1>1, <1>2, <1>3

\* Start, the end of a runtime, and what the kernel does.
LEMMA RuntimeTypes ==
  ASSUME SlabTypes, ViewTypes, RestTypes,
         Start \/ BeginTeardown \/ Stop \/ PublishTail \/ ReadProvided \/ OnReadError \/ Kernel
  PROVE  SlabTypes' /\ ViewTypes' /\ RestTypes'
<1> USE SizesAssumption
<1>1. CASE Start \/ Stop
  <2>1. SlabTypes'
    BY <1>1, FreshTypes DEF Start, Stop, Rebuilt, SlabTypes
  <2>2. gen' \in 1..MaxGen /\ gen <= gen' /\ UNCHANGED views
    BY <1>1 DEF Start, Stop, RestTypes
  <2>3. ViewTypes'
    <3>1. \A v \in ViewId : views[v].gen \in Int
      BY DEF ViewTypes, AnyView, View, NoView
    <3> QED BY <2>2, <3>1 DEF ViewTypes, RestTypes
  <2>4. head' \in 0..(TailMod - 1) /\ lost' \subseteq Provided /\ UNCHANGED <<reads, selected>>
    BY <1>1, FreshTypes DEF Start, Stop, Rebuilt, RestTypes
  <2>5. phase' \in {"running", "teardown", "stopped"}
    BY <1>1 DEF Start, Stop
  <2> QED BY <2>1, <2>2, <2>3, <2>4, <2>5 DEF RestTypes
<1>2. CASE BeginTeardown
  <2>1. \A c \in selected : <<"provided", c.local>> \in Provided
    BY DEF RestTypes, Provided
  <2>2. lost' \subseteq Provided
    BY <1>2, <2>1 DEF BeginTeardown, RestTypes
  <2>3. RestTypes'
    BY <1>2, <2>2, FS_EmptySet DEF BeginTeardown, RestTypes
  <2> QED BY <1>2, <2>3 DEF BeginTeardown, slabs, SlabTypes, ViewTypes
<1>3. CASE PublishTail
  BY <1>3 DEF PublishTail, SlabTypes, ViewTypes, RestTypes
<1>4. CASE ReadProvided
  <2>1. Cardinality(selected) \in Nat
    BY FS_CardinalityType DEF RestTypes
  <2>2. reads' \in 0..MaxReads
    BY <1>4, <2>1 DEF ReadProvided, RestTypes
  <2> QED BY <1>4, <2>2 DEF ReadProvided, slabs, SlabTypes, ViewTypes, RestTypes
<1>5. CASE OnReadError
  <2>1. PICK c \in selected : selected' = selected \ {c} /\ lost' = lost \cup {<<"provided", c.local>>}
    BY <1>5 DEF OnReadError
  <2>2. <<"provided", c.local>> \in Provided
    BY DEF RestTypes, Provided
  <2>3. IsFiniteSet(selected')
    BY <2>1, FS_RemoveElement DEF RestTypes
  <2> QED BY <1>5, <2>1, <2>2, <2>3 DEF OnReadError, slabs, SlabTypes, ViewTypes, RestTypes
<1>6. ASSUME NEW ok \in BOOLEAN, KernelSelect(ok)
      PROVE  SlabTypes' /\ ViewTypes' /\ RestTypes'
  <2> DEFINE c == [local |-> ring[head % RingCount], ok |-> ok]
  <2>1. head % RingCount \in 0..(RingCount - 1) /\ head' \in 0..(TailMod - 1)
    BY <1>6, RingPositions DEF KernelSelect, RestTypes
  <2>2. c \in [local : 0..(RingCount - 1), ok : BOOLEAN]
    BY <2>1 DEF SlabTypes
  <2>3. selected' = selected \cup {c}
    BY <1>6 DEF KernelSelect
  <2>4. reads' \in 0..MaxReads
    BY <1>6 DEF KernelSelect, RestTypes
  <2> HIDE DEF c
  <2>5. IsFiniteSet(selected')
    BY <2>3, FS_AddElement DEF RestTypes
  <2> QED BY <1>6, <2>1, <2>2, <2>3, <2>4, <2>5
          DEF KernelSelect, slabs, SlabTypes, ViewTypes, RestTypes
<1>7. CASE KernelRefuse
  BY <1>7 DEF KernelRefuse, slabs, SlabTypes, ViewTypes, RestTypes
<1> QED BY <1>1, <1>2, <1>3, <1>4, <1>5, <1>6, <1>7 DEF Kernel

\* What the program does with its views.
LEMMA ProgramTypes ==
  ASSUME SlabTypes, ViewTypes, RestTypes, NEW v \in ViewId,
         \/ DropView(v)
         \/ \E excl \in BOOLEAN, len \in 1..SlotSize : Alloc(v, excl, len)
         \/ IntoMut(v) \/ IntoRef(v)
         \/ \E len \in 0..SlotSize : SetLen(v, len) \/ OnRead(v, len)
         \/ \E w \in ViewId, mid \in 0..SlotSize : SplitAt(v, w, mid)
         \/ \E w \in ViewId, a, b \in 0..SlotSize : Sub(v, w, a, b)
  PROVE  SlabTypes' /\ ViewTypes' /\ RestTypes'
<1> USE SizesAssumption
<1>1. CASE DropView(v)
  <2>1. SlabTypes'
    BY <1>1, HeldIsView, ReleaseTypes DEF DropView
  <2>2. ViewTypes'
    <3>1. NoView \in AnyView /\ NoView.gen <= gen /\ NoView.off + NoView.len <= SlotSize
      BY DEF NoView, AnyView, RestTypes
    <3> QED BY <1>1, <3>1, ViewSet DEF DropView
  <2> QED BY <1>1, <2>1, <2>2 DEF DropView, RestTypes
<1>2. ASSUME NEW excl \in BOOLEAN, NEW len \in 1..SlotSize, Alloc(v, excl, len)
      PROVE  SlabTypes' /\ ViewTypes' /\ RestTypes'
  <2> DEFINE s == <<"fixed", free[Len(free)]>>
             x == [bid |-> s, gen |-> gen, excl |-> excl, off |-> 0, len |-> len]
  <2> DEFINE L == 0..(FixedCount - 1)
  <2>1. free[Len(free)] \in L /\ SubSeq(free, 1, Len(free) - 1) \in Seq(L)
    <3>1. free \in Seq(L) /\ free # <<>>
      BY <1>2 DEF Alloc, SlabTypes
    <3> HIDE DEF L
    <3>2. Len(free) \in Nat /\ Len(free) >= 1
      BY <3>1
    <3>3. free[Len(free)] \in L
      BY <3>1, <3>2
    <3>4. \A i \in 1..(Len(free) - 1) : free[i] \in L
      BY <3>1, <3>2
    <3> QED BY <3>1, <3>2, <3>3, <3>4
  <2>2. s \in Slot
    BY <2>1 DEF Slot, Fixed
  <2>3. borrows' \in [Slot -> Int]
    BY <1>2, <2>2 DEF Alloc, SlabTypes
  <2>4. free' \in Seq(0..(FixedCount - 1))
    BY <1>2, <2>1 DEF Alloc, SlabTypes
  <2>5. SlabTypes'
    BY <1>2, <2>3, <2>4 DEF Alloc, SlabTypes
  <2>6. x \in AnyView /\ x.gen <= gen /\ x.off + x.len <= SlotSize
    BY <2>2 DEF AnyView, View, RestTypes
  <2>7. ViewTypes'
    BY <1>2, <2>6, ViewSet DEF Alloc, Rest
  <2> QED BY <1>2, <2>5, <2>7 DEF Alloc, Rest, RestTypes
<1>3. CASE IntoMut(v) \/ IntoRef(v)
  <2> DEFINE x == [views[v] EXCEPT !.excl = ~@]
  <2>1. views[v] \in View /\ views[v].gen <= gen /\ views[v].off + views[v].len <= SlotSize
    BY <1>3, HeldIsView DEF IntoMut, IntoRef, ViewTypes
  <2>2. x \in AnyView /\ x.gen <= gen /\ x.off + x.len <= SlotSize
    BY <2>1 DEF View, AnyView
  <2>3. views' = [views EXCEPT ![v] = x]
    BY <1>3, <2>1 DEF IntoMut, IntoRef, View
  <2>4. SlabTypes'
    <3>1. views[v].bid \in Slot
      BY <2>1, ViewFields
    <3>2. PICK n \in {1, -1} : borrows' = [borrows EXCEPT ![views[v].bid] = n]
      BY <1>3 DEF IntoMut, IntoRef
    <3>3. n \in Int /\ UNCHANGED <<free, ring, tail, published>>
      BY <1>3 DEF IntoMut, IntoRef
    <3> QED BY <3>1, <3>2, <3>3, CountsSet
  <2> HIDE DEF x
  <2>5. ViewTypes'
    BY <1>3, <2>2, <2>3, ViewSet DEF IntoMut, IntoRef, Rest
  <2> QED BY <1>3, <2>4, <2>5 DEF IntoMut, IntoRef, Rest, RestTypes
<1>4. ASSUME NEW len \in 0..SlotSize, SetLen(v, len)
      PROVE  SlabTypes' /\ ViewTypes' /\ RestTypes'
  <2> DEFINE x == [views[v] EXCEPT !.len = len]
  <2>1. views[v] \in View /\ views[v].gen <= gen /\ views[v].off + views[v].len <= SlotSize
    BY <1>4, HeldIsView DEF SetLen, ViewTypes
  <2>2. len = 0 \/ len <= SlotSize - views[v].off
    BY <1>4 DEF SetLen
  <2>3. x \in AnyView /\ x.gen <= gen /\ x.off + x.len <= SlotSize
    BY <2>1, <2>2 DEF View, AnyView
  <2>4. views' = [views EXCEPT ![v] = x]
    BY <1>4 DEF SetLen
  <2> HIDE DEF x
  <2>5. ViewTypes'
    BY <1>4, <2>3, <2>4, ViewSet DEF SetLen, Rest
  <2> QED BY <1>4, <2>5 DEF SetLen, Rest, slabs, SlabTypes, RestTypes
<1>5. ASSUME NEW len \in 0..SlotSize, OnRead(v, len)
      PROVE  SlabTypes' /\ ViewTypes' /\ RestTypes'
  <2>1. PICK c \in selected :
          LET s == <<"provided", c.local>>
          IN /\ borrows' = [borrows EXCEPT ![s] = 1]
             /\ views' = [views EXCEPT ![v] =
                  [bid |-> s, gen |-> gen, excl |-> FALSE, off |-> 0, len |-> len]]
             /\ selected' = selected \ {c}
    BY <1>5 DEF OnRead
  <2> DEFINE s == <<"provided", c.local>>
             x == [bid |-> s, gen |-> gen, excl |-> FALSE, off |-> 0, len |-> len]
  <2>2. s \in Slot
    BY DEF Slot, Provided, RestTypes
  <2>3. SlabTypes'
    <3>1. borrows' = [borrows EXCEPT ![s] = 1] /\ UNCHANGED <<free, ring, tail, published>>
      BY <1>5, <2>1 DEF OnRead
    <3> HIDE DEF s
    <3>2. borrows' \in [Slot -> Int]
      <4>1. borrows \in [Slot -> Int]
        BY DEF SlabTypes
      <4> QED BY <2>2, <3>1, <4>1
    <3> QED BY <3>1, <3>2 DEF SlabTypes
  <2>4. x \in AnyView /\ x.gen <= gen /\ x.off + x.len <= SlotSize
    BY <2>2 DEF AnyView, View, RestTypes
  <2>5. ViewTypes'
    BY <1>5, <2>1, <2>4, ViewSet DEF OnRead
  <2>6. IsFiniteSet(selected')
    BY <2>1, FS_RemoveElement DEF RestTypes
  <2> QED BY <1>5, <2>1, <2>3, <2>5, <2>6 DEF OnRead, RestTypes
<1>6. ASSUME NEW w \in ViewId, NEW mid \in 0..SlotSize, SplitAt(v, w, mid)
      PROVE  SlabTypes' /\ ViewTypes' /\ RestTypes'
  <2> DEFINE x == [views[v] EXCEPT !.len = mid]
             y == [views[v] EXCEPT !.off = @ + mid, !.len = @ - mid]
  <2>1. views[v] \in View /\ views[v].gen <= gen /\ views[v].off + views[v].len <= SlotSize
    BY <1>6, HeldIsView DEF SplitAt, ViewTypes
  <2>2. x \in AnyView /\ x.gen <= gen /\ x.off + x.len <= SlotSize
    <3>1. mid <= views[v].len /\ views[v].len \in Nat /\ views[v].off \in Nat
      BY <1>6, <2>1, ViewFields DEF SplitAt
    <3>2. x \in View /\ x.gen = views[v].gen /\ x.off = views[v].off /\ x.len = mid
      BY <2>1 DEF View
    <3> HIDE DEF x, y
    <3>3. x.off + x.len <= SlotSize
      BY <2>1, <3>1, <3>2, SizesAssumption
    <3> QED BY <2>1, <3>2, <3>3 DEF AnyView
  <2>3. y \in AnyView /\ y.gen <= gen /\ y.off + y.len <= SlotSize
    <3> DEFINE l == views[v].len - mid
    <3>1. mid \in Nat /\ mid + l <= views[v].len /\ l \in Nat
      <4>1. mid <= views[v].len /\ views[v].len \in Nat
        BY <1>6, <2>1, ViewFields DEF SplitAt
      <4> QED BY <4>1
    <3>2. PartOf(views[v], mid, l, y)
      BY <2>1 DEF View, PartOf
    <3> HIDE DEF y, l
    <3>3. y \in View /\ y.gen = views[v].gen /\ y.off + y.len <= SlotSize
      BY <2>1, <3>1, <3>2, PartOfView
    <3> QED BY <2>1, <3>3 DEF AnyView
  <2>4. views' = [views EXCEPT ![v] = x, ![w] = y]
    BY <1>6 DEF SplitAt
  <2> HIDE DEF x, y
  <2>5. ViewTypes'
    BY <1>6, <2>2, <2>3, <2>4 DEF SplitAt, Rest, ViewTypes
  <2>6. SlabTypes'
    <3>1. views[v].bid \in Slot
      BY <2>1, ViewFields
    <3>2. borrows[views[v].bid] - 1 \in Int
      BY <3>1 DEF SlabTypes
    <3> QED BY <1>6, <3>1, <3>2, CountsSet DEF SplitAt
  <2> QED BY <1>6, <2>5, <2>6 DEF SplitAt, Rest, RestTypes
<1>7. ASSUME NEW w \in ViewId, NEW a \in 0..SlotSize, NEW b \in 0..SlotSize, Sub(v, w, a, b)
      PROVE  SlabTypes' /\ ViewTypes' /\ RestTypes'
  <2> DEFINE x == [views[v] EXCEPT !.off = @ + a, !.len = b - a]
  <2>1. views[v] \in View /\ views[v].gen <= gen /\ views[v].off + views[v].len <= SlotSize
    BY <1>7, HeldIsView DEF Sub, ViewTypes
  <2>2. x \in AnyView /\ x.gen <= gen /\ x.off + x.len <= SlotSize
    <3> DEFINE l == b - a
    <3>1. a \in Nat /\ a + l <= views[v].len /\ l \in Nat
      <4>1. a <= b /\ b <= views[v].len /\ views[v].len \in Nat
        BY <1>7, <2>1, ViewFields DEF Sub
      <4> QED BY <4>1
    <3>2. PartOf(views[v], a, l, x)
      BY <2>1 DEF View, PartOf
    <3> HIDE DEF x, l
    <3>3. x \in View /\ x.gen = views[v].gen /\ x.off + x.len <= SlotSize
      BY <2>1, <3>1, <3>2, PartOfView
    <3> QED BY <2>1, <3>3 DEF AnyView
  <2>3. views' = [views EXCEPT ![w] = x]
    BY <1>7 DEF Sub
  <2> HIDE DEF x
  <2>4. ViewTypes'
    BY <1>7, <2>2, <2>3, ViewSet DEF Sub, Rest
  <2>5. SlabTypes'
    <3>1. views[v].bid \in Slot
      BY <2>1, ViewFields
    <3>2. borrows[views[v].bid] + 1 \in Int
      BY <3>1 DEF SlabTypes
    <3> QED BY <1>7, <3>1, <3>2, CountsSet DEF Sub
  <2> QED BY <1>7, <2>4, <2>5 DEF Sub, Rest, RestTypes
<1> QED BY <1>1, <1>2, <1>3, <1>4, <1>5, <1>6, <1>7

\* Every step keeps the types.
LEMMA NextTypes == PoolTypes /\ [PoolsNext]_poolVars => PoolTypes'
<1> SUFFICES ASSUME SlabTypes, ViewTypes, RestTypes, [PoolsNext]_poolVars
             PROVE  SlabTypes' /\ ViewTypes' /\ RestTypes'
  BY TypeParts DEF PoolTypes, PoolsTypeOK, SlabTypes, ViewTypes, RestTypes, AnyView
<1>1. CASE UNCHANGED poolVars
  BY <1>1 DEF poolVars, slabs, SlabTypes, ViewTypes, RestTypes
<1>2. CASE PoolsNext
  BY <1>2, RuntimeTypes, ProgramTypes DEF PoolsNext
<1> QED BY <1>1, <1>2

-----------------------------------------------------------------------------
(* What a count says about the views, and what keeps views apart.          *)

\* Views of runtime g on slot s.
On(vs, g, s, v) == vs[v].bid = s /\ vs[v].gen = g

\* With matching counts, a count of 0 means that no view is on the slot, 1 or
\* -1 that one view is alone there, and a positive one that none is exclusive.
LEMMA CountTells ==
  ASSUME NEW vs, NEW g, NEW bs, NEW s \in Slot, Counted(vs, g, bs)
  PROVE  /\ bs[s] = 0 => \A v \in ViewId : ~On(vs, g, s, v)
         /\ (bs[s] = 1 \/ bs[s] = -1) =>
              \A v, w \in ViewId : On(vs, g, s, v) /\ On(vs, g, s, w) => v = w
         /\ bs[s] > 0 => \A v \in ViewId : On(vs, g, s, v) => ~vs[v].excl
<1> DEFINE A == Shared(vs, g, s)
           B == Exclusive(vs, g, s)
<1>1. A \in SUBSET ViewId /\ B \in SUBSET ViewId
  BY HoldersAre
<1>2. Match(bs[s], A, B)
  BY DEF Counted
<1>3. \A v \in ViewId : On(vs, g, s, v) => v \in A \/ v \in B
  BY DEF On, Shared, Exclusive
<1>4. \A v \in ViewId : On(vs, g, s, v) /\ vs[v].excl => v \in B
  BY DEF On, Exclusive
<1> HIDE DEF A, B
<1>5. /\ bs[s] > 0 => B = {}
      /\ bs[s] < 0 => A = {}
      /\ bs[s] = 0 => A = {} /\ B = {}
      /\ bs[s] = 1 => \A v, w \in A : v = w
      /\ bs[s] = -1 => \A v, w \in B : v = w
  BY <1>1, <1>2, CountSays
<1>6. bs[s] = 0 => \A v \in ViewId : ~On(vs, g, s, v)
  BY <1>3, <1>5
<1>7. CASE bs[s] = 1
  <2>1. bs[s] > 0 /\ bs[s] # 0
    BY <1>7
  <2> QED BY <1>3, <1>4, <1>5, <1>7, <2>1
<1>8. CASE bs[s] = -1
  <2>1. bs[s] < 0 /\ bs[s] # 0 /\ ~(bs[s] > 0)
    BY <1>8
  <2> QED BY <1>3, <1>5, <1>8, <2>1
<1>9. bs[s] > 0 => \A v \in ViewId : On(vs, g, s, v) => ~vs[v].excl
  BY <1>4, <1>5
<1> QED BY <1>6, <1>7, <1>8, <1>9

\* A view that is alone on its slot after the change, or not of this runtime,
\* is apart from all.
LEMMA ApartAlone ==
  ASSUME NEW vs, NEW us, NEW g, NEW v \in ViewId, NEW x, OneChange(vs, us, v, x),
         AllApart(vs, g),
         x.gen = g => \A w \in ViewId \ {v} : ~On(vs, g, x.bid, w)
  PROVE  AllApart(us, g)
BY DEF AllApart, OneChange, On

\* A shared view added to a slot without exclusive views.
LEMMA ApartShared ==
  ASSUME NEW vs, NEW us, NEW g, NEW v \in ViewId, NEW x, OneChange(vs, us, v, x),
         AllApart(vs, g), ~x.excl,
         x.gen = g => \A w \in ViewId \ {v} : On(vs, g, x.bid, w) => ~vs[w].excl
  PROVE  AllApart(us, g)
BY DEF AllApart, OneChange, On

\* Apart stays apart when the views are cut down.
LEMMA ApartParts ==
  ASSUME NEW x, NEW y, NEW x1, x.off \in Nat, x.len \in Nat, y.off \in Nat, y.len \in Nat,
         x1.off \in Nat, x1.len \in Nat,
         x.off <= x1.off, x1.off + x1.len <= x.off + x.len
  PROVE  /\ Apart(x, y) => Apart(x1, y)
         /\ Apart(y, x) => Apart(y, x1)
BY DEF Apart

\* The offsets and lengths of all views are numbers.
Numbers(vs) == \A v \in ViewId : vs[v].off \in Nat /\ vs[v].len \in Nat

\* A view that shrinks stays apart from the others.
LEMMA ApartShrunk ==
  ASSUME NEW vs, NEW us, NEW g, NEW v \in ViewId, NEW x, OneChange(vs, us, v, x),
         AllApart(vs, g), Numbers(vs),
         x.bid = vs[v].bid, x.gen = vs[v].gen, x.excl = vs[v].excl,
         x.off = vs[v].off, x.len \in Nat, x.len <= vs[v].len
  PROVE  AllApart(us, g)
<1> SUFFICES ASSUME NEW a \in ViewId, NEW b \in ViewId,
                    a # b, us[a].excl, us[a].gen = g, us[b].gen = g, us[a].bid = us[b].bid
             PROVE  Apart(us[a], us[b])
  BY DEF AllApart
<1>1. us[v] = x /\ \A w \in ViewId \ {v} : us[w] = vs[w]
  BY DEF OneChange
<1>2. Apart(vs[a], vs[b])
  BY <1>1 DEF AllApart
<1>3. /\ vs[a].off \in Nat /\ vs[a].len \in Nat /\ vs[b].off \in Nat /\ vs[b].len \in Nat
      /\ vs[v].off \in Nat /\ vs[v].len \in Nat
  BY DEF Numbers
<1>4. x.off \in Nat /\ vs[v].off <= x.off /\ x.off + x.len <= vs[v].off + vs[v].len
  BY <1>3
<1>5. CASE a = v
  BY <1>1, <1>2, <1>3, <1>4, <1>5, ApartParts
<1>6. CASE b = v
  BY <1>1, <1>2, <1>3, <1>4, <1>6, ApartParts
<1>7. CASE a # v /\ b # v
  BY <1>1, <1>2, <1>7
<1> QED BY <1>5, <1>6, <1>7

\* x and y are the halves of z, split at its byte mid.
Halves(z, mid, x, y) ==
  /\ x.bid = z.bid /\ x.gen = z.gen /\ x.excl = z.excl
  /\ y.bid = z.bid /\ y.gen = z.gen /\ y.excl = z.excl
  /\ x.off = z.off /\ x.len = mid
  /\ y.off = z.off + mid /\ y.len = z.len - mid

\* The halves of a split view are apart, from each other and from the rest.
LEMMA ApartSplit ==
  ASSUME NEW vs, NEW us, NEW g, NEW v \in ViewId, NEW w \in ViewId, v # w,
         NEW x, NEW y, NEW mid \in Nat,
         us[v] = x, us[w] = y, \A u \in ViewId \ {v, w} : us[u] = vs[u],
         AllApart(vs, g), Numbers(vs), vs[v].excl, mid <= vs[v].len,
         Halves(vs[v], mid, x, y)
  PROVE  AllApart(us, g)
<1> SUFFICES ASSUME NEW a \in ViewId, NEW b \in ViewId,
                    a # b, us[a].excl, us[a].gen = g, us[b].gen = g, us[a].bid = us[b].bid
             PROVE  Apart(us[a], us[b])
  BY DEF AllApart
<1>1. /\ vs[a].off \in Nat /\ vs[a].len \in Nat /\ vs[b].off \in Nat /\ vs[b].len \in Nat
      /\ vs[v].off \in Nat /\ vs[v].len \in Nat
  BY DEF Numbers
<1>2. /\ x.off \in Nat /\ x.len \in Nat /\ y.off \in Nat /\ y.len \in Nat
      /\ vs[v].off <= x.off /\ x.off + x.len <= vs[v].off + vs[v].len
      /\ vs[v].off <= y.off /\ y.off + y.len <= vs[v].off + vs[v].len
  BY <1>1 DEF Halves
<1>3. CASE a \in {v, w} /\ b \in {v, w}
  <2>1. Apart(x, y) /\ Apart(y, x)
    BY <1>1, <1>2 DEF Apart, Halves
  <2> QED BY <1>3, <2>1
<1>4. CASE a \in {v, w} /\ b \notin {v, w}
  <2>1. us[b] = vs[b] /\ (us[a] = x \/ us[a] = y)
    BY <1>4
  <2>2. Apart(vs[v], vs[b])
    BY <1>4, <2>1 DEF AllApart, Halves
  <2>3. Apart(x, vs[b]) /\ Apart(y, vs[b])
    BY <1>1, <1>2, <2>2, ApartParts
  <2> QED BY <2>1, <2>3
<1>5. CASE a \notin {v, w} /\ b \in {v, w}
  <2>1. us[a] = vs[a] /\ (us[b] = x \/ us[b] = y)
    BY <1>5
  <2>2. Apart(vs[a], vs[v])
    BY <1>5, <2>1 DEF AllApart, Halves
  <2>3. Apart(vs[a], x) /\ Apart(vs[a], y)
    BY <1>1, <1>2, <2>2, ApartParts
  <2> QED BY <2>1, <2>3
<1>6. CASE a \notin {v, w} /\ b \notin {v, w}
  BY <1>6 DEF AllApart
<1> QED BY <1>3, <1>4, <1>5, <1>6

-----------------------------------------------------------------------------
(* The steps of a program that runs.                                       *)

\* Counts that match, and views apart unless halves are grown.
Good(vs, g, bs) == Counted(vs, g, bs) /\ (~GrowsHalves => AllApart(vs, g))

\* The invariant's second half, while a runtime is up.
LEMMA GoodIs ==
  (CountInv /\ ApartInv) <=> (phase # "stopped" => Good(views, gen, borrows))
BY DEF CountInv, ApartInv, Good

\* What holds of the pools while the program acts on them.
Up == phase # "stopped" /\ SlabTypes /\ ViewTypes /\ RestTypes /\ Good(views, gen, borrows)

\* A view of this runtime is what the code calls live.
LEMMA LiveIs ==
  ASSUME Up, NEW x
  PROVE  Live(x) <=> x.gen = gen
BY DEF Up, Live

\* alloc and a provided read: the slot had no view, so the new one is alone.
LEMMA GoodNew ==
  ASSUME Up, NEW v \in ViewId, ~Held(v), NEW x, NEW bs,
         x.bid \in Slot, x.gen = gen, x.excl \in BOOLEAN, borrows[x.bid] = 0,
         OneCount(borrows, bs, x.bid, IF x.excl THEN -1 ELSE 1)
  PROVE  Good([views EXCEPT ![v] = x], gen, bs)
<1> DEFINE us == [views EXCEPT ![v] = x]
<1>1. OneChange(views, us, v, x)
  BY DEF OneChange, Up, ViewTypes
<1>2. views[v].gen # gen
  BY DEF Held, NoView, Up, RestTypes
<1>3. Counted(views, gen, borrows) /\ (~GrowsHalves => AllApart(views, gen))
  BY DEF Up, Good
<1> HIDE DEF us
<1>4. Counted(us, gen, bs)
  <2>1. OneCount(borrows, bs, x.bid, IF x.excl THEN 0 - 1 ELSE 0 + 1)
    OBVIOUS
  <2>2. IF x.excl THEN 0 <= 0 ELSE 0 >= 0
    OBVIOUS
  <2> QED BY <1>1, <1>2, <1>3, <2>1, <2>2, CountedAdd
<1>5. ~GrowsHalves => AllApart(us, gen)
  <2>1. \A w \in ViewId \ {v} : ~On(views, gen, x.bid, w)
    BY <1>3, CountTells
  <2> QED BY <1>1, <1>3, <2>1, ApartAlone
<1> QED BY <1>4, <1>5 DEF Good, us

\* The drop of a view.
LEMMA GoodDrop ==
  ASSUME Up, NEW v \in ViewId, DropView(v)
  PROVE  Good(views', gen, borrows')
<1> DEFINE us == [views EXCEPT ![v] = NoView]
<1>1. OneChange(views, us, v, NoView) /\ views' = us
  BY DEF OneChange, Up, ViewTypes, DropView
<1>2. /\ views[v].bid \in Slot /\ views[v].excl \in BOOLEAN
      /\ borrows[views[v].bid] \in Int
  BY HeldIsView, ViewFields DEF DropView, Up, SlabTypes
<1>3. Counted(views, gen, borrows) /\ (~GrowsHalves => AllApart(views, gen)) /\ gen # 0
  BY DEF Up, Good, RestTypes
<1>4. NoView.gen # gen
  BY <1>3 DEF NoView
<1> HIDE DEF us
<1>5. Counted(us, gen, borrows')
  <2>1. CASE views[v].gen = gen
    <3>1. borrows' = [borrows EXCEPT ![views[v].bid] =
                        Released(borrows[views[v].bid], views[v].excl)]
      BY <2>1, LiveIs DEF DropView, Release
    <3>2. OneCount(borrows, borrows', views[v].bid,
                   Released(borrows[views[v].bid], views[v].excl))
      BY <1>2, <3>1 DEF OneCount, Up, SlabTypes
    <3> QED BY <1>1, <1>2, <1>3, <2>1, <3>2, CountedRemove
  <2>2. CASE views[v].gen # gen
    <3>1. borrows' = borrows
      BY <2>2, LiveIs DEF DropView, Release, slabs
    <3> QED BY <1>1, <1>3, <1>4, <2>2, <3>1, CountedDead
  <2> QED BY <2>1, <2>2
<1>6. ~GrowsHalves => AllApart(us, gen)
  BY <1>1, <1>3, <1>4, ApartAlone
<1> QED BY <1>1, <1>5, <1>6 DEF Good

\* alloc, alloc_mut, alloc_slice_mut and alloc_bytes.
LEMMA GoodAlloc ==
  ASSUME Up, NEW v \in ViewId, NEW excl \in BOOLEAN, NEW len, Alloc(v, excl, len)
  PROVE  Good(views', gen, borrows')
<1> DEFINE s == <<"fixed", free[Len(free)]>>
           x == [bid |-> s, gen |-> gen, excl |-> excl, off |-> 0, len |-> len]
<1>1. s \in Slot
  <2> DEFINE L == 0..(FixedCount - 1)
  <2>1. free \in Seq(L) /\ free # <<>>
    BY DEF Alloc, Up, SlabTypes
  <2>2. free[Len(free)] \in L
    <3> HIDE DEF L
    <3>1. Len(free) \in Nat /\ Len(free) >= 1
      BY <2>1
    <3> QED BY <2>1, <3>1
  <2> QED BY <2>2 DEF Slot, Fixed
<1>2. /\ ~Held(v) /\ borrows[s] = 0
      /\ borrows' = [borrows EXCEPT ![s] = IF excl THEN -1 ELSE 1]
      /\ views' = [views EXCEPT ![v] = x]
  BY DEF Alloc
<1>3. x.bid = s /\ x.gen = gen /\ x.excl = excl
  OBVIOUS
<1> HIDE DEF s, x
<1>4. OneCount(borrows, borrows', s, IF excl THEN -1 ELSE 1)
  BY <1>1, <1>2 DEF OneCount, Up, SlabTypes
<1> QED BY <1>1, <1>2, <1>3, <1>4, GoodNew

\* A provided read hands its slot to the program.
LEMMA GoodRead ==
  ASSUME Up, NEW v \in ViewId, NEW len, OnRead(v, len)
  PROVE  Good(views', gen, borrows')
<1>1. PICK c \in selected :
        LET s == <<"provided", c.local>>
        IN /\ borrows[s] = 0
           /\ borrows' = [borrows EXCEPT ![s] = 1]
           /\ views' = [views EXCEPT ![v] =
                [bid |-> s, gen |-> gen, excl |-> FALSE, off |-> 0, len |-> len]]
  BY DEF OnRead
<1> DEFINE s == <<"provided", c.local>>
           x == [bid |-> s, gen |-> gen, excl |-> FALSE, off |-> 0, len |-> len]
<1>2. s \in Slot
  BY DEF Slot, Provided, Up, RestTypes
<1>3. /\ ~Held(v) /\ borrows[s] = 0
      /\ borrows' = [borrows EXCEPT ![s] = 1]
      /\ views' = [views EXCEPT ![v] = x]
  BY <1>1 DEF OnRead
<1>4. x.bid = s /\ x.gen = gen /\ x.excl = FALSE
  OBVIOUS
<1> HIDE DEF s, x
<1>5. OneCount(borrows, borrows', s, 1)
  <2>1. borrows \in [Slot -> Int]
    BY DEF Up, SlabTypes
  <2> QED BY <1>2, <1>3, <2>1 DEF OneCount
<1>6. OneCount(borrows, borrows', x.bid, IF x.excl THEN -1 ELSE 1)
  BY <1>4, <1>5
<1> QED BY <1>2, <1>3, <1>4, <1>6, GoodNew

\* into_mut and into_ref: the sole holder of a slot changes kind.
LEMMA GoodFlip ==
  ASSUME Up, NEW v \in ViewId, IntoMut(v) \/ IntoRef(v)
  PROVE  Good(views', gen, borrows')
<1> DEFINE x == [views[v] EXCEPT !.excl = ~@]
           s == views[v].bid
<1>1. views[v] \in View /\ views[v].gen = gen
  BY HeldIsView, LiveIs DEF IntoMut, IntoRef, Up
<1>2. s \in Slot /\ views[v].excl \in BOOLEAN
  BY <1>1, ViewFields
<1>3. x.bid = s /\ x.gen = gen /\ x.excl \in BOOLEAN /\ x.excl # views[v].excl
  BY <1>1 DEF View
<1>4. views' = [views EXCEPT ![v] = x]
  BY <1>1 DEF IntoMut, IntoRef, View
<1>5. /\ borrows[s] = (IF views[v].excl THEN -1 ELSE 1)
      /\ borrows' = [borrows EXCEPT ![s] = IF views[v].excl THEN 1 ELSE -1]
  BY DEF IntoMut, IntoRef
<1>6. Counted(views, gen, borrows) /\ (~GrowsHalves => AllApart(views, gen))
  BY DEF Up, Good
<1> HIDE DEF x, s
<1>7. OneChange(views, views', v, x)
  BY <1>4 DEF OneChange, Up, ViewTypes
<1>8. OneCount(borrows, borrows', s, IF x.excl THEN -1 ELSE 1)
  <2>1. borrows \in [Slot -> Int]
    BY DEF Up, SlabTypes
  <2>2. borrows' = [borrows EXCEPT ![s] = IF x.excl THEN -1 ELSE 1]
    BY <1>2, <1>3, <1>5
  <2> QED BY <1>2, <2>1, <2>2 DEF OneCount
<1>9. Counted(views', gen, borrows')
  <2>1. views[v].bid \in Slot /\ x.bid = views[v].bid
    BY <1>2, <1>3 DEF s
  <2>2. /\ borrows[x.bid] = (IF views[v].excl THEN -1 ELSE 1)
        /\ OneCount(borrows, borrows', x.bid, IF x.excl THEN -1 ELSE 1)
    BY <1>3, <1>5, <1>8
  <2>3. /\ views[v].gen = gen /\ views[v].excl \in BOOLEAN
        /\ x.gen = gen /\ x.excl \in BOOLEAN /\ x.excl # views[v].excl
    BY <1>1, <1>2, <1>3
  <2>4. Counted(views, gen, borrows) /\ OneChange(views, views', v, x)
    BY <1>6, <1>7
  <2> QED BY <2>1, <2>2, <2>3, <2>4, CountedFlip
<1>10. ~GrowsHalves => AllApart(views', gen)
  <2>1. On(views, gen, s, v)
    BY <1>1 DEF On, s
  <2>2. borrows[s] = 1 \/ borrows[s] = -1
    BY <1>2, <1>5
  <2>3. \A w \in ViewId \ {v} : ~On(views, gen, s, w)
    BY <1>2, <1>6, <2>1, <2>2, CountTells
  <2> QED BY <1>3, <1>6, <1>7, <2>3, ApartAlone
<1> QED BY <1>9, <1>10 DEF Good

\* The views' offsets and lengths are numbers.
LEMMA ViewNumbers ==
  ASSUME Up
  PROVE  Numbers(views)
BY SizesAssumption DEF Numbers, Up, ViewTypes, AnyView, View, NoView

\* One more view of v's kind, at w and on v's slot: us is the views before,
\* with v's own bytes changed or not.
LEMMA CountMore ==
  ASSUME Up, NEW v \in ViewId, NEW w \in ViewId, views[v] \in View, ~Held(w),
         NEW us, NEW vs, NEW y, NEW n \in Int,
         Counted(us, gen, borrows), us[w] = views[w], OneChange(us, vs, w, y),
         y.bid = views[v].bid, y.gen = views[v].gen, y.excl = views[v].excl,
         \/ ~Live(views[v]) /\ borrows' = borrows
         \/ /\ Live(views[v])
            /\ IF y.excl THEN borrows[y.bid] < 0 ELSE borrows[y.bid] > 0
            /\ n = IF y.excl THEN borrows[y.bid] - 1 ELSE borrows[y.bid] + 1
            /\ borrows' = [borrows EXCEPT ![y.bid] = n]
  PROVE  Counted(vs, gen, borrows')
<1>1. us[w].gen # gen
  BY DEF Held, NoView, Up, RestTypes
<1>2. y.bid \in Slot /\ y.excl \in BOOLEAN
  BY ViewFields
<1>3. borrows[y.bid] \in Int
  BY <1>2 DEF Up, SlabTypes
<1>4. CASE ~Live(views[v])
  <2>1. y.gen # gen /\ borrows' = borrows
    BY <1>4, LiveIs
  <2> QED BY <1>1, <2>1, CountedDead
<1>5. CASE Live(views[v])
  <2>1. y.gen = gen
    BY <1>5, LiveIs
  <2>2. OneCount(borrows, borrows', y.bid,
                 IF y.excl THEN borrows[y.bid] - 1 ELSE borrows[y.bid] + 1)
    <3>1. borrows \in [Slot -> Int] /\ borrows' = [borrows EXCEPT ![y.bid] = n]
      BY <1>5 DEF Up, SlabTypes
    <3>2. OneCount(borrows, borrows', y.bid, n)
      BY <1>2, <3>1 DEF OneCount
    <3> QED BY <1>5, <3>2
  <2>3. IF y.excl THEN borrows[y.bid] <= 0 ELSE borrows[y.bid] >= 0
    BY <1>3, <1>5
  <2> QED BY <1>1, <1>2, <1>3, <2>1, <2>2, <2>3, CountedAdd
<1> QED BY <1>4, <1>5

\* Ref::clone and Bytes::sub.
LEMMA GoodSub ==
  ASSUME Up, NEW v \in ViewId, NEW w \in ViewId, NEW a, NEW b, Sub(v, w, a, b)
  PROVE  Good(views', gen, borrows')
<1> DEFINE y == [views[v] EXCEPT !.off = @ + a, !.len = b - a]
           s == views[v].bid
<1>1. views[v] \in View /\ ~Held(w) /\ ~views[v].excl
  BY HeldIsView DEF Sub, Up
<1>2. s \in Slot /\ borrows[s] \in Int /\ borrows[s] + 1 \in Int
  BY <1>1, ViewFields DEF Up, SlabTypes
<1>3. y.bid = s /\ y.gen = views[v].gen /\ y.excl = views[v].excl
  BY <1>1 DEF View
<1>4. views' = [views EXCEPT ![w] = y]
  BY DEF Sub
<1>5. Counted(views, gen, borrows) /\ (~GrowsHalves => AllApart(views, gen))
  BY DEF Up, Good
<1>6. \/ ~Live(views[v]) /\ borrows' = borrows
      \/ Live(views[v]) /\ borrows[s] > 0 /\ borrows' = [borrows EXCEPT ![s] = borrows[s] + 1]
  BY DEF Sub
<1> HIDE DEF y
<1>7. OneChange(views, views', w, y)
  BY <1>4 DEF OneChange, Up, ViewTypes
<1>8. Counted(views', gen, borrows')
  <2>1. \/ ~Live(views[v]) /\ borrows' = borrows
        \/ /\ Live(views[v])
           /\ IF y.excl THEN borrows[y.bid] < 0 ELSE borrows[y.bid] > 0
           /\ borrows[s] + 1 = IF y.excl THEN borrows[y.bid] - 1 ELSE borrows[y.bid] + 1
           /\ borrows' = [borrows EXCEPT ![y.bid] = borrows[s] + 1]
    BY <1>1, <1>3, <1>6
  <2>2. PICK n \in Int : n = borrows[s] + 1
    BY <1>2
  <2> QED BY <1>1, <1>3, <1>5, <1>7, <2>1, <2>2, CountMore
<1>9. ~GrowsHalves => AllApart(views', gen)
  <2>1. ~y.excl
    BY <1>1, <1>3
  <2>2. y.gen = gen => \A u \in ViewId \ {w} : On(views, gen, y.bid, u) => ~views[u].excl
    <3> SUFFICES ASSUME y.gen = gen
                 PROVE  \A u \in ViewId \ {w} : On(views, gen, y.bid, u) => ~views[u].excl
      OBVIOUS
    <3>1. borrows[s] > 0
      BY <1>3, <1>6, LiveIs
    <3> QED BY <1>2, <1>3, <1>5, <3>1, CountTells
  <2> QED BY <1>5, <1>7, <2>1, <2>2, ApartShared
<1> QED BY <1>8, <1>9 DEF Good

\* BytesMut::split_at.
LEMMA GoodSplit ==
  ASSUME Up, NEW v \in ViewId, NEW w \in ViewId, NEW mid \in Nat, SplitAt(v, w, mid)
  PROVE  Good(views', gen, borrows')
<1> DEFINE x == [views[v] EXCEPT !.len = mid]
           y == [views[v] EXCEPT !.off = @ + mid, !.len = @ - mid]
           us == [views EXCEPT ![v] = x]
           s == views[v].bid
<1>1. views[v] \in View /\ ~Held(w) /\ views[v].excl /\ v # w /\ mid <= views[v].len
  BY HeldIsView DEF SplitAt, Up
<1>2. s \in Slot /\ borrows[s] \in Int /\ borrows[s] - 1 \in Int
  BY <1>1, ViewFields DEF Up, SlabTypes
<1>3. /\ x.bid = s /\ x.gen = views[v].gen /\ x.excl = views[v].excl
      /\ x.off = views[v].off /\ x.len = mid
  BY <1>1 DEF View
<1>4. /\ y.bid = s /\ y.gen = views[v].gen /\ y.excl = views[v].excl
      /\ y.off = views[v].off + mid /\ y.len = views[v].len - mid
  BY <1>1 DEF View
<1>5. views' = [views EXCEPT ![v] = x, ![w] = y]
  BY DEF SplitAt
<1>6. Counted(views, gen, borrows) /\ (~GrowsHalves => AllApart(views, gen))
  BY DEF Up, Good
<1>7. \/ ~Live(views[v]) /\ borrows' = borrows
      \/ Live(views[v]) /\ borrows[s] < 0 /\ borrows' = [borrows EXCEPT ![s] = borrows[s] - 1]
  BY DEF SplitAt
<1> HIDE DEF x, y
<1>8. us[w] = views[w] /\ OneChange(us, views', w, y)
  BY <1>1, <1>5 DEF OneChange, Up, ViewTypes
<1>9. Counted(us, gen, borrows)
  <2>1. \A u \in ViewId : us[u].bid = views[u].bid /\ us[u].gen = views[u].gen
                          /\ us[u].excl = views[u].excl
    BY <1>3 DEF Up, ViewTypes
  <2> HIDE DEF us
  <2> QED BY <1>6, <2>1, CountedSame
<1> HIDE DEF us
<1>10. Counted(views', gen, borrows')
  <2>1. \/ ~Live(views[v]) /\ borrows' = borrows
        \/ /\ Live(views[v])
           /\ IF y.excl THEN borrows[y.bid] < 0 ELSE borrows[y.bid] > 0
           /\ borrows[s] - 1 = IF y.excl THEN borrows[y.bid] - 1 ELSE borrows[y.bid] + 1
           /\ borrows' = [borrows EXCEPT ![y.bid] = borrows[s] - 1]
    BY <1>1, <1>4, <1>7
  <2>2. PICK n \in Int : n = borrows[s] - 1
    BY <1>2
  <2> QED BY <1>1, <1>4, <1>8, <1>9, <2>1, <2>2, CountMore
<1>11. ~GrowsHalves => AllApart(views', gen)
  <2>1. views'[v] = x /\ views'[w] = y /\ \A u \in ViewId \ {v, w} : views'[u] = views[u]
    BY <1>1, <1>5 DEF Up, ViewTypes
  <2>2. Numbers(views)
    BY ViewNumbers
  <2>3. Halves(views[v], mid, x, y)
    BY <1>3, <1>4 DEF Halves
  <2> QED BY <1>1, <1>6, <2>1, <2>2, <2>3, ApartSplit
<1> QED BY <1>10, <1>11 DEF Good

\* BytesMut::set_len and clear: a view that grows is alone on its slot.
LEMMA GoodSetLen ==
  ASSUME Up, NEW v \in ViewId, NEW len \in Nat, SetLen(v, len)
  PROVE  Good(views', gen, borrows')
<1> DEFINE x == [views[v] EXCEPT !.len = len]
           s == views[v].bid
<1>1. views[v] \in View /\ borrows' = borrows
  BY HeldIsView DEF SetLen, Up, slabs
<1>2. /\ x.bid = s /\ x.gen = views[v].gen /\ x.excl = views[v].excl
      /\ x.off = views[v].off /\ x.len = len
  BY <1>1 DEF View
<1>3. s \in Slot /\ views[v].len \in Nat
  BY <1>1, ViewFields
<1>4. Counted(views, gen, borrows) /\ (~GrowsHalves => AllApart(views, gen))
  BY DEF Up, Good
<1>5. views' = [views EXCEPT ![v] = x]
  BY DEF SetLen
<1>6. GrowsHalves \/ len <= views[v].len \/ borrows[s] = -1
  BY DEF SetLen
<1> HIDE DEF x
<1>7. OneChange(views, views', v, x)
  BY <1>5 DEF OneChange, Up, ViewTypes
<1>8. Counted(views', gen, borrows')
  <2>1. \A u \in ViewId : views'[u].bid = views[u].bid /\ views'[u].gen = views[u].gen
                          /\ views'[u].excl = views[u].excl
    BY <1>2, <1>7 DEF OneChange
  <2> QED BY <1>1, <1>4, <2>1, CountedSame
<1>9. ASSUME ~GrowsHalves, len <= views[v].len
      PROVE  AllApart(views', gen)
  <2>1. Numbers(views)
    BY ViewNumbers
  <2> QED BY <1>2, <1>4, <1>7, <1>9, <2>1, ApartShrunk
<1>10. ASSUME ~GrowsHalves, borrows[s] = -1
       PROVE  AllApart(views', gen)
  <2>1. x.gen = gen => \A u \in ViewId \ {v} : ~On(views, gen, x.bid, u)
    <3> SUFFICES ASSUME x.gen = gen
                 PROVE  \A u \in ViewId \ {v} : ~On(views, gen, x.bid, u)
      OBVIOUS
    <3>1. On(views, gen, s, v)
      BY <1>2 DEF On
    <3> QED BY <1>2, <1>3, <1>4, <1>10, <3>1, CountTells
  <2> QED BY <1>4, <1>7, <1>10, <2>1, ApartAlone
<1> QED BY <1>6, <1>8, <1>9, <1>10 DEF Good

-----------------------------------------------------------------------------
(* The ring: positions that wrap, and the entries between them.            *)

\* Division with remainder, and that the remainder is the only one.
LEMMA Division ==
  ASSUME NEW a \in Int, NEW n \in Nat \ {0}
  PROVE  a = n * (a \div n) + (a % n) /\ a \div n \in Int /\ a % n \in 0..(n - 1)
OBVIOUS

\* A quotient with a remainder below n determines that remainder.
LEMMA Remainder ==
  ASSUME NEW a \in Int, NEW n \in Nat \ {0}, NEW q \in Int, NEW r \in Int,
         0 <= r, r < n, a = n * q + r
  PROVE  r = a % n
OBVIOUS

\* The difference of two multiples is a multiple.
LEMMA Multiples ==
  ASSUME NEW n \in Int, NEW a \in Int, NEW b \in Int
  PROVE  n * a - n * b = n * (a - b) /\ n * a \in Int /\ n * b \in Int
OBVIOUS

\* The only multiple of n strictly between -n and n is 0.
LEMMA SmallMultiple ==
  ASSUME NEW n \in Nat \ {0}, NEW k \in Int, n * k < n, n * k > -n
  PROVE  k = 0
OBVIOUS

\* A position one turn of the tail away is at the same ring entry.
LEMMA SameEntry ==
  ASSUME NEW a \in Int
  PROVE  (a - TailMod) % RingCount = a % RingCount
<1> DEFINE n == RingCount
           q == a \div n
           p == TailMod \div n
           r == a % n
<1>0. n \in Nat \ {0} /\ TailMod \in Nat /\ TailMod % n = 0
  BY CountsAssumption
<1>1. a = n * q + r /\ q \in Int /\ r \in Int /\ 0 <= r /\ r < n
  BY <1>0, Division
<1>2. TailMod = n * p + (TailMod % n) /\ p \in Int
  BY <1>0, Division
<1> HIDE DEF q, p, r
<1>3. n * q - n * p = n * (q - p) /\ n * q \in Int /\ n * p \in Int
  BY <1>0, <1>1, <1>2, Multiples
<1>4. a - TailMod = n * (q - p) + r /\ q - p \in Int /\ a - TailMod \in Int
  BY <1>0, <1>1, <1>2, <1>3
<1>5. r = (a - TailMod) % n
  BY <1>0, <1>1, <1>4, Remainder
<1> QED BY <1>5 DEF r

\* Positions less than one turn of the ring apart are at different entries.
LEMMA OtherEntry ==
  ASSUME NEW a \in Int, NEW b \in Int, a < b, b < a + RingCount
  PROVE  a % RingCount # b % RingCount
<1> DEFINE n == RingCount
           q == a \div n
           p == b \div n
           r == a % n
<1> SUFFICES ASSUME b % n = r PROVE FALSE
  OBVIOUS
<1>0. n \in Nat \ {0}
  BY CountsAssumption
<1>1. a = n * q + r /\ q \in Int /\ r \in Int
  BY <1>0, Division
<1>2. b = n * p + r /\ p \in Int
  BY <1>0, Division
<1> HIDE DEF q, p, r
<1>3. n * p - n * q = n * (p - q) /\ n * q \in Int /\ n * p \in Int
  BY <1>0, <1>1, <1>2, Multiples
<1>4. b - a = n * (p - q) /\ p - q \in Int
  BY <1>1, <1>2, <1>3
<1>5. p - q = 0
  BY <1>0, <1>4, SmallMultiple
<1> QED BY <1>1, <1>2, <1>5

Position == 0..(TailMod - 1)

\* How far tail t is ahead of head h, and the k-th entry from h on.
Ahead(t, h) == (t - h) % TailMod
Entry(r, h, k) == r[(h + k) % RingCount]

\* The n entries from h on hold different slots; slot x is one of them.
Ring1to1(r, h, n) ==
  \A j, k \in 0..(n - 1) : Entry(r, h, j) = Entry(r, h, k) => j = k
InRing(r, h, n, x) == \E k \in 0..(n - 1) : Entry(r, h, k) = x

\* The distance from head to tail, without the modulus.
LEMMA AheadIs ==
  ASSUME NEW t \in Position, NEW h \in Position
  PROVE  /\ Ahead(t, h) = IF t >= h THEN t - h ELSE (t - h) + TailMod
         /\ Ahead(t, h) \in Position /\ (Ahead(t, h) = 0 <=> t = h)
<1>1. t \in Int /\ h \in Int /\ TailMod \in Nat \ {0} /\ 0 <= t /\ t < TailMod
      /\ 0 <= h /\ h < TailMod
  BY CountsAssumption DEF Position
<1>2. CASE t >= h
  <2>1. (t - h) % TailMod = t - h
    BY <1>1, <1>2
  <2> QED BY <1>1, <1>2, <2>1 DEF Ahead, Position
<1>3. CASE ~(t >= h)
  <2>1. (t - h) % TailMod = (t - h) + TailMod
    BY <1>1, <1>3
  <2> QED BY <1>1, <1>3, <2>1 DEF Ahead, Position
<1> QED BY <1>2, <1>3

\* The next position.
LEMMA NextPosition ==
  ASSUME NEW t \in Position
  PROVE  /\ (t + 1) % TailMod = IF t + 1 < TailMod THEN t + 1 ELSE 0
         /\ (t + 1) % TailMod \in Position
<1>1. t \in Int /\ TailMod \in Nat \ {0} /\ 0 <= t /\ t < TailMod
  BY CountsAssumption DEF Position
<1>2. CASE t + 1 < TailMod
  BY <1>1, <1>2 DEF Position
<1>3. CASE t + 1 = TailMod
  <2>1. TailMod % TailMod = 0
    BY <1>1
  <2> QED BY <1>1, <1>3, <2>1 DEF Position
<1> QED BY <1>1, <1>2, <1>3

\* The tail moves on by one, and the head does.
LEMMA AheadMoves ==
  ASSUME NEW t \in Position, NEW h \in Position
  PROVE  /\ Ahead(t, h) < TailMod - 1 => Ahead((t + 1) % TailMod, h) = Ahead(t, h) + 1
         /\ t # h => Ahead(t, (h + 1) % TailMod) = Ahead(t, h) - 1
<1> DEFINE u == (t + 1) % TailMod
           g == (h + 1) % TailMod
<1>1. /\ u = IF t + 1 < TailMod THEN t + 1 ELSE 0
      /\ g = IF h + 1 < TailMod THEN h + 1 ELSE 0
      /\ u \in Position /\ g \in Position
  BY NextPosition
<1> HIDE DEF u, g
<1>2. /\ Ahead(t, h) = IF t >= h THEN t - h ELSE (t - h) + TailMod
      /\ Ahead(u, h) = IF u >= h THEN u - h ELSE (u - h) + TailMod
      /\ Ahead(t, g) = IF t >= g THEN t - g ELSE (t - g) + TailMod
  BY <1>1, AheadIs
<1>3. t \in Int /\ h \in Int /\ TailMod \in Nat \ {0} /\ 0 <= t /\ t < TailMod
      /\ 0 <= h /\ h < TailMod
  BY CountsAssumption DEF Position
<1>4. Ahead(t, h) < TailMod - 1 => Ahead(u, h) = Ahead(t, h) + 1
  BY <1>1, <1>2, <1>3
<1>5. t # h => Ahead(t, g) = Ahead(t, h) - 1
  BY <1>1, <1>2, <1>3
<1> QED BY <1>4, <1>5 DEF u, g

\* The entry at the tail, and the entries after the head has moved.
LEMMA EntryMoves ==
  ASSUME NEW t \in Position, NEW h \in Position
  PROVE  /\ t % RingCount = (h + Ahead(t, h)) % RingCount
         /\ \A k \in Nat :
              (((h + 1) % TailMod) + k) % RingCount = (h + (k + 1)) % RingCount
<1>1. t \in Int /\ h \in Int /\ TailMod \in Nat \ {0} /\ 0 <= t /\ t < TailMod
      /\ 0 <= h /\ h < TailMod
  BY CountsAssumption DEF Position
<1>2. h + Ahead(t, h) = t \/ (h + Ahead(t, h)) - TailMod = t
  BY <1>1, AheadIs
<1>3. h + Ahead(t, h) \in Int
  BY <1>1, AheadIs
<1>4. t % RingCount = (h + Ahead(t, h)) % RingCount
  BY <1>2, <1>3, SameEntry
<1>5. ASSUME NEW k \in Nat
      PROVE  (((h + 1) % TailMod) + k) % RingCount = (h + (k + 1)) % RingCount
  <2> DEFINE g == (h + 1) % TailMod
  <2>1. g = IF h + 1 < TailMod THEN h + 1 ELSE 0
    BY NextPosition
  <2> HIDE DEF g
  <2>2. g + k = h + (k + 1) \/ g + k = (h + (k + 1)) - TailMod
    BY <1>1, <2>1
  <2>3. h + (k + 1) \in Int
    BY <1>1
  <2>4. (g + k) % RingCount = (h + (k + 1)) % RingCount
    BY <2>2, <2>3, SameEntry
  <2> QED BY <2>4 DEF g
<1> QED BY <1>4, <1>5

Ring == [0..(RingCount - 1) -> 0..(RingCount - 1)]

\* Every entry is a slot.
LEMMA EntryIsSlot ==
  ASSUME NEW r \in Ring, NEW h \in Position, NEW k \in Nat
  PROVE  /\ (h + k) % RingCount \in 0..(RingCount - 1)
         /\ Entry(r, h, k) \in 0..(RingCount - 1)
<1>1. h + k \in Int /\ RingCount \in Nat \ {0}
  BY CountsAssumption DEF Position
<1>2. (h + k) % RingCount \in 0..(RingCount - 1)
  BY <1>1
<1> QED BY <1>2 DEF Entry, Ring

\* A ring that lacks a slot has room for it.
LEMMA RingRoom ==
  ASSUME NEW r \in Ring, NEW h \in Position, NEW n \in Nat, Ring1to1(r, h, n),
         NEW x \in 0..(RingCount - 1), ~InRing(r, h, n, x)
  PROVE  n < RingCount
<1> SUFFICES ASSUME n >= RingCount PROVE FALSE
  BY CountsAssumption
<1> DEFINE S == 0..(n - 1)
           L == 0..(RingCount - 1)
           T == L \ {x}
           f == [k \in S |-> Entry(r, h, k)]
<1>1. RingCount \in Nat /\ RingCount - 1 \in Nat /\ n - 1 \in Nat
  BY CountsAssumption
<1>2. IsFiniteSet(S) /\ Cardinality(S) = n
  BY <1>1, FS_Interval
<1>3. IsFiniteSet(L) /\ Cardinality(L) = RingCount
  BY <1>1, FS_Interval
<1>4. IsFiniteSet(T) /\ Cardinality(T) = RingCount - 1
  <2> HIDE DEF L
  <2>1. x \in L
    BY DEF L
  <2> QED BY <1>3, <2>1, FS_RemoveElement
<1>5. \A k \in S : Entry(r, h, k) \in T
  <2>1. \A k \in S : k \in Nat
    BY <1>1
  <2> QED BY <2>1, EntryIsSlot DEF InRing
<1>6. f \in [S -> T]
  BY <1>5
<1>7. Cardinality(T) < Cardinality(S)
  BY <1>1, <1>2, <1>4
<1>8. \E j, k \in S : j # k /\ f[j] = f[k]
  <2> HIDE DEF S, T, f
  <2> QED BY <1>2, <1>4, <1>6, <1>7, FS_PigeonHole
<1> QED BY <1>8 DEF Ring1to1

\* A slot is written behind the last entry.
LEMMA RingPush ==
  ASSUME NEW r \in Ring, NEW h \in Position, NEW n \in Nat, Ring1to1(r, h, n),
         NEW x \in 0..(RingCount - 1), ~InRing(r, h, n, x), n < RingCount,
         NEW q, q[(h + n) % RingCount] = x,
         \A i \in 0..(RingCount - 1) : i # (h + n) % RingCount => q[i] = r[i]
  PROVE  /\ Ring1to1(q, h, n + 1)
         /\ \A y : InRing(q, h, n + 1, y) <=> InRing(r, h, n, y) \/ y = x
<1>1. h \in Int /\ RingCount \in Nat \ {0}
  BY CountsAssumption DEF Position
<1>2. Entry(q, h, n) = x
  BY EntryIsSlot DEF Entry, Ring
<1>3. ASSUME NEW k \in 0..(n - 1)
      PROVE  Entry(q, h, k) = Entry(r, h, k)
  <2>1. (h + k) % RingCount # (h + n) % RingCount
    <3>1. h + k \in Int /\ h + n \in Int /\ h + k < h + n /\ h + n < (h + k) + RingCount
      BY <1>1
    <3> QED BY <3>1, OtherEntry
  <2>2. (h + k) % RingCount \in 0..(RingCount - 1)
    BY EntryIsSlot
  <2> QED BY <2>1, <2>2 DEF Entry, Ring
<1>4. \A k : k \in 0..((n + 1) - 1) <=> k \in 0..(n - 1) \/ k = n
  OBVIOUS
<1>5. \A y : InRing(q, h, n + 1, y) <=> InRing(r, h, n, y) \/ y = x
  BY <1>2, <1>3, <1>4 DEF InRing
<1>6. ASSUME NEW j \in 0..((n + 1) - 1), NEW k \in 0..((n + 1) - 1),
             Entry(q, h, j) = Entry(q, h, k)
      PROVE  j = k
  <2>1. CASE j \in 0..(n - 1) /\ k \in 0..(n - 1)
    BY <1>3, <1>6, <2>1 DEF Ring1to1
  <2>2. CASE j = n /\ k \in 0..(n - 1)
    BY <1>2, <1>3, <1>6, <2>2 DEF InRing
  <2>3. CASE j \in 0..(n - 1) /\ k = n
    BY <1>2, <1>3, <1>6, <2>3 DEF InRing
  <2> QED BY <1>4, <1>6, <2>1, <2>2, <2>3
<1> QED BY <1>5, <1>6 DEF Ring1to1

\* The entry at the head is taken.
LEMMA RingPop ==
  ASSUME NEW r, NEW h, NEW g, NEW n \in Nat, n > 0, Ring1to1(r, h, n),
         \A k \in Nat : Entry(r, g, k) = Entry(r, h, k + 1)
  PROVE  /\ Ring1to1(r, g, n - 1)
         /\ \A y : InRing(r, g, n - 1, y) <=> InRing(r, h, n, y) /\ y # Entry(r, h, 0)
         /\ InRing(r, h, n, Entry(r, h, 0))
<1>1. \A k \in 0..((n - 1) - 1) : /\ k \in Nat /\ k + 1 \in 0..(n - 1) /\ k + 1 # 0
                                  /\ Entry(r, g, k) = Entry(r, h, k + 1)
  OBVIOUS
<1>2. 0 \in 0..(n - 1)
  OBVIOUS
<1>3. \A j \in 0..(n - 1) : j = 0 \/ (j - 1 \in 0..((n - 1) - 1) /\ (j - 1) + 1 = j)
  OBVIOUS
<1>4. ASSUME NEW j \in 0..((n - 1) - 1), NEW k \in 0..((n - 1) - 1),
             Entry(r, g, j) = Entry(r, g, k)
      PROVE  j = k
  <2>1. j + 1 = k + 1
    BY <1>1, <1>4 DEF Ring1to1
  <2> QED BY <1>1, <2>1
<1>5. ASSUME NEW y, InRing(r, g, n - 1, y)
      PROVE  InRing(r, h, n, y) /\ y # Entry(r, h, 0)
  <2>1. PICK k \in 0..((n - 1) - 1) : Entry(r, g, k) = y
    BY <1>5 DEF InRing
  <2>2. Entry(r, h, k + 1) = y /\ k + 1 \in 0..(n - 1) /\ k + 1 # 0
    BY <1>1, <2>1
  <2> QED BY <1>2, <2>2 DEF InRing, Ring1to1
<1>6. ASSUME NEW y, InRing(r, h, n, y), y # Entry(r, h, 0)
      PROVE  InRing(r, g, n - 1, y)
  <2>1. PICK j \in 0..(n - 1) : Entry(r, h, j) = y
    BY <1>6 DEF InRing
  <2>2. j - 1 \in 0..((n - 1) - 1) /\ (j - 1) + 1 = j
    BY <1>3, <1>6, <2>1
  <2>3. Entry(r, g, j - 1) = Entry(r, h, (j - 1) + 1)
    BY <1>1, <2>2
  <2> QED BY <2>1, <2>2, <2>3 DEF InRing
<1> QED BY <1>2, <1>4, <1>5, <1>6 DEF Ring1to1, InRing

-----------------------------------------------------------------------------
(* Where the slots are.                                                    *)

\* Slot x is on the stack; no slot is on it twice.
InFree(f, x) == \E i \in 1..Len(f) : f[i] = x
FreeOnce(f) == \A i, j \in 1..Len(f) : f[i] = f[j] => i = j

ExactlyOne(a, b, c, d) ==
  /\ a \/ b \/ c \/ d
  /\ ~(a /\ b) /\ ~(a /\ c) /\ ~(a /\ d) /\ ~(b /\ c) /\ ~(b /\ d) /\ ~(c /\ d)

\* A fixed slot is on the stack, once, when it has no holder.
FreeInv ==
  /\ FreeOnce(free)
  /\ \A x \in 0..(FixedCount - 1) : InFree(free, x) <=> borrows[<<"fixed", x>>] = 0

InSelected(x) == \E c \in selected : c.local = x

\* A provided slot is in the ring, once, or with one completion, or lost, or it
\* has holders; and the entry recycle has just written is ahead of the head.
RingInv ==
  /\ Ahead(tail, head) <= RingCount
  /\ tail # published => tail # head
  /\ Ring1to1(ring, head, Ahead(tail, head))
  /\ \A c, d \in selected : c.local = d.local => c = d
  /\ \A x \in 0..(RingCount - 1) :
       ExactlyOne(InRing(ring, head, Ahead(tail, head), x), InSelected(x),
                  <<"provided", x>> \in lost, borrows[<<"provided", x>>] # 0)

\* The inductive invariant of the slots, next to PoolInv.
SlotInv ==
  /\ phase # "running" => selected = {} /\ reads = 0
  /\ phase = "stopped" => lost = {}
  /\ phase # "stopped" => FreeInv /\ RingInv

\* The top of the stack is taken.
LEMMA FreePop ==
  ASSUME NEW S, NEW f \in Seq(S), f # <<>>, FreeOnce(f)
  PROVE  LET g == SubSeq(f, 1, Len(f) - 1)
         IN  /\ FreeOnce(g) /\ InFree(f, f[Len(f)])
             /\ \A y : InFree(g, y) <=> InFree(f, y) /\ y # f[Len(f)]
<1> DEFINE g == SubSeq(f, 1, Len(f) - 1)
<1>1. Len(f) \in Nat /\ Len(f) >= 1
  OBVIOUS
<1>2. Len(g) = Len(f) - 1 /\ \A i \in 1..Len(g) : g[i] = f[i]
  <2> DEFINE n == Len(f) - 1
  <2>1. n \in Nat /\ n <= Len(f)
    BY <1>1
  <2>2. Len(SubSeq(f, 1, n)) = n /\ \A i \in 1..n : SubSeq(f, 1, n)[i] = f[i]
    <3> HIDE DEF n
    <3> QED BY <2>1, SubSeqProperties
  <2> QED BY <2>2
<1> HIDE DEF g
<1>3. \A i \in 1..Len(g) : i \in 1..Len(f) /\ i # Len(f) /\ g[i] = f[i]
  BY <1>1, <1>2
<1>4. \A i \in 1..Len(f) : i = Len(f) \/ i \in 1..Len(g)
  BY <1>1, <1>2
<1>5. Len(f) \in 1..Len(f)
  BY <1>1
<1>6. FreeOnce(g)
  BY <1>3 DEF FreeOnce
<1>7. ASSUME NEW y
      PROVE  InFree(g, y) <=> InFree(f, y) /\ y # f[Len(f)]
  <2>1. InFree(g, y) => InFree(f, y) /\ y # f[Len(f)]
    BY <1>3, <1>5 DEF InFree, FreeOnce
  <2>2. InFree(f, y) /\ y # f[Len(f)] => InFree(g, y)
    BY <1>3, <1>4 DEF InFree
  <2> QED BY <2>1, <2>2
<1> QED BY <1>5, <1>6, <1>7 DEF InFree, g

\* A slot that is not on the stack is put on it.
LEMMA FreePush ==
  ASSUME NEW S, NEW f \in Seq(S), NEW x \in S, FreeOnce(f), ~InFree(f, x)
  PROVE  /\ FreeOnce(Append(f, x))
         /\ \A y : InFree(Append(f, x), y) <=> InFree(f, y) \/ y = x
<1> DEFINE g == Append(f, x)
           n == Len(f) + 1
<1>1. /\ Len(f) \in Nat /\ Len(g) = n /\ g[n] = x
      /\ \A i \in 1..Len(f) : g[i] = f[i]
  OBVIOUS
<1> HIDE DEF g
<1>2. \A i : i \in 1..Len(g) <=> i \in 1..Len(f) \/ i = n
  BY <1>1
<1>3. FreeOnce(g)
  BY <1>1, <1>2 DEF FreeOnce, InFree
<1>4. \A y : InFree(g, y) <=> InFree(f, y) \/ y = x
  BY <1>1, <1>2 DEF InFree
<1> QED BY <1>3, <1>4 DEF g

\* The slots of the two slabs.
LEMMA SlotKinds ==
  /\ \A x \in 0..(FixedCount - 1) : <<"fixed", x>> \in Slot
  /\ \A x \in 0..(RingCount - 1) : <<"provided", x>> \in Slot
  /\ \A s \in Fixed : s[2] \in 0..(FixedCount - 1) /\ s = <<"fixed", s[2]>>
  /\ \A s \in Provided : s[2] \in 0..(RingCount - 1) /\ s = <<"provided", s[2]>>
  /\ \A x, y : <<"fixed", x>> # <<"provided", y>>
BY DEF Slot, Fixed, Provided

\* A step that moves no slot; the header's tail may catch up.
LEMMA SlotsStay ==
  ASSUME FreeInv, RingInv, UNCHANGED <<free, ring, tail, head, selected, lost>>,
         published' = published \/ tail' = published',
         \A s \in Slot : borrows'[s] = 0 <=> borrows[s] = 0
  PROVE  FreeInv' /\ RingInv'
<1>1. FreeInv'
  BY SlotKinds DEF FreeInv
<1>2. \A x \in 0..(RingCount - 1) :
        borrows'[<<"provided", x>>] # 0 <=> borrows[<<"provided", x>>] # 0
  BY SlotKinds
<1>3. RingInv'
  BY <1>2 DEF RingInv, InSelected
<1> QED BY <1>1, <1>3

\* Fresh pools: every slot is in its slab.
LEMMA StartSlots ==
  ASSUME SlotInv, Start
  PROVE  FreeInv' /\ RingInv'
<1>1. /\ borrows' = FreshBorrows /\ free' = FreshFree /\ ring' = FreshRing
      /\ tail' = RingCount /\ published' = RingCount /\ head' = 0
      /\ selected' = {} /\ lost' = {}
  BY DEF Start, Rebuilt, SlotInv
<1>2. RingCount \in Nat \ {0} /\ FixedCount \in Nat \ {0} /\ TailMod \in Nat /\ RingCount < TailMod
  BY CountsAssumption
<1>3. FreeInv'
  <2>1. Len(FreshFree) = FixedCount /\ \A i \in 1..FixedCount : FreshFree[i] = FixedCount - i
    BY <1>2 DEF FreshFree
  <2>2. FreeOnce(FreshFree)
    BY <1>2, <2>1 DEF FreeOnce
  <2>3. ASSUME NEW x \in 0..(FixedCount - 1)
        PROVE  InFree(FreshFree, x) /\ FreshBorrows[<<"fixed", x>>] = 0
    <3>1. FixedCount - x \in 1..FixedCount /\ FixedCount - (FixedCount - x) = x
      BY <1>2
    <3> QED BY <2>1, <3>1, SlotKinds DEF InFree, FreshBorrows
  <2> QED BY <1>1, <2>2, <2>3 DEF FreeInv
<1>4. Ahead(RingCount, 0) = RingCount
  <2>1. RingCount \in Position /\ 0 \in Position
    BY <1>2 DEF Position
  <2> QED BY <1>2, <2>1, AheadIs
<1>5. \A k \in 0..(RingCount - 1) : Entry(FreshRing, 0, k) = k
  <2>1. \A k \in 0..(RingCount - 1) : k \in Int /\ 0 + k = k /\ k % RingCount = k
    BY <1>2
  <2> QED BY <2>1 DEF Entry, FreshRing
<1>6. Ring1to1(FreshRing, 0, RingCount)
  BY <1>5 DEF Ring1to1
<1>7. ASSUME NEW x \in 0..(RingCount - 1)
      PROVE  /\ InRing(FreshRing, 0, RingCount, x) /\ FreshBorrows[<<"provided", x>>] = 0
             /\ ~InSelected(x)' /\ <<"provided", x>> \notin lost'
  BY <1>1, <1>5, SlotKinds DEF InRing, InSelected, FreshBorrows
<1>8. RingInv'
  <2>1. Ahead(tail', head') = RingCount
    BY <1>1, <1>4
  <2>2. Ring1to1(ring', head', Ahead(tail', head'))
    BY <1>1, <1>6, <2>1
  <2>3. ASSUME NEW x \in 0..(RingCount - 1)
        PROVE  ExactlyOne(InRing(ring', head', Ahead(tail', head'), x), InSelected(x)',
                          <<"provided", x>> \in lost', borrows'[<<"provided", x>>] # 0)
    BY <1>1, <1>7, <2>1 DEF ExactlyOne
  <2> QED BY <1>1, <1>2, <2>1, <2>2, <2>3 DEF RingInv
<1> QED BY <1>3, <1>8

\* alloc: the slot on top of the stack gets its first holder.
LEMMA AllocSlots ==
  ASSUME FreeInv, RingInv, SlabTypes, NEW v, NEW excl \in BOOLEAN, NEW len,
         Alloc(v, excl, len)
  PROVE  FreeInv' /\ RingInv'
<1> DEFINE x == free[Len(free)]
           L == 0..(FixedCount - 1)
           n == IF excl THEN -1 ELSE 1
<1>1. /\ free # <<>> /\ free' = SubSeq(free, 1, Len(free) - 1)
      /\ borrows' = [borrows EXCEPT ![<<"fixed", x>>] = n]
      /\ UNCHANGED <<ring, tail, published, head, selected, lost>>
  BY DEF Alloc, Rest
<1>2. free \in Seq(L) /\ borrows \in [Slot -> Int]
  BY DEF SlabTypes
<1>3. n # 0 /\ x \in L
  <2>1. n # 0
    OBVIOUS
  <2> HIDE DEF L
  <2>2. Len(free) \in 1..Len(free)
    BY <1>1, <1>2
  <2>3. x \in L
    BY <1>2, <2>2
  <2> QED BY <2>1, <2>3
<1> HIDE DEF n
<1>4. FreeInv'
  <2>1. /\ FreeOnce(free') /\ InFree(free, x)
        /\ \A y : InFree(free', y) <=> InFree(free, y) /\ y # x
    <3> HIDE DEF L
    <3> QED BY <1>1, <1>2, FreePop DEF FreeInv
  <2>2. ASSUME NEW y \in L
        PROVE  InFree(free', y) <=> borrows'[<<"fixed", y>>] = 0
    <3>1. <<"fixed", y>> \in Slot /\ (InFree(free, y) <=> borrows[<<"fixed", y>>] = 0)
      BY SlotKinds DEF FreeInv
    <3>2. CASE y = x
      BY <1>1, <1>2, <1>3, <2>1, <3>1, <3>2
    <3>3. CASE y # x
      BY <1>1, <1>2, <2>1, <3>1, <3>3
    <3> QED BY <3>2, <3>3
  <2> QED BY <2>1, <2>2 DEF FreeInv
<1>5. \A y \in 0..(RingCount - 1) : borrows'[<<"provided", y>>] = borrows[<<"provided", y>>]
  BY <1>1, <1>2, SlotKinds
<1>6. RingInv'
  BY <1>1, <1>5 DEF RingInv, InSelected
<1> QED BY <1>4, <1>6

\* recycle of a fixed slot whose last holder goes.
LEMMA RecycleFixed ==
  ASSUME FreeInv, RingInv, SlabTypes, NEW s \in Fixed, borrows[s] # 0, Recycle(s),
         borrows' = [borrows EXCEPT ![s] = 0], UNCHANGED <<head, selected, lost>>
  PROVE  FreeInv' /\ RingInv'
<1> DEFINE x == s[2]
           L == 0..(FixedCount - 1)
<1>1. x \in L /\ s = <<"fixed", x>> /\ s \notin Provided /\ s \in Slot
  BY SlotKinds DEF Fixed, Provided, Slot
<1>2. free' = Append(free, x) /\ UNCHANGED <<ring, tail, published>>
  BY <1>1 DEF Recycle
<1>3. free \in Seq(L) /\ borrows \in [Slot -> Int] /\ ~InFree(free, x)
  BY <1>1 DEF SlabTypes, FreeInv
<1> HIDE DEF x
<1>4. FreeInv'
  <2>1. FreeOnce(free') /\ \A y : InFree(free', y) <=> InFree(free, y) \/ y = x
    <3> HIDE DEF L
    <3> QED BY <1>1, <1>2, <1>3, FreePush DEF FreeInv
  <2>2. ASSUME NEW y \in L
        PROVE  InFree(free', y) <=> borrows'[<<"fixed", y>>] = 0
    <3>1. <<"fixed", y>> \in Slot /\ (InFree(free, y) <=> borrows[<<"fixed", y>>] = 0)
      BY SlotKinds DEF FreeInv
    <3>2. CASE y = x
      BY <1>1, <1>3, <2>1, <3>1, <3>2
    <3>3. CASE y # x
      BY <1>1, <1>3, <2>1, <3>1, <3>3
    <3> QED BY <3>2, <3>3
  <2> QED BY <2>1, <2>2 DEF FreeInv
<1>5. \A y \in 0..(RingCount - 1) : borrows'[<<"provided", y>>] = borrows[<<"provided", y>>]
  BY <1>1, <1>3, SlotKinds
<1>6. RingInv'
  BY <1>2, <1>5 DEF RingInv, InSelected
<1> QED BY <1>4, <1>6

\* recycle of a provided slot: there is room behind the tail, and the entry
\* written there is none the kernel has still to take.
LEMMA RecycleProvided ==
  ASSUME FreeInv, RingInv, SlabTypes, RestTypes, NEW s \in Provided, borrows[s] # 0,
         tail = published, Recycle(s),
         borrows' = [borrows EXCEPT ![s] = 0], UNCHANGED <<head, selected, lost>>
  PROVE  FreeInv' /\ RingInv'
<1> DEFINE x == s[2]
           n == Ahead(tail, head)
<1>1. x \in 0..(RingCount - 1) /\ s = <<"provided", x>> /\ s \notin Fixed /\ s \in Slot
  BY SlotKinds DEF Fixed, Provided, Slot
<1>2. /\ ring' = [ring EXCEPT ![tail % RingCount] = x]
      /\ tail' = (tail + 1) % TailMod
      /\ UNCHANGED <<free, published>>
  BY <1>1 DEF Recycle
<1>3. ring \in Ring /\ tail \in Position /\ head \in Position /\ borrows \in [Slot -> Int]
  BY DEF SlabTypes, RestTypes, Ring, Position
<1>4. n \in Position /\ n \in Nat
  BY <1>3, AheadIs DEF Position
<1>5. tail % RingCount = (head + n) % RingCount
  BY <1>3, EntryMoves
<1> HIDE DEF n, x
<1>6. Ring1to1(ring, head, n) /\ ~InRing(ring, head, n, x)
  BY <1>1 DEF RingInv, ExactlyOne, n
<1>7. n < RingCount
  BY <1>1, <1>3, <1>4, <1>6, RingRoom
<1>8. /\ Ring1to1(ring', head, n + 1)
      /\ \A y : InRing(ring', head, n + 1, y) <=> InRing(ring, head, n, y) \/ y = x
  <2>1. (head + n) % RingCount \in 0..(RingCount - 1)
    BY <1>3, <1>4, EntryIsSlot
  <2>2. /\ ring'[(head + n) % RingCount] = x
        /\ \A i \in 0..(RingCount - 1) : i # (head + n) % RingCount => ring'[i] = ring[i]
    BY <1>2, <1>3, <1>5, <2>1 DEF Ring
  <2> QED BY <1>1, <1>3, <1>4, <1>6, <1>7, <2>2, RingPush
<1>9. tail' \in Position /\ Ahead(tail', head) = n + 1 /\ tail' # head
  <2>1. n < TailMod - 1
    BY <1>4, <1>7, CountsAssumption
  <2>2. tail' \in Position
    BY <1>2, <1>3, NextPosition
  <2>3. Ahead(tail', head) = n + 1
    BY <1>2, <1>3, <2>1, AheadMoves DEF n
  <2> QED BY <1>3, <1>4, <2>2, <2>3, AheadIs
<1>10. ASSUME NEW y \in 0..(RingCount - 1)
       PROVE  ExactlyOne(InRing(ring', head', Ahead(tail', head'), y), InSelected(y)',
                         <<"provided", y>> \in lost', borrows'[<<"provided", y>>] # 0)
  <2>1. ExactlyOne(InRing(ring, head, n, y), InSelected(y),
                   <<"provided", y>> \in lost, borrows[<<"provided", y>>] # 0)
    BY DEF RingInv, n
  <2>2. InSelected(y)' <=> InSelected(y)
    BY DEF InSelected
  <2>3. InRing(ring', head', Ahead(tail', head'), y) <=> InRing(ring, head, n, y) \/ y = x
    BY <1>8, <1>9
  <2>4. <<"provided", y>> \in Slot
    BY SlotKinds
  <2>5. CASE y = x
    <3>1. borrows'[<<"provided", y>>] = 0 /\ borrows[<<"provided", y>>] # 0
      BY <1>1, <1>3, <2>5
    <3> QED BY <2>1, <2>2, <2>3, <2>5, <3>1 DEF ExactlyOne
  <2>6. CASE y # x
    <3>1. borrows'[<<"provided", y>>] = borrows[<<"provided", y>>]
      BY <1>1, <1>3, <2>4, <2>6
    <3> QED BY <2>1, <2>2, <2>3, <2>6, <3>1 DEF ExactlyOne
  <2> QED BY <2>5, <2>6
<1>11. RingInv'
  <2>1. Ahead(tail', head') <= RingCount
    BY <1>4, <1>7, <1>9, CountsAssumption
  <2>2. Ring1to1(ring', head', Ahead(tail', head'))
    BY <1>8, <1>9
  <2>3. \A c, d \in selected' : c.local = d.local => c = d
    BY DEF RingInv
  <2> QED BY <1>9, <1>10, <2>1, <2>2, <2>3 DEF RingInv
<1>12. FreeInv'
  <2>1. \A y \in 0..(FixedCount - 1) : borrows'[<<"fixed", y>>] = borrows[<<"fixed", y>>]
    BY <1>1, <1>3, SlotKinds
  <2> QED BY <1>2, <2>1 DEF FreeInv
<1> QED BY <1>11, <1>12

\* drop_view: the last holder of a slot gives it back, any other does not.
LEMMA DropSlots ==
  ASSUME FreeInv, RingInv, SlabTypes, ViewTypes, RestTypes, NEW v \in ViewId, DropView(v)
  PROVE  FreeInv' /\ RingInv'
<1> DEFINE s == views[v].bid
           n == Released(borrows[s], views[v].excl)
<1>1. tail = published /\ Release(views[v]) /\ UNCHANGED <<head, selected, lost>>
  BY DEF DropView
<1>2. views[v] \in View
  BY HeldIsView DEF DropView
<1>3. s \in Slot /\ views[v].excl \in BOOLEAN
  BY <1>2, ViewFields
<1>4. borrows \in [Slot -> Int]
  BY DEF SlabTypes
<1>5. CASE UNCHANGED slabs
  BY <1>1, <1>5, SlotsStay DEF slabs
<1>6. CASE ~UNCHANGED slabs
  <2>1. /\ Releasable(borrows[s], views[v].excl)
        /\ borrows' = [borrows EXCEPT ![s] = n]
        /\ IF n = 0 THEN Recycle(s) ELSE UNCHANGED <<free, ring, tail, published>>
    BY <1>1, <1>6 DEF Release
  <2>2. borrows[s] # 0
    BY <1>3, <1>4, <2>1 DEF Releasable
  <2> HIDE DEF n, s
  <2>3. CASE n = 0 /\ s \in Fixed
    BY <1>1, <2>1, <2>2, <2>3, RecycleFixed
  <2>4. CASE n = 0 /\ s \in Provided
    BY <1>1, <2>1, <2>2, <2>4, RecycleProvided
  <2>5. CASE n # 0
    <3>1. \A t \in Slot : borrows'[t] = 0 <=> borrows[t] = 0
      BY <1>3, <1>4, <2>1, <2>2, <2>5
    <3> QED BY <1>1, <2>1, <2>5, <3>1, SlotsStay
  <2> QED BY <1>3, <2>3, <2>4, <2>5 DEF Slot
<1> QED BY <1>5, <1>6

\* A completion that is taken leaves the others.
LEMMA TakeSelected ==
  ASSUME RingInv, NEW c \in selected, selected' = selected \ {c}
  PROVE  /\ \A d, e \in selected' : d.local = e.local => d = e
         /\ \A y : InSelected(y)' <=> InSelected(y) /\ y # c.local
         /\ InSelected(c.local)
<1>1. \A d \in selected : d.local = c.local => d = c
  BY DEF RingInv
<1> QED BY <1>1 DEF RingInv, InSelected

\* A provided read: the slot goes from its completion to its first holder.
LEMMA ReadSlots ==
  ASSUME FreeInv, RingInv, SlabTypes, RestTypes, NEW v, NEW len, OnRead(v, len)
  PROVE  FreeInv' /\ RingInv'
<1>1. PICK c \in selected :
        /\ borrows[<<"provided", c.local>>] = 0
        /\ borrows' = [borrows EXCEPT ![<<"provided", c.local>>] = 1]
        /\ selected' = selected \ {c}
  BY DEF OnRead
<1>2. UNCHANGED <<free, ring, tail, published, head, lost>>
  BY DEF OnRead
<1> DEFINE x == c.local
<1>3. x \in 0..(RingCount - 1) /\ <<"provided", x>> \in Slot /\ borrows \in [Slot -> Int]
  BY SlotKinds DEF RestTypes, SlabTypes
<1>4. /\ \A d, e \in selected' : d.local = e.local => d = e
      /\ \A y : InSelected(y)' <=> InSelected(y) /\ y # x
      /\ InSelected(x)
  BY <1>1, TakeSelected
<1> HIDE DEF x
<1>5. ASSUME NEW y \in 0..(RingCount - 1)
      PROVE  ExactlyOne(InRing(ring', head', Ahead(tail', head'), y), InSelected(y)',
                        <<"provided", y>> \in lost', borrows'[<<"provided", y>>] # 0)
  <2>1. ExactlyOne(InRing(ring, head, Ahead(tail, head), y), InSelected(y),
                   <<"provided", y>> \in lost, borrows[<<"provided", y>>] # 0)
    BY DEF RingInv
  <2>2. <<"provided", y>> \in Slot
    BY SlotKinds
  <2>3. CASE y = x
    <3>1. borrows'[<<"provided", y>>] # 0
      BY <1>1, <1>3, <2>3 DEF x
    <3> QED BY <1>2, <1>4, <2>1, <2>3, <3>1 DEF ExactlyOne
  <2>4. CASE y # x
    <3>1. borrows'[<<"provided", y>>] = borrows[<<"provided", y>>]
      BY <1>1, <1>3, <2>2, <2>4 DEF x
    <3> QED BY <1>2, <1>4, <2>1, <2>4, <3>1 DEF ExactlyOne
  <2> QED BY <2>3, <2>4
<1>6. RingInv'
  BY <1>2, <1>4, <1>5 DEF RingInv
<1>7. FreeInv'
  <2>1. \A y \in 0..(FixedCount - 1) : borrows'[<<"fixed", y>>] = borrows[<<"fixed", y>>]
    BY <1>1, <1>3, SlotKinds DEF x
  <2> QED BY <1>2, <2>1 DEF FreeInv
<1> QED BY <1>6, <1>7

\* A read that fails with a buffer: the slot is lost.
LEMMA ErrorSlots ==
  ASSUME FreeInv, RingInv, OnReadError
  PROVE  FreeInv' /\ RingInv'
<1>1. PICK c \in selected : /\ selected' = selected \ {c}
                            /\ lost' = lost \cup {<<"provided", c.local>>}
  BY DEF OnReadError
<1>2. UNCHANGED <<borrows, free, ring, tail, published, head>>
  BY DEF OnReadError, slabs
<1>3. /\ \A d, e \in selected' : d.local = e.local => d = e
      /\ \A y : InSelected(y)' <=> InSelected(y) /\ y # c.local
      /\ InSelected(c.local)
  BY <1>1, TakeSelected
<1>4. \A y : <<"provided", y>> \in lost' <=> <<"provided", y>> \in lost \/ y = c.local
  BY <1>1
<1>5. ASSUME NEW y \in 0..(RingCount - 1)
      PROVE  ExactlyOne(InRing(ring', head', Ahead(tail', head'), y), InSelected(y)',
                        <<"provided", y>> \in lost', borrows'[<<"provided", y>>] # 0)
  <2>1. ExactlyOne(InRing(ring, head, Ahead(tail, head), y), InSelected(y),
                   <<"provided", y>> \in lost, borrows[<<"provided", y>>] # 0)
    BY DEF RingInv
  <2> QED BY <1>2, <1>3, <1>4, <2>1 DEF ExactlyOne
<1>6. RingInv'
  BY <1>2, <1>3, <1>5 DEF RingInv
<1> QED BY <1>2, <1>6 DEF FreeInv

\* The ring is closed: the slots of completions nobody took are lost.
LEMMA TeardownSlots ==
  ASSUME FreeInv, RingInv, BeginTeardown
  PROVE  FreeInv' /\ RingInv'
<1>1. /\ selected' = {} /\ lost' = lost \cup {<<"provided", c.local>> : c \in selected}
      /\ UNCHANGED <<borrows, free, ring, tail, published, head>>
  BY DEF BeginTeardown, slabs
<1>2. \A y : /\ ~InSelected(y)'
             /\ <<"provided", y>> \in lost' <=> <<"provided", y>> \in lost \/ InSelected(y)
  BY <1>1 DEF InSelected
<1>3. ASSUME NEW y \in 0..(RingCount - 1)
      PROVE  ExactlyOne(InRing(ring', head', Ahead(tail', head'), y), InSelected(y)',
                        <<"provided", y>> \in lost', borrows'[<<"provided", y>>] # 0)
  <2>1. ExactlyOne(InRing(ring, head, Ahead(tail, head), y), InSelected(y),
                   <<"provided", y>> \in lost, borrows[<<"provided", y>>] # 0)
    BY DEF RingInv
  <2> QED BY <1>1, <1>2, <2>1 DEF ExactlyOne
<1>4. RingInv'
  BY <1>1, <1>3 DEF RingInv
<1> QED BY <1>1, <1>4 DEF FreeInv

\* The kernel takes the entry at the head, which recycle has written.
LEMMA SelectSlots ==
  ASSUME FreeInv, RingInv, SlabTypes, RestTypes, NEW ok \in BOOLEAN, KernelSelect(ok)
  PROVE  FreeInv' /\ RingInv'
<1> DEFINE n == Ahead(tail, head)
           x == Entry(ring, head, 0)
           g == (head + 1) % TailMod
           c == [local |-> x, ok |-> ok]
<1>1. ring \in Ring /\ tail \in Position /\ head \in Position /\ published \in Position
      /\ head \in Int
  BY CountsAssumption DEF SlabTypes, RestTypes, Ring, Position
<1>2. head # published /\ head' = g /\ UNCHANGED <<borrows, free, ring, tail, published, lost>>
  BY DEF KernelSelect, slabs
<1>3. selected' = selected \cup {c}
  <2>1. head + 0 = head
    BY <1>1
  <2> QED BY <2>1 DEF KernelSelect, Entry
<1>4. n \in Nat /\ (n = 0 <=> tail = head)
  BY <1>1, AheadIs, CountsAssumption DEF Position
<1>5. n > 0 /\ tail # head
  BY <1>2, <1>4 DEF RingInv
<1>6. Ahead(tail, g) = n - 1
  BY <1>1, <1>5, AheadMoves
<1>7. \A k \in Nat : Entry(ring, g, k) = Entry(ring, head, k + 1)
  BY <1>1, EntryMoves DEF Entry
<1>8. Ring1to1(ring, head, n)
  BY DEF RingInv
<1> HIDE DEF n, g
<1>9. /\ Ring1to1(ring, g, n - 1)
      /\ \A y : InRing(ring, g, n - 1, y) <=> InRing(ring, head, n, y) /\ y # x
      /\ InRing(ring, head, n, x)
  BY <1>4, <1>5, <1>7, <1>8, RingPop
<1>10. x \in 0..(RingCount - 1)
  BY <1>1, EntryIsSlot
<1>11. c.local = x
  OBVIOUS
<1> HIDE DEF x, c
<1>12. ~InSelected(x)
  BY <1>9, <1>10 DEF RingInv, ExactlyOne, n
<1>13. \A d, e \in selected' : d.local = e.local => d = e
  BY <1>3, <1>11, <1>12 DEF RingInv, InSelected
<1>14. \A y : InSelected(y)' <=> InSelected(y) \/ y = x
  BY <1>3, <1>11 DEF InSelected
<1>15. ASSUME NEW y \in 0..(RingCount - 1)
       PROVE  ExactlyOne(InRing(ring', head', Ahead(tail', head'), y), InSelected(y)',
                         <<"provided", y>> \in lost', borrows'[<<"provided", y>>] # 0)
  <2>1. ExactlyOne(InRing(ring, head, n, y), InSelected(y),
                   <<"provided", y>> \in lost, borrows[<<"provided", y>>] # 0)
    BY DEF RingInv, n
  <2>2. InRing(ring', head', Ahead(tail', head'), y) <=> InRing(ring, head, n, y) /\ y # x
    BY <1>2, <1>6, <1>9
  <2> QED BY <1>2, <1>9, <1>14, <2>1, <2>2 DEF ExactlyOne
<1>16. tail' # published' => tail' # head'
  <2> SUFFICES ASSUME tail # published PROVE tail # g
    BY <1>2
  <2>1. tail = (published + 1) % TailMod
    BY DEF SlabTypes
  <2>2. /\ tail = IF published + 1 < TailMod THEN published + 1 ELSE 0
        /\ g = IF head + 1 < TailMod THEN head + 1 ELSE 0
    BY <1>1, <2>1, NextPosition DEF g
  <2>3. published \in Int /\ head \in Int /\ 0 <= published /\ published < TailMod
        /\ 0 <= head /\ head < TailMod /\ TailMod \in Nat
    BY <1>1, CountsAssumption DEF Position
  <2> QED BY <1>2, <2>2, <2>3
<1>17. RingInv'
  <2>1. Ahead(tail', head') <= RingCount
    BY <1>2, <1>4, <1>6, CountsAssumption DEF RingInv, n
  <2>2. Ring1to1(ring', head', Ahead(tail', head'))
    BY <1>2, <1>6, <1>9
  <2> QED BY <1>13, <1>15, <1>16, <2>1, <2>2 DEF RingInv
<1> QED BY <1>2, <1>17 DEF FreeInv

\* The other uses of views: no count leaves zero or comes to it.
LEMMA ViewSlots ==
  ASSUME FreeInv, RingInv, SlabTypes, ViewTypes, NEW v \in ViewId,
         \/ IntoMut(v) \/ IntoRef(v) \/ (\E len : SetLen(v, len))
         \/ (\E w, mid : SplitAt(v, w, mid)) \/ (\E w, a, b : Sub(v, w, a, b))
  PROVE  FreeInv' /\ RingInv'
<1>1. UNCHANGED <<free, ring, tail, published, head, selected, lost>>
  BY DEF IntoMut, IntoRef, SetLen, SplitAt, Sub, Rest, slabs
<1>2. views[v] \in View
  BY HeldIsView DEF IntoMut, IntoRef, SetLen, SplitAt, Sub
<1> DEFINE s == views[v].bid
<1>3. s \in Slot /\ borrows \in [Slot -> Int] /\ borrows[s] \in Int
  BY <1>2, ViewFields DEF SlabTypes
<1>4. \/ borrows' = borrows
      \/ borrows[s] = 1 /\ borrows' = [borrows EXCEPT ![s] = -1]
      \/ borrows[s] = -1 /\ borrows' = [borrows EXCEPT ![s] = 1]
      \/ borrows[s] > 0 /\ borrows' = [borrows EXCEPT ![s] = borrows[s] + 1]
      \/ borrows[s] < 0 /\ borrows' = [borrows EXCEPT ![s] = borrows[s] - 1]
  BY DEF IntoMut, IntoRef, SetLen, SplitAt, Sub, slabs
<1> HIDE DEF s
<1>5. \A t \in Slot : borrows'[t] = 0 <=> borrows[t] = 0
  BY <1>3, <1>4
<1> QED BY <1>1, <1>5, SlotsStay

-----------------------------------------------------------------------------
(* The theorems.                                                           *)

\* A new runtime has no views yet, whatever the program kept of earlier ones.
LEMMA GoodStart ==
  ASSUME ViewTypes, RestTypes, Start
  PROVE  Good(views', gen', borrows')
<1>1. \A v \in ViewId : views'[v].gen # gen'
  <2>1. \A v \in ViewId : views[v].gen \in Int /\ views[v].gen <= gen
    BY DEF ViewTypes, AnyView, View, NoView
  <2>2. gen \in Int /\ gen' = gen + 1 /\ views' = views
    BY DEF Start, RestTypes
  <2> QED BY <2>1, <2>2
<1>2. \A s \in Slot : Shared(views', gen', s) = {} /\ Exclusive(views', gen', s) = {}
  BY <1>1 DEF Shared, Exclusive
<1>3. Match(0, {}, {})
  BY FS_EmptySet DEF Match
<1>4. Counted(views', gen', borrows')
  <2>1. \A s \in Slot : borrows'[s] = 0
    BY DEF Start, Rebuilt, FreshBorrows
  <2> QED BY <1>2, <1>3, <2>1 DEF Counted
<1>5. AllApart(views', gen')
  BY <1>1 DEF AllApart
<1> QED BY <1>4, <1>5 DEF Good

\* Every step keeps the invariant.
LEMMA NextInv == PoolInv /\ [PoolsNext]_poolVars => PoolInv'
<1> SUFFICES ASSUME PoolInv, [PoolsNext]_poolVars PROVE PoolInv'
  OBVIOUS
<1>1. SlabTypes /\ ViewTypes /\ RestTypes /\ PoolTypes'
  BY TypeParts, NextTypes DEF PoolInv
<1>2. phase # "stopped" => Good(views, gen, borrows)
  BY GoodIs DEF PoolInv
<1> SUFFICES ASSUME phase' # "stopped" PROVE Good(views', gen', borrows')
  BY <1>1 DEF PoolInv, CountInv, ApartInv, Good
<1>3. CASE Start
  BY <1>1, <1>3, GoodStart
<1>4. CASE \/ UNCHANGED poolVars \/ BeginTeardown \/ PublishTail
           \/ ReadProvided \/ OnReadError \/ Kernel
  <2>1. UNCHANGED <<views, gen, borrows>> /\ phase # "stopped"
    BY <1>4 DEF poolVars, slabs, BeginTeardown, Running, PublishTail, ReadProvided, OnReadError,
                Kernel, KernelSelect, KernelRefuse
  <2> QED BY <1>2, <2>1
<1>5. CASE Stop
  BY <1>5 DEF Stop
<1>6. ASSUME NEW v \in ViewId,
             \/ DropView(v)
             \/ \E excl \in BOOLEAN, len \in 1..SlotSize : Alloc(v, excl, len)
             \/ IntoMut(v) \/ IntoRef(v)
             \/ \E len \in 0..SlotSize : SetLen(v, len) \/ OnRead(v, len)
             \/ \E w \in ViewId, mid \in 0..SlotSize : SplitAt(v, w, mid)
             \/ \E w \in ViewId, a, b \in 0..SlotSize : Sub(v, w, a, b)
      PROVE  Good(views', gen', borrows')
  <2>1. gen' = gen /\ phase' = phase
    BY <1>6 DEF DropView, Alloc, IntoMut, IntoRef, SetLen, OnRead, SplitAt, Sub, Rest
  <2>2. Up
    BY <1>1, <1>2, <2>1 DEF Up
  <2>3. \A l \in 0..SlotSize : l \in Nat
    BY SizesAssumption
  <2>4. Good(views', gen, borrows')
    BY <1>6, <2>2, <2>3, GoodDrop, GoodAlloc, GoodFlip, GoodSetLen, GoodRead, GoodSplit, GoodSub
  <2> QED BY <2>1, <2>4
<1> QED BY <1>3, <1>4, <1>5, <1>6 DEF PoolsNext

\* The pools keep PoolInv.
LEMMA PoolInvariant == PoolsSpec => []PoolInv
<1>1. PoolsInit => PoolInv
  BY InitTypes DEF PoolsInit, PoolInv, CountInv, ApartInv
<1> QED BY <1>1, NextInv, PTL DEF PoolsSpec

\* The fields of the pools keep their types, and the tail the program keeps is
\* never more than one entry ahead of the one the kernel sees.
THEOREM PoolsTypeCorrect == PoolsSpec => []PoolsTypeOK
<1>1. PoolInv => PoolsTypeOK
  BY DEF PoolInv, PoolTypes
<1> QED BY <1>1, PoolInvariant, PTL

\* For every number of slots, places and runtimes, the borrow count of a slot
\* is the number of this runtime's shared views on it or minus the number of
\* its exclusive ones, and never are both kinds on a slot: BorrowTracker's
\* counting in clone, sub, split_at, into_mut, into_ref and drop is exact.
THEOREM BorrowsCountViews == PoolsSpec => []BorrowsMatchViews
<1>1. PoolInv => BorrowsMatchViews
  <2> SUFFICES ASSUME PoolInv, phase # "stopped", NEW s \in Slot
               PROVE  /\ borrows[s] = Cardinality(ViewsOf(s, FALSE))
                                       - Cardinality(ViewsOf(s, TRUE))
                      /\ (ViewsOf(s, FALSE) = {} \/ ViewsOf(s, TRUE) = {})
    BY DEF BorrowsMatchViews
  <2>1. \A v \in ViewId : views[v].excl \in BOOLEAN
    <3> TAKE v \in ViewId
    <3>1. views[v] \in View \/ views[v] = NoView
      BY TypeParts DEF PoolInv, ViewTypes, AnyView
    <3>2. NoView.excl \in BOOLEAN
      BY DEF NoView
    <3> QED BY <3>1, <3>2, ViewFields
  <2>2. ViewsOf(s, FALSE) = Shared(views, gen, s)
    BY <2>1 DEF ViewsOf, Current, Shared
  <2>3. ViewsOf(s, TRUE) = Exclusive(views, gen, s)
    BY <2>1 DEF ViewsOf, Current, Exclusive
  <2>4. Match(borrows[s], Shared(views, gen, s), Exclusive(views, gen, s))
    BY DEF PoolInv, CountInv, Counted
  <2> QED BY <2>2, <2>3, <2>4 DEF Match
<1> QED BY <1>1, PoolInvariant, PTL

\* As long as no half of a split view is grown past the split, the bytes of an
\* exclusive view meet those of no other view of its slot and runtime.
THEOREM ExclusiveViewsDisjoint ==
  ASSUME GrowsHalves = FALSE
  PROVE  PoolsSpec => []ExclusiveDisjoint
<1>1. PoolInv => ExclusiveDisjoint
  <2> SUFFICES ASSUME PoolInv, NEW v \in ViewId, NEW w \in ViewId,
                      v # w, views[v].excl, Current(views[v]), Current(views[w]),
                      views[v].bid = views[w].bid, NEW i \in 0..(SlotSize - 1)
               PROVE  ~ (/\ views[v].off <= i /\ i < views[v].off + views[v].len
                         /\ views[w].off <= i /\ i < views[w].off + views[w].len)
    BY DEF ExclusiveDisjoint
  <2>1. Apart(views[v], views[w])
    BY DEF PoolInv, ApartInv, AllApart, Current
  <2>2. /\ views[v].off \in Nat /\ views[v].len \in Nat
        /\ views[w].off \in Nat /\ views[w].len \in Nat
    BY TypeParts, SizesAssumption DEF PoolInv, ViewTypes, AnyView, View, NoView
  <2>3. i \in Int
    BY SizesAssumption
  <2> QED BY <2>1, <2>2, <2>3 DEF Apart
<1> QED BY <1>1, PoolInvariant, PTL

\* Every step keeps each slot in its one place.
LEMMA NextSlots == PoolInv /\ SlotInv /\ [PoolsNext]_poolVars => SlotInv'
<1> SUFFICES ASSUME PoolInv, SlotInv, [PoolsNext]_poolVars PROVE SlotInv'
  OBVIOUS
<1>1. SlabTypes /\ ViewTypes /\ RestTypes
  BY TypeParts DEF PoolInv
<1>2. /\ phase # "running" => selected = {} /\ reads = 0
      /\ phase = "stopped" => lost = {}
      /\ phase # "stopped" => FreeInv /\ RingInv
  BY DEF SlotInv
<1>3. CASE Start
  <2>1. FreeInv' /\ RingInv'
    BY <1>3, StartSlots
  <2>2. phase' = "running"
    BY <1>3 DEF Start
  <2> QED BY <2>1, <2>2 DEF SlotInv
<1>4. CASE BeginTeardown
  <2>1. phase = "running" /\ phase' = "teardown" /\ reads' = 0 /\ selected' = {}
    BY <1>4 DEF BeginTeardown, Running
  <2>2. FreeInv' /\ RingInv'
    BY <1>2, <1>4, <2>1, TeardownSlots
  <2> QED BY <2>1, <2>2 DEF SlotInv
<1>5. CASE Stop
  <2>1. /\ phase = "teardown" /\ phase' = "stopped" /\ lost' = {}
        /\ UNCHANGED <<reads, selected>>
    BY <1>5 DEF Stop
  <2> QED BY <1>2, <2>1 DEF SlotInv
<1>6. CASE UNCHANGED poolVars \/ PublishTail
  <2>1. UNCHANGED <<phase, free, ring, tail, head, reads, selected, lost, borrows>>
    BY <1>6 DEF poolVars, slabs, PublishTail
  <2>2. published' = published \/ tail' = published'
    BY <1>6 DEF poolVars, slabs, PublishTail
  <2>3. FreeInv /\ RingInv => FreeInv' /\ RingInv'
    BY <2>1, <2>2, SlotsStay
  <2> QED BY <1>2, <2>1, <2>3 DEF SlotInv
<1>7. CASE ReadProvided \/ KernelRefuse
  <2>1. UNCHANGED <<phase, free, ring, tail, head, selected, lost, borrows, published>>
    BY <1>7 DEF slabs, ReadProvided, KernelRefuse
  <2>2. phase = "running"
    BY <1>1, <1>2, <1>7 DEF ReadProvided, Running, KernelRefuse, RestTypes
  <2>3. FreeInv' /\ RingInv'
    BY <1>2, <2>1, <2>2, SlotsStay
  <2> QED BY <2>1, <2>2, <2>3 DEF SlotInv
<1>8. CASE OnReadError \/ \E ok \in BOOLEAN : KernelSelect(ok)
  <2>1. phase = "running" /\ phase' = phase
    BY <1>1, <1>2, <1>8 DEF OnReadError, Running, KernelSelect, RestTypes
  <2>2. FreeInv' /\ RingInv'
    BY <1>1, <1>2, <1>8, <2>1, ErrorSlots, SelectSlots
  <2> QED BY <2>1, <2>2 DEF SlotInv
<1>9. ASSUME NEW v \in ViewId,
             \/ DropView(v)
             \/ \E excl \in BOOLEAN, len \in 1..SlotSize : Alloc(v, excl, len)
             \/ IntoMut(v) \/ IntoRef(v)
             \/ \E len \in 0..SlotSize : SetLen(v, len) \/ OnRead(v, len)
             \/ \E w \in ViewId, mid \in 0..SlotSize : SplitAt(v, w, mid)
             \/ \E w \in ViewId, a, b \in 0..SlotSize : Sub(v, w, a, b)
      PROVE  SlotInv'
  <2>1. phase' = phase /\ reads' = reads /\ lost' = lost
    BY <1>9 DEF DropView, Alloc, IntoMut, IntoRef, SetLen, OnRead, SplitAt, Sub, Rest
  <2>2. phase # "running" => selected' = selected
    BY <1>9 DEF DropView, Alloc, IntoMut, IntoRef, SetLen, OnRead, SplitAt, Sub, Rest, Running
  <2>3. FreeInv /\ RingInv => FreeInv' /\ RingInv'
    <3>1. CASE DropView(v)
      BY <1>1, <3>1, DropSlots
    <3>2. CASE \E excl \in BOOLEAN, len \in 1..SlotSize : Alloc(v, excl, len)
      BY <1>1, <3>2, AllocSlots
    <3>3. CASE \E len \in 0..SlotSize : OnRead(v, len)
      BY <1>1, <3>3, ReadSlots
    <3>4. CASE \/ IntoMut(v) \/ IntoRef(v) \/ (\E len : SetLen(v, len))
               \/ (\E w, mid : SplitAt(v, w, mid)) \/ (\E w, a, b : Sub(v, w, a, b))
      BY <1>1, <3>4, ViewSlots
    <3> QED BY <1>9, <3>1, <3>2, <3>3, <3>4
  <2> QED BY <1>2, <2>1, <2>2, <2>3 DEF SlotInv
<1> QED BY <1>3, <1>4, <1>5, <1>6, <1>7, <1>8, <1>9 DEF PoolsNext, Kernel

\* A slot has a view of this runtime when its count is not zero.
LEMMA CountIsHeld ==
  ASSUME NEW s \in Slot, phase # "stopped", CountInv
  PROVE  (\E v \in ViewId : views[v].bid = s /\ Current(views[v])) <=> borrows[s] # 0
<1>1. Counted(views, gen, borrows)
  BY DEF CountInv
<1>2. borrows[s] = 0 => \A v \in ViewId : ~On(views, gen, s, v)
  BY <1>1, CountTells
<1>3. ASSUME \A v \in ViewId : ~On(views, gen, s, v)
      PROVE  borrows[s] = 0
  <2>1. Shared(views, gen, s) = {} /\ Exclusive(views, gen, s) = {}
    BY <1>3 DEF On, Shared, Exclusive
  <2>2. borrows[s] = Cardinality({}) - Cardinality({})
    BY <1>1, <2>1 DEF Counted, Match
  <2> QED BY <2>2, FS_EmptySet
<1> QED BY <1>2, <1>3 DEF On, Current

\* A set whose elements are all equal has one, or none.
LEMMA OneOrNone ==
  ASSUME NEW A, \A a, b \in A : a = b
  PROVE  Cardinality(A) = IF A = {} THEN 0 ELSE 1
<1>1. CASE A = {}
  BY <1>1, FS_EmptySet
<1>2. CASE A # {}
  <2>1. PICK a \in A : TRUE
    BY <1>2
  <2>2. A = {a}
    BY <2>1
  <2> QED BY <1>2, <2>2, FS_Singleton
<1> QED BY <1>1, <1>2

\* What the parts of SlotInv say of the places the property counts in.
LEMMA PlacesOf ==
  ASSUME PoolInv, FreeInv, RingInv, NEW s \in Slot
  PROVE  LET F == {i \in DOMAIN free : <<"fixed", free[i]>> = s}
             E == {k \in DOMAIN Entries(tail) : <<"provided", Entries(tail)[k]>> = s}
             C == {c \in selected : <<"provided", c.local>> = s}
             D == {l \in lost : l = s}
         IN /\ Cardinality(F) = IF F = {} THEN 0 ELSE 1
            /\ Cardinality(E) = IF E = {} THEN 0 ELSE 1
            /\ Cardinality(C) = IF C = {} THEN 0 ELSE 1
            /\ Cardinality(D) = IF D = {} THEN 0 ELSE 1
            /\ s \in Fixed => /\ E = {} /\ C = {} /\ D = {}
                              /\ F = {} <=> borrows[s] # 0
            /\ s \in Provided =>
                 F = {} /\ ExactlyOne(E # {}, C # {}, D # {}, borrows[s] # 0)
<1> DEFINE F == {i \in DOMAIN free : <<"fixed", free[i]>> = s}
           n == Ahead(tail, head)
           E == {k \in DOMAIN Entries(tail) : <<"provided", Entries(tail)[k]>> = s}
           C == {c \in selected : <<"provided", c.local>> = s}
           D == {l \in lost : l = s}
<1>1. SlabTypes /\ RestTypes
  BY TypeParts DEF PoolInv
<1>2. F = {i \in 1..Len(free) : <<"fixed", free[i]>> = s}
  BY <1>1 DEF SlabTypes
<1>3. E = {k \in 0..(n - 1) : <<"provided", Entry(ring, head, k)>> = s}
  BY DEF Entries, Ahead, Entry
<1>4. \A i, j \in F : i = j
  BY <1>2 DEF FreeInv, FreeOnce
<1>5. \A j, k \in E : j = k
  <2> SUFFICES ASSUME NEW j \in E, NEW k \in E PROVE j = k
    OBVIOUS
  <2>1. /\ j \in 0..(n - 1) /\ k \in 0..(n - 1)
        /\ Entry(ring, head, j) = Entry(ring, head, k)
    BY <1>3
  <2> HIDE DEF n, E
  <2>2. Ring1to1(ring, head, n)
    BY DEF RingInv, n
  <2> QED BY <2>1, <2>2 DEF Ring1to1
<1>6. \A c, d \in C : c = d
  BY DEF RingInv
<1>7. \A k, l \in D : k = l
  OBVIOUS
<1>8. /\ Cardinality(F) = IF F = {} THEN 0 ELSE 1
      /\ Cardinality(E) = IF E = {} THEN 0 ELSE 1
      /\ Cardinality(C) = IF C = {} THEN 0 ELSE 1
      /\ Cardinality(D) = IF D = {} THEN 0 ELSE 1
  <2> HIDE DEF F, E, C, D
  <2> QED BY <1>4, <1>5, <1>6, <1>7, OneOrNone
<1>9. ASSUME s \in Fixed
      PROVE  E = {} /\ C = {} /\ D = {} /\ (F = {} <=> borrows[s] # 0)
  <2>1. s = <<"fixed", s[2]>> /\ s[2] \in 0..(FixedCount - 1)
    BY <1>9, SlotKinds
  <2>2. \A y : <<"provided", y>> # s
    BY <2>1, SlotKinds
  <2>3. E = {} /\ C = {}
    BY <1>3, <2>2
  <2>4. D = {}
    BY <1>1, <2>2, SlotKinds DEF RestTypes
  <2>5. F = {} <=> ~InFree(free, s[2])
    BY <1>2, <2>1 DEF InFree
  <2>6. InFree(free, s[2]) <=> borrows[<<"fixed", s[2]>>] = 0
    BY <2>1 DEF FreeInv
  <2>7. borrows[<<"fixed", s[2]>>] = borrows[s]
    BY <2>1
  <2> QED BY <2>3, <2>4, <2>5, <2>6, <2>7
<1>10. ASSUME s \in Provided
       PROVE  F = {} /\ ExactlyOne(E # {}, C # {}, D # {}, borrows[s] # 0)
  <2>1. s = <<"provided", s[2]>> /\ s[2] \in 0..(RingCount - 1)
    BY <1>10, SlotKinds
  <2>2. F = {}
    BY <1>2, <2>1, SlotKinds
  <2> DEFINE x == s[2]
  <2>3. s = <<"provided", x>> /\ x \in 0..(RingCount - 1)
    BY <2>1
  <2> HIDE DEF x
  <2>4. E # {} <=> InRing(ring, head, n, x)
    BY <1>3, <2>3 DEF InRing
  <2>5. C # {} <=> InSelected(x)
    BY <2>3 DEF InSelected
  <2>6. D # {} <=> <<"provided", x>> \in lost
    BY <2>3
  <2>7. borrows[s] # 0 <=> borrows[<<"provided", x>>] # 0
    BY <2>3
  <2>8. ExactlyOne(InRing(ring, head, n, x), InSelected(x),
                   <<"provided", x>> \in lost, borrows[<<"provided", x>>] # 0)
    BY <2>3 DEF RingInv
  <2> HIDE DEF n, E, C, D, F
  <2> QED BY <2>2, <2>4, <2>5, <2>6, <2>7, <2>8 DEF ExactlyOne
<1> QED BY <1>8, <1>9, <1>10

\* For every number of slots and every width of the ring's tail, every slot of
\* a runtime that is up is in exactly one place: on the free stack or in the
\* ring once, with one completion, under views, or lost with an error
\* completion; and the ring never holds more entries than it has room for.
THEOREM SlotsAreAccounted == PoolsSpec => []SlotsAccounted
<1>1. PoolsInit => SlotInv
  BY DEF PoolsInit, SlotInv
<1>2. PoolInv /\ SlotInv => SlotsAccounted
  <2> SUFFICES ASSUME PoolInv, SlotInv, phase # "stopped" PROVE SlotsAccounted
    BY DEF SlotsAccounted
  <2>1. FreeInv /\ RingInv /\ CountInv
    BY DEF SlotInv, PoolInv
  <2>2. (tail - head) % TailMod <= RingCount
    BY <2>1 DEF RingInv, Ahead
  <2>3. ASSUME NEW s \in Slot
        PROVE  Cardinality({i \in DOMAIN free : <<"fixed", free[i]>> = s})
               + Cardinality({k \in DOMAIN Entries(tail) : <<"provided", Entries(tail)[k]>> = s})
               + Cardinality({c \in selected : <<"provided", c.local>> = s})
               + Cardinality({l \in lost : l = s})
               + (IF \E v \in ViewId : views[v].bid = s /\ Current(views[v]) THEN 1 ELSE 0)
               = 1
    <3> DEFINE F == {i \in DOMAIN free : <<"fixed", free[i]>> = s}
               E == {k \in DOMAIN Entries(tail) : <<"provided", Entries(tail)[k]>> = s}
               C == {c \in selected : <<"provided", c.local>> = s}
               D == {l \in lost : l = s}
               V == \E v \in ViewId : views[v].bid = s /\ Current(views[v])
    <3>1. V <=> borrows[s] # 0
      BY <2>1, CountIsHeld
    <3>2. /\ Cardinality(F) = IF F = {} THEN 0 ELSE 1
          /\ Cardinality(E) = IF E = {} THEN 0 ELSE 1
          /\ Cardinality(C) = IF C = {} THEN 0 ELSE 1
          /\ Cardinality(D) = IF D = {} THEN 0 ELSE 1
          /\ s \in Fixed => E = {} /\ C = {} /\ D = {} /\ (F = {} <=> borrows[s] # 0)
          /\ s \in Provided => F = {} /\ ExactlyOne(E # {}, C # {}, D # {}, borrows[s] # 0)
      BY <2>1, PlacesOf
    <3>3. s \in Fixed \/ s \in Provided
      BY DEF Slot
    <3> HIDE DEF F, E, C, D, V
    <3>4. Cardinality(F) + Cardinality(E) + Cardinality(C) + Cardinality(D)
            + (IF V THEN 1 ELSE 0) = 1
      BY <3>1, <3>2, <3>3 DEF ExactlyOne
    <3> QED BY <3>4 DEF F, E, C, D, V
  <2> QED BY <2>2, <2>3 DEF SlotsAccounted
<1>3. PoolsSpec => []SlotInv
  BY <1>1, NextSlots, PoolInvariant, PTL DEF PoolsSpec
<1> QED BY <1>2, <1>3, PoolInvariant, PTL

=============================================================================
