--------------------------- MODULE StructuresProofs -------------------------
(***************************************************************************)
(* Proofs about BufArena and LogCache.                                     *)
(*                                                                         *)
(* BufArena, for every table of size classes, any number of ops and        *)
(* buffers, and callbacks that register only ops without buffers: runs in  *)
(* use and free runs tile the arena, and a shim is handed the buffers its  *)
(* op was registered with.  A free list is threaded through the blocks.    *)
(* The invariant speaks of it as a stack, the head of the list last, which *)
(* some function of the class gives: alloc pops one of the stacks or       *)
(* lengthens the arena, release pushes, and following the links, as OnList *)
(* does, reads a stack from its top down.                                  *)
(*                                                                         *)
(* LogCache, for every size of the ring and lines of any length: both of   *)
(* its readers return the newest lines that fit.  A byte of the ring is    *)
(* known by its distance from start, which is where it is in all that was  *)
(* pushed; cutting lines off from there meets the newlines of exactly      *)
(* these lines.                                                            *)
(***************************************************************************)
EXTENDS BufArena, LogCache, FiniteSetTheorems, SequenceTheorems,
        WellFoundedInduction, TLAPS

-----------------------------------------------------------------------------
(* Induction.                                                              *)

\* A set of numbers that is not empty has a least one.
LEMMA LeastOf ==
  ASSUME NEW T, T \subseteq Nat, T # {}
  PROVE  \E x \in T : \A y \in T : x <= y
<1> DEFINE R == OpToRel(<, Nat)
<1>1. IsWellFoundedOn(R, Nat)
  BY NatLessThanWellFounded
<1>2. \A x, y \in Nat : x < y => <<x, y>> \in R
  BY DEF OpToRel
<1> HIDE DEF R
<1>3. PICK x \in T : \A y \in T : ~(<<y, x>> \in R)
  BY <1>1, WFMin
<1>4. \A y \in T : x \in Nat /\ y \in Nat /\ ~(y < x)
  BY <1>2, <1>3
<1>5. \A y \in T : x <= y
  BY <1>4
<1> QED BY <1>5

\* Induction up to n, over a set.
LEMMA UpTo ==
  ASSUME NEW n \in Nat, NEW T, 0 \in T,
         \A k \in 0..n : k \in T /\ k < n => k + 1 \in T
  PROVE  \A k \in 0..n : k \in T
<1> SUFFICES ASSUME NEW k \in 0..n, k \notin T PROVE FALSE
  OBVIOUS
<1> DEFINE B == {j \in 0..n : j \notin T}
<1>1. PICK x \in B : \A y \in B : x <= y
  <2>1. B \subseteq Nat /\ B # {}
    OBVIOUS
  <2> HIDE DEF B
  <2> QED BY <2>1, LeastOf
<1>2. x # 0 /\ x \in 1..n
  OBVIOUS
<1>3. x - 1 \in 0..n /\ x - 1 < n /\ x - 1 \in T
  BY <1>1, <1>2
<1> QED BY <1>2, <1>3

-----------------------------------------------------------------------------
(* Blocks, classes and runs.                                               *)

K == DOMAIN Classes

\* What a block may hold.
Block == {Unused} \union {Link(n) : n \in Nat} \union {Erased(i, k) : i \in Nat, k \in Nat}

\* The lengths some class has room for.
Fitting == {n \in Nat \ {0} : \E c \in K : n <= Classes[c]}

\* The classes are numbered from 1 and have a size.
LEMMA ClassSizes ==
  K = 1..Len(Classes) /\ \A c \in K : Classes[c] \in Nat \ {0}
BY ClassesAssumption DEF K

\* class_for finds a class with room.
LEMMA ClassFor ==
  ASSUME NEW len \in Fitting
  PROVE  class_for(len) \in K /\ len <= Classes[class_for(len)]
<1> DEFINE T == {c \in K : Classes[c] >= len}
<1>1. T \subseteq Nat /\ T # {} /\ \A c \in T : c \in DOMAIN Classes /\ Classes[c] >= len
  BY ClassSizes DEF Fitting, K
<1>2. \A d \in DOMAIN Classes : Classes[d] >= len => d \in T
  BY DEF K
<1> HIDE DEF T
<1>3. PICK c \in T : \A d \in T : c <= d
  BY <1>1, LeastOf
<1>4. \E b \in DOMAIN Classes :
        /\ Classes[b] >= len
        /\ \A d \in DOMAIN Classes : Classes[d] >= len => b <= d
  BY <1>1, <1>2, <1>3
<1>5. class_for(len) \in DOMAIN Classes /\ Classes[class_for(len)] >= len
  BY <1>4 DEF class_for
<1>6. Classes[class_for(len)] \in Nat /\ len \in Nat
  BY <1>5, ClassSizes DEF K, Fitting
<1> QED BY <1>5, <1>6 DEF K

\* The buffers an op may bring fit some class.
LEMMA LensFit ==
  ASSUME NEW len \in Lens, len # 0
  PROVE  len \in Fitting
<1>1. Len(Classes) \in K
  BY ClassesAssumption DEF K
<1>2. Classes[Len(Classes)] \in Nat
  BY <1>1, ClassSizes
<1>3. len \in 0..Classes[Len(Classes)]
  BY LensAssumption
<1> QED BY <1>1, <1>2, <1>3 DEF Fitting

\* Blocks are what they look like.
LEMMA Blocks ==
  /\ Unused \in Block
  /\ \A n \in Nat : Link(n) \in Block
  /\ \A i, k \in Nat : Erased(i, k) \in Block
BY DEF Block

\* next_link of a free run's first block.
LEMMA NextLink ==
  ASSUME NEW bs, NEW s, NEW n, bs[s] = Link(n)
  PROVE  next_link(bs, s) = n
BY DEF next_link, Link

-----------------------------------------------------------------------------
(* Stacks.                                                                 *)

StackOf == Seq(Nat \ {0})
Top(q) == IF q = <<>> THEN BUF_NONE ELSE q[Len(q)]
Below(q, i) == IF i = 1 THEN BUF_NONE ELSE q[i - 1]
NoRepeat(q) == \A i, j \in 1..Len(q) : q[i] = q[j] => i = j
On(q, x) == \E i \in 1..Len(q) : q[i] = x

\* The top is BUF_NONE when the stack is empty, and only then.
LEMMA TopOf ==
  ASSUME NEW q \in StackOf
  PROVE  /\ Top(q) = BUF_NONE <=> q = <<>>
         /\ q # <<>> => Len(q) \in 1..Len(q) /\ Top(q) = q[Len(q)]
         /\ Top(q) \in Nat
         /\ \A i \in 1..Len(q) : Below(q, i) \in Nat /\ q[i] \in Nat \ {0}
BY DEF StackOf, Top, Below, BUF_NONE

\* Only the empty stack has length 0.
LEMMA EmptyStack ==
  ASSUME NEW q \in StackOf
  PROVE  q = <<>> <=> ~(Len(q) \in 1..Len(q))
BY DEF StackOf

\* The top is popped.
LEMMA Popped ==
  ASSUME NEW q \in StackOf, q # <<>>, NoRepeat(q)
  PROVE  LET g == SubSeq(q, 1, Len(q) - 1)
         IN  /\ g \in StackOf /\ NoRepeat(g)
             /\ Top(g) = Below(q, Len(q))
             /\ \A i \in 1..Len(g) : i \in 1..Len(q) /\ g[i] = q[i] /\ Below(g, i) = Below(q, i)
             /\ \A x : On(g, x) <=> On(q, x) /\ x # Top(q)
<1> DEFINE g == SubSeq(q, 1, Len(q) - 1)
           n == Len(q) - 1
<1>1. Len(q) \in Nat /\ Len(q) >= 1 /\ n \in Nat /\ n <= Len(q)
  BY DEF StackOf
<1>2. g \in StackOf /\ Len(g) = n /\ \A i \in 1..n : g[i] = q[i]
  <2> HIDE DEF n
  <2>1. g = SubSeq(q, 1, n)
    BY DEF n
  <2> HIDE DEF g
  <2> QED BY <1>1, <2>1, SubSeqProperties DEF StackOf
<1> HIDE DEF g
<1>3. \A i \in 1..Len(g) : i \in 1..Len(q) /\ i # Len(q) /\ g[i] = q[i]
  BY <1>1, <1>2
<1>4. \A i \in 1..Len(g) : Below(g, i) = Below(q, i)
  <2> SUFFICES ASSUME NEW i \in 1..Len(g), i # 1 PROVE g[i - 1] = q[i - 1]
    BY DEF Below
  <2>1. i - 1 \in 1..Len(g)
    BY <1>1, <1>2
  <2> QED BY <1>3, <2>1
<1>5. Top(g) = Below(q, Len(q))
  <2>1. CASE Len(q) = 1
    <3>1. g = <<>>
      BY <1>2, <2>1 DEF StackOf
    <3> QED BY <2>1, <3>1 DEF Top, Below
  <2>2. CASE Len(q) # 1
    <3>1. Len(g) \in 1..Len(g) /\ Len(g) = Len(q) - 1
      BY <1>1, <1>2, <2>2
    <3>2. g # <<>>
      BY <1>2, <3>1, EmptyStack
    <3> QED BY <1>3, <2>2, <3>1, <3>2 DEF Top, Below
  <2> QED BY <2>1, <2>2
<1>6. NoRepeat(g)
  BY <1>3 DEF NoRepeat
<1>7. Len(q) \in 1..Len(q) /\ Top(q) = q[Len(q)]
  BY <1>1 DEF Top
<1>8. \A i \in 1..Len(q) : i = Len(q) \/ i \in 1..Len(g)
  BY <1>1, <1>2
<1>9. ASSUME NEW x
      PROVE  On(g, x) <=> On(q, x) /\ x # Top(q)
  <2>1. On(g, x) => On(q, x) /\ x # Top(q)
    BY <1>3, <1>7 DEF On, NoRepeat
  <2>2. On(q, x) /\ x # Top(q) => On(g, x)
    BY <1>3, <1>7, <1>8 DEF On
  <2> QED BY <2>1, <2>2
<1> HIDE DEF n
<1> QED BY <1>2, <1>3, <1>4, <1>5, <1>6, <1>9 DEF g

\* Something that is not on the stack is pushed.
LEMMA Pushed ==
  ASSUME NEW q \in StackOf, NoRepeat(q), NEW x \in Nat \ {0}, ~On(q, x)
  PROVE  LET g == Append(q, x)
         IN  /\ g \in StackOf /\ NoRepeat(g) /\ Top(g) = x
             /\ \A i \in 1..Len(g) :
                  \/ i \in 1..Len(q) /\ g[i] = q[i] /\ Below(g, i) = Below(q, i)
                  \/ g[i] = x /\ Below(g, i) = Top(q)
             /\ \A y : On(g, y) <=> On(q, y) \/ y = x
<1> DEFINE g == Append(q, x)
           n == Len(q) + 1
<1>1. /\ Len(q) \in Nat /\ g \in StackOf /\ Len(g) = n /\ g[n] = x /\ g # <<>>
      /\ \A i \in 1..Len(q) : g[i] = q[i]
  <2>1. /\ g \in Seq(Nat \ {0}) /\ Len(g) = n /\ g[n] = x
        /\ \A i \in 1..Len(q) : g[i] = q[i]
    BY AppendProperties DEF StackOf
  <2>2. Len(q) \in Nat
    BY DEF StackOf
  <2>3. g # <<>>
    <3> HIDE DEF g
    <3> QED BY <2>1, <2>2
  <2> QED BY <2>1, <2>2, <2>3 DEF StackOf
<1> HIDE DEF g
<1>2. \A i : i \in 1..Len(g) <=> i \in 1..Len(q) \/ i = n
  BY <1>1
<1>3. Top(g) = x
  BY <1>1 DEF Top
<1>4. NoRepeat(g)
  BY <1>1, <1>2 DEF NoRepeat, On
<1>5. \A y : On(g, y) <=> On(q, y) \/ y = x
  BY <1>1, <1>2 DEF On
<1>6. \A i \in 1..Len(q) : Below(g, i) = Below(q, i)
  <2> SUFFICES ASSUME NEW i \in 1..Len(q), i # 1 PROVE g[i - 1] = q[i - 1]
    BY DEF Below
  <2>1. i - 1 \in 1..Len(q)
    BY <1>1
  <2> QED BY <1>1, <2>1
<1>7. Below(g, n) = Top(q)
  <2>1. CASE q = <<>>
    BY <2>1 DEF Below, Top
  <2>2. CASE q # <<>>
    <3>1. n # 1 /\ n - 1 = Len(q) /\ Len(q) \in 1..Len(q)
      BY <1>1, <2>2 DEF StackOf
    <3> QED BY <1>1, <2>2, <3>1 DEF Below, Top
  <2> QED BY <2>1, <2>2
<1> HIDE DEF n
<1> QED BY <1>1, <1>2, <1>3, <1>4, <1>5, <1>6, <1>7 DEF g

-----------------------------------------------------------------------------
(* Sequences of blocks.                                                    *)

\* es is bs with n more blocks; cs is bs with the buffers of op o in its
\* blocks; cs is bs with a link to n in block s; gr is fr with n for class c.
Longer(bs, es, n) ==
  /\ es \in Seq(Block) /\ Len(es) = Len(bs) + n
  /\ \A k \in 1..Len(bs) : es[k] = bs[k]
Loaded(bs, cs, o) ==
  /\ cs \in Seq(Block) /\ Len(cs) = Len(bs)
  /\ \A k \in 1..Len(bs) : cs[k] = IF k \in o.start..(o.start + o.len - 1)
                                   THEN Erased(o.id, k - o.start + 1) ELSE bs[k]
Linked(bs, cs, s, n) ==
  /\ cs \in Seq(Block) /\ Len(cs) = Len(bs) /\ cs[s] = Link(n)
  /\ \A k \in 1..Len(bs) : k # s => cs[k] = bs[k]
Set(fr, gr, c, n) == gr = [fr EXCEPT ![c] = n]

\* New blocks are added at the end.
LEMMA Lengthens ==
  ASSUME NEW bs \in Seq(Block), NEW n \in Nat
  PROVE  Longer(bs, bs \o [k \in 1..n |-> Unused], n)
<1> DEFINE new == [k \in 1..n |-> Unused]
<1>1. new \in Seq(Block) /\ Len(new) = n
  BY Blocks
<1> HIDE DEF new
<1>2. /\ bs \o new \in Seq(Block) /\ Len(bs \o new) = Len(bs) + n
      /\ \A k \in 1..Len(bs) : (bs \o new)[k] = bs[k]
  BY <1>1
<1> QED BY <1>2 DEF new, Longer

\* Buffers are copied into the blocks of an op.
LEMMA Loads ==
  ASSUME NEW a, a.blocks \in Seq(Block), NEW o,
         o.start \in Nat, o.len \in Nat, o.id \in Nat, o.start = a.start
  PROVE  Loaded(a.blocks, Filled(a, o.id, o.len), o)
<1> DEFINE bs == a.blocks
           s == o.start
           cs == [k \in 1..Len(bs) |-> IF k \in s..(s + o.len - 1)
                                       THEN Erased(o.id, k - s + 1) ELSE bs[k]]
<1>1. Len(bs) \in Nat /\ DOMAIN bs = 1..Len(bs) /\ \A k \in 1..Len(bs) : bs[k] \in Block
  OBVIOUS
<1>2. ASSUME NEW k \in s..(s + o.len - 1)
      PROVE  Erased(o.id, k - s + 1) \in Block
  <2>1. k - s + 1 \in Nat
    OBVIOUS
  <2> QED BY <2>1, Blocks
<1>3. cs \in [1..Len(bs) -> Block]
  BY <1>1, <1>2
<1>4. \A k \in 1..Len(bs) : cs[k] = IF k \in s..(s + o.len - 1)
                                     THEN Erased(o.id, k - s + 1) ELSE bs[k]
  OBVIOUS
<1>5. cs \in Seq(Block) /\ Len(cs) = Len(bs)
  <2> HIDE DEF cs, bs
  <2> QED BY <1>1, <1>3
<1>6. Filled(a, o.id, o.len) = cs
  BY <1>1 DEF Filled
<1> HIDE DEF cs
<1> QED BY <1>4, <1>5, <1>6 DEF Loaded

\* A link is written.
LEMMA Links ==
  ASSUME NEW bs \in Seq(Block), NEW s \in 1..Len(bs), NEW n \in Nat
  PROVE  Linked(bs, [bs EXCEPT ![s] = Link(n)], s, n)
<1> DEFINE x == Link(n)
<1>1. x \in Block
  BY Blocks
<1> HIDE DEF x
<1>2. LET cs == [bs EXCEPT ![s] = x]
      IN  /\ cs \in Seq(Block) /\ Len(cs) = Len(bs) /\ cs[s] = x
          /\ \A k \in 1..Len(bs) : k # s => cs[k] = bs[k]
  BY <1>1
<1> QED BY <1>2 DEF Linked, x

-----------------------------------------------------------------------------
(* The invariant of an arena: its blocks bs and list heads fr, the ops U   *)
(* whose buffers sit in it, and the free lists as stacks Q.                *)

\* The lists are the stacks.
Stacked(bs, fr, Q) ==
  /\ Q \in [K -> StackOf]
  /\ fr = [c \in K |-> Top(Q[c])]
  /\ \A c \in K : NoRepeat(Q[c])
  /\ \A c \in K : \A i \in 1..Len(Q[c]) : bs[Q[c][i]] = Link(Below(Q[c], i))

\* A run of class c starts at block s.
UsedRun(U, s, c) == \E o \in U : s = o.start /\ c = class_for(o.len)
FreeRun(Q, s, c) == c \in K /\ On(Q[c], s)
IsRun(U, Q, s, c) == UsedRun(U, s, c) \/ FreeRun(Q, s, c)

\* Runs do not meet, and they make up the arena.
Tiled(bs, U, Q) ==
  /\ \A s, c, t, d : IsRun(U, Q, s, c) /\ IsRun(U, Q, t, d) /\ ~(s = t /\ c = d)
                       => \A b : ~(b \in Run(s, c) /\ b \in Run(t, d))
  /\ \A b : b \in 1..Len(bs) <=> \E s, c : IsRun(U, Q, s, c) /\ b \in Run(s, c)

\* A run in use has one user and is not free.
Owned(U, Q) ==
  /\ \A o, p \in U : o.start = p.start => o = p
  /\ \A o \in U : \A c \in K : ~On(Q[c], o.start)

\* The buffers of the ops are in their runs.
Holding(bs, U) == \A o \in U : \A k \in 1..o.len : bs[o.start + k - 1] = Erased(o.id, k)

OpTypes(U) == \A o \in U : o.start \in Nat \ {0} /\ o.len \in Fitting /\ o.id \in Nat

ArenaInv(bs, fr, U, Q) ==
  /\ bs \in Seq(Block) /\ OpTypes(U)
  /\ Stacked(bs, fr, Q) /\ Tiled(bs, U, Q) /\ Owned(U, Q) /\ Holding(bs, U)

\* The blocks an op's buffers sit in are in its run.
LEMMA InItsRun ==
  ASSUME NEW s \in Nat, NEW len \in Fitting, NEW b,
         b \in s..(s + len - 1)
  PROVE  b \in Run(s, class_for(len))
<1>1. class_for(len) \in K /\ len <= Classes[class_for(len)]
  BY ClassFor
<1>2. Classes[class_for(len)] \in Nat /\ len \in Nat
  BY <1>1, ClassSizes DEF Fitting
<1> QED BY <1>1, <1>2 DEF Run

\* A run starts with its first block.
LEMMA StartsItsRun ==
  ASSUME NEW s \in Nat, NEW c \in K
  PROVE  s \in Run(s, c)
<1>1. Classes[c] \in Nat \ {0}
  BY ClassSizes
<1> QED BY <1>1 DEF Run

\* What the invariant says about where runs are.
LEMMA RunFacts ==
  ASSUME NEW bs, NEW fr, NEW U, NEW Q, ArenaInv(bs, fr, U, Q)
  PROVE  /\ \A s, c : IsRun(U, Q, s, c) => s \in Nat \ {0} /\ c \in K /\ s \in Run(s, c)
         /\ \A s, c, d : IsRun(U, Q, s, c) /\ IsRun(U, Q, s, d) => c = d
         /\ \A o \in U : IsRun(U, Q, o.start, class_for(o.len))
<1>1. ASSUME NEW s, NEW c, IsRun(U, Q, s, c)
      PROVE  s \in Nat \ {0} /\ c \in K
  <2>1. CASE UsedRun(U, s, c)
    BY <2>1, ClassFor DEF UsedRun, ArenaInv, OpTypes
  <2>2. CASE FreeRun(Q, s, c)
    BY <2>2, TopOf DEF FreeRun, On, ArenaInv, Stacked
  <2> QED BY <1>1, <2>1, <2>2 DEF IsRun
<1>2. \A s, c : IsRun(U, Q, s, c) => s \in Run(s, c)
  BY <1>1, StartsItsRun
<1>3. \A s, c, d : IsRun(U, Q, s, c) /\ IsRun(U, Q, s, d) => c = d
  BY <1>2 DEF ArenaInv, Tiled
<1>4. \A o \in U : IsRun(U, Q, o.start, class_for(o.len))
  BY DEF IsRun, UsedRun
<1> QED BY <1>1, <1>2, <1>3, <1>4

\* The blocks of an op's buffers are in no other run.
LEMMA BuffersApart ==
  ASSUME NEW bs, NEW fr, NEW U, NEW Q, ArenaInv(bs, fr, U, Q),
         NEW s, NEW len \in Fitting, IsRun(U, Q, s, class_for(len)),
         NEW t, NEW d, IsRun(U, Q, t, d), s # t, NEW b, b \in Run(t, d)
  PROVE  b \notin s..(s + len - 1)
<1>1. s \in Nat
  BY RunFacts
<1>2. b \notin Run(s, class_for(len))
  BY DEF ArenaInv, Tiled
<1> QED BY <1>1, <1>2, InItsRun

\* alloc takes a run off the free list of its class for op o.
LEMMA TakeRun ==
  ASSUME NEW bs, NEW fr, NEW U, NEW Q, ArenaInv(bs, fr, U, Q),
         NEW o, o.len \in Fitting, o.id \in Nat, fr[class_for(o.len)] # BUF_NONE,
         o.start = fr[class_for(o.len)], NEW cs, Loaded(bs, cs, o),
         NEW gr, Set(fr, gr, class_for(o.len), next_link(bs, o.start))
  PROVE  o \notin U /\ \E P : ArenaInv(cs, gr, U \union {o}, P)
<1> DEFINE c == class_for(o.len)
           q == Q[c]
           g == SubSeq(q, 1, Len(q) - 1)
           P == [Q EXCEPT ![c] = g]
           s == o.start
           V == U \union {o}
<1>0. /\ c \in K /\ o.len <= Classes[c] /\ Classes[c] \in Nat /\ o.len \in Nat \ {0}
  BY ClassFor, ClassSizes DEF Fitting
<1>1. /\ bs \in Seq(Block) /\ OpTypes(U) /\ Q \in [K -> StackOf]
      /\ fr = [d \in K |-> Top(Q[d])] /\ \A d \in K : NoRepeat(Q[d])
      /\ \A d \in K : \A i \in 1..Len(Q[d]) : bs[Q[d][i]] = Link(Below(Q[d], i))
  BY DEF ArenaInv, Stacked
<1>2. q \in StackOf /\ q # <<>> /\ s = Top(q) /\ NoRepeat(q)
  BY <1>0, <1>1, TopOf
<1>3. /\ g \in StackOf /\ NoRepeat(g) /\ Top(g) = Below(q, Len(q))
      /\ \A i \in 1..Len(g) : i \in 1..Len(q) /\ g[i] = q[i] /\ Below(g, i) = Below(q, i)
      /\ \A x : On(g, x) <=> On(q, x) /\ x # s
  <2>1. g = SubSeq(q, 1, Len(q) - 1)
    OBVIOUS
  <2> HIDE DEF q, g, s
  <2>2. /\ g \in StackOf /\ NoRepeat(g) /\ Top(g) = Below(q, Len(q))
        /\ \A i \in 1..Len(g) : i \in 1..Len(q) /\ g[i] = q[i] /\ Below(g, i) = Below(q, i)
        /\ \A x : On(g, x) <=> On(q, x) /\ x # Top(q)
    BY <1>2, <2>1, Popped
  <2> QED BY <1>2, <2>2
<1>4. s \in Nat \ {0} /\ On(q, s) /\ next_link(bs, s) = Top(g)
  <2>1. Len(q) \in 1..Len(q) /\ s = q[Len(q)]
    BY <1>2, TopOf
  <2>2. bs[s] = Link(Below(q, Len(q)))
    BY <1>0, <1>1, <2>1
  <2> QED BY <1>2, <1>3, <2>1, <2>2, NextLink, TopOf DEF On
<1>5. P \in [K -> StackOf] /\ P[c] = g /\ \A d \in K \ {c} : P[d] = Q[d]
  BY <1>0, <1>1, <1>3
<1>6. FreeRun(Q, s, c) /\ IsRun(U, Q, s, c)
  BY <1>0, <1>4 DEF FreeRun, IsRun
<1> HIDE DEF g, P
<1>7. o \notin U /\ \A p \in U : p.start # s
  BY <1>0, <1>4 DEF ArenaInv, Owned
<1>8. \A d \in K : ~On(P[d], s)
  <2> SUFFICES ASSUME NEW d \in K \ {c}, On(Q[d], s) PROVE FALSE
    BY <1>3, <1>5
  <2>1. IsRun(U, Q, s, d)
    BY DEF IsRun, FreeRun
  <2> QED BY <1>6, <2>1, RunFacts
<1>9. \A d \in K : \A x : On(P[d], x) => On(Q[d], x)
  BY <1>3, <1>5
<1>10. \A t, d : IsRun(V, P, t, d) <=> IsRun(U, Q, t, d)
  <2>1. \A t, d : UsedRun(V, t, d) <=> UsedRun(U, t, d) \/ (t = s /\ d = c)
    BY DEF UsedRun
  <2>2. \A t, d : FreeRun(Q, t, d) <=> FreeRun(P, t, d) \/ (t = s /\ d = c)
    BY <1>0, <1>3, <1>4, <1>5 DEF FreeRun
  <2> QED BY <2>1, <2>2 DEF IsRun
<1>12. /\ cs \in Seq(Block) /\ Len(cs) = Len(bs)
       /\ \A k \in 1..Len(bs) : cs[k] = IF k \in s..(s + o.len - 1)
                                        THEN Erased(o.id, k - s + 1) ELSE bs[k]
  BY DEF Loaded
<1>13. Tiled(cs, V, P)
  BY <1>10, <1>12 DEF ArenaInv, Tiled
<1>14. OpTypes(V)
  BY <1>1, <1>4 DEF OpTypes
<1>15. Owned(V, P)
  BY <1>7, <1>8, <1>9 DEF ArenaInv, Owned
<1>16. \A t, d, b : IsRun(U, Q, t, d) /\ t # s /\ b \in Run(t, d) => b \in 1..Len(bs) /\ cs[b] = bs[b]
  <2> SUFFICES ASSUME NEW t, NEW d, NEW b, IsRun(U, Q, t, d), t # s, b \in Run(t, d)
               PROVE  b \in 1..Len(bs) /\ cs[b] = bs[b]
    OBVIOUS
  <2>1. b \in 1..Len(bs)
    BY DEF ArenaInv, Tiled
  <2>2. b \notin s..(s + o.len - 1)
    BY <1>6, BuffersApart
  <2> QED BY <1>12, <2>1, <2>2
<1>17. Stacked(cs, gr, P)
  <2>1. gr = [d \in K |-> Top(P[d])]
    BY <1>0, <1>1, <1>4, <1>5 DEF Set
  <2>2. \A d \in K : NoRepeat(P[d])
    BY <1>1, <1>3, <1>5
  <2>3. ASSUME NEW d \in K, NEW i \in 1..Len(P[d])
        PROVE  cs[P[d][i]] = Link(Below(P[d], i))
    <3>1. i \in 1..Len(Q[d]) /\ P[d][i] = Q[d][i] /\ Below(P[d], i) = Below(Q[d], i)
      BY <1>3, <1>5
    <3>2. IsRun(U, Q, P[d][i], d) /\ P[d][i] # s
      BY <1>8, <3>1 DEF IsRun, FreeRun, On
    <3>3. P[d][i] \in Run(P[d][i], d)
      BY <3>2, RunFacts
    <3> QED BY <1>1, <1>16, <3>1, <3>2, <3>3
  <2> QED BY <1>5, <2>1, <2>2, <2>3 DEF Stacked
<1>18. Holding(cs, V)
  <2>1. ASSUME NEW p \in U, NEW k \in 1..p.len
        PROVE  cs[p.start + k - 1] = Erased(p.id, k)
    <3>1. p.start \in Nat /\ p.len \in Fitting /\ p.len \in Nat
      BY <1>1 DEF OpTypes, Fitting
    <3>2. p.start + k - 1 \in p.start..(p.start + p.len - 1)
      BY <3>1
    <3>3. p.start + k - 1 \in Run(p.start, class_for(p.len))
      BY <3>1, <3>2, InItsRun
    <3>4. IsRun(U, Q, p.start, class_for(p.len)) /\ p.start # s
      BY <1>7, RunFacts
    <3>5. cs[p.start + k - 1] = bs[p.start + k - 1]
      BY <1>16, <3>3, <3>4
    <3> QED BY <3>5 DEF ArenaInv, Holding
  <2>2. ASSUME NEW k \in 1..o.len
        PROVE  cs[s + k - 1] = Erased(o.id, k)
    <3>1. s + k - 1 \in s..(s + o.len - 1) /\ (s + k - 1) - s + 1 = k
      BY <1>0, <1>4
    <3>2. s + k - 1 \in Run(s, c)
      BY <1>4, <3>1, InItsRun
    <3>3. s + k - 1 \in 1..Len(bs)
      BY <1>6, <3>2 DEF ArenaInv, Tiled
    <3> QED BY <1>12, <3>1, <3>3
  <2> QED BY <2>1, <2>2 DEF Holding
<1> QED BY <1>7, <1>12, <1>13, <1>14, <1>15, <1>17, <1>18 DEF ArenaInv

\* alloc makes new blocks at the end of the arena for op o.
LEMMA GrowArena ==
  ASSUME NEW bs, NEW fr, NEW U, NEW Q, ArenaInv(bs, fr, U, Q),
         NEW o, o.len \in Fitting, o.id \in Nat, o.start = Len(bs) + 1,
         NEW es, Longer(bs, es, Classes[class_for(o.len)]), NEW cs, Loaded(es, cs, o)
  PROVE  o \notin U /\ ArenaInv(cs, fr, U \union {o}, Q)
<1> DEFINE c == class_for(o.len)
           n == Classes[c]
           s == o.start
           V == U \union {o}
<1>0. c \in K /\ o.len <= n /\ n \in Nat \ {0} /\ o.len \in Nat \ {0}
  BY ClassFor, ClassSizes DEF Fitting
<1>1. bs \in Seq(Block) /\ OpTypes(U) /\ Stacked(bs, fr, Q)
  BY DEF ArenaInv
<1>2. Len(bs) \in Nat /\ s = Len(bs) + 1 /\ s \in Nat \ {0}
  BY <1>1
<1>3. /\ es \in Seq(Block) /\ Len(es) = Len(bs) + n /\ \A k \in 1..Len(bs) : es[k] = bs[k]
      /\ cs \in Seq(Block) /\ Len(cs) = Len(es)
      /\ \A k \in 1..Len(es) : cs[k] = IF k \in s..(s + o.len - 1)
                                       THEN Erased(o.id, k - s + 1) ELSE es[k]
  BY DEF Longer, Loaded
<1>4. /\ Len(cs) = Len(bs) + n
      /\ \A k \in 1..Len(bs) : cs[k] = bs[k]
      /\ \A k \in s..(s + o.len - 1) : cs[k] = Erased(o.id, k - s + 1)
  <2>1. /\ \A k \in s..(s + o.len - 1) : k \in 1..Len(es)
        /\ \A k \in 1..Len(bs) : k \in 1..Len(es) /\ k \notin s..(s + o.len - 1)
    BY <1>0, <1>2, <1>3
  <2> QED BY <1>3, <2>1
<1>5. /\ \A b \in 1..Len(bs) : b \notin Run(s, c)
      /\ \A b : b \in 1..Len(cs) <=> b \in 1..Len(bs) \/ b \in Run(s, c)
  <2>1. Run(s, c) = s..(s + n - 1)
    BY DEF Run
  <2>2. Len(cs) = Len(bs) + n
    BY <1>4
  <2> HIDE DEF n, s
  <2> QED BY <1>0, <1>2, <2>1, <2>2
<1>6. /\ \A t, d, b : IsRun(U, Q, t, d) /\ b \in Run(t, d) => b \in 1..Len(bs)
      /\ \A t, d : IsRun(U, Q, t, d) => t \in Run(t, d) /\ t \in 1..Len(bs) /\ t # s
  <2>1. \A t, d, b : IsRun(U, Q, t, d) /\ b \in Run(t, d) => b \in 1..Len(bs)
    BY DEF ArenaInv, Tiled
  <2>2. \A t, d : IsRun(U, Q, t, d) => t \in Run(t, d)
    BY RunFacts
  <2>3. s \notin 1..Len(bs)
    BY <1>2
  <2> QED BY <2>1, <2>2, <2>3
<1>7. \A t, d : IsRun(V, Q, t, d) <=> IsRun(U, Q, t, d) \/ (t = s /\ d = c)
  BY DEF IsRun, UsedRun
<1>8. \A p \in U : p.start # s
  BY <1>6, RunFacts
<1>9. Tiled(cs, V, Q)
  <2>1. ASSUME NEW t, NEW d, NEW u, NEW e, IsRun(V, Q, t, d), IsRun(V, Q, u, e),
               ~(t = u /\ d = e), NEW b, b \in Run(t, d), b \in Run(u, e)
        PROVE  FALSE
    <3>1. CASE IsRun(U, Q, t, d) /\ IsRun(U, Q, u, e)
      BY <2>1, <3>1 DEF ArenaInv, Tiled
    <3>2. CASE IsRun(U, Q, t, d) /\ u = s /\ e = c
      BY <1>5, <1>6, <2>1, <3>2
    <3>3. CASE IsRun(U, Q, u, e) /\ t = s /\ d = c
      BY <1>5, <1>6, <2>1, <3>3
    <3> QED BY <1>7, <2>1, <3>1, <3>2, <3>3
  <2>2. \A b : b \in 1..Len(bs) <=> \E t, d : IsRun(U, Q, t, d) /\ b \in Run(t, d)
    BY DEF ArenaInv, Tiled
  <2>3. \A b : b \in 1..Len(cs) <=> \E t, d : IsRun(V, Q, t, d) /\ b \in Run(t, d)
    BY <1>5, <1>7, <2>2
  <2> QED BY <2>1, <2>3 DEF Tiled
<1>10. OpTypes(V)
  BY <1>1, <1>2 DEF OpTypes
<1>11. Owned(V, Q)
  <2>1. \A d \in K : ~On(Q[d], s)
    BY <1>6 DEF IsRun, FreeRun
  <2> QED BY <1>8, <2>1 DEF ArenaInv, Owned
<1>12. Stacked(cs, fr, Q)
  <2>1. ASSUME NEW d \in K, NEW i \in 1..Len(Q[d])
        PROVE  cs[Q[d][i]] = Link(Below(Q[d], i))
    <3>1. IsRun(U, Q, Q[d][i], d)
      BY DEF IsRun, FreeRun, On
    <3>2. cs[Q[d][i]] = bs[Q[d][i]]
      BY <1>4, <1>6, <3>1
    <3> QED BY <1>1, <3>2 DEF Stacked
  <2> QED BY <1>1, <2>1 DEF Stacked
<1>13. Holding(cs, V)
  <2>1. ASSUME NEW p \in U, NEW k \in 1..p.len
        PROVE  cs[p.start + k - 1] = Erased(p.id, k)
    <3>1. p.start \in Nat /\ p.len \in Fitting /\ p.len \in Nat
      BY <1>1 DEF OpTypes, Fitting
    <3>2. p.start + k - 1 \in p.start..(p.start + p.len - 1)
      BY <3>1
    <3>3. p.start + k - 1 \in Run(p.start, class_for(p.len))
      BY <3>1, <3>2, InItsRun
    <3>4. IsRun(U, Q, p.start, class_for(p.len))
      BY RunFacts
    <3>5. cs[p.start + k - 1] = bs[p.start + k - 1]
      BY <1>4, <1>6, <3>3, <3>4
    <3> QED BY <3>5 DEF ArenaInv, Holding
  <2>2. ASSUME NEW k \in 1..o.len
        PROVE  cs[s + k - 1] = Erased(o.id, k)
    <3>1. s + k - 1 \in s..(s + o.len - 1) /\ (s + k - 1) - s + 1 = k
      BY <1>0, <1>2
    <3> QED BY <1>4, <3>1
  <2> QED BY <2>1, <2>2 DEF Holding
<1> QED BY <1>3, <1>8, <1>9, <1>10, <1>11, <1>12, <1>13 DEF ArenaInv

\* release puts the run of op o on the free list of its class.
LEMMA GiveRun ==
  ASSUME NEW bs, NEW fr, NEW U, NEW Q, ArenaInv(bs, fr, U, Q),
         NEW o \in U,
         NEW cs, Linked(bs, cs, o.start, fr[class_for(o.len)]),
         NEW gr, Set(fr, gr, class_for(o.len), o.start)
  PROVE  \E P : ArenaInv(cs, gr, U \ {o}, P)
<1> DEFINE c == class_for(o.len)
           q == Q[c]
           g == Append(q, o.start)
           P == [Q EXCEPT ![c] = g]
           s == o.start
           V == U \ {o}
<1>1. /\ bs \in Seq(Block) /\ OpTypes(U) /\ Q \in [K -> StackOf]
      /\ fr = [d \in K |-> Top(Q[d])] /\ \A d \in K : NoRepeat(Q[d])
      /\ \A d \in K : \A i \in 1..Len(Q[d]) : bs[Q[d][i]] = Link(Below(Q[d], i))
  BY DEF ArenaInv, Stacked
<1>2. c \in K /\ s \in Nat \ {0}
  BY <1>1, ClassFor DEF OpTypes
<1>3. /\ \A p \in U : p.start = s => p = o
      /\ \A d \in K : ~On(Q[d], s)
  BY DEF ArenaInv, Owned
<1>4. /\ g \in StackOf /\ NoRepeat(g) /\ Top(g) = s
      /\ \A i \in 1..Len(g) : \/ i \in 1..Len(q) /\ g[i] = q[i] /\ Below(g, i) = Below(q, i)
                              \/ g[i] = s /\ Below(g, i) = Top(q)
      /\ \A y : On(g, y) <=> On(q, y) \/ y = s
  <2>1. q \in StackOf /\ NoRepeat(q) /\ ~On(q, s)
    BY <1>1, <1>2, <1>3
  <2> HIDE DEF q, s
  <2>2. g = Append(q, s)
    BY DEF s
  <2> HIDE DEF g
  <2> QED BY <1>2, <2>1, <2>2, Pushed
<1>5. P \in [K -> StackOf] /\ P[c] = g /\ \A d \in K \ {c} : P[d] = Q[d]
  BY <1>1, <1>2, <1>4
<1> HIDE DEF g, P
<1>6. IsRun(U, Q, s, c) /\ s \in 1..Len(bs)
  <2>1. IsRun(U, Q, s, c)
    BY RunFacts
  <2> QED BY <2>1, RunFacts DEF ArenaInv, Tiled
<1>7. \A t, d : IsRun(V, P, t, d) <=> IsRun(U, Q, t, d)
  <2>1. \A t, d : UsedRun(U, t, d) <=> UsedRun(V, t, d) \/ (t = s /\ d = c)
    BY DEF UsedRun
  <2>2. \A t, d : FreeRun(P, t, d) <=> FreeRun(Q, t, d) \/ (t = s /\ d = c)
    BY <1>2, <1>4, <1>5 DEF FreeRun
  <2> QED BY <2>1, <2>2 DEF IsRun
<1>8. /\ cs \in Seq(Block) /\ Len(cs) = Len(bs) /\ cs[s] = Link(Top(q))
      /\ \A k \in 1..Len(bs) : k # s => cs[k] = bs[k]
  BY <1>1, <1>2 DEF Linked
<1>9. Tiled(cs, V, P)
  BY <1>7, <1>8 DEF ArenaInv, Tiled
<1>10. OpTypes(V)
  BY <1>1 DEF OpTypes
<1>11. Owned(V, P)
  <2>1. \A d \in K : \A x : On(P[d], x) => On(Q[d], x) \/ x = s
    BY <1>4, <1>5
  <2> QED BY <1>3, <2>1 DEF ArenaInv, Owned
<1>12. \A d \in K : \A i \in 1..Len(Q[d]) : cs[Q[d][i]] = bs[Q[d][i]]
  <2> SUFFICES ASSUME NEW d \in K, NEW i \in 1..Len(Q[d]) PROVE cs[Q[d][i]] = bs[Q[d][i]]
    OBVIOUS
  <2>1. On(Q[d], Q[d][i]) /\ IsRun(U, Q, Q[d][i], d)
    BY DEF IsRun, FreeRun, On
  <2>2. Q[d][i] # s
    BY <1>3, <2>1
  <2>3. Q[d][i] \in 1..Len(bs)
    BY <2>1, RunFacts DEF ArenaInv, Tiled
  <2> QED BY <1>8, <2>2, <2>3
<1>13. Stacked(cs, gr, P)
  <2>1. gr = [d \in K |-> Top(P[d])]
    BY <1>1, <1>2, <1>4, <1>5 DEF Set
  <2>2. \A d \in K : NoRepeat(P[d])
    BY <1>1, <1>4, <1>5
  <2>3. ASSUME NEW d \in K, NEW i \in 1..Len(P[d])
        PROVE  cs[P[d][i]] = Link(Below(P[d], i))
    <3>1. CASE d = c
      <4>1. P[d] = g /\ i \in 1..Len(g)
        BY <1>5, <2>3, <3>1
      <4>2. CASE i \in 1..Len(q) /\ g[i] = q[i] /\ Below(g, i) = Below(q, i)
        BY <1>1, <1>2, <1>12, <4>1, <4>2
      <4>3. CASE g[i] = s /\ Below(g, i) = Top(q)
        BY <1>8, <4>1, <4>3
      <4> QED BY <1>4, <4>1, <4>2, <4>3
    <3>2. CASE d # c
      BY <1>1, <1>5, <1>12, <2>3, <3>2
    <3> QED BY <3>1, <3>2
  <2> QED BY <1>5, <2>1, <2>2, <2>3 DEF Stacked
<1>14. Holding(cs, V)
  <2> SUFFICES ASSUME NEW p \in V, NEW k \in 1..p.len
               PROVE  cs[p.start + k - 1] = Erased(p.id, k)
    BY DEF Holding
  <2>1. p \in U /\ p.start # s
    BY <1>3
  <2>2. p.start \in Nat /\ p.len \in Fitting /\ p.len \in Nat
    BY <1>1, <2>1 DEF OpTypes, Fitting
  <2>3. p.start + k - 1 \in p.start..(p.start + p.len - 1)
    BY <2>2
  <2>4. p.start + k - 1 \in Run(p.start, class_for(p.len))
    BY <2>2, <2>3, InItsRun
  <2>5. IsRun(U, Q, p.start, class_for(p.len)) /\ s \in Run(s, c)
    BY <1>6, <2>1, RunFacts
  <2>6. p.start + k - 1 # s /\ p.start + k - 1 \in 1..Len(bs)
    BY <1>6, <2>1, <2>4, <2>5 DEF ArenaInv, Tiled
  <2>7. cs[p.start + k - 1] = bs[p.start + k - 1]
    BY <1>8, <2>6
  <2> QED BY <2>1, <2>7 DEF ArenaInv, Holding
<1> QED BY <1>8, <1>9, <1>10, <1>11, <1>13, <1>14 DEF ArenaInv

\* alloc and the copy into the run, for an op o whose buffers fit.
LEMMA AllocRun ==
  ASSUME NEW U, NEW Q, ArenaInv(blocks, lists, U, Q),
         NEW len \in Fitting, NEW id \in Nat
  PROVE  LET a == alloc(len)
             o == [id |-> id, start |-> a.start, len |-> len]
         IN  /\ o \notin U
             /\ \E P : ArenaInv(Filled(a, id, len), a.free, U \union {o}, P)
<1> DEFINE a == alloc(len)
           c == class_for(len)
           o == [id |-> id, start |-> a.start, len |-> len]
           cs == Filled(a, id, len)
<1>0. o.id = id /\ o.start = a.start /\ o.len = len
  OBVIOUS
<1>1. blocks \in Seq(Block) /\ Len(blocks) \in Nat /\ len \in Nat
      /\ c \in K /\ Classes[c] \in Nat /\ lists[c] \in Nat
  <2>1. c \in K /\ Classes[c] \in Nat
    BY ClassFor, ClassSizes
  <2>2. lists[c] = Top(Q[c]) /\ Q[c] \in StackOf
    BY <2>1 DEF ArenaInv, Stacked
  <2> QED BY <2>1, <2>2, TopOf DEF ArenaInv, Fitting
<1>2. CASE lists[c] # BUF_NONE
  <2>1. /\ a.start = lists[c] /\ a.blocks = blocks
        /\ Set(lists, a.free, c, next_link(blocks, lists[c]))
    BY <1>2 DEF alloc, Set
  <2> HIDE DEF a
  <2>2. Loaded(blocks, cs, o)
    <3>1. Loaded(a.blocks, Filled(a, o.id, o.len), o)
      <4> HIDE DEF o
      <4> QED BY <1>0, <1>1, <2>1, Loads
    <3> QED BY <2>1, <3>1
  <2> HIDE DEF o, cs
  <2>3. o \notin U /\ \E P : ArenaInv(cs, a.free, U \union {o}, P)
    BY <1>0, <1>2, <2>1, <2>2, TakeRun
  <2> QED BY <2>3 DEF a, o, cs
<1>3. CASE lists[c] = BUF_NONE
  <2>1. /\ a.start = Len(blocks) + 1 /\ a.free = lists
        /\ a.blocks = blocks \o [k \in 1..Classes[c] |-> Unused]
    BY <1>3 DEF alloc
  <2> HIDE DEF a
  <2>2. Longer(blocks, a.blocks, Classes[c])
    BY <1>1, <2>1, Lengthens
  <2>3. Loaded(a.blocks, cs, o)
    <3>1. a.blocks \in Seq(Block) /\ a.start \in Nat
      BY <1>1, <2>1, <2>2 DEF Longer
    <3>2. Loaded(a.blocks, Filled(a, o.id, o.len), o)
      <4> HIDE DEF o
      <4> QED BY <1>0, <1>1, <3>1, Loads
    <3> QED BY <3>2
  <2> HIDE DEF o, cs
  <2>4. o.start = Len(blocks) + 1
    BY <1>0, <2>1
  <2>5. o \notin U /\ ArenaInv(cs, lists, U \union {o}, Q)
    BY <1>0, <2>2, <2>3, <2>4, GrowArena
  <2> QED BY <2>1, <2>5 DEF a, o, cs
<1> QED BY <1>2, <1>3

\* release of a run in use.
LEMMA ReleaseRun ==
  ASSUME NEW bs, NEW fr, NEW U, NEW Q, ArenaInv(bs, fr, U, Q),
         NEW o \in U
  PROVE  LET r == release(bs, fr, o.start, o.len)
         IN  \E P : ArenaInv(r.blocks, r.free, U \ {o}, P)
<1> DEFINE r == release(bs, fr, o.start, o.len)
           c == class_for(o.len)
<1>1. r.blocks = [bs EXCEPT ![o.start] = Link(fr[c])] /\ Set(fr, r.free, c, o.start)
  BY DEF release, Set
<1>2. bs \in Seq(Block) /\ o.start \in 1..Len(bs)
  <2>1. IsRun(U, Q, o.start, c)
    BY RunFacts
  <2> QED BY <2>1, RunFacts DEF ArenaInv, Tiled
<1>3. fr[c] \in Nat
  <2>1. c \in K /\ fr[c] = Top(Q[c]) /\ Q[c] \in StackOf
    BY ClassFor DEF ArenaInv, OpTypes, Stacked
  <2> QED BY <2>1, TopOf
<1> HIDE DEF r
<1>4. Linked(bs, r.blocks, o.start, fr[c])
  BY <1>1, <1>2, <1>3, Links
<1>5. \E P : ArenaInv(r.blocks, r.free, U \ {o}, P)
  BY <1>1, <1>4, GiveRun
<1> QED BY <1>5 DEF r

-----------------------------------------------------------------------------
(* The invariant of the module.                                            *)

InUse == {o \in live \union {running} : o.len # 0}

\* An op without buffers has no run, ids count from 1, and the op whose shim
\* runs is no longer live.
OpsInv ==
  /\ ops \in Nat
  /\ \A o \in live : o.id \in Nat \ {0}
  /\ \A o \in live \union {running} : o.len \in Nat /\ (o.start = BUF_NONE <=> o.len = 0)
  /\ running.len # 0 => running \notin live

\* The inductive invariant.  Neither property is inductive by itself: that
\* alloc hands out a run nobody uses rests on the links in free runs, and
\* that these are intact on the runs not meeting.
ArenaIInv ==
  /\ ~panicked
  /\ OpsInv
  /\ running # NoArenaOp => handed = [k \in 1..running.len |-> Erased(running.id, k)]
  /\ \E Q : ArenaInv(Arena.blocks, Arena.free, InUse, Q)

\* An empty arena is one.
LEMMA EmptyIsArena ==
  \E Q : ArenaInv(<<>>, EmptyArena.free, {}, Q)
<1> DEFINE Q == [c \in K |-> <<>>]
<1>1. Q \in [K -> StackOf] /\ \A c \in K : Q[c] = <<>> /\ Len(Q[c]) = 0
  BY DEF StackOf
<1>2. \A c \in K : \A x : ~On(Q[c], x)
  BY <1>1 DEF On
<1>3. \A s, c : ~IsRun({}, Q, s, c)
  BY <1>2 DEF IsRun, FreeRun, UsedRun
<1>4. EmptyArena.free = [c \in K |-> Top(Q[c])]
  BY <1>1 DEF EmptyArena, Top, K
<1>5. \A c \in K : NoRepeat(Q[c]) /\ \A i \in 1..Len(Q[c]) : FALSE
  BY <1>1 DEF NoRepeat
<1>6. <<>> \in Seq(Block) /\ 1..Len(<<>>) = {}
  OBVIOUS
<1> HIDE DEF Q
<1>7. Stacked(<<>>, EmptyArena.free, Q)
  BY <1>1, <1>4, <1>5 DEF Stacked
<1>8. Tiled(<<>>, {}, Q)
  BY <1>3, <1>6 DEF Tiled
<1>9. ArenaInv(<<>>, EmptyArena.free, {}, Q)
  BY <1>6, <1>7, <1>8 DEF ArenaInv, OpTypes, Owned, Holding
<1> QED BY <1>9

\* The module starts with an empty arena and no ops.
LEMMA InitInv ==
  ASSUME ArenaInit
  PROVE  ArenaIInv
<1>1. InUse = {} /\ running = NoArenaOp /\ live = {} /\ ops = 0 /\ ~panicked
  BY DEF ArenaInit, InUse, NoArenaOp
<1>2. Arena.blocks = <<>> /\ Arena.free = EmptyArena.free
  BY DEF ArenaInit, Arena
<1>3. \E Q : ArenaInv(Arena.blocks, Arena.free, InUse, Q)
  BY <1>1, <1>2, EmptyIsArena
<1>4. OpsInv
  BY <1>1 DEF OpsInv, NoArenaOp, BUF_NONE
<1> QED BY <1>1, <1>3, <1>4 DEF ArenaIInv

\* register_op with buffers: only when no shim runs.
LEMMA RegisterInv ==
  ASSUME BufferedInCallback = FALSE, ArenaIInv,
         NEW len \in Lens, ArenaRegisterOp(len)
  PROVE  ArenaIInv'
<1>1. /\ ~panicked' /\ ops' = ops + 1 /\ ops \in Nat
      /\ UNCHANGED <<aside, running, handed>>
  BY DEF ArenaRegisterOp, ArenaIInv, OpsInv
<1>2. CASE len = 0
  <2> DEFINE o == [id |-> ops + 1, start |-> BUF_NONE, len |-> 0]
  <2>1. live' = live \union {o} /\ UNCHANGED <<blocks, lists>>
    BY <1>2 DEF ArenaRegisterOp
  <2>2. o.len = 0 /\ o.start = BUF_NONE /\ o.id = ops + 1
    OBVIOUS
  <2> HIDE DEF o
  <2>3. InUse' = InUse
    BY <1>1, <2>1, <2>2 DEF InUse
  <2>4. Arena' = Arena
    BY <1>1, <2>1 DEF Arena
  <2>5. OpsInv'
    BY <1>1, <2>1, <2>2 DEF ArenaIInv, OpsInv
  <2> QED BY <1>1, <2>3, <2>4, <2>5 DEF ArenaIInv
<1>3. CASE len # 0
  <2> DEFINE a == alloc(len)
             id == ops + 1
             o == [id |-> id, start |-> a.start, len |-> len]
  <2>1. /\ blocks' = Filled(a, id, len) /\ lists' = a.free
        /\ live' = live \union {o}
    BY <1>3 DEF ArenaRegisterOp
  <2>2. running = NoArenaOp /\ NoArenaOp.len = 0
    BY <1>3 DEF ArenaRegisterOp, NoArenaOp
  <2>3. len \in Fitting /\ id \in Nat /\ id # 0
    BY <1>1, <1>3, LensFit
  <2>4. Arena.blocks = blocks /\ Arena.free = lists
    BY <2>2 DEF Arena
  <2>5. PICK Q : ArenaInv(blocks, lists, InUse, Q)
    BY <2>4 DEF ArenaIInv
  <2>6. o \notin InUse /\ \E P : ArenaInv(Filled(a, id, len), a.free, InUse \union {o}, P)
    <3> HIDE DEF id
    <3> QED BY <2>3, <2>5, AllocRun
  <2>7. o.len = len /\ o.id = id
    OBVIOUS
  <2> HIDE DEF a, id, o
  <2>8. InUse' = InUse \union {o}
    BY <1>1, <1>3, <2>1, <2>2, <2>7 DEF InUse
  <2>9. Arena'.blocks = blocks' /\ Arena'.free = lists'
    BY <1>1, <2>2 DEF Arena
  <2>10. PICK P : ArenaInv(Arena'.blocks, Arena'.free, InUse', P)
    BY <2>1, <2>6, <2>8, <2>9
  <2>11. o.start # BUF_NONE
    BY <2>8, <2>10 DEF ArenaInv, OpTypes, BUF_NONE
  <2>12. OpsInv'
    BY <1>1, <1>3, <2>1, <2>2, <2>3, <2>7, <2>11 DEF ArenaIInv, OpsInv, Fitting
  <2> QED BY <1>1, <2>2, <2>10, <2>12 DEF ArenaIInv
<1> QED BY <1>2, <1>3

\* register_op whose request is refused: the run comes and goes.
LEMMA RefusedInv ==
  ASSUME BufferedInCallback = FALSE, ArenaIInv,
         NEW len \in Lens, ArenaRegisterOpRefused(len)
  PROVE  ArenaIInv'
<1> DEFINE a == alloc(len)
           id == ops + 1
           o == [id |-> id, start |-> a.start, len |-> len]
           cs == Filled(a, id, len)
           r == release(cs, a.free, a.start, len)
<1>1. /\ ~panicked' /\ ops' = ops + 1 /\ ops \in Nat /\ len # 0
      /\ UNCHANGED <<aside, running, live, handed>>
      /\ blocks' = r.blocks /\ lists' = r.free /\ running = NoArenaOp
  BY DEF ArenaRegisterOpRefused, ArenaIInv, OpsInv
<1>2. len \in Fitting /\ id \in Nat
  BY <1>1, LensFit
<1>3. Arena.blocks = blocks /\ Arena.free = lists /\ Arena'.blocks = blocks' /\ Arena'.free = lists'
  BY <1>1 DEF Arena
<1>4. PICK Q : ArenaInv(blocks, lists, InUse, Q)
  BY <1>3 DEF ArenaIInv
<1>5. o \notin InUse /\ \E P : ArenaInv(cs, a.free, InUse \union {o}, P)
  <2> HIDE DEF id
  <2> QED BY <1>2, <1>4, AllocRun
<1>6. o.start = a.start /\ o.len = len
  OBVIOUS
<1>7. PICK P : ArenaInv(cs, a.free, InUse \union {o}, P)
  BY <1>5
<1>8. \E S : ArenaInv(r.blocks, r.free, (InUse \union {o}) \ {o}, S)
  <2> DEFINE q == release(cs, a.free, o.start, o.len)
  <2>1. r = q
    BY <1>6
  <2> HIDE DEF a, id, o, cs, r
  <2>2. o \in InUse \union {o}
    OBVIOUS
  <2>3. \E S : ArenaInv(q.blocks, q.free, (InUse \union {o}) \ {o}, S)
    BY <1>7, <2>2, ReleaseRun
  <2> QED BY <2>1, <2>3
<1> HIDE DEF a, id, o, cs, r
<1>9. (InUse \union {o}) \ {o} = InUse /\ InUse' = InUse
  BY <1>1, <1>5 DEF InUse
<1>10. \E S : ArenaInv(Arena'.blocks, Arena'.free, InUse', S)
  BY <1>1, <1>3, <1>8, <1>9
<1>11. OpsInv'
  BY <1>1 DEF ArenaIInv, OpsInv
<1> QED BY <1>1, <1>10, <1>11 DEF ArenaIInv

\* complete_op: the slice is in range and holds the op's buffers.
LEMMA CompleteInv ==
  ASSUME ArenaIInv, NEW op \in live, ArenaCompleteOp(op)
  PROVE  ArenaIInv'
<1>1. /\ running = NoArenaOp /\ live' = live \ {op} /\ ops' = ops
      /\ aside' = [blocks |-> blocks, free |-> lists]
  BY DEF ArenaCompleteOp
<1>2. Arena.blocks = blocks /\ Arena.free = lists
  BY <1>1 DEF Arena
<1>3. PICK Q : ArenaInv(blocks, lists, InUse, Q)
  BY <1>2 DEF ArenaIInv
<1>4. op.id \in Nat \ {0} /\ op.len \in Nat /\ (op.start = BUF_NONE <=> op.len = 0)
  BY DEF ArenaIInv, OpsInv
<1>5. op # NoArenaOp /\ NoArenaOp.len = 0
  BY <1>4 DEF NoArenaOp
<1>6. ASSUME op.len # 0
      PROVE  /\ op.start \in Nat \ {0} /\ op.start + op.len - 1 \in 1..Len(blocks)
             /\ blocks \in Seq(Block)
             /\ \A k \in 1..op.len : blocks[op.start + k - 1] = Erased(op.id, k)
  <2>1. op \in InUse
    BY <1>6 DEF InUse
  <2>2. op.start \in Nat \ {0} /\ op.len \in Fitting
    BY <1>3, <2>1 DEF ArenaInv, OpTypes
  <2>3. op.start + op.len - 1 \in op.start..(op.start + op.len - 1)
    BY <1>4, <1>6, <2>2
  <2>4. op.start + op.len - 1 \in Run(op.start, class_for(op.len))
    BY <2>2, <2>3, InItsRun
  <2>5. IsRun(InUse, Q, op.start, class_for(op.len))
    BY <1>3, <2>1, RunFacts
  <2>6. op.start + op.len - 1 \in 1..Len(blocks)
    BY <1>3, <2>4, <2>5 DEF ArenaInv, Tiled
  <2> QED BY <1>3, <2>1, <2>2, <2>6 DEF ArenaInv, Holding
<1>7. /\ running' = op /\ ~panicked'
      /\ handed' = IF op.start = BUF_NONE THEN <<>>
                   ELSE SubSeq(blocks, op.start, op.start + op.len - 1)
  <2>1. op.start = BUF_NONE \/ ~(op.start + op.len - 1 > Len(blocks))
    BY <1>4, <1>6
  <2> QED BY <2>1 DEF ArenaCompleteOp, ArenaIInv
<1>8. handed' = [k \in 1..op.len |-> Erased(op.id, k)]
  <2>1. CASE op.len = 0
    <3>1. handed' = <<>>
      BY <1>4, <1>7, <2>1
    <3>2. [k \in 1..0 |-> Erased(op.id, k)] = <<>>
      OBVIOUS
    <3> QED BY <2>1, <3>1, <3>2
  <2>2. CASE op.len # 0
    <3> DEFINE s == op.start
               n == op.len
               sl == SubSeq(blocks, s, s + n - 1)
    <3>1. s \in Nat \ {0} /\ n \in Nat \ {0} /\ blocks \in Seq(Block) /\ s + n - 1 <= Len(blocks)
      BY <1>4, <1>6, <2>2
    <3>2. sl = [k \in 1..n |-> blocks[s + k - 1]]
      <4>1. (s + n - 1) - s + 1 = n /\ \A k \in 1..n : s + k - 1 = k + s - 1
        BY <3>1
      <4> HIDE DEF s, n
      <4> QED BY <3>1, <4>1 DEF sl
    <3>3. \A k \in 1..n : blocks[s + k - 1] = Erased(op.id, k)
      BY <1>6, <2>2
    <3>4. sl = [k \in 1..n |-> Erased(op.id, k)]
      <4> HIDE DEF sl, s
      <4> QED BY <3>2, <3>3
    <3> QED BY <1>4, <1>7, <2>2, <3>4
  <2> QED BY <2>1, <2>2
<1>9. Arena'.blocks = blocks /\ Arena'.free = lists
  BY <1>1, <1>5, <1>7 DEF Arena
<1>10. InUse' = InUse
  BY <1>1, <1>5, <1>7 DEF InUse
<1>11. OpsInv'
  BY <1>1, <1>4, <1>7 DEF ArenaIInv, OpsInv
<1>12. \E P : ArenaInv(Arena'.blocks, Arena'.free, InUse', P)
  BY <1>3, <1>9, <1>10
<1> QED BY <1>7, <1>8, <1>11, <1>12 DEF ArenaIInv

\* dispatch_shim after the shim: the arena is back, the run released.
LEMMA ReturnInv ==
  ASSUME ArenaIInv, ShimReturn
  PROVE  ArenaIInv'
<1>1. /\ running # NoArenaOp /\ running' = NoArenaOp /\ UNCHANGED <<live, ops, panicked>>
  BY DEF ShimReturn
<1>2. Arena = aside /\ Arena'.blocks = blocks' /\ Arena'.free = lists'
  BY <1>1 DEF Arena
<1>3. PICK Q : ArenaInv(aside.blocks, aside.free, InUse, Q)
  BY <1>2 DEF ArenaIInv
<1>4. running.len \in Nat /\ (running.start = BUF_NONE <=> running.len = 0)
  BY DEF ArenaIInv, OpsInv
<1>5. NoArenaOp.len = 0 /\ NoArenaOp.start = BUF_NONE
  BY DEF NoArenaOp
<1>6. \E P : ArenaInv(blocks', lists', InUse', P)
  <2>1. CASE running.len = 0
    <3>1. blocks' = aside.blocks /\ lists' = aside.free
      BY <1>4, <2>1 DEF ShimReturn
    <3>2. InUse' = InUse
      BY <1>1, <1>5, <2>1 DEF InUse
    <3> QED BY <1>3, <3>1, <3>2
  <2>2. CASE running.len # 0
    <3> DEFINE r == release(aside.blocks, aside.free, running.start, running.len)
    <3>1. blocks' = r.blocks /\ lists' = r.free
      BY <1>4, <2>2 DEF ShimReturn
    <3>2. running \in InUse /\ running \notin live
      BY <2>2 DEF InUse, ArenaIInv, OpsInv
    <3>3. InUse' = InUse \ {running}
      BY <1>1, <1>5, <3>2 DEF InUse
    <3>4. \E P : ArenaInv(r.blocks, r.free, InUse \ {running}, P)
      BY <1>3, <3>2, ReleaseRun
    <3> HIDE DEF r
    <3> QED BY <3>1, <3>3, <3>4
  <2> QED BY <2>1, <2>2
<1>7. OpsInv'
  BY <1>1, <1>5 DEF ArenaIInv, OpsInv
<1> QED BY <1>1, <1>2, <1>6, <1>7 DEF ArenaIInv

\* Every step keeps the invariant.
LEMMA NextInv ==
  ASSUME BufferedInCallback = FALSE, ArenaIInv, [ArenaNext]_arenaVars
  PROVE  ArenaIInv'
<1>1. CASE UNCHANGED arenaVars
  BY <1>1 DEF arenaVars, ArenaIInv, OpsInv, InUse, Arena
<1>2. CASE ArenaNext
  BY <1>2, RegisterInv, RefusedInv, CompleteInv, ReturnInv DEF ArenaNext
<1> QED BY <1>1, <1>2

\* The arena keeps ArenaIInv.
LEMMA ArenaHolds ==
  ASSUME BufferedInCallback = FALSE
  PROVE  ArenaSpec => []ArenaIInv
<1>1. ArenaInit => ArenaIInv
  BY InitInv
<1>2. ArenaIInv /\ [ArenaNext]_arenaVars => ArenaIInv'
  BY NextInv
<1> QED BY <1>1, <1>2, PTL DEF ArenaSpec

-----------------------------------------------------------------------------
(* What following the links finds.                                         *)

\* Distinct block numbers are no more than there are blocks.
LEMMA NotLonger ==
  ASSUME NEW q \in StackOf, NoRepeat(q), NEW n \in Nat, \A i \in 1..Len(q) : q[i] \in 1..n
  PROVE  Len(q) \in Nat /\ Len(q) <= n
<1> DEFINE m == Len(q)
           f == [i \in 1..m |-> q[i]]
<1>1. m \in Nat
  BY DEF StackOf
<1> SUFFICES ASSUME m > n PROVE FALSE
  BY <1>1
<1>2. f \in [1..m -> 1..n] /\ \A i, j \in 1..m : f[i] = f[j] => i = j
  BY DEF NoRepeat
<1> HIDE DEF m, f
<1>3. /\ IsFiniteSet(1..m) /\ Cardinality(1..m) = m
      /\ IsFiniteSet(1..n) /\ Cardinality(1..n) = n
  BY <1>1, FS_Interval
<1>4. \E i, j \in 1..m : i # j /\ f[i] = f[j]
  BY <1>2, <1>3, FS_PigeonHole
<1> QED BY <1>2, <1>4

\* The k-th entry of a stack from the top down.
Down(q, k) == IF k < Len(q) THEN q[Len(q) - k] ELSE BUF_NONE

\* The links in the blocks of a stack.
Threaded(bs, q) == \A i \in 1..Len(q) : bs[q[i]] = Link(Below(q, i))

\* The equation of the recursive function in OnList.
Follows(list, bs, top, n) ==
  list = [k \in 0..n |-> IF k = 0 THEN top
                         ELSE IF list[k - 1] = BUF_NONE THEN BUF_NONE
                         ELSE next_link(bs, list[k - 1])]

\* The links lead from the top of a stack down.
LEMMA DownLinks ==
  ASSUME NEW bs, NEW q \in StackOf, Threaded(bs, q)
  PROVE  /\ Down(q, 0) = Top(q)
         /\ \A k \in Nat : Down(q, k + 1) = IF Down(q, k) = BUF_NONE THEN BUF_NONE
                                            ELSE next_link(bs, Down(q, k))
<1> DEFINE m == Len(q)
<1>1. m \in Nat /\ \A i \in 1..m : q[i] \in Nat \ {0}
  BY DEF StackOf
<1>2. Down(q, 0) = Top(q)
  <2>1. CASE m = 0
    BY <2>1, EmptyStack DEF Top, BUF_NONE, Down
  <2>2. CASE m # 0
    <3>1. q # <<>> /\ 0 < m /\ m - 0 = m
      BY <1>1, <2>2, EmptyStack
    <3> QED BY <3>1 DEF Top, Down
  <2> QED BY <2>1, <2>2
<1>3. ASSUME NEW k \in Nat
      PROVE  Down(q, k + 1) = IF Down(q, k) = BUF_NONE THEN BUF_NONE
                              ELSE next_link(bs, Down(q, k))
  <2>1. CASE k < m
    <3> DEFINE i == m - k
    <3>1. i \in 1..m /\ Down(q, k) = q[i] /\ q[i] # BUF_NONE
      BY <1>1, <2>1 DEF BUF_NONE, Down
    <3>2. next_link(bs, q[i]) = Below(q, i)
      BY <3>1, NextLink DEF Threaded
    <3>3. Below(q, i) = Down(q, k + 1)
      <4>1. CASE i = 1
        <5>1. ~(k + 1 < m)
          BY <1>1, <4>1
        <5> QED BY <4>1, <5>1 DEF Below, Down
      <4>2. CASE i # 1
        <5>1. k + 1 < m /\ m - (k + 1) = i - 1
          BY <1>1, <3>1, <4>2
        <5> QED BY <4>2, <5>1 DEF Below, Down
      <4> QED BY <4>1, <4>2
    <3> HIDE DEF i
    <3> QED BY <3>1, <3>2, <3>3
  <2>2. CASE ~(k < m)
    <3>1. ~(k + 1 < m)
      BY <1>1, <2>2
    <3> QED BY <2>2, <3>1 DEF Down
  <2> QED BY <2>1, <2>2
<1> QED BY <1>2, <1>3

\* The function the recursion defines exists, and reads the stack downwards.
LEMMA ListIsStack ==
  ASSUME NEW bs, NEW q \in StackOf, NEW n \in Nat, Threaded(bs, q)
  PROVE  /\ \E list : Follows(list, bs, Top(q), n)
         /\ \A list : Follows(list, bs, Top(q), n) =>
              DOMAIN list = 0..n /\ \A k \in 0..n : list[k] = Down(q, k)
<1>1. /\ Down(q, 0) = Top(q)
      /\ \A k \in Nat : Down(q, k + 1) = IF Down(q, k) = BUF_NONE THEN BUF_NONE
                                         ELSE next_link(bs, Down(q, k))
  BY DownLinks
<1>2. \E list : Follows(list, bs, Top(q), n)
  <2> DEFINE g == [k \in 0..n |-> Down(q, k)]
             h == [k \in 0..n |-> IF k = 0 THEN Top(q)
                                  ELSE IF g[k - 1] = BUF_NONE THEN BUF_NONE
                                  ELSE next_link(bs, g[k - 1])]
  <2>1. ASSUME NEW k \in 0..n, k # 0
        PROVE  g[k - 1] = Down(q, k - 1) /\ k - 1 \in Nat /\ (k - 1) + 1 = k
    BY <2>1
  <2>2. ASSUME NEW k \in 0..n PROVE g[k] = h[k]
    <3>1. CASE k = 0
      BY <1>1, <3>1
    <3>2. CASE k # 0
      <4>1. Down(q, k) = IF g[k - 1] = BUF_NONE THEN BUF_NONE ELSE next_link(bs, g[k - 1])
        <5> HIDE DEF g
        <5> QED BY <1>1, <2>1, <3>2
      <4> QED BY <3>2, <4>1
    <3> QED BY <3>1, <3>2
  <2>3. g = h
    BY <2>2
  <2>4. Follows(g, bs, Top(q), n)
    BY <2>3 DEF Follows
  <2> QED BY <2>4
<1>3. ASSUME NEW list, Follows(list, bs, Top(q), n)
      PROVE  DOMAIN list = 0..n /\ \A k \in 0..n : list[k] = Down(q, k)
  <2> DEFINE T == {k \in 0..n : list[k] = Down(q, k)}
  <2>1. DOMAIN list = 0..n /\ list[0] = Top(q)
    BY <1>3 DEF Follows
  <2>2. ASSUME NEW k \in 0..n, k < n
        PROVE  list[k + 1] = IF list[k] = BUF_NONE THEN BUF_NONE ELSE next_link(bs, list[k])
    <3>1. k + 1 \in 0..n /\ k + 1 # 0 /\ (k + 1) - 1 = k
      BY <2>2
    <3> QED BY <1>3, <3>1 DEF Follows
  <2>3. 0 \in T
    BY <1>1, <2>1
  <2>4. ASSUME NEW k \in 0..n, k \in T, k < n PROVE k + 1 \in T
    BY <1>1, <2>2, <2>4
  <2>5. \A k \in 0..n : k \in T
    <3> HIDE DEF T
    <3> QED BY <2>3, <2>4, UpTo
  <2> QED BY <2>1, <2>5
<1> QED BY <1>2, <1>3

\* OnList finds exactly the runs on the stack of its class.
LEMMA OnListIs ==
  ASSUME NEW Q, ArenaInv(Arena.blocks, Arena.free, InUse, Q), NEW c \in K
  PROVE  \A x : x \in OnList(c) <=> On(Q[c], x)
<1> DEFINE bs == Arena.blocks
           q == Q[c]
           n == Len(bs)
           m == Len(q)
           list == CHOOSE list : list =
             [k \in 0..n |-> IF k = 0 THEN Top(q)
                             ELSE IF list[k - 1] = BUF_NONE THEN BUF_NONE
                             ELSE next_link(bs, list[k - 1])]
<1>1. /\ q \in StackOf /\ NoRepeat(q) /\ Arena.free[c] = Top(q) /\ n \in Nat
      /\ Threaded(bs, q)
  BY DEF ArenaInv, Stacked, Threaded
<1>2. m \in Nat /\ m <= n
  <2>1. \A i \in 1..m : q[i] \in 1..n
    <3> SUFFICES ASSUME NEW i \in 1..m PROVE q[i] \in 1..n
      OBVIOUS
    <3>1. IsRun(InUse, Q, q[i], c)
      BY DEF IsRun, FreeRun, On
    <3> QED BY <3>1, RunFacts DEF ArenaInv, Tiled
  <2> QED BY <1>1, <2>1, NotLonger
<1>3. OnList(c) = {list[k] : k \in DOMAIN list} \ {BUF_NONE}
  BY <1>1 DEF OnList
<1>4. list = CHOOSE l : Follows(l, bs, Top(q), n)
  BY DEF Follows
<1> HIDE DEF list, bs, n, q
<1>5. DOMAIN list = 0..n /\ \A k \in 0..n : list[k] = Down(q, k)
  <2>1. /\ \E l : Follows(l, bs, Top(q), n)
        /\ \A l : Follows(l, bs, Top(q), n) =>
             DOMAIN l = 0..n /\ \A k \in 0..n : l[k] = Down(q, k)
    BY <1>1, ListIsStack
  <2>2. Follows(list, bs, Top(q), n)
    BY <1>4, <2>1, Zenon
  <2> QED BY <2>1, <2>2
<1>6. \A i \in 1..m : q[i] \in Nat \ {0}
  BY <1>1 DEF StackOf
<1>7. ASSUME NEW k \in 0..n, list[k] # BUF_NONE PROVE On(q, list[k])
  <2>1. k < m /\ list[k] = q[m - k]
    BY <1>5, <1>7 DEF Down
  <2>2. m - k \in 1..m
    BY <1>2, <2>1
  <2> QED BY <2>1, <2>2 DEF On
<1>8. ASSUME NEW i \in 1..m PROVE q[i] # BUF_NONE /\ \E k \in 0..n : list[k] = q[i]
  <2>1. m - i \in 0..n /\ m - i < m /\ m - (m - i) = i
    BY <1>1, <1>2
  <2>2. list[m - i] = q[i]
    BY <1>5, <2>1 DEF Down
  <2> QED BY <1>6, <2>1, <2>2 DEF BUF_NONE
<1>9. ASSUME NEW x PROVE x \in OnList(c) <=> On(q, x)
  <2>1. x \in OnList(c) <=> (\E k \in 0..n : list[k] = x) /\ x # BUF_NONE
    BY <1>3, <1>5
  <2> QED BY <1>7, <1>8, <2>1 DEF On
<1> QED BY <1>9 DEF q

-----------------------------------------------------------------------------
(* The arena: the theorems.                                                *)

\* For every table of classes and any ops, refused ones included, the runs in
\* use and the runs found on the free lists do not meet and make up the arena,
\* as long as callbacks bring no buffers: alloc and release lose no block and
\* give none to two ops.
THEOREM RunsDoTile ==
  ASSUME BufferedInCallback = FALSE
  PROVE  ArenaSpec => []RunsTileArena
<1>1. ArenaIInv => RunsTileArena
  <2> SUFFICES ASSUME ArenaIInv PROVE RunsTileArena
    OBVIOUS
  <2>1. PICK Q : ArenaInv(Arena.blocks, Arena.free, InUse, Q)
    BY DEF ArenaIInv
  <2>2. \A c \in K : \A x : x \in OnList(c) <=> On(Q[c], x)
    BY <2>1, OnListIs
  <2>3. \A s, c : <<s, c>> \in Runs <=> IsRun(InUse, Q, s, c)
    <3> TAKE s, c
    <3>1. <<s, c>> \in {<<op.start, class_for(op.len)>> :
                          op \in {o \in live \union {running} : o.len # 0}}
            <=> UsedRun(InUse, s, c)
      BY DEF UsedRun, InUse
    <3>2. <<s, c>> \in UNION {{<<x, d>> : x \in OnList(d)} : d \in DOMAIN Classes}
            <=> c \in K /\ s \in OnList(c)
      BY DEF K
    <3> QED BY <2>2, <3>1, <3>2 DEF Runs, IsRun, FreeRun
  <2>4. \A r \in Runs : r = <<r[1], r[2]>>
    BY DEF Runs
  <2>5. \A r \in Runs : IsRun(InUse, Q, r[1], r[2])
    BY <2>3, <2>4
  <2>6. \A r, q \in Runs : r # q => Run(r[1], r[2]) \intersect Run(q[1], q[2]) = {}
    <3> SUFFICES ASSUME NEW r \in Runs, NEW q \in Runs, r # q,
                        NEW b, b \in Run(r[1], r[2]), b \in Run(q[1], q[2])
                 PROVE  FALSE
      OBVIOUS
    <3>1. ~(r[1] = q[1] /\ r[2] = q[2])
      BY <2>4
    <3> QED BY <2>1, <2>5, <3>1 DEF ArenaInv, Tiled
  <2>7. UNION {Run(r[1], r[2]) : r \in Runs} = DOMAIN Arena.blocks
    <3>1. DOMAIN Arena.blocks = 1..Len(Arena.blocks)
      BY <2>1 DEF ArenaInv
    <3>2. \A b : b \in 1..Len(Arena.blocks)
                   <=> \E s, c : IsRun(InUse, Q, s, c) /\ b \in Run(s, c)
      BY <2>1 DEF ArenaInv, Tiled
    <3>3. ASSUME NEW b
          PROVE  (\E s, c : IsRun(InUse, Q, s, c) /\ b \in Run(s, c))
                   <=> \E r \in Runs : b \in Run(r[1], r[2])
      <4>1. ASSUME NEW s, NEW c, IsRun(InUse, Q, s, c), b \in Run(s, c)
            PROVE  \E r \in Runs : b \in Run(r[1], r[2])
        <5>1. <<s, c>> \in Runs
          BY <2>3, <4>1
        <5> WITNESS <<s, c>> \in Runs
        <5> QED BY <4>1
      <4> QED BY <2>5, <4>1
    <3>4. \A b : b \in UNION {Run(r[1], r[2]) : r \in Runs}
                   <=> \E r \in Runs : b \in Run(r[1], r[2])
      OBVIOUS
    <3> QED BY <3>1, <3>2, <3>3, <3>4
  <2>8. \A o, p \in live \union {running} : o.len # 0 /\ o.start = p.start => o = p
    <3> SUFFICES ASSUME NEW o \in live \union {running}, NEW p \in live \union {running},
                        o.len # 0, o.start = p.start
                 PROVE  o = p
      OBVIOUS
    <3>1. p.len # 0
      BY DEF ArenaIInv, OpsInv
    <3>2. o \in InUse /\ p \in InUse
      BY <3>1 DEF InUse
    <3> QED BY <2>1, <3>2 DEF ArenaInv, Owned
  <2>9. \A o \in live \union {running} :
          o.len # 0 => \A c \in DOMAIN Classes : o.start \notin OnList(c)
    BY <2>1, <2>2 DEF ArenaInv, Owned, InUse, K
  <2> QED BY <2>6, <2>7, <2>8, <2>9 DEF RunsTileArena
<1> QED BY <1>1, ArenaHolds, PTL

\* Under the same conditions a shim is handed exactly the buffers its op was
\* registered with, and the slice taken for it is always within the arena.
THEOREM BuffersDoComeBack ==
  ASSUME BufferedInCallback = FALSE
  PROVE  ArenaSpec => []BuffersComeBack
<1>1. ArenaIInv => BuffersComeBack
  BY DEF ArenaIInv, BuffersComeBack
<1> QED BY <1>1, ArenaHolds, PTL

-----------------------------------------------------------------------------
(* The log ring: positions.                                                *)

\* The k-th place from s on, counting from 0.
At(s, k) == (s + k) % Cap

Place == 0..(Cap - 1)

LEMMA AtIs ==
  ASSUME NEW s \in Place, NEW k \in 0..Cap
  PROVE  /\ At(s, k) = IF s + k < Cap THEN s + k ELSE (s + k) - Cap
         /\ At(s, k) \in Place
<1>1. s \in Int /\ k \in Int /\ Cap \in Nat \ {0} /\ 0 <= s /\ s < Cap /\ 0 <= k /\ k <= Cap
  BY CapAssumption DEF Place
<1>2. CASE s + k < Cap
  <2>1. (s + k) % Cap = s + k
    BY <1>1, <1>2
  <2> QED BY <1>1, <1>2, <2>1 DEF At, Place
<1>3. CASE ~(s + k < Cap)
  <2>1. (s + k) % Cap = (s + k) - Cap
    BY <1>1, <1>3
  <2> QED BY <1>1, <1>3, <2>1 DEF At, Place
<1> QED BY <1>2, <1>3

\* Going on from a place.
LEMMA AtAt ==
  ASSUME NEW s \in Place, NEW j \in 0..Cap, NEW k \in 0..Cap, j + k <= Cap
  PROVE  At(At(s, j), k) = At(s, j + k)
<1>1. At(s, j) = (IF s + j < Cap THEN s + j ELSE (s + j) - Cap) /\ At(s, j) \in Place
  BY AtIs
<1>2. At(At(s, j), k) = IF At(s, j) + k < Cap THEN At(s, j) + k ELSE (At(s, j) + k) - Cap
  BY <1>1, AtIs
<1>3. j + k \in 0..Cap
  BY CapAssumption
<1>4. At(s, j + k) = IF s + (j + k) < Cap THEN s + (j + k) ELSE (s + (j + k)) - Cap
  BY <1>3, AtIs
<1>5. s \in Int /\ j \in Int /\ k \in Int /\ Cap \in Int /\ At(s, j) \in Int
  BY <1>1, CapAssumption DEF Place
<1> HIDE DEF At
<1> QED BY <1>1, <1>2, <1>4, <1>5, CapAssumption DEF Place

\* Places less than a turn apart differ.
LEMMA AtOnce ==
  ASSUME NEW s \in Place, NEW j \in Place, NEW k \in Place, At(s, j) = At(s, k)
  PROVE  j = k
<1>1. j \in 0..Cap /\ k \in 0..Cap /\ Cap \in Nat /\ s \in Int
  BY CapAssumption DEF Place
<1>2. /\ At(s, j) = IF s + j < Cap THEN s + j ELSE (s + j) - Cap
      /\ At(s, k) = IF s + k < Cap THEN s + k ELSE (s + k) - Cap
  BY <1>1, AtIs
<1>3. s < Cap /\ 0 <= s /\ j \in Int /\ k \in Int /\ 0 <= j /\ j < Cap /\ 0 <= k /\ k < Cap
  BY <1>1 DEF Place
<1>4. (IF s + j < Cap THEN s + j ELSE (s + j) - Cap)
        = (IF s + k < Cap THEN s + k ELSE (s + k) - Cap)
  BY <1>2
<1> QED BY <1>1, <1>3, <1>4

-----------------------------------------------------------------------------
(* The log ring: its invariant.                                            *)

Byte == Nat \X Nat

LEMMA NewlineIsNoByte == \A b \in Byte : b # NL
<1> SUFFICES ASSUME NEW i \in Nat, NEW k \in Nat PROVE <<i, k>> # <<"nl">>
  BY DEF Byte, NL
<1>1. Len(<<i, k>>) = 2 /\ Len(<<"nl">>) = 1
  OBVIOUS
<1> QED BY <1>1

\* What was pushed, as lines and as bytes.
History(ps, out, up) ==
  /\ ps \in Seq(Seq(Byte)) /\ out \in Seq(Byte \cup {NL})
  /\ up \in [0..Len(ps) -> Nat] /\ up[0] = 0 /\ up[Len(ps)] = Len(out)
  /\ \A i \in 1..Len(ps) : up[i] = up[i - 1] + Len(ps[i]) + 1
  /\ \A i, j \in 0..Len(ps) : i <= j => up[j] - up[i] >= j - i
  /\ \A i \in 1..Len(ps) :
       /\ \A m \in 1..Len(ps[i]) : out[up[i - 1] + m] = ps[i][m]
       /\ out[up[i]] = NL

\* From start on, the ring has all bytes after the first o lines, which there
\* was no room for.
Keeps(o) ==
  /\ o \in 0..Len(pushed)
  /\ start \in Place /\ DOMAIN buf = Place
  /\ bytes = Len(output) - upto[o] /\ bytes <= Cap
  /\ end = At(start, bytes)
  /\ \A k \in 0..(bytes - 1) : buf[At(start, k)] = output[upto[o] + k + 1]
  /\ o # 0 => Len(output) - upto[o - 1] > Cap

LogInv ==
  /\ History(pushed, output, upto)
  /\ \E o : Keeps(o)
  /\ broken \in Nat
  /\ broken # 0 => broken > Cap

\* The numbers involved.
LEMMA LogNumbers ==
  ASSUME History(pushed, output, upto), NEW o, Keeps(o)
  PROVE  /\ Cap \in Nat \ {0} /\ Len(pushed) \in Nat /\ Len(output) \in Nat
         /\ o \in Nat /\ o <= Len(pushed) /\ bytes \in Nat /\ bytes \in 0..Cap
         /\ start \in Nat /\ start < Cap /\ end \in Place
         /\ \A i \in 0..Len(pushed) : upto[i] \in Nat
         /\ \A i \in o..Len(pushed) :
              /\ i \in 0..Len(pushed)
              /\ upto[i] - upto[o] \in 0..bytes /\ upto[i] - upto[o] >= i - o
              /\ Len(output) - upto[i] \in 0..bytes /\ Len(output) - upto[i] >= Len(pushed) - i
         /\ Len(pushed) - o <= bytes
<1>1. Cap \in Nat \ {0} /\ Len(pushed) \in Nat /\ Len(output) \in Nat
  BY CapAssumption DEF History
<1>2. o \in Nat /\ o <= Len(pushed) /\ o \in 0..Len(pushed) /\ Len(pushed) \in 0..Len(pushed)
  BY <1>1 DEF Keeps
<1>3. \A i \in 0..Len(pushed) : upto[i] \in Nat
  BY DEF History
<1>4. upto[Len(pushed)] = Len(output)
  BY DEF History
<1>5. Len(output) - upto[o] >= Len(pushed) - o
  BY <1>2, <1>4 DEF History
<1>6. bytes \in Nat /\ bytes \in 0..Cap /\ bytes = Len(output) - upto[o]
  BY <1>1, <1>2, <1>3, <1>5 DEF Keeps
<1>7. start \in Nat /\ start < Cap /\ start \in Place
  BY <1>1 DEF Keeps, Place
<1>8. end \in Place
  BY <1>6, <1>7, AtIs DEF Keeps
<1>9. ASSUME NEW i \in o..Len(pushed)
      PROVE  /\ i \in 0..Len(pushed)
             /\ upto[i] - upto[o] \in 0..bytes /\ upto[i] - upto[o] >= i - o
             /\ Len(output) - upto[i] \in 0..bytes /\ Len(output) - upto[i] >= Len(pushed) - i
  <2>1. i \in 0..Len(pushed) /\ o <= i /\ i <= Len(pushed) /\ i \in Nat
    BY <1>1, <1>2
  <2>2. upto[i] - upto[o] >= i - o
    BY <1>2, <2>1 DEF History
  <2>3. Len(output) - upto[i] >= Len(pushed) - i
    BY <1>2, <1>4, <2>1 DEF History
  <2>4. upto[i] \in Nat /\ upto[o] \in Nat
    BY <1>2, <1>3, <2>1
  <2> DEFINE a == upto[i]
             b == upto[o]
             c == Len(output)
  <2>5. a \in Nat /\ b \in Nat /\ c \in Nat /\ bytes = c - b
    BY <1>1, <1>6, <2>4
  <2>6. a - b >= 0 /\ c - a >= 0
    <3>1. i - o >= 0 /\ Len(pushed) - i >= 0 /\ i - o \in Int /\ Len(pushed) - i \in Int
      BY <1>1, <1>2, <2>1
    <3> HIDE DEF a, b, c
    <3> QED BY <2>2, <2>3, <2>5, <3>1 DEF a, b, c
  <2> HIDE DEF a, b, c
  <2>7. a - b \in 0..bytes /\ c - a \in 0..bytes
    BY <2>5, <2>6
  <2> QED BY <2>1, <2>2, <2>3, <2>7 DEF a, b, c
<1> QED BY <1>1, <1>2, <1>3, <1>5, <1>6, <1>7, <1>8, <1>9

\* Where the line after the i-th begins in the ring.
Begin(o, i) == At(start, upto[i] - upto[o])

\* The ring has that line there, and the scan stops at its end.
LEMMA LineHere ==
  ASSUME History(pushed, output, upto), NEW o, Keeps(o),
         NEW i \in o..(Len(pushed) - 1)
  PROVE  /\ Newlines(Begin(o, i)) # {}
         /\ line_bytes(Begin(o, i)) = Len(pushed[i + 1]) + 1
         /\ line_bytes(Begin(o, i)) = upto[i + 1] - upto[i]
         /\ pushed[i + 1] = [k \in 1..Len(pushed[i + 1]) |-> buf[(Begin(o, i) + k - 1) % Cap]]
<1> DEFINE s == Begin(o, i)
           l == Len(pushed[i + 1])
           d == upto[i] - upto[o]
<1>1. /\ Cap \in Nat \ {0} /\ Len(pushed) \in Nat /\ Len(output) \in Nat /\ o \in Nat
      /\ bytes \in Nat /\ bytes \in 0..Cap /\ start \in Place
      /\ \A j \in 0..Len(pushed) : upto[j] \in Nat
  BY LogNumbers DEF Keeps
<1>2. i \in Nat /\ i + 1 \in 1..Len(pushed) /\ i \in o..Len(pushed) /\ i + 1 \in o..Len(pushed)
      /\ (i + 1) - 1 = i /\ i \in 0..Len(pushed) /\ i + 1 \in 0..Len(pushed)
      /\ o \in 0..Len(pushed)
  BY <1>1 DEF Keeps
<1>3. upto[i + 1] = upto[i] + l + 1
  BY <1>2 DEF History
<1>4. pushed[i + 1] \in Seq(Byte) /\ l \in Nat
  BY <1>2 DEF History
<1>5. d \in 0..bytes /\ upto[i + 1] - upto[o] \in 0..bytes /\ upto[o] \in Nat /\ upto[i] \in Nat
  BY <1>1, <1>2, LogNumbers
<1>6. d \in Nat /\ d + l + 1 <= bytes /\ bytes <= Cap
  BY <1>1, <1>3, <1>4, <1>5
<1>7. s \in Place /\ s = At(start, d) /\ s \in Nat
  <2>1. s = At(start, d)
    BY DEF Begin
  <2>2. d \in 0..Cap
    BY <1>1, <1>5, <1>6
  <2> HIDE DEF s, d
  <2>3. s \in Place
    BY <1>1, <2>1, <2>2, AtIs
  <2> QED BY <1>1, <2>1, <2>3 DEF Place
<1> HIDE DEF s, d, l
<1>8. ASSUME NEW k \in 0..l
      PROVE  /\ buf[(s + k) % Cap] = output[upto[i] + k + 1]
             /\ k \in 0..(Cap - 1)
  <2>1. k \in Nat /\ k <= l
    BY <1>4
  <2>2. d \in 0..Cap /\ k \in 0..Cap /\ d + k <= Cap /\ d + k \in 0..(bytes - 1)
    BY <1>1, <1>4, <1>6, <2>1
  <2>3. At(s, k) = At(start, d + k)
    BY <1>1, <1>7, <2>2, AtAt
  <2>4. buf[At(start, d + k)] = output[upto[o] + (d + k) + 1]
    BY <2>2 DEF Keeps
  <2>5. upto[o] + (d + k) + 1 = upto[i] + k + 1
    BY <1>5, <2>1 DEF d
  <2>6. k \in 0..(Cap - 1)
    BY <1>1, <1>4, <1>6, <2>1
  <2> QED BY <2>3, <2>4, <2>5, <2>6 DEF At
<1>9. buf[(s + l) % Cap] = NL /\ l \in 0..(Cap - 1)
  <2>1. l \in 0..l /\ upto[i] + l + 1 = upto[i + 1]
    BY <1>3, <1>4
  <2>2. output[upto[i + 1]] = NL
    BY <1>2 DEF History
  <2> QED BY <1>8, <2>1, <2>2
<1>10. ASSUME NEW k \in 1..l
       PROVE  buf[(s + k - 1) % Cap] = pushed[i + 1][k]
  <2>1. k \in Nat /\ k - 1 \in 0..l /\ s + k - 1 = s + (k - 1)
    BY <1>4, <1>7
  <2>2. upto[i] + (k - 1) + 1 = upto[i] + k
    BY <1>5, <2>1
  <2>3. output[upto[(i + 1) - 1] + k] = pushed[i + 1][k]
    BY <1>2 DEF History, l
  <2> QED BY <1>2, <1>8, <2>1, <2>2, <2>3
<1>11. \A k \in 0..(l - 1) : buf[(s + k) % Cap] # NL
  <2> SUFFICES ASSUME NEW k \in 0..(l - 1) PROVE buf[(s + k) % Cap] # NL
    OBVIOUS
  <2>1. k + 1 \in 1..l /\ s + (k + 1) - 1 = s + k
    BY <1>4, <1>7
  <2>2. pushed[i + 1][k + 1] \in Byte
    BY <1>4, <2>1 DEF l
  <2> QED BY <1>10, <2>1, <2>2, NewlineIsNoByte
<1>12. Newlines(s) # {} /\ line_bytes(s) = l + 1
  <2> DEFINE S == Newlines(s)
  <2>1. l \in S
    BY <1>9 DEF Newlines
  <2>2. \A y \in S : l =< y
    <3> SUFFICES ASSUME NEW y \in S, ~(l =< y) PROVE FALSE
      OBVIOUS
    <3>1. y \in 0..(Cap - 1) /\ buf[(s + y) % Cap] = NL
      BY DEF Newlines
    <3>2. y \in 0..(l - 1)
      BY <1>1, <1>4, <3>1
    <3> QED BY <1>11, <3>1, <3>2
  <2>3. S \subseteq Nat
    BY <1>1 DEF Newlines
  <2> HIDE DEF S
  <2>4. Min(S) = l
    <3>1. \A x \in S : (\A y \in S : x =< y) => x = l
      BY <1>4, <2>1, <2>2, <2>3
    <3> QED BY <2>1, <2>2, <3>1 DEF Min
  <2> QED BY <2>1, <2>4 DEF S, line_bytes
<1>13. pushed[i + 1] = [k \in 1..l |-> buf[(s + k - 1) % Cap]]
  <2>1. pushed[i + 1] = [k \in 1..l |-> pushed[i + 1][k]]
    BY <1>4 DEF l
  <2> QED BY <1>10, <2>1
<1>14. l + 1 = upto[i + 1] - upto[i]
  BY <1>3, <1>4, <1>5
<1> QED BY <1>12, <1>13, <1>14 DEF s, l

-----------------------------------------------------------------------------
(* The log ring: cutting lines off.                                        *)

NextCut(e) ==
  IF Newlines(e.start) = {} THEN e
  ELSE [start |-> (e.start + line_bytes(e.start)) % Cap,
        bytes |-> e.bytes - line_bytes(e.start)]

\* f is as Cut's local function is defined, up to k.
CutsTo(f, k) ==
  f = [n \in 0..k |-> IF n = 0 THEN [start |-> start, bytes |-> bytes] ELSE NextCut(f[n - 1])]

\* There is such a function, one value after the other.
LEMMA CutIs == CutsTo(Cut, Cap)
<1> DEFINE T == {k \in 0..Cap : \E f : CutsTo(f, k)}
           first == [start |-> start, bytes |-> bytes]
<1>0. Cap \in Nat
  BY CapAssumption
<1>1. 0 \in T
  <2> DEFINE e == [n \in 0..0 |-> first]
             h == [n \in 0..0 |-> IF n = 0 THEN first ELSE NextCut(e[n - 1])]
  <2>1. \A n \in 0..0 : n = 0
    OBVIOUS
  <2>2. e = h
    BY <2>1
  <2>3. CutsTo(e, 0)
    BY <2>2 DEF CutsTo
  <2> QED BY <1>0, <2>3
<1>2. ASSUME NEW k \in 0..Cap, k \in T, k < Cap PROVE k + 1 \in T
  <2>1. PICK f : CutsTo(f, k)
    BY <1>2
  <2> DEFINE g == [n \in 0..(k + 1) |-> IF n = k + 1 THEN NextCut(f[k]) ELSE f[n]]
             h == [n \in 0..(k + 1) |-> IF n = 0 THEN first ELSE NextCut(g[n - 1])]
  <2>2. ASSUME NEW n \in 0..(k + 1) PROVE g[n] = h[n]
    <3>1. CASE n = k + 1
      <4>1. n # 0 /\ n - 1 = k /\ k \in 0..(k + 1) /\ k # k + 1
        BY <1>0, <3>1
      <4>2. g[k] = f[k] /\ g[n] = NextCut(f[k])
        BY <3>1, <4>1
      <4>3. h[n] = NextCut(g[k])
        BY <4>1
      <4> HIDE DEF g, h
      <4> QED BY <4>2, <4>3
    <3>2. CASE n # k + 1
      <4>1. n \in 0..k /\ k \in Nat
        BY <1>0, <3>2
      <4>2. g[n] = f[n]
        BY <3>2
      <4>3. f[n] = IF n = 0 THEN first ELSE NextCut(f[n - 1])
        BY <2>1, <4>1 DEF CutsTo
      <4>4. n # 0 => n - 1 \in 0..(k + 1) /\ n - 1 # k + 1
        BY <4>1
      <4>5. n # 0 => g[n - 1] = f[n - 1]
        BY <4>4
      <4>6. h[n] = IF n = 0 THEN first ELSE NextCut(g[n - 1])
        OBVIOUS
      <4> HIDE DEF g, h, first
      <4> QED BY <4>2, <4>3, <4>5, <4>6
    <3> QED BY <3>1, <3>2
  <2>3. g = h
    BY <2>2
  <2>4. CutsTo(g, k + 1)
    BY <2>3 DEF CutsTo
  <2>5. k + 1 \in 0..Cap
    BY <1>0, <1>2
  <2> QED BY <2>4, <2>5
<1>3. Cap \in 0..Cap
  BY <1>0
<1> HIDE DEF T
<1>4. Cap \in T
  BY <1>0, <1>1, <1>2, <1>3, UpTo
<1>5. \E f : CutsTo(f, Cap)
  BY <1>4 DEF T
<1>6. Cut = CHOOSE f : CutsTo(f, Cap)
  BY DEF Cut, CutsTo, NextCut
<1> QED BY <1>5, <1>6, Zenon

\* Its values: line after line, down to the empty ring.
LEMMA CutAt ==
  ASSUME History(pushed, output, upto), NEW o, Keeps(o)
  PROVE  \A j \in 0..(Len(pushed) - o) :
           /\ j \in 0..Cap
           /\ Cut[j].start = Begin(o, o + j) /\ Cut[j].bytes = Len(output) - upto[o + j]
<1> DEFINE n == Len(pushed) - o
           Good(j) == Cut[j].start = Begin(o, o + j)
                      /\ Cut[j].bytes = Len(output) - upto[o + j]
           T == {j \in 0..n : Good(j)}
<1>1. /\ Cap \in Nat \ {0} /\ Len(pushed) \in Nat /\ Len(output) \in Nat /\ o \in Nat
      /\ o <= Len(pushed) /\ n <= bytes /\ bytes \in 0..Cap /\ start \in Place
      /\ \A i \in 0..Len(pushed) : upto[i] \in Nat
  BY LogNumbers DEF Keeps
<1>2. n \in Nat /\ n <= Cap
  BY <1>1
<1>3. 0 \in T
  <2>1. Cut[0] = [start |-> start, bytes |-> bytes]
    BY <1>1, CutIs DEF CutsTo
  <2>2. o + 0 = o /\ upto[o] \in Nat /\ upto[o] - upto[o] = 0 /\ 0 \in 0..Cap
    BY <1>1
  <2>3. Begin(o, o) = start
    <3>1. At(start, 0) = IF start + 0 < Cap THEN start + 0 ELSE (start + 0) - Cap
      BY <1>1, <2>2, AtIs
    <3>2. start \in Nat /\ start < Cap
      BY <1>1, LogNumbers
    <3> QED BY <2>2, <3>1, <3>2 DEF Begin
  <2> QED BY <1>2, <2>1, <2>2, <2>3 DEF Keeps
<1>4. ASSUME NEW j \in 0..n, j \in T, j < n PROVE j + 1 \in T
  <2> DEFINE i == o + j
             s == Begin(o, i)
             l == line_bytes(s)
  <2>1. /\ j \in Nat /\ i \in o..(Len(pushed) - 1) /\ i \in o..Len(pushed)
        /\ i + 1 \in o..Len(pushed) /\ o + (j + 1) = i + 1
        /\ j + 1 \in 0..n /\ j + 1 \in 0..Cap /\ (j + 1) - 1 = j /\ j + 1 # 0
        /\ i \in 0..Len(pushed) /\ i + 1 \in 0..Len(pushed) /\ i <= i + 1 /\ i \in Nat
    <3>1. j \in Nat /\ j <= n /\ j < n
      BY <1>2, <1>4
    <3>2. o + n = Len(pushed)
      BY <1>1
    <3> HIDE DEF n, T
    <3> QED BY <1>1, <1>2, <3>1, <3>2
  <2>2. Cut[j].start = s /\ Cut[j].bytes = Len(output) - upto[i]
    BY <1>4
  <2>3. Newlines(s) # {} /\ l = upto[i + 1] - upto[i]
    BY <2>1, LineHere
  <2>4. Cut[j + 1] = NextCut(Cut[j])
    BY <2>1, CutIs DEF CutsTo
  <2>5. NextCut(Cut[j]) = [start |-> (s + l) % Cap, bytes |-> (Len(output) - upto[i]) - l]
    BY <2>2, <2>3 DEF NextCut
  <2> HIDE DEF s, l, i
  <2>6. upto[i] \in Nat /\ upto[i + 1] \in Nat /\ upto[o] \in Nat
    BY <1>1, <2>1
  <2>7. /\ upto[i] - upto[o] \in 0..bytes /\ upto[i + 1] - upto[o] \in 0..bytes
        /\ upto[i + 1] >= upto[i]
    <3>1. upto[i + 1] - upto[i] >= (i + 1) - i
      <4>1. \A x, y \in 0..Len(pushed) : x <= y => upto[y] - upto[x] >= y - x
        BY DEF History
      <4> QED BY <2>1, <4>1
    <3>2. (i + 1) - i = 1
      BY <1>1, <2>1
    <3>3. upto[i + 1] >= upto[i]
      BY <2>6, <3>1, <3>2
    <3> QED BY <2>1, <3>3, LogNumbers
  <2>8. (s + l) % Cap = Begin(o, i + 1)
    <3> DEFINE d == upto[i] - upto[o]
    <3>1. d \in 0..Cap /\ l \in 0..Cap /\ d + l <= Cap /\ d + l = upto[i + 1] - upto[o]
      <4>1. d \in 0..bytes /\ d + l = upto[i + 1] - upto[o] /\ l \in Nat
        BY <2>3, <2>6, <2>7
      <4>2. d + l \in 0..bytes /\ bytes \in Nat /\ bytes <= Cap
        BY <1>1, <2>7, <4>1
      <4> HIDE DEF d
      <4> QED BY <1>1, <4>1, <4>2
    <3>2. s = At(start, d)
      BY DEF Begin, s
    <3> HIDE DEF d
    <3>3. At(s, l) = At(start, d + l)
      BY <1>1, <3>1, <3>2, AtAt
    <3> QED BY <3>1, <3>3 DEF Begin, At
  <2>9. (Len(output) - upto[i]) - l = Len(output) - upto[i + 1]
    BY <1>1, <2>3, <2>6
  <2> QED BY <2>1, <2>4, <2>5, <2>8, <2>9
<1> HIDE DEF T
<1>5. \A j \in 0..n : j \in T
  BY <1>2, <1>3, <1>4, UpTo
<1>6. \A j \in 0..n : Good(j)
  <2> HIDE DEF Good
  <2> QED BY <1>5 DEF T
<1>7. \A j \in 0..n : j \in 0..Cap
  BY <1>1, <1>2
<1> QED BY <1>6, <1>7

-----------------------------------------------------------------------------
(* The log ring: its readers.                                              *)

\* The first line kept.
LEMMA OldestIs ==
  ASSUME History(pushed, output, upto), NEW o, Keeps(o)
  PROVE  Oldest = o
<1> DEFINE S == {n \in 0..Len(pushed) : Len(output) - upto[n] <= Cap}
<1>1. /\ Cap \in Nat /\ Len(pushed) \in Nat /\ Len(output) \in Nat /\ o \in Nat
      /\ bytes \in Nat /\ \A i \in 0..Len(pushed) : upto[i] \in Nat
  BY LogNumbers
<1>2. o \in S
  BY DEF Keeps
<1>3. ASSUME NEW n \in S PROVE o =< n
  <2> SUFFICES ASSUME ~(o =< n) PROVE FALSE
    OBVIOUS
  <2>1. n \in 0..Len(pushed) /\ Len(output) - upto[n] <= Cap
    OBVIOUS
  <2>2. o - 1 \in 0..Len(pushed) /\ n <= o - 1 /\ o # 0
    BY <1>1, <2>1 DEF Keeps
  <2>3. upto[o - 1] - upto[n] >= (o - 1) - n
    BY <2>1, <2>2 DEF History
  <2>4. Len(output) - upto[o - 1] > Cap
    BY <2>2 DEF Keeps
  <2>5. upto[n] \in Nat /\ upto[o - 1] \in Nat /\ (o - 1) - n >= 0 /\ (o - 1) - n \in Int
    BY <1>1, <2>1, <2>2
  <2> QED BY <1>1, <2>1, <2>3, <2>4, <2>5
<1>4. S \subseteq Nat
  BY <1>1
<1> HIDE DEF S
<1>5. Min(S) = o
  <2>1. \A x \in S : (\A y \in S : x =< y) => x = o
    BY <1>1, <1>2, <1>3, <1>4
  <2> QED BY <1>2, <1>3, <2>1 DEF Min
<1> QED BY <1>5 DEF S, Oldest

\* collect_lines cuts at the newlines of the lines kept.
LEMMA CollectsThem ==
  ASSUME History(pushed, output, upto), NEW o, Keeps(o)
  PROVE  collect_lines = SubSeq(pushed, o + 1, Len(pushed))
<1> DEFINE n == Len(pushed) - o
           S == {m \in 0..Cap : Cut[m].bytes = 0}
<1>1. /\ Cap \in Nat \ {0} /\ Len(pushed) \in Nat /\ Len(output) \in Nat /\ o \in Nat
      /\ o <= Len(pushed)
      /\ \A i \in 0..Len(pushed) : upto[i] \in Nat
  BY LogNumbers
<1>2. n \in Nat /\ n \in 0..n /\ o + n = Len(pushed)
  BY <1>1
<1>3. \A j \in 0..n : /\ j \in 0..Cap
                      /\ Cut[j].start = Begin(o, o + j)
                      /\ Cut[j].bytes = Len(output) - upto[o + j]
  BY CutAt
<1>4. n \in S
  <2>1. upto[Len(pushed)] = Len(output)
    BY DEF History
  <2> QED BY <1>1, <1>2, <1>3, <2>1
<1>5. ASSUME NEW m \in S PROVE n =< m
  <2> SUFFICES ASSUME ~(n =< m) PROVE FALSE
    OBVIOUS
  <2>1. m \in 0..n /\ m < n /\ o + m \in o..Len(pushed)
    BY <1>1, <1>2
  <2>2. Len(output) - upto[o + m] = 0
    BY <1>3, <2>1
  <2>3. Len(output) - upto[o + m] >= Len(pushed) - (o + m)
    BY <2>1, LogNumbers
  <2> QED BY <1>1, <1>2, <2>1, <2>2, <2>3
<1>6. S \subseteq Nat
  BY <1>1
<1> HIDE DEF S
<1>7. Min(S) = n
  <2>1. \A x \in S : (\A y \in S : x =< y) => x = n
    BY <1>2, <1>4, <1>5, <1>6
  <2> QED BY <1>4, <1>5, <2>1 DEF Min
<1> DEFINE Cutting(j) == [k \in 1..(line_bytes(Cut[j - 1].start) - 1) |->
                            buf[(Cut[j - 1].start + k - 1) % Cap]]
<1>8. collect_lines = [j \in 1..n |-> Cutting(j)]
  BY <1>7 DEF collect_lines, S
<1>9. ASSUME NEW j \in 1..n PROVE Cutting(j) = pushed[o + j]
  <2> DEFINE i == o + (j - 1)
  <2>1. j - 1 \in 0..n /\ i \in o..(Len(pushed) - 1) /\ i + 1 = o + j
        /\ i + 1 \in 1..Len(pushed)
    BY <1>1, <1>2
  <2>2. Cut[j - 1].start = Begin(o, i)
    BY <1>3, <2>1
  <2>3. /\ line_bytes(Begin(o, i)) = Len(pushed[i + 1]) + 1
        /\ pushed[i + 1] = [k \in 1..Len(pushed[i + 1]) |-> buf[(Begin(o, i) + k - 1) % Cap]]
    BY <2>1, LineHere
  <2>4. Len(pushed[i + 1]) \in Nat
    BY <2>1 DEF History
  <2>5. line_bytes(Begin(o, i)) - 1 = Len(pushed[i + 1])
    BY <2>3, <2>4
  <2> QED BY <2>1, <2>2, <2>3, <2>5
<1> HIDE DEF Cutting
<1>10. SubSeq(pushed, o + 1, Len(pushed)) = [j \in 1..n |-> pushed[o + j]]
  <2>1. pushed \in Seq(Seq(Byte))
    BY DEF History
  <2>2. Len(pushed) - (o + 1) + 1 = n
    BY <1>1
  <2>3. \A j \in 1..n : j + (o + 1) - 1 = o + j
    BY <1>1
  <2>4. SubSeq(pushed, o + 1, Len(pushed))
          = [j \in 1..(Len(pushed) - (o + 1) + 1) |-> pushed[j + (o + 1) - 1]]
    BY <1>1, <2>1
  <2> QED BY <2>2, <2>3, <2>4
<1> QED BY <1>8, <1>9, <1>10

\* snapshot has the bytes from start to end, around the end of the buffer if
\* they go there.
LEMMA SnapshotIs ==
  ASSUME History(pushed, output, upto), NEW o, Keeps(o)
  PROVE  snapshot = [k \in 1..bytes |-> buf[At(start, k - 1)]]
<1> DEFINE f == [k \in 1..bytes |-> buf[At(start, k - 1)]]
<1>1. /\ Cap \in Nat \ {0} /\ bytes \in Nat /\ bytes \in 0..Cap /\ start \in Nat
      /\ start < Cap /\ start \in Place /\ bytes <= Cap
  BY LogNumbers DEF Keeps
<1>2. end = IF start + bytes < Cap THEN start + bytes ELSE (start + bytes) - Cap
  BY <1>1, AtIs DEF Keeps
<1>3. \A k \in 1..bytes : At(start, k - 1) = IF start + (k - 1) < Cap THEN start + (k - 1)
                                             ELSE (start + (k - 1)) - Cap
  <2> TAKE k \in 1..bytes
  <2>1. k - 1 \in 0..Cap
    BY <1>1
  <2> QED BY <1>1, <2>1, AtIs
<1>4. CASE bytes = 0
  BY <1>4 DEF snapshot
<1>5. CASE bytes # 0 /\ start + bytes < Cap
  <2>1. end = start + bytes /\ end > start /\ end - start = bytes
    BY <1>1, <1>2, <1>5
  <2>2. \A k \in 1..bytes : At(start, k - 1) = start + k - 1
    BY <1>1, <1>3, <1>5
  <2>3. Slice(start, end) = f
    BY <2>1, <2>2 DEF Slice
  <2> QED BY <1>5, <2>1, <2>3 DEF snapshot
<1>6. CASE bytes # 0 /\ ~(start + bytes < Cap)
  <2> DEFINE a == Slice(start, Cap)
             b == Slice(0, end)
             c == Cap - start
  <2>1. end = bytes - c /\ ~(end > start) /\ end \in Nat /\ c \in Nat /\ c + end = bytes
    BY <1>1, <1>2, <1>6
  <2>2. Len(a) = c /\ Len(b) = end /\ end - 0 = end
    BY <2>1 DEF Slice
  <2>3. a \o b = [k \in 1..bytes |-> IF k <= c THEN a[k] ELSE b[k - c]]
    <3>1. a \o b = [k \in 1..(Len(a) + Len(b)) |-> IF k <= Len(a) THEN a[k] ELSE b[k - Len(a)]]
      <4> DEFINE V == {buf[i] : i \in Place}
      <4>1. \A k \in 1..c : start + k - 1 \in Place
        BY <1>1 DEF Place
      <4>2. \A k \in 1..end : 0 + k - 1 \in Place
        BY <1>1, <1>2, <1>6 DEF Place
      <4>3. a \in Seq(V) /\ b \in Seq(V)
        BY <2>1, <2>2, <4>1, <4>2 DEF Slice
      <4> HIDE DEF a, b, V
      <4>4. /\ a \o b \in Seq(V) /\ Len(a \o b) = Len(a) + Len(b)
            /\ \A k \in 1..(Len(a) + Len(b)) :
                 (a \o b)[k] = IF k <= Len(a) THEN a[k] ELSE b[k - Len(a)]
        BY <4>3, ConcatProperties
      <4>5. \A x \in Seq(V) : x = [k \in 1..Len(x) |-> x[k]]
        OBVIOUS
      <4>6. a \o b = [k \in 1..Len(a \o b) |-> (a \o b)[k]]
        BY <4>4, <4>5
      <4> QED BY <4>4, <4>6
    <3> HIDE DEF a, b, c
    <3> QED BY <2>1, <2>2, <3>1
  <2>4. ASSUME NEW k \in 1..bytes
        PROVE  (IF k <= c THEN a[k] ELSE b[k - c]) = buf[At(start, k - 1)]
    <3>1. CASE k <= c
      <4>1. k \in 1..c /\ At(start, k - 1) = start + k - 1
        BY <1>1, <1>3, <2>1, <3>1
      <4>2. a[k] = buf[start + k - 1]
        BY <4>1 DEF Slice
      <4> QED BY <3>1, <4>1, <4>2
    <3>2. CASE ~(k <= c)
      <4>1. k - c \in 1..end /\ At(start, k - 1) = 0 + (k - c) - 1
        BY <1>1, <1>3, <2>1, <3>2
      <4>2. b[k - c] = buf[0 + (k - c) - 1]
        BY <2>2, <4>1 DEF Slice
      <4> QED BY <3>2, <4>1, <4>2
    <3> QED BY <3>1, <3>2
  <2>5. a \o b = f
    <3> HIDE DEF a, b, c
    <3> QED BY <2>3, <2>4
  <2> QED BY <1>6, <2>1, <2>5 DEF snapshot
<1> QED BY <1>4, <1>5, <1>6

LEMMA SnapshotsThem ==
  ASSUME History(pushed, output, upto), NEW o, Keeps(o)
  PROVE  snapshot = SubSeq(output, upto[o] + 1, Len(output))
<1> DEFINE u == upto[o]
<1>1. /\ Len(output) \in Nat /\ bytes \in Nat /\ u \in Nat
  BY LogNumbers DEF Keeps
<1>2. bytes = Len(output) - u
  BY DEF Keeps
<1>3. output \in Seq(Byte \cup {NL})
  BY DEF History
<1>4. ASSUME NEW k \in 1..bytes PROVE buf[At(start, k - 1)] = output[k + (u + 1) - 1]
  <2>1. k - 1 \in 0..(bytes - 1) /\ u + (k - 1) + 1 = k + (u + 1) - 1
    BY <1>1
  <2> QED BY <2>1 DEF Keeps
<1> HIDE DEF u
<1>5. SubSeq(output, u + 1, Len(output)) = [k \in 1..bytes |-> output[k + (u + 1) - 1]]
  <2>1. Len(output) - (u + 1) + 1 = bytes
    BY <1>1, <1>2
  <2>2. SubSeq(output, u + 1, Len(output))
          = [k \in 1..(Len(output) - (u + 1) + 1) |-> output[k + (u + 1) - 1]]
    BY <1>1, <1>3
  <2> QED BY <2>1, <2>2
<1>6. snapshot = [k \in 1..bytes |-> buf[At(start, k - 1)]]
  BY SnapshotIs
<1> QED BY <1>4, <1>5, <1>6 DEF u

-----------------------------------------------------------------------------
(* The log ring: push.                                                     *)

\* The bytes left are a number, also past the empty ring.
LEMMA CutBytes ==
  ASSUME bytes \in Int
  PROVE  \A k \in 0..Cap : Cut[k].bytes \in Int
<1> DEFINE T == {k \in 0..Cap : Cut[k].bytes \in Int}
<1>0. Cap \in Nat
  BY CapAssumption
<1>1. 0 \in T
  <2>1. Cut[0] = [start |-> start, bytes |-> bytes]
    BY <1>0, CutIs DEF CutsTo
  <2> QED BY <1>0, <2>1
<1>2. ASSUME NEW k \in 0..Cap, k \in T, k < Cap PROVE k + 1 \in T
  <2> DEFINE e == Cut[k]
  <2>1. k + 1 \in 0..Cap /\ (k + 1) - 1 = k /\ k + 1 # 0
    BY <1>0, <1>2
  <2>2. Cut[k + 1] = NextCut(e)
    BY <2>1, CutIs DEF CutsTo
  <2>3. e.bytes \in Int
    BY <1>2
  <2> HIDE DEF e
  <2>4. CASE Newlines(e.start) = {}
    BY <2>1, <2>2, <2>3, <2>4 DEF NextCut
  <2>5. CASE Newlines(e.start) # {}
    <3> DEFINE S == Newlines(e.start)
    <3>1. S \subseteq Nat
      BY <1>0 DEF Newlines
    <3>2. \E x \in S : \A y \in S : x <= y
      <4> HIDE DEF S
      <4> QED BY <2>5, <3>1, LeastOf DEF S
    <3>3. Min(S) \in Nat
      <4> HIDE DEF S
      <4> QED BY <3>1, <3>2 DEF Min
    <3>4. NextCut(e).bytes = e.bytes - line_bytes(e.start)
      BY <2>5 DEF NextCut
    <3>5. line_bytes(e.start) \in Int
      BY <3>3 DEF line_bytes
    <3> HIDE DEF S
    <3> QED BY <2>1, <2>2, <2>3, <3>4, <3>5
  <2> QED BY <2>4, <2>5
<1> HIDE DEF T
<1>3. \A k \in 0..Cap : k \in T
  BY <1>0, <1>1, <1>2, UpTo
<1> QED BY <1>3 DEF T

\* Which numbers of dropped lines make room; and that some do for any line
\* the ring can hold.
LEMMA DropsAre ==
  ASSUME History(pushed, output, upto), NEW o, Keeps(o), NEW need \in Nat \ {0}
  PROVE  /\ \A j \in 0..(Len(pushed) - o) :
              j \in Drops(need) <=> (Len(output) - upto[o + j]) + need <= Cap
         /\ Drops(need) # {} <=> need <= Cap
         /\ need <= Cap => Len(pushed) - o \in Drops(need)
<1> DEFINE n == Len(pushed) - o
<1>1. /\ Cap \in Nat \ {0} /\ Len(pushed) \in Nat /\ Len(output) \in Nat /\ o \in Nat
      /\ o <= Len(pushed) /\ bytes \in Nat
      /\ \A i \in 0..Len(pushed) : upto[i] \in Nat
  BY LogNumbers
<1>2. n \in Nat /\ n \in 0..n /\ o + n = Len(pushed)
  BY <1>1
<1>3. ASSUME NEW j \in 0..n
      PROVE  j \in Drops(need) <=> (Len(output) - upto[o + j]) + need <= Cap
  <2> DEFINE b == Len(output) - upto[o + j]
  <2>1. j \in 0..Cap /\ Cut[j].bytes = b
    BY CutAt
  <2>2. o + j \in o..Len(pushed)
    BY <1>1, <1>2
  <2>3. b \in Nat
    BY <1>1, <2>2, LogNumbers
  <2> HIDE DEF b
  <2>4. j \in Drops(need) <=> b >= 0 /\ Cap - b >= need
    BY <2>1 DEF Drops
  <2>5. b >= 0 /\ (Cap - b >= need <=> b + need <= Cap)
    BY <1>1, <2>3
  <2> QED BY <2>4, <2>5 DEF b
<1>4. need <= Cap => n \in Drops(need)
  <2>1. upto[Len(pushed)] = Len(output)
    BY DEF History
  <2>2. (Len(output) - upto[o + n]) + need = need
    BY <1>1, <1>2, <2>1
  <2> QED BY <1>2, <1>3, <2>2
<1>5. Drops(need) # {} => need <= Cap
  <2> SUFFICES ASSUME NEW k \in Drops(need) PROVE need <= Cap
    OBVIOUS
  <2>1. k \in 0..Cap /\ Cut[k].bytes >= 0 /\ Cap - Cut[k].bytes >= need
    BY DEF Drops
  <2>2. bytes \in Int
    BY <1>1
  <2>3. Cut[k].bytes \in Int
    BY <2>1, <2>2, CutBytes
  <2> QED BY <1>1, <2>1, <2>3
<1> QED BY <1>3, <1>4, <1>5

\* The buffer old with the bytes of a text written from place e on.
Fill(old, e, need, text) ==
  [i \in Place |-> IF \E k \in 1..need : i = (e + k - 1) % Cap
                   THEN text[CHOOSE k \in 1..need : i = (e + k - 1) % Cap]
                   ELSE old[i]]

LEMMA Written ==
  ASSUME NEW e \in Place, NEW need \in 1..Cap, NEW text, NEW old, NEW new,
         new = Fill(old, e, need, text)
  PROVE  /\ \A k \in 1..need : new[At(e, k - 1)] = text[k]
         /\ \A i \in Place : (\A k \in 1..need : i # At(e, k - 1)) => new[i] = old[i]
<1>1. ASSUME NEW k \in 1..need
      PROVE  /\ (e + k - 1) % Cap = At(e, k - 1) /\ k - 1 \in Place /\ At(e, k - 1) \in Place
  <2>1. k - 1 \in Place /\ k - 1 \in 0..Cap /\ e + k - 1 = e + (k - 1)
    BY CapAssumption DEF Place
  <2> QED BY <2>1, AtIs DEF At
<1>2. ASSUME NEW k \in 1..need PROVE new[At(e, k - 1)] = text[k]
  <2> DEFINE i == At(e, k - 1)
  <2>1. i \in Place /\ i = (e + k - 1) % Cap
    BY <1>1
  <2>2. ASSUME NEW l \in 1..need, i = (e + l - 1) % Cap PROVE l = k
    <3>1. At(e, l - 1) = At(e, k - 1) /\ l - 1 \in Place /\ k - 1 \in Place
      BY <1>1, <2>2
    <3>2. l - 1 = k - 1
      BY <3>1, AtOnce
    <3> QED BY <3>2, CapAssumption
  <2> HIDE DEF i
  <2>3. (CHOOSE l \in 1..need : i = (e + l - 1) % Cap) = k
    BY <2>1, <2>2
  <2>4. new[i] = text[CHOOSE l \in 1..need : i = (e + l - 1) % Cap]
    BY <2>1 DEF Fill
  <2> QED BY <2>3, <2>4 DEF i
<1>3. ASSUME NEW i \in Place, \A k \in 1..need : i # At(e, k - 1) PROVE new[i] = old[i]
  <2>1. ~ \E k \in 1..need : i = (e + k - 1) % Cap
    BY <1>1, <1>3
  <2> QED BY <2>1 DEF Fill
<1> QED BY <1>2, <1>3

\* The history with one more line.
Marks(ps, out, up, line) ==
  [n \in 0..(Len(ps) + 1) |-> IF n \in DOMAIN up THEN up[n] ELSE Len(out) + (Len(line) + 1)]

Lengthened(ps, out, up, line, qs, out2, up2) ==
  /\ History(qs, out2, up2)
  /\ Len(qs) = Len(ps) + 1
  /\ Len(out2) = Len(out) + (Len(line) + 1)
  /\ \A k \in 1..Len(out) : out2[k] = out[k]
  /\ \A k \in 1..(Len(line) + 1) : out2[Len(out) + k] = Append(line, NL)[k]
  /\ \A i \in 0..Len(ps) : up2[i] = up[i]

LEMMA HistoryGrows ==
  ASSUME NEW ps, NEW out, NEW up, History(ps, out, up), NEW line \in Seq(Byte),
         NEW text, text = Append(line, NL), NEW out2, out2 = out \o text,
         NEW up2, up2 = Marks(ps, out, up, line)
  PROVE  Lengthened(ps, out, up, line, Append(ps, line), out2, up2)
<1> DEFINE N == Len(ps)
           qs == Append(ps, line)
<1>1. /\ N \in Nat /\ Len(out) \in Nat /\ Len(line) \in Nat
      /\ ps \in Seq(Seq(Byte)) /\ out \in Seq(Byte \cup {NL})
      /\ up \in [0..N -> Nat] /\ up[N] = Len(out) /\ up[0] = 0
  BY DEF History
<1>2. /\ qs \in Seq(Seq(Byte)) /\ Len(qs) = N + 1 /\ qs[N + 1] = line
      /\ \A i \in 1..N : qs[i] = ps[i]
  BY <1>1
<1>3. /\ text \in Seq(Byte \cup {NL}) /\ Len(text) = Len(line) + 1
      /\ text[Len(line) + 1] = NL /\ \A m \in 1..Len(line) : text[m] = line[m]
  <2>1. line \in Seq(Byte \cup {NL})
    OBVIOUS
  <2> QED BY <2>1
<1>4. /\ out2 \in Seq(Byte \cup {NL}) /\ Len(out2) = Len(out) + (Len(line) + 1)
      /\ \A k \in 1..Len(out) : out2[k] = out[k]
      /\ \A k \in 1..(Len(line) + 1) : out2[Len(out) + k] = text[k]
  <2>1. /\ out2 \in Seq(Byte \cup {NL}) /\ Len(out2) = Len(out) + Len(text)
        /\ \A k \in 1..(Len(out) + Len(text)) :
             out2[k] = IF k <= Len(out) THEN out[k] ELSE text[k - Len(out)]
    <3> DEFINE V == Byte \cup {NL}
    <3>1. out2 = out \o text /\ out \in Seq(V) /\ text \in Seq(V)
      BY <1>1, <1>3
    <3> HIDE DEF V
    <3>2. /\ out2 \in Seq(V) /\ Len(out2) = Len(out) + Len(text)
          /\ \A k \in 1..(Len(out) + Len(text)) :
               out2[k] = IF k <= Len(out) THEN out[k] ELSE text[k - Len(out)]
      BY <3>1, ConcatProperties
    <3> QED BY <3>2 DEF V
  <2>2. \A k \in 1..Len(out) : k \in 1..(Len(out) + Len(text)) /\ k <= Len(out)
    BY <1>1, <1>3
  <2>3. \A k \in 1..(Len(line) + 1) : /\ Len(out) + k \in 1..(Len(out) + Len(text))
                                      /\ ~(Len(out) + k <= Len(out))
                                      /\ (Len(out) + k) - Len(out) = k
    BY <1>1, <1>3
  <2> QED BY <1>3, <2>1, <2>2, <2>3
<1>5. /\ up2 \in [0..(N + 1) -> Nat] /\ \A i \in 0..N : up2[i] = up[i]
      /\ up2[N + 1] = Len(out) + (Len(line) + 1)
  BY <1>1 DEF Marks
<1> HIDE DEF qs
<1>6. \A i \in 1..(N + 1) : up2[i] = up2[i - 1] + Len(qs[i]) + 1
  <2> TAKE i \in 1..(N + 1)
  <2>1. CASE i = N + 1
    <3>1. i - 1 = N /\ N \in 0..N
      BY <1>1, <2>1
    <3>2. up2[i - 1] = Len(out) /\ Len(qs[i]) = Len(line)
      BY <1>1, <1>2, <1>5, <2>1, <3>1
    <3>3. up2[i] = Len(out) + (Len(line) + 1)
      BY <1>5, <2>1
    <3> QED BY <1>1, <3>2, <3>3
  <2>2. CASE i # N + 1
    <3>1. i \in 1..N /\ i \in 0..N /\ i - 1 \in 0..N
      BY <1>1, <2>2
    <3>2. up[i] = up[i - 1] + Len(ps[i]) + 1
      BY <3>1 DEF History
    <3> QED BY <1>2, <1>5, <3>1, <3>2
  <2> QED BY <2>1, <2>2
<1>7. \A i, j \in 0..(N + 1) : i <= j => up2[j] - up2[i] >= j - i
  <2> SUFFICES ASSUME NEW i \in 0..(N + 1), NEW j \in 0..(N + 1), i <= j
               PROVE  up2[j] - up2[i] >= j - i
    OBVIOUS
  <2>1. CASE j # N + 1
    <3>1. i \in 0..N /\ j \in 0..N
      BY <1>1, <2>1
    <3>2. up[j] - up[i] >= j - i
      BY <3>1 DEF History
    <3> QED BY <1>5, <3>1, <3>2
  <2>2. CASE j = N + 1 /\ i = N + 1
    <3>1. up2[j] \in Nat
      BY <1>5
    <3> QED BY <1>1, <2>2, <3>1
  <2>3. CASE j = N + 1 /\ i # N + 1
    <3>1. i \in 0..N /\ i <= N /\ N \in 0..N /\ i \in Nat
      BY <1>1, <2>3
    <3>2. up[N] - up[i] >= N - i
      BY <3>1 DEF History
    <3>3. up[i] \in Nat /\ up2[i] = up[i]
      BY <1>1, <1>5, <3>1
    <3> QED BY <1>1, <1>5, <2>3, <3>1, <3>2, <3>3
  <2> QED BY <2>1, <2>2, <2>3
<1>8. \A i \in 1..(N + 1) : /\ \A m \in 1..Len(qs[i]) : out2[up2[i - 1] + m] = qs[i][m]
                            /\ out2[up2[i]] = NL
  <2> TAKE i \in 1..(N + 1)
  <2>1. CASE i = N + 1
    <3>1. i - 1 = N /\ N \in 0..N /\ Len(line) + 1 \in 1..(Len(line) + 1)
      BY <1>1, <2>1
    <3>2. up2[i - 1] = Len(out)
      BY <1>1, <1>5, <3>1
    <3>3. \A m \in 1..Len(line) : m \in 1..(Len(line) + 1)
      BY <1>1
    <3>4. qs[i] = line /\ up2[i] = Len(out) + (Len(line) + 1)
      BY <1>2, <1>5, <2>1
    <3>5. \A m \in 1..Len(line) : out2[Len(out) + m] = line[m]
      BY <1>3, <1>4, <3>3
    <3>6. out2[Len(out) + (Len(line) + 1)] = NL
      BY <1>3, <1>4, <3>1
    <3> QED BY <3>2, <3>4, <3>5, <3>6
  <2>2. CASE i # N + 1
    <3>1. i \in 1..N /\ i \in 0..N /\ i - 1 \in 0..N
      BY <1>1, <2>2
    <3>2. /\ \A m \in 1..Len(ps[i]) : out[up[i - 1] + m] = ps[i][m]
          /\ out[up[i]] = NL /\ up[i] = up[i - 1] + Len(ps[i]) + 1
      BY <3>1 DEF History
    <3>3. up[N] - up[i] >= N - i /\ N - i >= 0 /\ N - i \in Int
      <4>1. N \in 0..N /\ i <= N
        BY <1>1, <3>1
      <4> QED BY <1>1, <3>1, <4>1 DEF History
    <3>4. up[i] \in Nat /\ up[i - 1] \in Nat /\ Len(ps[i]) \in Nat
      <4>1. ps[i] \in Seq(Byte)
        BY <1>1, <3>1
      <4>2. Len(ps[i]) \in Nat
        BY <4>1
      <4>3. up[i] \in Nat /\ up[i - 1] \in Nat
        BY <1>1, <3>1
      <4> QED BY <4>2, <4>3
    <3>5. up[i] \in 1..Len(out) /\ \A m \in 1..Len(ps[i]) : up[i - 1] + m \in 1..Len(out)
      <4> DEFINE a == up[i - 1]
                 b == up[i]
                 c == Len(out)
                 l == Len(ps[i])
      <4>1. a \in Nat /\ b \in Nat /\ c \in Nat /\ l \in Nat /\ b = a + l + 1 /\ c - b >= 0
        BY <1>1, <3>2, <3>3, <3>4
      <4> HIDE DEF a, b, c, l
      <4>2. b \in 1..c /\ \A m \in 1..l : a + m \in 1..c
        BY <4>1
      <4> QED BY <4>2 DEF a, b, c, l
    <3>6. qs[i] = ps[i] /\ up2[i - 1] = up[i - 1] /\ up2[i] = up[i]
      BY <1>2, <1>5, <3>1
    <3>7. \A m \in 1..Len(ps[i]) : out2[up[i - 1] + m] = out[up[i - 1] + m]
      BY <1>4, <3>5
    <3>8. out2[up[i]] = out[up[i]]
      BY <1>4, <3>5
    <3> QED BY <3>2, <3>6, <3>7, <3>8
  <2> QED BY <2>1, <2>2
<1>9. up2[0] = 0 /\ up2[N + 1] = Len(out2)
  <2>1. 0 \in 0..N
    BY <1>1
  <2> QED BY <1>1, <1>4, <1>5, <2>1
<1>10. History(qs, out2, up2)
  BY <1>2, <1>4, <1>5, <1>6, <1>7, <1>8, <1>9 DEF History
<1> QED BY <1>2, <1>4, <1>5, <1>10 DEF qs, Lengthened

\* A line is pushed: the ring keeps the lines that were not dropped, and it.
LEMMA PushKeeps ==
  ASSUME History(pushed, output, upto), NEW o, Keeps(o), NEW len \in LineLens, Push(len)
  PROVE  History(pushed, output, upto)' /\ \E o2 : Keeps(o2)'
<1> DEFINE need == len + 1
           line == Line(Len(pushed) + 1, len)
           text == Append(line, NL)
           N == Len(pushed)
           D == Drops(need)
<1>1. /\ Cap \in Nat \ {0} /\ N \in Nat /\ Len(output) \in Nat /\ o \in Nat /\ o <= N
      /\ bytes \in 0..Cap /\ bytes \in Nat /\ start \in Place /\ end \in Place
      /\ DOMAIN buf = Place /\ bytes = Len(output) - upto[o] /\ end = At(start, bytes)
      /\ \A i \in 0..N : upto[i] \in Nat
  BY LogNumbers DEF Keeps
<1>2. len \in Nat /\ need \in Nat \ {0}
  BY LineLensAssumption
<1>3. line \in Seq(Byte) /\ Len(line) = len
  <2>1. \A i \in 1..len : <<N + 1, i>> \in Byte
    BY <1>1, <1>2 DEF Byte
  <2> QED BY <1>2, <2>1 DEF Line
<1>4. /\ D # {}
      /\ start' = Cut[Min(D)].start /\ bytes' = Cut[Min(D)].bytes + need
      /\ buf' = Fill(buf, end, need, text)
      /\ end' = (end + need) % Cap
      /\ pushed' = Append(pushed, line) /\ output' = output \o text
      /\ upto' = [n \in 0..(N + 1) |-> IF n \in DOMAIN upto THEN upto[n]
                                       ELSE Len(output) + need]
  BY <1>1 DEF Push, Fill
<1>5. /\ \A j \in 0..(N - o) : j \in D <=> (Len(output) - upto[o + j]) + need <= Cap
      /\ need <= Cap /\ N - o \in D
  <2> HIDE DEF need
  <2> QED BY <1>2, <1>4, DropsAre DEF need
<1>6. PICK k \in D : k = Min(D) /\ \A j \in D : k <= j
  <2>1. D \subseteq Nat
    BY <1>1 DEF Drops
  <2> HIDE DEF D
  <2>2. \E x \in D : \A y \in D : x <= y
    BY <1>4, <2>1, LeastOf
  <2> QED BY <2>2 DEF Min
<1> DEFINE o2 == o + k
           d == upto[o2] - upto[o]
           left == Len(output) - upto[o2]
<1>7. k \in 0..(N - o) /\ o2 \in o..N /\ o2 \in 0..N /\ o2 \in Nat
  <2>1. k \in Nat /\ k <= N - o
    BY <1>1, <1>5, <1>6 DEF Drops
  <2> QED BY <1>1, <2>1
<1>8. start' = Begin(o, o2) /\ bytes' = left + need /\ Cut[k].bytes = left
  BY <1>4, <1>6, <1>7, CutAt
<1>9. /\ d \in 0..bytes /\ left \in 0..bytes /\ d + left = bytes /\ left + need <= Cap
      /\ d \in Nat /\ left \in Nat /\ upto[o] \in Nat /\ upto[o2] \in Nat
  <2>1. d \in 0..bytes /\ left \in 0..bytes
    BY <1>7, LogNumbers
  <2>2. left + need <= Cap
    BY <1>5, <1>6, <1>7
  <2>3. upto[o] \in Nat /\ upto[o2] \in Nat
    <3>1. o \in 0..N
      BY <1>1
    <3> QED BY <1>1, <1>7, <3>1
  <2>4. d \in Nat /\ left \in Nat
    <3> HIDE DEF d, left
    <3> QED BY <1>1, <2>1
  <2>5. d + left = bytes
    <3> DEFINE u == upto[o]
               v == upto[o2]
               c == Len(output)
    <3>1. u \in Nat /\ v \in Nat /\ c \in Nat /\ bytes = c - u
      BY <1>1, <2>3
    <3> HIDE DEF u, v, c
    <3>2. (v - u) + (c - v) = bytes
      BY <3>1
    <3> QED BY <3>2 DEF u, v, c
  <2> QED BY <2>1, <2>2, <2>3, <2>4, <2>5
<1> HIDE DEF D, o2, line
<1>10. /\ History(pushed', output', upto')
       /\ Len(pushed') = N + 1 /\ Len(output') = Len(output) + need
       /\ \A j \in 1..Len(output) : output'[j] = output[j]
       /\ \A j \in 1..need : output'[Len(output) + j] = text[j]
       /\ \A i \in 0..N : upto'[i] = upto[i]
  <2> DEFINE out2 == output \o text
             up2 == Marks(pushed, output, upto, line)
  <2>1. /\ History(Append(pushed, line), out2, up2)
        /\ Len(Append(pushed, line)) = Len(pushed) + 1
        /\ Len(out2) = Len(output) + (Len(line) + 1)
        /\ \A j \in 1..Len(output) : out2[j] = output[j]
        /\ \A j \in 1..(Len(line) + 1) : out2[Len(output) + j] = text[j]
        /\ \A i \in 0..Len(pushed) : up2[i] = upto[i]
    <3>1. text = Append(line, NL) /\ out2 = output \o text
          /\ up2 = Marks(pushed, output, upto, line)
      OBVIOUS
    <3> HIDE DEF out2, up2, text
    <3>2. line \in Seq(Byte)
      BY <1>3
    <3>3. Lengthened(pushed, output, upto, line, Append(pushed, line), out2, up2)
      BY <3>1, <3>2, HistoryGrows
    <3> QED BY <3>1, <3>3 DEF Lengthened
  <2>2. pushed' = Append(pushed, line) /\ output' = out2 /\ upto' = up2
    BY <1>3, <1>4 DEF Marks
  <2>3. Len(line) + 1 = need
    BY <1>3
  <2> HIDE DEF out2, up2, text, need
  <2> QED BY <2>1, <2>2, <2>3
<1> HIDE DEF d, left
<1>11. start' \in Place /\ start' = At(start, d) /\ d \in 0..Cap /\ left \in 0..Cap
  <2>1. d \in 0..Cap /\ left \in 0..Cap
    BY <1>1, <1>9
  <2>2. start' = At(start, d)
    BY <1>8 DEF Begin, d
  <2> QED BY <1>1, <2>1, <2>2, AtIs
<1>12. end = At(start', left)
  BY <1>1, <1>9, <1>11, AtAt
<1>13. end' = At(start', bytes')
  <2>1. need \in 0..Cap
    BY <1>1, <1>2, <1>5
  <2>2. At(At(start', left), need) = At(start', left + need)
    <3> HIDE DEF need
    <3> QED BY <1>9, <1>11, <2>1, AtAt
  <2> QED BY <1>4, <1>8, <1>12, <2>2 DEF At
<1>14. /\ \A j \in 1..need : buf'[At(end, j - 1)] = text[j]
       /\ \A i \in Place : (\A j \in 1..need : i # At(end, j - 1)) => buf'[i] = buf[i]
  <2>1. need \in 1..Cap
    BY <1>1, <1>2, <1>5
  <2>2. buf' = Fill(buf, end, need, text)
    BY <1>4
  <2> HIDE DEF need, text
  <2> QED BY <1>1, <2>1, <2>2, Written
<1>20. need \in Nat /\ need >= 1
  BY <1>2
<1>15. ASSUME NEW j \in 1..need
       PROVE  /\ At(end, j - 1) = At(start', left + (j - 1))
              /\ left + (j - 1) \in Place
  <2>1. /\ j - 1 \in 0..Cap /\ left + (j - 1) <= Cap /\ left + (j - 1) \in Place
    BY <1>1, <1>2, <1>9 DEF Place
  <2> QED BY <1>11, <1>12, <2>1, AtAt
<1>16. ASSUME NEW i \in 0..(bytes' - 1)
       PROVE  buf'[At(start', i)] = output'[upto'[o2] + i + 1]
  <2>1. i \in Nat /\ i < left + need /\ i \in Place /\ i \in 0..Cap
    <3> HIDE DEF need
    <3>1. bytes' = left + need /\ bytes' \in Nat /\ bytes' <= Cap
      BY <1>20, <1>8, <1>9
    <3>2. i \in Nat /\ i < bytes' /\ i < Cap
      BY <1>1, <3>1
    <3> QED BY <1>1, <3>1, <3>2 DEF Place
  <2>2. upto'[o2] = upto[o2] /\ upto[o2] + left = Len(output)
    <3>1. upto'[o2] = upto[o2]
      BY <1>7, <1>10
    <3> QED BY <1>1, <1>9, <3>1 DEF left
  <2>3. CASE i < left
    <3>1. At(start', i) \in Place
      BY <1>11, <2>1, AtIs
    <3>2. ASSUME NEW j \in 1..need PROVE At(start', i) # At(end, j - 1)
      <4> SUFFICES ASSUME At(start', i) = At(start', left + (j - 1)) PROVE FALSE
        BY <1>15
      <4>1. i = left + (j - 1)
        BY <1>11, <1>15, <2>1, AtOnce
      <4> QED BY <1>2, <1>9, <2>1, <2>3, <4>1
    <3>3. buf'[At(start', i)] = buf[At(start', i)]
      BY <1>14, <3>1, <3>2
    <3>4. At(start', i) = At(start, d + i) /\ d + i \in 0..(bytes - 1)
      <4>1. d + i <= Cap /\ d + i \in 0..(bytes - 1)
        BY <1>1, <1>9, <2>1, <2>3
      <4> QED BY <1>1, <1>11, <2>1, <4>1, AtAt
    <3>5. buf[At(start, d + i)] = output[upto[o] + (d + i) + 1]
      BY <3>4 DEF Keeps
    <3>6. upto[o] + (d + i) + 1 = upto[o2] + i + 1 /\ upto[o2] + i + 1 \in 1..Len(output)
      <4>1. upto[o] + d = upto[o2]
        BY <1>9 DEF d
      <4>2. upto[o] + (d + i) + 1 = (upto[o] + d) + i + 1
        BY <1>9, <2>1
      <4>3. i + 1 <= left /\ upto[o2] + (i + 1) <= Len(output)
        BY <1>1, <1>9, <2>1, <2>2, <2>3
      <4>4. upto[o2] + i + 1 = upto[o2] + (i + 1) /\ upto[o2] + i + 1 \in Nat \ {0}
        BY <1>9, <2>1
      <4> QED BY <1>1, <4>1, <4>2, <4>3, <4>4
    <3> QED BY <1>10, <2>2, <3>3, <3>4, <3>5, <3>6
  <2>4. CASE ~(i < left)
    <3> DEFINE j == (i - left) + 1
    <3>1. /\ j \in 1..need /\ left + (j - 1) = i
          /\ upto[o2] + i + 1 = Len(output) + j
      <4> HIDE DEF need
      <4>1. j \in Nat /\ j >= 1 /\ j <= need /\ j = (i - left) + 1
        BY <1>20, <1>9, <2>1, <2>4
      <4> HIDE DEF j
      <4>2. j \in 1..need
        BY <1>20, <4>1
      <4>3. left + (j - 1) = i
        BY <1>9, <2>1, <4>1
      <4>4. upto[o2] + i + 1 = Len(output) + j
        <5> DEFINE u == upto[o2]
                   c == Len(output)
        <5>1. u + left = c /\ u \in Nat /\ left \in Nat /\ c \in Nat
          BY <1>1, <1>9, <2>2
        <5> HIDE DEF u, c
        <5>2. u + i + 1 = c + j
          BY <2>1, <4>1, <5>1
        <5> QED BY <5>2 DEF u, c
      <4> QED BY <4>2, <4>3, <4>4
    <3> HIDE DEF j
    <3>2. buf'[At(start', i)] = text[j]
      BY <1>14, <1>15, <3>1
    <3> QED BY <1>10, <2>2, <3>1, <3>2
  <2> QED BY <2>3, <2>4
<1>17. o2 # 0 => Len(output') - upto'[o2 - 1] > Cap
  <2> SUFFICES ASSUME o2 # 0 PROVE Len(output') - upto'[o2 - 1] > Cap
    OBVIOUS
  <2>1. o2 - 1 \in 0..N /\ upto'[o2 - 1] = upto[o2 - 1] /\ upto[o2 - 1] \in Nat
    <3>1. o2 - 1 \in 0..N
      BY <1>1, <1>7
    <3> QED BY <1>1, <1>10, <3>1
  <2>2. CASE k = 0
    <3>1. o2 = o
      BY <1>1, <2>2 DEF o2
    <3>2. Len(output) - upto[o - 1] > Cap
      BY <3>1 DEF Keeps
    <3> HIDE DEF need
    <3> QED BY <1>20, <1>1, <1>10, <2>1, <3>1, <3>2
  <2>3. CASE k # 0
    <3>1. k - 1 \in 0..(N - o) /\ o + (k - 1) = o2 - 1 /\ ~(k <= k - 1)
      BY <1>1, <1>7, <2>3 DEF o2
    <3>2. ~((Len(output) - upto[o2 - 1]) + need <= Cap)
      <4>1. k - 1 \notin D
        BY <1>6, <3>1
      <4> QED BY <1>5, <3>1, <4>1
    <3> HIDE DEF need
    <3> QED BY <1>20, <1>1, <1>10, <2>1, <3>2
  <2> QED BY <2>2, <2>3
<1>18. Keeps(o2)'
  <2>1. bytes' = Len(output') - upto'[o2] /\ bytes' <= Cap
    <3>1. upto'[o2] = upto[o2]
      BY <1>7, <1>10
    <3> QED BY <1>1, <1>2, <1>8, <1>9, <1>10, <3>1 DEF left
  <2>2. o2 \in 0..Len(pushed') /\ DOMAIN buf' = Place
    <3>1. o2 \in 0..(N + 1)
      BY <1>1, <1>7
    <3> HIDE DEF o2
    <3> QED BY <1>4, <1>10, <3>1 DEF Fill
  <2> QED BY <1>11, <1>13, <1>16, <1>17, <2>1, <2>2 DEF Keeps, o2, Place
<1> QED BY <1>10, <1>18 DEF History

LEMMA LogHolds == LogSpec => []LogInv
<1>1. LogInit => LogInv
  <2> SUFFICES ASSUME LogInit PROVE LogInv
    OBVIOUS
  <2>1. /\ pushed = <<>> /\ output = <<>> /\ upto = [n \in {0} |-> 0] /\ broken = 0
        /\ start = 0 /\ end = 0 /\ bytes = 0 /\ buf = [i \in 0..(Cap - 1) |-> Zero]
    BY DEF LogInit
  <2>2. Cap \in Nat \ {0} /\ 0 \in Place /\ 0 \in 0..Cap
    BY CapAssumption DEF Place
  <2>3. History(pushed, output, upto)
    <3>1. 0..Len(pushed) = {0} /\ 1..Len(pushed) = {} /\ Len(output) = 0
      BY <2>1
    <3>2. upto[0] = 0 /\ upto \in [0..Len(pushed) -> Nat] /\ Len(pushed) = 0
      BY <2>1, <3>1
    <3> QED BY <2>1, <3>1, <3>2 DEF History
  <2>4. Keeps(0)
    <3>1. At(0, 0) = 0
      <4>1. At(0, 0) = IF 0 + 0 < Cap THEN 0 + 0 ELSE (0 + 0) - Cap
        BY <2>2, AtIs
      <4> QED BY <2>2, <4>1
    <3>2. upto[0] = 0 /\ Len(output) = 0 /\ 0 \in 0..Len(pushed)
      BY <2>1
    <3> QED BY <2>1, <2>2, <3>1, <3>2 DEF Keeps, Place
  <2> QED BY <2>1, <2>3, <2>4 DEF LogInv
<1>2. LogInv /\ [LogNext]_logVars => LogInv'
  <2> SUFFICES ASSUME LogInv, [LogNext]_logVars PROVE LogInv'
    OBVIOUS
  <2>1. PICK o : Keeps(o)
    BY DEF LogInv
  <2>2. ASSUME NEW len \in LineLens, Push(len) PROVE LogInv'
    <3>1. History(pushed, output, upto)' /\ \E o2 : Keeps(o2)'
      BY <2>1, <2>2, PushKeeps DEF LogInv
    <3>2. broken' = broken
      BY <2>2 DEF Push
    <3> QED BY <3>1, <3>2 DEF LogInv
  <2>3. ASSUME NEW len \in LineLens, PushTooLong(len) PROVE LogInv'
    <3>1. UNCHANGED <<buf, start, end, bytes, pushed, output, upto>> /\ broken' = len + 1
          /\ Drops(len + 1) = {}
      BY <2>3 DEF PushTooLong
    <3>2. len \in Nat /\ Cap \in Nat
      BY LineLensAssumption, CapAssumption
    <3>3. len + 1 \in Nat \ {0}
      BY <3>2
    <3>4. ~(len + 1 <= Cap)
      BY <2>1, <3>1, <3>3, DropsAre DEF LogInv
    <3>5. broken' \in Nat /\ broken' > Cap
      BY <3>1, <3>2, <3>4
    <3>6. History(pushed, output, upto)' /\ Keeps(o)'
      BY <2>1, <3>1 DEF LogInv, History, Keeps, At
    <3> QED BY <3>5, <3>6 DEF LogInv
  <2>4. ASSUME UNCHANGED logVars PROVE LogInv'
    <3>1. History(pushed, output, upto)' /\ Keeps(o)' /\ broken' = broken
      BY <2>1, <2>4 DEF LogInv, History, Keeps, At, logVars
    <3> QED BY <3>1 DEF LogInv
  <2> QED BY <2>2, <2>3, <2>4 DEF LogNext
<1> QED BY <1>1, <1>2, PTL DEF LogSpec

\* For every ring and lines of any length: a `logs` client and a follower's
\* backlog read the newest lines that fit, whole and in order, across every
\* wrap and when the ring is exactly full.
THEOREM NewestLinesAreRead == LogSpec => []ReadsNewestLines
<1>1. LogInv => ReadsNewestLines
  BY OldestIs, CollectsThem, SnapshotsThem DEF LogInv, ReadsNewestLines
<1> QED BY <1>1, LogHolds, PTL

\* Likewise push fails only on a line that needs more bytes than the ring has.
THEOREM PushDoesFindRoom == LogSpec => []PushFindsRoom
<1>1. LogInv => PushFindsRoom
  BY DEF LogInv, PushFindsRoom
<1> QED BY <1>1, LogHolds, PTL
=============================================================================
