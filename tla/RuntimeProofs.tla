--------------------------- MODULE RuntimeProofs ---------------------------
(***************************************************************************)
(* Proofs about Runtime, for every bound on ids and every backend: first   *)
(* what holds of the slabs, then what happens to ops and locals over time. *)
(* An op is called once, in the order OpContract promises, and every local *)
(* leaves the runtime exactly once; there, a slab is only the set of the   *)
(* handles of its live slots.                                              *)
(***************************************************************************)
EXTENDS Runtime, FiniteSetTheorems, SequenceTheorems, TLAPS

-----------------------------------------------------------------------------
(* Slabs and free stacks.                                                  *)

\* Popping the free stack drops its last entry and nothing else.
LEMMA RestFacts ==
  ASSUME NEW free \in Seq(Nat), NEW rest, rest = AllocRest(free)
  PROVE  /\ rest \in Seq(Nat)
         /\ Len(rest) = IF Len(free) = 0 THEN 0 ELSE Len(free) - 1
         /\ \A k \in 1..Len(rest) : k \in 1..Len(free) /\ rest[k] = free[k]
  <1>1. CASE free = <<>>
    BY <1>1 DEF AllocRest
  <1>2. CASE free # <<>>
    <2>1. Len(free) \in Nat \ {0}
      BY <1>2
    <2>2. rest = SubSeq(free, 1, Len(free) - 1)
      BY <1>2 DEF AllocRest
    <2>3. \A k \in 1..(Len(free) - 1) : free[k] \in Nat
      BY <2>1
    <2> DEFINE n == Len(free) - 1
    <2>4. n \in Nat /\ n \in Int /\ 1 \in Int
      BY <2>1
    <2>5. rest = SubSeq(free, 1, n) /\ \A k \in 1..n : free[k] \in Nat
      BY <2>2, <2>3
    <2> HIDE DEF n
    <2>6. /\ SubSeq(free, 1, n) \in Seq(Nat)
          /\ Len(SubSeq(free, 1, n)) = IF 1 <= n THEN n - 1 + 1 ELSE 0
          /\ \A k \in 1..(n - 1 + 1) : SubSeq(free, 1, n)[k] = free[1 + k - 1]
      <3>1. SubSeq(free, 1, n) \in Seq(Nat)
        BY <2>4, <2>5, SubSeqProperties
      <3>2. Len(SubSeq(free, 1, n)) = IF 1 <= n THEN n - 1 + 1 ELSE 0
        BY <2>4, <2>5, SubSeqProperties
      <3>3. \A k \in 1..(n - 1 + 1) : SubSeq(free, 1, n)[k] = free[1 + k - 1]
        BY <2>4, <2>5, SubSeqProperties
      <3> QED
        BY <3>1, <3>2, <3>3
    <2>7. Len(rest) = n /\ rest \in Seq(Nat)
      BY <2>4, <2>5, <2>6
    <2>8. \A k \in 1..n : rest[k] = free[k]
      <3> TAKE k \in 1..n
      <3>1. 1 + k - 1 = k /\ n - 1 + 1 = n
        BY <2>4
      <3> QED
        BY <2>5, <2>6, <3>1
    <2> QED
      BY <2>1, <2>4, <2>7, <2>8 DEF n
  <1> QED
    BY <1>1, <1>2

\* What alloc returns is a free slot of the slab or a new one.
LEMMA IndexFacts ==
  ASSUME NEW S, NEW slab \in Seq(S), NEW free \in Seq(Nat),
         FreeStackOK(slab, free),
         NEW i, i = AllocIndex(slab, free)
  PROVE  /\ Len(free) = 0 => i = Len(slab) + 1
         /\ Len(free) # 0 => /\ i = free[Len(free)]
                             /\ i \in 1..Len(slab)
                             /\ IsFree(slab[i])
  BY DEF AllocIndex, FreeStackOK

\* The slot alloc returns is not in use.
LEMMA AllocFree ==
  ASSUME NEW S, NEW slab \in Seq(S), NEW free \in Seq(Nat),
         FreeStackOK(slab, free)
  PROVE  AllocIndex(slab, free) \in 1..Len(slab) =>
           IsFree(slab[AllocIndex(slab, free)])
  <1>1. Len(slab) \in Nat
    OBVIOUS
  <1> QED
    BY <1>1, IndexFacts

\* Put replaces or adds one slot and leaves the others alone.
LEMMA PutFacts ==
  ASSUME NEW S, NEW slab \in Seq(S), NEW i \in 1..(Len(slab) + 1), NEW s \in S,
         NEW slab2, slab2 = Put(slab, i, s)
  PROVE  /\ slab2 \in Seq(S)
         /\ Len(slab2) = IF i = Len(slab) + 1 THEN Len(slab) + 1 ELSE Len(slab)
         /\ slab2[i] = s
         /\ \A j \in 1..Len(slab) : j # i => slab2[j] = slab[j]
  BY DEF Put

\* What every operation on a slab does: slot i, old or new, comes to hold s,
\* the others keep their contents, the free stack stays exact, and the number
\* of live slots changes by delta.
SlabStep(S, slab, free, i, s, slab2, free2, delta) ==
  /\ i \in 1..(Len(slab) + 1)
  /\ slab2 \in Seq(S) /\ free2 \in Seq(Nat)
  /\ Len(slab2) = IF i = Len(slab) + 1 THEN Len(slab) + 1 ELSE Len(slab)
  /\ slab2[i] = s
  /\ \A j \in 1..Len(slab) : j # i => slab2[j] = slab[j]
  /\ FreeStackOK(slab2, free2)
  /\ Len(slab2) - Len(free2) = Len(slab) - Len(free) + delta

\* register_op and cancel: claiming the slot alloc returned keeps the stack
\* exact and raises the number of live slots by one.
LEMMA AllocOK ==
  ASSUME NEW S, NEW slab \in Seq(S), NEW free \in Seq(Nat),
         FreeStackOK(slab, free), NEW s \in S, ~IsFree(s),
         NEW i, i = AllocIndex(slab, free),
         NEW slab2, slab2 = Put(slab, i, s),
         NEW free2, free2 = AllocRest(free)
  PROVE  SlabStep(S, slab, free, i, s, slab2, free2, 1)
  <1>1. Len(slab) \in Nat /\ Len(free) \in Nat
    OBVIOUS
  <1>2. /\ Len(free) = 0 => i = Len(slab) + 1
        /\ Len(free) # 0 => /\ i = free[Len(free)]
                            /\ i \in 1..Len(slab)
                            /\ IsFree(slab[i])
    BY IndexFacts
  <1>3. i \in 1..(Len(slab) + 1)
    BY <1>1, <1>2
  <1>4. /\ slab2 \in Seq(S)
        /\ Len(slab2) = IF i = Len(slab) + 1 THEN Len(slab) + 1 ELSE Len(slab)
        /\ slab2[i] = s
        /\ \A j \in 1..Len(slab) : j # i => slab2[j] = slab[j]
    <2>1. slab2 \in Seq(S)
      BY <1>3, PutFacts
    <2>2. Len(slab2) = IF i = Len(slab) + 1 THEN Len(slab) + 1 ELSE Len(slab)
      BY <1>3, PutFacts
    <2>3. slab2[i] = s
      BY <1>3, PutFacts
    <2>4. \A j \in 1..Len(slab) : j # i => slab2[j] = slab[j]
      BY <1>3 DEF Put
    <2> QED
      BY <2>1, <2>2, <2>3, <2>4
  <1>5. /\ free2 \in Seq(Nat)
        /\ Len(free2) = IF Len(free) = 0 THEN 0 ELSE Len(free) - 1
        /\ \A k \in 1..Len(free2) : k \in 1..Len(free) /\ free2[k] = free[k]
    BY RestFacts
  <1>6. ASSUME NEW k \in 1..Len(free2)
        PROVE  /\ free2[k] \in 1..Len(slab) /\ free2[k] # i
               /\ IsFree(slab[free2[k]])
    <2>0. k \in 1..Len(free) /\ free2[k] = free[k]
      BY <1>5
    <2>1. k \in 1..Len(free) /\ free2[k] = free[k] /\ k # Len(free)
      BY <1>1, <1>5, <2>0
    <2>2. Len(free) # 0 /\ Len(free) \in 1..Len(free)
      BY <1>1, <2>1
    <2>3. free[k] # free[Len(free)]
      BY <2>1, <2>2 DEF FreeStackOK
    <2> QED
      BY <1>2, <2>1, <2>2, <2>3 DEF FreeStackOK
  <1>7. \A k \in 1..Len(free2) :
          free2[k] \in 1..Len(slab2) /\ IsFree(slab2[free2[k]])
    <2>1. 1..Len(slab) \subseteq 1..Len(slab2)
      BY <1>1, <1>4
    <2> QED
      BY <1>4, <1>6, <2>1
  <1>8. \A k, l \in 1..Len(free2) : free2[k] = free2[l] => k = l
    BY <1>5 DEF FreeStackOK
  <1>9. ASSUME NEW j \in 1..Len(slab2), IsFree(slab2[j])
        PROVE  \E k \in 1..Len(free2) : free2[k] = j
    <2>1. j # i
      BY <1>4, <1>9
    <2>2. j \in 1..Len(slab) /\ slab2[j] = slab[j]
      BY <1>1, <1>3, <1>4, <2>1
    <2>3. PICK k \in 1..Len(free) : free[k] = j
      BY <1>9, <2>2 DEF FreeStackOK
    <2>4. k \in 1..Len(free2)
      BY <1>1, <1>2, <1>5, <2>1, <2>3
    <2> QED
      BY <1>5, <2>3, <2>4
  <1>10. Len(slab2) - Len(free2) = Len(slab) - Len(free) + 1
    <2>1. CASE Len(free) = 0
      BY <1>1, <1>2, <1>4, <1>5, <2>1
    <2>2. CASE Len(free) # 0
      <3>1. i # Len(slab) + 1
        BY <1>1, <1>2, <2>2
      <3> QED
        BY <1>1, <1>4, <1>5, <2>2, <3>1
    <2> QED
      BY <2>1, <2>2
  <1>11. FreeStackOK(slab2, free2)
    BY <1>7, <1>8, <1>9 DEF FreeStackOK
  <1> QED
    BY <1>3, <1>4, <1>5, <1>10, <1>11 DEF SlabStep

\* free_op_slot and free_cancel_slot: pushing a live slot that is made free
\* keeps the stack exact and lowers the number of live slots by one.
LEMMA FreeOK ==
  ASSUME NEW S, NEW slab \in Seq(S), NEW free \in Seq(Nat),
         FreeStackOK(slab, free),
         NEW i \in 1..Len(slab), ~IsFree(slab[i]), NEW s \in S, IsFree(s),
         NEW slab2, slab2 = [slab EXCEPT ![i] = s],
         NEW free2, free2 = Append(free, i)
  PROVE  SlabStep(S, slab, free, i, s, slab2, free2, -1)
  <1>1. /\ slab2 \in Seq(S) /\ Len(slab2) = Len(slab)
        /\ slab2[i] = s
        /\ \A j \in 1..Len(slab) : j # i => slab2[j] = slab[j]
    OBVIOUS
  <1>2. /\ free2 \in Seq(Nat) /\ Len(free2) = Len(free) + 1
        /\ free2[Len(free) + 1] = i
        /\ \A k \in 1..Len(free) : free2[k] = free[k]
    OBVIOUS
  <1>3. Len(slab) \in Nat /\ Len(free) \in Nat
    OBVIOUS
  <1>4. \A k \in 1..Len(free) : free[k] # i
    BY DEF FreeStackOK
  <1>5. \A k \in 1..Len(free2) : \/ k = Len(free) + 1 /\ free2[k] = i
                                 \/ k \in 1..Len(free) /\ free2[k] = free[k]
    BY <1>2, <1>3
  <1>6. \A k \in 1..Len(free2) :
          free2[k] \in 1..Len(slab2) /\ IsFree(slab2[free2[k]])
    BY <1>1, <1>4, <1>5 DEF FreeStackOK
  <1>7. \A k, l \in 1..Len(free2) : free2[k] = free2[l] => k = l
    BY <1>4, <1>5 DEF FreeStackOK
  <1>8. ASSUME NEW j \in 1..Len(slab2), IsFree(slab2[j])
        PROVE  \E k \in 1..Len(free2) : free2[k] = j
    <2>1. CASE j = i
      BY <1>2, <1>3, <2>1
    <2>2. CASE j # i
      <3>1. PICK k \in 1..Len(free) : free[k] = j
        BY <1>1, <1>8, <2>2 DEF FreeStackOK
      <3> QED
        BY <1>2, <1>3, <3>1
    <2> QED
      BY <2>1, <2>2
  <1>9. FreeStackOK(slab2, free2)
    BY <1>6, <1>7, <1>8 DEF FreeStackOK
  <1> QED
    <2>1. i \in 1..(Len(slab) + 1) /\ i # Len(slab) + 1
      BY <1>3
    <2>2. Len(slab2) - Len(free2) = Len(slab) - Len(free) + (-1)
      BY <1>1, <1>2, <1>3
    <2> QED
      BY <1>1, <1>2, <1>9, <2>1, <2>2 DEF SlabStep

\* Setting or clearing a mark on a live slot concerns no free stack.
LEMMA KeepOK ==
  ASSUME NEW S, NEW slab \in Seq(S), NEW free \in Seq(Nat),
         FreeStackOK(slab, free),
         NEW i \in 1..Len(slab), NEW s \in S, IsFree(s) <=> IsFree(slab[i]),
         NEW slab2, slab2 = [slab EXCEPT ![i] = s]
  PROVE  SlabStep(S, slab, free, i, s, slab2, free, 0)
  <1>1. /\ slab2 \in Seq(S) /\ Len(slab2) = Len(slab)
        /\ slab2[i] = s
        /\ \A j \in 1..Len(slab) : j # i => slab2[j] = slab[j]
    OBVIOUS
  <1>2. \A j \in 1..Len(slab) : IsFree(slab2[j]) <=> IsFree(slab[j])
    BY <1>1
  <1>3. FreeStackOK(slab2, free)
    BY <1>1, <1>2 DEF FreeStackOK
  <1> QED
    <2>1. i \in 1..(Len(slab) + 1) /\ i # Len(slab) + 1
      OBVIOUS
    <2>2. Len(slab2) - Len(free) = Len(slab) - Len(free) + 0
      BY <1>1
    <2> QED
      BY <1>1, <1>3, <2>1, <2>2 DEF SlabStep

\* A backend that refuses the request leaves a slab whose claimed slot is
\* back on the stack.
LEMMA RefusedOK ==
  ASSUME NEW S, NEW slab \in Seq(S), NEW free \in Seq(Nat),
         FreeStackOK(slab, free), NEW s \in S, IsFree(s),
         NEW i, i = AllocIndex(slab, free),
         NEW slab2, slab2 = Put(slab, i, s),
         NEW free2, free2 = Append(AllocRest(free), i)
  PROVE  SlabStep(S, slab, free, i, s, slab2, free2, 0)
  <1>1. Len(slab) \in Nat /\ Len(free) \in Nat
    OBVIOUS
  <1>2. /\ Len(free) = 0 => i = Len(slab) + 1
        /\ Len(free) # 0 => /\ i = free[Len(free)]
                            /\ i \in 1..Len(slab)
                            /\ IsFree(slab[i])
    BY IndexFacts
  <1>3. i \in 1..(Len(slab) + 1)
    BY <1>1, <1>2
  <1>4. /\ slab2 \in Seq(S)
        /\ Len(slab2) = IF i = Len(slab) + 1 THEN Len(slab) + 1 ELSE Len(slab)
        /\ slab2[i] = s
        /\ \A j \in 1..Len(slab) : j # i => slab2[j] = slab[j]
    <2>1. slab2 \in Seq(S)
      BY <1>3, PutFacts
    <2>2. Len(slab2) = IF i = Len(slab) + 1 THEN Len(slab) + 1 ELSE Len(slab)
      BY <1>3, PutFacts
    <2>3. slab2[i] = s
      BY <1>3, PutFacts
    <2>4. \A j \in 1..Len(slab) : j # i => slab2[j] = slab[j]
      BY <1>3 DEF Put
    <2> QED
      BY <2>1, <2>2, <2>3, <2>4
  <1> DEFINE rest == AllocRest(free)
  <1>5. /\ rest \in Seq(Nat)
        /\ Len(rest) = IF Len(free) = 0 THEN 0 ELSE Len(free) - 1
        /\ \A k \in 1..Len(rest) : k \in 1..Len(free) /\ rest[k] = free[k]
    BY RestFacts
  <1> HIDE DEF rest
  <1>6. /\ free2 \in Seq(Nat) /\ Len(free2) = Len(rest) + 1
        /\ free2[Len(rest) + 1] = i
        /\ \A k \in 1..Len(rest) : free2[k] = rest[k]
    <2>1. i \in Nat
      BY <1>1, <1>3
    <2> QED
      BY <1>5, <2>1 DEF rest
  <1>7. Len(rest) \in Nat
    BY <1>5
  <1>8. ASSUME NEW k \in 1..Len(rest)
        PROVE  /\ rest[k] \in 1..Len(slab) /\ rest[k] # i
               /\ IsFree(slab[rest[k]])
    <2>1. k \in 1..Len(free) /\ rest[k] = free[k] /\ k # Len(free)
      BY <1>1, <1>5
    <2>2. Len(free) # 0 /\ Len(free) \in 1..Len(free)
      BY <1>1, <2>1
    <2>3. free[k] # free[Len(free)]
      BY <2>1, <2>2 DEF FreeStackOK
    <2> QED
      BY <1>2, <2>1, <2>2, <2>3 DEF FreeStackOK
  <1>9. \A k \in 1..Len(free2) : \/ k = Len(rest) + 1 /\ free2[k] = i
                                 \/ k \in 1..Len(rest) /\ free2[k] = rest[k]
    BY <1>6, <1>7
  <1>10. /\ i \in 1..Len(slab2) /\ IsFree(slab2[i])
         /\ \A k \in 1..Len(rest) :
              rest[k] \in 1..Len(slab2) /\ IsFree(slab2[rest[k]])
    <2>1. 1..Len(slab) \subseteq 1..Len(slab2) /\ i \in 1..Len(slab2)
      BY <1>1, <1>3, <1>4
    <2> QED
      BY <1>4, <1>8, <2>1
  <1>11. \A k \in 1..Len(free2) :
          free2[k] \in 1..Len(slab2) /\ IsFree(slab2[free2[k]])
    BY <1>9, <1>10
  <1>12. \A k, l \in 1..Len(rest) : rest[k] = rest[l] => k = l
    BY <1>5 DEF FreeStackOK
  <1>13. \A k, l \in 1..Len(free2) : free2[k] = free2[l] => k = l
    BY <1>8, <1>9, <1>12
  <1>14. ASSUME NEW j \in 1..Len(slab2), IsFree(slab2[j])
         PROVE  \E k \in 1..Len(free2) : free2[k] = j
    <2>1. CASE j = i
      BY <1>6, <1>7, <2>1
    <2>2. CASE j # i
      <3>1. j \in 1..Len(slab) /\ slab2[j] = slab[j]
        BY <1>1, <1>3, <1>4, <2>2
      <3>2. PICK k \in 1..Len(free) : free[k] = j
        BY <1>14, <3>1 DEF FreeStackOK
      <3>3. Len(free) # 0
        BY <1>1, <3>2
      <3>4. k # Len(free)
        BY <1>2, <2>2, <3>2, <3>3
      <3>5. k \in 1..Len(rest)
        BY <1>1, <1>5, <3>2, <3>3, <3>4
      <3> QED
        <4>1. k \in 1..Len(free2)
          BY <1>6, <1>7, <3>5
        <4>2. free2[k] = rest[k] /\ rest[k] = free[k]
          BY <1>5, <1>6, <3>5
        <4> QED
          BY <3>2, <4>1, <4>2
    <2> QED
      BY <2>1, <2>2
  <1>15. Len(slab2) - Len(free2) = Len(slab) - Len(free)
    <2>1. CASE Len(free) = 0
      BY <1>1, <1>2, <1>4, <1>5, <1>6, <2>1
    <2>2. CASE Len(free) # 0
      <3>1. i # Len(slab) + 1
        BY <1>1, <1>2, <2>2
      <3> QED
        BY <1>1, <1>4, <1>5, <1>6, <2>2, <3>1
    <2> QED
      BY <2>1, <2>2
  <1>16. FreeStackOK(slab2, free2)
    BY <1>11, <1>13, <1>14 DEF FreeStackOK
  <1> QED
    <2>1. Len(slab2) - Len(free2) = Len(slab) - Len(free) + 0
      BY <1>1, <1>15
    <2> QED
      BY <1>3, <1>4, <1>6, <1>16, <2>1 DEF SlabStep

\* The slots after a step: slot i and, unchanged, the ones there were.
SlotFacts(slab, i, s, slab2) ==
  /\ i \in Nat /\ i \in 1..Len(slab2) /\ slab2[i] = s
  /\ \A j \in 1..Len(slab2) :
       j # i => j \in 1..Len(slab) /\ slab2[j] = slab[j]
  /\ \A j \in 1..Len(slab) :
       j \in 1..Len(slab2) /\ (j # i => slab2[j] = slab[j])

\* Every step of a slab leaves its slots so.
LEMMA SlabStepSlots ==
  ASSUME NEW S, NEW slab \in Seq(S), NEW free \in Seq(Nat), NEW i, NEW s,
         NEW slab2, NEW free2, NEW delta,
         SlabStep(S, slab, free, i, s, slab2, free2, delta)
  PROVE  SlotFacts(slab, i, s, slab2)
  <1>1. Len(slab) \in Nat
    OBVIOUS
  <1>2. i \in Nat /\ i \in 1..Len(slab2)
    BY <1>1 DEF SlabStep
  <1>3. \A j \in 1..Len(slab2) : j # i => j \in 1..Len(slab)
    BY <1>1 DEF SlabStep
  <1>4. \A j \in 1..Len(slab) : j \in 1..Len(slab2)
    BY <1>1 DEF SlabStep
  <1> QED
    BY <1>2, <1>3, <1>4 DEF SlabStep, SlotFacts

\* A stack that holds only free slots, each once, is no longer than the slab,
\* and shorter when some slot is live: the counters cannot underflow, and
\* reach zero only when every slot is free.
LEMMA StackLength ==
  ASSUME NEW S, NEW slab \in Seq(S), NEW free \in Seq(Nat),
         FreeStackOK(slab, free)
  PROVE  /\ Len(free) <= Len(slab)
         /\ Len(free) = Len(slab) => \A i \in 1..Len(slab) : IsFree(slab[i])
  <1>1. Len(free) \in Nat /\ Len(slab) \in Nat
    OBVIOUS
  <1>2. /\ IsFiniteSet(1..Len(free)) /\ Cardinality(1..Len(free)) = Len(free)
        /\ IsFiniteSet(1..Len(slab)) /\ Cardinality(1..Len(slab)) = Len(slab)
    <2>1. ASSUME NEW n \in Nat
          PROVE  IsFiniteSet(1..n) /\ Cardinality(1..n) = n
      <3>1. /\ IsFiniteSet(1..n)
            /\ Cardinality(1..n) = IF 1 > n THEN 0 ELSE n - 1 + 1
        BY FS_Interval
      <3> QED
        BY <3>1
    <2> QED
      BY <1>1, <2>1
  <1>3. ASSUME NEW T, IsFiniteSet(T), \A k \in 1..Len(free) : free[k] \in T
        PROVE  ~(Cardinality(T) < Len(free))
    <2> SUFFICES ASSUME Cardinality(T) < Len(free) PROVE FALSE
      OBVIOUS
    <2> DEFINE f == [k \in 1..Len(free) |-> free[k]]
    <2>1. f \in [1..Len(free) -> T]
      BY <1>3
    <2>2. \A k, l \in 1..Len(free) : f[k] = f[l] => k = l
      BY DEF FreeStackOK
    <2> HIDE DEF f
    <2>3. Cardinality(T) < Cardinality(1..Len(free))
      BY <1>2
    <2>4. \E x, y \in 1..Len(free) : x # y /\ f[x] = f[y]
      BY <1>2, <1>3, <2>1, <2>3, FS_PigeonHole, Zenon
    <2> QED
      BY <2>2, <2>4
  <1>4. Len(free) <= Len(slab)
    <2>1. \A k \in 1..Len(free) : free[k] \in 1..Len(slab)
      BY DEF FreeStackOK
    <2> QED
      BY <1>1, <1>2, <1>3, <2>1
  <1>5. ASSUME NEW i \in 1..Len(slab), ~IsFree(slab[i])
        PROVE  Len(free) # Len(slab)
    <2>1. /\ IsFiniteSet((1..Len(slab)) \ {i})
          /\ Cardinality((1..Len(slab)) \ {i}) = Len(slab) - 1
      BY <1>2, FS_RemoveElement
    <2>2. \A k \in 1..Len(free) : free[k] \in (1..Len(slab)) \ {i}
      BY <1>5 DEF FreeStackOK
    <2>3. ~(Len(slab) - 1 < Len(free))
      BY <1>3, <2>1, <2>2
    <2> QED
      BY <1>1, <2>3
  <1> QED
    BY <1>4, <1>5

-----------------------------------------------------------------------------
(* The inductive invariant.                                                *)

\* TypeOK but for the counters, whose sign is a consequence of SlabInv.
Types ==
  /\ io_slab \in Seq(IoSlot) /\ free_slots \in Seq(Nat)
  /\ cancel_slab \in Seq(CancelSlot) /\ free_cancels \in Seq(Nat)
  /\ next_id \in Nat \ {0}
  /\ at \in UserCode \union {"drain", "wait", "ended", "failed", "unwinding",
                             "dropped"}
  /\ cur \in Op
  /\ issued \subseteq Op
  /\ called \subseteq Nat /\ done_ran \subseteq Nat /\ cancelled \subseteq Nat
  /\ disposed \subseteq Nat /\ twice \subseteq Nat

\* No free slot is marked.
MarkInv == \A i \in 1..Len(io_slab) :
             IsFree(io_slab[i]) => ~io_slab[i].cancel_pending

\* complete_op works on a live, marked op exactly while its cancel callback
\* runs (or a panic unwinds out of it).
CurInv ==
  /\ at = "cancel_cb" => /\ cur.slot \in 1..Len(io_slab)
                         /\ ~IsFree(io_slab[cur.slot])
                         /\ io_slab[cur.slot].cancel_pending
                         /\ io_slab[cur.slot].id = cur.id
  /\ at \notin {"cancel_cb", "unwinding", "dropped"} => cur = NoOp

\* The correspondence of marks and cancel slots (PendingInv), conjunct by
\* conjunct.
CancelTargets ==
  \A c \in 1..Len(cancel_slab) :
    ~IsFree(cancel_slab[c]) =>
      /\ cancel_slab[c].target \in 1..Len(io_slab)
      /\ io_slab[cancel_slab[c].target].id = cancel_slab[c].target_id
      /\ io_slab[cancel_slab[c].target].cancel_pending
      /\ cancel_slab[c].target # cur.slot

OneCancelEach ==
  \A c, d \in 1..Len(cancel_slab) :
    /\ ~IsFree(cancel_slab[c])
    /\ ~IsFree(cancel_slab[d])
    /\ cancel_slab[c].target = cancel_slab[d].target
    => c = d

MarksHaveCancels ==
  \A i \in 1..Len(io_slab) :
    io_slab[i].cancel_pending /\ i # cur.slot =>
      \E c \in 1..Len(cancel_slab) :
        /\ ~IsFree(cancel_slab[c])
        /\ cancel_slab[c].target = i

\* No handle has the id of a free slot.
HandleInv == \A op \in issued : op.id # 0

IInv ==
  /\ Types /\ SlabInv /\ MarkInv /\ CurInv /\ HandleInv
  /\ CancelTargets /\ OneCancelEach /\ MarksHaveCancels

\* IInv is PendingInv and TypeOK in the form the steps use.
LEMMA IInvMeaning == IInv => TypeOK /\ PendingInv
  <1> SUFFICES ASSUME IInv PROVE TypeOK /\ PendingInv
    OBVIOUS
  <1>1. Len(free_slots) <= Len(io_slab)
    BY StackLength DEF IInv, Types, SlabInv
  <1>2. Len(free_cancels) <= Len(cancel_slab)
    BY StackLength DEF IInv, Types, SlabInv
  <1>3. inflight_ops \in Nat /\ inflight_cancels \in Nat
    BY <1>1, <1>2 DEF IInv, Types, SlabInv
  <1>4. TypeOK
    BY <1>3 DEF IInv, Types, TypeOK
  <1>5. DOMAIN io_slab = 1..Len(io_slab) /\ DOMAIN cancel_slab = 1..Len(cancel_slab)
    BY DEF IInv, Types
  <1>6. \A i \in DOMAIN io_slab :
          io_slab[i].cancel_pending /\ i # cur.slot => CancelsOf(i) # {}
    BY <1>5 DEF IInv, MarksHaveCancels, CancelTargets, CancelsOf
  <1>7. PendingInv
    BY <1>5, <1>6 DEF IInv, CancelTargets, OneCancelEach, PendingInv
  <1> QED
    BY <1>4, <1>7

\* The empty runtime Runtime::new returns satisfies the invariant.
LEMMA InitIInv == Init => IInv
  <1> SUFFICES ASSUME Init PROVE IInv
    OBVIOUS
  <1>1. Types
    BY DEF Init, Types, UserCode, NoOp, Op
  <1>2. SlabInv
    BY DEF Init, SlabInv, FreeStackOK
  <1> QED
    BY <1>1, <1>2 DEF Init, IInv, MarkInv, CurInv, HandleInv, CancelTargets,
                      OneCancelEach, MarksHaveCancels

\* register_op claims a slot no live cancel slot names.
LEMMA RegisterOpIInv == IInv /\ RegisterOp => IInv'
  <1> SUFFICES ASSUME IInv, RegisterOp PROVE IInv'
    OBVIOUS
  <1> DEFINE i == AllocIndex(io_slab, free_slots)
             s == [id |-> next_id, cancel_pending |-> FALSE]
  <1>1. s \in IoSlot /\ ~IsFree(s)
    BY DEF IInv, Types, IoSlot, IsFree
  <1>2. io_slab' = Put(io_slab, i, s) /\ free_slots' = AllocRest(free_slots)
    BY DEF RegisterOp
  <1>3. io_slab \in Seq(IoSlot) /\ free_slots \in Seq(Nat)
        /\ FreeStackOK(io_slab, free_slots)
    BY DEF IInv, Types, SlabInv
  <1>4. /\ SlabStep(IoSlot, io_slab, free_slots, i, s, io_slab', free_slots', 1)
        /\ i \in 1..Len(io_slab) => IsFree(io_slab[i])
    <2>1. i = AllocIndex(io_slab, free_slots)
      OBVIOUS
    <2>2. i \in 1..Len(io_slab) => IsFree(io_slab[i])
      BY <1>3, AllocFree
    <2> HIDE DEF i, s
    <2>3. SlabStep(IoSlot, io_slab, free_slots, i, s, io_slab', free_slots', 1)
      BY <1>1, <1>2, <1>3, <2>1, AllocOK
    <2> QED
      BY <2>2, <2>3
  <1>5. /\ i \in Nat /\ i \in 1..Len(io_slab') /\ io_slab'[i] = s
        /\ \A j \in 1..Len(io_slab') :
             j # i => j \in 1..Len(io_slab) /\ io_slab'[j] = io_slab[j]
        /\ \A j \in 1..Len(io_slab) :
             j \in 1..Len(io_slab') /\ (j # i => io_slab'[j] = io_slab[j])
    <2> HIDE DEF i, s
    <2>1. SlotFacts(io_slab, i, s, io_slab')
      BY <1>3, <1>4, SlabStepSlots
    <2> QED
      BY <2>1 DEF SlotFacts
  <1> HIDE DEF i
  <1>6. Types'
    <2>1. issued' \subseteq Op
      BY <1>5 DEF IInv, Types, RegisterOp, Op, i
    <2> QED
      BY <1>4, <2>1 DEF IInv, Types, RegisterOp, cslabVars, SlabStep
  <1>7. SlabInv'
    BY <1>4 DEF IInv, SlabInv, RegisterOp, cslabVars, SlabStep
  <1>8. MarkInv'
    BY <1>1, <1>5 DEF IInv, MarkInv
  <1>9. CurInv'
    <2>1. cur' = cur /\ at' = at
      BY DEF RegisterOp
    <2> QED
      BY <1>4, <1>5, <2>1 DEF IInv, CurInv
  <1>10. \A c \in 1..Len(cancel_slab) :
           ~IsFree(cancel_slab[c]) => cancel_slab[c].target # i
    BY <1>4 DEF IInv, CancelTargets, MarkInv
  <1>11. cancel_slab' = cancel_slab /\ cur' = cur
    BY DEF RegisterOp, cslabVars
  <1>12. CancelTargets'
    BY <1>5, <1>10, <1>11 DEF IInv, CancelTargets
  <1>13. OneCancelEach'
    BY <1>11 DEF IInv, OneCancelEach
  <1>14. MarksHaveCancels'
    BY <1>5, <1>11 DEF IInv, MarksHaveCancels
  <1>15. HandleInv'
    BY DEF IInv, HandleInv, Types, RegisterOp
  <1> QED
    BY <1>6, <1>7, <1>8, <1>9, <1>12, <1>13, <1>14, <1>15 DEF IInv

\* register_op undone by the backend's refusal leaves the invariant alone.
LEMMA RegisterOpRefusedIInv == IInv /\ RegisterOpRefused => IInv'
  <1> SUFFICES ASSUME IInv, RegisterOpRefused PROVE IInv'
    OBVIOUS
  <1> DEFINE i == AllocIndex(io_slab, free_slots)
             s == FreeIoSlot
  <1>1. s \in IoSlot /\ IsFree(s) /\ ~s.cancel_pending
    BY DEF FreeIoSlot, IoSlot, IsFree
  <1>2. /\ io_slab' = Put(io_slab, i, s)
        /\ free_slots' = Append(AllocRest(free_slots), i)
    BY DEF RegisterOpRefused
  <1>3. io_slab \in Seq(IoSlot) /\ free_slots \in Seq(Nat)
        /\ FreeStackOK(io_slab, free_slots)
    BY DEF IInv, Types, SlabInv
  <1>4. /\ SlabStep(IoSlot, io_slab, free_slots, i, s, io_slab', free_slots', 0)
        /\ i \in 1..Len(io_slab) => IsFree(io_slab[i])
    <2>1. i = AllocIndex(io_slab, free_slots)
      OBVIOUS
    <2>2. s \in IoSlot /\ IsFree(s)
      BY <1>1
    <2>3. i \in 1..Len(io_slab) => IsFree(io_slab[i])
      BY <1>3, AllocFree
    <2> HIDE DEF i, s
    <2>4. SlabStep(IoSlot, io_slab, free_slots, i, s, io_slab', free_slots', 0)
      BY <1>2, <1>3, <2>1, <2>2, RefusedOK
    <2> QED
      BY <2>3, <2>4
  <1>5. /\ i \in Nat /\ i \in 1..Len(io_slab') /\ io_slab'[i] = s
        /\ \A j \in 1..Len(io_slab') :
             j # i => j \in 1..Len(io_slab) /\ io_slab'[j] = io_slab[j]
        /\ \A j \in 1..Len(io_slab) :
             j \in 1..Len(io_slab') /\ (j # i => io_slab'[j] = io_slab[j])
    <2> HIDE DEF i, s
    <2>1. SlotFacts(io_slab, i, s, io_slab')
      BY <1>3, <1>4, SlabStepSlots
    <2> QED
      BY <2>1 DEF SlotFacts
  <1> HIDE DEF i, s
  <1>6. Types'
    BY <1>4 DEF IInv, Types, RegisterOpRefused, Dispose, cslabVars, SlabStep
  <1>7. SlabInv'
    BY <1>4 DEF IInv, SlabInv, Types, RegisterOpRefused, cslabVars, SlabStep
  <1>8. MarkInv'
    BY <1>1, <1>5 DEF IInv, MarkInv
  <1>9. cancel_slab' = cancel_slab /\ cur' = cur /\ at' = at
    BY DEF RegisterOpRefused, cslabVars
  <1>10. CurInv'
    BY <1>4, <1>5, <1>9 DEF IInv, CurInv
  <1>11. \A c \in 1..Len(cancel_slab) :
           ~IsFree(cancel_slab[c]) => cancel_slab[c].target # i
    BY <1>4 DEF IInv, CancelTargets, MarkInv
  <1>12. CancelTargets'
    BY <1>5, <1>9, <1>11 DEF IInv, CancelTargets
  <1>13. OneCancelEach'
    BY <1>9 DEF IInv, OneCancelEach
  <1>14. MarksHaveCancels'
    BY <1>1, <1>5, <1>9 DEF IInv, MarksHaveCancels
  <1>15. HandleInv'
    BY DEF IInv, HandleInv, RegisterOpRefused
  <1> QED
    BY <1>6, <1>7, <1>8, <1>10, <1>12, <1>13, <1>14, <1>15 DEF IInv

\* Marking or unmarking a live op is a step of its slab.
LEMMA MarkStep ==
  ASSUME IInv, NEW t \in 1..Len(io_slab), ~IsFree(io_slab[t]),
         NEW b \in BOOLEAN,
         io_slab' = [io_slab EXCEPT ![t].cancel_pending = b]
  PROVE  SlabStep(IoSlot, io_slab, free_slots, t,
                  [id |-> io_slab[t].id, cancel_pending |-> b],
                  io_slab', free_slots, 0)
  <1> DEFINE s == [id |-> io_slab[t].id, cancel_pending |-> b]
  <1>1. io_slab[t] \in IoSlot
    BY DEF IInv, Types
  <1>2. s \in IoSlot /\ (IsFree(s) <=> IsFree(io_slab[t]))
    BY <1>1 DEF IoSlot, IsFree
  <1>3. io_slab' = [io_slab EXCEPT ![t] = s]
    <2>1. [io_slab[t] EXCEPT !.cancel_pending = b] = s
      BY <1>1 DEF IoSlot
    <2> QED
      BY <2>1
  <1>4. io_slab \in Seq(IoSlot) /\ free_slots \in Seq(Nat)
        /\ FreeStackOK(io_slab, free_slots)
    BY DEF IInv, Types, SlabInv
  <1> HIDE DEF s
  <1>5. SlabStep(IoSlot, io_slab, free_slots, t, s, io_slab', free_slots, 0)
    BY <1>2, <1>3, <1>4, KeepOK
  <1> QED
    BY <1>5 DEF s

\* Freeing a live cancel slot is a step of the cancel slab.
LEMMA FreeCancelStep ==
  ASSUME IInv, NEW c \in 1..Len(cancel_slab), ~IsFree(cancel_slab[c]),
         FreeCancel(c)
  PROVE  SlabStep(CancelSlot, cancel_slab, free_cancels, c,
                  [cancel_slab[c] EXCEPT !.id = 0],
                  cancel_slab', free_cancels', -1)
  <1> DEFINE s == [cancel_slab[c] EXCEPT !.id = 0]
  <1>1. cancel_slab[c] \in CancelSlot
    BY DEF IInv, Types
  <1>2. s \in CancelSlot /\ IsFree(s)
    BY <1>1 DEF CancelSlot, IsFree
  <1>3. /\ cancel_slab' = [cancel_slab EXCEPT ![c] = s]
        /\ free_cancels' = Append(free_cancels, c)
    BY <1>1 DEF IInv, Types, CancelSlot, FreeCancel
  <1>4. cancel_slab \in Seq(CancelSlot) /\ free_cancels \in Seq(Nat)
        /\ FreeStackOK(cancel_slab, free_cancels)
    BY DEF IInv, Types, SlabInv
  <1> HIDE DEF s
  <1>5. SlabStep(CancelSlot, cancel_slab, free_cancels, c, s,
                 cancel_slab', free_cancels', -1)
    BY <1>2, <1>3, <1>4, FreeOK
  <1> QED
    BY <1>5 DEF s

\* Freeing a live op slot is a step of the op slab.
LEMMA FreeOpStep ==
  ASSUME IInv, NEW i \in 1..Len(io_slab), ~IsFree(io_slab[i]), FreeAndCall(i)
  PROVE  SlabStep(IoSlot, io_slab, free_slots, i, FreeIoSlot,
                  io_slab', free_slots', -1)
  <1>1. FreeIoSlot \in IoSlot /\ IsFree(FreeIoSlot)
    BY DEF FreeIoSlot, IoSlot, IsFree
  <1>2. /\ io_slab' = [io_slab EXCEPT ![i] = FreeIoSlot]
        /\ free_slots' = Append(free_slots, i)
    BY DEF FreeAndCall
  <1>3. io_slab \in Seq(IoSlot) /\ free_slots \in Seq(Nat)
        /\ FreeStackOK(io_slab, free_slots)
    BY DEF IInv, Types, SlabInv
  <1> QED
    BY <1>1, <1>2, <1>3, FreeOK

\* cancel marks an unmarked op and claims the one cancel slot that names it.
LEMMA CancelIInv ==
  ASSUME IInv, NEW op \in issued, Cancel(op)
  PROVE  IInv'
  <1> DEFINE c == AllocIndex(cancel_slab, free_cancels)
             s == [id |-> next_id, target |-> op.slot, target_id |-> op.id]
             t == op.slot
             m == [id |-> io_slab[t].id, cancel_pending |-> TRUE]
  <1>1. op.slot \in Nat /\ op.id \in Nat /\ op.id # 0 /\ next_id \in Nat \ {0}
    BY DEF IInv, Types, HandleInv, Op
  <1>2. s \in CancelSlot /\ ~IsFree(s)
    BY <1>1 DEF CancelSlot, IsFree
  <1>3. /\ cancel_slab' = Put(cancel_slab, c, s)
        /\ free_cancels' = AllocRest(free_cancels)
        /\ io_slab' = [io_slab EXCEPT ![t].cancel_pending = TRUE]
        /\ free_slots' = free_slots
    BY DEF Cancel
  <1>4. /\ io_slab \in Seq(IoSlot) /\ free_slots \in Seq(Nat)
        /\ FreeStackOK(io_slab, free_slots)
        /\ cancel_slab \in Seq(CancelSlot) /\ free_cancels \in Seq(Nat)
        /\ FreeStackOK(cancel_slab, free_cancels)
    BY DEF IInv, Types, SlabInv
  <1>5. /\ t \in 1..Len(io_slab) /\ ~IsFree(io_slab[t])
        /\ ~io_slab[t].cancel_pending /\ io_slab[t].id = op.id
    BY <1>1, <1>4 DEF Cancel, Cancellable, IsFree
  <1>6. SlabStep(IoSlot, io_slab, free_slots, t, m, io_slab', free_slots, 0)
    <2> HIDE DEF t
    <2> QED
      BY <1>3, <1>5, MarkStep DEF m
  <1>7. /\ SlabStep(CancelSlot, cancel_slab, free_cancels, c, s,
                    cancel_slab', free_cancels', 1)
        /\ c \in 1..Len(cancel_slab) => IsFree(cancel_slab[c])
    <2>1. c = AllocIndex(cancel_slab, free_cancels)
      OBVIOUS
    <2>2. c \in 1..Len(cancel_slab) => IsFree(cancel_slab[c])
      BY <1>4, AllocFree
    <2> HIDE DEF c, s
    <2>3. SlabStep(CancelSlot, cancel_slab, free_cancels, c, s,
                   cancel_slab', free_cancels', 1)
      BY <1>2, <1>3, <1>4, <2>1, AllocOK
    <2> QED
      BY <2>2, <2>3
  <1>8. m.id = op.id /\ m.cancel_pending /\ ~IsFree(m)
        /\ s.target = t /\ s.target_id = op.id
    BY <1>1, <1>5 DEF IsFree
  <1> HIDE DEF c, s, t, m
  <1>9. /\ t \in 1..Len(io_slab') /\ io_slab'[t] = m
        /\ \A j \in 1..Len(io_slab') :
             j # t => j \in 1..Len(io_slab) /\ io_slab'[j] = io_slab[j]
        /\ \A j \in 1..Len(io_slab) :
             j \in 1..Len(io_slab') /\ (j # t => io_slab'[j] = io_slab[j])
    <2>1. SlotFacts(io_slab, t, m, io_slab')
      BY <1>4, <1>6, SlabStepSlots
    <2> QED
      BY <2>1 DEF SlotFacts
  <1>10. /\ c \in 1..Len(cancel_slab') /\ cancel_slab'[c] = s
         /\ \A d \in 1..Len(cancel_slab') :
              d # c => d \in 1..Len(cancel_slab) /\ cancel_slab'[d] = cancel_slab[d]
         /\ \A d \in 1..Len(cancel_slab) :
              d \in 1..Len(cancel_slab') /\ (d # c => cancel_slab'[d] = cancel_slab[d])
    <2>1. SlotFacts(cancel_slab, c, s, cancel_slab')
      BY <1>4, <1>7, SlabStepSlots
    <2> QED
      BY <2>1 DEF SlotFacts
  <1>11. cur' = cur /\ at' = at /\ issued' = issued /\ at \in UserCode
    BY DEF Cancel, history
  <1>12. t # cur.slot
    BY <1>4, <1>5, <1>11 DEF IInv, CurInv, UserCode, NoOp
  <1>13. Types'
    <2>1. /\ io_slab' \in Seq(IoSlot) /\ free_slots' \in Seq(Nat)
          /\ cancel_slab' \in Seq(CancelSlot) /\ free_cancels' \in Seq(Nat)
      BY <1>3, <1>4, <1>6, <1>7 DEF SlabStep
    <2>2. /\ next_id' \in Nat \ {0}
          /\ UNCHANGED <<at, cur, issued, called, done_ran, cancelled, disposed,
                         twice>>
      BY <1>1 DEF Cancel, history
    <2> QED
      BY <2>1, <2>2 DEF IInv, Types
  <1>14. SlabInv'
    <2>1. inflight_ops' = Len(io_slab') - Len(free_slots')
      <3>1. Len(io_slab') - Len(free_slots) = Len(io_slab) - Len(free_slots) + 0
        BY <1>6 DEF SlabStep
      <3>2. Len(io_slab) \in Nat /\ Len(free_slots) \in Nat
        BY <1>4
      <3>3. inflight_ops' = inflight_ops
        BY DEF Cancel
      <3> QED
        BY <1>3, <3>1, <3>2, <3>3 DEF IInv, SlabInv
    <2>2. inflight_cancels' = Len(cancel_slab') - Len(free_cancels')
      BY <1>7 DEF IInv, SlabInv, Cancel, SlabStep
    <2> QED
      BY <1>3, <1>6, <1>7, <2>1, <2>2 DEF SlabInv, SlabStep
  <1>15. MarkInv'
    BY <1>8, <1>9 DEF IInv, MarkInv
  <1>16. CurInv'
    BY <1>9, <1>11, <1>12 DEF IInv, CurInv
  <1>17. HandleInv'
    BY <1>11 DEF IInv, HandleInv
  <1>18. CancelTargets'
    <2> DEFINE j(d) == cancel_slab'[d].target
    <2> SUFFICES ASSUME NEW d \in 1..Len(cancel_slab'), ~IsFree(cancel_slab'[d])
                 PROVE  /\ j(d) \in 1..Len(io_slab')
                        /\ io_slab'[j(d)].id = cancel_slab'[d].target_id
                        /\ io_slab'[j(d)].cancel_pending
                        /\ j(d) # cur'.slot
      BY DEF CancelTargets
    <2>1. CASE d = c
      BY <1>8, <1>9, <1>10, <1>11, <1>12, <2>1
    <2>2. CASE d # c
      <3>1. d \in 1..Len(cancel_slab) /\ cancel_slab'[d] = cancel_slab[d]
        BY <1>10, <2>2
      <3>2. /\ j(d) \in 1..Len(io_slab)
            /\ io_slab[j(d)].id = cancel_slab'[d].target_id
            /\ io_slab[j(d)].cancel_pending
            /\ j(d) # cur.slot
        BY <3>1 DEF IInv, CancelTargets
      <3>3. j(d) # t
        BY <1>5, <3>2
      <3> HIDE DEF j
      <3> QED
        BY <1>9, <1>11, <3>2, <3>3
    <2> QED
      BY <2>1, <2>2
  <1>19. OneCancelEach'
    BY <1>5, <1>8, <1>10 DEF IInv, OneCancelEach, CancelTargets
  <1>20. MarksHaveCancels'
    <2> SUFFICES ASSUME NEW j \in 1..Len(io_slab'), io_slab'[j].cancel_pending,
                        j # cur'.slot
                 PROVE  \E d \in 1..Len(cancel_slab') :
                          ~IsFree(cancel_slab'[d]) /\ cancel_slab'[d].target = j
      BY DEF MarksHaveCancels
    <2>1. CASE j = t
      BY <1>2, <1>8, <1>10, <2>1 DEF s
    <2>2. CASE j # t
      <3>1. PICK d \in 1..Len(cancel_slab) :
              ~IsFree(cancel_slab[d]) /\ cancel_slab[d].target = j
        BY <1>9, <1>11, <2>2 DEF IInv, MarksHaveCancels
      <3>2. d # c
        BY <1>7, <3>1
      <3> QED
        BY <1>10, <3>1, <3>2
    <2> QED
      BY <2>1, <2>2
  <1> QED
    BY <1>13, <1>14, <1>15, <1>16, <1>17, <1>18, <1>19, <1>20 DEF IInv

\* cancel undone by the backend's refusal leaves the op unmarked and no cancel
\* slot behind.
LEMMA CancelRefusedIInv ==
  ASSUME IInv, NEW op \in issued, CancelRefused(op)
  PROVE  IInv'
  <1> DEFINE c == AllocIndex(cancel_slab, free_cancels)
             s == [id |-> 0, target |-> op.slot, target_id |-> op.id]
  <1>1. s \in CancelSlot /\ IsFree(s)
    BY DEF IInv, Types, Op, CancelSlot, IsFree
  <1>2. /\ cancel_slab' = Put(cancel_slab, c, s)
        /\ free_cancels' = Append(AllocRest(free_cancels), c)
    BY DEF CancelRefused
  <1>3. /\ cancel_slab \in Seq(CancelSlot) /\ free_cancels \in Seq(Nat)
        /\ FreeStackOK(cancel_slab, free_cancels)
    BY DEF IInv, Types, SlabInv
  <1>4. /\ SlabStep(CancelSlot, cancel_slab, free_cancels, c, s,
                    cancel_slab', free_cancels', 0)
        /\ c \in 1..Len(cancel_slab) => IsFree(cancel_slab[c])
    <2>1. c = AllocIndex(cancel_slab, free_cancels)
      OBVIOUS
    <2>2. c \in 1..Len(cancel_slab) => IsFree(cancel_slab[c])
      BY <1>3, AllocFree
    <2> HIDE DEF c, s
    <2>3. SlabStep(CancelSlot, cancel_slab, free_cancels, c, s,
                   cancel_slab', free_cancels', 0)
      BY <1>1, <1>2, <1>3, <2>1, RefusedOK
    <2> QED
      BY <2>2, <2>3
  <1> HIDE DEF c, s
  <1>5. /\ c \in 1..Len(cancel_slab') /\ cancel_slab'[c] = s
        /\ \A d \in 1..Len(cancel_slab') :
             d # c => d \in 1..Len(cancel_slab) /\ cancel_slab'[d] = cancel_slab[d]
        /\ \A d \in 1..Len(cancel_slab) :
             d \in 1..Len(cancel_slab') /\ (d # c => cancel_slab'[d] = cancel_slab[d])
    <2>1. SlotFacts(cancel_slab, c, s, cancel_slab')
      BY <1>3, <1>4, SlabStepSlots
    <2> QED
      BY <2>1 DEF SlotFacts
  <1>6. io_slab' = io_slab /\ cur' = cur /\ at' = at /\ issued' = issued
    BY DEF CancelRefused, slabVars
  <1>7. Types'
    <2>1. cancel_slab' \in Seq(CancelSlot) /\ free_cancels' \in Seq(Nat)
      BY <1>4 DEF SlabStep
    <2> QED
      BY <1>6, <2>1 DEF IInv, Types, CancelRefused, Dispose, slabVars
  <1>8. SlabInv'
    BY <1>3, <1>4 DEF IInv, SlabInv, CancelRefused, slabVars, SlabStep
  <1>9. MarkInv' /\ CurInv' /\ HandleInv'
    BY <1>6 DEF IInv, MarkInv, CurInv, HandleInv
  <1>10. CancelTargets'
    BY <1>1, <1>5, <1>6 DEF IInv, CancelTargets
  <1>11. OneCancelEach'
    BY <1>1, <1>5 DEF IInv, OneCancelEach
  <1>12. MarksHaveCancels'
    BY <1>4, <1>5, <1>6 DEF IInv, MarksHaveCancels
  <1> QED
    BY <1>7, <1>8, <1>9, <1>10, <1>11, <1>12 DEF IInv

-----------------------------------------------------------------------------
(* Completions.                                                            *)

\* What the invariant says of the cancel slab alone.
CancelSlabOK ==
  /\ cancel_slab \in Seq(CancelSlot) /\ free_cancels \in Seq(Nat)
  /\ FreeStackOK(cancel_slab, free_cancels)
  /\ inflight_cancels = Len(cancel_slab) - Len(free_cancels)

\* A step after which the live cancel slots are those that named another op
\* slot than i.
Settled(i) ==
  /\ \A c \in 1..Len(cancel_slab') :
       ~IsFree(cancel_slab'[c]) => /\ c \in 1..Len(cancel_slab)
                                   /\ cancel_slab'[c] = cancel_slab[c]
                                   /\ cancel_slab[c].target # i
  /\ \A c \in 1..Len(cancel_slab) :
       ~IsFree(cancel_slab[c]) /\ cancel_slab[c].target # i =>
         c \in 1..Len(cancel_slab') /\ cancel_slab'[c] = cancel_slab[c]

\* Freeing a live cancel slot settles the op slot it names, since no other
\* live cancel slot names it.
LEMMA FreeCancelSettles ==
  ASSUME IInv, NEW c \in 1..Len(cancel_slab), ~IsFree(cancel_slab[c]),
         FreeCancel(c)
  PROVE  CancelSlabOK' /\ Settled(cancel_slab[c].target)
  <1> DEFINE s == [cancel_slab[c] EXCEPT !.id = 0]
  <1>1. SlabStep(CancelSlot, cancel_slab, free_cancels, c, s,
                 cancel_slab', free_cancels', -1)
    BY FreeCancelStep
  <1>2. cancel_slab[c] \in CancelSlot
    BY DEF IInv, Types
  <1>3. IsFree(s)
    BY <1>2 DEF CancelSlot, IsFree
  <1>4. cancel_slab \in Seq(CancelSlot) /\ free_cancels \in Seq(Nat)
    BY DEF IInv, Types
  <1> HIDE DEF s
  <1>5. SlotFacts(cancel_slab, c, s, cancel_slab')
    BY <1>1, <1>4, SlabStepSlots
  <1>6. CancelSlabOK'
    <2>1. Len(cancel_slab') - Len(free_cancels') =
            Len(cancel_slab) - Len(free_cancels) + (-1)
      BY <1>1 DEF SlabStep
    <2>2. inflight_cancels' = Len(cancel_slab) - Len(free_cancels) - 1
      BY DEF IInv, SlabInv, FreeCancel
    <2>3. Len(cancel_slab) \in Nat /\ Len(free_cancels) \in Nat
      BY <1>4
    <2>4. inflight_cancels' = Len(cancel_slab') - Len(free_cancels')
      BY <2>1, <2>2, <2>3
    <2> QED
      BY <1>1, <2>4 DEF SlabStep, CancelSlabOK
  <1>7. Settled(cancel_slab[c].target)
    BY <1>3, <1>5 DEF SlotFacts, Settled, IInv, OneCancelEach
  <1> QED
    BY <1>6, <1>7

\* The tail of complete_op: an op slot that every live cancel slot has let go
\* of is freed.
LEMMA FreeAndCallIInv ==
  ASSUME IInv, NEW i \in 1..Len(io_slab), ~IsFree(io_slab[i]), FreeAndCall(i),
         CancelSlabOK', Settled(i),
         cur.slot \in {0, i},
         next_id' = next_id, issued' = issued, done_ran' \subseteq Nat,
         cancelled' \subseteq Nat, disposed' \subseteq Nat, twice' \subseteq Nat
  PROVE  IInv'
  <1>1. SlabStep(IoSlot, io_slab, free_slots, i, FreeIoSlot,
                 io_slab', free_slots', -1)
    BY FreeOpStep
  <1>2. io_slab \in Seq(IoSlot) /\ free_slots \in Seq(Nat)
    BY DEF IInv, Types
  <1>3. SlotFacts(io_slab, i, FreeIoSlot, io_slab')
    BY <1>1, <1>2, SlabStepSlots
  <1>4. IsFree(FreeIoSlot) /\ ~FreeIoSlot.cancel_pending
    BY DEF FreeIoSlot, IsFree
  <1>5. at' = "op_cb" /\ cur' = NoOp /\ NoOp.slot = 0 /\ NoOp \in Op
    BY DEF FreeAndCall, NoOp, Op
  <1>6. Types'
    <2>1. called' \subseteq Nat
      <3>1. io_slab[i] \in IoSlot
        BY <1>2
      <3>2. io_slab[i].id \in Nat
        BY <3>1 DEF IoSlot
      <3> QED
        BY <3>2 DEF FreeAndCall, IInv, Types
    <2>2. io_slab' \in Seq(IoSlot) /\ free_slots' \in Seq(Nat)
      BY <1>1 DEF SlabStep
    <2> QED
      BY <1>5, <2>1, <2>2 DEF IInv, Types, CancelSlabOK, UserCode
  <1>7. SlabInv'
    <2>1. Len(io_slab') - Len(free_slots') =
            Len(io_slab) - Len(free_slots) + (-1)
      BY <1>1 DEF SlabStep
    <2>2. inflight_ops' = Len(io_slab) - Len(free_slots) - 1
      BY DEF IInv, SlabInv, FreeAndCall
    <2>3. Len(io_slab) \in Nat /\ Len(free_slots) \in Nat
      BY <1>2
    <2>4. inflight_ops' = Len(io_slab') - Len(free_slots')
      BY <2>1, <2>2, <2>3
    <2> QED
      BY <1>1, <2>4 DEF SlabStep, SlabInv, CancelSlabOK
  <1>8. MarkInv'
    BY <1>3, <1>4 DEF IInv, MarkInv, SlotFacts
  <1>9. CurInv' /\ HandleInv'
    BY <1>5 DEF IInv, CurInv, HandleInv
  <1>10. CancelTargets'
    <2> SUFFICES ASSUME NEW c \in 1..Len(cancel_slab'), ~IsFree(cancel_slab'[c])
                 PROVE  /\ cancel_slab'[c].target \in 1..Len(io_slab')
                        /\ io_slab'[cancel_slab'[c].target].id
                             = cancel_slab'[c].target_id
                        /\ io_slab'[cancel_slab'[c].target].cancel_pending
                        /\ cancel_slab'[c].target # cur'.slot
      BY DEF CancelTargets
    <2>1. /\ c \in 1..Len(cancel_slab) /\ cancel_slab'[c] = cancel_slab[c]
          /\ cancel_slab[c].target # i
      BY DEF Settled
    <2>2. /\ cancel_slab[c].target \in 1..Len(io_slab)
          /\ io_slab[cancel_slab[c].target].id = cancel_slab[c].target_id
          /\ io_slab[cancel_slab[c].target].cancel_pending
      BY <2>1 DEF IInv, CancelTargets
    <2>3. cancel_slab[c].target # 0
      BY <2>2
    <2> QED
      BY <1>3, <1>5, <2>1, <2>2, <2>3 DEF SlotFacts
  <1>11. OneCancelEach'
    BY DEF IInv, OneCancelEach, Settled
  <1>12. MarksHaveCancels'
    <2> SUFFICES ASSUME NEW j \in 1..Len(io_slab'), io_slab'[j].cancel_pending
                 PROVE  \E d \in 1..Len(cancel_slab') :
                          ~IsFree(cancel_slab'[d]) /\ cancel_slab'[d].target = j
      BY DEF MarksHaveCancels
    <2>1. j # i /\ j \in 1..Len(io_slab) /\ io_slab[j].cancel_pending
      BY <1>3, <1>4 DEF SlotFacts
    <2>2. j # cur.slot
      BY <2>1
    <2>3. PICK d \in 1..Len(cancel_slab) :
            ~IsFree(cancel_slab[d]) /\ cancel_slab[d].target = j
      BY <2>1, <2>2 DEF IInv, MarksHaveCancels
    <2> QED
      BY <2>1, <2>3 DEF Settled
  <1> QED
    BY <1>6, <1>7, <1>8, <1>9, <1>10, <1>11, <1>12 DEF IInv

\* complete_op of an op without a pending cancellation: IInv leaves no other
\* way to have no cancel slot.
LEMMA CompleteOpIInv ==
  ASSUME IInv, NEW i \in DOMAIN io_slab, NEW f \in BOOLEAN, CompleteOp(i, f)
  PROVE  IInv'
  <1>1. i \in 1..Len(io_slab) /\ ~IsFree(io_slab[i]) /\ io_slab[i].id \in Nat
    <2>1. i \in 1..Len(io_slab) /\ io_slab[i] \in IoSlot
      BY DEF IInv, Types
    <2> QED
      BY <2>1 DEF CompleteOp, LiveSlot, IoSlot
  <1>2. cur = NoOp /\ cur.slot = 0
    BY DEF IInv, CurInv, CompleteOp, NoOp
  <1>3. ~io_slab[i].cancel_pending
    <2>1. IInv => TypeOK /\ PendingInv
      BY IInvMeaning
    <2>2. io_slab[i].cancel_pending => CancelsOf(i) # {}
      BY <1>1, <1>2, <2>1 DEF PendingInv
    <2> QED
      BY <2>2 DEF CompleteOp
  <1>4. \A c \in 1..Len(cancel_slab) :
          ~IsFree(cancel_slab[c]) => cancel_slab[c].target # i
    BY <1>3 DEF IInv, CancelTargets
  <1>5. UNCHANGED <<cancel_slab, free_cancels, inflight_cancels>>
    BY DEF CompleteOp, cslabVars
  <1>6. CancelSlabOK' /\ Settled(i)
    BY <1>4, <1>5 DEF IInv, Types, SlabInv, CancelSlabOK, Settled
  <1>7. FreeAndCall(i) /\ next_id' = next_id /\ issued' = issued
    BY DEF CompleteOp
  <1>8. /\ done_ran' \subseteq Nat /\ cancelled' \subseteq Nat
        /\ disposed' \subseteq Nat /\ twice' \subseteq Nat
    BY <1>1 DEF CompleteOp, Dispose, IInv, Types
  <1> QED
    BY <1>1, <1>2, <1>6, <1>7, <1>8, FreeAndCallIInv

\* The cancel slot complete_op finds is live and names the op it completes.
LEMMA FirstCancelFacts ==
  ASSUME IInv, NEW i \in DOMAIN io_slab, CancelsOf(i) # {},
         NEW c, c = FirstCancelOf(i)
  PROVE  /\ c \in 1..Len(cancel_slab) /\ ~IsFree(cancel_slab[c])
         /\ cancel_slab[c].target = i /\ cancel_slab[c].id \in Nat
  <1>1. DOMAIN cancel_slab = 1..Len(cancel_slab)
    BY DEF IInv, Types
  <1>2. PICK d \in CancelsOf(i) : TRUE
    OBVIOUS
  <1>3. \A e \in CancelsOf(i) : e = d
    BY <1>1 DEF CancelsOf, IInv, OneCancelEach
  <1>4. d \in 1..Len(cancel_slab)
    BY <1>1 DEF CancelsOf
  <1>5. \E e \in CancelsOf(i) : \A g \in CancelsOf(i) : e <= g
    BY <1>3, <1>4
  <1>6. c \in CancelsOf(i)
    BY <1>5 DEF FirstCancelOf
  <1>7. /\ c \in 1..Len(cancel_slab) /\ ~IsFree(cancel_slab[c])
        /\ cancel_slab[c].target = i
    BY <1>1, <1>6 DEF CancelsOf
  <1>8. cancel_slab[c] \in CancelSlot
    BY <1>7 DEF IInv, Types
  <1> QED
    BY <1>7, <1>8 DEF CancelSlot

\* complete_op of an op whose cancellation lost.
LEMMA CompleteOpCancelLostIInv ==
  ASSUME IInv, NEW i \in DOMAIN io_slab, CompleteOpCancelLost(i)
  PROVE  IInv'
  <1>1. i \in 1..Len(io_slab) /\ ~IsFree(io_slab[i]) /\ io_slab[i].id \in Nat
    <2>1. i \in 1..Len(io_slab) /\ io_slab[i] \in IoSlot
      BY DEF IInv, Types
    <2> QED
      BY <2>1 DEF CompleteOpCancelLost, LiveSlot, IoSlot
  <1>2. cur.slot = 0
    BY DEF IInv, CurInv, CompleteOpCancelLost, NoOp
  <1> DEFINE c == FirstCancelOf(i)
  <1>3. /\ c \in 1..Len(cancel_slab) /\ ~IsFree(cancel_slab[c])
        /\ cancel_slab[c].target = i /\ cancel_slab[c].id \in Nat
    <2>1. CancelsOf(i) # {}
      BY DEF CompleteOpCancelLost
    <2>2. c = FirstCancelOf(i)
      OBVIOUS
    <2> HIDE DEF c
    <2> QED
      BY <2>1, <2>2, FirstCancelFacts
  <1>4. /\ FreeCancel(c) /\ FreeAndCall(i) /\ next_id' = next_id
        /\ issued' = issued /\ done_ran' = done_ran /\ cancelled' = cancelled
        /\ Dispose({io_slab[i].id, cancel_slab[c].id})
    BY DEF CompleteOpCancelLost
  <1> HIDE DEF c
  <1>5. CancelSlabOK' /\ Settled(i)
    BY <1>3, <1>4, FreeCancelSettles
  <1>6. /\ done_ran' \subseteq Nat /\ cancelled' \subseteq Nat
        /\ disposed' \subseteq Nat /\ twice' \subseteq Nat
    BY <1>1, <1>3, <1>4 DEF Dispose, IInv, Types
  <1> QED
    BY <1>1, <1>2, <1>4, <1>5, <1>6, FreeAndCallIInv

\* The cancel callback returned: complete_op frees the op it was working on,
\* which is still the one it completed.
LEMMA CancelCbReturnIInv ==
  ASSUME IInv, CancelCbReturn
  PROVE  IInv'
  <1> DEFINE i == cur.slot
  <1>1. /\ i \in 1..Len(io_slab) /\ ~IsFree(io_slab[i])
        /\ io_slab[i].id = cur.id /\ cur.id \in Nat
    BY DEF IInv, CurInv, CancelCbReturn, Types, Op
  <1>2. \A c \in 1..Len(cancel_slab) :
          ~IsFree(cancel_slab[c]) => cancel_slab[c].target # i
    BY DEF IInv, CancelTargets
  <1>3. UNCHANGED <<cancel_slab, free_cancels, inflight_cancels>>
    BY DEF CancelCbReturn, cslabVars
  <1>4. CancelSlabOK' /\ Settled(i)
    BY <1>2, <1>3 DEF IInv, Types, SlabInv, CancelSlabOK, Settled
  <1>5. FreeAndCall(i) /\ next_id' = next_id /\ issued' = issued
    BY DEF CancelCbReturn
  <1>6. /\ done_ran' \subseteq Nat /\ cancelled' \subseteq Nat
        /\ disposed' \subseteq Nat /\ twice' \subseteq Nat
    BY <1>1 DEF CancelCbReturn, Dispose, IInv, Types
  <1>7. cur.slot \in {0, i}
    OBVIOUS
  <1> HIDE DEF i
  <1> QED
    BY <1>1, <1>4, <1>5, <1>6, <1>7, FreeAndCallIInv

\* complete_op of an op its cancellation stopped, up to the cancel callback:
\* the op stays live and marked while its cancel slot is free.
LEMMA CompleteOpCancelWonIInv ==
  ASSUME IInv, NEW i \in DOMAIN io_slab, CompleteOpCancelWon(i)
  PROVE  IInv'
  <1>1. i \in 1..Len(io_slab) /\ ~IsFree(io_slab[i]) /\ io_slab[i].id \in Nat
    <2>1. i \in 1..Len(io_slab) /\ io_slab[i] \in IoSlot
      BY DEF IInv, Types
    <2> QED
      BY <2>1 DEF CompleteOpCancelWon, LiveSlot, IoSlot
  <1>2. cur.slot = 0 /\ io_slab[i].cancel_pending
    BY DEF IInv, CurInv, CompleteOpCancelWon, NoOp
  <1> DEFINE c == FirstCancelOf(i)
  <1>3. /\ c \in 1..Len(cancel_slab) /\ ~IsFree(cancel_slab[c])
        /\ cancel_slab[c].target = i /\ cancel_slab[c].id \in Nat
    <2>1. CancelsOf(i) # {}
      BY DEF CompleteOpCancelWon
    <2>2. c = FirstCancelOf(i)
      OBVIOUS
    <2> HIDE DEF c
    <2> QED
      BY <2>1, <2>2, FirstCancelFacts
  <1>4. /\ FreeCancel(c) /\ Dispose({cancel_slab[c].id})
        /\ UNCHANGED <<io_slab, free_slots, inflight_ops, next_id, issued,
                       called, cancelled>>
        /\ at' = "cancel_cb" /\ cur' = [slot |-> i, id |-> io_slab[i].id]
        /\ done_ran' = done_ran \union {io_slab[i].id}
    BY DEF CompleteOpCancelWon, slabVars
  <1> HIDE DEF c
  <1>5. CancelSlabOK' /\ Settled(i)
    BY <1>3, <1>4, FreeCancelSettles
  <1>6. cur'.slot = i /\ cur'.id = io_slab[i].id /\ cur' \in Op
    BY <1>1, <1>4 DEF Op
  <1>7. Types'
    BY <1>1, <1>3, <1>4, <1>5, <1>6
       DEF IInv, Types, CancelSlabOK, Dispose, UserCode
  <1>8. SlabInv'
    BY <1>4, <1>5 DEF IInv, SlabInv, CancelSlabOK
  <1>9. MarkInv' /\ HandleInv'
    BY <1>4 DEF IInv, MarkInv, HandleInv
  <1>10. CurInv'
    BY <1>1, <1>2, <1>4, <1>6 DEF CurInv
  <1>11. CancelTargets'
    BY <1>4, <1>5, <1>6 DEF IInv, CancelTargets, Settled
  <1>12. OneCancelEach'
    BY <1>5 DEF IInv, OneCancelEach, Settled
  <1>13. MarksHaveCancels'
    <2> SUFFICES ASSUME NEW j \in 1..Len(io_slab), io_slab[j].cancel_pending,
                        j # i
                 PROVE  \E d \in 1..Len(cancel_slab') :
                          ~IsFree(cancel_slab'[d]) /\ cancel_slab'[d].target = j
      BY <1>4, <1>6 DEF MarksHaveCancels
    <2>1. j # cur.slot
      BY <1>2
    <2>2. PICK d \in 1..Len(cancel_slab) :
            ~IsFree(cancel_slab[d]) /\ cancel_slab[d].target = j
      BY <2>1 DEF IInv, MarksHaveCancels
    <2> QED
      BY <1>5, <2>2 DEF Settled
  <1> QED
    BY <1>7, <1>8, <1>9, <1>10, <1>11, <1>12, <1>13 DEF IInv

\* complete_cancel of a cancellation that took no effect: mark and cancel slot
\* go together, since a live cancel slot always names a marked op.
LEMMA CompleteCancelFailedIInv ==
  ASSUME IInv, NEW c \in DOMAIN cancel_slab, CompleteCancelFailed(c)
  PROVE  IInv'
  <1> DEFINE t == cancel_slab[c].target
             m == [id |-> io_slab[t].id, cancel_pending |-> FALSE]
  <1>1. c \in 1..Len(cancel_slab) /\ ~IsFree(cancel_slab[c])
        /\ cancel_slab[c].id \in Nat
    <2>1. c \in 1..Len(cancel_slab) /\ cancel_slab[c] \in CancelSlot
      BY DEF IInv, Types
    <2> QED
      BY <2>1 DEF CompleteCancelFailed, CancelSlot
  <1>2. /\ t \in 1..Len(io_slab) /\ io_slab[t].id = cancel_slab[c].target_id
        /\ io_slab[t].cancel_pending /\ t # cur.slot
    BY <1>1 DEF IInv, CancelTargets
  <1>3. ~IsFree(io_slab[t])
    BY <1>2 DEF IInv, MarkInv
  <1>4. cur.slot = 0 /\ at = "drain" /\ cur = NoOp
    BY DEF IInv, CurInv, CompleteCancelFailed, NoOp
  <1>5. io_slab' = [io_slab EXCEPT ![t].cancel_pending = FALSE]
    <2>1. t \in DOMAIN io_slab
      BY <1>2 DEF IInv, Types
    <2> QED
      BY <1>2, <2>1 DEF CompleteCancelFailed
  <1>6. /\ FreeCancel(c) /\ Dispose({cancel_slab[c].id})
        /\ UNCHANGED <<free_slots, inflight_ops, next_id, at, cur, issued,
                       called, done_ran, cancelled>>
    BY DEF CompleteCancelFailed
  <1>7. CancelSlabOK' /\ Settled(t)
    BY <1>1, <1>6, FreeCancelSettles
  <1>8. SlabStep(IoSlot, io_slab, free_slots, t, m, io_slab', free_slots, 0)
    <2> HIDE DEF t
    <2> QED
      BY <1>2, <1>3, <1>5, MarkStep DEF m
  <1>9. m.id = io_slab[t].id /\ ~m.cancel_pending
    OBVIOUS
  <1>10. io_slab \in Seq(IoSlot) /\ free_slots \in Seq(Nat)
    BY DEF IInv, Types
  <1> HIDE DEF t, m
  <1>11. SlotFacts(io_slab, t, m, io_slab')
    BY <1>8, <1>10, SlabStepSlots
  <1>12. Types'
    <2>1. io_slab' \in Seq(IoSlot) /\ free_slots' \in Seq(Nat)
      BY <1>6, <1>8 DEF SlabStep
    <2> QED
      BY <1>1, <1>6, <1>7, <2>1 DEF IInv, Types, CancelSlabOK, Dispose
  <1>13. SlabInv'
    <2>1. Len(io_slab') - Len(free_slots) = Len(io_slab) - Len(free_slots) + 0
      BY <1>8 DEF SlabStep
    <2>2. Len(io_slab) \in Nat /\ Len(free_slots) \in Nat
      BY <1>10
    <2>3. inflight_ops' = Len(io_slab') - Len(free_slots')
      BY <1>6, <2>1, <2>2 DEF IInv, SlabInv
    <2> QED
      BY <1>6, <1>7, <1>8, <2>3 DEF SlabInv, SlabStep, CancelSlabOK
  <1>14. MarkInv'
    BY <1>9, <1>11 DEF IInv, MarkInv, SlotFacts
  <1>15. CurInv' /\ HandleInv'
    BY <1>4, <1>6 DEF IInv, CurInv, HandleInv
  <1>16. CancelTargets'
    BY <1>6, <1>7, <1>11 DEF IInv, CancelTargets, Settled, SlotFacts
  <1>17. OneCancelEach'
    BY <1>7 DEF IInv, OneCancelEach, Settled
  <1>18. MarksHaveCancels'
    <2> SUFFICES ASSUME NEW j \in 1..Len(io_slab'), io_slab'[j].cancel_pending,
                        j # cur'.slot
                 PROVE  \E d \in 1..Len(cancel_slab') :
                          ~IsFree(cancel_slab'[d]) /\ cancel_slab'[d].target = j
      BY DEF MarksHaveCancels
    <2>1. j # t /\ j \in 1..Len(io_slab) /\ io_slab[j].cancel_pending
      BY <1>9, <1>11 DEF SlotFacts
    <2>2. PICK d \in 1..Len(cancel_slab) :
            ~IsFree(cancel_slab[d]) /\ cancel_slab[d].target = j
      BY <1>6, <2>1 DEF IInv, MarksHaveCancels
    <2> QED
      BY <1>7, <2>1, <2>2 DEF Settled
  <1> QED
    BY <1>12, <1>13, <1>14, <1>15, <1>16, <1>17, <1>18 DEF IInv

-----------------------------------------------------------------------------
(* The theorems.                                                           *)

\* The steps that only move control leave the invariant alone.
LEMMA ControlIInv ==
  ASSUME IInv, UserReturn \/ DrainEmpty \/ WaitOk \/ WaitErr \/ Drop \/ Panic
               \/ RejectCompletion
  PROVE  IInv'
  <1>1. UNCHANGED <<io_slab, free_slots, inflight_ops, cancel_slab,
                    free_cancels, inflight_cancels, next_id, cur, issued,
                    called, done_ran, cancelled>>
    BY DEF UserReturn, DrainEmpty, WaitOk, WaitErr, Drop, Panic,
           RejectCompletion, slabVars, cslabVars, history
  <1>2. /\ at' \in {"drain", "wait", "ended", "failed", "unwinding", "dropped"}
        /\ at' \notin {"unwinding", "dropped"} => cur = NoOp
    BY DEF IInv, CurInv, UserReturn, DrainEmpty, WaitOk, WaitErr, Drop, Panic,
           RejectCompletion
  <1>3. disposed' \subseteq Nat /\ twice' \subseteq Nat
    <2>1. ASSUME NEW S \in SUBSET Nat, Dispose(S)
          PROVE  disposed' \subseteq Nat /\ twice' \subseteq Nat
      BY <2>1 DEF IInv, Types, Dispose
    <2>2. CASE Drop
      <3>1. LiveIds \subseteq Nat
        <4>1. \A i \in DOMAIN io_slab : io_slab[i] \in IoSlot
          BY DEF IInv, Types
        <4>2. \A c \in DOMAIN cancel_slab : cancel_slab[c] \in CancelSlot
          BY DEF IInv, Types
        <4> QED
          BY <4>1, <4>2 DEF LiveIds, IoSlot, CancelSlot
      <3> QED
        BY <2>1, <2>2, <3>1 DEF Drop
    <2>3. CASE Panic
      <3>1. cur.id \in Nat
        BY DEF IInv, Types, Op
      <3> QED
        BY <2>1, <2>3, <3>1 DEF Panic
    <2>4. CASE UNCHANGED <<disposed, twice>>
      BY <2>4 DEF IInv, Types
    <2> QED
      BY <2>2, <2>3, <2>4 DEF UserReturn, DrainEmpty, WaitOk, WaitErr,
                              RejectCompletion, history
  <1>4. Types'
    BY <1>1, <1>2, <1>3 DEF IInv, Types
  <1>5. SlabInv' /\ MarkInv' /\ HandleInv'
    BY <1>1 DEF IInv, SlabInv, MarkInv, HandleInv
  <1>6. CurInv'
    BY <1>1, <1>2 DEF CurInv
  <1>7. CancelTargets' /\ OneCancelEach' /\ MarksHaveCancels'
    BY <1>1 DEF IInv, CancelTargets, OneCancelEach, MarksHaveCancels
  <1> QED
    BY <1>4, <1>5, <1>6, <1>7 DEF IInv

\* Every step of the runtime preserves the invariant, whatever the backend
\* reports and whatever user code asks for.
LEMMA NextIInv == IInv /\ [Next]_vars => IInv'
  <1> SUFFICES ASSUME IInv, [Next]_vars PROVE IInv'
    OBVIOUS
  <1>1. CASE RegisterOp
    BY <1>1, RegisterOpIInv
  <1>2. CASE RegisterOpRefused
    BY <1>2, RegisterOpRefusedIInv
  <1>3. ASSUME NEW op \in issued, Cancel(op) \/ CancelRefused(op)
        PROVE  IInv'
    BY <1>3, CancelIInv, CancelRefusedIInv
  <1>4. CASE CancelCbReturn
    BY <1>4, CancelCbReturnIInv
  <1>5. CASE UserReturn \/ DrainEmpty \/ WaitOk \/ WaitErr \/ Drop \/ Panic
             \/ RejectCompletion
    BY <1>5, ControlIInv
  <1>6. ASSUME NEW i \in DOMAIN io_slab, NEW f \in BOOLEAN, CompleteOp(i, f)
        PROVE  IInv'
    BY <1>6, CompleteOpIInv
  <1>7. ASSUME NEW i \in DOMAIN io_slab,
               CompleteOpCancelLost(i) \/ CompleteOpCancelWon(i)
        PROVE  IInv'
    BY <1>7, CompleteOpCancelLostIInv, CompleteOpCancelWonIInv
  <1>8. ASSUME NEW c \in DOMAIN cancel_slab, CompleteCancelFailed(c)
        PROVE  IInv'
    BY <1>8, CompleteCancelFailedIInv
  <1>9. CASE UNCHANGED vars
    <2>1. UNCHANGED <<io_slab, free_slots, inflight_ops, cancel_slab,
                      free_cancels, inflight_cancels, next_id, at, cur, issued,
                      called, done_ran, cancelled, disposed, twice>>
      BY <1>9 DEF vars, slabVars, cslabVars, history
    <2> QED
      BY <2>1 DEF IInv, Types, SlabInv, MarkInv, CurInv, HandleInv,
                  CancelTargets, OneCancelEach, MarksHaveCancels
  <1>10. ASSUME NEW c, NEW r, CompleteCancelIgnored(c, r)
         PROVE  IInv'
    BY <1>9, <1>10 DEF CompleteCancelIgnored
  <1>11. CASE Dropped
    BY <1>9, <1>11 DEF Dropped
  <1> QED
    BY <1>1, <1>2, <1>3, <1>4, <1>5, <1>6, <1>7, <1>8, <1>9, <1>10, <1>11
       DEF Next, User, TakeCompletion, Drive

\* The inductive invariant holds of every reachable state.
LEMMA InvariantHolds == Spec => []IInv
  <1>1. Init => IInv
    BY InitIInv
  <1>2. IInv /\ [Next]_vars => IInv'
    BY NextIInv
  <1> QED
    BY <1>1, <1>2, PTL DEF Spec

\* Neither in-flight counter ever underflows, and every slot and handle keeps
\* its type, for any number of ops and any backend.
THEOREM TypeCorrect == Spec => []TypeOK
  <1>1. IInv => TypeOK
    BY IInvMeaning
  <1> QED
    BY <1>1, InvariantHolds, PTL

\* alloc_op_slot and alloc_cancel_slot never hand out a slot in use, no free
\* slot is lost, and the counters count the live slots exactly.
THEOREM SlabsExact == Spec => []SlabInv
  <1>1. IInv => SlabInv
    BY DEF IInv
  <1> QED
    BY <1>1, InvariantHolds, PTL

\* A marked op has exactly one live cancel slot and a live cancel slot names a
\* marked op by slot and id: complete_op's find_cancel_of cannot miss, and the
\* case in which it finds nothing (its caller ignores it) never arises.
THEOREM MarksMatchCancels == Spec => []PendingInv
  <1>1. IInv => PendingInv
    BY IInvMeaning
  <1> QED
    BY <1>1, InvariantHolds, PTL

\* drive stops by itself only when every slot of both slabs is free: counters
\* that both read zero leave no op and no cancellation behind.
THEOREM DriveEndsQuiescent == Spec => []QuiescentEnd
  <1> DEFINE EndInv == at = "ended" => inflight_ops = 0 /\ inflight_cancels = 0
  <1>1. Init => EndInv
    BY DEF Init
  <1>2. EndInv /\ [Next]_vars => EndInv'
    BY DEF Next, User, TakeCompletion, Drive, RegisterOp, RegisterOpRefused,
           Cancel, CancelRefused, CancelCbReturn, UserReturn, Panic, CompleteOp,
           CompleteOpCancelLost, CompleteOpCancelWon, CompleteCancelIgnored,
           CompleteCancelFailed, RejectCompletion, DrainEmpty, WaitOk, WaitErr,
           Drop, Dropped, FreeAndCall, HasInflight, UserCode, slabVars,
           cslabVars, vars
  <1>3. IInv /\ EndInv => QuiescentEnd
    <2> SUFFICES ASSUME IInv, inflight_ops = 0, inflight_cancels = 0
                 PROVE  /\ \A i \in DOMAIN io_slab : IsFree(io_slab[i])
                        /\ \A c \in DOMAIN cancel_slab : IsFree(cancel_slab[c])
      BY DEF QuiescentEnd
    <2>1. /\ io_slab \in Seq(IoSlot) /\ free_slots \in Seq(Nat)
          /\ FreeStackOK(io_slab, free_slots)
          /\ cancel_slab \in Seq(CancelSlot) /\ free_cancels \in Seq(Nat)
          /\ FreeStackOK(cancel_slab, free_cancels)
      BY DEF IInv, Types, SlabInv
    <2>2. Len(free_slots) = Len(io_slab) /\ Len(free_cancels) = Len(cancel_slab)
      <3>1. /\ Len(free_slots) \in Nat /\ Len(io_slab) \in Nat
            /\ Len(free_cancels) \in Nat /\ Len(cancel_slab) \in Nat
        BY <2>1
      <3>2. /\ 0 = Len(io_slab) - Len(free_slots)
            /\ 0 = Len(cancel_slab) - Len(free_cancels)
        BY DEF IInv, SlabInv
      <3> QED
        BY <3>1, <3>2
    <2>3. \A i \in 1..Len(io_slab) : IsFree(io_slab[i])
      BY <2>1, <2>2, StackLength
    <2>4. \A c \in 1..Len(cancel_slab) : IsFree(cancel_slab[c])
      BY <2>1, <2>2, StackLength
    <2>5. DOMAIN io_slab = 1..Len(io_slab)
      BY <2>1
    <2>6. DOMAIN cancel_slab = 1..Len(cancel_slab)
      BY <2>1
    <2> QED
      BY <2>3, <2>4, <2>5, <2>6
  <1> QED
    BY <1>1, <1>2, <1>3, InvariantHolds, PTL DEF Spec

-----------------------------------------------------------------------------
(* A slab as the set of its live handles.                                  *)

LiveSlots(slab) == {i \in 1..Len(slab) : ~IsFree(slab[i])}

Live(slab) == {[slot |-> i, id |-> slab[i].id] : i \in LiveSlots(slab)}

Ops == Live(io_slab)
Cancels == Live(cancel_slab)

IdsOf(handles) == {h.id : h \in handles}

\* The ids whose local sits in a live slot.
Held == IdsOf(Ops) \union IdsOf(Cancels)

\* The ids given out so far.
Given == 1..(next_id - 1)

-----------------------------------------------------------------------------
(* The inductive invariant.                                                *)

\* Live ids have been given out, to one op or one cancellation each.
IdInv ==
  /\ next_id - 1 <= MaxId
  /\ IdsOf(Ops) \subseteq Given
  /\ IdsOf(Cancels) \subseteq Given
  /\ \A g, h \in Ops : g.id = h.id => g = h
  /\ \A g, h \in Cancels : g.id = h.id => g = h
  /\ IdsOf(Ops) \intersect IdsOf(Cancels) = {}

\* Every live op has a handle, and no two handles have one id.
IssuedInv ==
  /\ Ops \subseteq issued
  /\ \A op \in issued : op.id \in Given /\ op.slot \in 1..Len(io_slab)
  /\ \A a, b \in issued : a.id = b.id => a = b

\* Callbacks run in order: an op is live until called; the op whose cancel
\* callback runs is the only one with its cancel callback behind it and its
\* own callback ahead.
CallInv ==
  /\ \A op \in issued : op.id \in called <=> op \notin Ops
  /\ called \subseteq Given
  /\ cancelled = done_ran \intersect called
  /\ at \notin {"cancel_cb", "unwinding", "dropped"} => done_ran \subseteq called
  /\ at = "cancel_cb" => /\ cur \in Ops
                         /\ cur.id \in done_ran
                         /\ done_ran \subseteq called \union {cur.id}

\* The locals still held are those of the live slots, but for the one
\* complete_op has taken out of a slot it has not freed yet.
LocalInv ==
  /\ disposed \subseteq Given
  /\ Given \ Held \subseteq disposed
  /\ at # "dropped" => /\ twice = {}
                       /\ disposed \intersect Held \subseteq {cur.id}
  /\ at \notin {"unwinding", "dropped"} => disposed \intersect Held = {}
  /\ at = "dropped" => Given \subseteq disposed /\ twice \subseteq {cur.id}

HInv == IdInv /\ IssuedInv /\ CallInv /\ LocalInv

\* OpContract with the live ops read off the handles.
Abs == INSTANCE OpContract WITH Ids <- 1..MaxId, live <- IdsOf(Ops)

ContractStep == [Abs!Next]_(Abs!vars)


-----------------------------------------------------------------------------
(* What a step of a slab does to its live handles.                         *)

\* A handle is in the set exactly when its slot is live and holds its id.
LEMMA LiveMember ==
  ASSUME NEW slab, NEW h
  PROVE  h \in Live(slab) <=>
           \E i \in 1..Len(slab) :
             ~IsFree(slab[i]) /\ h = [slot |-> i, id |-> slab[i].id]
  BY DEF Live, LiveSlots

\* Claiming a slot that is not in use adds its handle.
LEMMA LiveAdd ==
  ASSUME NEW slab, NEW slab2, NEW i, NEW s, SlotFacts(slab, i, s, slab2),
         i \in 1..Len(slab) => IsFree(slab[i]), ~IsFree(s)
  PROVE  Live(slab2) = Live(slab) \union {[slot |-> i, id |-> s.id]}
  <1>1. LiveSlots(slab2) = LiveSlots(slab) \union {i}
    BY DEF SlotFacts, LiveSlots
  <1>2. \A j \in LiveSlots(slab) : slab2[j] = slab[j]
    BY DEF SlotFacts, LiveSlots
  <1> QED
    BY <1>1, <1>2 DEF Live, SlotFacts

\* A slot that was not in use and is not in use now concerns no handle.
LEMMA LiveSame ==
  ASSUME NEW slab, NEW slab2, NEW i, NEW s, SlotFacts(slab, i, s, slab2),
         i \in 1..Len(slab) => IsFree(slab[i]), IsFree(s)
  PROVE  Live(slab2) = Live(slab)
  <1>1. LiveSlots(slab2) = LiveSlots(slab)
    BY DEF SlotFacts, LiveSlots
  <1>2. \A j \in LiveSlots(slab) : slab2[j] = slab[j]
    BY DEF SlotFacts, LiveSlots
  <1> QED
    BY <1>1, <1>2 DEF Live

\* Freeing a live slot removes its handle and no other.
LEMMA LiveRemove ==
  ASSUME NEW slab, NEW slab2, NEW i, NEW s, SlotFacts(slab, i, s, slab2),
         i \in 1..Len(slab), ~IsFree(slab[i]), IsFree(s)
  PROVE  Live(slab2) = Live(slab) \ {[slot |-> i, id |-> slab[i].id]}
  <1>1. LiveSlots(slab2) = LiveSlots(slab) \ {i}
    BY DEF SlotFacts, LiveSlots
  <1>2. \A j \in LiveSlots(slab2) : slab2[j] = slab[j]
    BY DEF SlotFacts, LiveSlots
  <1>3. \A h : h \in Live(slab2) <=> h \in Live(slab) /\ h.slot # i
    BY <1>1, <1>2 DEF Live
  <1>4. \A h \in Live(slab) : h.slot = i <=> h = [slot |-> i, id |-> slab[i].id]
    BY DEF Live
  <1> QED
    BY <1>3, <1>4

\* Marking an op or clearing its mark keeps its handle.
LEMMA LiveKeep ==
  ASSUME NEW slab, NEW slab2, NEW i, NEW s, SlotFacts(slab, i, s, slab2),
         i \in 1..Len(slab), s.id = slab[i].id
  PROVE  Live(slab2) = Live(slab)
  <1>1. \A j \in 1..Len(slab2) : j \in 1..Len(slab) /\ slab2[j].id = slab[j].id
    BY DEF SlotFacts
  <1>2. LiveSlots(slab2) = LiveSlots(slab)
    BY <1>1 DEF SlotFacts, LiveSlots, IsFree
  <1>3. \A j \in LiveSlots(slab) : slab2[j].id = slab[j].id
    BY <1>1 DEF SlotFacts, LiveSlots
  <1> QED
    BY <1>2, <1>3 DEF Live

\* alloc and Put add the handle of the slot they fill.
LEMMA AllocLive ==
  ASSUME NEW S, NEW slab \in Seq(S), NEW free \in Seq(Nat),
         FreeStackOK(slab, free), NEW s \in S, ~IsFree(s),
         NEW i, i = AllocIndex(slab, free),
         NEW slab2, slab2 = Put(slab, i, s)
  PROVE  /\ Live(slab2) = Live(slab) \union {[slot |-> i, id |-> s.id]}
         /\ i \in 1..Len(slab2) /\ 1..Len(slab) \subseteq 1..Len(slab2)
  <1>1. SlabStep(S, slab, free, i, s, slab2, AllocRest(free), 1)
    BY AllocOK
  <1>2. SlotFacts(slab, i, s, slab2)
    BY <1>1, SlabStepSlots
  <1>3. i \in 1..Len(slab) => IsFree(slab[i])
    BY AllocFree
  <1> QED
    <2>1. Live(slab2) = Live(slab) \union {[slot |-> i, id |-> s.id]}
      BY <1>2, <1>3, LiveAdd
    <2> QED
      BY <1>2, <2>1 DEF SlotFacts

\* A request the backend refuses leaves the live handles as they were.
LEMMA RefusedLive ==
  ASSUME NEW S, NEW slab \in Seq(S), NEW free \in Seq(Nat),
         FreeStackOK(slab, free), NEW s \in S, IsFree(s),
         NEW i, i = AllocIndex(slab, free),
         NEW slab2, slab2 = Put(slab, i, s)
  PROVE  /\ Live(slab2) = Live(slab)
         /\ 1..Len(slab) \subseteq 1..Len(slab2)
  <1>1. SlabStep(S, slab, free, i, s, slab2, Append(AllocRest(free), i), 0)
    BY RefusedOK
  <1>2. SlotFacts(slab, i, s, slab2)
    BY <1>1, SlabStepSlots
  <1>3. i \in 1..Len(slab) => IsFree(slab[i])
    BY AllocFree
  <1> QED
    <2>1. Live(slab2) = Live(slab)
      BY <1>2, <1>3, LiveSame
    <2> QED
      BY <1>2, <2>1 DEF SlotFacts

\* The ids of a set of handles with one added.
LEMMA IdsAdd ==
  ASSUME NEW A, NEW h
  PROVE  IdsOf(A \union {h}) = IdsOf(A) \union {h.id}
  BY DEF IdsOf

\* The ids of a set of handles with some removed, when no two share an id.
LEMMA IdsRemove ==
  ASSUME NEW A, NEW B \in SUBSET A, \A f, g \in A : f.id = g.id => f = g
  PROVE  IdsOf(A \ B) = IdsOf(A) \ IdsOf(B)
  BY DEF IdsOf

\* next_op_id returns an id never given out before.
LEMMA GivenNext ==
  ASSUME IInv, next_id' = next_id + 1
  PROVE  Given' = Given \union {next_id} /\ next_id \notin Given
  BY DEF IInv, Types, Given

\* The ids Drop and OpContract read off a slab are those of its handles.
LEMMA LiveIdsOf ==
  ASSUME NEW S, NEW slab \in Seq(S)
  PROVE  {slab[i].id : i \in DOMAIN slab} \ {0} = IdsOf(Live(slab))
  <1>1. IdsOf(Live(slab)) = {slab[i].id : i \in LiveSlots(slab)}
    <2>1. ASSUME NEW x \in IdsOf(Live(slab))
          PROVE  x \in {slab[i].id : i \in LiveSlots(slab)}
      <3>1. PICK h \in Live(slab) : x = h.id
        BY DEF IdsOf
      <3>2. PICK i \in LiveSlots(slab) : h = [slot |-> i, id |-> slab[i].id]
        BY DEF Live
      <3> QED
        BY <3>1, <3>2
    <2>2. ASSUME NEW i \in LiveSlots(slab)
          PROVE  slab[i].id \in IdsOf(Live(slab))
      <3> DEFINE h == [slot |-> i, id |-> slab[i].id]
      <3>1. h \in Live(slab) /\ h.id = slab[i].id
        BY DEF Live
      <3> QED
        BY <3>1 DEF IdsOf
    <2> QED
      BY <2>1, <2>2
  <1>2. \A i : i \in LiveSlots(slab) <=> i \in DOMAIN slab /\ slab[i].id # 0
    BY DEF LiveSlots, IsFree
  <1> QED
    BY <1>1, <1>2, Zenon

\* Drop disposes of exactly the locals of the live handles.
LEMMA LiveIdFacts ==
  ASSUME IInv
  PROVE  LiveIds = Held
  <1>1. {io_slab[i].id : i \in DOMAIN io_slab} \ {0} = IdsOf(Ops)
    BY LiveIdsOf DEF IInv, Types, Ops
  <1>2. {cancel_slab[i].id : i \in DOMAIN cancel_slab} \ {0} = IdsOf(Cancels)
    BY LiveIdsOf DEF IInv, Types, Cancels
  <1> QED
    BY <1>1, <1>2 DEF LiveIds, Held

\* A step that keeps the live ops and runs no callback is a stutter of the
\* contract.
LEMMA StutterStep ==
  ASSUME IdsOf(Ops)' = IdsOf(Ops), UNCHANGED <<called, done_ran, cancelled>>
  PROVE  ContractStep
  BY DEF ContractStep, Abs!vars

\* A live id is one the contract knows.
LEMMA LiveIdInBound ==
  ASSUME IInv, HInv, NEW id \in IdsOf(Ops)
  PROVE  id \in 1..MaxId
  <1>1. id \in 1..(next_id - 1) /\ next_id - 1 <= MaxId /\ next_id \in Nat
    BY DEF IInv, Types, HInv, IdInv, Given
  <1> QED
    BY <1>1, MaxIdAssumption

-----------------------------------------------------------------------------
(* Steps that give out an id.                                              *)

\* register_op adds the handle it returns to the live ops.
LEMMA RegisterOpLive ==
  ASSUME IInv, RegisterOp,
         NEW i, i = AllocIndex(io_slab, free_slots)
  PROVE  /\ Ops' = Ops \union {[slot |-> i, id |-> next_id]}
         /\ i \in 1..Len(io_slab') /\ 1..Len(io_slab) \subseteq 1..Len(io_slab')
  <1> DEFINE s == [id |-> next_id, cancel_pending |-> FALSE]
  <1>1. s \in IoSlot /\ ~IsFree(s) /\ s.id = next_id
    BY DEF IInv, Types, IoSlot, IsFree
  <1>2. io_slab \in Seq(IoSlot) /\ free_slots \in Seq(Nat)
        /\ FreeStackOK(io_slab, free_slots)
    BY DEF IInv, Types, SlabInv
  <1>3. io_slab' = Put(io_slab, i, s)
    BY DEF RegisterOp
  <1> HIDE DEF s
  <1> QED
    BY <1>1, <1>2, <1>3, AllocLive DEF Ops

\* A refused register_op leaves the live ops as they were.
LEMMA RegisterOpRefusedLive ==
  ASSUME IInv, RegisterOpRefused
  PROVE  Ops' = Ops /\ 1..Len(io_slab) \subseteq 1..Len(io_slab')
  <1>1. io_slab \in Seq(IoSlot) /\ free_slots \in Seq(Nat)
        /\ FreeStackOK(io_slab, free_slots)
    BY DEF IInv, Types, SlabInv
  <1>2. FreeIoSlot \in IoSlot /\ IsFree(FreeIoSlot)
    BY DEF FreeIoSlot, IoSlot, IsFree
  <1>3. io_slab' = Put(io_slab, AllocIndex(io_slab, free_slots), FreeIoSlot)
    BY DEF RegisterOpRefused
  <1> QED
    BY <1>1, <1>2, <1>3, RefusedLive DEF Ops

\* A mark set or cleared leaves the live ops as they were.
LEMMA MarkLive ==
  ASSUME IInv, NEW t \in 1..Len(io_slab), ~IsFree(io_slab[t]), NEW b \in BOOLEAN,
         io_slab' = [io_slab EXCEPT ![t].cancel_pending = b]
  PROVE  Ops' = Ops /\ Len(io_slab') = Len(io_slab)
  <1> DEFINE m == [id |-> io_slab[t].id, cancel_pending |-> b]
  <1>1. io_slab \in Seq(IoSlot) /\ free_slots \in Seq(Nat)
    BY DEF IInv, Types
  <1>2. m.id = io_slab[t].id
    OBVIOUS
  <1>3. SlabStep(IoSlot, io_slab, free_slots, t, m, io_slab', free_slots, 0)
    BY MarkStep
  <1> HIDE DEF m
  <1>4. SlotFacts(io_slab, t, m, io_slab')
    BY <1>1, <1>3, SlabStepSlots
  <1>5. Ops' = Ops
    BY <1>2, <1>4, LiveKeep DEF Ops
  <1>6. Len(io_slab') = Len(io_slab)
    BY <1>1
  <1> QED
    BY <1>5, <1>6

\* cancel marks a live op.
LEMMA CancelLive ==
  ASSUME IInv, NEW op \in issued, Cancel(op)
  PROVE  Ops' = Ops /\ Len(io_slab') = Len(io_slab) /\ op \in Ops
  <1> DEFINE t == op.slot
  <1>1. /\ io_slab \in Seq(IoSlot) /\ op.id # 0
        /\ op = [slot |-> op.slot, id |-> op.id]
    BY DEF IInv, Types, HandleInv, Op
  <1>2. t \in 1..Len(io_slab) /\ ~IsFree(io_slab[t]) /\ io_slab[t].id = op.id
    BY <1>1 DEF Cancel, Cancellable, IsFree
  <1>3. io_slab' = [io_slab EXCEPT ![t].cancel_pending = TRUE]
    BY DEF Cancel
  <1>4. op \in Ops
    BY <1>1, <1>2, LiveMember DEF Ops
  <1> HIDE DEF t
  <1> QED
    BY <1>2, <1>3, <1>4, MarkLive

\* complete_cancel of a cancellation that took no effect clears a mark.
LEMMA CompleteCancelFailedLive ==
  ASSUME IInv, NEW c \in DOMAIN cancel_slab, CompleteCancelFailed(c)
  PROVE  Ops' = Ops /\ Len(io_slab') = Len(io_slab)
  <1> DEFINE t == cancel_slab[c].target
  <1>1. c \in 1..Len(cancel_slab) /\ ~IsFree(cancel_slab[c])
    BY DEF IInv, Types, CompleteCancelFailed
  <1>2. /\ t \in 1..Len(io_slab) /\ io_slab[t].cancel_pending
        /\ io_slab[t].id = cancel_slab[c].target_id
        /\ DOMAIN io_slab = 1..Len(io_slab)
    BY <1>1 DEF IInv, Types, CancelTargets
  <1>3. ~IsFree(io_slab[t])
    BY <1>2 DEF IInv, MarkInv
  <1>4. io_slab' = [io_slab EXCEPT ![t].cancel_pending = FALSE]
    BY <1>2 DEF CompleteCancelFailed
  <1> HIDE DEF t
  <1> QED
    BY <1>2, <1>3, <1>4, MarkLive

\* A fresh op or cancellation shares its id with no other.
LEMMA RegisterOpHInv ==
  ASSUME IInv, HInv, RegisterOp
  PROVE  HInv' /\ ContractStep
  <1> DEFINE i == AllocIndex(io_slab, free_slots)
             h == [slot |-> i, id |-> next_id]
  <1>1. /\ at \in UserCode /\ next_id <= MaxId /\ next_id' = next_id + 1
        /\ issued' = issued \union {h}
        /\ UNCHANGED <<cancel_slab, at, cur, called, done_ran, cancelled,
                       disposed, twice>>
    BY DEF RegisterOp, cslabVars
  <1>2. h.id = next_id /\ h.slot = i
    OBVIOUS
  <1>3. /\ Ops' = Ops \union {h}
        /\ i \in 1..Len(io_slab') /\ 1..Len(io_slab) \subseteq 1..Len(io_slab')
    BY RegisterOpLive
  <1>4. Cancels' = Cancels
    BY <1>1 DEF Cancels
  <1>5. Given' = Given \union {next_id} /\ next_id \notin Given
    BY <1>1, GivenNext
  <1> HIDE DEF i, h
  <1>6. IdsOf(Ops)' = IdsOf(Ops) \union {next_id} /\ IdsOf(Cancels)' = IdsOf(Cancels)
    BY <1>2, <1>3, <1>4, IdsAdd
  <1>7. \A g \in Ops \union Cancels \union issued : g.id # next_id
    BY <1>5 DEF HInv, IdInv, IssuedInv, IdsOf
  <1>8. IdInv'
    <2>1. next_id' - 1 <= MaxId'
      BY <1>1, MaxIdAssumption DEF IInv, Types
    <2>2. /\ IdsOf(Ops)' \subseteq Given' /\ IdsOf(Cancels)' \subseteq Given'
          /\ IdsOf(Ops)' \intersect IdsOf(Cancels)' = {}
      BY <1>5, <1>6 DEF HInv, IdInv
    <2>3. /\ \A f, g \in Ops' : f.id = g.id => f = g
          /\ \A f, g \in Cancels' : f.id = g.id => f = g
      BY <1>2, <1>3, <1>4, <1>7 DEF HInv, IdInv
    <2> QED
      BY <2>1, <2>2, <2>3 DEF IdInv
  <1>9. IssuedInv'
    BY <1>1, <1>2, <1>3, <1>5, <1>7 DEF HInv, IssuedInv
  <1>10. CallInv'
    BY <1>1, <1>2, <1>3, <1>5, <1>7 DEF HInv, CallInv
  <1>11. LocalInv'
    BY <1>1, <1>5, <1>6 DEF HInv, LocalInv, Held, UserCode
  <1>12. ContractStep
    <2>1. next_id \in 1..MaxId
      BY <1>1, MaxIdAssumption DEF IInv, Types
    <2>2. next_id \notin IdsOf(Ops) \union called
      BY <1>5 DEF HInv, IdInv, CallInv
    <2>3. Abs!Dispatch(next_id)
      BY <1>1, <1>6, <2>2 DEF Abs!Dispatch
    <2> QED
      BY <2>1, <2>3 DEF ContractStep, Abs!Next
  <1> QED
    BY <1>8, <1>9, <1>10, <1>11, <1>12 DEF HInv

\* register_op or cancel refused by the backend: an id is spent, and its local
\* dropped.
LEMMA SpentIdHInv ==
  ASSUME IInv, HInv, at \in UserCode, next_id <= MaxId, next_id' = next_id + 1,
         Dispose({next_id}), Ops' = Ops, Cancels' = Cancels,
         1..Len(io_slab) \subseteq 1..Len(io_slab'),
         UNCHANGED <<at, cur, issued, called, done_ran, cancelled>>
  PROVE  HInv' /\ ContractStep
  <1>1. Given' = Given \union {next_id} /\ next_id \notin Given
    BY GivenNext
  <1>2. IdsOf(Ops)' = IdsOf(Ops) /\ IdsOf(Cancels)' = IdsOf(Cancels)
    OBVIOUS
  <1>3. IdInv'
    <2>1. next_id' - 1 <= MaxId'
      BY MaxIdAssumption DEF IInv, Types
    <2> QED
      BY <1>1, <1>2, <2>1 DEF HInv, IdInv
  <1>4. IssuedInv'
    BY <1>1 DEF HInv, IssuedInv
  <1>5. CallInv'
    BY <1>1 DEF HInv, CallInv
  <1>6. next_id \notin disposed /\ next_id \notin Held
    BY <1>1 DEF HInv, LocalInv, IdInv, Held
  <1>7. LocalInv'
    BY <1>1, <1>2, <1>6 DEF HInv, LocalInv, Held, UserCode, Dispose
  <1> QED
    BY <1>2, <1>3, <1>4, <1>5, <1>7, StutterStep DEF HInv

\* register_op refused: the op slab's handles are as before.
LEMMA RegisterOpRefusedHInv ==
  ASSUME IInv, HInv, RegisterOpRefused
  PROVE  HInv' /\ ContractStep
  <1>1. /\ at \in UserCode /\ next_id <= MaxId /\ next_id' = next_id + 1
        /\ Dispose({next_id})
        /\ UNCHANGED <<cancel_slab, at, cur, issued, called, done_ran,
                       cancelled>>
    BY DEF RegisterOpRefused, cslabVars
  <1>2. Ops' = Ops /\ 1..Len(io_slab) \subseteq 1..Len(io_slab')
    BY RegisterOpRefusedLive
  <1>3. Cancels' = Cancels
    BY <1>1 DEF Cancels
  <1> QED
    BY <1>1, <1>2, <1>3, SpentIdHInv

\* cancel refused: the cancel slab's handles are as before.
LEMMA CancelRefusedHInv ==
  ASSUME IInv, HInv, NEW op \in issued, CancelRefused(op)
  PROVE  HInv' /\ ContractStep
  <1> DEFINE s == [id |-> 0, target |-> op.slot, target_id |-> op.id]
  <1>1. /\ at \in UserCode /\ next_id <= MaxId /\ next_id' = next_id + 1
        /\ Dispose({next_id})
        /\ UNCHANGED <<io_slab, at, cur, issued, called, done_ran, cancelled>>
    BY DEF CancelRefused, slabVars
  <1>2. Cancels' = Cancels
    <2>1. cancel_slab \in Seq(CancelSlot) /\ free_cancels \in Seq(Nat)
          /\ FreeStackOK(cancel_slab, free_cancels)
      BY DEF IInv, Types, SlabInv
    <2>2. s \in CancelSlot /\ IsFree(s)
      BY DEF IInv, Types, Op, CancelSlot, IsFree
    <2>3. cancel_slab' = Put(cancel_slab, AllocIndex(cancel_slab, free_cancels), s)
      BY DEF CancelRefused
    <2> HIDE DEF s
    <2> QED
      BY <2>1, <2>2, <2>3, RefusedLive DEF Cancels
  <1>3. Ops' = Ops /\ 1..Len(io_slab) \subseteq 1..Len(io_slab')
    BY <1>1 DEF Ops
  <1> QED
    BY <1>1, <1>2, <1>3, SpentIdHInv

\* cancel claims a cancel slot for a fresh id and only marks the op.
LEMMA CancelHInv ==
  ASSUME IInv, HInv, NEW op \in issued, Cancel(op)
  PROVE  HInv' /\ ContractStep
  <1> DEFINE c == AllocIndex(cancel_slab, free_cancels)
             s == [id |-> next_id, target |-> op.slot, target_id |-> op.id]
             h == [slot |-> c, id |-> next_id]
  <1>1. /\ at \in UserCode /\ next_id <= MaxId /\ next_id' = next_id + 1
        /\ cancel_slab' = Put(cancel_slab, c, s)
        /\ UNCHANGED <<at, cur, issued, called, done_ran, cancelled, disposed,
                       twice>>
    BY DEF Cancel, history
  <1>2. s \in CancelSlot /\ ~IsFree(s) /\ s.id = next_id /\ h.id = next_id
    BY DEF IInv, Types, Op, CancelSlot, IsFree
  <1>3. Cancels' = Cancels \union {h}
    <2>1. cancel_slab \in Seq(CancelSlot) /\ free_cancels \in Seq(Nat)
          /\ FreeStackOK(cancel_slab, free_cancels)
      BY DEF IInv, Types, SlabInv
    <2>2. c = AllocIndex(cancel_slab, free_cancels) /\ h = [slot |-> c, id |-> s.id]
      OBVIOUS
    <2> HIDE DEF c, s, h
    <2> QED
      BY <1>1, <1>2, <2>1, <2>2, AllocLive DEF Cancels
  <1>4. Ops' = Ops /\ Len(io_slab') = Len(io_slab)
    BY CancelLive
  <1>5. Given' = Given \union {next_id} /\ next_id \notin Given
    BY <1>1, GivenNext
  <1> HIDE DEF c, s, h
  <1>6. IdsOf(Cancels)' = IdsOf(Cancels) \union {next_id} /\ IdsOf(Ops)' = IdsOf(Ops)
    BY <1>2, <1>3, <1>4, IdsAdd
  <1>7. \A g \in Ops \union Cancels \union issued : g.id # next_id
    BY <1>5 DEF HInv, IdInv, IssuedInv, IdsOf
  <1>8. IdInv'
    <2>1. next_id' - 1 <= MaxId'
      BY <1>1, MaxIdAssumption DEF IInv, Types
    <2>2. /\ IdsOf(Ops)' \subseteq Given' /\ IdsOf(Cancels)' \subseteq Given'
          /\ IdsOf(Ops)' \intersect IdsOf(Cancels)' = {}
      BY <1>5, <1>6 DEF HInv, IdInv
    <2>3. /\ \A f, g \in Ops' : f.id = g.id => f = g
          /\ \A f, g \in Cancels' : f.id = g.id => f = g
      BY <1>2, <1>3, <1>4, <1>7 DEF HInv, IdInv
    <2> QED
      BY <2>1, <2>2, <2>3 DEF IdInv
  <1>9. IssuedInv'
    BY <1>1, <1>4, <1>5 DEF HInv, IssuedInv
  <1>10. CallInv'
    BY <1>1, <1>4, <1>5 DEF HInv, CallInv
  <1>11. LocalInv'
    BY <1>1, <1>5, <1>6 DEF HInv, LocalInv, Held, UserCode
  <1> QED
    BY <1>1, <1>6, <1>8, <1>9, <1>10, <1>11, StutterStep DEF HInv

-----------------------------------------------------------------------------
(* Completions.                                                            *)

\* free_cancel_slot takes out the handle of the slot it frees.
LEMMA FreeCancelLive ==
  ASSUME IInv, NEW c \in 1..Len(cancel_slab), ~IsFree(cancel_slab[c]),
         FreeCancel(c), NEW g, g = [slot |-> c, id |-> cancel_slab[c].id]
  PROVE  g \in Cancels /\ Cancels' = Cancels \ {g}
  <1> DEFINE s == [cancel_slab[c] EXCEPT !.id = 0]
  <1>1. SlabStep(CancelSlot, cancel_slab, free_cancels, c, s,
                 cancel_slab', free_cancels', -1)
    BY FreeCancelStep
  <1>2. cancel_slab \in Seq(CancelSlot) /\ free_cancels \in Seq(Nat)
    BY DEF IInv, Types
  <1>3. IsFree(s)
    <2>1. cancel_slab[c] \in CancelSlot
      BY <1>2
    <2> QED
      BY <2>1 DEF CancelSlot, IsFree
  <1> HIDE DEF s
  <1>4. SlotFacts(cancel_slab, c, s, cancel_slab')
    BY <1>1, <1>2, SlabStepSlots
  <1>5. Cancels' = Cancels \ {g}
    BY <1>3, <1>4, LiveRemove DEF Cancels
  <1>6. g \in Cancels
    BY LiveMember DEF Cancels
  <1> QED
    BY <1>5, <1>6

\* free_op_slot takes out the handle of the slot it frees.
LEMMA FreeOpLive ==
  ASSUME IInv, NEW i \in 1..Len(io_slab), ~IsFree(io_slab[i]), FreeAndCall(i),
         NEW h, h = [slot |-> i, id |-> io_slab[i].id]
  PROVE  h \in Ops /\ Ops' = Ops \ {h} /\ Len(io_slab') = Len(io_slab)
  <1>1. SlabStep(IoSlot, io_slab, free_slots, i, FreeIoSlot,
                 io_slab', free_slots', -1)
    BY FreeOpStep
  <1>2. io_slab \in Seq(IoSlot) /\ free_slots \in Seq(Nat)
    BY DEF IInv, Types
  <1>3. SlotFacts(io_slab, i, FreeIoSlot, io_slab')
    BY <1>1, <1>2, SlabStepSlots
  <1>4. IsFree(FreeIoSlot)
    BY DEF FreeIoSlot, IsFree
  <1>5. Ops' = Ops \ {h}
    BY <1>3, <1>4, LiveRemove DEF Ops
  <1>6. h \in Ops
    BY LiveMember DEF Ops
  <1>7. Len(io_slab') = Len(io_slab)
    BY <1>2 DEF FreeAndCall
  <1> QED
    BY <1>5, <1>6, <1>7

\* The tail of complete_op: the op leaves the slab as its callback is entered,
\* with the cancellation it outran, if any; it is called with Cancelled when
\* its cancel callback has just run.
LEMMA CallHInv ==
  ASSUME IInv, HInv, at \in {"drain", "cancel_cb"},
         NEW h \in Ops, NEW lost \in SUBSET Cancels,
         at = "cancel_cb" => h = cur,
         Ops' = Ops \ {h}, Cancels' = Cancels \ lost,
         Len(io_slab') = Len(io_slab),
         Dispose({h.id} \union IdsOf(lost)),
         called' = called \union {h.id},
         cancelled' = IF at = "cancel_cb" THEN cancelled \union {h.id}
                                          ELSE cancelled,
         at' = "op_cb",
         UNCHANGED <<next_id, issued, done_ran>>
  PROVE  HInv' /\ ContractStep
  <1>1. Given' = Given
    BY DEF Given
  <1>2. /\ IdsOf(Ops)' = IdsOf(Ops) \ {h.id}
        /\ IdsOf(Cancels)' = IdsOf(Cancels) \ IdsOf(lost)
    <2>1. IdsOf({h}) = {h.id}
      BY DEF IdsOf
    <2>2. {h} \in SUBSET Ops
      OBVIOUS
    <2>3. IdsOf(Ops \ {h}) = IdsOf(Ops) \ IdsOf({h})
      BY <2>2, IdsRemove DEF HInv, IdInv
    <2>4. IdsOf(Cancels \ lost) = IdsOf(Cancels) \ IdsOf(lost)
      BY IdsRemove DEF HInv, IdInv
    <2> QED
      BY <2>1, <2>3, <2>4
  <1>3. /\ h.id \in IdsOf(Ops) /\ h.id \in Given /\ h \in issued
        /\ h.id \notin called
        /\ IdsOf(lost) \subseteq IdsOf(Cancels)
    BY DEF HInv, IdInv, IssuedInv, CallInv, IdsOf
  <1>4. IdInv'
    <2>1. /\ \A f, g \in Ops' : f.id = g.id => f = g
          /\ \A f, g \in Cancels' : f.id = g.id => f = g
      BY DEF HInv, IdInv
    <2> QED
      BY <1>1, <1>2, <2>1 DEF HInv, IdInv
  <1>5. IssuedInv'
    BY <1>1 DEF HInv, IssuedInv
  <1>6. CallInv'
    <2>1. \A op \in issued' : op.id \in called' <=> op \notin Ops'
      BY <1>3 DEF HInv, CallInv, IssuedInv
    <2>2. done_ran' \subseteq called'
      BY DEF HInv, CallInv
    <2>3. cancelled' = done_ran' \intersect called'
      BY <1>3 DEF HInv, CallInv
    <2> QED
      BY <1>1, <1>3, <2>1, <2>2, <2>3 DEF HInv, CallInv
  <1>7. LocalInv'
    <2>1. ({h.id} \union IdsOf(lost)) \subseteq Held
      BY <1>3 DEF Held
    <2>2. Held' = Held \ ({h.id} \union IdsOf(lost))
      <3>1. IdsOf(Ops) \intersect IdsOf(Cancels) = {}
        BY DEF HInv, IdInv
      <3>2. Held' = IdsOf(Ops)' \union IdsOf(Cancels)'
        BY DEF Held
      <3>3. Held' = (IdsOf(Ops) \ {h.id}) \union (IdsOf(Cancels) \ IdsOf(lost))
        BY <1>2, <3>2
      <3> QED
        BY <1>3, <3>1, <3>3 DEF Held
    <2>3. twice = {} /\ disposed \intersect Held = {}
      BY DEF HInv, LocalInv
    <2>4. /\ disposed' = disposed \union ({h.id} \union IdsOf(lost))
          /\ twice' = {}
      BY <2>1, <2>3 DEF Dispose
    <2>5. Held \subseteq Given
      BY DEF HInv, IdInv, Held
    <2> QED
      BY <1>1, <2>1, <2>2, <2>3, <2>4, <2>5 DEF HInv, LocalInv
  <1>8. ContractStep
    <2>1. h.id \in 1..MaxId
      BY <1>3, LiveIdInBound
    <2>2. done_ran \subseteq called \union {h.id}
      BY DEF HInv, CallInv
    <2>3. h.id \in done_ran <=> at = "cancel_cb"
      BY <1>3 DEF HInv, CallInv
    <2>4. Abs!Call(h.id)
      BY <1>2, <1>3, <2>2, <2>3 DEF Abs!Call
    <2> QED
      BY <2>1, <2>4 DEF ContractStep, Abs!Next
  <1> QED
    BY <1>4, <1>5, <1>6, <1>7, <1>8 DEF HInv

\* complete_op with no cancellation pending.
LEMMA CompleteOpHInv ==
  ASSUME IInv, HInv, NEW i \in DOMAIN io_slab, NEW f \in BOOLEAN,
         CompleteOp(i, f)
  PROVE  HInv' /\ ContractStep
  <1> DEFINE h == [slot |-> i, id |-> io_slab[i].id]
  <1>1. i \in 1..Len(io_slab) /\ ~IsFree(io_slab[i]) /\ at = "drain"
    BY DEF IInv, Types, CompleteOp, LiveSlot
  <1>2. ~io_slab[i].cancel_pending
    <2>1. PendingInv /\ cur.slot = 0
      BY <1>1, IInvMeaning DEF IInv, CurInv, NoOp
    <2> QED
      BY <1>1, <2>1 DEF PendingInv, CompleteOp
  <1>3. /\ FreeAndCall(i) /\ Dispose({io_slab[i].id}) /\ cancelled' = cancelled
        /\ UNCHANGED <<cancel_slab, next_id, issued, done_ran>>
    BY <1>2 DEF CompleteOp, cslabVars
  <1>4. /\ h.id = io_slab[i].id /\ h = [slot |-> i, id |-> io_slab[i].id]
        /\ called' = called \union {io_slab[i].id} /\ at' = "op_cb"
    BY <1>3 DEF FreeAndCall
  <1> HIDE DEF h
  <1>5. h \in Ops /\ Ops' = Ops \ {h} /\ Len(io_slab') = Len(io_slab)
    BY <1>1, <1>3, <1>4, FreeOpLive
  <1>6. {} \in SUBSET Cancels /\ Cancels' = Cancels \ {}
    BY <1>3 DEF Cancels
  <1>7. {h.id} \union IdsOf({}) = {io_slab[i].id}
    BY <1>4 DEF IdsOf
  <1> QED
    BY <1>1, <1>3, <1>4, <1>5, <1>6, <1>7, CallHInv

\* complete_op of an op that outran its cancellation.
LEMMA CompleteOpCancelLostHInv ==
  ASSUME IInv, HInv, NEW i \in DOMAIN io_slab, CompleteOpCancelLost(i)
  PROVE  HInv' /\ ContractStep
  <1> DEFINE h == [slot |-> i, id |-> io_slab[i].id]
             c == FirstCancelOf(i)
             g == [slot |-> c, id |-> cancel_slab[c].id]
  <1>1. i \in 1..Len(io_slab) /\ ~IsFree(io_slab[i]) /\ at = "drain"
        /\ CancelsOf(i) # {}
    BY DEF IInv, Types, CompleteOpCancelLost, LiveSlot
  <1>2. /\ FreeCancel(c) /\ FreeAndCall(i)
        /\ Dispose({io_slab[i].id, cancel_slab[c].id})
        /\ UNCHANGED <<next_id, issued, done_ran, cancelled>>
    BY DEF CompleteOpCancelLost
  <1>3. /\ h.id = io_slab[i].id /\ h = [slot |-> i, id |-> io_slab[i].id]
        /\ g.id = cancel_slab[c].id
        /\ g = [slot |-> c, id |-> cancel_slab[c].id]
        /\ called' = called \union {io_slab[i].id} /\ at' = "op_cb"
    BY <1>2 DEF FreeAndCall
  <1>4. c = FirstCancelOf(i)
    OBVIOUS
  <1> HIDE DEF h, c, g
  <1>5. c \in 1..Len(cancel_slab) /\ ~IsFree(cancel_slab[c])
    BY <1>1, <1>4, FirstCancelFacts
  <1>6. h \in Ops /\ Ops' = Ops \ {h} /\ Len(io_slab') = Len(io_slab)
    BY <1>1, <1>2, <1>3, FreeOpLive
  <1>7. {g} \in SUBSET Cancels /\ Cancels' = Cancels \ {g}
    BY <1>2, <1>3, <1>5, FreeCancelLive
  <1>8. {h.id} \union IdsOf({g}) = {io_slab[i].id, cancel_slab[c].id}
    BY <1>3 DEF IdsOf
  <1> QED
    BY <1>1, <1>2, <1>3, <1>6, <1>7, <1>8, CallHInv

\* complete_op goes on once the cancel callback has returned.
LEMMA CancelCbReturnHInv ==
  ASSUME IInv, HInv, CancelCbReturn
  PROVE  HInv' /\ ContractStep
  <1> DEFINE i == cur.slot
  <1>1. /\ i \in 1..Len(io_slab) /\ ~IsFree(io_slab[i])
        /\ io_slab[i].id = cur.id /\ at = "cancel_cb"
    BY DEF IInv, CurInv, CancelCbReturn
  <1>2. /\ FreeAndCall(i) /\ Dispose({cur.id})
        /\ cancelled' = cancelled \union {io_slab[i].id}
        /\ UNCHANGED <<cancel_slab, next_id, issued, done_ran>>
    BY DEF CancelCbReturn, cslabVars
  <1>3. cur = [slot |-> i, id |-> io_slab[i].id]
    BY <1>1 DEF IInv, Types, Op
  <1>4. called' = called \union {io_slab[i].id} /\ at' = "op_cb"
    BY <1>2 DEF FreeAndCall
  <1> HIDE DEF i
  <1>5. cur \in Ops /\ Ops' = Ops \ {cur} /\ Len(io_slab') = Len(io_slab)
    BY <1>1, <1>2, <1>3, FreeOpLive
  <1>6. {} \in SUBSET Cancels /\ Cancels' = Cancels \ {}
    BY <1>2 DEF Cancels
  <1>7. {cur.id} \union IdsOf({}) = {cur.id}
    BY DEF IdsOf
  <1> QED
    BY <1>1, <1>2, <1>4, <1>5, <1>6, <1>7, CallHInv

\* A cancellation leaves the slab without its op: dropped as failed, or with
\* its callback about to run.
LEMMA SettleHInv ==
  ASSUME IInv, HInv, at = "drain", NEW g \in Cancels,
         Ops' = Ops, Cancels' = Cancels \ {g}, Len(io_slab') = Len(io_slab),
         Dispose({g.id}), at' \in {"drain", "cancel_cb"},
         UNCHANGED <<next_id, issued, called, cancelled>>,
         at' = "drain" => done_ran' = done_ran,
         at' = "cancel_cb" => cur' \in Ops /\ done_ran' = done_ran \union {cur'.id}
  PROVE  HInv' /\ ContractStep
  <1>1. Given' = Given
    BY DEF Given
  <1>2. /\ IdsOf(Ops)' = IdsOf(Ops)
        /\ IdsOf(Cancels)' = IdsOf(Cancels) \ {g.id}
    <2>1. IdsOf({g}) = {g.id}
      BY DEF IdsOf
    <2>2. {g} \in SUBSET Cancels
      OBVIOUS
    <2>3. IdsOf(Cancels \ {g}) = IdsOf(Cancels) \ IdsOf({g})
      BY <2>2, IdsRemove DEF HInv, IdInv
    <2> QED
      BY <2>1, <2>3
  <1>3. g.id \in IdsOf(Cancels)
    BY DEF IdsOf
  <1>4. IdInv'
    <2>1. /\ \A e, f \in Ops' : e.id = f.id => e = f
          /\ \A e, f \in Cancels' : e.id = f.id => e = f
      BY DEF HInv, IdInv
    <2> QED
      BY <1>1, <1>2, <2>1 DEF HInv, IdInv
  <1>5. IssuedInv'
    BY <1>1 DEF HInv, IssuedInv
  <1>6. CallInv'
    <2>1. done_ran \subseteq called /\ cancelled = done_ran \intersect called
      BY DEF HInv, CallInv
    <2>2. CASE at' = "drain"
      BY <1>1, <2>1, <2>2 DEF HInv, CallInv
    <2>3. CASE at' = "cancel_cb"
      <3>1. cur'.id \notin called
        BY <2>3 DEF HInv, CallInv, IssuedInv
      <3>2. cancelled' = done_ran' \intersect called'
        BY <2>1, <2>3, <3>1
      <3> QED
        BY <1>1, <2>1, <2>3, <3>2 DEF HInv, CallInv
    <2> QED
      BY <2>2, <2>3
  <1>7. LocalInv'
    <2>1. g.id \in Held
      BY <1>3 DEF Held
    <2>2. Held' = Held \ {g.id}
      <3>1. IdsOf(Ops) \intersect IdsOf(Cancels) = {}
        BY DEF HInv, IdInv
      <3>2. Held' = IdsOf(Ops) \union (IdsOf(Cancels) \ {g.id})
        BY <1>2 DEF Held
      <3> QED
        BY <1>3, <3>1, <3>2 DEF Held
    <2>3. twice = {} /\ disposed \intersect Held = {}
      BY DEF HInv, LocalInv
    <2>4. disposed' = disposed \union {g.id} /\ twice' = {}
      BY <2>1, <2>3 DEF Dispose
    <2>5. Held \subseteq Given
      BY DEF HInv, IdInv, Held
    <2> QED
      BY <1>1, <2>1, <2>2, <2>3, <2>4, <2>5 DEF HInv, LocalInv
  <1>8. ContractStep
    <2>1. CASE at' = "drain"
      BY <1>2, <2>1, StutterStep
    <2>2. CASE at' = "cancel_cb"
      <3> DEFINE id == cur'.id
      <3>1. id \in IdsOf(Ops) /\ done_ran' = done_ran \union {id}
        BY <2>2 DEF IdsOf
      <3> HIDE DEF id
      <3>2. id \in 1..MaxId
        BY <3>1, LiveIdInBound
      <3>3. done_ran \subseteq called
        BY DEF HInv, CallInv
      <3>4. Abs!RunDone(id)
        BY <1>2, <3>1, <3>3 DEF Abs!RunDone
      <3> QED
        BY <3>2, <3>4 DEF ContractStep, Abs!Next
    <2> QED
      BY <2>1, <2>2
  <1> QED
    BY <1>4, <1>5, <1>6, <1>7, <1>8 DEF HInv

\* complete_op of an op its cancellation stopped: the cancellation leaves the
\* slab, the op stays until its own callback.
LEMMA CompleteOpCancelWonHInv ==
  ASSUME IInv, HInv, NEW i \in DOMAIN io_slab, CompleteOpCancelWon(i)
  PROVE  HInv' /\ ContractStep
  <1> DEFINE c == FirstCancelOf(i)
             g == [slot |-> c, id |-> cancel_slab[c].id]
  <1>1. i \in 1..Len(io_slab) /\ ~IsFree(io_slab[i]) /\ at = "drain"
        /\ CancelsOf(i) # {}
    BY DEF IInv, Types, CompleteOpCancelWon, LiveSlot
  <1>2. /\ FreeCancel(c) /\ Dispose({cancel_slab[c].id})
        /\ at' = "cancel_cb" /\ cur' = [slot |-> i, id |-> io_slab[i].id]
        /\ done_ran' = done_ran \union {io_slab[i].id}
        /\ UNCHANGED <<io_slab, next_id, issued, called, cancelled>>
    BY DEF CompleteOpCancelWon, slabVars
  <1>3. /\ g.id = cancel_slab[c].id
        /\ g = [slot |-> c, id |-> cancel_slab[c].id]
        /\ c = FirstCancelOf(i)
    OBVIOUS
  <1> HIDE DEF c, g
  <1>4. c \in 1..Len(cancel_slab) /\ ~IsFree(cancel_slab[c])
    BY <1>1, <1>3, FirstCancelFacts
  <1>5. g \in Cancels /\ Cancels' = Cancels \ {g}
    BY <1>2, <1>3, <1>4, FreeCancelLive
  <1>6. Ops' = Ops
    BY <1>2 DEF Ops
  <1>7. cur' \in Ops /\ cur'.id = io_slab[i].id
    BY <1>1, <1>2, LiveMember DEF Ops
  <1> QED
    BY <1>1, <1>2, <1>3, <1>5, <1>6, <1>7, SettleHInv

\* complete_cancel of a cancellation that took no effect.
LEMMA CompleteCancelFailedHInv ==
  ASSUME IInv, HInv, NEW c \in DOMAIN cancel_slab, CompleteCancelFailed(c)
  PROVE  HInv' /\ ContractStep
  <1> DEFINE g == [slot |-> c, id |-> cancel_slab[c].id]
  <1>1. c \in 1..Len(cancel_slab) /\ ~IsFree(cancel_slab[c]) /\ at = "drain"
    BY DEF IInv, Types, CompleteCancelFailed
  <1>2. /\ FreeCancel(c) /\ Dispose({cancel_slab[c].id})
        /\ UNCHANGED <<next_id, at, cur, issued, called, done_ran, cancelled>>
    BY DEF CompleteCancelFailed
  <1>3. g.id = cancel_slab[c].id /\ g = [slot |-> c, id |-> cancel_slab[c].id]
    OBVIOUS
  <1> HIDE DEF g
  <1>4. g \in Cancels /\ Cancels' = Cancels \ {g}
    BY <1>1, <1>2, <1>3, FreeCancelLive
  <1>5. Ops' = Ops /\ Len(io_slab') = Len(io_slab)
    BY CompleteCancelFailedLive
  <1> QED
    BY <1>1, <1>2, <1>3, <1>4, <1>5, SettleHInv

-----------------------------------------------------------------------------
(* Control, teardown and panics.                                           *)

\* Where only control moves, and not into or out of a cancel callback or
\* teardown, nothing changes hands.
LEMMA ControlHInv ==
  ASSUME IInv, HInv,
         UserReturn \/ DrainEmpty \/ WaitOk \/ WaitErr \/ RejectCompletion
  PROVE  HInv' /\ ContractStep
  <1>1. UNCHANGED <<io_slab, cancel_slab, next_id, cur, issued, called,
                    done_ran, cancelled, disposed, twice>>
    BY DEF UserReturn, DrainEmpty, WaitOk, WaitErr, RejectCompletion, slabVars,
           cslabVars, history
  <1>2. /\ at \notin {"cancel_cb", "unwinding", "dropped"}
        /\ at' \notin {"cancel_cb", "dropped"}
    BY DEF UserReturn, DrainEmpty, WaitOk, WaitErr, RejectCompletion
  <1>3. Ops' = Ops /\ Cancels' = Cancels /\ Given' = Given /\ Held' = Held
    BY <1>1 DEF Ops, Cancels, Given, Held
  <1>4. IdInv' /\ IssuedInv'
    BY <1>1, <1>3 DEF HInv, IdInv, IssuedInv
  <1>5. CallInv'
    BY <1>1, <1>2, <1>3 DEF HInv, CallInv
  <1>6. LocalInv'
    BY <1>1, <1>2, <1>3 DEF HInv, LocalInv
  <1> QED
    BY <1>1, <1>3, <1>4, <1>5, <1>6, StutterStep DEF HInv

\* A panic drops the local complete_op holds; Drop drops the others, and meets
\* only that one again.
LEMMA TeardownHInv ==
  ASSUME IInv, HInv, Panic \/ Drop
  PROVE  HInv' /\ ContractStep
  <1>1. UNCHANGED <<io_slab, cancel_slab, next_id, cur, issued, called,
                    done_ran, cancelled>>
    BY DEF Panic, Drop, slabVars, cslabVars
  <1>2. at' \in {"unwinding", "dropped"}
    BY DEF Panic, Drop
  <1>3. Ops' = Ops /\ Cancels' = Cancels /\ Given' = Given /\ Held' = Held
    BY <1>1 DEF Ops, Cancels, Given, Held
  <1>4. ContractStep
    BY <1>1, <1>3, StutterStep
  <1>5. IdInv' /\ IssuedInv'
    BY <1>1, <1>3 DEF HInv, IdInv, IssuedInv
  <1>6. CallInv'
    BY <1>1, <1>2, <1>3 DEF HInv, CallInv
  <1>7. Held \subseteq Given
    BY DEF HInv, IdInv, Held
  <1>8. CASE Panic
    <2>1. at \in UserCode /\ at' = "unwinding"
      BY <1>8, PanicInAssumption DEF Panic
    <2>2. /\ disposed \intersect Held = {} /\ twice = {}
          /\ disposed \subseteq Given /\ Given \ Held \subseteq disposed
      BY <2>1 DEF HInv, LocalInv, UserCode
    <2>3. CASE at = "cancel_cb"
      <3>1. Dispose({cur.id}) /\ cur.id \in Held
        BY <1>8, <2>3 DEF Panic, HInv, CallInv, Held, IdsOf
      <3>2. disposed' = disposed \union {cur.id} /\ twice' = {}
        BY <2>2, <3>1 DEF Dispose
      <3> QED
        BY <1>1, <1>3, <1>4, <1>5, <1>6, <1>7, <2>1, <2>2, <3>1, <3>2
           DEF HInv, LocalInv
    <2>4. CASE at # "cancel_cb"
      <3>1. disposed' = disposed /\ twice' = {}
        BY <1>8, <2>2, <2>4 DEF Panic, Dispose
      <3> QED
        BY <1>1, <1>3, <1>4, <1>5, <1>6, <2>1, <2>2, <3>1 DEF HInv, LocalInv
    <2> QED
      BY <2>3, <2>4
  <1>9. CASE Drop
    <2>1. at # "dropped" /\ at' = "dropped" /\ Dispose(Held)
      BY <1>9, LiveIdFacts DEF Drop
    <2>2. /\ disposed \intersect Held \subseteq {cur.id} /\ twice = {}
          /\ disposed \subseteq Given /\ Given \ Held \subseteq disposed
      BY <2>1 DEF HInv, LocalInv
    <2>3. disposed' = disposed \union Held /\ twice' \subseteq {cur.id}
      BY <2>1, <2>2 DEF Dispose
    <2> QED
      BY <1>1, <1>3, <1>4, <1>5, <1>6, <1>7, <2>1, <2>2, <2>3 DEF HInv, LocalInv
  <1> QED
    BY <1>8, <1>9

-----------------------------------------------------------------------------
(* The theorems.                                                           *)

\* The empty runtime satisfies the invariant.
LEMMA InitHInv == Init => HInv
  <1> SUFFICES ASSUME Init PROVE HInv
    OBVIOUS
  <1>1. Ops = {} /\ Cancels = {}
    BY DEF Init, Ops, Cancels, Live, LiveSlots
  <1>2. IdsOf(Ops) = {} /\ IdsOf(Cancels) = {} /\ Held = {}
    BY <1>1 DEF IdsOf, Held
  <1>3. Given = {} /\ next_id - 1 <= MaxId
    BY MaxIdAssumption DEF Init, Given
  <1> QED
    BY <1>1, <1>2, <1>3 DEF Init, HInv, IdInv, IssuedInv, CallInv, LocalInv

\* Every step preserves the invariant and is a step of the contract.
LEMMA NextHInv == IInv /\ HInv /\ [Next]_vars => HInv' /\ ContractStep
  <1> SUFFICES ASSUME IInv, HInv, [Next]_vars PROVE HInv' /\ ContractStep
    OBVIOUS
  <1>1. CASE RegisterOp \/ RegisterOpRefused
    BY <1>1, RegisterOpHInv, RegisterOpRefusedHInv
  <1>2. ASSUME NEW op \in issued, Cancel(op) \/ CancelRefused(op)
        PROVE  HInv' /\ ContractStep
    BY <1>2, CancelHInv, CancelRefusedHInv
  <1>3. CASE CancelCbReturn
    BY <1>3, CancelCbReturnHInv
  <1>4. CASE UserReturn \/ DrainEmpty \/ WaitOk \/ WaitErr \/ RejectCompletion
    BY <1>4, ControlHInv
  <1>5. CASE Panic \/ Drop
    BY <1>5, TeardownHInv
  <1>6. ASSUME NEW i \in DOMAIN io_slab, NEW f \in BOOLEAN, CompleteOp(i, f)
        PROVE  HInv' /\ ContractStep
    BY <1>6, CompleteOpHInv
  <1>7. ASSUME NEW i \in DOMAIN io_slab,
               CompleteOpCancelLost(i) \/ CompleteOpCancelWon(i)
        PROVE  HInv' /\ ContractStep
    BY <1>7, CompleteOpCancelLostHInv, CompleteOpCancelWonHInv
  <1>8. ASSUME NEW c \in DOMAIN cancel_slab, CompleteCancelFailed(c)
        PROVE  HInv' /\ ContractStep
    BY <1>8, CompleteCancelFailedHInv
  <1>9. CASE UNCHANGED vars
    <2>1. UNCHANGED <<io_slab, cancel_slab, next_id, at, cur, issued, called,
                      done_ran, cancelled, disposed, twice>>
      BY <1>9 DEF vars, slabVars, cslabVars, history
    <2>2. Ops' = Ops /\ Cancels' = Cancels /\ Given' = Given /\ Held' = Held
      BY <2>1 DEF Ops, Cancels, Given, Held
    <2> QED
      BY <2>1, <2>2, StutterStep DEF HInv, IdInv, IssuedInv, CallInv, LocalInv
  <1>10. ASSUME NEW c, NEW r, CompleteCancelIgnored(c, r)
         PROVE  HInv' /\ ContractStep
    BY <1>9, <1>10 DEF CompleteCancelIgnored
  <1>11. CASE Dropped
    BY <1>9, <1>11 DEF Dropped
  <1> QED
    BY <1>1, <1>2, <1>3, <1>4, <1>5, <1>6, <1>7, <1>8, <1>9, <1>10, <1>11
       DEF Next, User, TakeCompletion, Drive

\* Both inductive invariants hold of every reachable state.
LEMMA HistoryHolds == Spec => [](IInv /\ HInv)
  <1>1. Init => HInv
    BY InitHInv
  <1>2. IInv /\ HInv /\ [Next]_vars => HInv'
    BY NextHInv
  <1> QED
    BY <1>1, <1>2, InvariantHolds, PTL DEF Spec

\* No op is lost and none is called twice, however many ops share a slot over
\* time: the op behind a handle is live in its slot or has been called, and
\* never both.
THEOREM NoOpLost == Spec => []OpConserved
  <1>1. IInv /\ HInv => OpConserved
    <2> SUFFICES ASSUME IInv, HInv, NEW op \in issued
                 PROVE  (op.id \in called) # (io_slab[op.slot].id = op.id)
      BY DEF OpConserved
    <2>1. op = [slot |-> op.slot, id |-> op.id] /\ op.id # 0
      BY DEF IInv, Types, Op, HandleInv
    <2>2. op.slot \in 1..Len(io_slab)
      BY DEF HInv, IssuedInv
    <2>3. op \in Ops <=> io_slab[op.slot].id = op.id
      <3>1. ASSUME op \in Ops PROVE io_slab[op.slot].id = op.id
        BY <3>1, LiveMember DEF Ops
      <3>2. ASSUME io_slab[op.slot].id = op.id PROVE op \in Ops
        BY <2>1, <2>2, <3>2, LiveMember DEF Ops, IsFree
      <3> QED
        BY <3>1, <3>2
    <2> QED
      BY <2>3 DEF HInv, CallInv
  <1> QED
    BY <1>1, HistoryHolds, PTL

\* An op is called with Cancelled exactly when its cancel callback ran first.
THEOREM CancelledExactly == Spec => []CancelledIffDone
  <1>1. IInv /\ HInv => CancelledIffDone
    BY DEF HInv, CallInv, CancelledIffDone
  <1> QED
    BY <1>1, HistoryHolds, PTL

\* No local is dropped twice or both moved to a callback and dropped, on any
\* path through refusals, completions, panics and Drop, but for the op whose
\* cancel callback panics.
THEOREM LocalsLeaveOnce == Spec => []LocalOnce
  <1>1. IInv /\ HInv => LocalOnce
    BY DEF HInv, LocalInv, LocalOnce
  <1> QED
    BY <1>1, HistoryHolds, PTL

\* Once the runtime is dropped, the local of every id it gave out is gone.
THEOREM NothingLeaks == Spec => []NoLeak
  <1>1. IInv /\ HInv => NoLeak
    BY DEF HInv, LocalInv, NoLeak, Given
  <1> QED
    BY <1>1, HistoryHolds, PTL

\* The initial states and the steps of Contract are those of Abs: the ids in
\* the slab are the ids of its handles.
LEMMA ContractStepMaps ==
  ASSUME IInv, IInv', ContractStep
  PROVE  [Contract!Next]_(Contract!vars)
  <1>1. {io_slab[i].id : i \in DOMAIN io_slab} \ {0} = IdsOf(Ops)
    BY LiveIdsOf DEF IInv, Types, Ops
  <1>2. ({io_slab[i].id : i \in DOMAIN io_slab} \ {0})' = IdsOf(Ops)'
    BY LiveIdsOf DEF IInv, Types, Ops
  <1>3. ASSUME NEW id \in 1..MaxId, Abs!Dispatch(id)
        PROVE  Contract!Dispatch(id)
    BY <1>1, <1>2, <1>3 DEF Abs!Dispatch, Contract!Dispatch
  <1>4. ASSUME NEW id \in 1..MaxId, Abs!RunDone(id)
        PROVE  Contract!RunDone(id)
    BY <1>1, <1>2, <1>4 DEF Abs!RunDone, Contract!RunDone
  <1>5. ASSUME NEW id \in 1..MaxId, Abs!Call(id)
        PROVE  Contract!Call(id)
    BY <1>1, <1>2, <1>5 DEF Abs!Call, Contract!Call
  <1>6. Abs!Next => Contract!Next
    BY <1>3, <1>4, <1>5 DEF Abs!Next, Contract!Next
  <1>7. ASSUME UNCHANGED Abs!vars PROVE UNCHANGED Contract!vars
    BY <1>1, <1>2, <1>7 DEF Abs!vars, Contract!vars
  <1> QED
    BY <1>6, <1>7 DEF ContractStep

\* The runtime implements OpContract over every backend: whatever slots are
\* reused, whatever completions are reported and wherever user code panics,
\* callbacks run as often and in the order register_op and cancel promise.
THEOREM RuntimeImplementsContract == Spec => ImplementsContract
  <1>1. Init => Contract!Init
    BY DEF Init, Contract!Init
  <1>2. (IInv /\ HInv) /\ (IInv /\ HInv)' /\ [Next]_vars
          => [Contract!Next]_(Contract!vars)
    BY NextHInv, ContractStepMaps
  <1> QED
    BY <1>1, <1>2, HistoryHolds, PTL DEF Spec, ImplementsContract, Contract!Spec
=============================================================================
