-------------------------- MODULE ContainersProofs --------------------------
(***************************************************************************)
(* Proofs about the containers: the drains are counted exactly, nothing    *)
(* a running container lives on is taken from it, a container leaves the   *)
(* map only when its outputs were read to the end or could not be read,    *)
(* its log is complete but for those, and its followers are sent whole     *)
(* lines in the log's order, for any containers, any number of pipes and   *)
(* any output.                                                             *)
(***************************************************************************)
EXTENDS Containers, FiniteSetTheorems, SequenceTheorems, TLAPS

-----------------------------------------------------------------------------
(* The inductive invariant.                                                *)

IsRecord(c) == c = [drains |-> c.drains, cache |-> c.cache, pipes |-> c.pipes]

Types ==
  /\ DOMAIN containers = Pids
  /\ \A p \in Pids : Listed(p) => IsRecord(containers[p])
  /\ armed \in [Pids -> SUBSET OutputKinds]
  /\ writer \in [Pids -> SUBSET OutputKinds]
  /\ failed \in [Pids -> SUBSET OutputKinds]
  /\ proc \in [Pids -> {"none", "running", "exited", "reaped"}]
  /\ printed \in [Pids -> [OutputKinds -> Nat]]
  /\ taken \in [Pids -> [OutputKinds -> Nat]]

\* A process holds only outputs a drain reads, or the daemon has closed, and
\* only while it runs.
WriterInv ==
  \A p \in Pids : /\ writer[p] \ failed[p] \subseteq armed[p]
                  /\ proc[p] # "running" => writer[p] = {}

\* An output no drain reads any more has been read to its end, unless a read
\* of it failed.
ReadInv ==
  \A p \in Pids : \A d \in OutputKinds :
    d \notin armed[p] \union failed[p] => taken[p][d] = printed[p][d]

\* Only a run lists a container.
NewInv == \A p \in Pids : proc[p] = "none" => ~Listed(p)

CInv ==
  /\ Types /\ DrainsCounted /\ HeldWhileRunning
  /\ WriterInv /\ ReadInv /\ NewInv

-----------------------------------------------------------------------------
(* The outputs are two: every set of drains is finite.                     *)

\* A set of drains is counted by a number, which is 0 for no drains only.
LEMMA DrainSets ==
  ASSUME NEW S \in SUBSET OutputKinds
  PROVE  IsFiniteSet(S) /\ Cardinality(S) \in Nat
         /\ (Cardinality(S) = 0 <=> S = {})
  <1>1. IsFiniteSet({"pipe"})
    BY FS_Singleton
  <1>2. IsFiniteSet({"pipe"} \union {"pty"})
    BY <1>1, FS_AddElement
  <1>3. OutputKinds = {"pipe"} \union {"pty"}
    BY DEF OutputKinds
  <1>4. IsFiniteSet(S)
    BY <1>2, <1>3, FS_Subset
  <1> QED
    BY <1>4, FS_CardinalityType, FS_EmptySet

\* A drain that ends is one less; the last one leaves none.
LEMMA DrainEnds ==
  ASSUME NEW S \in SUBSET OutputKinds, NEW d \in S
  PROVE  /\ Cardinality(S) \in Nat /\ Cardinality(S) >= 1
         /\ Cardinality(S \ {d}) = Cardinality(S) - 1
         /\ Cardinality(S) <= 1 => S \ {d} = {}
  <1>1. IsFiniteSet(S) /\ Cardinality(S) \in Nat /\ Cardinality(S) # 0
    BY DrainSets
  <1>2. Cardinality(S \ {d}) = Cardinality(S) - 1
    BY <1>1, FS_RemoveElement
  <1>3. Cardinality(S \ {d}) = 0 <=> S \ {d} = {}
    BY DrainSets
  <1> QED
    BY <1>1, <1>2, <1>3

-----------------------------------------------------------------------------
(* The steps.                                                              *)

\* A container whose record keeps its count is listed as before.
Keeps(c, c2) ==
  \/ c2 = c
  \/ c # NoContainer /\ IsRecord(c2) /\ c2.drains = c.drains

\* Such a record is of the same container, with the same count.
LEMMA KeepsListed ==
  ASSUME NEW c, NEW c2, Keeps(c, c2), c # NoContainer => c.drains \in Nat
  PROVE  /\ c2 = NoContainer <=> c = NoContainer
         /\ c # NoContainer => c2.drains = c.drains
  BY DEF Keeps, NoContainer

\* A step that keeps the drains and the counts.
LEMMA KeepDrains ==
  ASSUME CInv, DOMAIN containers' = Pids,
         \A p \in Pids : Keeps(containers[p], containers'[p]), armed' = armed
  PROVE  /\ DrainsCounted'
         /\ \A p \in Pids : /\ Listed(p)' <=> Listed(p)
                            /\ Listed(p)' => IsRecord(containers'[p])
  <1>1. \A p \in Pids : Listed(p) => containers[p].drains \in Nat
    BY DrainSets DEF CInv, Types, DrainsCounted
  <1>2. \A p \in Pids : /\ Listed(p)' <=> Listed(p)
                        /\ Listed(p) => containers'[p].drains = containers[p].drains
    BY <1>1, KeepsListed DEF Listed
  <1>3. \A p \in Pids : Listed(p)' => IsRecord(containers'[p])
    BY <1>2 DEF CInv, Types, Keeps
  <1>4. DrainsCounted'
    BY <1>2 DEF CInv, DrainsCounted
  <1> QED
    BY <1>2, <1>3, <1>4

\* A step that changes neither drains nor processes nor what they have.
LEMMA SameDrains ==
  ASSUME CInv, DOMAIN containers' = Pids,
         \A p \in Pids : Keeps(containers[p], containers'[p]),
         UNCHANGED <<armed, overlay, death, proc, writer, failed, printed, taken>>
  PROVE  CInv'
  <1>1. /\ DrainsCounted'
        /\ \A p \in Pids : /\ Listed(p)' <=> Listed(p)
                           /\ Listed(p)' => IsRecord(containers'[p])
    BY KeepDrains
  <1>2. Types'
    BY <1>1 DEF CInv, Types
  <1> QED
    BY <1>1, <1>2 DEF CInv, WriterInv, ReadInv, NewInv, HeldWhileRunning

\* A step that leaves the containers alone as well.
LEMMA SameContainers ==
  ASSUME CInv,
         UNCHANGED <<containers, armed, overlay, death, proc, writer, failed, printed, taken>>
  PROVE  CInv'
  BY SameDrains DEF CInv, Types, Keeps

\* A run lists the container with a count of the drains it arms.
LEMMA StartsCInv ==
  ASSUME CInv, NEW p \in Pids, NEW drains \in SUBSET OutputKinds, Starts(p, drains)
  PROVE  CInv'
  <1> DEFINE c == [drains |-> Cardinality(drains), cache |-> <<>>, pipes |-> {}]
  <1>1. /\ containers' = [containers EXCEPT ![p] = c]
        /\ armed' = [armed EXCEPT ![p] = drains]
        /\ writer' = [writer EXCEPT ![p] = drains]
        /\ proc' = [proc EXCEPT ![p] = "running"] /\ proc[p] = "none"
        /\ death' = death \union {p} /\ overlay' = overlay \union {p}
        /\ UNCHANGED <<failed, printed, taken>>
    BY DEF Starts
  <1>2. IsRecord(c) /\ c.drains = Cardinality(drains) /\ Cardinality(drains) \in Nat
    BY DrainSets DEF IsRecord
  <1>3. c # NoContainer
    BY <1>2 DEF NoContainer
  <1> HIDE DEF c
  <1>4. /\ containers'[p] = c /\ armed'[p] = drains /\ writer'[p] = drains
        /\ proc'[p] = "running"
        /\ \A q \in Pids : q # p =>
             /\ containers'[q] = containers[q] /\ armed'[q] = armed[q]
             /\ writer'[q] = writer[q] /\ proc'[q] = proc[q]
        /\ DOMAIN containers' = Pids
    BY <1>1 DEF CInv, Types
  <1>5. Types'
    BY <1>1, <1>2, <1>4 DEF CInv, Types, Listed
  <1>6. DrainsCounted'
    BY <1>2, <1>3, <1>4 DEF CInv, DrainsCounted, Listed
  <1>7. WriterInv' /\ NewInv'
    BY <1>1, <1>4 DEF CInv, WriterInv, NewInv, Listed
  <1>8. ReadInv'
    <2>1. armed[p] = {}
      BY <1>1 DEF CInv, NewInv, DrainsCounted
    <2> QED
      BY <1>1, <1>4, <2>1 DEF CInv, ReadInv
  <1>9. HeldWhileRunning'
    BY <1>1, <1>4 DEF CInv, HeldWhileRunning
  <1> QED
    BY <1>5, <1>6, <1>7, <1>8, <1>9 DEF CInv

\* A drain with bytes changes the log and the follow pipes, not the count.
LEMMA OutputCInv ==
  ASSUME CInv, NEW p \in Pids, NEW d \in OutputKinds, NEW k \in 1..MaxHalves,
         on_container_output(p, d, k)
  PROVE  CInv'
  <1>1. /\ d \in armed[p] /\ taken' = [taken EXCEPT ![p][d] = @ + k]
        /\ WriteLines(p, drain_lines(d, taken[p][d], taken[p][d] + k))
        /\ UNCHANGED <<armed, death, overlay, proc, writer, failed, printed>>
    BY DEF on_container_output, Reading, worldVars
  <1> DEFINE lines == drain_lines(d, taken[p][d], taken[p][d] + k)
  <1>2. DOMAIN containers' = Pids
        /\ \A q \in Pids : Keeps(containers[q], containers'[q])
    <2>1. CASE Listed(p) /\ lines # <<>>
      <3>1. containers' = [containers EXCEPT
              ![p].cache = @ \o lines,
              ![p].pipes = {[q EXCEPT !.in_flight = TRUE] : q \in @}]
        BY <1>1, <2>1 DEF WriteLines
      <3>2. DOMAIN containers' = Pids /\ IsRecord(containers[p])
            /\ \A q \in Pids : q # p => containers'[q] = containers[q]
        BY <2>1, <3>1 DEF CInv, Types
      <3>3. IsRecord(containers'[p]) /\ containers'[p].drains = containers[p].drains
        BY <2>1, <3>1, <3>2 DEF CInv, Types, IsRecord
      <3> QED
        BY <2>1, <3>2, <3>3 DEF Keeps, Listed
    <2>2. CASE ~(Listed(p) /\ lines # <<>>)
      <3>1. containers' = containers
        BY <1>1, <2>2 DEF WriteLines
      <3> QED
        BY <3>1 DEF CInv, Types, Keeps
    <2> QED
      BY <2>1, <2>2
  <1> HIDE DEF lines
  <1>3. /\ DrainsCounted'
        /\ \A q \in Pids : /\ Listed(q)' <=> Listed(q)
                           /\ Listed(q)' => IsRecord(containers'[q])
    BY <1>1, <1>2, KeepDrains
  <1>4. /\ taken' \in [Pids -> [OutputKinds -> Nat]]
        /\ \A q \in Pids : \A c \in OutputKinds :
             (q = p /\ c = d) \/ taken'[q][c] = taken[q][c]
    BY <1>1 DEF CInv, Types
  <1>5. Types'
    BY <1>1, <1>2, <1>3, <1>4 DEF CInv, Types
  <1>6. ReadInv'
    BY <1>1, <1>4 DEF CInv, ReadInv
  <1> QED
    BY <1>1, <1>3, <1>5, <1>6 DEF CInv, WriterInv, NewInv, HeldWhileRunning

\* A drain that ends: the count goes down by one, and the last drain takes the
\* container out of the map, with nothing left that it could write to.
LEMMA FinishCInv ==
  ASSUME CInv, NEW p \in Pids, NEW d \in OutputKinds,
         OutputEnds(p, d) \/ OutputReadFails(p, d)
  PROVE  CInv'
  <1>1. /\ d \in armed[p]
        /\ armed' = [armed EXCEPT ![p] = @ \ {d}] /\ finish_drain(p)
        /\ UNCHANGED <<death, proc, writer, printed, taken>>
    BY DEF OutputEnds, OutputReadFails, finish_container_output, Reading, finish_drain
  <1>11. /\ failed' \in [Pids -> SUBSET OutputKinds]
         /\ \A q \in Pids : failed[q] \subseteq failed'[q]
         /\ d \notin failed'[p] => d \notin writer[p] /\ printed[p][d] = taken[p][d]
    <2>1. failed \in [Pids -> SUBSET OutputKinds]
      BY DEF CInv, Types
    <2>2. CASE OutputEnds(p, d)
      BY <2>1, <2>2 DEF OutputEnds
    <2>3. CASE failed' = [failed EXCEPT ![p] = @ \union {d}]
      <3>1. /\ failed'[p] = failed[p] \union {d}
            /\ \A q \in Pids : q # p => failed'[q] = failed[q]
        BY <2>1, <2>3
      <3>2. failed' \in [Pids -> SUBSET OutputKinds]
        BY <2>1, <2>3
      <3> QED
        BY <3>1, <3>2
    <2> QED
      BY <2>2, <2>3 DEF OutputReadFails
  <1>2. armed'[p] = armed[p] \ {d} /\ armed' \in [Pids -> SUBSET OutputKinds]
        /\ \A q \in Pids : q # p => armed'[q] = armed[q]
    BY <1>1 DEF CInv, Types
  <1>3. Listed(p) /\ containers[p].drains = Cardinality(armed[p])
    BY <1>1 DEF CInv, DrainsCounted
  <1>4. /\ Cardinality(armed[p]) \in Nat /\ Cardinality(armed[p]) >= 1
        /\ Cardinality(armed'[p]) = Cardinality(armed[p]) - 1
        /\ Cardinality(armed[p]) <= 1 => armed'[p] = {}
    <2>1. armed[p] \in SUBSET OutputKinds
      BY DEF CInv, Types
    <2> QED
      BY <1>1, <1>2, <2>1, DrainEnds
  <1>5. WriterInv'
    BY <1>1, <1>2, <1>11 DEF CInv, WriterInv
  <1>6. ReadInv'
    BY <1>1, <1>2, <1>11 DEF CInv, ReadInv
  <1>7. \A q \in Pids : q # p => containers'[q] = containers[q]
    BY <1>1, <1>3 DEF CInv, Types, finish_drain, RemoveContainer
  <1>8. DOMAIN containers' = Pids
    BY <1>1, <1>3 DEF CInv, Types, finish_drain, RemoveContainer
  <1>9. CASE containers[p].drains <= 1
    <2>1. containers'[p] = NoContainer /\ overlay' = overlay \ {p}
      BY <1>1, <1>3, <1>9 DEF CInv, Types, finish_drain, RemoveContainer
    <2>2. armed'[p] = {}
      BY <1>3, <1>4, <1>9
    <2>3. Types'
      BY <1>1, <1>2, <1>11, <1>7, <1>8, <2>1 DEF CInv, Types, Listed
    <2>4. DrainsCounted' /\ NewInv'
      BY <1>1, <1>2, <1>7, <2>1, <2>2 DEF CInv, DrainsCounted, NewInv, Listed
    <2>5. writer'[p] \ failed'[p] = {}
      BY <1>5, <2>2 DEF WriterInv
    <2>6. HeldWhileRunning'
      BY <1>1, <1>11, <2>1, <2>5 DEF CInv, HeldWhileRunning
    <2> QED
      BY <1>5, <1>6, <2>3, <2>4, <2>6 DEF CInv
  <1>10. CASE ~(containers[p].drains <= 1)
    <2>1. containers' = [containers EXCEPT ![p].drains = @ - 1]
          /\ overlay' = overlay
      BY <1>1, <1>3, <1>10 DEF finish_drain
    <2>2. IsRecord(containers[p])
      BY <1>3 DEF CInv, Types
    <2>3. IsRecord(containers'[p])
          /\ containers'[p].drains = containers[p].drains - 1
      BY <2>1, <2>2 DEF CInv, Types, IsRecord
    <2>4. Listed(p)'
      BY <1>3, <1>4, <2>3 DEF Listed, NoContainer
    <2>5. Types'
      BY <1>1, <1>2, <1>11, <1>7, <1>8, <2>3 DEF CInv, Types, Listed
    <2>6. DrainsCounted'
      BY <1>2, <1>3, <1>4, <1>7, <2>3, <2>4 DEF CInv, DrainsCounted, Listed
    <2>7. NewInv' /\ HeldWhileRunning'
      BY <1>1, <1>11, <1>3, <1>7, <2>1 DEF CInv, NewInv, HeldWhileRunning, Listed
    <2> QED
      BY <1>5, <1>6, <2>5, <2>6, <2>7 DEF CInv
  <1> QED
    BY <1>9, <1>10

\* The reaper removes a container only once it has exited and no drain runs.
LEMMA ReapCInv ==
  ASSUME CInv, NEW p \in Pids, reap_children(p)
  PROVE  CInv'
  <1>1. /\ proc[p] = "exited" /\ proc' = [proc EXCEPT ![p] = "reaped"]
        /\ UNCHANGED <<armed, writer, failed, printed, taken>>
    BY DEF reap_children
  <1>2. /\ proc' \in [Pids -> {"none", "running", "exited", "reaped"}]
        /\ proc'[p] = "reaped" /\ \A q \in Pids : q # p => proc'[q] = proc[q]
    BY <1>1 DEF CInv, Types
  <1>3. WriterInv' /\ ReadInv'
    BY <1>1, <1>2 DEF CInv, WriterInv, ReadInv
  <1>4. CASE /\ Listed(p) /\ containers[p].drains = 0 /\ RemoveContainer(p)
             /\ death' = death \ {p}
    <2>1. /\ containers'[p] = NoContainer /\ DOMAIN containers' = Pids
          /\ \A q \in Pids : q # p => containers'[q] = containers[q]
          /\ overlay' = overlay \ {p}
      BY <1>4 DEF CInv, Types, RemoveContainer
    <2>2. armed[p] = {}
      BY <1>4, DrainSets DEF CInv, Types, DrainsCounted
    <2>3. Types'
      BY <1>1, <1>2, <2>1 DEF CInv, Types, Listed
    <2>4. DrainsCounted' /\ NewInv'
      BY <1>1, <1>2, <2>1, <2>2 DEF CInv, DrainsCounted, NewInv, Listed
    <2>5. HeldWhileRunning'
      BY <1>1, <1>2, <1>4, <2>1 DEF CInv, HeldWhileRunning
    <2> QED
      BY <1>3, <2>3, <2>4, <2>5 DEF CInv
  <1>5. CASE UNCHANGED <<containers, overlay, death>>
    <2>1. Types'
      BY <1>1, <1>2, <1>5 DEF CInv, Types, Listed
    <2>2. DrainsCounted' /\ NewInv'
      BY <1>1, <1>2, <1>5 DEF CInv, DrainsCounted, NewInv, Listed
    <2>3. HeldWhileRunning'
      BY <1>1, <1>2, <1>5 DEF CInv, HeldWhileRunning
    <2> QED
      BY <1>3, <2>1, <2>2, <2>3 DEF CInv
  <1> QED
    BY <1>4, <1>5 DEF reap_children

\* A follower is added to a listed container.
LEMMA FollowCInv ==
  ASSUME CInv, NEW p \in Pids, handle_follow(p)
  PROVE  CInv'
  <1>1. /\ Listed(p)
        /\ containers' = [containers EXCEPT ![p].pipes = @ \union
             {[id |-> next_pipe, fd |-> Min(FreeFds), in_flight |-> FALSE]}]
        /\ UNCHANGED <<armed, death, overlay, proc, writer, failed, printed, taken>>
    BY DEF handle_follow, worldVars
  <1>2. IsRecord(containers[p])
    BY <1>1 DEF CInv, Types
  <1>3. /\ DOMAIN containers' = Pids /\ IsRecord(containers'[p])
        /\ containers'[p].drains = containers[p].drains
        /\ \A q \in Pids : q # p => containers'[q] = containers[q]
    BY <1>1, <1>2 DEF CInv, Types, IsRecord
  <1> QED
    BY <1>1, <1>3, SameDrains DEF Keeps, Listed

\* What a follow write's end does to the pipes of its container.
LEMMA CompleteWriteKeeps ==
  ASSUME CInv, NEW w, NEW ok, CompleteWrite(w, ok)
  PROVE  DOMAIN containers' = Pids
         /\ \A p \in Pids : Keeps(containers[p], containers'[p])
  <1> DEFINE mine == {q \in IF Listed(w.pid) THEN containers[w.pid].pipes ELSE {} :
                        q.id = w.pipe}
             kept == IF ok THEN {[q EXCEPT !.in_flight = FALSE] : q \in mine} ELSE {}
  <1>1. containers' = IF mine = {} THEN containers
                      ELSE [containers EXCEPT ![w.pid].pipes = (@ \ mine) \union kept]
    BY DEF CompleteWrite
  <1>2. mine # {} => Listed(w.pid)
    OBVIOUS
  <1> HIDE DEF mine, kept
  <1>3. CASE mine = {}
    BY <1>1, <1>3 DEF CInv, Types, Keeps
  <1>4. CASE mine # {}
    <2>1. containers' = [containers EXCEPT ![w.pid].pipes = (@ \ mine) \union kept]
      BY <1>1, <1>4
    <2>2. DOMAIN containers' = Pids
          /\ \A q \in Pids : q # w.pid => containers'[q] = containers[q]
      BY <2>1 DEF CInv, Types
    <2>3. ASSUME w.pid \in Pids
          PROVE  /\ IsRecord(containers'[w.pid])
                 /\ containers'[w.pid].drains = containers[w.pid].drains
      <3>1. IsRecord(containers[w.pid])
        BY <1>2, <1>4, <2>3 DEF CInv, Types
      <3> QED
        BY <2>1, <2>3, <3>1 DEF CInv, Types, IsRecord
    <2> QED
      BY <1>2, <1>4, <2>2, <2>3 DEF Keeps, Listed
  <1> QED
    BY <1>3, <1>4

\* The writes to followers, whatever becomes of them.
LEMMA WriteCInv ==
  ASSUME CInv, NEW w,
         FollowWriteDone(w) \/ FollowWritePart(w) \/ FollowWriteFailed(w)
  PROVE  CInv'
  <1>1. UNCHANGED <<armed, death, overlay, proc, writer, failed, printed, taken>>
    BY DEF FollowWriteDone, FollowWritePart, FollowWriteFailed, worldVars
  <1>2. CASE FollowWritePart(w)
    BY <1>1, <1>2, SameContainers DEF FollowWritePart
  <1>3. CASE FollowWriteDone(w)
    <2>1. CompleteWrite(w, TRUE)
      BY <1>3 DEF FollowWriteDone
    <2> QED
      BY <1>1, <2>1, CompleteWriteKeeps, SameDrains
  <1>4. CASE FollowWriteFailed(w)
    <2>1. CompleteWrite(w, FALSE)
      BY <1>4 DEF FollowWriteFailed
    <2> QED
      BY <1>1, <2>1, CompleteWriteKeeps, SameDrains
  <1> QED
    BY <1>2, <1>3, <1>4

\* The container prints, closes an output, or ends.
LEMMA WorldCInv ==
  ASSUME CInv, NEW p \in Pids, NEW d \in OutputKinds,
         Prints(p, d) \/ ClosesOutput(p, d) \/ Exits(p)
  PROVE  CInv'
  <1>1. UNCHANGED <<containers, armed, death, overlay, failed, taken>>
    BY DEF Prints, ClosesOutput, Exits, daemonVars
  <1>2. DrainsCounted'
    BY <1>1 DEF CInv, DrainsCounted, Listed
  <1>3. proc[p] = "running"
    BY DEF Prints, ClosesOutput, Exits
  <1>4. CASE Prints(p, d)
    <2>1. /\ d \in armed[p] /\ UNCHANGED <<proc, writer>>
          /\ printed' \in [Pids -> [OutputKinds -> Nat]]
          /\ \A q \in Pids : \A c \in OutputKinds :
               (q = p /\ c = d) \/ printed'[q][c] = printed[q][c]
      BY <1>4 DEF Prints, CInv, Types, WriterInv
    <2>2. Types' /\ WriterInv' /\ ReadInv'
      BY <1>1, <2>1 DEF CInv, Types, WriterInv, ReadInv, Listed
    <2> QED
      BY <1>1, <1>2, <2>1, <2>2 DEF CInv, NewInv, HeldWhileRunning, Listed
  <1>5. CASE ClosesOutput(p, d)
    <2>1. /\ UNCHANGED <<proc, printed>> /\ writer' \in [Pids -> SUBSET OutputKinds]
          /\ \A q \in Pids : writer'[q] \subseteq writer[q]
      BY <1>5 DEF ClosesOutput, CInv, Types
    <2>2. Types' /\ WriterInv' /\ ReadInv'
      BY <1>1, <2>1 DEF CInv, Types, WriterInv, ReadInv, Listed
    <2> QED
      BY <1>1, <1>2, <2>1, <2>2 DEF CInv, NewInv, HeldWhileRunning, Listed
  <1>6. CASE Exits(p)
    <2>1. /\ UNCHANGED printed /\ writer' \in [Pids -> SUBSET OutputKinds]
          /\ writer'[p] = {} /\ proc'[p] = "exited"
          /\ \A q \in Pids : q # p => writer'[q] = writer[q] /\ proc'[q] = proc[q]
          /\ proc' \in [Pids -> {"none", "running", "exited", "reaped"}]
      BY <1>6 DEF Exits, CInv, Types
    <2>2. Types' /\ WriterInv' /\ ReadInv'
      BY <1>1, <2>1 DEF CInv, Types, WriterInv, ReadInv, Listed
    <2> QED
      BY <1>1, <1>2, <2>1, <2>2 DEF CInv, NewInv, HeldWhileRunning, Listed
  <1> QED
    BY <1>4, <1>5, <1>6

\* The daemon starts with no container.
LEMMA InitCInv == ContainersInit => CInv
  <1> SUFFICES ASSUME ContainersInit PROVE CInv
    OBVIOUS
  <1>1. /\ containers = [p \in Pids |-> NoContainer]
        /\ armed = [p \in Pids |-> {}] /\ writer = [p \in Pids |-> {}]
        /\ failed = [p \in Pids |-> {}]
        /\ proc = [p \in Pids |-> "none"]
        /\ printed = [p \in Pids |-> [d \in OutputKinds |-> 0]]
        /\ taken = [p \in Pids |-> [d \in OutputKinds |-> 0]]
    BY DEF ContainersInit
  <1>2. \A p \in Pids : ~Listed(p)
    BY <1>1 DEF Listed
  <1>3. Types
    BY <1>1, <1>2 DEF Types
  <1> QED
    BY <1>1, <1>2, <1>3
       DEF CInv, DrainsCounted, WriterInv, ReadInv, NewInv, HeldWhileRunning

\* Every step preserves the invariant.
LEMMA NextCInv == CInv /\ [ContainersNext]_containerVars => CInv'
  <1> SUFFICES ASSUME CInv, [ContainersNext]_containerVars PROVE CInv'
    OBVIOUS
  <1>1. ASSUME NEW p \in Pids, NEW tty \in BOOLEAN, handle_run(p, tty)
        PROVE  CInv'
    <2>1. (IF tty THEN OutputKinds ELSE {"pipe"}) \in SUBSET OutputKinds
      BY DEF OutputKinds
    <2> QED
      BY <1>1, <2>1, StartsCInv DEF handle_run
  <1>2. ASSUME NEW p \in Pids, handle_run_attach(p)
        PROVE  CInv'
    BY <1>2, StartsCInv DEF handle_run_attach
  <1>3. ASSUME NEW p \in Pids, Drain(p) \/ \E d \in OutputKinds : OutputReadFails(p, d)
        PROVE  CInv'
    BY <1>3, OutputCInv, FinishCInv DEF Drain
  <1>4. ASSUME NEW p \in Pids, reap_children(p) \/ handle_follow(p)
        PROVE  CInv'
    BY <1>4, ReapCInv, FollowCInv
  <1>5. ASSUME NEW p \in Pids, NEW d \in OutputKinds, Prints(p, d) \/ ClosesOutput(p, d)
        PROVE  CInv'
    BY <1>5, WorldCInv
  <1>6. ASSUME NEW p \in Pids, Exits(p)
        PROVE  CInv'
    <2>1. "pipe" \in OutputKinds
      BY DEF OutputKinds
    <2> QED
      BY <1>6, <2>1, WorldCInv
  <1>7. ASSUME NEW i, on_follow_send(i) \/ FollowerLeaves(i)
        PROVE  CInv'
    BY <1>7, SameContainers
       DEF on_follow_send, FollowerLeaves, daemonVars, worldVars
  <1>8. CASE Submit
    BY <1>8, SameContainers DEF Submit, worldVars
  <1>9. ASSUME NEW w \in writes,
               FollowWriteDone(w) \/ FollowWritePart(w) \/ FollowWriteFailed(w)
        PROVE  CInv'
    BY <1>9, WriteCInv
  <1>10. CASE UNCHANGED containerVars
    BY <1>10, SameContainers DEF containerVars, daemonVars, worldVars
  <1> QED
    BY <1>1, <1>2, <1>3, <1>4, <1>5, <1>6, <1>7, <1>8, <1>9, <1>10 DEF ContainersNext

\* The invariant holds of every reachable state.
LEMMA ContainersHold == ContainersSpec => []CInv
  <1>1. ContainersInit => CInv
    BY InitCInv
  <1>2. CInv /\ [ContainersNext]_containerVars => CInv'
    BY NextCInv
  <1> QED
    BY <1>1, <1>2, PTL DEF ContainersSpec

-----------------------------------------------------------------------------
(* The logs.                                                               *)

Line == OutputKinds \X Nat

\* The log holds the first t[d] \div 2 lines of each output d, in order.
LogOf(log, t) ==
  /\ log \in Seq(Line)
  /\ \A d \in OutputKinds : \A n \in Nat :
       n \in 1..(t[d] \div 2) <=> \E i \in 1..Len(log) : log[i] = <<d, n>>
  /\ \A i, j \in 1..Len(log) :
       i < j /\ log[i][1] = log[j][1] => log[i][2] < log[j][2]

\* A container that was never run has nothing in the graveyard.
LogInv ==
  /\ DOMAIN graveyard = Pids
  /\ \A p \in Pids : /\ LogOf(Log(p), taken[p])
                     /\ proc[p] = "none" => graveyard[p] = <<>>

\* drain_lines returns the lines between two numbers of halves, in order.
LEMMA DrainedLines ==
  ASSUME NEW d \in OutputKinds, NEW a \in Nat, NEW b \in Nat, a <= b
  PROVE  LET l == drain_lines(d, a, b) IN
         /\ l \in Seq(Line) /\ Len(l) = (b \div 2) - (a \div 2)
         /\ \A i \in 1..Len(l) : l[i] = <<d, (a \div 2) + i>>
  <1> DEFINE n == (b \div 2) - (a \div 2)
             l == [k \in 1..n |-> <<d, (a \div 2) + k>>]
  <1>1. n \in Nat /\ a \div 2 \in Nat
    OBVIOUS
  <1> HIDE DEF n
  <1>2. \A k \in 1..n : <<d, (a \div 2) + k>> \in Line
    BY <1>1 DEF Line
  <1>3. l \in Seq(Line) /\ Len(l) = n
    BY <1>1, <1>2
  <1>4. drain_lines(d, a, b) = l
    BY DEF drain_lines, Lines, n
  <1> QED
    BY <1>3, <1>4 DEF n

\* A read of output d adds the lines it completes behind all others.
LEMMA LogGrows ==
  ASSUME NEW log, NEW t \in [OutputKinds -> Nat], LogOf(log, t),
         NEW d \in OutputKinds, NEW k \in Nat
  PROVE  LogOf(log \o drain_lines(d, t[d], t[d] + k), [t EXCEPT ![d] = @ + k])
  <1> DEFINE m == t[d] \div 2
             n == (t[d] + k) \div 2
             l == drain_lines(d, t[d], t[d] + k)
             log2 == log \o l
             t2 == [t EXCEPT ![d] = @ + k]
  <1>1. m \in Nat /\ n \in Nat /\ m <= n /\ t[d] \in Nat /\ t[d] + k \in Nat
    OBVIOUS
  <1>2. l \in Seq(Line) /\ Len(l) = n - m /\ \A i \in 1..Len(l) : l[i] = <<d, m + i>>
    <2>1. t[d] <= t[d] + k
      OBVIOUS
    <2> HIDE DEF l
    <2>2. LET x == drain_lines(d, t[d], t[d] + k) IN
            /\ x \in Seq(Line) /\ Len(x) = ((t[d] + k) \div 2) - (t[d] \div 2)
            /\ \A i \in 1..Len(x) : x[i] = <<d, (t[d] \div 2) + i>>
      BY ONLY <1>1, <2>1, DrainedLines, d \in OutputKinds
    <2> QED
      BY <2>2 DEF l
  <1>3. log \in Seq(Line)
    BY DEF LogOf
  <1> HIDE DEF l, m, n
  <1>4. /\ log2 \in Seq(Line) /\ Len(log2) = Len(log) + (n - m) /\ Len(log) \in Nat
        /\ \A i \in 1..Len(log) : i \in 1..Len(log2) /\ log2[i] = log[i]
        /\ \A i \in 1..Len(log2) : i > Len(log) => log2[i] = <<d, m + (i - Len(log))>>
    <2>1. Len(log) \in Nat /\ Len(l) \in Nat
      BY <1>2, <1>3
    <2>2. \A i \in 1..Len(log2) : i > Len(log) =>
            i - Len(log) \in 1..Len(l) /\ log2[i] = l[i - Len(log)]
      BY <1>2, <1>3, <2>1
    <2>3. log2 \in Seq(Line) /\ Len(log2) = Len(log) + (n - m)
      BY <1>2, <1>3, ConcatProperties
    <2>4. \A i \in 1..Len(log) : i \in 1..Len(log2) /\ log2[i] = log[i]
      BY <1>2, <1>3, <2>1
    <2>5. \A i \in 1..Len(log2) : i > Len(log) => log2[i] = <<d, m + (i - Len(log))>>
      BY <1>2, <2>2
    <2> QED
      BY <2>1, <2>3, <2>4, <2>5
  <1>5. \A i \in 1..Len(log) : log[i] \in Line
    BY <1>3
  <1>6. \A i \in 1..Len(log) : log[i][1] = d => log[i][2] \in 1..m
    <2> SUFFICES ASSUME NEW i \in 1..Len(log), log[i][1] = d
                 PROVE  log[i][2] \in 1..m
      OBVIOUS
    <2>1. log[i] = <<d, log[i][2]>> /\ log[i][2] \in Nat
      BY <1>5 DEF Line
    <2> QED
      BY <2>1 DEF LogOf, m
  <1>7. /\ t2[d] = t[d] + k /\ \A c \in OutputKinds : c # d => t2[c] = t[c]
    OBVIOUS
  <1> HIDE DEF log2, t2
  <1>8. ASSUME NEW c \in OutputKinds, NEW x \in Nat
        PROVE  x \in 1..(t2[c] \div 2) <=> \E i \in 1..Len(log2) : log2[i] = <<c, x>>
    <2>1. x \in 1..(t[c] \div 2) <=> \E i \in 1..Len(log) : log[i] = <<c, x>>
      BY DEF LogOf
    <2>2. CASE c # d
      <3>1. \A i \in 1..Len(log2) : log2[i] = <<c, x>> => i \in 1..Len(log)
        BY <1>4, <2>2
      <3> QED
        BY <1>4, <1>7, <2>1, <2>2, <3>1
    <2>3. CASE c = d
      <3>1. ASSUME x \in 1..n
            PROVE  \E i \in 1..Len(log2) : log2[i] = <<c, x>>
        <4>1. CASE x <= m
          <5>1. x \in 1..m
            BY <1>1, <3>1, <4>1
          <5>2. \E i \in 1..Len(log) : log[i] = <<c, x>>
            BY <2>1, <2>3, <5>1 DEF m
          <5> QED
            BY <1>4, <5>2
        <4>2. CASE x > m
          <5>1. Len(log) + (x - m) \in 1..Len(log2) /\ Len(log) + (x - m) > Len(log)
            BY <1>1, <1>4, <3>1, <4>2
          <5>2. log2[Len(log) + (x - m)] = <<d, m + ((Len(log) + (x - m)) - Len(log))>>
            BY <1>4, <5>1
          <5>3. m + ((Len(log) + (x - m)) - Len(log)) = x
            BY <1>1, <1>4
          <5> QED
            BY <2>3, <5>1, <5>2, <5>3
        <4> QED
          BY <1>1, <4>1, <4>2
      <3>2. ASSUME NEW i \in 1..Len(log2), log2[i] = <<c, x>>
            PROVE  x \in 1..n
        <4>1. CASE i <= Len(log)
          <5>1. i \in 1..Len(log) /\ log[i] = <<c, x>>
            BY <1>4, <3>2, <4>1
          <5>2. x \in 1..m
            BY <2>1, <2>3, <5>1 DEF m
          <5> QED
            BY <1>1, <5>2
        <4>2. CASE i > Len(log)
          <5>1. x = m + (i - Len(log))
            BY <1>4, <3>2, <4>2
          <5> QED
            BY <1>1, <1>4, <4>2, <5>1
        <4> QED
          BY <1>4, <4>1, <4>2
      <3> QED
        BY <1>7, <2>3, <3>1, <3>2 DEF n
    <2> QED
      BY <2>2, <2>3
  <1>9. ASSUME NEW i \in 1..Len(log2), NEW j \in 1..Len(log2), i < j,
               log2[i][1] = log2[j][1]
        PROVE  log2[i][2] < log2[j][2]
    <2>1. CASE j <= Len(log)
      <3>1. i \in 1..Len(log) /\ j \in 1..Len(log)
        BY <1>4, <1>9, <2>1
      <3>2. log2[i] = log[i] /\ log2[j] = log[j]
        BY <1>4, <3>1
      <3>3. log[i][1] = log[j][1]
        BY <1>9, <3>2
      <3>4. log[i][2] < log[j][2]
        BY <1>9, <3>1, <3>3 DEF LogOf
      <3> QED
        BY <3>2, <3>4
    <2>2. CASE j > Len(log) /\ i <= Len(log)
      <3>1. i \in 1..Len(log) /\ log2[i] = log[i]
        BY <1>4, <2>2
      <3>2. log2[j][1] = d /\ log2[j][2] = m + (j - Len(log))
        BY <1>4, <2>2
      <3>3. log[i][2] \in 1..m
        BY <1>6, <1>9, <3>1, <3>2
      <3>4. m < m + (j - Len(log)) /\ log[i][2] <= m
        BY <1>1, <1>4, <2>2, <3>3
      <3>5. log[i][2] < m + (j - Len(log))
        BY <1>1, <1>4, <3>3, <3>4
      <3> QED
        BY <3>1, <3>2, <3>5
    <2>3. CASE i > Len(log)
      <3>1. j > Len(log)
        BY <1>4, <1>9, <2>3
      <3>2. log2[i] = <<d, m + (i - Len(log))>> /\ log2[j] = <<d, m + (j - Len(log))>>
        BY <1>4, <2>3, <3>1
      <3>3. m + (i - Len(log)) < m + (j - Len(log))
        BY <1>1, <1>4, <1>9
      <3> QED
        BY <3>2, <3>3
    <2> QED
      BY <1>4, <2>1, <2>2, <2>3
  <1>10. log2 \in Seq(Line)
    BY <1>4
  <1>11. LogOf(log2, t2)
    BY <1>8, <1>9, <1>10 DEF LogOf
  <1> QED
    BY <1>11 DEF log2, t2, l

\* No line is in a log twice.
Unique(log) == \A i, j \in 1..Len(log) : log[i] = log[j] => i = j

LEMMA LogUnique ==
  ASSUME NEW log, NEW t, LogOf(log, t)
  PROVE  Unique(log)
  <1> SUFFICES ASSUME NEW i \in 1..Len(log), NEW j \in 1..Len(log), log[i] = log[j],
                      i < j
               PROVE  FALSE
    <2>1. Len(log) \in Nat
      BY DEF LogOf
    <2> QED
      BY <2>1 DEF Unique
  <1>1. log[i][2] < log[j][2]
    BY DEF LogOf
  <1>2. log[i][2] \in Nat
    <2>1. log[i] \in Line
      BY DEF LogOf
    <2> QED
      BY <2>1 DEF Line
  <1> QED
    BY <1>1, <1>2

-----------------------------------------------------------------------------
(* What is in a follower's pipe, and what is on its way there.             *)

Half == Line \X {1, 2}

\* Halves alternate, are of lines of the log, and go on in its order.
ContentOf(log, c) ==
  /\ \A k \in 1..Len(c) :
       /\ c[k][2] = IF k % 2 = 1 THEN 1 ELSE 2
       /\ \E i \in 1..Len(log) : log[i] = c[k][1]
  /\ \A k \in 1..(Len(c) - 1) :
       IF c[k][2] = 1 THEN c[k + 1][1] = c[k][1]
       ELSE \A i, j \in 1..Len(log) :
              log[i] = c[k][1] /\ log[j] = c[k + 1][1] => i < j

\* A write finds whole lines, all of them before its own in the log, or just the
\* half its own line has begun with.
Pending(log, c, w) ==
  IF w.half = 1
  THEN /\ Len(c) % 2 = 0
       /\ \E i \in 1..Len(log) : log[i] = w.line
       /\ \A i, j \in 1..Len(log) :
            Len(c) > 0 /\ log[i] = c[Len(c)][1] /\ log[j] = w.line => i < j
  ELSE Len(c) % 2 = 1 /\ c[Len(c)][1] = w.line

\* The pipe, with the writes W under way to it.
Flow(log, c, W) ==
  /\ ContentOf(log, c)
  /\ W = {} => Len(c) % 2 = 0
  /\ \A w \in W : Pending(log, c, w)

\* The log may grow meanwhile.
LEMMA FlowLog ==
  ASSUME NEW log \in Seq(Line), NEW l \in Seq(Line), Unique(log \o l),
         NEW c \in Seq(Half), NEW W, Flow(log, c, W)
  PROVE  Flow(log \o l, c, W)
  <1> DEFINE log2 == log \o l
  <1>1. /\ Len(log) \in Nat /\ Len(log2) \in Nat /\ Len(log) <= Len(log2)
        /\ \A i \in 1..Len(log) : i \in 1..Len(log2) /\ log2[i] = log[i]
    OBVIOUS
  <1> HIDE DEF log2
  <1>2. ASSUME NEW x, NEW k \in 1..Len(log), log[k] = x,
               NEW i \in 1..Len(log2), log2[i] = x
        PROVE  i = k /\ i \in 1..Len(log) /\ log[i] = x
    BY <1>1, <1>2 DEF Unique, log2
  <1>3. ContentOf(log2, c)
    <2>1. ASSUME NEW k \in 1..Len(c)
          PROVE  /\ c[k][2] = IF k % 2 = 1 THEN 1 ELSE 2
                 /\ \E i \in 1..Len(log2) : log2[i] = c[k][1]
      BY <1>1 DEF Flow, ContentOf
    <2>2. ASSUME NEW k \in 1..(Len(c) - 1), c[k][2] # 1,
                 NEW i \in 1..Len(log2), NEW j \in 1..Len(log2),
                 log2[i] = c[k][1], log2[j] = c[k + 1][1]
          PROVE  i < j
      <3>1. k \in 1..Len(c) /\ k + 1 \in 1..Len(c)
        OBVIOUS
      <3>2. PICK a \in 1..Len(log) : log[a] = c[k][1]
        BY <3>1 DEF Flow, ContentOf
      <3>3. PICK b \in 1..Len(log) : log[b] = c[k + 1][1]
        BY <3>1 DEF Flow, ContentOf
      <3>4. i = a /\ j = b
        BY <1>2, <2>2, <3>2, <3>3
      <3>5. a < b
        BY <2>2, <3>2, <3>3 DEF Flow, ContentOf
      <3> QED
        BY <3>4, <3>5
    <2>3. ASSUME NEW k \in 1..(Len(c) - 1), c[k][2] = 1
          PROVE  c[k + 1][1] = c[k][1]
      BY <2>3 DEF Flow, ContentOf
    <2> QED
      BY <2>1, <2>2, <2>3 DEF ContentOf
  <1>4. ASSUME NEW w \in W
        PROVE  Pending(log2, c, w)
    <2>1. Pending(log, c, w)
      BY DEF Flow
    <2>2. CASE w.half = 1
      <3>1. PICK b \in 1..Len(log) : log[b] = w.line
        BY <2>1, <2>2 DEF Pending
      <3>2. \E i \in 1..Len(log2) : log2[i] = w.line
        BY <1>1, <3>1
      <3>3. ASSUME NEW i \in 1..Len(log2), NEW j \in 1..Len(log2), Len(c) > 0,
                   log2[i] = c[Len(c)][1], log2[j] = w.line
            PROVE  i < j
        <4>1. Len(c) \in 1..Len(c)
          BY <3>3
        <4>2. PICK a \in 1..Len(log) : log[a] = c[Len(c)][1]
          BY <4>1 DEF Flow, ContentOf
        <4>3. i = a /\ j = b
          BY <1>2, <3>1, <3>3, <4>2
        <4>4. a < b
          BY <2>1, <2>2, <3>1, <3>3, <4>2 DEF Pending
        <4> QED
          BY <4>3, <4>4
      <3> QED
        BY <2>1, <2>2, <3>2, <3>3 DEF Pending
    <2>3. CASE w.half # 1
      BY <2>1, <2>3 DEF Pending
    <2> QED
      BY <2>2, <2>3
  <1>5. Flow(log2, c, W)
    BY <1>3, <1>4 DEF Flow
  <1> QED
    BY <1>5 DEF log2

\* A line behind all that were in the log can be written to an idle pipe.
LEMMA FlowNew ==
  ASSUME NEW log \in Seq(Line), NEW l \in Seq(Line), Unique(log \o l), l # <<>>,
         NEW c \in Seq(Half), Flow(log, c, {}),
         NEW w, w.half = 1, w.line = l[1]
  PROVE  Flow(log \o l, c, {w})
  <1> DEFINE log2 == log \o l
             n == Len(log) + 1
  <1>1. /\ Len(log) \in Nat /\ n \in 1..Len(log2) /\ log2[n] = l[1]
        /\ \A i \in 1..Len(log) : i \in 1..Len(log2) /\ log2[i] = log[i]
    OBVIOUS
  <1>2. Flow(log2, c, {})
    BY FlowLog
  <1> HIDE DEF log2, n
  <1>3. ASSUME NEW i \in 1..Len(log2), NEW j \in 1..Len(log2), Len(c) > 0,
               log2[i] = c[Len(c)][1], log2[j] = w.line
        PROVE  i < j
    <2>1. Len(c) \in 1..Len(c)
      BY <1>3
    <2>2. PICK a \in 1..Len(log) : log[a] = c[Len(c)][1]
      BY <2>1 DEF Flow, ContentOf
    <2>3. i = a /\ j = n
      BY <1>1, <1>3, <2>2 DEF Unique, log2
    <2> QED
      BY <1>1, <2>3 DEF n
  <1>4. Pending(log2, c, w)
    BY <1>1, <1>2, <1>3 DEF Pending, Flow
  <1>5. Flow(log2, c, {w})
    BY <1>2, <1>4 DEF Flow
  <1> QED
    BY <1>5 DEF log2

\* Odd and even numbers take turns.
LEMMA Parity ==
  ASSUME NEW n \in Nat
  PROVE  n % 2 \in {0, 1} /\ ((n + 1) % 2 = 1 <=> n % 2 = 0)
         /\ ((n + 1) % 2 = 0 <=> n % 2 = 1)
  OBVIOUS

\* The second of two, and both.
LEMMA PairSlices ==
  ASSUME NEW S, NEW a \in S, NEW b \in S
  PROVE  SubSeq(<<a, b>>, 2, 2) = <<b>> /\ SubSeq(<<a, b>>, 1, 2) = <<a>> \o <<b>>
  <1>1. <<a, b>> \in Seq(S) /\ Len(<<a, b>>) = 2 /\ <<a>> \in Seq(S) /\ <<b>> \in Seq(S)
        /\ <<a, b>>[1] = a /\ <<a, b>>[2] = b
    OBVIOUS
  <1>2. SubSeq(<<a, b>>, 2, 2) = SubSeq(<<a, b>>, 2, 1) \o <<b>>
    BY <1>1, SubSeqRecursiveSecond, 2 \in 1..2
  <1>3. SubSeq(<<a, b>>, 1, 2) = SubSeq(<<a, b>>, 1, 1) \o <<b>>
    BY <1>1, SubSeqRecursiveSecond, 1 \in 1..2, 2 \in 1..2
  <1>4. SubSeq(<<a, b>>, 1, 1) = SubSeq(<<a, b>>, 1, 0) \o <<a>>
    BY <1>1, SubSeqRecursiveSecond, 1 \in 1..2, 1 \in 1..1
  <1>5. SubSeq(<<a, b>>, 2, 1) = <<>> /\ SubSeq(<<a, b>>, 1, 0) = <<>>
    BY SubSeqEmpty
  <1>6. <<>> \o <<a>> = <<a>> /\ <<>> \o <<b>> = <<b>>
    BY <1>1, ConcatEmptySeq
  <1> QED
    BY <1>2, <1>3, <1>4, <1>5, <1>6

\* One half more, the second of the line begun or the first of a later line.
LEMMA ContentGrows ==
  ASSUME NEW log, NEW c \in Seq(Half), ContentOf(log, c),
         NEW w, w.half \in {1, 2}, w.line \in Line, Pending(log, c, w)
  PROVE  c \o <<<<w.line, w.half>>>> \in Seq(Half)
         /\ ContentOf(log, c \o <<<<w.line, w.half>>>>)
         /\ Len(c \o <<<<w.line, w.half>>>>) = Len(c) + 1
         /\ (c \o <<<<w.line, w.half>>>>)[Len(c) + 1] = <<w.line, w.half>>
  <1> DEFINE x == w.line
             b == w.half
  <1>0. /\ x \in Line /\ b \in {1, 2} /\ b = IF Len(c) % 2 = 0 THEN 1 ELSE 2
        /\ \E i \in 1..Len(log) : log[i] = x
        /\ Len(c) > 0 =>
             IF b = 2 THEN c[Len(c)][1] = x
             ELSE \A i, j \in 1..Len(log) : log[i] = c[Len(c)][1] /\ log[j] = x => i < j
    <2>1. CASE b = 1
      BY <2>1 DEF Pending
    <2>2. CASE b = 2
      <3>1. Len(c) % 2 = 1 /\ c[Len(c)][1] = x /\ Len(c) \in 1..Len(c)
        BY <2>2 DEF Pending
      <3>2. \E i \in 1..Len(log) : log[i] = x
        BY <3>1 DEF ContentOf
      <3> QED
        BY <2>2, <3>1, <3>2
    <2> QED
      BY <2>1, <2>2
  <1> HIDE DEF x, b
  <1> DEFINE c2 == c \o <<<<x, b>>>>
  <1>1. /\ c2 \in Seq(Half) /\ Len(c) \in Nat /\ Len(c2) = Len(c) + 1
        /\ c2[Len(c) + 1] = <<x, b>> /\ \A k \in 1..Len(c) : c2[k] = c[k]
    <2>1. <<x, b>> \in Half
      BY <1>0 DEF Half
    <2>2. <<<<x, b>>>> \in Seq(Half) /\ Len(<<<<x, b>>>>) = 1 /\ <<<<x, b>>>>[1] = <<x, b>>
      BY <2>1
    <2> HIDE DEF c2
    <2>3. /\ c2 \in Seq(Half) /\ Len(c2) = Len(c) + 1
          /\ \A k \in 1..(Len(c) + 1) :
               c2[k] = IF k <= Len(c) THEN c[k] ELSE <<<<x, b>>>>[k - Len(c)]
      BY <2>2, ConcatProperties DEF c2
    <2> QED
      BY <2>2, <2>3
  <1> HIDE DEF c2
  <1>2. (Len(c) + 1) % 2 = 1 <=> Len(c) % 2 = 0
    BY <1>1, Parity
  <1>3. ASSUME NEW k \in 1..Len(c2)
        PROVE  /\ c2[k][2] = IF k % 2 = 1 THEN 1 ELSE 2
               /\ \E i \in 1..Len(log) : log[i] = c2[k][1]
    <2>1. CASE k \in 1..Len(c)
      BY <1>1, <2>1 DEF ContentOf
    <2>2. CASE k = Len(c) + 1
      BY <1>0, <1>1, <1>2, <2>2
    <2> QED
      BY <1>1, <2>1, <2>2
  <1>4. ASSUME NEW k \in 1..(Len(c2) - 1)
        PROVE  IF c2[k][2] = 1 THEN c2[k + 1][1] = c2[k][1]
               ELSE \A i, j \in 1..Len(log) :
                      log[i] = c2[k][1] /\ log[j] = c2[k + 1][1] => i < j
    <2>1. CASE k \in 1..(Len(c) - 1)
      <3>1. c2[k] = c[k] /\ c2[k + 1] = c[k + 1]
        BY <1>1, <2>1
      <3> QED
        BY <2>1, <3>1 DEF ContentOf
    <2>2. CASE k = Len(c)
      <3>1. c2[k] = c[k] /\ c2[k + 1] = <<x, b>> /\ Len(c) > 0 /\ k \in 1..Len(c)
        BY <1>1, <2>2
      <3>2. c[k][2] = IF k % 2 = 1 THEN 1 ELSE 2
        BY <3>1 DEF ContentOf
      <3>3. c[k][2] = 1 <=> b = 2
        BY <1>0, <1>1, <2>2, <3>2
      <3> QED
        BY <1>0, <2>2, <3>1, <3>3
    <2> QED
      BY <1>1, <2>1, <2>2
  <1>5. ContentOf(log, c2)
    BY <1>3, <1>4 DEF ContentOf
  <1> QED
    BY <1>1, <1>5 DEF c2, x, b

\* A write puts the first half of its line; the second is left to do.
LEMMA FlowPart ==
  ASSUME NEW log, NEW c \in Seq(Half), NEW w, Flow(log, c, {w}),
         w.half = 1, w.line \in Line, NEW w2, w2.half = 2, w2.line = w.line
  PROVE  /\ c \o <<<<w.line, 1>>>> \in Seq(Half)
         /\ Flow(log, c \o <<<<w.line, 1>>>>, {w2})
  <1>1. Pending(log, c, w) /\ ContentOf(log, c)
    BY DEF Flow
  <1> DEFINE c2 == c \o <<<<w.line, 1>>>>
  <1>2. /\ c2 \in Seq(Half) /\ ContentOf(log, c2) /\ Len(c2) = Len(c) + 1
        /\ c2[Len(c) + 1] = <<w.line, 1>>
    BY <1>1, ContentGrows
  <1>3. Len(c) \in Nat /\ Len(c) % 2 = 0 /\ (Len(c) + 1) % 2 = 1
    BY <1>1, Parity DEF Pending
  <1> HIDE DEF c2
  <1>4. Pending(log, c2, w2)
    BY <1>2, <1>3 DEF Pending
  <1> QED
    BY <1>2, <1>4 DEF Flow, c2

\* A write puts the rest of its line, which leaves the pipe idle.
LEMMA FlowDone ==
  ASSUME NEW log, NEW c \in Seq(Half), NEW w, Flow(log, c, {w}),
         w.half \in {1, 2}, w.line \in Line
  PROVE  /\ c \o SubSeq(Halves(w.line), w.half, 2) \in Seq(Half)
         /\ Flow(log, c \o SubSeq(Halves(w.line), w.half, 2), {})
  <1> DEFINE x == w.line
             c2 == c \o SubSeq(Halves(x), w.half, 2)
  <1>1. Pending(log, c, w) /\ ContentOf(log, c) /\ Len(c) \in Nat
    BY DEF Flow
  <1>2. <<x, 1>> \in Half /\ <<x, 2>> \in Half
    BY DEF Half
  <1>3. CASE w.half = 2
    <2>1. SubSeq(Halves(x), 2, 2) = <<<<x, 2>>>>
      BY <1>2, PairSlices DEF Halves
    <2>2. Len(c) % 2 = 1 /\ c[Len(c)][1] = x /\ Len(c) \in 1..Len(c)
      BY <1>1, <1>3 DEF Pending
    <2>4. /\ c \o <<<<x, 2>>>> \in Seq(Half) /\ ContentOf(log, c \o <<<<x, 2>>>>)
          /\ Len(c \o <<<<x, 2>>>>) = Len(c) + 1
      BY <1>1, <1>3, ContentGrows
    <2>5. (Len(c) + 1) % 2 = 0
      BY <1>1, <2>2
    <2> QED
      BY <1>3, <2>1, <2>4, <2>5 DEF Flow
  <1>4. CASE w.half = 1
    <2> DEFINE d == c \o <<<<x, 1>>>>
               y == [half |-> 2, line |-> x]
    <2>1. d \in Seq(Half) /\ Flow(log, d, {y})
      BY <1>4, FlowPart
    <2>2. c2 = d \o <<<<x, 2>>>>
      <3>1. SubSeq(Halves(x), 1, 2) = <<<<x, 1>>>> \o <<<<x, 2>>>>
        BY <1>2, PairSlices DEF Halves
      <3>2. <<<<x, 1>>>> \in Seq(Half) /\ <<<<x, 2>>>> \in Seq(Half)
        BY <1>2
      <3>3. d \o <<<<x, 2>>>> = c \o (<<<<x, 1>>>> \o <<<<x, 2>>>>)
        BY <3>2, ConcatAssociative
      <3> QED
        BY <1>4, <3>1, <3>3
    <2> HIDE DEF d
    <2>3. Pending(log, d, y) /\ ContentOf(log, d) /\ y.half = 2 /\ y.line = x
      BY <2>1 DEF Flow
    <2>4. Len(d) \in Nat /\ Len(d) % 2 = 1 /\ d[Len(d)][1] = x /\ Len(d) \in 1..Len(d)
      BY <2>1, <2>3 DEF Pending
    <2>6. /\ d \o <<<<x, 2>>>> \in Seq(Half) /\ ContentOf(log, d \o <<<<x, 2>>>>)
          /\ Len(d \o <<<<x, 2>>>>) = Len(d) + 1
      BY <2>1, <2>3, ContentGrows
    <2>7. (Len(d) + 1) % 2 = 0
      BY <2>4
    <2> QED
      BY <2>2, <2>6, <2>7 DEF Flow
  <1> QED
    BY <1>3, <1>4

\* Nothing depends on where a write is on its way.
LEMMA FlowMoves ==
  ASSUME NEW log, NEW c, NEW W, NEW W2, Flow(log, c, W),
         W = {} <=> W2 = {},
         \A w2 \in W2 : \E w \in W : w2.half = w.half /\ w2.line = w.line
  PROVE  Flow(log, c, W2)
  <1>1. ASSUME NEW w2 \in W2
        PROVE  Pending(log, c, w2)
    <2>1. PICK w \in W : w2.half = w.half /\ w2.line = w.line
      OBVIOUS
    <2>2. Pending(log, c, w)
      BY DEF Flow
    <2> QED
      BY <2>1, <2>2 DEF Pending
  <1> QED
    BY <1>1 DEF Flow

\* The backlog a follower starts with is the whole log.
LEMMA FlowBacklog ==
  ASSUME NEW log \in Seq(Line), Unique(log)
  PROVE  Backlog(log) \in Seq(Half) /\ Flow(log, Backlog(log), {})
  <1> DEFINE c == Backlog(log)
             n == 2 * Len(log)
  <1>1. Len(log) \in Nat /\ n \in Nat
    OBVIOUS
  <1>2. \A k \in 1..n : (k + 1) \div 2 \in 1..Len(log)
    BY <1>1
  <1>3. \A k \in 1..n :
          <<log[(k + 1) \div 2], IF k % 2 = 1 THEN 1 ELSE 2>> \in Half
    <2>1. \A k \in 1..n : log[(k + 1) \div 2] \in Line
      BY <1>2
    <2> QED
      BY <2>1 DEF Half
  <1>4. /\ c \in Seq(Half) /\ Len(c) = n
        /\ \A k \in 1..n : c[k] = <<log[(k + 1) \div 2], IF k % 2 = 1 THEN 1 ELSE 2>>
    BY <1>1, <1>3 DEF Backlog
  <1> HIDE DEF c
  <1>5. \A k \in 1..Len(c) : /\ c[k][2] = IF k % 2 = 1 THEN 1 ELSE 2
                             /\ \E i \in 1..Len(log) : log[i] = c[k][1]
    BY <1>2, <1>4
  <1>6. ASSUME NEW k \in 1..(Len(c) - 1)
        PROVE  IF c[k][2] = 1 THEN c[k + 1][1] = c[k][1]
               ELSE \A i, j \in 1..Len(log) :
                      log[i] = c[k][1] /\ log[j] = c[k + 1][1] => i < j
    <2> DEFINE a == (k + 1) \div 2
               b == (k + 2) \div 2
    <2>1. k \in 1..n /\ k + 1 \in 1..n /\ (k + 1) + 1 = k + 2
      BY <1>1, <1>4
    <2>2. c[k][1] = log[a] /\ c[k + 1][1] = log[b] /\ a \in 1..Len(log) /\ b \in 1..Len(log)
      BY <1>2, <1>4, <2>1
    <2>3. c[k][2] = IF k % 2 = 1 THEN 1 ELSE 2
      BY <1>5, <2>1, <1>4
    <2>4. IF k % 2 = 1 THEN a = b ELSE a < b
      BY <2>1
    <2> HIDE DEF a, b
    <2> QED
      BY <2>2, <2>3, <2>4 DEF Unique
  <1>7. Len(c) % 2 = 0
    BY <1>1, <1>4
  <1>8. Flow(log, c, {})
    BY <1>5, <1>6, <1>7 DEF Flow, ContentOf
  <1> QED
    BY <1>4, <1>8 DEF c

-----------------------------------------------------------------------------
(* The followers.                                                          *)

Followers(p) == IF Listed(p) THEN containers[p].pipes ELSE {}
WritesTo(i) == {w \in writes : w.pipe = i}

Pipe == [id : Pipes, fd : Fds, in_flight : BOOLEAN]
Write == [pid : Pids, pipe : Pipes, fd : Fds,
          file : Pipes \union {NoPipe, Queued}, line : Line, half : {1, 2}]

FollowTypes ==
  /\ next_pipe \in Nat \ {0}
  /\ fds \in [Fds -> Pipes \union {NoPipe}] /\ \A f \in Fds : fds[f] < next_pipe
  /\ content \in [Pipes -> Seq(Half)]
  /\ writes \subseteq Write /\ \A w \in writes : w.pipe < next_pipe
  /\ \A p \in Pids : Followers(p) \subseteq Pipe

\* A follower's descriptor is its pipe's, and no pipe has two followers.
PipesInv ==
  /\ \A p \in Pids : \A q \in Followers(p) : fds[q.fd] = q.id
  /\ \A p, p2 \in Pids : \A q \in Followers(p), q2 \in Followers(p2) :
       q.id = q2.id => p = p2 /\ q = q2

\* The write under way to a follower, at most one, is to its own pipe.
WritesInv ==
  /\ \A w, w2 \in writes : w.pipe = w2.pipe => w = w2
  /\ \A w \in writes, p \in Pids : \A q \in Followers(p) : w.pipe = q.id =>
       w.pid = p /\ w.fd = q.fd /\ q.in_flight /\ w.file \in {Queued, q.id}

\* What a follower was sent and is being sent goes on in the log's order.
FlowInv ==
  \A p \in Pids : \A q \in Followers(p) :
    q.id \notin strayed => Flow(Log(p), content[q.id], WritesTo(q.id))

FInv == LogInv /\ FollowTypes /\ PipesInv /\ WritesInv /\ FlowInv

\* A step that takes nothing from a log and adds nothing to one.
KeepsLogs ==
  /\ DOMAIN graveyard' = Pids
  /\ \A p \in Pids : /\ Log(p)' = Log(p) /\ taken'[p] = taken[p]
                     /\ proc'[p] = "none" => proc[p] = "none" /\ graveyard'[p] = graveyard[p]

\* A step that leaves the followers alone, or closes the pipes of some.
KeepsFollowers ==
  /\ \A p \in Pids : Followers(p)' \subseteq Followers(p)
  /\ \A p \in Pids : \A q \in Followers(p)' : fds'[q.fd] = fds[q.fd]
  /\ fds' \in [Fds -> Pipes \union {NoPipe}]
  /\ \A f \in Fds : fds'[f] \in {fds[f], NoPipe}
  /\ UNCHANGED <<writes, next_pipe, content, strayed>>

\* Such a step keeps the order in the pipes.
LEMMA KeepsFInv ==
  ASSUME FInv, KeepsLogs, KeepsFollowers
  PROVE  FInv'
  <1>1. LogInv'
    BY DEF FInv, LogInv, KeepsLogs
  <1>2. FollowTypes'
    BY DEF FInv, FollowTypes, KeepsFollowers, NoPipe
  <1>3. PipesInv'
    <2>1. \A p \in Pids : \A q \in Followers(p)' : fds'[q.fd] = q.id
      BY DEF FInv, PipesInv, KeepsFollowers
    <2>2. ASSUME NEW p \in Pids, NEW p2 \in Pids, NEW q \in Followers(p)',
                 NEW q2 \in Followers(p2)', q.id = q2.id
          PROVE  p = p2 /\ q = q2
      <3>1. q \in Followers(p) /\ q2 \in Followers(p2)
        BY DEF KeepsFollowers
      <3> QED
        BY <2>2, <3>1 DEF FInv, PipesInv
    <2> QED
      BY <2>1, <2>2 DEF PipesInv
  <1>4. WritesInv'
    <2>1. writes' = writes /\ \A p \in Pids : Followers(p)' \subseteq Followers(p)
      BY DEF KeepsFollowers
    <2>2. \A w, w2 \in writes : w.pipe = w2.pipe => w = w2
      BY DEF FInv, WritesInv
    <2>3. ASSUME NEW w \in writes, NEW p \in Pids, NEW q \in Followers(p)', w.pipe = q.id
          PROVE  w.pid = p /\ w.fd = q.fd /\ q.in_flight /\ w.file \in {Queued, q.id}
      <3>1. q \in Followers(p)
        BY <2>1
      <3> QED
        BY <2>3, <3>1 DEF FInv, WritesInv
    <2> QED
      BY <2>1, <2>2, <2>3 DEF WritesInv
  <1>5. FlowInv'
    <2>1. /\ writes' = writes /\ content' = content /\ strayed' = strayed
          /\ \A p \in Pids : Followers(p)' \subseteq Followers(p) /\ Log(p)' = Log(p)
      BY DEF KeepsFollowers, KeepsLogs
    <2>2. \A i : WritesTo(i)' = WritesTo(i)
      BY <2>1 DEF WritesTo
    <2>3. ASSUME NEW p \in Pids, NEW q \in Followers(p)', q.id \notin strayed
          PROVE  Flow(Log(p), content[q.id], WritesTo(q.id))
      <3>1. q \in Followers(p)
        BY <2>1
      <3> QED
        BY <2>3, <3>1 DEF FInv, FlowInv
    <2> QED
      BY <2>1, <2>2, <2>3 DEF FlowInv
  <1> QED
    BY <1>1, <1>2, <1>3, <1>4, <1>5 DEF FInv

\* A step that changes no record, no log and no pipe.
LEMMA SameFollowers ==
  ASSUME CInv, FInv, UNCHANGED <<containers, graveyard, taken, fds, writes, next_pipe, pipeHistory>>,
         \A p \in Pids : proc'[p] = "none" => proc[p] = "none"
  PROVE  FInv'
  <1>1. KeepsLogs
    BY DEF KeepsLogs, Log, Listed, FInv, LogInv
  <1>2. KeepsFollowers
    BY DEF KeepsFollowers, Followers, Listed, FInv, FollowTypes, pipeHistory
  <1> QED
    BY <1>1, <1>2, KeepsFInv

\* A run starts with an empty log, where there was none, and no followers.
LEMMA StartsFInv ==
  ASSUME CInv, FInv, NEW p \in Pids, NEW drains \in SUBSET OutputKinds, Starts(p, drains)
  PROVE  FInv'
  <1> DEFINE c == [drains |-> Cardinality(drains), cache |-> <<>>, pipes |-> {}]
  <1>1. /\ containers' = [containers EXCEPT ![p] = c]
        /\ proc' = [proc EXCEPT ![p] = "running"] /\ proc[p] = "none"
        /\ UNCHANGED <<graveyard, writes, fds, next_pipe, taken, content, strayed>>
    BY DEF Starts, pipeHistory
  <1>2. c.drains \in Nat /\ c.cache = <<>> /\ c.pipes = {}
    BY DrainSets
  <1>3. c # NoContainer
    BY <1>2 DEF NoContainer
  <1> HIDE DEF c
  <1>4. /\ containers'[p] = c /\ proc'[p] = "running"
        /\ \A q \in Pids : q # p => containers'[q] = containers[q] /\ proc'[q] = proc[q]
    BY <1>1 DEF CInv, Types
  <1>5. ~Listed(p) /\ Listed(p)' /\ graveyard[p] = <<>>
    BY <1>1, <1>3, <1>4 DEF CInv, NewInv, FInv, LogInv, Listed
  <1>6. KeepsLogs
    BY <1>1, <1>2, <1>4, <1>5 DEF KeepsLogs, Log, Listed, FInv, LogInv
  <1>7. KeepsFollowers
    BY <1>1, <1>2, <1>4, <1>5 DEF KeepsFollowers, Followers, Listed, FInv, FollowTypes
  <1> QED
    BY <1>6, <1>7, KeepsFInv

\* A container that leaves the map takes its log to the graveyard, and closes
\* the pipes of its own followers only.
LEMMA RemoveFInv ==
  ASSUME CInv, FInv, NEW p \in Pids, Listed(p), RemoveContainer(p),
         UNCHANGED <<writes, next_pipe, taken, pipeHistory>>,
         \A q \in Pids : proc'[q] = "none" => proc[q] = "none"
  PROVE  FInv'
  <1>1. /\ containers'[p] = NoContainer
        /\ \A q \in Pids : q # p => containers'[q] = containers[q]
        /\ DOMAIN graveyard' = Pids /\ graveyard'[p] = containers[p].cache
        /\ \A q \in Pids : q # p => graveyard'[q] = graveyard[q]
        /\ fds' = [f \in Fds |-> IF f \in PipeFds(p) THEN NoPipe ELSE fds[f]]
    BY DEF CInv, Types, FInv, LogInv, RemoveContainer
  <1>2. proc[p] # "none"
    BY DEF CInv, NewInv
  <1>3. KeepsLogs
    BY <1>1, <1>2 DEF KeepsLogs, Log, Listed
  <1>4. Followers(p)' = {} /\ \A q \in Pids : q # p => Followers(q)' = Followers(q)
    BY <1>1 DEF Followers, Listed
  <1>5. ASSUME NEW p2 \in Pids, NEW q2 \in Followers(p2)'
        PROVE  fds'[q2.fd] = fds[q2.fd]
    <2>1. p2 # p /\ q2 \in Followers(p2) /\ q2.fd \in Fds
      BY <1>4 DEF FInv, FollowTypes, Pipe
    <2>2. ASSUME NEW q \in Followers(p), q.fd = q2.fd
          PROVE  FALSE
      BY <2>1, <2>2 DEF FInv, PipesInv
    <2>3. q2.fd \notin PipeFds(p)
      BY <2>2 DEF PipeFds, Followers
    <2> QED
      BY <1>1, <2>1, <2>3
  <1>6. KeepsFollowers
    BY <1>1, <1>4, <1>5 DEF KeepsFollowers, FInv, FollowTypes, pipeHistory
  <1> QED
    BY <1>3, <1>6, KeepsFInv

\* A drain at its end.
LEMMA FinishFInv ==
  ASSUME CInv, FInv, NEW p \in Pids, NEW d \in OutputKinds,
         OutputEnds(p, d) \/ OutputReadFails(p, d)
  PROVE  FInv'
  <1>1. /\ d \in armed[p] /\ finish_drain(p)
        /\ UNCHANGED <<proc, writes, next_pipe, taken, pipeHistory>>
    BY DEF OutputEnds, OutputReadFails, finish_container_output, Reading
  <1>2. Listed(p)
    BY <1>1 DEF CInv, DrainsCounted
  <1>3. CASE containers[p].drains <= 1
    BY <1>1, <1>2, <1>3, RemoveFInv DEF finish_drain
  <1>4. CASE ~(containers[p].drains <= 1)
    <2>1. /\ containers' = [containers EXCEPT ![p].drains = @ - 1]
          /\ UNCHANGED <<graveyard, fds>>
      BY <1>1, <1>2, <1>4 DEF finish_drain
    <2>2. IsRecord(containers[p]) /\ containers[p].drains \in Nat
      BY <1>2, DrainSets DEF CInv, Types, DrainsCounted
    <2>3. /\ containers'[p].drains = containers[p].drains - 1
          /\ containers'[p].cache = containers[p].cache
          /\ containers'[p].pipes = containers[p].pipes
          /\ \A q \in Pids : q # p => containers'[q] = containers[q]
      BY <2>1, <2>2 DEF CInv, Types, IsRecord
    <2>4. Listed(p)'
      BY <1>4, <2>2, <2>3 DEF Listed, NoContainer
    <2>5. KeepsLogs
      BY <1>1, <1>2, <2>1, <2>3, <2>4 DEF KeepsLogs, Log, Listed, FInv, LogInv
    <2>6. KeepsFollowers
      BY <1>1, <1>2, <2>1, <2>3, <2>4
         DEF KeepsFollowers, Followers, Listed, FInv, FollowTypes, pipeHistory
    <2> QED
      BY <2>5, <2>6, KeepsFInv
  <1> QED
    BY <1>3, <1>4

\* The reaper.
LEMMA ReapFInv ==
  ASSUME CInv, FInv, NEW p \in Pids, reap_children(p)
  PROVE  FInv'
  <1>1. /\ proc' = [proc EXCEPT ![p] = "reaped"]
        /\ UNCHANGED <<writes, next_pipe, taken, pipeHistory>>
    BY DEF reap_children
  <1>2. \A q \in Pids : proc'[q] = "none" => proc[q] = "none"
    BY <1>1 DEF CInv, Types
  <1>3. CASE Listed(p) /\ RemoveContainer(p)
    BY <1>1, <1>2, <1>3, RemoveFInv
  <1>4. CASE UNCHANGED <<containers, graveyard, fds>>
    BY <1>1, <1>2, <1>4, SameFollowers
  <1> QED
    BY <1>3, <1>4 DEF reap_children

\* The lowest of some descriptors is one of them.
LEMMA LowestIn ==
  ASSUME NEW F \in SUBSET Fds, F # {}
  PROVE  Min(F) \in F
  <1> DEFINE Below(x) == {y \in F : y < x}
             T == {Below(x) : x \in F}
             R == StrictSubsetOrdering(F)
  <1>1. IsFiniteSet(F) /\ F \subseteq Int
    <2>1. IsFiniteSet(Fds) /\ Fds \subseteq Int
      BY MaxFdAssumption, FS_Interval DEF Fds
    <2> QED
      BY <2>1, FS_Subset
  <1>2. T \subseteq FiniteSubsetsOf(F) /\ T # {}
    <2>1. \A x \in F : Below(x) \in SUBSET F
      OBVIOUS
    <2>2. FiniteSubsetsOf(F) = SUBSET F
      BY <1>1, FS_FiniteSubsetsOfFinite
    <2> HIDE DEF Below
    <2> QED
      BY <2>1, <2>2
  <1>3. \E t \in T : \A u \in T : ~(<<u, t>> \in R)
    <2> HIDE DEF T
    <2>1. IsWellFoundedOn(R, FiniteSubsetsOf(F))
      BY FS_StrictSubsetOrderingWellFounded
    <2> HIDE DEF R
    <2> QED
      BY <1>2, <2>1, WFMin
  <1>4. PICK x \in F : \A y \in F : ~(<<Below(y), Below(x)>> \in R)
    BY <1>3
  <1>5. ASSUME NEW y \in F
        PROVE  x <= y
    <2> SUFFICES ASSUME y < x PROVE FALSE
      BY <1>1
    <2>1. Below(y) \subseteq Below(x) /\ Below(x) # Below(y)
      <3>1. \A z \in F : z < y => z < x
        BY <1>1
      <3>2. y \in Below(x) /\ y \notin Below(y)
        BY <1>1
      <3> QED
        BY <3>1, <3>2
    <2>2. <<Below(y), Below(x)>> \in R
      BY <2>1 DEF StrictSubsetOrdering
    <2> QED
      BY <1>4, <2>2
  <1> QED
    BY <1>5 DEF Min

\* A new follower has the backlog in its pipe, which is nobody else's.
LEMMA FollowFInv ==
  ASSUME CInv, FInv, NEW p \in Pids, handle_follow(p)
  PROVE  FInv'
  <1> DEFINE i == next_pipe
             f == Min(FreeFds)
             q0 == [id |-> i, fd |-> f, in_flight |-> FALSE]
  <1>1. /\ Listed(p) /\ i \in Pipes /\ FreeFds # {}
        /\ next_pipe' = i + 1
        /\ fds' = [fds EXCEPT ![f] = i]
        /\ content' = [content EXCEPT ![i] = Backlog(containers[p].cache)]
        /\ containers' = [containers EXCEPT ![p].pipes = @ \union {q0}]
        /\ UNCHANGED <<graveyard, writes, proc, taken, strayed>>
    BY DEF handle_follow, worldVars
  <1>2. i \in Pipes /\ i \in Nat
    BY <1>1 DEF Pipes, FInv, FollowTypes
  <1>3. f \in Fds /\ fds[f] = NoPipe
    <2>1. FreeFds \in SUBSET Fds
      BY DEF FreeFds
    <2>2. f \in FreeFds
      BY <1>1, <2>1, LowestIn
    <2> QED
      BY <2>2 DEF FreeFds
  <1>4. q0 \in Pipe /\ q0.id = i /\ q0.fd = f
    BY <1>2, <1>3 DEF Pipe
  <1> HIDE DEF i, f, q0
  <1>5. /\ containers'[p].drains = containers[p].drains
        /\ containers'[p].cache = containers[p].cache
        /\ containers'[p].pipes = containers[p].pipes \union {q0}
        /\ \A q \in Pids : q # p => containers'[q] = containers[q]
    <2>1. IsRecord(containers[p])
      BY <1>1 DEF CInv, Types
    <2> QED
      BY <1>1, <2>1 DEF CInv, Types, IsRecord
  <1>6. Listed(p)'
    <2>1. containers[p].drains \in Nat
      BY <1>1, DrainSets DEF CInv, Types, DrainsCounted
    <2> QED
      BY <1>5, <2>1 DEF Listed, NoContainer
  <1>7. /\ Followers(p)' = Followers(p) \union {q0}
        /\ \A q \in Pids : q # p => Followers(q)' = Followers(q)
        /\ \A q \in Pids : Log(q)' = Log(q)
    BY <1>1, <1>5, <1>6 DEF Followers, Log, Listed
  <1>8. \A p2 \in Pids : \A q \in Followers(p2) :
          q.fd \in Fds /\ q.fd # f /\ q.id # i /\ q.id \in Pipes
    BY <1>3 DEF FInv, FollowTypes, PipesInv, Pipe, NoPipe, Pipes, i
  <1>9. LogInv'
    BY <1>1, <1>7 DEF FInv, LogInv
  <1>10. Log(p) = containers[p].cache /\ Log(p) \in Seq(Line) /\ Unique(Log(p))
    <2>1. LogOf(Log(p), taken[p])
      BY DEF FInv, LogInv
    <2>2. Log(p) \in Seq(Line)
      BY <2>1 DEF LogOf
    <2> QED
      BY <1>1, <2>1, <2>2, LogUnique DEF Log
  <1>11. Backlog(Log(p)) \in Seq(Half) /\ Flow(Log(p), Backlog(Log(p)), {})
    BY <1>10, FlowBacklog
  <1>12. FollowTypes'
    <2>1. /\ next_pipe' \in Nat \ {0}
          /\ fds' \in [Fds -> Pipes \union {NoPipe}] /\ \A g \in Fds : fds'[g] < next_pipe'
      BY <1>1, <1>2, <1>3 DEF FInv, FollowTypes, Pipes, NoPipe, i
    <2>2. content' \in [Pipes -> Seq(Half)]
      BY <1>1, <1>2, <1>10, <1>11 DEF FInv, FollowTypes
    <2>3. writes' \subseteq Write /\ \A w \in writes' : w.pipe < next_pipe'
      BY <1>1, <1>2 DEF FInv, FollowTypes, Write, Pipes, i
    <2>4. \A q \in Pids : Followers(q)' \subseteq Pipe
      BY <1>4, <1>7 DEF FInv, FollowTypes
    <2> QED
      BY <2>1, <2>2, <2>3, <2>4 DEF FollowTypes
  <1>13. PipesInv'
    <2>1. ASSUME NEW p2 \in Pids, NEW q \in Followers(p2)'
          PROVE  fds'[q.fd] = q.id
      <3>1. CASE q \in Followers(p2)
        BY <1>1, <1>8, <3>1 DEF FInv, FollowTypes, PipesInv
      <3>2. CASE q = q0
        BY <1>1, <1>3, <1>4, <3>2 DEF FInv, FollowTypes
      <3> QED
        BY <1>7, <3>1, <3>2
    <2>2. ASSUME NEW p1 \in Pids, NEW p2 \in Pids, NEW q1 \in Followers(p1)',
                 NEW q2 \in Followers(p2)', q1.id = q2.id
          PROVE  p1 = p2 /\ q1 = q2
      <3>1. CASE q1 \in Followers(p1) /\ q2 \in Followers(p2)
        BY <2>2, <3>1 DEF FInv, PipesInv
      <3>2. CASE q1 = q0 \/ q2 = q0
        BY <1>4, <1>7, <1>8, <2>2, <3>2
      <3> QED
        BY <1>7, <3>1, <3>2
    <2> QED
      BY <2>1, <2>2 DEF PipesInv
  <1>14. \A w \in writes : w.pipe # i
    BY DEF FInv, FollowTypes, Write, Pipes, i
  <1>15. WritesInv'
    <2>1. ASSUME NEW w \in writes, NEW p2 \in Pids, NEW q \in Followers(p2)', w.pipe = q.id
          PROVE  w.pid = p2 /\ w.fd = q.fd /\ q.in_flight /\ w.file \in {Queued, q.id}
      <3>1. q \in Followers(p2)
        BY <1>4, <1>7, <1>14, <2>1
      <3> QED
        BY <2>1, <3>1 DEF FInv, WritesInv
    <2>2. \A w, w2 \in writes : w.pipe = w2.pipe => w = w2
      BY DEF FInv, WritesInv
    <2> QED
      BY <1>1, <2>1, <2>2 DEF WritesInv
  <1>16. FlowInv'
    <2>1. \A j : WritesTo(j)' = WritesTo(j)
      BY <1>1 DEF WritesTo
    <2>2. ASSUME NEW p2 \in Pids, NEW q \in Followers(p2)', q.id \notin strayed
          PROVE  Flow(Log(p2), content'[q.id], WritesTo(q.id))
      <3>1. CASE q \in Followers(p2)
        <4>1. content'[q.id] = content[q.id]
          BY <1>1, <1>8, <3>1 DEF FInv, FollowTypes
        <4> QED
          BY <2>2, <3>1, <4>1 DEF FInv, FlowInv
      <3>2. CASE p2 = p /\ q = q0
        <4>1. content'[q.id] = Backlog(Log(p))
          BY <1>1, <1>2, <1>4, <1>10, <3>2 DEF FInv, FollowTypes
        <4>2. WritesTo(q.id) = {}
          BY <1>4, <1>14, <3>2 DEF WritesTo
        <4> QED
          BY <1>11, <3>2, <4>1, <4>2
      <3> QED
        BY <1>7, <3>1, <3>2
    <2> QED
      BY <1>1, <1>7, <2>1, <2>2 DEF FlowInv
  <1> QED
    BY <1>9, <1>12, <1>13, <1>15, <1>16 DEF FInv

\* What a read does to the log of its container.
LEMMA OutputLog ==
  ASSUME CInv, FInv, NEW p \in Pids, NEW d \in OutputKinds, NEW k \in 1..MaxHalves,
         on_container_output(p, d, k),
         NEW lines, lines = drain_lines(d, taken[p][d], taken[p][d] + k)
  PROVE  /\ Listed(p) /\ WriteLines(p, lines)
         /\ UNCHANGED <<next_pipe, fds, proc, content, strayed>>
         /\ lines \in Seq(Line) /\ Log(p) \in Seq(Line)
         /\ LogOf(Log(p) \o lines, taken'[p])
         /\ \A q \in Pids : q # p => taken'[q] = taken[q]
  <1>1. /\ d \in armed[p] /\ taken' = [taken EXCEPT ![p][d] = @ + k]
        /\ WriteLines(p, lines)
        /\ UNCHANGED <<next_pipe, fds, proc, content, strayed>>
    BY DEF on_container_output, Reading, worldVars, pipeHistory
  <1>2. Listed(p)
    BY <1>1 DEF CInv, DrainsCounted
  <1>3. k \in Nat /\ taken[p] \in [OutputKinds -> Nat] /\ taken[p][d] \in Nat
        /\ taken[p][d] <= taken[p][d] + k
    BY DEF CInv, Types
  <1>4. taken'[p] = [taken[p] EXCEPT ![d] = @ + k]
        /\ \A q \in Pids : q # p => taken'[q] = taken[q]
    BY <1>1 DEF CInv, Types
  <1>5. LogOf(Log(p), taken[p])
    BY DEF FInv, LogInv
  <1>6. Log(p) \in Seq(Line)
    BY <1>5 DEF LogOf
  <1>7. LogOf(Log(p) \o lines, taken'[p])
    BY <1>3, <1>4, <1>5, LogGrows
  <1>8. lines \in Seq(Line)
    BY <1>3, DrainedLines
  <1> QED
    BY <1>1, <1>2, <1>4, <1>6, <1>7, <1>8

\* A drain's lines go to the log's end, and the first to the idle followers.
LEMMA OutputFInv ==
  ASSUME CInv, FInv, NEW p \in Pids, NEW d \in OutputKinds, NEW k \in 1..MaxHalves,
         on_container_output(p, d, k)
  PROVE  FInv'
  <1> DEFINE lines == drain_lines(d, taken[p][d], taken[p][d] + k)
  <1>1. /\ Listed(p) /\ WriteLines(p, lines)
        /\ UNCHANGED <<next_pipe, fds, proc, content, strayed>>
        /\ lines \in Seq(Line) /\ Log(p) \in Seq(Line)
        /\ LogOf(Log(p) \o lines, taken'[p])
        /\ \A q \in Pids : q # p => taken'[q] = taken[q]
    BY OutputLog
  <1> HIDE DEF lines
  <1>2. DOMAIN graveyard = Pids /\ proc[p] # "none"
    BY <1>1 DEF FInv, LogInv, CInv, NewInv
  <1>3. CASE lines = <<>>
    <2>1. /\ UNCHANGED <<containers, writes>> /\ DOMAIN graveyard' = Pids
          /\ \A q \in Pids : q # p => graveyard'[q] = graveyard[q]
      BY <1>1, <1>2, <1>3 DEF WriteLines
    <2>2. Log(p) \o lines = Log(p)
      BY <1>1, <1>3
    <2>3. \A q \in Pids : Log(q)' = Log(q) /\ Followers(q)' = Followers(q)
      BY <1>1, <2>1 DEF Log, Followers, Listed
    <2>4. LogInv'
      BY <1>1, <1>2, <2>1, <2>2, <2>3 DEF FInv, LogInv
    <2>5. FollowTypes' /\ PipesInv' /\ WritesInv'
      BY <1>1, <2>1, <2>3 DEF FInv, FollowTypes, PipesInv, WritesInv
    <2>6. FlowInv'
      BY <1>1, <2>1, <2>3 DEF FInv, FlowInv, WritesTo
    <2> QED
      BY <2>4, <2>5, <2>6 DEF FInv
  <1>4. CASE lines # <<>>
    <2> DEFINE Busy(q) == [q EXCEPT !.in_flight = TRUE]
               New(q) == NewWrite(p, q, lines[1])
    <2>1. /\ containers' = [containers EXCEPT
               ![p].cache = @ \o lines, ![p].pipes = {Busy(q) : q \in @}]
          /\ writes' = writes \union {New(q) : q \in IdlePipes(p)}
          /\ UNCHANGED graveyard
      BY <1>1, <1>4 DEF WriteLines
    <2>2. /\ IsRecord(containers[p]) /\ containers[p].drains \in Nat
          /\ Followers(p) = containers[p].pipes /\ Log(p) = containers[p].cache
      BY <1>1, DrainSets DEF CInv, Types, DrainsCounted, Followers, Log
    <2>3. IdlePipes(p) = {q \in Followers(p) : ~q.in_flight}
      BY <2>2 DEF IdlePipes
    <2>4. lines[1] \in Line
      BY <1>1, <1>4
    <2>5. \A q \in Pipe : /\ Busy(q) \in Pipe /\ Busy(q).id = q.id /\ Busy(q).fd = q.fd
                          /\ Busy(q).in_flight
                          /\ New(q) \in Write /\ New(q).pid = p /\ New(q).pipe = q.id
                          /\ New(q).fd = q.fd /\ New(q).file = Queued
                          /\ New(q).line = lines[1] /\ New(q).half = 1
      BY <2>4 DEF Pipe, NewWrite, Write
    <2> HIDE DEF Busy, New
    <2>6. /\ containers'[p].drains = containers[p].drains
          /\ containers'[p].cache = containers[p].cache \o lines
          /\ containers'[p].pipes = {Busy(q) : q \in containers[p].pipes}
          /\ \A q \in Pids : q # p => containers'[q] = containers[q]
      BY <2>1, <2>2 DEF CInv, Types, IsRecord
    <2>7. Listed(p)'
      BY <2>2, <2>6 DEF Listed, NoContainer
    <2>8. /\ Log(p)' = Log(p) \o lines /\ Followers(p)' = {Busy(q) : q \in Followers(p)}
          /\ \A q \in Pids : q # p => Log(q)' = Log(q) /\ Followers(q)' = Followers(q)
      <3>1. Log(p)' = containers'[p].cache /\ Followers(p)' = containers'[p].pipes
        BY <2>7 DEF Log, Followers
      <3>2. graveyard' = graveyard /\ \A q \in Pids : q # p => containers'[q] = containers[q]
        BY <2>1, <2>6
      <3>3. \A q \in Pids : q # p => Log(q)' = Log(q) /\ Followers(q)' = Followers(q)
        BY <3>2 DEF Log, Followers, Listed
      <3> QED
        BY <2>2, <2>6, <3>1, <3>3
    <2>9. LogInv'
      BY <1>1, <1>2, <2>1, <2>8 DEF FInv, LogInv
    <2>10. \A q \in Pids : Followers(q) \subseteq Pipe
      BY DEF FInv, FollowTypes
    <2>11. ASSUME NEW p2 \in Pids, NEW q2 \in Followers(p2)'
           PROVE  \E q \in Followers(p2) :
                    /\ q2.id = q.id /\ q2.fd = q.fd /\ (q.in_flight => q2.in_flight)
                    /\ q2 = IF p2 = p THEN Busy(q) ELSE q
      <3>1. CASE p2 = p
        BY <2>5, <2>8, <2>10, <3>1
      <3>2. CASE p2 # p
        BY <2>8, <3>2
      <3> QED
        BY <3>1, <3>2
    <2>12. FollowTypes'
      <3>1. writes' \subseteq Write /\ \A w \in writes' : w.pipe < next_pipe'
        <4>1. ASSUME NEW q \in IdlePipes(p)
              PROVE  New(q) \in Write /\ New(q).pipe < next_pipe
          <5>1. q \in Followers(p) /\ q \in Pipe /\ q.fd \in Fds
            BY <2>3, <2>10 DEF Pipe
          <5>2. q.id = fds[q.fd]
            BY <5>1 DEF FInv, PipesInv
          <5> QED
            BY <2>5, <5>1, <5>2 DEF FInv, FollowTypes
        <4> QED
          BY <1>1, <2>1, <4>1 DEF FInv, FollowTypes
      <3>2. \A q \in Pids : Followers(q)' \subseteq Pipe
        BY <2>5, <2>8, <2>10
      <3> QED
        BY <1>1, <3>1, <3>2 DEF FInv, FollowTypes
    <2>13. PipesInv'
      <3>1. ASSUME NEW p2 \in Pids, NEW q2 \in Followers(p2)'
            PROVE  fds'[q2.fd] = q2.id
        BY <1>1, <2>11 DEF FInv, PipesInv
      <3>2. ASSUME NEW p1 \in Pids, NEW p2 \in Pids, NEW q1 \in Followers(p1)',
                   NEW q2 \in Followers(p2)', q1.id = q2.id
            PROVE  p1 = p2 /\ q1 = q2
        <4>1. PICK a \in Followers(p1) : a.id = q1.id /\ q1 = IF p1 = p THEN Busy(a) ELSE a
          BY <2>11
        <4>2. PICK b \in Followers(p2) : b.id = q2.id /\ q2 = IF p2 = p THEN Busy(b) ELSE b
          BY <2>11
        <4>3. p1 = p2 /\ a = b
          BY <3>2, <4>1, <4>2 DEF FInv, PipesInv
        <4> QED
          BY <4>1, <4>2, <4>3
      <3> QED
        BY <3>1, <3>2 DEF PipesInv
    <2>14. ASSUME NEW q \in IdlePipes(p)
           PROVE  q \in Followers(p) /\ q \in Pipe /\ ~q.in_flight
                  /\ \A w \in writes : w.pipe # q.id
      BY <2>3, <2>10 DEF FInv, WritesInv
    <2>15. ASSUME NEW w \in writes', w \notin writes
           PROVE  \E q \in IdlePipes(p) : w = New(q) /\ w.pipe = q.id /\ w.pid = p
                    /\ w.fd = q.fd /\ w.file = Queued
      <3>1. PICK q \in IdlePipes(p) : w = New(q)
        BY <2>1, <2>15
      <3>2. q \in Pipe
        BY <2>14
      <3> QED
        BY <2>5, <3>1, <3>2
    <2>16. WritesInv'
      <3>1. ASSUME NEW w \in writes', NEW w2 \in writes', w.pipe = w2.pipe
            PROVE  w = w2
        <4>1. CASE w \in writes /\ w2 \in writes
          BY <3>1, <4>1 DEF FInv, WritesInv
        <4>2. CASE w \in writes /\ w2 \notin writes
          BY <2>14, <2>15, <3>1, <4>2
        <4>3. CASE w \notin writes /\ w2 \in writes
          BY <2>14, <2>15, <3>1, <4>3
        <4>4. CASE w \notin writes /\ w2 \notin writes
          <5>1. PICK a \in IdlePipes(p) : w = New(a) /\ w.pipe = a.id
            BY <2>15, <4>4
          <5>2. PICK b \in IdlePipes(p) : w2 = New(b) /\ w2.pipe = b.id
            BY <2>15, <4>4
          <5>3. a = b
            BY <2>14, <3>1, <5>1, <5>2 DEF FInv, PipesInv
          <5> QED
            BY <5>1, <5>2, <5>3
        <4> QED
          BY <4>1, <4>2, <4>3, <4>4
      <3>2. ASSUME NEW w \in writes', NEW p2 \in Pids, NEW q2 \in Followers(p2)',
                   w.pipe = q2.id
            PROVE  w.pid = p2 /\ w.fd = q2.fd /\ q2.in_flight /\ w.file \in {Queued, q2.id}
        <4>1. PICK b \in Followers(p2) :
                /\ q2.id = b.id /\ q2.fd = b.fd /\ (b.in_flight => q2.in_flight)
                /\ q2 = IF p2 = p THEN Busy(b) ELSE b
          BY <2>11
        <4>2. CASE w \in writes
          BY <3>2, <4>1, <4>2 DEF FInv, WritesInv
        <4>3. CASE w \notin writes
          <5>1. PICK a \in IdlePipes(p) :
                  w.pipe = a.id /\ w.pid = p /\ w.fd = a.fd /\ w.file = Queued
            BY <2>15, <4>3
          <5>2. p2 = p /\ a = b
            BY <2>14, <3>2, <4>1, <5>1 DEF FInv, PipesInv
          <5>3. q2.in_flight
            BY <2>5, <2>10, <4>1, <5>2
          <5> QED
            BY <4>1, <5>1, <5>2, <5>3
        <4> QED
          BY <4>2, <4>3
      <3> QED
        BY <3>1, <3>2 DEF WritesInv
    <2>17. FlowInv'
      <3> SUFFICES ASSUME NEW p2 \in Pids, NEW q2 \in Followers(p2)', q2.id \notin strayed
                   PROVE  Flow(Log(p2)', content[q2.id], WritesTo(q2.id)')
        BY <1>1 DEF FlowInv
      <3>1. PICK b \in Followers(p2) : q2.id = b.id
        BY <2>11
      <3>2. Flow(Log(p2), content[b.id], WritesTo(b.id)) /\ content[b.id] \in Seq(Half)
        <4>1. b.id \in Pipes
          BY <2>10, <3>1 DEF Pipe
        <4> QED
          BY <3>1, <4>1 DEF FInv, FlowInv, FollowTypes
      <3>3. Unique(Log(p) \o lines)
        BY <1>1, LogUnique
      <3>4. CASE p2 # p \/ b.in_flight
        <4>1. WritesTo(b.id)' = WritesTo(b.id)
          <5>1. \A q \in IdlePipes(p) : q.id # b.id
            BY <2>14, <3>1, <3>4 DEF FInv, PipesInv
          <5>2. \A w \in writes' : w \notin writes => w.pipe # b.id
            BY <2>15, <5>1
          <5>3. writes \subseteq writes'
            BY <2>1
          <5> QED
            BY <5>2, <5>3 DEF WritesTo
        <4>2. CASE p2 # p
          BY <2>8, <3>1, <3>2, <4>1, <4>2
        <4>3. CASE p2 = p
          BY <1>1, <2>8, <3>1, <3>2, <3>3, <4>1, <4>3, FlowLog
        <4> QED
          BY <4>2, <4>3
      <3>5. CASE p2 = p /\ ~b.in_flight
        <4>1. b \in IdlePipes(p) /\ b \in Pipe
          BY <2>3, <2>10, <3>1, <3>5
        <4>2. WritesTo(b.id) = {}
          BY <2>14, <4>1 DEF WritesTo
        <4>3. WritesTo(b.id)' = {New(b)}
          <5>1. New(b) \in writes' /\ New(b).pipe = b.id
            BY <2>1, <2>5, <4>1
          <5>2. ASSUME NEW w \in writes', w.pipe = b.id
                PROVE  w = New(b)
            BY <2>16, <5>1, <5>2 DEF WritesInv
          <5> QED
            BY <5>1, <5>2 DEF WritesTo
        <4>4. New(b).half = 1 /\ New(b).line = lines[1]
          BY <2>5, <4>1
        <4>5. Flow(Log(p) \o lines, content[b.id], {New(b)})
          BY <1>1, <1>4, <3>2, <3>3, <3>5, <4>2, <4>4, FlowNew
        <4> QED
          BY <2>8, <3>1, <3>5, <4>3, <4>5
      <3> QED
        BY <3>4, <3>5
    <2> QED
      BY <2>9, <2>12, <2>13, <2>16, <2>17 DEF FInv
  <1> QED
    BY <1>3, <1>4

\* Submission looks the descriptors up, and finds a follower's own pipe.
LEMMA SubmitFInv ==
  ASSUME CInv, FInv, Submit
  PROVE  FInv'
  <1> DEFINE Sent(w) == IF w.file = Queued THEN [w EXCEPT !.file = fds[w.fd]] ELSE w
  <1>1. /\ writes' = {Sent(w) : w \in writes}
        /\ UNCHANGED <<containers, graveyard, next_pipe, fds, proc, taken, content, strayed>>
    BY DEF Submit, worldVars, pipeHistory
  <1>2. \A q \in Pids : Log(q)' = Log(q) /\ Followers(q)' = Followers(q)
    BY <1>1 DEF Log, Followers, Listed
  <1>3. ASSUME NEW w \in writes
        PROVE  /\ w \in Write /\ Sent(w) \in Write /\ Sent(w).pid = w.pid
               /\ Sent(w).pipe = w.pipe /\ Sent(w).fd = w.fd /\ Sent(w).half = w.half
               /\ Sent(w).line = w.line
               /\ Sent(w).file = IF w.file = Queued THEN fds[w.fd] ELSE w.file
    <2>1. w \in Write
      BY DEF FInv, FollowTypes
    <2>2. w.fd \in Fds /\ fds[w.fd] \in Pipes \union {NoPipe, Queued}
      BY <2>1 DEF Write, FInv, FollowTypes
    <2> QED
      BY <2>1, <2>2 DEF Write
  <1> HIDE DEF Sent
  <1>4. LogInv'
    BY <1>1, <1>2 DEF FInv, LogInv
  <1>5. FollowTypes' /\ PipesInv'
    BY <1>1, <1>2, <1>3 DEF FInv, FollowTypes, PipesInv
  <1>6. WritesInv'
    <2>1. ASSUME NEW v \in writes', NEW v2 \in writes', v.pipe = v2.pipe
          PROVE  v = v2
      BY <1>1, <1>3, <2>1 DEF FInv, WritesInv
    <2>2. ASSUME NEW v \in writes', NEW p \in Pids, NEW q \in Followers(p), v.pipe = q.id
          PROVE  v.pid = p /\ v.fd = q.fd /\ q.in_flight /\ v.file \in {Queued, q.id}
      <3>1. PICK w \in writes : v = Sent(w)
        BY <1>1
      <3>2. w.pid = p /\ w.fd = q.fd /\ q.in_flight /\ w.file \in {Queued, q.id}
        BY <1>3, <2>2, <3>1 DEF FInv, WritesInv
      <3>3. fds[q.fd] = q.id
        BY DEF FInv, PipesInv
      <3> QED
        BY <1>3, <3>1, <3>2, <3>3
    <2> QED
      BY <1>2, <2>1, <2>2 DEF WritesInv
  <1>7. FlowInv'
    <2> SUFFICES ASSUME NEW p \in Pids, NEW q \in Followers(p), q.id \notin strayed
                 PROVE  Flow(Log(p), content[q.id], WritesTo(q.id)')
      BY <1>1, <1>2 DEF FlowInv
    <2>1. Flow(Log(p), content[q.id], WritesTo(q.id))
      BY DEF FInv, FlowInv
    <2>2. \A v \in WritesTo(q.id)' :
            \E w \in WritesTo(q.id) : v.half = w.half /\ v.line = w.line
      BY <1>1, <1>3 DEF WritesTo
    <2>3. \A w \in WritesTo(q.id) : Sent(w) \in WritesTo(q.id)'
      BY <1>1, <1>3 DEF WritesTo
    <2> QED
      BY <2>1, <2>2, <2>3, FlowMoves
  <1> QED
    BY <1>4, <1>5, <1>6, <1>7 DEF FInv

\* A write goes to a follower that counts only if it is that follower's own.
LEMMA OwnWrite ==
  ASSUME FInv, NEW w \in writes, w.file # Queued, Goes(w),
         NEW p \in Pids, NEW q \in Followers(p)
  PROVE  /\ w.pipe = q.id => w.file = q.id /\ w.pid = p /\ WritesTo(q.id) = {w}
         /\ w.pipe # q.id => WritesTo(q.id) = WritesTo(q.id) \ {w}
  <1>1. w.pipe = q.id => w.file = q.id /\ w.pid = p
    BY DEF FInv, WritesInv
  <1>2. w.pipe = q.id => WritesTo(q.id) = {w}
    BY DEF FInv, WritesInv, WritesTo
  <1> QED
    BY <1>1, <1>2 DEF WritesTo

\* What a write puts into the pipes.
LEMMA PutsContent ==
  ASSUME FInv, NEW w \in writes, Goes(w), NEW s, Puts(w, s)
  PROVE  /\ DOMAIN content' = Pipes /\ w.file \in Pipes
         /\ content'[w.file] = content[w.file] \o s
         /\ \A i \in Pipes : i # w.file => content'[i] = content[i]
         /\ strayed \subseteq strayed' /\ (w.file # w.pipe => w.file \in strayed')
  BY DEF FInv, FollowTypes, Goes, Puts

\* A part of a line is written; the write of the rest is queued.
LEMMA PartFInv ==
  ASSUME CInv, FInv, NEW w \in writes, FollowWritePart(w)
  PROVE  FInv'
  <1> DEFINE w2 == [w EXCEPT !.half = 2, !.file = Queued]
             s == <<Halves(w.line)[1]>>
  <1>1. /\ w.file # Queued /\ Goes(w) /\ w.half = 1 /\ Puts(w, s)
        /\ writes' = (writes \ {w}) \union {w2}
        /\ UNCHANGED <<containers, graveyard, next_pipe, fds, proc, taken>>
    BY DEF FollowWritePart, worldVars
  <1>2. \A q \in Pids : Log(q)' = Log(q) /\ Followers(q)' = Followers(q)
    BY <1>1 DEF Log, Followers, Listed
  <1>3. /\ w \in Write /\ w.line \in Line /\ w2 \in Write /\ w2.pipe = w.pipe /\ w2.half = 2
        /\ w2.line = w.line /\ w2.pid = w.pid /\ w2.fd = w.fd /\ w2.file = Queued
    BY DEF FInv, FollowTypes, Write
  <1>4. s = <<<<w.line, 1>>>> /\ <<w.line, 1>> \in Half
    BY <1>3 DEF Halves, Half
  <1> HIDE DEF w2, s
  <1>5. /\ DOMAIN content' = Pipes /\ w.file \in Pipes
        /\ content'[w.file] = content[w.file] \o s
        /\ \A i \in Pipes : i # w.file => content'[i] = content[i]
        /\ strayed \subseteq strayed' /\ (w.file # w.pipe => w.file \in strayed')
    BY <1>1, PutsContent
  <1>6. LogInv'
    BY <1>1, <1>2 DEF FInv, LogInv
  <1>7. FollowTypes' /\ PipesInv'
    <2>1. \A i \in Pipes : content[i] \in Seq(Half)
      BY DEF FInv, FollowTypes
    <2>2. content[w.file] \o s \in Seq(Half)
      BY <1>4, <1>5, <2>1
    <2>3. \A i \in Pipes : content'[i] \in Seq(Half)
      BY <1>5, <2>1, <2>2
    <2>4. content' \in [Pipes -> Seq(Half)]
      <3>1. content' = [i \in Pipes |-> content'[i]]
        BY <1>1 DEF Puts, FInv, FollowTypes
      <3> QED
        BY <2>3, <3>1
    <2> QED
      BY <1>1, <1>2, <1>3, <2>4 DEF FInv, FollowTypes, PipesInv
  <1>8. WritesInv'
    <2>1. ASSUME NEW v \in writes'
          PROVE  \E u \in writes : /\ v.pipe = u.pipe /\ v.pid = u.pid /\ v.fd = u.fd
                                   /\ v.file \in {u.file, Queued}
                                   /\ v = IF u = w THEN w2 ELSE u
      BY <1>1, <1>3
    <2>2. ASSUME NEW v \in writes', NEW v2 \in writes', v.pipe = v2.pipe
          PROVE  v = v2
      BY <2>1, <2>2 DEF FInv, WritesInv
    <2>3. ASSUME NEW v \in writes', NEW p \in Pids, NEW q \in Followers(p), v.pipe = q.id
          PROVE  v.pid = p /\ v.fd = q.fd /\ q.in_flight /\ v.file \in {Queued, q.id}
      <3>1. PICK u \in writes : v.pipe = u.pipe /\ v.pid = u.pid /\ v.fd = u.fd
                                /\ v.file \in {u.file, Queued}
        BY <2>1
      <3>2. u.pid = p /\ u.fd = q.fd /\ q.in_flight /\ u.file \in {Queued, q.id}
        BY <2>3, <3>1 DEF FInv, WritesInv
      <3> QED
        BY <3>1, <3>2
    <2> QED
      BY <1>2, <2>2, <2>3 DEF WritesInv
  <1>9. FlowInv'
    <2> SUFFICES ASSUME NEW p \in Pids, NEW q \in Followers(p), q.id \notin strayed'
                 PROVE  Flow(Log(p), content'[q.id], WritesTo(q.id)')
      BY <1>2 DEF FlowInv
    <2>1. q.id \in Pipes /\ q.id \notin strayed
      BY <1>5 DEF FInv, FollowTypes, Pipe
    <2>2. Flow(Log(p), content[q.id], WritesTo(q.id)) /\ content[q.id] \in Seq(Half)
      BY <2>1 DEF FInv, FlowInv, FollowTypes
    <2>3. CASE w.pipe = q.id
      <3>1. w.file = q.id /\ WritesTo(q.id) = {w}
        BY <1>1, <2>3, OwnWrite
      <3>2. WritesTo(q.id)' = {w2}
        BY <1>1, <1>3, <2>3, <3>1 DEF WritesTo
      <3>3. content'[q.id] = content[q.id] \o <<<<w.line, 1>>>>
        BY <1>4, <1>5, <3>1
      <3>4. Flow(Log(p), content[q.id] \o <<<<w.line, 1>>>>, {w2})
        BY <1>1, <1>3, <2>2, <3>1, FlowPart
      <3> QED
        BY <3>2, <3>3, <3>4
    <2>4. CASE w.pipe # q.id
      <3>1. WritesTo(q.id)' = WritesTo(q.id)
        BY <1>1, <1>3, <2>4 DEF WritesTo
      <3>2. content'[q.id] = content[q.id]
        BY <1>5, <2>1, <2>4
      <3> QED
        BY <2>2, <3>1, <3>2
    <2> QED
      BY <2>3, <2>4
  <1> QED
    BY <1>6, <1>7, <1>8, <1>9 DEF FInv

\* complete_write: the write's pipe is idle again or gone, the others as before.
LEMMA CompleteFollowers ==
  ASSUME CInv, FInv, NEW w \in writes, NEW ok \in BOOLEAN, CompleteWrite(w, ok)
  PROVE  /\ \A p \in Pids : Listed(p)' <=> Listed(p)
         /\ \A p \in Pids : Listed(p) => containers'[p].cache = containers[p].cache
         /\ \A p \in Pids : \A q2 \in Followers(p)' :
              \/ q2 \in Followers(p) /\ q2.id # w.pipe
              \/ \E q \in Followers(p) :
                   ok /\ q.id = w.pipe /\ q2 = [q EXCEPT !.in_flight = FALSE]
         /\ ok => fds' = fds
         /\ ~ok => \A p \in Pids : \A q \in Followers(p) :
                     q.id # w.pipe => fds'[q.fd] = fds[q.fd]
         /\ fds' \in [Fds -> Pipes \union {NoPipe}]
         /\ \A f \in Fds : fds'[f] \in {fds[f], NoPipe}
  <1> DEFINE mine == {q \in IF Listed(w.pid) THEN containers[w.pid].pipes ELSE {} :
                        q.id = w.pipe}
             kept == IF ok THEN {[q EXCEPT !.in_flight = FALSE] : q \in mine} ELSE {}
  <1>1. /\ containers' = IF mine = {} THEN containers
                         ELSE [containers EXCEPT ![w.pid].pipes = (@ \ mine) \union kept]
        /\ fds' = IF ok THEN fds
                  ELSE [f \in Fds |-> IF \E q \in mine : q.fd = f THEN NoPipe ELSE fds[f]]
    BY DEF CompleteWrite
  <1>2. w.pid \in Pids
    BY DEF FInv, FollowTypes, Write
  <1>3. mine = {q \in Followers(w.pid) : q.id = w.pipe}
    BY DEF Followers
  <1>4. ASSUME NEW q2 \in kept
        PROVE  \E q \in Followers(w.pid) :
                 ok /\ q.id = w.pipe /\ q2 = [q EXCEPT !.in_flight = FALSE]
    BY <1>3
  <1> HIDE DEF mine, kept
  <1>5. \A p \in Pids : \A q \in Followers(p) : q.id = w.pipe => p = w.pid /\ q \in mine
    BY <1>3 DEF FInv, WritesInv
  <1>6. /\ ok => fds' = fds
        /\ fds' \in [Fds -> Pipes \union {NoPipe}]
        /\ \A f \in Fds : fds'[f] \in {fds[f], NoPipe}
    BY <1>1 DEF FInv, FollowTypes
  <1>7. ASSUME NEW p \in Pids, NEW q \in Followers(p), q.id # w.pipe
        PROVE  fds'[q.fd] = fds[q.fd]
    <2>1. q.fd \in Fds /\ fds[q.fd] = q.id
      BY DEF FInv, FollowTypes, PipesInv, Pipe
    <2>2. ~ \E m \in mine : m.fd = q.fd
      BY <1>2, <1>3, <1>7, <2>1 DEF FInv, PipesInv
    <2> QED
      BY <1>1, <2>1, <2>2
  <1>8. CASE mine = {}
    <2>1. containers' = containers
      BY <1>1, <1>8
    <2>2. \A p \in Pids : Followers(p)' = Followers(p)
      BY <2>1 DEF Followers, Listed
    <2>3. \A p \in Pids : \A q \in Followers(p) : q.id # w.pipe
      BY <1>5, <1>8
    <2> QED
      BY <1>6, <1>7, <2>1, <2>2, <2>3 DEF Listed
  <1>9. CASE mine # {}
    <2>1. Listed(w.pid)
      BY <1>3, <1>9 DEF Followers
    <2>2. IsRecord(containers[w.pid]) /\ containers[w.pid].drains \in Nat
      BY <1>2, <2>1, DrainSets DEF CInv, Types, DrainsCounted
    <2>3. containers' = [containers EXCEPT ![w.pid].pipes = (@ \ mine) \union kept]
      BY <1>1, <1>9
    <2>4. /\ containers'[w.pid].drains = containers[w.pid].drains
          /\ containers'[w.pid].cache = containers[w.pid].cache
          /\ containers'[w.pid].pipes = (containers[w.pid].pipes \ mine) \union kept
          /\ \A p \in Pids : p # w.pid => containers'[p] = containers[p]
      BY <1>2, <2>2, <2>3 DEF CInv, Types, IsRecord
    <2> HIDE <2>3
    <2>5. Listed(w.pid)'
      BY <2>2, <2>4 DEF Listed, NoContainer
    <2>6. /\ Followers(w.pid)' = (Followers(w.pid) \ mine) \union kept
          /\ \A p \in Pids : p # w.pid => Followers(p)' = Followers(p)
      BY <2>1, <2>4, <2>5 DEF Followers, Listed
    <2>7. /\ \A p \in Pids : Listed(p)' <=> Listed(p)
          /\ \A p \in Pids : Listed(p) => containers'[p].cache = containers[p].cache
      BY <2>1, <2>4, <2>5 DEF Listed
    <2>8. ASSUME NEW p \in Pids, NEW q2 \in Followers(p)'
          PROVE  \/ q2 \in Followers(p) /\ q2.id # w.pipe
                 \/ \E q \in Followers(p) :
                      ok /\ q.id = w.pipe /\ q2 = [q EXCEPT !.in_flight = FALSE]
      <3>1. CASE p # w.pid
        BY <1>5, <2>6, <3>1
      <3>2. CASE p = w.pid /\ q2 \in kept
        BY <1>4, <3>2
      <3>3. CASE p = w.pid /\ q2 \in Followers(p) /\ q2 \notin mine
        BY <1>5, <3>3
      <3> QED
        BY <2>6, <3>1, <3>2, <3>3
    <2> QED
      BY <1>6, <1>7, <2>7, <2>8
  <1> QED
    BY <1>8, <1>9

\* A line is written to its end.
LEMMA DoneFInv ==
  ASSUME CInv, FInv, NEW w \in writes, FollowWriteDone(w)
  PROVE  FInv'
  <1> DEFINE s == SubSeq(Halves(w.line), w.half, 2)
  <1>1. /\ w.file # Queued /\ Goes(w) /\ Puts(w, s) /\ CompleteWrite(w, TRUE)
        /\ writes' = writes \ {w}
        /\ UNCHANGED <<graveyard, next_pipe, proc, taken>>
    BY DEF FollowWriteDone, worldVars
  <1>2. /\ \A p \in Pids : Listed(p)' <=> Listed(p)
        /\ \A p \in Pids : Listed(p) => containers'[p].cache = containers[p].cache
        /\ \A p \in Pids : \A q2 \in Followers(p)' :
             \/ q2 \in Followers(p) /\ q2.id # w.pipe
             \/ \E q \in Followers(p) : q.id = w.pipe /\ q2 = [q EXCEPT !.in_flight = FALSE]
        /\ fds' = fds
    <2> DEFINE ok == TRUE
    <2>1. ok \in BOOLEAN /\ CompleteWrite(w, ok)
      BY <1>1
    <2>2. ok
      OBVIOUS
    <2> HIDE DEF ok
    <2>3. /\ \A p \in Pids : Listed(p)' <=> Listed(p)
          /\ \A p \in Pids : Listed(p) => containers'[p].cache = containers[p].cache
          /\ ok => fds' = fds
      BY <2>1, CompleteFollowers
    <2>4. \A p \in Pids : \A q2 \in Followers(p)' :
             \/ q2 \in Followers(p) /\ q2.id # w.pipe
             \/ \E q \in Followers(p) :
                  ok /\ q.id = w.pipe /\ q2 = [q EXCEPT !.in_flight = FALSE]
      BY <2>1, CompleteFollowers
    <2> QED
      BY <2>2, <2>3, <2>4
  <1>3. \A p \in Pids : Log(p)' = Log(p)
    BY <1>1, <1>2 DEF Log
  <1>4. w \in Write /\ w.line \in Line /\ w.half \in {1, 2}
    BY DEF FInv, FollowTypes, Write
  <1>5. ASSUME NEW p \in Pids, NEW q2 \in Followers(p)'
        PROVE  /\ q2 \in Pipe
               /\ \E q \in Followers(p) :
                    /\ q2.id = q.id /\ q2.fd = q.fd
                    /\ q2 = IF q.id = w.pipe THEN [q EXCEPT !.in_flight = FALSE] ELSE q
    <2>1. CASE q2 \in Followers(p) /\ q2.id # w.pipe
      BY <2>1 DEF FInv, FollowTypes
    <2>2. CASE ~(q2 \in Followers(p) /\ q2.id # w.pipe)
      <3>1. PICK q \in Followers(p) : q.id = w.pipe /\ q2 = [q EXCEPT !.in_flight = FALSE]
        BY <1>2, <2>2
      <3>2. q \in Pipe
        BY DEF FInv, FollowTypes
      <3>3. q2 \in Pipe /\ q2.id = q.id /\ q2.fd = q.fd
        BY <3>1, <3>2 DEF Pipe
      <3> QED
        BY <3>1, <3>3
    <2> QED
      BY <2>1, <2>2
  <1> HIDE DEF s
  <1>6. /\ DOMAIN content' = Pipes /\ w.file \in Pipes
        /\ content'[w.file] = content[w.file] \o s
        /\ \A i \in Pipes : i # w.file => content'[i] = content[i]
        /\ strayed \subseteq strayed' /\ (w.file # w.pipe => w.file \in strayed')
    BY <1>1, PutsContent
  <1>7. LogInv'
    BY <1>1, <1>3 DEF FInv, LogInv
  <1>8. FollowTypes'
    <2>1. s \in Seq(Half)
      <3>1. <<w.line, 1>> \in Half /\ <<w.line, 2>> \in Half
        BY <1>4 DEF Half
      <3>2. SubSeq(Halves(w.line), 2, 2) = <<<<w.line, 2>>>>
            /\ SubSeq(Halves(w.line), 1, 2) = <<<<w.line, 1>>>> \o <<<<w.line, 2>>>>
        BY <3>1, PairSlices DEF Halves
      <3>3. <<<<w.line, 2>>>> \in Seq(Half) /\ <<<<w.line, 1>>>> \in Seq(Half)
        BY <3>1
      <3>4. CASE w.half = 2
        BY <3>2, <3>3, <3>4 DEF s
      <3>5. CASE w.half = 1
        BY <3>2, <3>3, <3>5 DEF s
      <3> QED
        BY <1>4, <3>4, <3>5
    <2>2. \A i \in Pipes : content[i] \in Seq(Half)
      BY DEF FInv, FollowTypes
    <2>3. content[w.file] \o s \in Seq(Half)
      BY <1>6, <2>1, <2>2
    <2>4. \A i \in Pipes : content'[i] \in Seq(Half)
      BY <1>6, <2>2, <2>3
    <2>5. content' \in [Pipes -> Seq(Half)]
      <3>1. content' = [i \in Pipes |-> content'[i]]
        BY <1>1 DEF Puts, FInv, FollowTypes
      <3> QED
        BY <2>4, <3>1
    <2> QED
      BY <1>1, <1>2, <1>5, <2>5 DEF FInv, FollowTypes
  <1>9. PipesInv'
    <2>1. ASSUME NEW p \in Pids, NEW q2 \in Followers(p)'
          PROVE  fds'[q2.fd] = q2.id
      BY <1>2, <1>5 DEF FInv, PipesInv
    <2>2. ASSUME NEW p1 \in Pids, NEW p2 \in Pids, NEW q1 \in Followers(p1)',
                 NEW q2 \in Followers(p2)', q1.id = q2.id
          PROVE  p1 = p2 /\ q1 = q2
      <3>1. PICK a \in Followers(p1) :
              /\ q1.id = a.id
              /\ q1 = IF a.id = w.pipe THEN [a EXCEPT !.in_flight = FALSE] ELSE a
        BY <1>5
      <3>2. PICK b \in Followers(p2) :
              /\ q2.id = b.id
              /\ q2 = IF b.id = w.pipe THEN [b EXCEPT !.in_flight = FALSE] ELSE b
        BY <1>5
      <3>3. p1 = p2 /\ a = b
        BY <2>2, <3>1, <3>2 DEF FInv, PipesInv
      <3> QED
        BY <3>1, <3>2, <3>3
    <2> QED
      BY <2>1, <2>2 DEF PipesInv
  <1>10. \A v \in writes' : v \in writes /\ v.pipe # w.pipe
    BY <1>1 DEF FInv, WritesInv
  <1>11. WritesInv'
    <2>1. \A v, v2 \in writes' : v.pipe = v2.pipe => v = v2
      BY <1>1 DEF FInv, WritesInv
    <2>2. ASSUME NEW v \in writes', NEW p \in Pids, NEW q2 \in Followers(p)', v.pipe = q2.id
          PROVE  v.pid = p /\ v.fd = q2.fd /\ q2.in_flight /\ v.file \in {Queued, q2.id}
      <3>1. q2 \in Followers(p)
        BY <1>5, <1>10, <2>2
      <3> QED
        BY <1>10, <2>2, <3>1 DEF FInv, WritesInv
    <2> QED
      BY <2>1, <2>2 DEF WritesInv
  <1>12. FlowInv'
    <2> SUFFICES ASSUME NEW p \in Pids, NEW q2 \in Followers(p)', q2.id \notin strayed'
                 PROVE  Flow(Log(p), content'[q2.id], WritesTo(q2.id)')
      BY <1>3 DEF FlowInv
    <2>1. PICK q \in Followers(p) : q2.id = q.id
      BY <1>5
    <2>2. q.id \in Pipes /\ q.id \notin strayed
      BY <1>6, <2>1 DEF FInv, FollowTypes, Pipe
    <2>3. Flow(Log(p), content[q.id], WritesTo(q.id)) /\ content[q.id] \in Seq(Half)
      BY <2>2 DEF FInv, FlowInv, FollowTypes
    <2>4. CASE w.pipe = q.id
      <3>1. w.file = q.id /\ WritesTo(q.id) = {w}
        BY <1>1, <2>4, OwnWrite
      <3>2. WritesTo(q.id)' = {}
        BY <1>10, <2>4 DEF WritesTo
      <3>3. content'[q.id] = content[q.id] \o s
        BY <1>6, <3>1
      <3>4. Flow(Log(p), content[q.id] \o s, {})
        BY <1>4, <2>3, <3>1, FlowDone DEF s
      <3> QED
        BY <2>1, <3>2, <3>3, <3>4
    <2>5. CASE w.pipe # q.id
      <3>1. WritesTo(q.id)' = WritesTo(q.id)
        BY <1>1, <2>5 DEF WritesTo
      <3>2. content'[q.id] = content[q.id]
        BY <1>6, <2>1, <2>2, <2>5
      <3> QED
        BY <2>1, <2>3, <3>1, <3>2
    <2> QED
      BY <2>4, <2>5
  <1> QED
    BY <1>7, <1>8, <1>9, <1>11, <1>12 DEF FInv

\* A write fails, and its follower is gone.
LEMMA FailedFInv ==
  ASSUME CInv, FInv, NEW w \in writes, FollowWriteFailed(w)
  PROVE  FInv'
  <1>1. /\ CompleteWrite(w, FALSE) /\ writes' = writes \ {w}
        /\ UNCHANGED <<graveyard, next_pipe, proc, taken, content, strayed>>
    BY DEF FollowWriteFailed, worldVars, pipeHistory
  <1>2. /\ \A p \in Pids : Listed(p)' <=> Listed(p)
        /\ \A p \in Pids : Listed(p) => containers'[p].cache = containers[p].cache
        /\ \A p \in Pids : \A q2 \in Followers(p)' : q2 \in Followers(p) /\ q2.id # w.pipe
        /\ \A p \in Pids : \A q \in Followers(p) : q.id # w.pipe => fds'[q.fd] = fds[q.fd]
        /\ fds' \in [Fds -> Pipes \union {NoPipe}]
        /\ \A f \in Fds : fds'[f] \in {fds[f], NoPipe}
    BY <1>1, CompleteFollowers
  <1>3. \A p \in Pids : Log(p)' = Log(p)
    BY <1>1, <1>2 DEF Log
  <1>4. LogInv'
    BY <1>1, <1>3 DEF FInv, LogInv
  <1>5. FollowTypes'
    BY <1>1, <1>2 DEF FInv, FollowTypes, NoPipe
  <1>6. PipesInv'
    <2>1. ASSUME NEW p \in Pids, NEW q2 \in Followers(p)'
          PROVE  fds'[q2.fd] = q2.id
      BY <1>2 DEF FInv, PipesInv
    <2>2. ASSUME NEW p1 \in Pids, NEW p2 \in Pids, NEW q1 \in Followers(p1)',
                 NEW q2 \in Followers(p2)', q1.id = q2.id
          PROVE  p1 = p2 /\ q1 = q2
      BY <1>2, <2>2 DEF FInv, PipesInv
    <2> QED
      BY <2>1, <2>2 DEF PipesInv
  <1>7. WritesInv'
    <2>1. \A v, v2 \in writes' : v.pipe = v2.pipe => v = v2
      BY <1>1 DEF FInv, WritesInv
    <2>2. ASSUME NEW v \in writes', NEW p \in Pids, NEW q2 \in Followers(p)', v.pipe = q2.id
          PROVE  v.pid = p /\ v.fd = q2.fd /\ q2.in_flight /\ v.file \in {Queued, q2.id}
      BY <1>1, <1>2, <2>2 DEF FInv, WritesInv
    <2> QED
      BY <2>1, <2>2 DEF WritesInv
  <1>8. FlowInv'
    <2> SUFFICES ASSUME NEW p \in Pids, NEW q \in Followers(p)', q.id \notin strayed
                 PROVE  Flow(Log(p), content[q.id], WritesTo(q.id)')
      BY <1>1, <1>3 DEF FlowInv
    <2>1. q \in Followers(p) /\ q.id # w.pipe
      BY <1>2
    <2>2. WritesTo(q.id)' = WritesTo(q.id)
      BY <1>1, <2>1 DEF WritesTo
    <2> QED
      BY <2>1, <2>2 DEF FInv, FlowInv
  <1> QED
    BY <1>4, <1>5, <1>6, <1>7, <1>8 DEF FInv

\* The daemon starts with no follower.
LEMMA InitFInv == ContainersInit => FInv
  <1> SUFFICES ASSUME ContainersInit PROVE FInv
    OBVIOUS
  <1>1. /\ containers = [p \in Pids |-> NoContainer] /\ graveyard = [p \in Pids |-> <<>>]
        /\ writes = {} /\ fds = [f \in Fds |-> NoPipe] /\ next_pipe = 1
        /\ taken = [p \in Pids |-> [d \in OutputKinds |-> 0]]
        /\ content = [i \in Pipes |-> <<>>]
    BY DEF ContainersInit
  <1>2. \A p \in Pids : ~Listed(p) /\ Followers(p) = {} /\ Log(p) = <<>>
    BY <1>1 DEF Listed, Followers, Log
  <1>3. ASSUME NEW p \in Pids
        PROVE  LogOf(Log(p), taken[p])
    <2>1. \A d \in OutputKinds : taken[p][d] \div 2 = 0
      BY <1>1
    <2>2. <<>> \in Seq(Line) /\ Len(<<>>) = 0
      OBVIOUS
    <2>3. ASSUME NEW d \in OutputKinds, NEW n \in Nat
          PROVE  n \notin 1..(taken[p][d] \div 2)
      BY <2>1
    <2>4. \A i : i \notin 1..Len(<<>>)
      BY <2>2
    <2>5. LogOf(<<>>, taken[p])
      BY <2>2, <2>3, <2>4 DEF LogOf
    <2> QED
      BY <1>2, <2>5
  <1>4. LogInv
    BY <1>1, <1>3 DEF LogInv
  <1>5. FollowTypes
    <2>1. <<>> \in Seq(Half)
      OBVIOUS
    <2>2. content \in [Pipes -> Seq(Half)]
      BY <1>1, <2>1
    <2> QED
      BY <1>1, <1>2, <2>2 DEF FollowTypes, NoPipe
  <1> QED
    BY <1>1, <1>2, <1>4, <1>5 DEF FInv, PipesInv, WritesInv, FlowInv

\* Every step preserves the invariant.
LEMMA NextFInv == CInv /\ FInv /\ [ContainersNext]_containerVars => FInv'
  <1> SUFFICES ASSUME CInv, FInv, [ContainersNext]_containerVars PROVE FInv'
    OBVIOUS
  <1>1. ASSUME NEW p \in Pids, NEW tty \in BOOLEAN, handle_run(p, tty)
        PROVE  FInv'
    <2>1. (IF tty THEN OutputKinds ELSE {"pipe"}) \in SUBSET OutputKinds
      BY DEF OutputKinds
    <2> QED
      BY <1>1, <2>1, StartsFInv DEF handle_run
  <1>2. ASSUME NEW p \in Pids, handle_run_attach(p)
        PROVE  FInv'
    BY <1>2, StartsFInv DEF handle_run_attach
  <1>3. ASSUME NEW p \in Pids, Drain(p) \/ \E d \in OutputKinds : OutputReadFails(p, d)
        PROVE  FInv'
    BY <1>3, OutputFInv, FinishFInv DEF Drain
  <1>4. ASSUME NEW p \in Pids, reap_children(p) \/ handle_follow(p)
        PROVE  FInv'
    BY <1>4, ReapFInv, FollowFInv
  <1>5. ASSUME NEW p \in Pids, NEW d \in OutputKinds, Prints(p, d) \/ ClosesOutput(p, d)
        PROVE  FInv'
    BY <1>5, SameFollowers DEF Prints, ClosesOutput, daemonVars
  <1>6. ASSUME NEW p \in Pids, Exits(p)
        PROVE  FInv'
    <2>1. \A q \in Pids : proc'[q] = "none" => proc[q] = "none"
      BY <1>6 DEF Exits, CInv, Types
    <2> QED
      BY <1>6, <2>1, SameFollowers DEF Exits, daemonVars
  <1>7. ASSUME NEW i, on_follow_send(i) \/ FollowerLeaves(i)
        PROVE  FInv'
    BY <1>7, SameFollowers
       DEF on_follow_send, FollowerLeaves, daemonVars, worldVars
  <1>8. CASE Submit
    BY <1>8, SubmitFInv
  <1>9. ASSUME NEW w \in writes,
               FollowWriteDone(w) \/ FollowWritePart(w) \/ FollowWriteFailed(w)
        PROVE  FInv'
    BY <1>9, DoneFInv, PartFInv, FailedFInv
  <1>10. CASE UNCHANGED containerVars
    BY <1>10, SameFollowers DEF containerVars, daemonVars, worldVars
  <1> QED
    BY <1>1, <1>2, <1>3, <1>4, <1>5, <1>6, <1>7, <1>8, <1>9, <1>10 DEF ContainersNext

\* The invariant holds of every reachable state.
LEMMA FollowersHold == ContainersSpec => []FInv
  <1>1. ContainersInit => FInv
    BY InitFInv
  <1>2. CInv /\ FInv /\ [ContainersNext]_containerVars => FInv'
    BY NextFInv
  <1> QED
    BY <1>1, <1>2, ContainersHold, PTL DEF ContainersSpec

-----------------------------------------------------------------------------
(* Theorems.                                                               *)

\* drains_pending counts the running drains exactly, whichever of the drains
\* and the reaper comes last, and a drain never outlives its container.
THEOREM DrainsAreCounted == ContainersSpec => []DrainsCounted
  <1>1. CInv => DrainsCounted
    BY DEF CInv
  <1> QED
    BY <1>1, ContainersHold, PTL

\* A running container keeps its death pipe to the end, even when every read of
\* its outputs fails, and its overlay for as long as it can write to a drained
\* output.
THEOREM RunningKeepsItsOwn == ContainersSpec => []HeldWhileRunning
  <1>1. CInv => HeldWhileRunning
    BY DEF CInv
  <1> QED
    BY <1>1, ContainersHold, PTL

\* A container leaves the map, through finish_drain or through the reaper,
\* only with each output read to its end, or closed because a read of it
\* failed: nothing else it printed is lost.
NothingUnread ==
  \A p \in Pids :
    ~Listed(p) => \A d \in OutputKinds \ failed[p] : taken[p][d] = printed[p][d]

\* A container that is not in the map has no drain that could have bytes left.
LEMMA UnreadNothing == CInv => NothingUnread
  BY DEF CInv, NothingUnread, DrainsCounted, ReadInv

\* The last part of LogIsComplete, at every moment the container is not in
\* the map.
THEOREM RemovedWhenRead == ContainersSpec => []NothingUnread
  BY UnreadNothing, ContainersHold, PTL

\* However the reads cut the output and whichever drain comes first, the log
\* of a container holds every line read, whole, once and in its output's order,
\* and, once the container is gone, every line printed to an output whose reads
\* did not fail.
THEOREM LogsAreComplete == ContainersSpec => []LogIsComplete
  <1>1. CInv /\ FInv => LogIsComplete
    <2> SUFFICES ASSUME CInv, FInv, NEW p \in Pids
                 PROVE  /\ \A d \in OutputKinds : Logged(p, d) = 1..(taken[p][d] \div 2)
                        /\ \A j, k \in DOMAIN Log(p) :
                             j < k /\ Log(p)[j][1] = Log(p)[k][1]
                               => Log(p)[j][2] < Log(p)[k][2]
                        /\ proc[p] = "reaped" /\ ~Listed(p) =>
                             \A d \in OutputKinds \ failed[p] : taken[p][d] = printed[p][d]
      BY DEF LogIsComplete
    <2> DEFINE log == Log(p)
    <2>1. LogOf(log, taken[p])
      BY DEF FInv, LogInv
    <2> HIDE DEF log
    <2>2. DOMAIN log = 1..Len(log) /\ \A k \in 1..Len(log) : log[k] \in Line
      BY <2>1 DEF LogOf
    <2>3. ASSUME NEW d \in OutputKinds
          PROVE  Logged(p, d) = 1..(taken[p][d] \div 2)
      <3>1. Logged(p, d) = {log[k][2] : k \in {j \in DOMAIN log : log[j][1] = d}}
        BY DEF Logged, log
      <3>2. ASSUME NEW n \in Logged(p, d)
            PROVE  n \in 1..(taken[p][d] \div 2)
        <4>1. PICK k \in 1..Len(log) : log[k][1] = d /\ n = log[k][2]
          BY <2>2, <3>1, <3>2
        <4>2. n \in Nat /\ log[k] = <<d, n>>
          BY <2>2, <4>1 DEF Line
        <4> QED
          BY <2>1, <4>2 DEF LogOf
      <3>3. ASSUME NEW n \in 1..(taken[p][d] \div 2)
            PROVE  n \in Logged(p, d)
        <4>1. n \in Nat
          <5>1. taken[p][d] \in Nat
            BY DEF CInv, Types
          <5> QED
            BY <5>1
        <4>2. PICK k \in 1..Len(log) : log[k] = <<d, n>>
          BY <2>1, <4>1 DEF LogOf
        <4> QED
          BY <2>2, <3>1, <4>2
      <3> QED
        BY <3>2, <3>3
    <2>4. \A j, k \in DOMAIN log :
            j < k /\ log[j][1] = log[k][1] => log[j][2] < log[k][2]
      BY <2>1, <2>2 DEF LogOf
    <2>5. ~Listed(p) => \A d \in OutputKinds \ failed[p] : taken[p][d] = printed[p][d]
      BY UnreadNothing DEF NothingUnread
    <2> QED
      BY <2>3, <2>4, <2>5 DEF log
  <1> QED
    BY <1>1, ContainersHold, FollowersHold, PTL

\* Whatever the drains, the submissions and the other followers do in between,
\* a follower whose pipe no write of a removed container reached is sent whole
\* lines, each after the one before it, in the order of the log.
THEOREM FollowersReadInOrder == ContainersSpec => []FollowedInOrder
  <1>1. FInv => FollowedInOrder
    <2> SUFFICES ASSUME FInv, NEW p \in Pids, Listed(p), NEW q \in containers[p].pipes,
                        q.id \notin strayed
                 PROVE  LET c == content[q.id] IN
                        /\ \A k \in DOMAIN c : c[k][2] = IF k % 2 = 1 THEN 1 ELSE 2
                        /\ \A k \in 1..(Len(c) - 1) :
                             IF c[k][2] = 1 THEN c[k + 1][1] = c[k][1]
                             ELSE Position(p, c[k][1]) < Position(p, c[k + 1][1])
      BY DEF FollowedInOrder
    <2> DEFINE c == content[q.id]
               log == Log(p)
    <2>1. q \in Followers(p) /\ q.id \in Pipes
      BY DEF Followers, FInv, FollowTypes, Pipe
    <2>2. ContentOf(log, c) /\ c \in Seq(Half)
      BY <2>1 DEF FInv, FlowInv, Flow, FollowTypes
    <2>3. log \in Seq(Line)
      BY DEF FInv, LogInv, LogOf
    <2>4. \A x : Position(p, x) = CHOOSE k \in DOMAIN log : log[k] = x
      BY DEF Position
    <2> HIDE DEF c, log
    <2>5. DOMAIN c = 1..Len(c) /\ Len(c) \in Nat /\ DOMAIN log = 1..Len(log)
      BY <2>2, <2>3
    <2>6. ASSUME NEW k \in 1..Len(c)
          PROVE  /\ Position(p, c[k][1]) \in 1..Len(log)
                 /\ log[Position(p, c[k][1])] = c[k][1]
      <3>1. \E i \in DOMAIN log : log[i] = c[k][1]
        BY <2>2, <2>5 DEF ContentOf
      <3> QED
        BY <2>4, <2>5, <3>1
    <2>7. ASSUME NEW k \in 1..(Len(c) - 1)
          PROVE  IF c[k][2] = 1 THEN c[k + 1][1] = c[k][1]
                 ELSE Position(p, c[k][1]) < Position(p, c[k + 1][1])
      <3>1. k \in 1..Len(c) /\ k + 1 \in 1..Len(c)
        BY <2>5
      <3> QED
        BY <2>2, <2>6, <3>1 DEF ContentOf
    <2>8. \A k \in DOMAIN c : c[k][2] = IF k % 2 = 1 THEN 1 ELSE 2
      BY <2>2, <2>5 DEF ContentOf
    <2> QED
      BY <2>7, <2>8 DEF c
  <1> QED
    BY <1>1, FollowersHold, PTL
=============================================================================
