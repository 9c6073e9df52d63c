---------------------------- MODULE LaunchProofs ----------------------------
(***************************************************************************)
(* Proofs about Launch, for any number of containers: its types, who may   *)
(* hold a write end, and that the daemon keeps the death pipe of every     *)
(* running init open while it is up.                                       *)
(***************************************************************************)
EXTENDS Launch, TLAPS

-----------------------------------------------------------------------------
(* The processes, and the write ends, are pairwise distinct.               *)

\* The daemon, the containers and their commands are different processes.
LEMMA ProcsDistinct ==
  /\ \A c \in Cont : Daemon # First(c) /\ Daemon # Command(c)
  /\ \A c, d \in Cont : First(c) # Command(d)
  /\ \A c, d \in Cont : c # d => First(c) # First(d) /\ Command(c) # Command(d)
  /\ Daemon \in Proc
  /\ \A c \in Cont : First(c) \in Proc /\ Command(c) \in Proc
BY DEF Daemon, First, Command, Proc

\* The write ends of all containers are different.
LEMMA EndsDistinct ==
  /\ \A c, d \in Cont : Death(c) # Pipe(d)
  /\ \A c, d \in Cont : c # d => Death(c) # Death(d) /\ Pipe(c) # Pipe(d)
BY DEF Death, Pipe

\* The write ends of two containers are disjoint.
LEMMA WriteEndsDisjoint ==
  ASSUME NEW c \in Cont, NEW d \in Cont, NEW e \in WriteEnds(c), e \in WriteEnds(d)
  PROVE  c = d
BY EndsDistinct DEF WriteEnds

AllEnds == UNION {WriteEnds(c) : c \in Cont}

\* The ends of a container are ends.
LEMMA EndsTyped == \A c \in Cont : Death(c) \in AllEnds /\ Pipe(c) \in AllEnds
BY DEF AllEnds, WriteEnds

-----------------------------------------------------------------------------
(* Types.                                                                  *)

\* What a process ends with is one of its endings.
LEMMA EndingTyped ==
  /\ Killed \in Endings
  /\ \A n \in {1, 127, 137} : Exited(n) \in Endings
  /\ \A s \in Status \cup {Exited(127)} : s \in Endings /\ s \in CommandEndings
  /\ \A s \in CommandEndings : Exited(exit_code(s)) \in Endings
BY DEF Endings, CommandEndings

\* Processes hold sets of ends.
LEMMA HoldsTyped == LaunchTypeOK => holds \in [Proc -> SUBSET AllEnds]
BY DEF LaunchTypeOK, AllEnds

\* A process that ends leaves the records well formed.
LEMMA EndsTypedStep ==
  ASSUME LaunchTypeOK, NEW c \in Cont, NEW how \in Endings, Ends(c, how)
  PROVE  /\ st' \in [Cont -> {"none", "waiting", "setup", "init", "foreign", "dead"}]
         /\ status' \in [Cont -> Endings]
         /\ cmd' \in [Cont -> {"none", "forked", "running", "zombie", "gone"}]
         /\ pending' \in [Cont -> SUBSET {"CHLD", "TERM"}]
         /\ holds' \in [Proc -> SUBSET AllEnds]
  <1>1. /\ st' \in [Cont -> {"none", "waiting", "setup", "init", "foreign", "dead"}]
        /\ status' \in [Cont -> Endings]
    BY DEF LaunchTypeOK, Ends
  <1>2. cmd' \in [Cont -> {"none", "forked", "running", "zombie", "gone"}]
    BY DEF LaunchTypeOK, Ends
  <1>3. pending' \in [Cont -> SUBSET {"CHLD", "TERM"}]
    BY DEF LaunchTypeOK, Ends
  <1>4. holds' \in [Proc -> SUBSET AllEnds]
    BY ProcsDistinct DEF LaunchTypeOK, Ends, AllEnds
  <1> QED
    BY <1>1, <1>2, <1>3, <1>4

\* What the processes of a container leave alone keeps its type.
LEMMA OthersTyped ==
  ASSUME LaunchTypeOK, UNCHANGED others
  PROVE  /\ daemon' \in {"up", "dead"}
         /\ launching' \in Cont \cup {0} /\ next' \in Nat \ {0}
         /\ builtin' \in [Cont -> BOOLEAN]
         /\ sync' \in [Cont -> {"open", "sent", "closed"}]
         /\ listed' \in [Cont -> {"no", "attached", "detached"}]
         /\ reaped' \in [Cont -> BOOLEAN]
BY DEF LaunchTypeOK, others, recVars

\* The starting state is well formed.
LEMMA TypeInit == LaunchInit => LaunchTypeOK
  <1> SUFFICES ASSUME LaunchInit PROVE LaunchTypeOK
    OBVIOUS
  <1>1. launching \in Cont \cup {0} /\ next \in Nat \ {0}
    BY DEF LaunchInit
  <1> QED
    BY <1>1 DEF LaunchInit, LaunchTypeOK, Endings, CommandEndings

\* The daemon's handlers keep the types.
LEMMA TypeHandler ==
  ASSUME LaunchTypeOK, Handler
  PROVE  LaunchTypeOK'
  <1>0. Cont = 1..MaxCont
    BY DEF Cont
  <1>1. ASSUME NEW own \in BOOLEAN, Clone(own) PROVE LaunchTypeOK'
    <2>1. next \in Cont
      BY <1>1 DEF Clone
    <2> DEFINE death == IF own THEN {Death(next)} ELSE {}
    <2>a. death \in SUBSET AllEnds /\ Pipe(next) \in AllEnds
      BY <2>1, EndsTyped
    <2>b. /\ holds[Daemon] \in SUBSET AllEnds
          /\ First(next) \in Proc
      BY <2>1, HoldsTyped, ProcsDistinct
    <2>c. holds' = [holds EXCEPT ![Daemon] = @ \cup death \cup {Pipe(next)},
                                ![First(next)] = holds[Daemon] \cup death]
      BY <1>1 DEF Clone
    <2>2. holds' \in [Proc -> SUBSET AllEnds]
      <3> HIDE DEF death
      <3> QED
        BY <2>a, <2>b, <2>c, HoldsTyped
    <2>3. launching' \in Cont \cup {0} /\ next' \in Nat \ {0}
      BY <1>0, <1>1, <2>1 DEF Clone
    <2> QED
      BY <1>1, <2>1, <2>2, <2>3 DEF Clone, LaunchTypeOK, recVars, AllEnds
  <1>2. ASSUME NEW how \in {"attached", "detached"}, Started(how) PROVE LaunchTypeOK'
    <2>1. launching' \in Cont \cup {0}
      BY <1>2 DEF Started
    <2> QED
      BY <1>2, <2>1 DEF Started, LaunchTypeOK
  <1>3. CASE Aborted
    <2>1. launching' \in Cont \cup {0}
      BY <1>3 DEF Aborted
    <2>2. holds' \in [Proc -> SUBSET AllEnds]
      BY <1>3, ProcsDistinct DEF Aborted, LaunchTypeOK, AllEnds
    <2> QED
      BY <1>3, <2>1, <2>2 DEF Aborted, LaunchTypeOK, recVars, AllEnds
  <1>4. CASE Dies
    <2>1. launching' \in Cont \cup {0}
      BY <1>4 DEF Dies
    <2>2. holds' \in [Proc -> SUBSET AllEnds]
      BY <1>4, ProcsDistinct DEF Dies, LaunchTypeOK, AllEnds
    <2>3. sync' \in [Cont -> {"open", "sent", "closed"}]
      BY <1>4 DEF Dies, LaunchTypeOK
    <2> QED
      BY <1>4, <2>1, <2>2, <2>3 DEF Dies, LaunchTypeOK, recVars, AllEnds
  <1>5. ASSUME NEW c \in Cont, ClosePipe(c) PROVE LaunchTypeOK'
    <2>1. holds' \in [Proc -> SUBSET AllEnds]
      BY <1>5, ProcsDistinct DEF ClosePipe, LaunchTypeOK, AllEnds
    <2> QED
      BY <1>5, <2>1 DEF ClosePipe, LaunchTypeOK, contVars, recVars, AllEnds
  <1>6. ASSUME NEW c \in Cont, Kill(c) PROVE LaunchTypeOK'
    <2>1. Ends(c, Killed)
      BY <1>6 DEF Kill
    <2> QED
      BY <1>6, <2>1, EndsTypedStep, EndingTyped DEF Kill, LaunchTypeOK, recVars, AllEnds
  <1>7. ASSUME NEW c \in Cont, Reap(c) PROVE LaunchTypeOK'
    <2>1. holds' \in [Proc -> SUBSET AllEnds]
      <3>1. CASE listed[c] = "attached"
        BY <1>7, <3>1, HoldsTyped, ProcsDistinct DEF Reap
      <3>2. CASE listed[c] # "attached"
        BY <1>7, <3>2, HoldsTyped DEF Reap
      <3> QED
        BY <3>1, <3>2
    <2>2. listed' \in [Cont -> {"no", "attached", "detached"}]
      BY <1>7 DEF Reap, LaunchTypeOK
    <2> QED
      BY <1>7, <2>1, <2>2 DEF Reap, LaunchTypeOK, contVars, AllEnds
  <1>8. ASSUME NEW c \in Cont, finish_drain(c) PROVE LaunchTypeOK'
    <2>1. holds' \in [Proc -> SUBSET AllEnds]
      BY <1>8, ProcsDistinct DEF finish_drain, LaunchTypeOK, AllEnds
    <2> QED
      BY <1>8, <2>1 DEF finish_drain, LaunchTypeOK, contVars, AllEnds
  <1> QED
    BY <1>1, <1>2, <1>3, <1>4, <1>5, <1>6, <1>7, <1>8 DEF Handler

\* A step of the processes of a container keeps the types.
LEMMA TypeProcess ==
  ASSUME LaunchTypeOK, NEW c \in Cont,
         Child(c) \/ CommandExecs(c) \/ InitSeesDeath(c) \/ InitReadsSignal(c) \/ World(c)
  PROVE  LaunchTypeOK'
  <1> USE DEF AllEnds
  <1>0. UNCHANGED others
    BY DEF Child, World, Proceed, Fails, Execs, Forks, CommandExecs, InitSeesDeath,
           InitReadsSignal, ForeignEnds, CommandEnds, OrphanEnds, Signalled, ExitsEarly
  <1>1. CASE Proceed(c)
    <2>1. holds' \in [Proc -> SUBSET AllEnds]
      BY <1>1, ProcsDistinct DEF Proceed, LaunchTypeOK
    <2> QED
      BY <1>0, <1>1, <2>1, OthersTyped DEF Proceed, LaunchTypeOK
  <1>2. CASE Fails(c)
    <2>1. PICK n \in {1, 127} : Ends(c, Exited(n))
      BY <1>2 DEF Fails
    <2>2. Exited(n) \in Endings
      BY EndingTyped
    <2>3. UNCHANGED <<ended, got>>
      BY <1>2 DEF Fails
    <2> QED
      BY <1>0, <2>1, <2>2, <2>3, EndsTypedStep, OthersTyped DEF LaunchTypeOK
  <1>12. CASE ExitsEarly(c)
    <2>1. Exited(1) \in Endings
      BY EndingTyped
    <2> QED
      BY <1>0, <1>12, <2>1, EndsTypedStep, OthersTyped DEF ExitsEarly, LaunchTypeOK
  <1>3. CASE Execs(c)
    <2>1. holds' \in [Proc -> SUBSET AllEnds]
      BY <1>3, ProcsDistinct DEF Execs, LaunchTypeOK
    <2> QED
      BY <1>0, <1>3, <2>1, OthersTyped DEF Execs, LaunchTypeOK
  <1>4. CASE Forks(c)
    <2>1. holds' \in [Proc -> SUBSET AllEnds]
      BY <1>4, ProcsDistinct DEF Forks, LaunchTypeOK
    <2> QED
      BY <1>0, <1>4, <2>1, OthersTyped DEF Forks, LaunchTypeOK
  <1>5. CASE CommandExecs(c)
    <2>1. holds' \in [Proc -> SUBSET AllEnds]
      BY <1>5, ProcsDistinct DEF CommandExecs, LaunchTypeOK
    <2> QED
      BY <1>0, <1>5, <2>1, OthersTyped DEF CommandExecs, LaunchTypeOK
  <1>6. CASE InitSeesDeath(c)
    <2>1. Ends(c, Exited(137))
      BY <1>6 DEF InitSeesDeath
    <2>2. Exited(137) \in Endings
      BY EndingTyped
    <2> QED
      BY <1>0, <1>6, <2>1, <2>2, EndsTypedStep, OthersTyped DEF InitSeesDeath, LaunchTypeOK
  <1>7. CASE InitReadsSignal(c)
    <2>1. CASE Ends(c, Exited(exit_code(ended[c]))) /\ UNCHANGED got
      <3>1. ended[c] \in CommandEndings
        BY DEF LaunchTypeOK
      <3>2. Exited(exit_code(ended[c])) \in Endings
        BY <3>1, EndingTyped
      <3> QED
        BY <1>0, <1>7, <2>1, <3>2, EndsTypedStep, OthersTyped DEF InitReadsSignal, LaunchTypeOK
    <2>2. CASE /\ pending' = [pending EXCEPT ![c] = @ \ {"CHLD"}]
               /\ UNCHANGED <<st, status, cmd, got, holds>>
      BY <1>0, <1>7, <2>2, OthersTyped DEF InitReadsSignal, LaunchTypeOK
    <2>3. CASE /\ pending' = [pending EXCEPT ![c] = @ \ {"TERM"}]
               /\ got' = [got EXCEPT ![c] = TRUE]
               /\ UNCHANGED <<st, status, cmd, holds>>
      BY <1>0, <1>7, <2>3, OthersTyped DEF InitReadsSignal, LaunchTypeOK
    <2> QED
      BY <1>7, <2>1, <2>2, <2>3 DEF InitReadsSignal
  <1>8. CASE \E s \in Status : ForeignEnds(c, s)
    <2>1. PICK s \in Status : ForeignEnds(c, s)
      BY <1>8
    <2>2. Ends(c, s) /\ s \in Endings
      BY <2>1, EndingTyped DEF ForeignEnds
    <2> QED
      BY <1>0, <2>1, <2>2, EndsTypedStep, OthersTyped DEF ForeignEnds, LaunchTypeOK
  <1>9. CASE \E s \in Status \cup {Exited(127)} : CommandEnds(c, s)
    <2>1. PICK s \in Status \cup {Exited(127)} : CommandEnds(c, s)
      BY <1>9
    <2>2. s \in CommandEndings
      BY EndingTyped
    <2>3. holds' \in [Proc -> SUBSET AllEnds]
      BY <2>1, ProcsDistinct DEF CommandEnds, LaunchTypeOK
    <2>4. pending' \in [Cont -> SUBSET {"CHLD", "TERM"}]
      BY <2>1 DEF CommandEnds, LaunchTypeOK
    <2>5. ended' \in [Cont -> CommandEndings]
      BY <2>1, <2>2 DEF CommandEnds, LaunchTypeOK
    <2> QED
      BY <1>0, <2>1, <2>3, <2>4, <2>5, OthersTyped DEF CommandEnds, LaunchTypeOK
  <1>10. CASE OrphanEnds(c)
    BY <1>0, <1>10, OthersTyped DEF OrphanEnds, LaunchTypeOK
  <1>11. CASE Signalled(c)
    BY <1>0, <1>11, OthersTyped DEF Signalled, LaunchTypeOK
  <1> QED
    BY <1>1, <1>2, <1>3, <1>4, <1>5, <1>6, <1>7, <1>8, <1>9, <1>10, <1>11, <1>12
       DEF Child, World

\* Every step keeps the types.
LEMMA TypeNext == LaunchTypeOK /\ [LaunchNext]_launchVars => LaunchTypeOK'
  <1> SUFFICES ASSUME LaunchTypeOK, [LaunchNext]_launchVars PROVE LaunchTypeOK'
    OBVIOUS
  <1>1. CASE LaunchNext
    BY <1>1, TypeHandler, TypeProcess DEF LaunchNext
  <1>2. CASE UNCHANGED launchVars
    BY <1>2 DEF LaunchTypeOK, launchVars, contVars, recVars
  <1> QED
    BY <1>1, <1>2

\* The records of containers and processes keep their types, for any number
\* of containers.
THEOREM LaunchTypeCorrect == LaunchSpec => []LaunchTypeOK
  <1>1. LaunchInit => LaunchTypeOK
    BY TypeInit
  <1>2. LaunchTypeOK /\ [LaunchNext]_launchVars => LaunchTypeOK'
    BY TypeNext
  <1> QED
    BY <1>1, <1>2, PTL DEF LaunchSpec

-----------------------------------------------------------------------------
(* Who may hold a write end.                                               *)

\* The inductive form of WriteEndsHeldLater: it also says what the daemon may
\* hold, since that is what the next child inherits.
Later ==
  /\ \A c \in Cont : \A e \in WriteEnds(c) : e \in holds[Daemon] => c < next
  /\ \A c, d \in Cont : \A e \in WriteEnds(c) :
       e \in holds[First(d)] =>
         \/ c < d
         \/ c = d /\ e = Death(c) /\ st[c] = "waiting"
  /\ \A c, d \in Cont : \A e \in WriteEnds(c) : e \in holds[Command(d)] => c < d

\* A step that gives no process a write end, and takes its own death pipe from
\* a child that goes on.
Shrinks ==
  /\ next' = next
  /\ \A p \in Proc : holds'[p] \subseteq holds[p]
  /\ \A c \in Cont :
       st[c] = "waiting" => st'[c] = "waiting" \/ Death(c) \notin holds'[First(c)]

\* A step that only closes descriptors keeps Later.
LEMMA LaterShrinks ==
  ASSUME Later, Shrinks
  PROVE  Later'
  <1>1. \A c \in Cont : \A e \in WriteEnds(c) : e \in holds'[Daemon] => c < next'
    BY ProcsDistinct DEF Later, Shrinks
  <1>2. \A c, d \in Cont : \A e \in WriteEnds(c) :
          e \in holds'[First(d)] =>
            \/ c < d
            \/ c = d /\ e = Death(c) /\ st'[c] = "waiting"
    <2> SUFFICES ASSUME NEW c \in Cont, NEW d \in Cont, NEW e \in WriteEnds(c),
                        e \in holds'[First(d)], ~(c < d)
                 PROVE  c = d /\ e = Death(c) /\ st'[c] = "waiting"
      OBVIOUS
    <2>1. e \in holds[First(d)]
      BY ProcsDistinct DEF Shrinks
    <2>2. c = d /\ e = Death(c) /\ st[c] = "waiting"
      BY <2>1 DEF Later
    <2> QED
      BY <2>2 DEF Shrinks
  <1>3. \A c, d \in Cont : \A e \in WriteEnds(c) : e \in holds'[Command(d)] => c < d
    BY ProcsDistinct DEF Later, Shrinks
  <1> QED
    BY <1>1, <1>2, <1>3 DEF Later, WriteEnds, Death, Pipe, Daemon, First, Command

\* The end of a container's processes takes descriptors away only.
LEMMA EndsShrinks ==
  ASSUME LaunchTypeOK, NEW c \in Cont, NEW how, Ends(c, how), next' = next
  PROVE  Shrinks
  <1>1. \A p \in Proc : holds'[p] \subseteq holds[p]
    BY HoldsTyped DEF Ends
  <1>2. holds'[First(c)] = {}
    BY HoldsTyped, ProcsDistinct DEF Ends
  <1>3. \A d \in Cont : d # c => st'[d] = st[d]
    BY DEF LaunchTypeOK, Ends
  <1> QED
    BY <1>1, <1>2, <1>3 DEF Shrinks

\* Later holds at the start.
LEMMA LaterInit == LaunchInit => Later
BY ProcsDistinct DEF LaunchInit, Later

\* clone3 hands everything the daemon holds to a container later than all of
\* them.
LEMMA LaterClone ==
  ASSUME LaunchTypeOK, Later, NEW own \in BOOLEAN, Clone(own)
  PROVE  Later'
  <1> DEFINE death == IF own THEN {Death(next)} ELSE {}
  <1>0. /\ next \in Cont /\ next' = next + 1 /\ st'[next] = "waiting"
        /\ \A d \in Cont : d # next => st'[d] = st[d]
    BY DEF Clone, LaunchTypeOK
  <1>1. holds' = [holds EXCEPT ![Daemon] = @ \cup death \cup {Pipe(next)},
                              ![First(next)] = holds[Daemon] \cup death]
    BY DEF Clone
  <1>2. /\ holds'[Daemon] = holds[Daemon] \cup death \cup {Pipe(next)}
        /\ holds'[First(next)] = holds[Daemon] \cup death
        /\ \A d \in Cont : d # next => holds'[First(d)] = holds[First(d)]
        /\ \A d \in Cont : holds'[Command(d)] = holds[Command(d)]
    <2> HIDE DEF death
    <2> QED
      BY <1>0, <1>1, HoldsTyped, ProcsDistinct
  <1>3. /\ death \subseteq {Death(next)}
        /\ death \cup {Pipe(next)} \subseteq WriteEnds(next)
    BY DEF WriteEnds
  <1> HIDE DEF death
  <1>n. \A c \in Cont : c \in Int /\ next \in Int
    BY <1>0 DEF Cont, LaunchTypeOK
  <1>4. \A c \in Cont : \A e \in WriteEnds(c) : e \in holds'[Daemon] => c < next'
    <2> SUFFICES ASSUME NEW c \in Cont, NEW e \in WriteEnds(c), e \in holds'[Daemon]
                 PROVE  c < next'
      OBVIOUS
    <2>1. CASE e \in holds[Daemon]
      BY <1>0, <1>n, <2>1 DEF Later
    <2>2. CASE e \in WriteEnds(next)
      BY <1>0, <1>n, <2>2, WriteEndsDisjoint
    <2> QED
      BY <1>2, <1>3, <2>1, <2>2
  <1>5. \A c, d \in Cont : \A e \in WriteEnds(c) :
          e \in holds'[First(d)] =>
            \/ c < d
            \/ c = d /\ e = Death(c) /\ st'[c] = "waiting"
    <2> SUFFICES ASSUME NEW c \in Cont, NEW d \in Cont, NEW e \in WriteEnds(c),
                        e \in holds'[First(d)]
                 PROVE  c < d \/ (c = d /\ e = Death(c) /\ st'[c] = "waiting")
      OBVIOUS
    <2>1. CASE d # next
      BY <1>0, <1>2, <2>1 DEF Later
    <2>2. CASE d = next /\ e \in holds[Daemon]
      BY <2>2 DEF Later
    <2>3. CASE d = next /\ e = Death(next)
      <3>1. e \in WriteEnds(next)
        BY <2>3 DEF WriteEnds
      <3> QED
        BY <1>0, <2>3, <3>1, WriteEndsDisjoint
    <2> QED
      BY <1>2, <1>3, <2>1, <2>2, <2>3
  <1>6. \A c, d \in Cont : \A e \in WriteEnds(c) : e \in holds'[Command(d)] => c < d
    BY <1>2 DEF Later
  <1> QED
    BY <1>4, <1>5, <1>6 DEF Later, WriteEnds, Death, Pipe, Daemon, First, Command

\* The fork of the command copies what the init has, which is then of earlier
\* containers only.
LEMMA LaterForks ==
  ASSUME LaunchTypeOK, Later, NEW b \in Cont, Forks(b)
  PROVE  Later'
  <1>0. /\ next' = next /\ st[b] = "setup"
        /\ \A d \in Cont : d # b => st'[d] = st[d]
    BY DEF Forks, LaunchTypeOK, others
  <1>1. /\ holds'[Daemon] = holds[Daemon]
        /\ \A d \in Cont : holds'[First(d)] = holds[First(d)]
        /\ \A d \in Cont : d # b => holds'[Command(d)] = holds[Command(d)]
        /\ holds'[Command(b)] = holds[First(b)]
    BY HoldsTyped, ProcsDistinct DEF Forks
  <1>2. \A c, d \in Cont : \A e \in WriteEnds(c) :
          e \in holds'[First(d)] =>
            \/ c < d
            \/ c = d /\ e = Death(c) /\ st'[c] = "waiting"
    BY <1>0, <1>1 DEF Later
  <1>3. \A c, d \in Cont : \A e \in WriteEnds(c) : e \in holds'[Command(d)] => c < d
    BY <1>0, <1>1 DEF Later
  <1>4. \A c \in Cont : \A e \in WriteEnds(c) : e \in holds'[Daemon] => c < next'
    BY <1>0, <1>1 DEF Later
  <1> QED
    BY <1>2, <1>3, <1>4 DEF Later, WriteEnds, Death, Pipe, Daemon, First, Command

\* Every other handler of the daemon only closes descriptors.
LEMMA HandlerShrinks ==
  ASSUME LaunchTypeOK, Handler, ~\E own \in BOOLEAN : Clone(own)
  PROVE  Shrinks
  <1>1. ASSUME NEW how \in {"attached", "detached"}, Started(how) PROVE Shrinks
    BY <1>1 DEF Started, Shrinks
  <1>2. CASE Aborted
    BY <1>2, HoldsTyped DEF Aborted, Shrinks
  <1>3. CASE Dies
    BY <1>3, HoldsTyped DEF Dies, Shrinks
  <1>4. ASSUME NEW c \in Cont, ClosePipe(c) PROVE Shrinks
    BY <1>4, HoldsTyped DEF ClosePipe, Shrinks, contVars
  <1>5. ASSUME NEW c \in Cont, Kill(c) PROVE Shrinks
    BY <1>5, EndsShrinks DEF Kill
  <1>6. ASSUME NEW c \in Cont, Reap(c) PROVE Shrinks
    <2>1. next' = next /\ st' = st
      BY <1>6 DEF Reap, contVars
    <2>2. \A p \in Proc : holds'[p] \subseteq holds[p]
      BY <1>6, HoldsTyped DEF Reap
    <2> QED
      BY <2>1, <2>2 DEF Shrinks
  <1>7. ASSUME NEW c \in Cont, finish_drain(c) PROVE Shrinks
    BY <1>7, HoldsTyped DEF finish_drain, Shrinks, contVars
  <1> QED
    BY <1>1, <1>2, <1>3, <1>4, <1>5, <1>6, <1>7 DEF Handler

\* So does every step of a container's processes but the fork of the command.
LEMMA ProcessShrinks ==
  ASSUME LaunchTypeOK, NEW c \in Cont, ~Forks(c),
         Child(c) \/ CommandExecs(c) \/ InitSeesDeath(c) \/ InitReadsSignal(c) \/ World(c)
  PROVE  Shrinks
  <1>0. UNCHANGED others
    BY DEF Child, World, Proceed, Fails, Execs, CommandExecs, InitSeesDeath,
           InitReadsSignal, ForeignEnds, CommandEnds, OrphanEnds, Signalled, ExitsEarly
  <1>n. next' = next
    BY <1>0 DEF others
  <1>1. CASE Proceed(c)
    <2>1. \A p \in Proc : holds'[p] \subseteq holds[p]
      BY <1>1, HoldsTyped DEF Proceed
    <2>2. Death(c) \notin holds'[First(c)]
      BY <1>1, HoldsTyped, ProcsDistinct DEF Proceed
    <2>3. \A d \in Cont : d # c => st'[d] = st[d]
      BY <1>1 DEF Proceed, LaunchTypeOK
    <2> QED
      BY <1>n, <2>1, <2>2, <2>3 DEF Shrinks
  <1>2. CASE \E how : Ends(c, how)
    BY <1>n, <1>2, EndsShrinks
  <1>3. CASE Execs(c)
    <2>1. \A p \in Proc : holds'[p] \subseteq holds[p]
      BY <1>3, HoldsTyped DEF Execs
    <2>2. \A d \in Cont : st[d] = "waiting" => st'[d] = "waiting"
      BY <1>3 DEF Execs, LaunchTypeOK
    <2> QED
      BY <1>n, <2>1, <2>2 DEF Shrinks
  <1>4. CASE CommandExecs(c)
    BY <1>n, <1>4, HoldsTyped DEF CommandExecs, Shrinks
  <1>5. CASE \E s \in Status \cup {Exited(127)} : CommandEnds(c, s)
    <2>1. \A p \in Proc : holds'[p] \subseteq holds[p]
      BY <1>5, HoldsTyped DEF CommandEnds
    <2>2. st' = st
      BY <1>5 DEF CommandEnds
    <2> QED
      BY <1>n, <2>1, <2>2 DEF Shrinks
  <1>6. CASE UNCHANGED <<st, holds>>
    BY <1>n, <1>6 DEF Shrinks
  <1> QED
    BY <1>1, <1>2, <1>3, <1>4, <1>5, <1>6
       DEF Child, World, Fails, InitSeesDeath, InitReadsSignal, ForeignEnds,
           OrphanEnds, Signalled, ExitsEarly

\* Every step keeps Later.
LEMMA LaterNext == LaunchTypeOK /\ Later /\ [LaunchNext]_launchVars => Later'
  <1> SUFFICES ASSUME LaunchTypeOK, Later, [LaunchNext]_launchVars PROVE Later'
    OBVIOUS
  <1>1. CASE Handler
    BY <1>1, LaterClone, HandlerShrinks, LaterShrinks
  <1>2. ASSUME NEW c \in Cont,
               Child(c) \/ CommandExecs(c) \/ InitSeesDeath(c) \/ InitReadsSignal(c)
                 \/ World(c)
        PROVE  Later'
    BY <1>2, LaterForks, ProcessShrinks, LaterShrinks
  <1>3. CASE UNCHANGED launchVars
    BY <1>3 DEF Later, launchVars, contVars
  <1> QED
    BY <1>1, <1>2, <1>3 DEF LaunchNext

\* However many containers are started, refused, killed and removed, in
\* whatever order, a write end made for a container is held by the daemon and
\* by later containers only: handle_run's clone3 copies it to no other, and the
\* child's close of its own copy comes before anything it runs.
THEOREM OnlyLaterHold == LaunchSpec => []WriteEndsHeldLater
  <1>1. LaunchInit => LaunchTypeOK /\ Later
    BY TypeInit, LaterInit
  <1>2. LaunchTypeOK /\ Later /\ [LaunchNext]_launchVars => LaunchTypeOK' /\ Later'
    BY TypeNext, LaterNext
  <1>3. LaunchTypeOK /\ Later => WriteEndsHeldLater
    BY DEF Later, WriteEndsHeldLater
  <1> QED
    BY <1>1, <1>2, <1>3, PTL DEF LaunchSpec

-----------------------------------------------------------------------------
(* The daemon keeps the death pipes of running inits.                      *)

\* The inductive form of NoInitKilledEarly: a daemon that is up holds the death
\* pipe of every container it has not refused and that is not dead, and only a
\* container it has let go on can be past its wait.
Kept ==
  /\ launching # 0 => sync[launching] = "open"
  /\ \A c \in Cont : st[c] \in {"setup", "init", "foreign"} => sync[c] = "sent"
  /\ \A c \in Cont : st[c] = "init" => builtin[c]
  /\ daemon = "up" =>
       \A c \in Cont :
         builtin[c] /\ sync[c] \in {"open", "sent"} /\ st[c] # "dead" =>
           Death(c) \in holds[Daemon]

\* Kept holds at the start.
LEMMA KeptInit == LaunchInit => Kept
BY DEF LaunchInit, Kept

\* A step that leaves the daemon and its descriptors alone, and in which a
\* process ends, stays where it is, or goes on when it may.
KeepsGoing ==
  /\ UNCHANGED others
  /\ holds'[Daemon] = holds[Daemon]
  /\ \A c \in Cont :
       \/ st'[c] = st[c] \/ st'[c] = "dead"
       \/ st[c] # "dead" /\ sync[c] = "sent" /\ (st'[c] = "init" => builtin[c])

\* A step of processes that keeps them going keeps Kept.
LEMMA KeptKeepsGoing ==
  ASSUME Kept, KeepsGoing
  PROVE  Kept'
  <1>0. UNCHANGED <<daemon, launching, builtin, sync>>
    BY DEF KeepsGoing, others
  <1>1. launching' # 0 => sync'[launching'] = "open"
    BY <1>0 DEF Kept
  <1>2. \A c \in Cont : st'[c] \in {"setup", "init", "foreign"} => sync'[c] = "sent"
    BY <1>0 DEF Kept, KeepsGoing
  <1>3. \A c \in Cont : st'[c] = "init" => builtin'[c]
    BY <1>0 DEF Kept, KeepsGoing
  <1>4. \A c \in Cont : st'[c] # "dead" => st[c] # "dead"
    BY DEF KeepsGoing
  <1>5. daemon' = "up" =>
          \A c \in Cont :
            builtin'[c] /\ sync'[c] \in {"open", "sent"} /\ st'[c] # "dead" =>
              Death(c) \in holds'[Daemon]
    BY <1>0, <1>4 DEF Kept, KeepsGoing
  <1> QED
    BY <1>1, <1>2, <1>3, <1>5 DEF Kept, Death, Daemon

\* A process that ends keeps the others going.
LEMMA EndsKeepsGoing ==
  ASSUME LaunchTypeOK, NEW c \in Cont, NEW how, Ends(c, how), UNCHANGED others
  PROVE  KeepsGoing
  <1>1. holds'[Daemon] = holds[Daemon]
    BY HoldsTyped, ProcsDistinct DEF Ends
  <1>2. \A d \in Cont : st'[d] = st[d] \/ st'[d] = "dead"
    BY DEF Ends, LaunchTypeOK
  <1> QED
    BY <1>1, <1>2 DEF KeepsGoing

\* The steps of containers and inits keep processes going.
LEMMA ProcessKeepsGoing ==
  ASSUME LaunchTypeOK, Kept, NEW c \in Cont,
         Child(c) \/ CommandExecs(c) \/ InitSeesDeath(c) \/ InitReadsSignal(c) \/ World(c)
  PROVE  KeepsGoing
  <1>0. UNCHANGED others
    BY DEF Child, World, Proceed, Fails, Execs, Forks, CommandExecs, InitSeesDeath,
           InitReadsSignal, ForeignEnds, CommandEnds, OrphanEnds, Signalled, ExitsEarly
  <1>1. CASE Proceed(c)
    <2>1. holds'[Daemon] = holds[Daemon]
      BY <1>1, HoldsTyped, ProcsDistinct DEF Proceed
    <2>2. \A d \in Cont :
            st'[d] = st[d] \/ (st[d] = "waiting" /\ sync[d] = "sent" /\ st'[d] = "setup")
      BY <1>1 DEF Proceed, LaunchTypeOK
    <2> QED
      BY <1>0, <2>1, <2>2 DEF KeepsGoing
  <1>2. CASE \E how : Ends(c, how)
    BY <1>0, <1>2, EndsKeepsGoing
  <1>3. CASE Execs(c)
    <2>1. holds'[Daemon] = holds[Daemon]
      BY <1>3, HoldsTyped, ProcsDistinct DEF Execs
    <2>2. \A d \in Cont : st'[d] = st[d] \/ (st[d] = "setup" /\ st'[d] = "foreign")
      BY <1>3 DEF Execs, LaunchTypeOK
    <2> QED
      BY <1>0, <2>1, <2>2 DEF KeepsGoing, Kept
  <1>4. CASE Forks(c)
    <2>1. holds'[Daemon] = holds[Daemon]
      BY <1>4, HoldsTyped, ProcsDistinct DEF Forks
    <2>2. \A d \in Cont : st'[d] = st[d] \/ (st[d] = "setup" /\ builtin[d])
      BY <1>4 DEF Forks, LaunchTypeOK
    <2> QED
      BY <1>0, <2>1, <2>2 DEF KeepsGoing, Kept
  <1>5. CASE CommandExecs(c)
    BY <1>0, <1>5, HoldsTyped, ProcsDistinct DEF CommandExecs, KeepsGoing
  <1>6. CASE \E s \in Status \cup {Exited(127)} : CommandEnds(c, s)
    <2>1. holds'[Daemon] = holds[Daemon]
      BY <1>6, HoldsTyped, ProcsDistinct DEF CommandEnds
    <2>2. st' = st
      BY <1>6 DEF CommandEnds
    <2> QED
      BY <1>0, <2>1, <2>2 DEF KeepsGoing
  <1>7. CASE UNCHANGED <<st, holds>>
    BY <1>0, <1>7 DEF KeepsGoing
  <1> QED
    BY <1>1, <1>2, <1>3, <1>4, <1>5, <1>6, <1>7
       DEF Child, World, Fails, InitSeesDeath, InitReadsSignal, ForeignEnds,
           OrphanEnds, Signalled, ExitsEarly

\* A new container starts with its death pipe in the daemon's hands.
LEMMA KeptClone ==
  ASSUME LaunchTypeOK, Kept, NEW own \in BOOLEAN, Clone(own)
  PROVE  Kept'
  <1> DEFINE death == IF own THEN {Death(next)} ELSE {}
  <1>0. /\ next \in Cont /\ launching' = next
        /\ sync'[next] = "open" /\ st'[next] = "waiting"
        /\ builtin'[next] = own
        /\ \A d \in Cont : d # next =>
             sync'[d] = sync[d] /\ st'[d] = st[d] /\ builtin'[d] = builtin[d]
        /\ daemon' = daemon
    BY DEF Clone, LaunchTypeOK
  <1>1. holds'[Daemon] = holds[Daemon] \cup death \cup {Pipe(next)}
    <2>1. holds' = [holds EXCEPT ![Daemon] = @ \cup death \cup {Pipe(next)},
                                ![First(next)] = holds[Daemon] \cup death]
      BY DEF Clone
    <2> HIDE DEF death
    <2> QED
      BY <1>0, <2>1, HoldsTyped, ProcsDistinct
  <1>2. own => Death(next) \in death
    OBVIOUS
  <1> HIDE DEF death
  <1>3. launching' # 0 => sync'[launching'] = "open"
    BY <1>0
  <1>4. \A c \in Cont : st'[c] \in {"setup", "init", "foreign"} => sync'[c] = "sent"
    BY <1>0 DEF Kept
  <1>5. \A c \in Cont : st'[c] = "init" => builtin'[c]
    BY <1>0 DEF Kept
  <1>6. daemon' = "up" =>
          \A c \in Cont :
            builtin'[c] /\ sync'[c] \in {"open", "sent"} /\ st'[c] # "dead" =>
              Death(c) \in holds'[Daemon]
    BY <1>0, <1>1, <1>2 DEF Kept
  <1> QED
    BY <1>3, <1>4, <1>5, <1>6 DEF Kept, Death, Daemon

\* parent_setup_maps_and_signal, whichever way it ends.
LEMMA KeptLaunched ==
  ASSUME LaunchTypeOK, Kept, Aborted \/ \E how \in {"attached", "detached"} : Started(how)
  PROVE  Kept'
  <1>0. /\ launching # 0 /\ launching \in Cont /\ launching' = 0
        /\ UNCHANGED <<daemon, builtin, st>>
        /\ sync[launching] = "open"
        /\ \A c \in Cont : c # launching => sync'[c] = sync[c]
    <2>1. launching # 0
      BY DEF Aborted, Started
    <2>2. launching \in Cont
      BY <2>1 DEF LaunchTypeOK, Cont
    <2>3. launching' = 0 /\ UNCHANGED <<daemon, builtin, st>>
      BY DEF Aborted, Started
    <2>4. \A c \in Cont : c # launching => sync'[c] = sync[c]
      BY <2>2 DEF Aborted, Started, LaunchTypeOK
    <2> QED
      BY <2>1, <2>2, <2>3, <2>4 DEF Kept
  <1>1. \/ sync'[launching] = "sent" /\ holds' = holds
        \/ sync'[launching] = "closed"
    BY <1>0 DEF Aborted, Started, LaunchTypeOK
  <1>2. \A c \in Cont : c # launching /\ Death(c) \in holds[Daemon] =>
          Death(c) \in holds'[Daemon]
    <2>1. \A c \in Cont : c # launching => Death(c) \notin WriteEnds(launching)
      BY <1>0, EndsDistinct DEF WriteEnds
    <2>2. CASE Aborted
      BY <2>1, <2>2, HoldsTyped, ProcsDistinct DEF Aborted
    <2>3. CASE \E how \in {"attached", "detached"} : Started(how)
      BY <2>3 DEF Started
    <2> QED
      BY <2>2, <2>3
  <1>3. launching' # 0 => sync'[launching'] = "open"
    BY <1>0
  <1>4. \A c \in Cont : st'[c] \in {"setup", "init", "foreign"} => sync'[c] = "sent"
    BY <1>0 DEF Kept
  <1>5. \A c \in Cont : st'[c] = "init" => builtin'[c]
    BY <1>0 DEF Kept
  <1>6. daemon' = "up" =>
          \A c \in Cont :
            builtin'[c] /\ sync'[c] \in {"open", "sent"} /\ st'[c] # "dead" =>
              Death(c) \in holds'[Daemon]
    BY <1>0, <1>1, <1>2 DEF Kept
  <1> QED
    BY <1>3, <1>4, <1>5, <1>6 DEF Kept, Death, Daemon

\* A handler that only closes, and closes no death pipe but a dead container's.
LEMMA KeptCloses ==
  ASSUME Kept, UNCHANGED <<daemon, launching, contVars>>,
         \A c \in Cont : st[c] # "dead" /\ Death(c) \in holds[Daemon] =>
           Death(c) \in holds'[Daemon]
  PROVE  Kept'
BY DEF Kept, contVars, Death, Daemon

\* The handlers of the daemon keep Kept.
LEMMA KeptHandler ==
  ASSUME LaunchTypeOK, Kept, Handler
  PROVE  Kept'
  <1>1. ASSUME NEW own \in BOOLEAN, Clone(own) PROVE Kept'
    BY <1>1, KeptClone
  <1>2. CASE Aborted \/ \E how \in {"attached", "detached"} : Started(how)
    BY <1>2, KeptLaunched
  <1>3. CASE Dies
    <2>1. \A c \in Cont : sync[c] = "sent" => sync'[c] = "sent"
      BY <1>3 DEF Dies
    <2>2. launching' = 0 /\ daemon' = "dead" /\ UNCHANGED <<st, builtin>>
      BY <1>3 DEF Dies
    <2> QED
      BY <2>1, <2>2 DEF Kept
  <1>4. ASSUME NEW c \in Cont, ClosePipe(c) \/ finish_drain(c) PROVE Kept'
    <2>1. UNCHANGED <<daemon, launching, contVars>>
      BY <1>4 DEF ClosePipe, finish_drain
    <2>2. \A d \in Cont : Death(d) \in holds[Daemon] => Death(d) \in holds'[Daemon]
      <3>1. holds'[Daemon] = holds[Daemon] \ {Pipe(c)}
        BY <1>4, HoldsTyped, ProcsDistinct DEF ClosePipe, finish_drain
      <3> QED
        BY <3>1, EndsDistinct
    <2> QED
      BY <2>1, <2>2, KeptCloses
  <1>5. ASSUME NEW c \in Cont, Kill(c) PROVE Kept'
    <2>1. Ends(c, Killed) /\ UNCHANGED others
      BY <1>5 DEF Kill, others
    <2> QED
      BY <2>1, EndsKeepsGoing, KeptKeepsGoing
  <1>6. ASSUME NEW c \in Cont, Reap(c) PROVE Kept'
    <2>1. UNCHANGED <<daemon, launching, contVars>> /\ st[c] = "dead"
      BY <1>6 DEF Reap
    <2>2. holds'[Daemon] = holds[Daemon] \/ holds'[Daemon] = holds[Daemon] \ WriteEnds(c)
      BY <1>6, HoldsTyped, ProcsDistinct DEF Reap
    <2>3. \A d \in Cont : d # c => Death(d) \notin WriteEnds(c)
      BY EndsDistinct DEF WriteEnds
    <2>4. \A d \in Cont : st[d] # "dead" /\ Death(d) \in holds[Daemon] =>
            Death(d) \in holds'[Daemon]
      BY <2>1, <2>2, <2>3
    <2> QED
      BY <2>1, <2>4, KeptCloses
  <1> QED
    BY <1>1, <1>2, <1>3, <1>4, <1>5, <1>6 DEF Handler

\* Every step keeps Kept.
LEMMA KeptNext == LaunchTypeOK /\ Kept /\ [LaunchNext]_launchVars => Kept'
  <1> SUFFICES ASSUME LaunchTypeOK, Kept, [LaunchNext]_launchVars PROVE Kept'
    OBVIOUS
  <1>1. CASE Handler
    BY <1>1, KeptHandler
  <1>2. ASSUME NEW c \in Cont,
               Child(c) \/ CommandExecs(c) \/ InitSeesDeath(c) \/ InitReadsSignal(c)
                 \/ World(c)
        PROVE  Kept'
    BY <1>2, ProcessKeepsGoing, KeptKeepsGoing
  <1>3. CASE UNCHANGED launchVars
    BY <1>3 DEF Kept, launchVars, contVars
  <1> QED
    BY <1>1, <1>2, <1>3 DEF LaunchNext

\* For any number of containers: while the daemon is up, no launch, refusal,
\* kill, reaping or removal closes its write end of a running init's death
\* pipe, so no init takes its namespace down before the daemon is dead.
THEOREM InitsLiveWithDaemon == LaunchSpec => []NoInitKilledEarly
  <1>1. LaunchInit => LaunchTypeOK /\ Kept
    BY TypeInit, KeptInit
  <1>2. LaunchTypeOK /\ Kept /\ [LaunchNext]_launchVars => LaunchTypeOK' /\ Kept'
    BY TypeNext, KeptNext
  <1>3. Kept => NoInitKilledEarly
    BY DEF Kept, NoInitKilledEarly
  <1> QED
    BY <1>1, <1>2, <1>3, PTL DEF LaunchSpec

=============================================================================
