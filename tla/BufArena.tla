------------------------------ MODULE BufArena ------------------------------
(***************************************************************************)
(* The runtime's arena of erased caller buffers (BufArena, alloc_buf_run,  *)
(* take_buf_run and dispatch_shim in libs/coio-core/src/runtime.rs).       *)
(*                                                                         *)
(* An op's buffers sit in a run of consecutive blocks from register_op to  *)
(* its completion.  A free run's first block holds the link to the next    *)
(* free run of its size class.  While a completion's shim runs, and with   *)
(* it the user's callback, the arena is moved aside and an empty one takes *)
(* its place.                                                              *)
(*                                                                         *)
(* Blocks are numbered from 1 and BUF_NONE is 0.                           *)
(***************************************************************************)
EXTENDS Integers, Sequences

CONSTANTS Classes,             \* BUF_CLASSES, ascending
          Lens,                \* buffers an op may bring; 0 is none
          MaxOps,              \* bound on the ops registered
          BufferedInCallback   \* callbacks may register ops with buffers

ASSUME ClassesAssumption ==
  /\ Classes \in Seq(Nat \ {0}) /\ Classes # <<>>
  /\ \A c \in 1..(Len(Classes) - 1) : Classes[c] < Classes[c + 1]
ASSUME LensAssumption == Lens \subseteq 0..Classes[Len(Classes)]

VARIABLES blocks,   \* BufArena::blocks
          lists,    \* BufArena::free, a list head per class
          aside,    \* the arena dispatch_shim holds while a shim runs
          running,  \* the op whose shim runs, or NoArenaOp
          live,     \* in-flight ops: id, start and length of their run
          ops,      \* how many ops were registered
          handed,   \* the buffers the running shim was given
          panicked  \* the slice taken in dispatch_shim was out of range

arenaVars == <<blocks, lists, aside, running, live, ops, handed, panicked>>

BUF_NONE == 0
NoArenaOp == [id |-> 0, start |-> BUF_NONE, len |-> 0]

\* Block contents: nothing yet, the k-th buffer of an op, or a link.
Erased(id, k) == <<"buf", id, k>>
Link(start) == <<"link", start>>
Unused == <<"none">>

EmptyArena == [blocks |-> <<>>, free |-> [c \in DOMAIN Classes |-> BUF_NONE]]

class_for(len) ==
  CHOOSE c \in DOMAIN Classes :
    /\ Classes[c] >= len
    /\ \A d \in DOMAIN Classes : Classes[d] >= len => c <= d

\* next_link reads whatever the block's first word holds as an index.
next_link(bs, start) == IF bs[start][1] = "link" THEN bs[start][2] ELSE BUF_NONE

ArenaInit ==
  /\ blocks = <<>> /\ lists = EmptyArena.free
  /\ aside = EmptyArena
  /\ running = NoArenaOp
  /\ live = {} /\ ops = 0
  /\ handed = <<>>
  /\ panicked = FALSE

-----------------------------------------------------------------------------
\* Mutant of alloc: the list head is handed out and stays the head.
allocKept(len) ==
  LET c == class_for(len) IN
  IF lists[c] # BUF_NONE
  THEN [start |-> lists[c], blocks |-> blocks, free |-> lists]
  ELSE [start  |-> Len(blocks) + 1,
        blocks |-> blocks \o [k \in 1..Classes[c] |-> Unused],
        free   |-> lists]

\* BufArena::alloc: the head of the class's free list, or new blocks.
alloc(len) ==
  LET c == class_for(len) IN
  IF lists[c] # BUF_NONE
  THEN [start  |-> lists[c],
        blocks |-> blocks,
        free   |-> [lists EXCEPT ![c] = next_link(blocks, lists[c])]]
  ELSE [start  |-> Len(blocks) + 1,
        blocks |-> blocks \o [k \in 1..Classes[c] |-> Unused],
        free   |-> lists]

\* Mutant of release: the run joins the list of the next smaller class.
releaseSmaller(bs, fr, start, len) ==
  LET c == IF class_for(len) = 1 THEN 1 ELSE class_for(len) - 1 IN
  [blocks |-> [bs EXCEPT ![start] = Link(fr[c])],
   free   |-> [fr EXCEPT ![c] = start]]

\* BufArena::release
release(bs, fr, start, len) ==
  LET c == class_for(len) IN
  [blocks |-> [bs EXCEPT ![start] = Link(fr[c])],
   free   |-> [fr EXCEPT ![c] = start]]

\* alloc_buf_run: the caller's buffers copied into a run.
Filled(a, id, len) ==
  [k \in DOMAIN a.blocks |->
     IF k \in a.start..(a.start + len - 1) THEN Erased(id, k - a.start + 1)
                                           ELSE a.blocks[k]]

\* register_op with `len` buffers, the backend accepting the request.
ArenaRegisterOp(len) ==
  /\ ~panicked
  /\ ops < MaxOps
  /\ running # NoArenaOp /\ ~BufferedInCallback => len = 0
  /\ ops' = ops + 1
  /\ \/ /\ len = 0
        /\ live' = live \union {[id |-> ops + 1, start |-> BUF_NONE, len |-> 0]}
        /\ UNCHANGED <<blocks, lists>>
     \/ /\ len # 0
        /\ LET a == alloc(len) IN
           /\ blocks' = Filled(a, ops + 1, len)
           /\ lists' = a.free
           /\ live' = live \union {[id |-> ops + 1, start |-> a.start, len |-> len]}
  /\ UNCHANGED <<aside, running, handed, panicked>>

\* register_op whose request the backend refuses: the run goes straight back.
ArenaRegisterOpRefused(len) ==
  /\ ~panicked
  /\ ops < MaxOps
  /\ running # NoArenaOp /\ ~BufferedInCallback => len = 0
  /\ len # 0
  /\ ops' = ops + 1
  /\ LET a == alloc(len)
         r == release(Filled(a, ops + 1, len), a.free, a.start, len)
     IN blocks' = r.blocks /\ lists' = r.free
  /\ UNCHANGED <<aside, running, live, handed, panicked>>

\* complete_op up to the shim: take_buf_run, the slot freed, the arena moved
\* aside, and the op's blocks handed over as a slice of it.
ArenaCompleteOp(op) ==
  /\ ~panicked
  /\ running = NoArenaOp
  /\ live' = live \ {op}
  /\ aside' = [blocks |-> blocks, free |-> lists]
  /\ blocks' = EmptyArena.blocks /\ lists' = EmptyArena.free
  /\ \/ /\ op.start = BUF_NONE \/ op.start + op.len - 1 <= Len(blocks)
        /\ running' = op
        /\ handed' = IF op.start = BUF_NONE THEN <<>>
                     ELSE SubSeq(blocks, op.start, op.start + op.len - 1)
        /\ UNCHANGED panicked
     \/ /\ op.start # BUF_NONE /\ op.start + op.len - 1 > Len(blocks)
        /\ panicked' = TRUE
        /\ UNCHANGED <<running, handed>>
  /\ UNCHANGED ops

\* The shim returns: dispatch_shim puts the arena back over whatever was
\* there and releases the op's run.
ShimReturn ==
  /\ running # NoArenaOp
  /\ LET r == IF running.start = BUF_NONE THEN aside
              ELSE release(aside.blocks, aside.free, running.start, running.len)
     IN blocks' = r.blocks /\ lists' = r.free
  /\ aside' = EmptyArena
  /\ running' = NoArenaOp
  /\ handed' = <<>>
  /\ UNCHANGED <<live, ops, panicked>>

ArenaNext ==
  \/ \E len \in Lens : ArenaRegisterOp(len) \/ ArenaRegisterOpRefused(len)
  \/ \E op \in live : ArenaCompleteOp(op)
  \/ ShimReturn

ArenaSpec == ArenaInit /\ [][ArenaNext]_arenaVars

-----------------------------------------------------------------------------
(* Properties.                                                             *)

\* The arena that holds the runs of the ops in flight.
Arena == IF running = NoArenaOp THEN [blocks |-> blocks, free |-> lists] ELSE aside

\* The blocks of a run of class c that starts at s.
Run(s, c) == s..(s + Classes[c] - 1)

\* The runs on the free list of class c, found by following the links.
OnList(c) ==
  LET list[k \in 0..Len(Arena.blocks)] ==
        IF k = 0 THEN Arena.free[c]
        ELSE IF list[k - 1] = BUF_NONE THEN BUF_NONE
        ELSE next_link(Arena.blocks, list[k - 1])
  IN {list[k] : k \in DOMAIN list} \ {BUF_NONE}

\* Every run in use or free, with its class.
Runs ==
  {<<op.start, class_for(op.len)>> :
     op \in {o \in live \union {running} : o.len # 0}}
  \union UNION {{<<s, c>> : s \in OnList(c)} : c \in DOMAIN Classes}

\* No block belongs to two runs, in use or free: alloc never hands out blocks
\* that another op's buffers sit in, and the runs lie within the arena and
\* together make it up, so that no run is lost.
RunsTileArena ==
  /\ \A r, q \in Runs : r # q => Run(r[1], r[2]) \intersect Run(q[1], q[2]) = {}
  /\ UNION {Run(r[1], r[2]) : r \in Runs} = DOMAIN Arena.blocks
  /\ \A o, p \in live \union {running} :
       o.len # 0 /\ o.start = p.start => o = p
  /\ \A o \in live \union {running} :
       o.len # 0 => \A c \in DOMAIN Classes : o.start \notin OnList(c)

\* A shim is handed exactly the buffers its op was registered with, whatever
\* was registered, refused and released while it was in flight, and the slice
\* it is handed is always within the arena.
BuffersComeBack ==
  /\ running # NoArenaOp => handed = [k \in 1..running.len |-> Erased(running.id, k)]
  /\ ~panicked
=============================================================================
