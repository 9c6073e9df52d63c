------------------------ MODULE AttachSessionsProofs ------------------------
(***************************************************************************)
(* What the attach sessions guarantee for any number of sessions,          *)
(* containers and descriptors, as long as no client sends stdin frames     *)
(* (SessionsSpec): a data frame stays whole on its stream, and the exit    *)
(* frame is sent once and last.                                            *)
(*                                                                         *)
(* The invariant is kept per session.  SessionInv(s, x, M, w, c) speaks of *)
(* session s when its record is x, its ops in flight are M, its stream is  *)
(* w and its client is in state c.  A callback works on one session, so    *)
(* its proof is a lemma about SessionInv and the remark that the others'   *)
(* records and ops stay as they are; a write that met another session's    *)
(* stream under its number appends a frame there that is not its own.      *)
(***************************************************************************)
EXTENDS AttachSessions, FiniteSetTheorems, WellFoundedInduction, TLAPS

Kinds == {"read", "resp", "exit", "output", "header", "payload"}
Files == {Free, Queued} \cup {Stream(s) : s \in Sids} \cup {Input(p) : p \in Pids \cup {0}}

Op == [kind : Kinds, s : Sids, fd : Fds \cup {NoFd}, file : Files, for : Files,
       part : BOOLEAN]

Session == [fd : Fds, pid : Pids \cup {0}, ptm : Fds \cup {NoFd}, input : Fds \cup {NoFd},
            log : BOOLEAN, own : BOOLEAN, child_exited : BOOLEAN,
            drain_done : BOOLEAN, exit_sent : BOOLEAN]

Container == [drains : {0, 1}, pipes : SUBSET Sids, input : Fds \cup {NoFd}]

\* The types.
Types ==
  /\ sess \in [Sids -> Session \cup {NoSession}]
  /\ next_sess \in Nat \ {0}
  /\ containers \in [Pids -> Container \cup {NoContainer}]
  /\ ops \subseteq Op
  /\ fds \in [Fds -> Files]
  /\ proc \in [Pids -> {"none", "running", "exited", "reaped"}]
  /\ client \in [Sids -> {"none", "open", "gone"}]
  /\ wire \in [Sids -> Seq(Kinds \X Sids)]

\* The descriptor table and what the daemon holds agree.
FdInv ==
  /\ \A s \in Sids : Open(s) => fds[sess[s].fd] = Stream(s)
  /\ \A f \in Fds, s \in Sids : fds[f] = Stream(s) => Open(s) /\ f = sess[s].fd
  /\ InputIsOwn

\* Session ids are handed out once.
FreshInv ==
  \A s \in Sids : s >= next_sess =>
    /\ ~Open(s)
    /\ \A o \in ops : o.s # s
    /\ Own(wire[s], s) = {}

\* A session is told of its child's end by the reaper only.
ReapInv ==
  \A s \in Sids : Open(s) /\ sess[s].child_exited =>
    sess[s].pid \in Pids /\ proc[sess[s].pid] = "reaped"

\* The op that moves a session's output on: there is at most one.
Token(o) == o.kind \in {"output", "header", "payload"}

\* A data frame of s is half written on stream w.
HeaderLast(w, s) ==
  \E m \in Own(w, s) : w[m][1] = "header" /\ \A j \in Own(w, s) : j <= m

HasExit(w, s) == \E k \in Own(w, s) : w[k][1] = "exit"

\* Every header but the last frame has its payload behind it.
HeadersPaid(w, s) ==
  \A m \in Own(w, s) : w[m][1] = "header" =>
    \/ \E n \in Own(w, s) : m < n /\ w[n][1] = "payload"
    \/ \A j \in Own(w, s) : j <= m

\* The frames on the stream.
PastOf(s, w) == FramesWhole(w, s) /\ ExitLast(w, s) /\ HeadersPaid(w, s)

\* The ops, and where they go.
OpsOf(s, x, M) ==
  /\ \A o \in M : o \in Op /\ o.s = s
  /\ x # NoSession => \A o \in M : o.kind # "output" =>
       o.fd = x.fd /\ o.file \in {Queued, Stream(s)}
  /\ \A o \in M, q \in M : Token(o) /\ Token(q) => o = q

\* A session that has not been served has done nothing yet.
UnservedOf(s, x, M, w) ==
  x # NoSession /\ x.pid = 0 =>
    /\ \A o \in M : o.kind = "read"
    /\ Own(w, s) = {}
    /\ ~x.drain_done /\ ~x.child_exited /\ ~x.exit_sent

\* The exit frame comes after the output and comes once.
ExitOf(s, x, M, w) ==
  /\ x # NoSession /\ x.exit_sent => x.drain_done /\ x.child_exited
  /\ x # NoSession /\ x.drain_done => \A o \in M : ~Token(o)
  /\ (\E o \in M : o.kind = "exit") \/ HasExit(w, s) =>
       /\ \A o \in M : ~Token(o)
       /\ x # NoSession => x.exit_sent
  /\ \A o \in M, q \in M : o.kind = "exit" /\ q.kind = "exit" => o = q
  /\ (\E o \in M : o.kind = "exit") => ~HasExit(w, s)

\* The op can still write to its session's stream.
Reaches(s, x, o) == x # NoSession \/ o.file = Stream(s)

\* A payload is written right after its header, all else after whole frames.
FlowOf(s, x, M, w, c) ==
  c = "open" =>
    /\ x # NoSession /\ x.drain_done => ~HeaderLast(w, s)
    /\ \A o \in M : Reaches(s, x, o) =>
         /\ o.kind \in {"resp", "exit", "header"} => ~HeaderLast(w, s)
         /\ o.kind = "payload" => HeaderLast(w, s)
    /\ \A o \in M : x # NoSession /\ o.kind = "output" => ~HeaderLast(w, s)

SessionInv(s, x, M, w, c) ==
  /\ OpsOf(s, x, M)
  /\ UnservedOf(s, x, M, w)
  /\ ExitOf(s, x, M, w)
  /\ FlowOf(s, x, M, w, c)
  /\ PastOf(s, w)

\* The ops of session s among O.
Of(O, s) == {o \in O : o.s = s}
Mine(s) == Of(ops, s)

AInv ==
  /\ Types
  /\ FdInv
  /\ FreshInv
  /\ ReapInv
  /\ \A s \in Sids : SessionInv(s, sess[s], Mine(s), wire[s], client[s])

-----------------------------------------------------------------------------
(* Streams.                                                                *)

\* What a frame of kind K at the end of the stream does to the session's own.
GrowsBy(v, w, s, K, n) ==
  /\ Own(v, s) = Own(w, s) \cup {n}
  /\ n \in Nat /\ \A k \in Own(w, s) : k \in Nat /\ k < n
  /\ v[n][1] = K
  /\ \A k \in Own(w, s) : v[k][1] = w[k][1]

Same(v, w, s) ==
  /\ Own(v, s) = Own(w, s)
  /\ \A k \in Own(w, s) : v[k][1] = w[k][1]

\* The places a sequence has after an append.
LEMMA Appended ==
  ASSUME NEW w \in Seq(Kinds \X Sids), NEW K \in Kinds, NEW t \in Sids
  PROVE  LET v == Append(w, <<K, t>>) IN
         /\ v \in Seq(Kinds \X Sids)
         /\ Len(w) \in Nat
         /\ DOMAIN w = 1..Len(w)
         /\ DOMAIN v = 1..(Len(w) + 1)
         /\ v[Len(w) + 1] = <<K, t>>
         /\ \A k \in 1..Len(w) : v[k] = w[k]
<1> DEFINE v == Append(w, <<K, t>>)
           E == Kinds \X Sids
<1>1. <<K, t>> \in E
  OBVIOUS
<1>2. w \in Seq(E)
  OBVIOUS
<1> HIDE DEF E
<1>3. v \in Seq(E) /\ Len(w) \in Nat /\ Len(v) = Len(w) + 1
  BY <1>1, <1>2
<1>4. DOMAIN w = 1..Len(w) /\ DOMAIN v = 1..(Len(w) + 1)
  BY <1>2, <1>3
<1>5. v[Len(w) + 1] = <<K, t>> /\ \A k \in 1..Len(w) : v[k] = w[k]
  BY <1>1, <1>2
<1> QED BY <1>3, <1>4, <1>5 DEF E

\* A frame of the session's own comes last among its own.
LEMMA OwnAppend ==
  ASSUME NEW w \in Seq(Kinds \X Sids), NEW K \in Kinds, NEW s \in Sids
  PROVE  \E n : GrowsBy(Append(w, <<K, s>>), w, s, K, n)
<1> DEFINE v == Append(w, <<K, s>>)
           n == Len(w) + 1
<1>1. /\ Len(w) \in Nat
      /\ DOMAIN w = 1..Len(w)
      /\ DOMAIN v = 1..n
      /\ v[n] = <<K, s>>
      /\ \A k \in 1..Len(w) : v[k] = w[k]
  BY Appended
<1> HIDE DEF v
<1>2. Own(v, s) = Own(w, s) \cup {n}
  BY <1>1 DEF Own
<1>3. n \in Nat /\ \A k \in Own(w, s) : k \in Nat /\ k < n
  BY <1>1 DEF Own
<1>4. v[n][1] = K
  BY <1>1
<1>5. \A k \in Own(w, s) : v[k][1] = w[k][1]
  BY <1>1 DEF Own
<1>6. GrowsBy(v, w, s, K, n)
  BY <1>2, <1>3, <1>4, <1>5 DEF GrowsBy
<1> HIDE DEF n
<1> QED BY <1>6 DEF v

\* A frame of another session is not among them.
LEMMA ForeignAppend ==
  ASSUME NEW w \in Seq(Kinds \X Sids), NEW K \in Kinds, NEW s \in Sids,
         NEW t \in Sids, t # s
  PROVE  Same(Append(w, <<K, t>>), w, s)
<1> DEFINE v == Append(w, <<K, t>>)
           n == Len(w) + 1
<1>1. /\ Len(w) \in Nat
      /\ DOMAIN w = 1..Len(w)
      /\ DOMAIN v = 1..n
      /\ v[n] = <<K, t>>
      /\ \A k \in 1..Len(w) : v[k] = w[k]
  BY Appended
<1> HIDE DEF v
<1>2. Own(v, s) = Own(w, s)
  BY <1>1 DEF Own
<1>3. \A k \in Own(w, s) : v[k][1] = w[k][1]
  BY <1>1 DEF Own
<1> QED BY <1>2, <1>3 DEF Same, v

\* The stream predicates look at the session's own frames only.
LEMMA SamePast ==
  ASSUME NEW v, NEW w, NEW s, Same(v, w, s)
  PROVE  /\ HeaderLast(v, s) <=> HeaderLast(w, s)
         /\ HasExit(v, s) <=> HasExit(w, s)
         /\ PastOf(s, w) => PastOf(s, v)
<1>1. HeaderLast(v, s) <=> HeaderLast(w, s)
  BY DEF Same, HeaderLast
<1>2. HasExit(v, s) <=> HasExit(w, s)
  BY DEF Same, HasExit
<1>3. FramesWhole(w, s) => FramesWhole(v, s)
  BY DEF Same, FramesWhole
<1>4. ExitLast(w, s) => ExitLast(v, s)
  BY DEF Same, ExitLast
<1>5. HeadersPaid(w, s) => HeadersPaid(v, s)
  BY DEF Same, HeadersPaid
<1> QED BY <1>1, <1>2, <1>3, <1>4, <1>5 DEF PastOf

\* A frame behind whole frames leaves them whole.
LEMMA PlainAppend ==
  ASSUME NEW v, NEW w, NEW s, NEW K, NEW n, GrowsBy(v, w, s, K, n),
         PastOf(s, w), ~HeaderLast(w, s), K \notin {"header", "payload", "exit"}
  PROVE  PastOf(s, v) /\ ~HeaderLast(v, s) /\ (HasExit(v, s) <=> HasExit(w, s))
<1>1. FramesWhole(v, s)
  BY DEF GrowsBy, PastOf, FramesWhole, HeaderLast
<1>2. ExitLast(v, s)
  BY DEF GrowsBy, PastOf, ExitLast
<1>3. HeadersPaid(v, s) /\ ~HeaderLast(v, s)
  BY DEF GrowsBy, PastOf, HeadersPaid, HeaderLast
<1>4. HasExit(v, s) <=> HasExit(w, s)
  BY DEF GrowsBy, HasExit
<1> QED BY <1>1, <1>2, <1>3, <1>4 DEF PastOf

\* A header starts a data frame.
LEMMA HeaderAppend ==
  ASSUME NEW v, NEW w, NEW s, NEW n, GrowsBy(v, w, s, "header", n),
         PastOf(s, w), ~HeaderLast(w, s), ~HasExit(w, s)
  PROVE  PastOf(s, v) /\ HeaderLast(v, s) /\ ~HasExit(v, s)
<1>1. FramesWhole(v, s)
  BY DEF GrowsBy, PastOf, FramesWhole, HeaderLast
<1>2. ExitLast(v, s) /\ ~HasExit(v, s)
  BY DEF GrowsBy, PastOf, ExitLast, HasExit
<1>3. HeaderLast(v, s)
  BY DEF GrowsBy, HeaderLast
<1>4. HeadersPaid(v, s)
  BY DEF GrowsBy, PastOf, HeadersPaid, HeaderLast
<1> QED BY <1>1, <1>2, <1>3, <1>4 DEF PastOf

\* The payload behind it completes the frame.
LEMMA PayloadAppend ==
  ASSUME NEW v, NEW w, NEW s, NEW n, GrowsBy(v, w, s, "payload", n),
         PastOf(s, w), HeaderLast(w, s), ~HasExit(w, s)
  PROVE  PastOf(s, v) /\ ~HeaderLast(v, s) /\ ~HasExit(v, s)
<1>1. FramesWhole(v, s)
  BY DEF GrowsBy, PastOf, FramesWhole, HeaderLast
<1>2. ExitLast(v, s) /\ ~HasExit(v, s)
  BY DEF GrowsBy, PastOf, ExitLast, HasExit
<1>3. ~HeaderLast(v, s)
  BY DEF GrowsBy, HeaderLast
<1>4. HeadersPaid(v, s)
  BY DEF GrowsBy, PastOf, HeadersPaid, HeaderLast
<1> QED BY <1>1, <1>2, <1>3, <1>4 DEF PastOf

\* The exit frame closes a stream of whole frames.
LEMMA ExitAppend ==
  ASSUME NEW v, NEW w, NEW s, NEW n, GrowsBy(v, w, s, "exit", n),
         PastOf(s, w), ~HeaderLast(w, s), ~HasExit(w, s)
  PROVE  PastOf(s, v) /\ ~HeaderLast(v, s)
<1>1. FramesWhole(v, s)
  BY DEF GrowsBy, PastOf, FramesWhole, HeaderLast
<1>2. ExitLast(v, s)
  BY DEF GrowsBy, PastOf, HeadersPaid, HeaderLast, HasExit, ExitLast
<1>3. HeadersPaid(v, s) /\ ~HeaderLast(v, s)
  BY DEF GrowsBy, PastOf, HeadersPaid, HeaderLast
<1> QED BY <1>1, <1>2, <1>3 DEF PastOf

-----------------------------------------------------------------------------
(* Callbacks, one session at a time.                                       *)

\* A session record is not the mark for no session.
LEMMA SessionIsOpen ==
  ASSUME NEW x \in Session
  PROVE  x # NoSession /\ x.fd # NoFd
<1>1. x.fd \in Fds
  BY DEF Session
<1>2. x.fd # NoFd
  BY <1>1, BoundsAssumption, MaxFdAssumption DEF Fds, NoFd
<1> QED BY <1>2 DEF NoSession

\* close_session: what is left of the session's ops can do less.
LEMMA Closing ==
  ASSUME NEW s, NEW x, NEW M, NEW w, NEW c, SessionInv(s, x, M, w, c)
  PROVE  SessionInv(s, NoSession, M, w, c)
BY DEF SessionInv, OpsOf, UnservedOf, ExitOf, FlowOf, Reaches

\* An op of the session comes back.
LEMMA Dropping ==
  ASSUME NEW s, NEW x, NEW M, NEW N \in SUBSET M, NEW w, NEW c,
         SessionInv(s, x, M, w, c)
  PROVE  SessionInv(s, x, N, w, c)
<1>1. OpsOf(s, x, N)
  BY DEF SessionInv, OpsOf
<1>2. UnservedOf(s, x, N, w)
  BY DEF SessionInv, UnservedOf
<1>3. ExitOf(s, x, N, w)
  BY DEF SessionInv, ExitOf
<1>4. FlowOf(s, x, N, w, c)
  BY DEF SessionInv, FlowOf
<1> QED BY <1>1, <1>2, <1>3, <1>4 DEF SessionInv

\* The client goes away: nothing more is written.
LEMMA Parting ==
  ASSUME NEW s, NEW x, NEW M, NEW w, NEW c, SessionInv(s, x, M, w, c)
  PROVE  SessionInv(s, x, M, w, "gone")
BY DEF SessionInv, FlowOf

\* Another session's frame on the stream.
LEMMA Meeting ==
  ASSUME NEW s, NEW x, NEW M, NEW w, NEW v, NEW c, SessionInv(s, x, M, w, c),
         Same(v, w, s)
  PROVE  SessionInv(s, x, M, v, c)
<1>1. /\ HeaderLast(v, s) <=> HeaderLast(w, s)
      /\ HasExit(v, s) <=> HasExit(w, s)
      /\ PastOf(s, w) => PastOf(s, v)
  BY SamePast
<1>2. Own(v, s) = Own(w, s)
  BY DEF Same
<1> QED BY <1>1, <1>2 DEF SessionInv, UnservedOf, ExitOf, FlowOf

\* What the ops the daemon queues look like.
LEMMA NewOps ==
  ASSUME NEW s \in Sids, NEW K \in Kinds, NEW f \in Fds \cup {NoFd}
  PROVE  LET o == StreamOp(K, s, f) IN
         o \in Op /\ o.kind = K /\ o.s = s /\ o.fd = f /\ o.file = Queued
<1>1. Stream(s) \in Files /\ Queued \in Files
  BY DEF Files
<1> QED BY <1>1 DEF StreamOp, NewOp, Op

\* The same for an output read, of a pty master or a log pipe.
LEMMA NewOutputs ==
  ASSUME NEW s \in Sids, NEW p \in Pids \cup {0}, NEW f \in Fds \cup {NoFd}
  PROVE  LET o == OutputOp(s, p, f) IN
         o \in Op /\ o.kind = "output" /\ o.s = s /\ o.file = Queued
<1>1. Free \in Files /\ Input(p) \in Files /\ Queued \in Files
  BY DEF Files
<1> QED BY <1>1 DEF OutputOp, NewOp, Op, Kinds

\* A queued file is no stream, and the streams are told apart.
LEMMA FilesApart ==
  ASSUME NEW s, NEW t
  PROVE  /\ Queued # Stream(s) /\ Free # Stream(s) /\ Queued # Free
         /\ Stream(s) = Stream(t) <=> s = t
         /\ Input(t) # Stream(s) /\ Input(t) # Free
         /\ Input(s) = Input(t) <=> s = t
BY DEF Queued, Free, Stream, Input

\* arm_session_read.
LEMMA Reading ==
  ASSUME NEW s \in Sids, NEW x \in Session, NEW M, NEW w, NEW c,
         SessionInv(s, x, M, w, c)
  PROVE  SessionInv(s, x, M \cup {StreamOp("read", s, x.fd)}, w, c)
<1> DEFINE o == StreamOp("read", s, x.fd)
           N == M \cup {o}
<1>1. o \in Op /\ o.kind = "read" /\ o.s = s /\ o.fd = x.fd /\ o.file = Queued
  BY NewOps DEF Kinds, Session
<1> HIDE DEF o
<1>2. OpsOf(s, x, N)
  BY <1>1 DEF SessionInv, OpsOf, Token
<1>3. UnservedOf(s, x, N, w)
  BY <1>1 DEF SessionInv, UnservedOf
<1>4. ExitOf(s, x, N, w)
  BY <1>1 DEF SessionInv, ExitOf, Token
<1>5. FlowOf(s, x, N, w, c)
  BY <1>1 DEF SessionInv, FlowOf
<1> QED BY <1>2, <1>3, <1>4, <1>5 DEF SessionInv, o

\* The record of a served session: y is x but for what the request sets.
ServedAs(y, x) ==
  /\ y.fd = x.fd /\ y.drain_done = x.drain_done
  /\ y.child_exited = x.child_exited /\ y.exit_sent = x.exit_sent

\* A run or an attach is answered, and the output read armed.
LEMMA Serving ==
  ASSUME NEW s \in Sids, NEW x \in Session, NEW y \in Session, NEW M, NEW w, NEW c,
         NEW out \in Op, out.kind = "output", out.s = s, out.file = Queued,
         SessionInv(s, x, M, w, c), x.pid = 0, y.pid # 0, ServedAs(y, x)
  PROVE  SessionInv(s, y, M \cup {StreamOp("resp", s, x.fd), out}, w, c)
<1> DEFINE o == StreamOp("resp", s, x.fd)
           N == M \cup {o, out}
<1>1. o \in Op /\ o.kind = "resp" /\ o.s = s /\ o.fd = x.fd /\ o.file = Queued
  BY NewOps DEF Kinds, Session
<1> HIDE DEF o
<1>2. x # NoSession /\ y # NoSession
  BY SessionIsOpen
<1>3. /\ \A q \in M : q.kind = "read"
      /\ Own(w, s) = {}
      /\ ~x.drain_done /\ ~x.child_exited /\ ~x.exit_sent
  BY <1>2 DEF SessionInv, UnservedOf
<1>4. ~y.drain_done /\ ~y.child_exited /\ ~y.exit_sent /\ y.fd = x.fd
  BY <1>3 DEF ServedAs
<1>5. ~HeaderLast(w, s) /\ ~HasExit(w, s)
  BY <1>3 DEF HeaderLast, HasExit
<1>6. OpsOf(s, y, N)
  BY <1>1, <1>2, <1>3, <1>4 DEF SessionInv, OpsOf, Token
<1>7. UnservedOf(s, y, N, w)
  BY DEF UnservedOf
<1>8. ExitOf(s, y, N, w)
  BY <1>1, <1>3, <1>4, <1>5 DEF ExitOf, Token
<1>9. FlowOf(s, y, N, w, c)
  BY <1>1, <1>3, <1>4, <1>5 DEF FlowOf
<1> QED BY <1>6, <1>7, <1>8, <1>9 DEF SessionInv, o

\* maybe_finish_session: the record is settled and nothing else changes.
LEMMA SettledRecord ==
  ASSUME NEW x \in Session
  PROVE  /\ Settled(x) \in Session
         /\ Settled(x).fd = x.fd /\ Settled(x).pid = x.pid
         /\ Settled(x).drain_done = x.drain_done
         /\ Settled(x).child_exited = x.child_exited
         /\ Settled(x).exit_sent <=> (x.exit_sent \/ MayExit(x))
BY DEF Settled, MayExit, Session

\* The output is drained or the child reaped: y has one flag more than x, and
\* the later of the two sends the exit frame.
LEMMA Settling ==
  ASSUME NEW s \in Sids, NEW x \in Session, NEW y \in Session, NEW M, NEW w, NEW c,
         SessionInv(s, x, M, w, c), x.pid # 0,
         y.fd = x.fd, y.pid = x.pid, y.exit_sent = x.exit_sent,
         x.drain_done => y.drain_done, x.child_exited => y.child_exited,
         y.drain_done => (\A o \in M : ~Token(o)) /\ (c = "open" => ~HeaderLast(w, s))
  PROVE  SessionInv(s, Settled(y), M \cup ExitWrite(s, y), w, c)
<1> DEFINE o == StreamOp("exit", s, y.fd)
           N == M \cup ExitWrite(s, y)
           z == Settled(y)
<1>1. o \in Op /\ o.kind = "exit" /\ o.s = s /\ o.fd = y.fd /\ o.file = Queued
  BY NewOps DEF Kinds, Session
<1>2. x # NoSession /\ y # NoSession /\ z # NoSession
  BY SessionIsOpen, SettledRecord
<1>3. /\ z.fd = x.fd /\ z.pid = x.pid
      /\ z.drain_done = y.drain_done
      /\ z.child_exited = y.child_exited
      /\ z.exit_sent <=> (x.exit_sent \/ MayExit(y))
  BY SettledRecord
<1>4. N = IF MayExit(y) THEN M \cup {o} ELSE M
  BY DEF ExitWrite
<1>5. x.exit_sent => x.drain_done /\ x.child_exited
  BY <1>2 DEF SessionInv, ExitOf
<1>6. MayExit(y) => y.drain_done /\ y.child_exited /\ ~x.exit_sent
  BY DEF MayExit
<1> HIDE DEF o, z
<1>7. OpsOf(s, z, N)
  <2> HIDE DEF N
  <2>1. \A q \in N : q \in M \/ q = o
    BY <1>4
  <2>2. \A q \in N : q \in Op /\ q.s = s
    BY <1>1, <2>1 DEF SessionInv, OpsOf
  <2>3. \A q \in N : q.kind # "output" => q.fd = z.fd /\ q.file \in {Queued, Stream(s)}
    BY <1>1, <1>2, <1>3, <2>1 DEF SessionInv, OpsOf
  <2>4. \A q \in N, r \in N : Token(q) /\ Token(r) => q = r
    BY <1>1, <2>1 DEF SessionInv, OpsOf, Token
  <2> QED BY <2>2, <2>3, <2>4 DEF OpsOf
<1>8. UnservedOf(s, z, N, w)
  BY <1>3 DEF UnservedOf
<1>9. ExitOf(s, z, N, w)
  <2> HIDE DEF N
  <2>1. CASE MayExit(y)
    <3>1. N = M \cup {o}
      BY <1>4, <2>1
    <3>2. (\A q \in M : q.kind # "exit") /\ ~HasExit(w, s)
      BY <1>2, <1>6, <2>1 DEF SessionInv, ExitOf
    <3>3. \A q \in N : ~Token(q)
      BY <3>1, <1>1, <1>6, <2>1 DEF Token
    <3> QED BY <3>1, <3>2, <3>3, <1>3, <1>6, <2>1 DEF ExitOf
  <2>2. CASE ~MayExit(y)
    <3>1. N = M
      BY <1>4, <2>2
    <3>2. z.exit_sent = x.exit_sent
      BY <1>3, <2>2, SettledRecord DEF Settled, z
    <3> QED BY <3>1, <3>2, <1>2, <1>3, <1>5, <2>2 DEF SessionInv, ExitOf
  <2> QED BY <2>1, <2>2
<1>10. FlowOf(s, z, N, w, c)
  <2> HIDE DEF N
  <2>1. \A q \in N : q \in M \/ (q = o /\ y.drain_done)
    BY <1>4, <1>6
  <2>2. \A q \in M : Reaches(s, z, q) => Reaches(s, x, q)
    BY <1>2 DEF Reaches
  <2> QED BY <1>1, <1>2, <1>3, <2>1, <2>2 DEF SessionInv, FlowOf
<1> QED BY <1>7, <1>8, <1>9, <1>10 DEF SessionInv, z

\* While the output is on its way, the exit frame is not.
LEMMA TokenHeld ==
  ASSUME NEW s, NEW x, NEW M, NEW w, NEW c, NEW o \in M, Token(o),
         SessionInv(s, x, M, w, c)
  PROVE  /\ \A q \in M \ {o} : ~Token(q)
         /\ \A q \in M : q.kind # "exit"
         /\ ~HasExit(w, s)
         /\ x # NoSession => x.pid # 0 /\ ~x.drain_done /\ ~x.exit_sent
<1>1. \A q \in M \ {o} : ~Token(q)
  BY DEF SessionInv, OpsOf
<1>2. (\A q \in M : q.kind # "exit") /\ ~HasExit(w, s)
  BY DEF SessionInv, ExitOf
<1>3. x # NoSession => x.pid # 0
  BY DEF SessionInv, UnservedOf, Token
<1>4. x # NoSession => ~x.drain_done /\ ~x.exit_sent
  BY DEF SessionInv, ExitOf
<1> QED BY <1>1, <1>2, <1>3, <1>4

\* on_session_output with bytes: the read gives way to the header.
LEMMA Heading ==
  ASSUME NEW s \in Sids, NEW x \in Session, NEW M, NEW w, NEW c, NEW o \in M,
         o.kind = "output", SessionInv(s, x, M, w, c)
  PROVE  SessionInv(s, x, (M \ {o}) \cup {StreamOp("header", s, x.fd)}, w, c)
<1> DEFINE h == StreamOp("header", s, x.fd)
           N == (M \ {o}) \cup {h}
<1>1. h \in Op /\ h.kind = "header" /\ h.s = s /\ h.fd = x.fd /\ h.file = Queued
  BY NewOps DEF Kinds, Session
<1>2. x # NoSession
  BY SessionIsOpen
<1>3. /\ \A q \in M \ {o} : ~Token(q)
      /\ \A q \in M : q.kind # "exit"
      /\ ~HasExit(w, s)
      /\ x.pid # 0 /\ ~x.drain_done /\ ~x.exit_sent
  BY <1>2, TokenHeld DEF Token
<1>4. c = "open" => ~HeaderLast(w, s)
  BY <1>2 DEF SessionInv, FlowOf
<1> HIDE DEF h
<1>5. OpsOf(s, x, N)
  BY <1>1, <1>3 DEF SessionInv, OpsOf, Token
<1>6. UnservedOf(s, x, N, w)
  BY <1>3 DEF UnservedOf
<1>7. ExitOf(s, x, N, w)
  BY <1>1, <1>3 DEF ExitOf
<1>8. FlowOf(s, x, N, w, c)
  BY <1>1, <1>2, <1>3, <1>4 DEF SessionInv, FlowOf
<1> QED BY <1>5, <1>6, <1>7, <1>8 DEF SessionInv, h

\* on_session_data_header, on the session's own stream.
LEMMA HeaderWritten ==
  ASSUME NEW s \in Sids, NEW x \in Session \cup {NoSession}, NEW M, NEW w, NEW v,
         NEW c, NEW n, NEW o \in M, o.kind = "header", SessionInv(s, x, M, w, c),
         o.file = Stream(s), c = "open", GrowsBy(v, w, s, "header", n),
         \A q \in M : q.kind # "resp"
  PROVE  SessionInv(s, x, (M \ {o}) \cup {StreamOp("payload", s, o.fd)}, v, c)
<1> DEFINE h == StreamOp("payload", s, o.fd)
           N == (M \ {o}) \cup {h}
<1>0. o \in Op
  BY DEF SessionInv, OpsOf
<1>1. h \in Op /\ h.kind = "payload" /\ h.s = s /\ h.fd = o.fd /\ h.file = Queued
  BY <1>0, NewOps DEF Kinds, Op
<1>2. x # NoSession => o.fd = x.fd
  BY DEF SessionInv, OpsOf
<1>3. /\ \A q \in M \ {o} : ~Token(q)
      /\ \A q \in M : q.kind # "exit"
      /\ ~HasExit(w, s)
      /\ x # NoSession => x.pid # 0 /\ ~x.drain_done /\ ~x.exit_sent
  BY TokenHeld DEF Token
<1>4. ~HeaderLast(w, s)
  BY DEF SessionInv, FlowOf, Reaches
<1>5. PastOf(s, v) /\ HeaderLast(v, s) /\ ~HasExit(v, s)
  BY <1>3, <1>4, HeaderAppend DEF SessionInv
<1> HIDE DEF h
<1>6. OpsOf(s, x, N)
  BY <1>1, <1>2, <1>3 DEF SessionInv, OpsOf, Token
<1>7. UnservedOf(s, x, N, v)
  BY <1>3 DEF UnservedOf
<1>8. ExitOf(s, x, N, v)
  BY <1>1, <1>3, <1>5 DEF ExitOf
<1>9. FlowOf(s, x, N, v, c)
  BY <1>1, <1>3, <1>5 DEF FlowOf, Token
<1> QED BY <1>5, <1>6, <1>7, <1>8, <1>9 DEF SessionInv, h

\* The header of a closed session, on some other file.
LEMMA HeaderAstray ==
  ASSUME NEW s \in Sids, NEW M, NEW w, NEW c, NEW o \in M, o.kind = "header",
         SessionInv(s, NoSession, M, w, c)
  PROVE  SessionInv(s, NoSession, (M \ {o}) \cup {StreamOp("payload", s, o.fd)}, w, c)
<1> DEFINE h == StreamOp("payload", s, o.fd)
           N == (M \ {o}) \cup {h}
<1>0. o \in Op
  BY DEF SessionInv, OpsOf
<1>1. h \in Op /\ h.kind = "payload" /\ h.s = s /\ h.fd = o.fd /\ h.file = Queued
  BY <1>0, NewOps DEF Kinds, Op
<1>3. /\ \A q \in M \ {o} : ~Token(q)
      /\ \A q \in M : q.kind # "exit"
      /\ ~HasExit(w, s)
  BY TokenHeld DEF Token
<1> HIDE DEF h
<1>6. OpsOf(s, NoSession, N)
  BY <1>1, <1>3 DEF SessionInv, OpsOf, Token
<1>7. UnservedOf(s, NoSession, N, w)
  BY DEF UnservedOf
<1>8. ExitOf(s, NoSession, N, w)
  BY <1>1, <1>3 DEF ExitOf
<1>9. FlowOf(s, NoSession, N, w, c)
  <2>1. ~Reaches(s, NoSession, h)
    BY <1>1, FilesApart DEF Reaches
  <2> QED BY <1>1, <1>3, <2>1 DEF SessionInv, FlowOf, Token
<1> QED BY <1>6, <1>7, <1>8, <1>9 DEF SessionInv, h

\* on_session_data_payload, on the session's own stream.
LEMMA PayloadWritten ==
  ASSUME NEW s \in Sids, NEW x \in Session \cup {NoSession}, NEW M, NEW w, NEW v,
         NEW c, NEW n, NEW o \in M, o.kind = "payload", SessionInv(s, x, M, w, c),
         o.file = Stream(s), c = "open", GrowsBy(v, w, s, "payload", n)
  PROVE  SessionInv(s, x, M \ {o}, v, c) /\ ~HeaderLast(v, s) /\ ~HasExit(v, s)
<1> DEFINE N == M \ {o}
<1>1. /\ \A q \in N : ~Token(q)
      /\ \A q \in M : q.kind # "exit"
      /\ ~HasExit(w, s)
      /\ x # NoSession => x.pid # 0 /\ ~x.drain_done /\ ~x.exit_sent
  BY TokenHeld DEF Token
<1>2. HeaderLast(w, s)
  BY DEF SessionInv, FlowOf, Reaches
<1>3. PastOf(s, v) /\ ~HeaderLast(v, s) /\ ~HasExit(v, s)
  BY <1>1, <1>2, PayloadAppend DEF SessionInv
<1>4. OpsOf(s, x, N)
  BY DEF SessionInv, OpsOf
<1>5. UnservedOf(s, x, N, v)
  BY <1>1 DEF UnservedOf
<1>6. ExitOf(s, x, N, v)
  BY <1>1, <1>3 DEF ExitOf
<1>7. FlowOf(s, x, N, v, c)
  BY <1>1, <1>3 DEF FlowOf, Token
<1> QED BY <1>3, <1>4, <1>5, <1>6, <1>7 DEF SessionInv

\* arm_session_output.
LEMMA Arming ==
  ASSUME NEW s \in Sids, NEW x \in Session, NEW M, NEW w, NEW c, NEW out \in Op,
         out.kind = "output", out.s = s, out.file = Queued,
         SessionInv(s, x, M, w, c), x.pid # 0, ~x.drain_done, ~x.exit_sent,
         \A q \in M : ~Token(q) /\ q.kind # "exit", ~HasExit(w, s),
         c = "open" => ~HeaderLast(w, s)
  PROVE  SessionInv(s, x, M \cup {out}, w, c)
<1> DEFINE N == M \cup {out}
<1>1. OpsOf(s, x, N)
  BY DEF SessionInv, OpsOf, Token
<1>2. UnservedOf(s, x, N, w)
  BY DEF UnservedOf
<1>3. ExitOf(s, x, N, w)
  BY DEF ExitOf
<1>4. FlowOf(s, x, N, w, c)
  BY DEF SessionInv, FlowOf
<1> QED BY <1>1, <1>2, <1>3, <1>4 DEF SessionInv

\* on_session_frame: the response, on the session's own stream.
LEMMA RespWritten ==
  ASSUME NEW s \in Sids, NEW x \in Session \cup {NoSession}, NEW M, NEW w, NEW v,
         NEW c, NEW n, NEW o \in M, o.kind = "resp", SessionInv(s, x, M, w, c),
         o.file = Stream(s), c = "open", GrowsBy(v, w, s, "resp", n)
  PROVE  SessionInv(s, x, M \ {o}, v, c)
<1> DEFINE N == M \ {o}
<1>1. ~HeaderLast(w, s)
  BY DEF SessionInv, FlowOf, Reaches
<1>2. PastOf(s, v) /\ ~HeaderLast(v, s) /\ (HasExit(v, s) <=> HasExit(w, s))
  BY <1>1, PlainAppend DEF SessionInv
<1>3. x # NoSession => x.pid # 0
  BY DEF SessionInv, UnservedOf
<1>4. OpsOf(s, x, N)
  BY DEF SessionInv, OpsOf
<1>5. UnservedOf(s, x, N, v)
  BY <1>3 DEF UnservedOf
<1>6. ExitOf(s, x, N, v)
  BY <1>2 DEF SessionInv, ExitOf
<1>7. FlowOf(s, x, N, v, c)
  BY <1>1, <1>2 DEF SessionInv, FlowOf
<1> QED BY <1>2, <1>4, <1>5, <1>6, <1>7 DEF SessionInv

\* on_session_frame: the exit frame, on the session's own stream.
LEMMA ExitWritten ==
  ASSUME NEW s \in Sids, NEW x \in Session \cup {NoSession}, NEW M, NEW w, NEW v,
         NEW c, NEW n, NEW o \in M, o.kind = "exit", SessionInv(s, x, M, w, c),
         o.file = Stream(s), c = "open", GrowsBy(v, w, s, "exit", n)
  PROVE  SessionInv(s, x, M \ {o}, v, c)
<1> DEFINE N == M \ {o}
<1>1. ~HeaderLast(w, s)
  BY DEF SessionInv, FlowOf, Reaches
<1>2. /\ \A q \in M : ~Token(q)
      /\ \A q \in N : q.kind # "exit"
      /\ ~HasExit(w, s)
      /\ x # NoSession => x.exit_sent /\ x.drain_done /\ x.child_exited
  BY DEF SessionInv, ExitOf
<1>3. PastOf(s, v) /\ ~HeaderLast(v, s)
  BY <1>1, <1>2, ExitAppend DEF SessionInv
<1>4. x # NoSession => x.pid # 0
  BY DEF SessionInv, UnservedOf
<1>5. OpsOf(s, x, N)
  BY DEF SessionInv, OpsOf
<1>6. UnservedOf(s, x, N, v)
  BY <1>4 DEF UnservedOf
<1>7. ExitOf(s, x, N, v)
  BY <1>2 DEF ExitOf
<1>8. FlowOf(s, x, N, v, c)
  BY <1>2, <1>3 DEF FlowOf, Token
<1> QED BY <1>3, <1>5, <1>6, <1>7, <1>8 DEF SessionInv

\* A request is refused: the answer is the only frame of the stream.
LEMMA Refusing ==
  ASSUME NEW s \in Sids, NEW x \in Session, NEW M, NEW N \in SUBSET M, NEW w, NEW v,
         NEW c, NEW n, SessionInv(s, x, M, w, c), x.pid = 0,
         GrowsBy(v, w, s, "resp", n)
  PROVE  SessionInv(s, NoSession, N, v, c)
<1>1. x # NoSession
  BY SessionIsOpen
<1>2. (\A q \in N : q.kind = "read") /\ Own(w, s) = {}
  BY <1>1 DEF SessionInv, UnservedOf
<1>3. ~HeaderLast(w, s) /\ ~HasExit(w, s)
  BY <1>2 DEF HeaderLast, HasExit
<1>4. PastOf(s, v) /\ ~HasExit(v, s)
  BY <1>3, PlainAppend DEF SessionInv
<1>5. OpsOf(s, NoSession, N)
  BY DEF SessionInv, OpsOf
<1>6. UnservedOf(s, NoSession, N, v)
  BY DEF UnservedOf
<1>7. ExitOf(s, NoSession, N, v)
  BY <1>2, <1>4 DEF ExitOf
<1>8. FlowOf(s, NoSession, N, v, c)
  BY <1>2 DEF FlowOf
<1> QED BY <1>4, <1>5, <1>6, <1>7, <1>8 DEF SessionInv

\* A short write is queued again on the number it had.
LEMMA Shortened ==
  ASSUME NEW s \in Sids, NEW x \in Session \cup {NoSession}, NEW M, NEW w, NEW c,
         NEW o \in M, NEW q \in Op, q.kind = o.kind, q.s = o.s, q.fd = o.fd,
         q.file = Queued, o.kind \in {"exit", "header", "payload"},
         SessionInv(s, x, M, w, c)
  PROVE  SessionInv(s, x, (M \ {o}) \cup {q}, w, c)
<1> DEFINE N == (M \ {o}) \cup {q}
<1>0. Reaches(s, x, q) => Reaches(s, x, o)
  BY FilesApart DEF Reaches
<1>1. OpsOf(s, x, N)
  BY DEF SessionInv, OpsOf, Token
<1>2. UnservedOf(s, x, N, w)
  BY DEF SessionInv, UnservedOf
<1>3. ExitOf(s, x, N, w)
  BY DEF SessionInv, ExitOf, Token
<1>4. FlowOf(s, x, N, w, c)
  BY <1>0 DEF SessionInv, FlowOf
<1> QED BY <1>1, <1>2, <1>3, <1>4 DEF SessionInv

\* The kernel resolves a queued op.
Resolved(o) == IF o.file = Queued THEN [o EXCEPT !.file = Lookup(o.fd)] ELSE o

\* Submission: an open session's ops meet its stream, a closed one's do not.
LEMMA Submitting ==
  ASSUME NEW s \in Sids, NEW x \in Session \cup {NoSession}, NEW M, NEW w, NEW c,
         SessionInv(s, x, M, w, c), fds \in [Fds -> Files],
         x # NoSession => fds[x.fd] = Stream(s),
         x = NoSession => \A f \in Fds : fds[f] # Stream(s)
  PROVE  SessionInv(s, x, {Resolved(o) : o \in M}, w, c)
<1> DEFINE N == {Resolved(o) : o \in M}
<1>1. \A o \in M : o \in Op /\ o.s = s
  BY DEF SessionInv, OpsOf
<1>2. \A o \in M : /\ Resolved(o) \in Op
                   /\ Resolved(o).kind = o.kind /\ Resolved(o).s = o.s
                   /\ Resolved(o).fd = o.fd
                   /\ Resolved(o).file = IF o.file = Queued THEN Lookup(o.fd) ELSE o.file
  <2> SUFFICES ASSUME NEW o \in M
               PROVE  /\ Resolved(o) \in Op
                      /\ Resolved(o).kind = o.kind /\ Resolved(o).s = o.s
                      /\ Resolved(o).fd = o.fd
                      /\ Resolved(o).file =
                           IF o.file = Queued THEN Lookup(o.fd) ELSE o.file
    OBVIOUS
  <2>1. Lookup(o.fd) \in Files
    BY DEF Lookup, Files
  <2>2. o \in Op
    BY <1>1
  <2> QED BY <2>1, <2>2 DEF Resolved, Op
<1>3. \A o \in M : Reaches(s, x, Resolved(o)) => Reaches(s, x, o)
  <2> SUFFICES ASSUME NEW o \in M, x = NoSession, Resolved(o).file = Stream(s)
               PROVE  o.file = Stream(s)
    BY DEF Reaches
  <2>1. Lookup(o.fd) # Stream(s)
    BY FilesApart DEF Lookup
  <2> QED BY <1>2, <2>1
<1>4. x # NoSession => \A o \in M : o.kind # "output" =>
        Resolved(o).fd = x.fd /\ Resolved(o).file \in {Queued, Stream(s)}
  <2> SUFFICES ASSUME x # NoSession, NEW o \in M, o.kind # "output"
               PROVE  Resolved(o).fd = x.fd /\ Resolved(o).file \in {Queued, Stream(s)}
    OBVIOUS
  <2>1. o.fd = x.fd /\ o.file \in {Queued, Stream(s)}
    BY DEF SessionInv, OpsOf
  <2>2. Lookup(o.fd) = Stream(s)
    BY <2>1 DEF Lookup, Session
  <2> QED BY <1>2, <2>1, <2>2
<1> HIDE DEF Resolved
<1>5. OpsOf(s, x, N)
  <2>1. \A o \in M, q \in M : Token(o) /\ Token(q) => o = q
    BY DEF SessionInv, OpsOf
  <2>2. \A o \in M : Token(Resolved(o)) <=> Token(o)
    BY <1>2 DEF Token
  <2>3. \A o \in N, q \in N : Token(o) /\ Token(q) => o = q
    BY <2>1, <2>2
  <2> QED BY <1>1, <1>2, <1>4, <2>3 DEF OpsOf
<1>6. UnservedOf(s, x, N, w)
  BY <1>2 DEF SessionInv, UnservedOf
<1>7. ExitOf(s, x, N, w)
  <2>1. \A q \in N : \E o \in M : q = Resolved(o) /\ q.kind = o.kind
    BY <1>2
  <2> HIDE DEF N
  <2> QED BY <2>1 DEF SessionInv, ExitOf, Token
<1>8. FlowOf(s, x, N, w, c)
  BY <1>2, <1>3 DEF SessionInv, FlowOf
<1> QED BY <1>5, <1>6, <1>7, <1>8 DEF SessionInv

-----------------------------------------------------------------------------
(* The descriptor table.                                                   *)

\* The lowest of some descriptors is one of them: the sets of descriptors
\* below each of them have a smallest one.
LEMMA LowestIn ==
  ASSUME NEW F \in SUBSET (1..MaxFd), F # {}
  PROVE  Min(F) \in F
<1> DEFINE Below(x) == {y \in F : y < x}
           T == {Below(x) : x \in F}
           R == StrictSubsetOrdering(F)
<1>1. IsFiniteSet(F) /\ \A y \in F : y \in Int
  <2>1. IsFiniteSet(1..MaxFd)
    BY BoundsAssumption, MaxFdAssumption, FS_Interval
  <2>2. IsFiniteSet(F)
    BY <2>1, FS_Subset
  <2> QED BY <2>2, BoundsAssumption, MaxFdAssumption
<1>2. T \subseteq FiniteSubsetsOf(F) /\ T # {}
  <2>1. \A x \in F : Below(x) \in SUBSET F
    OBVIOUS
  <2>2. FiniteSubsetsOf(F) = SUBSET F
    BY <1>1, FS_FiniteSubsetsOfFinite
  <2> HIDE DEF Below
  <2>3. T \subseteq SUBSET F
    BY <2>1
  <2>4. T # {}
    OBVIOUS
  <2> QED BY <2>2, <2>3, <2>4
<1>3. IsWellFoundedOn(R, FiniteSubsetsOf(F))
  BY FS_StrictSubsetOrderingWellFounded
<1>4. \E t \in T : \A u \in T : ~(<<u, t>> \in R)
  <2> HIDE DEF T, R
  <2> QED BY <1>2, <1>3, WFMin
<1>5. PICK x \in F : \A y \in F : ~(<<Below(y), Below(x)>> \in R)
  BY <1>4
<1>6. \A y \in F : x <= y
  <2> SUFFICES ASSUME NEW y \in F, y < x PROVE FALSE
    BY BoundsAssumption, MaxFdAssumption
  <2>1. Below(y) \subseteq Below(x)
    <3> SUFFICES ASSUME NEW z \in F, z < y PROVE z < x
      OBVIOUS
    <3> QED BY <1>1
  <2>2. y \in Below(x) /\ y \notin Below(y)
    BY BoundsAssumption, MaxFdAssumption
  <2>3. Below(y) # Below(x)
    BY <2>2
  <2>4. <<Below(y), Below(x)>> \in R
    BY <2>1, <2>3 DEF StrictSubsetOrdering
  <2> QED BY <1>5, <2>4
<1> QED BY <1>6 DEF Min

\* A descriptor handed out was free.
LEMMA LowestFree ==
  ASSUME FreeFds # {}
  PROVE  LowestFd \in Fds /\ fds[LowestFd] = Free
<1>1. FreeFds \in SUBSET (1..MaxFd)
  BY DEF FreeFds, Fds
<1>2. Min(FreeFds) \in FreeFds
  BY <1>1, LowestIn
<1> QED BY <1>2 DEF LowestFd, FreeFds

\* A container's record is not the mark for no container.
LEMMA ContainerListed ==
  ASSUME NEW x \in Container
  PROVE  x # NoContainer /\ x.input \in Fds \cup {NoFd}
<1>1. x.input \in Fds \cup {NoFd}
  BY DEF Container
<1>2. x.input # -1
  BY <1>1, BoundsAssumption, MaxFdAssumption DEF Fds, NoFd
<1> QED BY <1>1, <1>2 DEF NoContainer

\* Steps that leave the table, the sessions' descriptors and the containers'
\* inputs alone.
LEMMA KeepsFds ==
  ASSUME Types, FdInv, UNCHANGED fds,
         \A s \in Sids : (sess'[s] # NoSession <=> Open(s)) /\ sess'[s].fd = sess[s].fd,
         \A p \in Pids : containers'[p] # NoContainer /\ containers'[p].input # NoFd =>
                           Listed(p) /\ containers'[p].input = containers[p].input
  PROVE  FdInv'
<1>1. (\A s \in Sids : Open(s) => fds[sess[s].fd] = Stream(s))'
  BY DEF FdInv, Open
<1>2. (\A f \in Fds, s \in Sids : fds[f] = Stream(s) => Open(s) /\ f = sess[s].fd)'
  BY DEF FdInv, Open
<1>3. InputIsOwn'
  BY DEF FdInv, InputIsOwn, Listed
<1> QED BY <1>1, <1>2, <1>3 DEF FdInv

\* close_session frees the session's own stream.
LEMMA ClosesFd ==
  ASSUME Types, FdInv, NEW s \in Sids, CloseSession(s), UNCHANGED containers
  PROVE  FdInv' /\ fds' \in [Fds -> Files] /\ sess' \in [Sids -> Session \cup {NoSession}]
<1>0. sess' = [sess EXCEPT ![s] = NoSession]
  BY DEF CloseSession
<1>1. sess' \in [Sids -> Session \cup {NoSession}]
  BY <1>0 DEF Types
<1>2. /\ sess'[s] = NoSession
      /\ \A t \in Sids : t # s => sess'[t] = sess[t]
  BY <1>0 DEF Types
<1>3. Free \in Files
  BY DEF Files
<1>4. CASE ~Open(s)
  <2>1. sess[s].fd = NoFd
    BY <1>4 DEF Open, NoSession
  <2>2. sess[s].fd \notin Fds
    BY <2>1, BoundsAssumption, MaxFdAssumption DEF Fds, NoFd
  <2>3. fds' = fds
    BY <2>2 DEF CloseSession
  <2>4. \A t \in Sids : sess'[t] = sess[t]
    BY <1>2, <1>4 DEF Open
  <2>5. FdInv'
    BY <2>3, <2>4, KeepsFds DEF Open, Listed
  <2> QED BY <2>3, <2>5, <1>1 DEF Types
<1>5. CASE Open(s)
  <2>1. sess[s] \in Session
    BY <1>5 DEF Types, Open
  <2>2. sess[s].fd \in Fds
    BY <2>1 DEF Session
  <2>3. fds' = [fds EXCEPT ![sess[s].fd] = Free]
    BY <2>2 DEF CloseSession
  <2>4. fds' \in [Fds -> Files]
    BY <2>2, <2>3, <1>3 DEF Types
  <2>5. /\ fds'[sess[s].fd] = Free
        /\ \A f \in Fds : f # sess[s].fd => fds'[f] = fds[f]
    BY <2>2, <2>3 DEF Types
  <2>6. fds[sess[s].fd] = Stream(s)
    BY <1>5 DEF FdInv
  <2>7. (\A t \in Sids : Open(t) => fds[sess[t].fd] = Stream(t))'
    <3> SUFFICES ASSUME NEW t \in Sids, sess'[t] # NoSession
                 PROVE  fds'[sess'[t].fd] = Stream(t)
      BY DEF Open
    <3>1. t # s /\ sess'[t] = sess[t]
      BY <1>2
    <3>2. Open(t) /\ fds[sess[t].fd] = Stream(t)
      BY <3>1 DEF Open, FdInv
    <3>3. sess[t] \in Session
      BY <3>2 DEF Types, Open
    <3>4. sess[t].fd \in Fds
      BY <3>3 DEF Session
    <3>5. Stream(t) # Stream(s)
      BY <3>1, FilesApart
    <3> QED BY <3>1, <3>2, <3>4, <3>5, <2>5, <2>6
  <2>8. (\A f \in Fds, t \in Sids : fds[f] = Stream(t) => Open(t) /\ f = sess[t].fd)'
    <3> SUFFICES ASSUME NEW f \in Fds, NEW t \in Sids, fds'[f] = Stream(t)
                 PROVE  sess'[t] # NoSession /\ f = sess'[t].fd
      BY DEF Open
    <3>1. f # sess[s].fd
      BY <2>5, FilesApart
    <3>2. fds[f] = Stream(t)
      BY <3>1, <2>5
    <3>3. Open(t) /\ f = sess[t].fd
      BY <3>2 DEF FdInv
    <3> QED BY <3>1, <3>3, <1>2 DEF Open
  <2>9. InputIsOwn'
    <3> SUFFICES ASSUME NEW p \in Pids, Listed(p), containers[p].input # NoFd
                 PROVE  fds'[containers[p].input] = Input(p)
      BY DEF InputIsOwn, Listed
    <3>1. fds[containers[p].input] = Input(p)
      BY DEF FdInv, InputIsOwn
    <3>2. containers[p] \in Container
      BY DEF Types, Listed
    <3>3. containers[p].input \in Fds
      BY <3>2, ContainerListed
    <3>4. containers[p].input # sess[s].fd
      BY <3>1, <2>6, FilesApart
    <3> QED BY <3>1, <3>3, <3>4, <2>5
  <2>10. FdInv'
    BY <2>7, <2>8, <2>9 DEF FdInv
  <2> QED BY <2>4, <2>10, <1>1
<1> QED BY <1>4, <1>5

\* A container leaves the map: its own input is freed.
LEMMA Unlisting ==
  ASSUME Types, FdInv, NEW p \in Pids, Unlist(p),
         \A s \in Sids : (sess'[s] # NoSession <=> Open(s)) /\ sess'[s].fd = sess[s].fd
  PROVE  /\ FdInv'
         /\ fds' \in [Fds -> Files]
         /\ containers' \in [Pids -> Container \cup {NoContainer}]
<1>0. containers' = [containers EXCEPT ![p] = NoContainer]
  BY DEF Unlist
<1>1. containers' \in [Pids -> Container \cup {NoContainer}]
  BY <1>0 DEF Types
<1>2. /\ containers'[p] = NoContainer
      /\ \A q \in Pids : q # p => containers'[q] = containers[q]
  BY <1>0 DEF Types
<1>3. Free \in Files
  BY DEF Files
<1> DEFINE f == containers[p].input
<1>4. CASE f \notin Fds
  <2>1. fds' = fds
    BY <1>4 DEF Unlist
  <2>2. FdInv'
    BY <2>1, <1>2, KeepsFds DEF Listed
  <2> QED BY <2>1, <2>2, <1>1 DEF Types
<1>5. CASE f \in Fds
  <2>1. fds' = [fds EXCEPT ![f] = Free]
    BY <1>5 DEF Unlist
  <2>2. fds' \in [Fds -> Files]
    BY <2>1, <1>3, <1>5 DEF Types
  <2>3. fds'[f] = Free /\ \A g \in Fds : g # f => fds'[g] = fds[g]
    BY <2>1, <1>5 DEF Types
  <2>4. f # NoFd /\ f # -1
    BY <1>5, BoundsAssumption, MaxFdAssumption DEF Fds, NoFd
  <2>5. Listed(p)
    BY <2>4 DEF Listed, NoContainer
  <2>6. fds[f] = Input(p)
    BY <2>4, <2>5 DEF FdInv, InputIsOwn
  <2> HIDE DEF f
  <2>7. (\A t \in Sids : Open(t) => fds[sess[t].fd] = Stream(t))'
    <3> SUFFICES ASSUME NEW t \in Sids, Open(t)
                 PROVE  fds'[sess[t].fd] = Stream(t)
      BY DEF Open
    <3>1. fds[sess[t].fd] = Stream(t)
      BY DEF FdInv
    <3>2. sess[t] \in Session
      BY DEF Types, Open
    <3>3. sess[t].fd \in Fds
      BY <3>2 DEF Session
    <3>4. sess[t].fd # f
      BY <3>1, <2>6, FilesApart
    <3> QED BY <3>1, <3>3, <3>4, <2>3
  <2>8. (\A g \in Fds, t \in Sids : fds[g] = Stream(t) => Open(t) /\ g = sess[t].fd)'
    <3> SUFFICES ASSUME NEW g \in Fds, NEW t \in Sids, fds'[g] = Stream(t)
                 PROVE  Open(t) /\ g = sess[t].fd
      BY DEF Open
    <3>1. fds[g] = Stream(t)
      BY <2>3, FilesApart
    <3> QED BY <3>1 DEF FdInv
  <2>9. InputIsOwn'
    <3> SUFFICES ASSUME NEW q \in Pids, containers'[q] # NoContainer,
                        containers'[q].input # NoFd
                 PROVE  fds'[containers'[q].input] = Input(q)
      BY DEF InputIsOwn, Listed
    <3>1. q # p /\ containers'[q] = containers[q]
      BY <1>2
    <3>2. fds[containers[q].input] = Input(q)
      BY <3>1 DEF FdInv, InputIsOwn, Listed
    <3>3. containers[q] \in Container
      BY <3>1 DEF Types
    <3>4. containers[q].input \in Fds
      BY <3>1, <3>3, ContainerListed
    <3>5. containers[q].input # f
      BY <3>1, <3>2, <2>6, FilesApart
    <3> QED BY <3>1, <3>2, <3>4, <3>5, <2>3
  <2> QED BY <2>2, <2>7, <2>8, <2>9, <1>1 DEF FdInv
<1> QED BY <1>4, <1>5

\* A container enters the map with a new input.
LEMMA TakesInput ==
  ASSUME Types, FdInv, NEW p \in Pids, NEW f \in Fds, fds[f] = Free,
         fds' = [fds EXCEPT ![f] = Input(p)],
         \A s \in Sids : (sess'[s] # NoSession <=> Open(s)) /\ sess'[s].fd = sess[s].fd,
         \A q \in Pids : q # p => containers'[q] = containers[q],
         containers'[p].input \in {NoFd, f}
  PROVE  FdInv' /\ fds' \in [Fds -> Files]
<1>1. Input(p) \in Files
  BY DEF Files
<1>2. fds' \in [Fds -> Files]
  BY <1>1 DEF Types
<1>3. fds'[f] = Input(p) /\ \A g \in Fds : g # f => fds'[g] = fds[g]
  BY DEF Types
<1>4. (\A t \in Sids : Open(t) => fds[sess[t].fd] = Stream(t))'
  <2> SUFFICES ASSUME NEW t \in Sids, Open(t)
               PROVE  fds'[sess[t].fd] = Stream(t)
    BY DEF Open
  <2>1. fds[sess[t].fd] = Stream(t)
    BY DEF FdInv
  <2>2. sess[t] \in Session
    BY DEF Types, Open
  <2>3. sess[t].fd \in Fds
    BY <2>2 DEF Session
  <2>4. sess[t].fd # f
    BY <2>1, FilesApart
  <2> QED BY <2>1, <2>3, <2>4, <1>3
<1>5. (\A g \in Fds, t \in Sids : fds[g] = Stream(t) => Open(t) /\ g = sess[t].fd)'
  <2> SUFFICES ASSUME NEW g \in Fds, NEW t \in Sids, fds'[g] = Stream(t)
               PROVE  Open(t) /\ g = sess[t].fd
    BY DEF Open
  <2>1. fds[g] = Stream(t)
    BY <1>3, FilesApart
  <2> QED BY <2>1 DEF FdInv
<1>6. InputIsOwn'
  <2> SUFFICES ASSUME NEW q \in Pids, containers'[q] # NoContainer,
                      containers'[q].input # NoFd
               PROVE  fds'[containers'[q].input] = Input(q)
    BY DEF InputIsOwn, Listed
  <2>1. CASE q = p
    BY <2>1, <1>3
  <2>2. CASE q # p
    <3>1. fds[containers[q].input] = Input(q)
      BY <2>2 DEF FdInv, InputIsOwn, Listed
    <3>2. containers[q] \in Container
      BY <2>2 DEF Types
    <3>3. containers[q].input \in Fds
      BY <2>2, <3>2, ContainerListed
    <3>4. containers[q].input # f
      BY <3>1, FilesApart
    <3> QED BY <2>2, <3>1, <3>3, <3>4, <1>3
  <2> QED BY <2>1, <2>2
<1> QED BY <1>2, <1>4, <1>5, <1>6 DEF FdInv

-----------------------------------------------------------------------------
(* Steps.                                                                  *)

\* The ops of a step's session change, those of the others do not.
LEMMA OpsApart ==
  ASSUME NEW O, NEW A, NEW B, NEW s, \A o \in A \cup B : o.s = s
  PROVE  /\ Of((O \ A) \cup B, s) = (Of(O, s) \ A) \cup B
         /\ \A t : t # s => Of((O \ A) \cup B, t) = Of(O, t)
BY DEF Of

\* The frame a write leaves, and where.
LEMMA WrittenFrame ==
  ASSUME Types, NEW o \in ops, Writable(o), Written(o)
  PROVE  /\ wire' \in [Sids -> Seq(Kinds \X Sids)]
         /\ o.file = Stream(o.s) =>
              /\ client[o.s] = "open"
              /\ \E n : GrowsBy(wire'[o.s], wire[o.s], o.s, o.kind, n)
         /\ \A t \in Sids : t # o.s \/ o.file # Stream(o.s) => Same(wire'[t], wire[t], t)
<1>1. o.kind \in Kinds /\ o.s \in Sids /\ o.file \in Files
  BY DEF Types, Op
<1>2. \A t \in Sids : Same(wire[t], wire[t], t)
  BY DEF Same
<1>3. CASE o.file[1] # "stream"
  <2>1. wire' = wire
    BY <1>3 DEF Written
  <2>2. o.file # Stream(o.s)
    BY <1>3 DEF Stream
  <2> QED BY <2>1, <2>2, <1>2 DEF Types
<1>4. CASE o.file[1] = "stream"
  <2>1. PICK t \in Sids : o.file = Stream(t)
    BY <1>1, <1>4 DEF Files, Free, Queued, Input, Stream
  <2>2. o.file[2] = t
    BY <2>1 DEF Stream
  <2>3. client[t] = "open"
    BY <1>4, <2>2 DEF Writable
  <2> DEFINE v == Append(wire[t], <<o.kind, o.s>>)
  <2>4. wire' = [wire EXCEPT ![t] = v]
    BY <1>4, <2>2 DEF Written
  <2>5. wire[t] \in Seq(Kinds \X Sids)
    BY DEF Types
  <2>6. v \in Seq(Kinds \X Sids)
    BY <1>1, <2>5, Appended
  <2>7. o.s = t => \E n : GrowsBy(v, wire[t], t, o.kind, n)
    BY <1>1, <2>5, OwnAppend
  <2>8. o.s # t => Same(v, wire[t], t)
    BY <1>1, <2>5, ForeignAppend
  <2> HIDE DEF v
  <2>9. wire' \in [Sids -> Seq(Kinds \X Sids)]
    BY <2>4, <2>6 DEF Types
  <2>10. wire'[t] = v /\ \A u \in Sids : u # t => wire'[u] = wire[u]
    BY <2>4 DEF Types
  <2>11. o.file = Stream(o.s) <=> o.s = t
    BY <2>1, FilesApart
  <2> QED BY <1>2, <2>3, <2>7, <2>8, <2>9, <2>10, <2>11
<1> QED BY <1>3, <1>4

\* A session with an op, or open, has been accepted.
LEMMA Accepted ==
  ASSUME AInv, NEW s \in Sids, Open(s) \/ \E o \in ops : o.s = s
  PROVE  s < next_sess
BY BoundsAssumption, MaxFdAssumption DEF AInv, Types, FreshInv, Sids

\* A step on session s keeps the invariant if it does so for s.
LEMMA OneSession ==
  ASSUME AInv, NEW s \in Sids, s < next_sess, Types', FdInv', ReapInv',
         UNCHANGED next_sess,
         \A t \in Sids : t # s => /\ sess'[t] = sess[t] /\ client'[t] = client[t]
                                  /\ Of(ops', t) = Of(ops, t)
                                  /\ Same(wire'[t], wire[t], t),
         SessionInv(s, sess'[s], Of(ops', s), wire'[s], client'[s])
  PROVE  AInv'
<1>1. FreshInv'
  <2> SUFFICES ASSUME NEW t \in Sids, t >= next_sess
               PROVE  /\ sess'[t] = NoSession
                      /\ \A o \in ops' : o.s # t
                      /\ Own(wire'[t], t) = {}
    BY DEF FreshInv, Open
  <2>1. t # s
    BY BoundsAssumption, MaxFdAssumption DEF Sids, AInv, Types
  <2>2. ~Open(t) /\ (\A o \in ops : o.s # t) /\ Own(wire[t], t) = {}
    BY DEF AInv, FreshInv
  <2>3. Of(ops', t) = {}
    BY <2>1, <2>2 DEF Of
  <2>4. Own(wire'[t], t) = {}
    BY <2>1, <2>2 DEF Same
  <2> QED BY <2>1, <2>2, <2>3, <2>4 DEF Open, Of
<1>2. \A t \in Sids : SessionInv(t, sess'[t], Of(ops', t), wire'[t], client'[t])
  <2> SUFFICES ASSUME NEW t \in Sids, t # s
               PROVE  SessionInv(t, sess'[t], Of(ops', t), wire'[t], client'[t])
    OBVIOUS
  <2>1. SessionInv(t, sess[t], Of(ops, t), wire[t], client[t])
    BY DEF AInv, Mine
  <2>2. SessionInv(t, sess[t], Of(ops, t), wire'[t], client[t])
    BY <2>1, Meeting
  <2> QED BY <2>2
<1> QED BY <1>1, <1>2 DEF AInv, Mine

\* An open session has a record, and what the invariant says of it.
LEMMA Opened ==
  ASSUME AInv, NEW s \in Sids
  PROVE  /\ SessionInv(s, sess[s], Of(ops, s), wire[s], client[s])
         /\ sess[s] \in Session \cup {NoSession}
         /\ Open(s) => sess[s] \in Session /\ sess[s].fd \in Fds
         /\ ~Open(s) => sess[s] = NoSession
BY DEF AInv, Mine, Types, Open, Session

\* What the reaper told stays true: it tells of no other child, and a child
\* that was reaped stays so.
LEMMA KeepsReaped ==
  ASSUME AInv,
         \A s \in Sids : sess'[s] # NoSession /\ sess'[s].child_exited =>
           Open(s) /\ sess[s].child_exited /\ sess'[s].pid = sess[s].pid,
         \A p \in Pids : proc[p] = "reaped" => proc'[p] = "reaped"
  PROVE  ReapInv'
BY DEF AInv, ReapInv, Open

\* The record keeps what other parts of the daemon rely on.
Kept(y, x) ==
  /\ y # NoSession <=> x # NoSession
  /\ y.fd = x.fd /\ y.pid = x.pid /\ y.child_exited = x.child_exited

\* A callback that settles its session at most.
LEMMA KeptStep ==
  ASSUME AInv, NEW s \in Sids, s < next_sess,
         UNCHANGED <<next_sess, containers, fds, proc>>,
         client' \in [Sids -> {"none", "open", "gone"}],
         wire' \in [Sids -> Seq(Kinds \X Sids)], ops' \subseteq Op,
         sess' \in [Sids -> Session \cup {NoSession}], Kept(sess'[s], sess[s]),
         \A t \in Sids : t # s => /\ sess'[t] = sess[t] /\ client'[t] = client[t]
                                  /\ Of(ops', t) = Of(ops, t)
                                  /\ Same(wire'[t], wire[t], t),
         SessionInv(s, sess'[s], Of(ops', s), wire'[s], client'[s])
  PROVE  AInv'
<1>1. Types'
  BY DEF AInv, Types
<1>2. \A t \in Sids : Kept(sess'[t], sess[t])
  BY DEF Kept
<1>3. FdInv'
  BY <1>2, KeepsFds DEF AInv, Kept, Open, Listed
<1>4. ReapInv'
  BY <1>2, KeepsReaped DEF Kept, Open
<1> QED BY <1>1, <1>3, <1>4, OneSession

\* A callback that closes its session.
LEMMA CloseStep ==
  ASSUME AInv, NEW s \in Sids, s < next_sess, CloseSession(s),
         UNCHANGED <<next_sess, containers, proc, client>>,
         wire' \in [Sids -> Seq(Kinds \X Sids)], ops' \subseteq Op,
         \A t \in Sids : t # s => /\ Of(ops', t) = Of(ops, t)
                                  /\ Same(wire'[t], wire[t], t),
         SessionInv(s, NoSession, Of(ops', s), wire'[s], client[s])
  PROVE  AInv'
<1>1. FdInv' /\ fds' \in [Fds -> Files] /\ sess' \in [Sids -> Session \cup {NoSession}]
  BY ClosesFd DEF AInv
<1>2. Types'
  BY <1>1 DEF AInv, Types
<1>3. sess'[s] = NoSession /\ \A t \in Sids : t # s => sess'[t] = sess[t]
  BY DEF AInv, Types, CloseSession
<1>4. ReapInv'
  BY <1>3, KeepsReaped DEF Open
<1> QED BY <1>1, <1>2, <1>3, <1>4, OneSession

\* A frame that ends the session.
LEMMA HangupStep ==
  ASSUME AInv, NEW s \in Sids, SessionHangup(s)
  PROVE  AInv'
<1>1. Open(s) /\ CloseSession(s) /\ ops' = Unread(s)
      /\ UNCHANGED <<next_sess, containers, worldVars, wire>>
  BY DEF SessionHangup
<1>2. s < next_sess
  BY <1>1, Accepted
<1>3. ops' \subseteq ops /\ \A t \in Sids : t # s => Of(ops', t) = Of(ops, t)
  BY <1>1 DEF Unread, InKernel, Of
<1>4. Of(ops', s) \subseteq Of(ops, s)
  BY <1>3 DEF Of
<1>5. SessionInv(s, NoSession, Of(ops', s), wire[s], client[s])
  BY <1>4, Opened, Closing, Dropping
<1>6. ops' \subseteq Op /\ wire \in [Sids -> Seq(Kinds \X Sids)]
  BY <1>3 DEF AInv, Types
<1>7. \A t \in Sids : Same(wire[t], wire[t], t)
  BY DEF Same
<1> QED BY <1>1, <1>2, <1>3, <1>5, <1>6, <1>7, CloseStep DEF worldVars

\* A request refused.
LEMMA RefusedStep ==
  ASSUME AInv, NEW s \in Sids, RequestRefused(s)
  PROVE  AInv'
<1>1. Open(s) /\ CloseSession(s) /\ ops' = Unread(s) /\ sess[s].pid = 0
      /\ UNCHANGED <<next_sess, containers, worldVars>>
      /\ wire' = [wire EXCEPT ![s] = Append(@, <<"resp", s>>)]
  BY DEF RequestRefused, Unserved, FrameRead
<1>2. s < next_sess
  BY <1>1, Accepted
<1>3. ops' \subseteq ops /\ \A t \in Sids : t # s => Of(ops', t) = Of(ops, t)
  BY <1>1 DEF Unread, InKernel, Of
<1>4. Of(ops', s) \subseteq Of(ops, s)
  BY <1>3 DEF Of
<1> DEFINE v == Append(wire[s], <<"resp", s>>)
<1>5. wire[s] \in Seq(Kinds \X Sids) /\ "resp" \in Kinds
  BY DEF AInv, Types, Kinds
<1>6. v \in Seq(Kinds \X Sids)
  BY <1>5, Appended
<1>7. PICK n : GrowsBy(v, wire[s], s, "resp", n)
  BY <1>5, OwnAppend
<1>8. SessionInv(s, NoSession, Of(ops', s), v, client[s])
  BY <1>1, <1>4, <1>7, Opened, Refusing
<1> HIDE DEF v
<1>9. wire' = [wire EXCEPT ![s] = v]
  BY <1>1 DEF v
<1>10. wire' \in [Sids -> Seq(Kinds \X Sids)]
  BY <1>6, <1>9 DEF AInv, Types
<1>11. wire'[s] = v /\ \A t \in Sids : t # s => Same(wire'[t], wire[t], t)
  BY <1>9 DEF AInv, Types, Same
<1>12. ops' \subseteq Op
  BY <1>3 DEF AInv, Types
<1> QED BY <1>1, <1>2, <1>3, <1>8, <1>10, <1>11, <1>12, CloseStep DEF worldVars

\* Ops of a closed session come back; a stale attach adds a pipe.
LEMMA StaleStep ==
  ASSUME AInv, NEW s \in Sids, Stale(s)
  PROVE  AInv'
<1>1. UNCHANGED <<sess, next_sess, fds, worldVars, wire>>
  BY DEF Stale, StaleOutput, StaleRead, daemonVars
<1>2. \E K \in {"output", "read"} : InKernel(K, s) # {} /\ ops' = ops \ InKernel(K, s)
  BY DEF Stale, StaleOutput, StaleRead, Unread
<1>3. /\ ops' \subseteq ops
      /\ \A t \in Sids : t # s => Of(ops', t) = Of(ops, t)
      /\ \E o \in ops : o.s = s
  BY <1>2 DEF InKernel, Of
<1>4. s < next_sess
  BY <1>3, Accepted
<1>5. /\ containers' \in [Pids -> Container \cup {NoContainer}]
      /\ \A p \in Pids : containers'[p] # NoContainer /\ containers'[p].input # NoFd =>
                           Listed(p) /\ containers'[p].input = containers[p].input
  <2>1. CASE UNCHANGED containers
    BY <2>1 DEF AInv, Types, Listed
  <2>2. CASE \E p \in Pids : /\ Listed(p)
                             /\ containers' = [containers EXCEPT ![p].pipes = @ \cup {s}]
    <3>1. PICK p \in Pids : /\ Listed(p)
                            /\ containers' = [containers EXCEPT ![p].pipes = @ \cup {s}]
      BY <2>2
    <3>2. containers \in [Pids -> Container \cup {NoContainer}] /\ containers[p] \in Container
      BY <3>1 DEF AInv, Types, Listed
    <3> DEFINE r == [containers[p] EXCEPT !.pipes = @ \cup {s}]
    <3>3. r \in Container /\ r.input = containers[p].input
      BY <3>2 DEF Container
    <3>4. containers' = [containers EXCEPT ![p] = r]
      BY <3>1
    <3> HIDE DEF r
    <3> QED BY <3>1, <3>2, <3>3, <3>4 DEF Listed
  <2> QED BY <2>1, <2>2 DEF Stale, StaleOutput, StaleRead, daemonVars
<1>6. FdInv'
  BY <1>1, <1>5, KeepsFds DEF AInv, Open
<1>7. Types'
  BY <1>1, <1>3, <1>5 DEF AInv, Types, worldVars
<1>8. ReapInv'
  BY <1>1, KeepsReaped DEF Open, worldVars
<1>9. Of(ops', s) \subseteq Of(ops, s)
  BY <1>3 DEF Of
<1>10. SessionInv(s, sess[s], Of(ops', s), wire[s], client[s])
  BY <1>9, Opened, Dropping
<1>11. \A t \in Sids : Same(wire[t], wire[t], t)
  BY DEF Same
<1> QED BY <1>1, <1>3, <1>4, <1>6, <1>7, <1>8, <1>10, <1>11, OneSession DEF worldVars

\* The client goes.
LEMMA DisconnectsStep ==
  ASSUME AInv, NEW s \in Sids, Disconnects(s)
  PROVE  AInv'
<1>1. /\ UNCHANGED <<daemonVars, ops, fds, proc, out_open, left, src, wire>>
      /\ client' = [client EXCEPT ![s] = "gone"]
  BY DEF Disconnects
<1>2. /\ client' \in [Sids -> {"none", "open", "gone"}]
      /\ client'[s] = "gone"
      /\ \A t \in Sids : t # s => client'[t] = client[t]
  BY <1>1 DEF AInv, Types
<1>3. Types'
  BY <1>1, <1>2 DEF AInv, Types, daemonVars
<1>4. FdInv' /\ FreshInv' /\ ReapInv'
  BY <1>1 DEF AInv, FdInv, FreshInv, ReapInv, Open, InputIsOwn, Listed, daemonVars
<1>5. \A t \in Sids : SessionInv(t, sess[t], Of(ops, t), wire[t], client'[t])
  <2> SUFFICES ASSUME NEW t \in Sids
               PROVE  SessionInv(t, sess[t], Of(ops, t), wire[t], client'[t])
    OBVIOUS
  <2>1. SessionInv(t, sess[t], Of(ops, t), wire[t], client[t])
    BY Opened
  <2>2. SessionInv(t, sess[t], Of(ops, t), wire[t], "gone")
    BY <2>1, Parting
  <2> QED BY <1>2, <2>1, <2>2
<1> QED BY <1>1, <1>3, <1>4, <1>5 DEF AInv, Mine, daemonVars

\* The ring is submitted.
LEMMA SubmitStep ==
  ASSUME AInv, Submit
  PROVE  AInv'
<1>1. /\ UNCHANGED <<daemonVars, fds, worldVars, wire>>
      /\ ops' = {Resolved(o) : o \in ops}
  BY DEF Submit, Resolved
<1>2. \A o \in ops : Resolved(o) \in Op /\ Resolved(o).s = o.s
  <2> SUFFICES ASSUME NEW o \in ops
               PROVE  Resolved(o) \in Op /\ Resolved(o).s = o.s
    OBVIOUS
  <2>1. o \in Op /\ Lookup(o.fd) \in Files
    BY DEF AInv, Types, Lookup, Files
  <2> QED BY <2>1 DEF Resolved, Op
<1>3. \A s \in Sids : Of(ops', s) = {Resolved(o) : o \in Of(ops, s)}
  <2> HIDE DEF Resolved
  <2> QED BY <1>1, <1>2 DEF Of
<1>4. Types'
  BY <1>1, <1>2 DEF AInv, Types, daemonVars, worldVars
<1>5. FdInv' /\ ReapInv'
  BY <1>1 DEF AInv, FdInv, ReapInv, Open, InputIsOwn, Listed, daemonVars, worldVars
<1>6. FreshInv'
  <2> HIDE DEF Resolved
  <2>1. \A s \in Sids : (\A o \in ops : o.s # s) => \A o \in ops' : o.s # s
    BY <1>1, <1>2
  <2> QED BY <1>1, <2>1 DEF AInv, FreshInv, Open, daemonVars
<1>7. \A s \in Sids : SessionInv(s, sess[s], Of(ops', s), wire[s], client[s])
  <2> SUFFICES ASSUME NEW s \in Sids
               PROVE  SessionInv(s, sess[s], Of(ops', s), wire[s], client[s])
    OBVIOUS
  <2>1. sess[s] # NoSession => fds[sess[s].fd] = Stream(s)
    BY DEF AInv, FdInv, Open
  <2>2. sess[s] = NoSession => \A f \in Fds : fds[f] # Stream(s)
    BY DEF AInv, FdInv, Open
  <2>3. fds \in [Fds -> Files]
    BY DEF AInv, Types
  <2> QED BY <1>3, <2>1, <2>2, <2>3, Opened, Submitting
<1> QED BY <1>1, <1>4, <1>5, <1>6, <1>7 DEF AInv, Mine, daemonVars, worldVars

\* The op a completion is of: its session, and the ops around it.
LEMMA OpFacts ==
  ASSUME AInv, NEW o \in ops
  PROVE  /\ o \in Op /\ o.s \in Sids /\ o.s < next_sess /\ o \in Of(ops, o.s)
         /\ o.kind \in Kinds /\ o.fd \in Fds \cup {NoFd}
         /\ Of(ops \ {o}, o.s) = Of(ops, o.s) \ {o}
         /\ \A t \in Sids : t # o.s => Of(ops \ {o}, t) = Of(ops, t)
         /\ \A t \in Sids : Same(wire[t], wire[t], t)
         /\ wire \in [Sids -> Seq(Kinds \X Sids)]
<1>1. o \in Op
  BY DEF AInv, Types
<1>2. o.s \in Sids /\ o.kind \in Kinds /\ o.fd \in Fds \cup {NoFd}
  BY <1>1 DEF Op
<1>3. o.s < next_sess
  BY <1>2, Accepted
<1>4. wire \in [Sids -> Seq(Kinds \X Sids)]
  BY DEF AInv, Types
<1> QED BY <1>1, <1>2, <1>3, <1>4 DEF Of, Same

\* The ops when o gives way to q.
LEMMA OpSwapped ==
  ASSUME AInv, NEW o \in ops, NEW q \in Op, q.s = o.s
  PROVE  LET O == (ops \ {o}) \cup {q} IN
         /\ O \subseteq Op
         /\ Of(O, o.s) = (Of(ops, o.s) \ {o}) \cup {q}
         /\ \A t \in Sids : t # o.s => Of(O, t) = Of(ops, t)
<1>1. ops \subseteq Op
  BY DEF AInv, Types
<1> QED BY <1>1 DEF Of

\* A write was short.
LEMMA ShortWriteStep ==
  ASSUME AInv, NEW o \in ops, ShortWrite(o)
  PROVE  AInv'
<1> DEFINE q == [o EXCEPT !.part = TRUE, !.file = Queued]
           s == o.s
<1>1. /\ o.kind \in {"exit", "header", "payload"}
      /\ UNCHANGED <<daemonVars, fds, worldVars, wire>>
      /\ ops' = (ops \ {o}) \cup {q}
  BY DEF ShortWrite
<1>2. o \in Op /\ s \in Sids /\ s < next_sess /\ o \in Of(ops, s)
  BY OpFacts
<1>3. Queued \in Files
  BY DEF Files
<1>4. q \in Op /\ q.kind = o.kind /\ q.s = o.s /\ q.fd = o.fd /\ q.file = Queued
  BY <1>2, <1>3 DEF Op
<1> HIDE DEF q
<1>5. /\ ops' \subseteq Op
      /\ Of(ops', s) = (Of(ops, s) \ {o}) \cup {q}
      /\ \A t \in Sids : t # s => Of(ops', t) = Of(ops, t)
  BY <1>1, <1>4, OpSwapped
<1>6. SessionInv(s, sess[s], Of(ops', s), wire[s], client[s])
  <2>1. /\ SessionInv(s, sess[s], Of(ops, s), wire[s], client[s])
        /\ sess[s] \in Session \cup {NoSession}
    BY <1>2, Opened
  <2> HIDE DEF s
  <2>2. SessionInv(s, sess[s], (Of(ops, s) \ {o}) \cup {q}, wire[s], client[s])
    BY <1>1, <1>2, <1>4, <2>1, Shortened
  <2> QED BY <1>5, <2>2
<1>7. Kept(sess[s], sess[s])
  BY DEF Kept
<1>8. sess \in [Sids -> Session \cup {NoSession}]
      /\ client \in [Sids -> {"none", "open", "gone"}]
  BY DEF AInv, Types
<1> HIDE DEF s
<1> QED BY <1>1, <1>2, <1>5, <1>6, <1>7, <1>8, OpFacts, KeptStep DEF daemonVars, worldVars

\* on_session_output with bytes.
LEMMA OutputDataStep ==
  ASSUME AInv, NEW o \in ops, OutputData(o)
  PROVE  AInv'
<1> DEFINE s == o.s
           q == StreamOp("header", s, sess[s].fd)
<1>1. /\ o.kind = "output" /\ Open(s)
      /\ UNCHANGED <<daemonVars, fds, proc, client, wire>>
      /\ ops' = (ops \ {o}) \cup {q}
  BY DEF OutputData, OutputRead
<1>2. o \in Op /\ s \in Sids /\ s < next_sess /\ o \in Of(ops, s)
  BY OpFacts
<1>3. sess[s] \in Session /\ sess[s].fd \in Fds
      /\ SessionInv(s, sess[s], Of(ops, s), wire[s], client[s])
  BY <1>1, <1>2, Opened
<1>4. q \in Op /\ q.s = o.s
  BY <1>2, <1>3, NewOps DEF Kinds
<1>5. SessionInv(s, sess[s], (Of(ops, s) \ {o}) \cup {q}, wire[s], client[s])
  BY <1>1, <1>2, <1>3, Heading
<1> HIDE DEF q
<1>6. /\ ops' \subseteq Op
      /\ Of(ops', s) = (Of(ops, s) \ {o}) \cup {q}
      /\ \A t \in Sids : t # s => Of(ops', t) = Of(ops, t)
  BY <1>1, <1>4, OpSwapped
<1>7. Kept(sess[s], sess[s])
  BY DEF Kept
<1>8. sess \in [Sids -> Session \cup {NoSession}]
      /\ client \in [Sids -> {"none", "open", "gone"}]
  BY DEF AInv, Types
<1> HIDE DEF s
<1> QED BY <1>1, <1>2, <1>5, <1>6, <1>7, <1>8, OpFacts, KeptStep DEF daemonVars

\* on_session_frame.
LEMMA FrameStep ==
  ASSUME AInv, NEW o \in ops, on_session_frame(o)
  PROVE  AInv'
<1> DEFINE s == o.s
           N == Of(ops, s) \ {o}
<1>1. /\ o.kind \in {"resp", "exit"}
      /\ UNCHANGED <<next_sess, containers, worldVars>>
      /\ ops' = ops \ {o}
  BY DEF on_session_frame
<1>2. o \in Op /\ s \in Sids /\ s < next_sess /\ o \in Of(ops, s)
  BY OpFacts
<1>3. sess[s] \in Session \cup {NoSession}
      /\ SessionInv(s, sess[s], Of(ops, s), wire[s], client[s])
  BY <1>2, Opened
<1>4. ops' \subseteq Op /\ Of(ops', s) = N /\ \A t \in Sids : t # s => Of(ops', t) = Of(ops, t)
  BY <1>1, OpFacts DEF AInv, Types
<1>5. SessionInv(s, sess[s], N, wire[s], client[s])
  BY <1>2, <1>3, Dropping
<1>6. SessionInv(s, NoSession, N, wire[s], client[s])
  BY <1>5, Closing
<1>7. CASE ~Writable(o) /\ CloseSession(s) /\ UNCHANGED wire
  <2> HIDE DEF s, N
  <2> QED BY <1>1, <1>2, <1>4, <1>6, <1>7, OpFacts, CloseStep DEF worldVars
<1>8. ASSUME Writable(o), Written(o)
      PROVE  /\ wire' \in [Sids -> Seq(Kinds \X Sids)]
             /\ \A t \in Sids : t # s => Same(wire'[t], wire[t], t)
             /\ SessionInv(s, sess[s], N, wire'[s], client[s])
  <2>0. Types
    BY DEF AInv
  <2>1. /\ wire' \in [Sids -> Seq(Kinds \X Sids)]
        /\ o.file = Stream(o.s) =>
              /\ client[o.s] = "open"
              /\ \E n : GrowsBy(wire'[o.s], wire[o.s], o.s, o.kind, n)
        /\ \A t \in Sids : t # o.s \/ o.file # Stream(o.s) => Same(wire'[t], wire[t], t)
    BY <1>8, <2>0, WrittenFrame
  <2>2. CASE o.file # Stream(s)
    BY <2>1, <2>2, <1>2, <1>5, Meeting
  <2>3. CASE o.file = Stream(s)
    <3>1. PICK n : GrowsBy(wire'[s], wire[s], s, o.kind, n)
      BY <2>1, <2>3
    <3>2. ASSUME o.kind = "resp"
          PROVE  SessionInv(s, sess[s], N, wire'[s], client[s])
      <4>1. GrowsBy(wire'[s], wire[s], s, "resp", n)
        BY <3>1, <3>2
      <4>2. client[s] = "open"
        BY <2>1, <2>3
      <4> HIDE DEF s
      <4> QED BY <4>1, <4>2, <3>2, <2>3, <1>2, <1>3, RespWritten
    <3>3. ASSUME o.kind = "exit"
          PROVE  SessionInv(s, sess[s], N, wire'[s], client[s])
      <4>1. GrowsBy(wire'[s], wire[s], s, "exit", n)
        BY <3>1, <3>3
      <4>2. client[s] = "open"
        BY <2>1, <2>3
      <4> HIDE DEF s
      <4> QED BY <4>1, <4>2, <3>3, <2>3, <1>2, <1>3, ExitWritten
    <3>4. SessionInv(s, sess[s], N, wire'[s], client[s])
      BY <3>2, <3>3, <1>1
    <3> QED BY <3>4, <2>1
  <2> QED BY <2>2, <2>3
<1>9. CASE Writable(o) /\ Written(o) /\ CloseSession(s)
  <2>1. SessionInv(s, NoSession, N, wire'[s], client[s])
    BY <1>8, <1>9, Closing
  <2>2. /\ wire' \in [Sids -> Seq(Kinds \X Sids)]
        /\ \A t \in Sids : t # s => Same(wire'[t], wire[t], t)
    BY <1>8, <1>9
  <2>3. CloseSession(s)
    BY <1>9
  <2> HIDE DEF s, N
  <2> QED BY <1>1, <1>2, <1>4, <2>1, <2>2, <2>3, CloseStep DEF worldVars
<1>10. CASE Writable(o) /\ Written(o) /\ UNCHANGED <<sess, fds>>
  <2>1. Kept(sess[s], sess[s])
    BY DEF Kept
  <2>2. sess \in [Sids -> Session \cup {NoSession}]
        /\ client \in [Sids -> {"none", "open", "gone"}]
    BY DEF AInv, Types
  <2>3. /\ wire' \in [Sids -> Seq(Kinds \X Sids)]
        /\ \A t \in Sids : t # s => Same(wire'[t], wire[t], t)
        /\ SessionInv(s, sess[s], N, wire'[s], client[s])
    BY <1>8, <1>10
  <2> HIDE DEF s, N
  <2> QED BY <1>1, <1>2, <1>4, <1>10, <2>1, <2>2, <2>3, KeptStep DEF worldVars
<1> QED BY <1>7, <1>9, <1>10 DEF on_session_frame

\* finish_session_output, when the op that moved the output on is gone.
LEMMA Finishing ==
  ASSUME AInv, NEW o \in ops, Token(o), FinishOutput(o.s, ops \ {o}), NEW v,
         SessionInv(o.s, sess[o.s], Of(ops, o.s) \ {o}, v, client[o.s]),
         Open(o.s) /\ client[o.s] = "open" => ~HeaderLast(v, o.s)
  PROVE  /\ sess' \in [Sids -> Session \cup {NoSession}]
         /\ ops' \subseteq Op
         /\ Kept(sess'[o.s], sess[o.s])
         /\ \A t \in Sids : t # o.s => sess'[t] = sess[t] /\ Of(ops', t) = Of(ops, t)
         /\ SessionInv(o.s, sess'[o.s], Of(ops', o.s), v, client[o.s])
<1> DEFINE s == o.s
           N == Of(ops, s) \ {o}
           x == sess[s]
           y == [x EXCEPT !.drain_done = TRUE]
<1>1. o \in Op /\ s \in Sids /\ o \in Of(ops, s) /\ Of(ops \ {o}, s) = N
      /\ \A t \in Sids : t # s => Of(ops \ {o}, t) = Of(ops, t)
  BY OpFacts
<1>2. ops \subseteq Op /\ sess \in [Sids -> Session \cup {NoSession}]
  BY DEF AInv, Types
<1>3. CASE ~Open(s)
  <2>1. sess' = sess /\ ops' = ops \ {o}
    BY <1>3 DEF FinishOutput
  <2> QED BY <1>1, <1>2, <2>1 DEF Kept
<1>4. CASE Open(s)
  <2>1. sess' = [sess EXCEPT ![s] = Settled(y)] /\ ops' = (ops \ {o}) \cup ExitWrite(s, y)
    BY <1>4 DEF FinishOutput
  <2>2. x \in Session
    BY <1>1, <1>4, Opened
  <2>3. y \in Session /\ y.fd = x.fd /\ y.pid = x.pid /\ y.exit_sent = x.exit_sent
        /\ y.child_exited = x.child_exited /\ y.drain_done
    BY <2>2 DEF Session
  <2>4. x # NoSession /\ Settled(y) # NoSession
    BY <2>2, <2>3, SessionIsOpen, SettledRecord
  <2>5. x.pid # 0 /\ ~x.drain_done /\ \A q \in N : ~Token(q)
    BY <1>1, <2>4, Opened, TokenHeld
  <2>6. SessionInv(s, x, N, v, client[s])
    OBVIOUS
  <2>7. client[s] = "open" => ~HeaderLast(v, s)
    BY <1>4
  <2>8. /\ Settled(y) \in Session /\ Settled(y).fd = x.fd /\ Settled(y).pid = x.pid
        /\ Settled(y).child_exited = x.child_exited
    BY <2>3, SettledRecord
  <2>9. \A q \in ExitWrite(s, y) : q \in Op /\ q.s = s
    BY <1>1, <2>3, NewOps DEF ExitWrite, Kinds, Session
  <2> HIDE DEF x, y, s, N
  <2>10. SessionInv(s, Settled(y), N \cup ExitWrite(s, y), v, client[s])
    BY <1>1, <2>2, <2>3, <2>5, <2>6, <2>7, Settling
  <2>11. /\ Of(ops', s) = N \cup ExitWrite(s, y)
         /\ \A t \in Sids : t # s => Of(ops', t) = Of(ops, t)
         /\ ops' \subseteq Op
    BY <1>1, <1>2, <2>1, <2>9 DEF Of
  <2>12. sess' \in [Sids -> Session \cup {NoSession}] /\ sess'[s] = Settled(y)
         /\ \A t \in Sids : t # s => sess'[t] = sess[t]
    BY <1>1, <1>2, <2>1, <2>8
  <2>13. Kept(sess'[s], x)
    BY <2>4, <2>8, <2>12 DEF Kept
  <2> QED BY <2>10, <2>11, <2>12, <2>13 DEF x, s
<1> QED BY <1>3, <1>4

\* on_session_output at the end of the output or with an error.
LEMMA OutputEofStep ==
  ASSUME AInv, NEW o \in ops, OutputEof(o) \/ OutputFails(o)
  PROVE  AInv'
<1> DEFINE s == o.s
<1>1. /\ o.kind = "output" /\ Open(s)
      /\ UNCHANGED <<next_sess, containers, fds, proc, client, wire>>
      /\ FinishOutput(s, ops \ {o})
  BY DEF OutputEof, OutputFails, OutputRead, worldVars
<1>2. o \in Op /\ s \in Sids /\ s < next_sess /\ o \in Of(ops, s)
  BY OpFacts
<1>3. SessionInv(s, sess[s], Of(ops, s), wire[s], client[s])
  BY <1>2, Opened
<1>4. SessionInv(s, sess[s], Of(ops, s) \ {o}, wire[s], client[s])
  BY <1>3, Dropping
<1>5. client[s] = "open" => ~HeaderLast(wire[s], s)
  BY <1>1, <1>2, <1>3 DEF SessionInv, FlowOf, Open
<1>6. Token(o)
  BY <1>1 DEF Token
<1>7. /\ sess' \in [Sids -> Session \cup {NoSession}]
      /\ ops' \subseteq Op
      /\ Kept(sess'[s], sess[s])
      /\ \A t \in Sids : t # s => sess'[t] = sess[t] /\ Of(ops', t) = Of(ops, t)
      /\ SessionInv(s, sess'[s], Of(ops', s), wire[s], client[s])
  BY <1>1, <1>4, <1>5, <1>6, Finishing
<1>8. client \in [Sids -> {"none", "open", "gone"}]
  BY DEF AInv, Types
<1> HIDE DEF s
<1> QED BY <1>1, <1>2, <1>7, <1>8, OpFacts, KeptStep

\* An op of an open session that was submitted has met the session's stream.
LEMMA StreamMet ==
  ASSUME AInv, NEW o \in ops, Submitted(o), o.kind # "output", Open(o.s)
  PROVE  o.file = Stream(o.s) /\ (Writable(o) <=> client[o.s] = "open")
<1>1. o.s \in Sids /\ o \in Of(ops, o.s)
  BY OpFacts
<1>2. SessionInv(o.s, sess[o.s], Of(ops, o.s), wire[o.s], client[o.s])
  BY <1>1, Opened
<1>3. o.file = Stream(o.s)
  BY <1>1, <1>2 DEF SessionInv, OpsOf, Open, Submitted
<1>4. o.file[1] = "stream" /\ o.file[2] = o.s
  BY <1>3 DEF Stream
<1> QED BY <1>3, <1>4 DEF Writable

\* on_session_data_header.
LEMMA HeaderStep ==
  ASSUME AInv, NEW o \in ops, on_session_data_header(o)
  PROVE  AInv'
<1> DEFINE s == o.s
           N == Of(ops, s) \ {o}
           q == StreamOp("payload", s, o.fd)
<1>1. /\ o.kind = "header" /\ Submitted(o) /\ Turn(o)
      /\ UNCHANGED <<next_sess, containers, fds, worldVars>>
  BY DEF on_session_data_header
<1>2. o \in Op /\ s \in Sids /\ s < next_sess /\ o \in Of(ops, s)
      /\ o.fd \in Fds \cup {NoFd}
  BY OpFacts
<1>3. /\ SessionInv(s, sess[s], Of(ops, s), wire[s], client[s])
      /\ sess[s] \in Session \cup {NoSession}
      /\ ~Open(s) => sess[s] = NoSession
  BY <1>2, Opened
<1>4. client \in [Sids -> {"none", "open", "gone"}]
      /\ sess \in [Sids -> Session \cup {NoSession}]
  BY DEF AInv, Types
<1>5. CASE Writable(o) /\ Written(o) /\ ops' = (ops \ {o}) \cup {q} /\ UNCHANGED sess
  <2>0. Types
    BY DEF AInv
  <2>1. /\ wire' \in [Sids -> Seq(Kinds \X Sids)]
        /\ o.file = Stream(o.s) =>
              /\ client[o.s] = "open"
              /\ \E n : GrowsBy(wire'[o.s], wire[o.s], o.s, o.kind, n)
        /\ \A t \in Sids : t # o.s \/ o.file # Stream(o.s) => Same(wire'[t], wire[t], t)
    BY <1>5, <2>0, WrittenFrame
  <2>2. \A r \in Of(ops, s) : r.kind # "resp"
    BY <1>1 DEF Turn, Of
  <2>3. q \in Op /\ q.s = s
    BY <1>2, NewOps DEF Kinds
  <2>4. ASSUME o.file = Stream(s)
        PROVE  SessionInv(s, sess[s], N \cup {q}, wire'[s], client[s])
    <3>1. PICK n : GrowsBy(wire'[s], wire[s], s, o.kind, n)
      BY <2>1, <2>4
    <3>2. GrowsBy(wire'[s], wire[s], s, "header", n)
      BY <1>1, <3>1
    <3>3. client[s] = "open"
      BY <2>1, <2>4
    <3> HIDE DEF s
    <3> QED BY <3>2, <3>3, <2>2, <2>4, <1>1, <1>2, <1>3, HeaderWritten
  <2>5. ASSUME o.file # Stream(s)
        PROVE  SessionInv(s, sess[s], N \cup {q}, wire'[s], client[s])
    <3>1. sess[s] = NoSession
      BY <1>1, <1>3, <2>5, StreamMet
    <3>2. Same(wire'[s], wire[s], s)
      BY <1>2, <2>1, <2>5
    <3> HIDE DEF s
    <3>3. SessionInv(s, NoSession, N \cup {q}, wire[s], client[s])
      BY <1>1, <1>2, <1>3, <3>1, HeaderAstray
    <3> HIDE DEF N, q
    <3> QED BY <3>1, <3>2, <3>3, Meeting
  <2> HIDE DEF q
  <2>6. /\ ops' \subseteq Op
        /\ Of(ops', s) = N \cup {q}
        /\ \A t \in Sids : t # s => Of(ops', t) = Of(ops, t)
    BY <1>5, <2>3, OpSwapped
  <2>7. SessionInv(s, sess[s], Of(ops', s), wire'[s], client[s])
    BY <2>4, <2>5, <2>6
  <2>8. Kept(sess[s], sess[s])
    BY DEF Kept
  <2>9. \A t \in Sids : t # s => Same(wire'[t], wire[t], t)
    BY <2>1
  <2> HIDE DEF s, N
  <2> QED BY <1>1, <1>2, <1>4, <1>5, <2>1, <2>6, <2>7, <2>8, <2>9, KeptStep DEF worldVars
<1>6. CASE ~Writable(o) /\ FinishOutput(s, ops \ {o}) /\ UNCHANGED wire
  <2>1. SessionInv(s, sess[s], N, wire[s], client[s])
    BY <1>3, Dropping
  <2>2. Open(s) => client[s] # "open"
    BY <1>1, <1>6, StreamMet
  <2>3. Token(o)
    BY <1>1 DEF Token
  <2>4. /\ sess' \in [Sids -> Session \cup {NoSession}]
        /\ ops' \subseteq Op
        /\ Kept(sess'[s], sess[s])
        /\ \A t \in Sids : t # s => sess'[t] = sess[t] /\ Of(ops', t) = Of(ops, t)
        /\ SessionInv(s, sess'[s], Of(ops', s), wire[s], client[s])
    BY <1>6, <2>1, <2>2, <2>3, Finishing
  <2> HIDE DEF s
  <2> QED BY <1>1, <1>2, <1>4, <1>6, <2>4, OpFacts, KeptStep DEF worldVars
<1> QED BY <1>5, <1>6 DEF on_session_data_header

\* on_session_data_payload: the output is read on, or it is over.
LEMMA PayloadStep ==
  ASSUME AInv, NEW o \in ops, on_session_data_payload(o)
  PROVE  AInv'
<1> DEFINE s == o.s
           N == Of(ops, s) \ {o}
<1>1. /\ o.kind = "payload" /\ Submitted(o)
      /\ UNCHANGED <<next_sess, containers, fds, worldVars>>
  BY DEF on_session_data_payload
<1>2. o \in Op /\ s \in Sids /\ s < next_sess /\ o \in Of(ops, s)
  BY OpFacts
<1>3. /\ SessionInv(s, sess[s], Of(ops, s), wire[s], client[s])
      /\ sess[s] \in Session \cup {NoSession}
      /\ ~Open(s) => sess[s] = NoSession
  BY <1>2, Opened
<1>4. client \in [Sids -> {"none", "open", "gone"}]
      /\ sess \in [Sids -> Session \cup {NoSession}]
  BY DEF AInv, Types
<1>5. Token(o)
  BY <1>1 DEF Token
<1>6. SessionInv(s, sess[s], N, wire[s], client[s])
  BY <1>3, Dropping
<1>7. ASSUME Writable(o), Written(o)
      PROVE  /\ wire' \in [Sids -> Seq(Kinds \X Sids)]
             /\ \A t \in Sids : t # s => Same(wire'[t], wire[t], t)
             /\ SessionInv(s, sess[s], N, wire'[s], client[s])
             /\ Open(s) => ~HeaderLast(wire'[s], s) /\ ~HasExit(wire'[s], s)
  <2>0. Types
    BY DEF AInv
  <2>1. /\ wire' \in [Sids -> Seq(Kinds \X Sids)]
        /\ o.file = Stream(o.s) =>
              /\ client[o.s] = "open"
              /\ \E n : GrowsBy(wire'[o.s], wire[o.s], o.s, o.kind, n)
        /\ \A t \in Sids : t # o.s \/ o.file # Stream(o.s) => Same(wire'[t], wire[t], t)
    BY <1>7, <2>0, WrittenFrame
  <2>2. ASSUME o.file = Stream(s)
        PROVE  /\ SessionInv(s, sess[s], N, wire'[s], client[s])
               /\ ~HeaderLast(wire'[s], s) /\ ~HasExit(wire'[s], s)
    <3>1. PICK n : GrowsBy(wire'[s], wire[s], s, o.kind, n)
      BY <2>1, <2>2
    <3>2. GrowsBy(wire'[s], wire[s], s, "payload", n)
      BY <1>1, <3>1
    <3>3. client[s] = "open"
      BY <2>1, <2>2
    <3> HIDE DEF s
    <3> QED BY <3>2, <3>3, <2>2, <1>1, <1>2, <1>3, PayloadWritten
  <2>3. ASSUME o.file # Stream(s)
        PROVE  SessionInv(s, sess[s], N, wire'[s], client[s]) /\ ~Open(s)
    <3>1. ~Open(s)
      BY <1>1, <2>3, StreamMet
    <3>2. Same(wire'[s], wire[s], s)
      BY <1>2, <2>1, <2>3
    <3> HIDE DEF s, N
    <3> QED BY <1>6, <3>1, <3>2, Meeting
  <2> QED BY <2>1, <2>2, <2>3
<1>8. ASSUME FinishOutput(s, ops \ {o}),
             wire' \in [Sids -> Seq(Kinds \X Sids)],
             \A t \in Sids : t # s => Same(wire'[t], wire[t], t),
             SessionInv(s, sess[s], N, wire'[s], client[s]),
             Open(s) /\ client[s] = "open" => ~HeaderLast(wire'[s], s)
      PROVE  AInv'
  <2>1. /\ sess' \in [Sids -> Session \cup {NoSession}]
        /\ ops' \subseteq Op
        /\ Kept(sess'[s], sess[s])
        /\ \A t \in Sids : t # s => sess'[t] = sess[t] /\ Of(ops', t) = Of(ops, t)
        /\ SessionInv(s, sess'[s], Of(ops', s), wire'[s], client[s])
    BY <1>5, <1>8, Finishing
  <2> HIDE DEF s
  <2> QED BY <1>1, <1>2, <1>4, <1>8, <2>1, KeptStep DEF worldVars
<1>9. CASE Writable(o) /\ Written(o) /\ ArmOutput(s, ops \ {o})
  <2>1. CASE Open(s) /\ (sess[s].ptm # NoFd \/ sess[s].log)
    <3> DEFINE out == OutputOp(s, sess[s].pid, sess[s].ptm)
    <3>1. UNCHANGED sess /\ ops' = (ops \ {o}) \cup {out}
      BY <1>9, <2>1 DEF ArmOutput
    <3>2. sess[s] \in Session
      BY <1>2, <2>1, Opened
    <3>3. out \in Op /\ out.kind = "output" /\ out.s = s /\ out.file = Queued
      BY <1>2, <3>2, NewOutputs DEF Session
    <3> HIDE DEF out
    <3>4. /\ \A r \in N : ~Token(r) /\ r.kind # "exit"
          /\ sess[s].pid # 0 /\ ~sess[s].drain_done /\ ~sess[s].exit_sent
      BY <1>2, <1>3, <1>5, <2>1, TokenHeld DEF Open
    <3>5. /\ SessionInv(s, sess[s], N, wire'[s], client[s])
          /\ ~HeaderLast(wire'[s], s) /\ ~HasExit(wire'[s], s)
      BY <1>7, <1>9, <2>1
    <3>6. SessionInv(s, sess[s], N \cup {out}, wire'[s], client[s])
      <4> HIDE DEF s, N
      <4> QED BY <1>2, <3>2, <3>3, <3>4, <3>5, Arming
    <3>7. /\ ops' \subseteq Op
          /\ Of(ops', s) = N \cup {out}
          /\ \A t \in Sids : t # s => Of(ops', t) = Of(ops, t)
      BY <3>1, <3>3, OpSwapped
    <3>8. Kept(sess[s], sess[s])
      BY DEF Kept
    <3>9. /\ wire' \in [Sids -> Seq(Kinds \X Sids)]
          /\ \A t \in Sids : t # s => Same(wire'[t], wire[t], t)
      BY <1>7, <1>9
    <3> HIDE DEF s, N
    <3> QED BY <1>1, <1>2, <1>4, <3>1, <3>6, <3>7, <3>8, <3>9, KeptStep DEF worldVars
  <2>2. CASE ~(Open(s) /\ (sess[s].ptm # NoFd \/ sess[s].log))
    <3>1. FinishOutput(s, ops \ {o})
      BY <1>9, <2>2 DEF ArmOutput
    <3> QED BY <3>1, <1>7, <1>8, <1>9
  <2> QED BY <2>1, <2>2
<1>10. CASE ~Writable(o) /\ FinishOutput(s, ops \ {o}) /\ UNCHANGED wire
  <2>1. Open(s) => client[s] # "open"
    BY <1>1, <1>10, StreamMet
  <2> QED BY <1>6, <1>8, <1>10, <2>1, OpFacts
<1> QED BY <1>9, <1>10 DEF on_session_data_payload

\* A request is served: what is common to runs and attaches.
LEMMA ServeStep ==
  ASSUME AInv, NEW s \in Sids, Unserved(s), NEW y \in Session, y.pid # 0,
         ServedAs(y, sess[s]), sess' = [sess EXCEPT ![s] = y],
         NEW out \in Op, out.kind = "output", out.s = s, out.file = Queued,
         Served(s, out), UNCHANGED <<next_sess, client, wire>>,
         FdInv', fds' \in [Fds -> Files],
         containers' \in [Pids -> Container \cup {NoContainer}],
         proc' \in [Pids -> {"none", "running", "exited", "reaped"}],
         \A p \in Pids : proc[p] = "reaped" => proc'[p] = "reaped"
  PROVE  AInv'
<1> DEFINE M == Of(ops, s) \ InKernel("read", s)
           rd == StreamOp("read", s, sess[s].fd)
           rs == StreamOp("resp", s, sess[s].fd)
<1>1. Open(s) /\ sess[s].pid = 0
  BY DEF Unserved, FrameRead
<1>2. sess[s] \in Session /\ sess[s].fd \in Fds
      /\ SessionInv(s, sess[s], Of(ops, s), wire[s], client[s])
  BY <1>1, Opened
<1>3. SessionInv(s, sess[s], M, wire[s], client[s])
  BY <1>2, Dropping
<1>4. SessionInv(s, sess[s], M \cup {rd}, wire[s], client[s])
  <2> HIDE DEF M
  <2> QED BY <1>2, <1>3, Reading
<1>5. SessionInv(s, y, (M \cup {rd}) \cup {rs, out}, wire[s], client[s])
  <2> HIDE DEF M, rd
  <2> QED BY <1>1, <1>2, <1>4, Serving
<1>6. rd \in Op /\ rs \in Op /\ rd.s = s /\ rs.s = s
  BY <1>2, NewOps DEF Kinds
<1>7. ops' = ((ops \ InKernel("read", s)) \cup {rd}) \cup {rs, out}
  BY DEF Served, Rearmed, Unread
<1> HIDE DEF rd, rs
<1>8. /\ ops' \subseteq Op
      /\ Of(ops', s) = (M \cup {rd}) \cup {rs, out}
      /\ \A t \in Sids : t # s => Of(ops', t) = Of(ops, t)
  BY <1>6, <1>7 DEF AInv, Types, Of, InKernel
<1>9. /\ sess' \in [Sids -> Session \cup {NoSession}]
      /\ sess'[s] = y /\ \A t \in Sids : t # s => sess'[t] = sess[t]
  BY DEF AInv, Types
<1>10. s < next_sess
  BY <1>1, Accepted
<1>11. Types'
  BY <1>8, <1>9 DEF AInv, Types
<1>12. ~y.child_exited
  BY <1>1, <1>2 DEF SessionInv, UnservedOf, ServedAs, Open
<1>13. ReapInv'
  BY <1>9, <1>12, KeepsReaped DEF Open
<1>14. SessionInv(s, sess'[s], Of(ops', s), wire'[s], client'[s])
  BY <1>5, <1>8, <1>9
<1>15. \A t \in Sids : t # s => /\ sess'[t] = sess[t] /\ client'[t] = client[t]
                                /\ Of(ops', t) = Of(ops, t)
                                /\ Same(wire'[t], wire[t], t)
  BY <1>8, <1>9 DEF Same
<1> HIDE DEF M
<1> QED BY <1>10, <1>11, <1>13, <1>14, <1>15, OneSession

\* A container that starts was not reaped.
LEMMA Started ==
  ASSUME AInv, NEW p \in Pids, Starts(p)
  PROVE  /\ proc' \in [Pids -> {"none", "running", "exited", "reaped"}]
         /\ \A q \in Pids : proc[q] = "reaped" => proc'[q] = "reaped"
BY DEF AInv, Types, Starts

\* handle_run_attach.
LEMMA RunAttachStep ==
  ASSUME AInv, NEW s \in Sids, NEW p \in Pids, NEW pty \in BOOLEAN,
         handle_run_attach(s, p, pty)
  PROVE  AInv'
<1> DEFINE f == IF pty THEN LowestFd ELSE NoFd
           y == [sess[s] EXCEPT !.pid = p, !.own = TRUE, !.log = ~pty, !.ptm = f]
           r == [drains |-> 0, pipes |-> {}, input |-> NoFd]
           out == OutputOp(s, p, f)
<1>1. /\ Unserved(s) /\ Starts(p) /\ (pty => FreeFds # {})
      /\ fds' = IF pty THEN [fds EXCEPT ![LowestFd] = Input(p)] ELSE fds
      /\ containers' = [containers EXCEPT ![p] = r]
      /\ Served(s, out)
      /\ UNCHANGED <<next_sess, src, client, wire>>
  BY DEF handle_run_attach
<1>2. sess' = [sess EXCEPT ![s].pid = p, ![s].own = TRUE, ![s].log = ~pty, ![s].ptm = f]
  BY DEF handle_run_attach
<1>3. Open(s)
  BY <1>1 DEF Unserved, FrameRead
<1>4. sess[s] \in Session /\ sess \in [Sids -> Session \cup {NoSession}]
  BY <1>3, Opened DEF AInv, Types
<1>5. pty => LowestFd \in Fds /\ fds[LowestFd] = Free
  BY <1>1, LowestFree
<1>6. f \in Fds \cup {NoFd}
  BY <1>5
<1>7. sess' = [sess EXCEPT ![s] = y]
  BY <1>2, <1>4
<1>8. y \in Session /\ y.pid = p /\ y.fd = sess[s].fd /\ ServedAs(y, sess[s])
  <2> HIDE DEF f
  <2> QED BY <1>4, <1>6 DEF Session, ServedAs
<1>9. out \in Op /\ out.kind = "output" /\ out.s = s /\ out.file = Queued
  BY <1>6, NewOutputs
<1> HIDE DEF f, y, out
<1>10. p # 0
  BY PidsAssumption
<1>11. r \in Container
  BY DEF Container
<1>12. /\ containers' \in [Pids -> Container \cup {NoContainer}]
       /\ containers'[p].input = NoFd
       /\ \A q \in Pids : q # p => containers'[q] = containers[q]
  <2>1. containers \in [Pids -> Container \cup {NoContainer}]
    BY DEF AInv, Types
  <2>2. r.input = NoFd
    OBVIOUS
  <2> HIDE DEF r
  <2> QED BY <1>1, <1>11, <2>1, <2>2
<1>13. \A t \in Sids : (sess'[t] # NoSession <=> Open(t)) /\ sess'[t].fd = sess[t].fd
  <2>1. y # NoSession
    BY <1>8, SessionIsOpen
  <2> QED BY <1>3, <1>4, <1>7, <1>8, <2>1 DEF Open
<1>14. FdInv' /\ fds' \in [Fds -> Files]
  <2>0. Types /\ FdInv
    BY DEF AInv
  <2>1. CASE pty
    <3>1. fds' = [fds EXCEPT ![LowestFd] = Input(p)]
      BY <1>1, <2>1
    <3> QED BY <1>5, <1>12, <1>13, <2>0, <2>1, <3>1, TakesInput
  <2>2. CASE ~pty
    <3>1. fds' = fds
      BY <1>1, <2>2
    <3>2. FdInv'
      BY <1>12, <1>13, <2>0, <3>1, KeepsFds DEF Listed
    <3> QED BY <2>0, <3>1, <3>2 DEF Types
  <2> QED BY <2>1, <2>2
<1>15. /\ proc' \in [Pids -> {"none", "running", "exited", "reaped"}]
       /\ \A q \in Pids : proc[q] = "reaped" => proc'[q] = "reaped"
  BY <1>1, Started
<1>16. y.pid # 0 /\ UNCHANGED <<next_sess, client, wire>>
  BY <1>1, <1>8, <1>10
<1>17. Unserved(s) /\ Served(s, out)
  BY <1>1
<1> QED BY <1>7, <1>8, <1>9, <1>12, <1>14, <1>15, <1>16, <1>17, ServeStep

\* handle_attach.
LEMMA AttachStep ==
  ASSUME AInv, NEW s \in Sids, NEW p \in Pids, handle_attach(s, p)
  PROVE  AInv'
<1> DEFINE y == [sess[s] EXCEPT !.pid = p, !.log = TRUE, !.input = containers[p].input]
           r == [containers[p] EXCEPT !.pipes = @ \cup {s}]
           out == OutputOp(s, p, NoFd)
<1>1. /\ Unserved(s) /\ Listed(p) /\ Served(s, out)
      /\ UNCHANGED <<next_sess, fds, worldVars, wire>>
  BY DEF handle_attach
<1>2. /\ sess' = [sess EXCEPT ![s].pid = p, ![s].log = TRUE,
                              ![s].input = containers[p].input]
      /\ containers' = [containers EXCEPT ![p].pipes = @ \cup {s}]
  BY DEF handle_attach
<1>3. Open(s)
  BY <1>1 DEF Unserved, FrameRead
<1>4. sess[s] \in Session /\ sess \in [Sids -> Session \cup {NoSession}]
  BY <1>3, Opened DEF AInv, Types
<1>5. containers \in [Pids -> Container \cup {NoContainer}] /\ containers[p] \in Container
  BY <1>1 DEF AInv, Types, Listed
<1>6. containers[p].input \in Fds \cup {NoFd}
  BY <1>5, ContainerListed
<1>7. sess' = [sess EXCEPT ![s] = y] /\ containers' = [containers EXCEPT ![p] = r]
  BY <1>2, <1>4, <1>5
<1>8. y \in Session /\ y.pid = p /\ y.fd = sess[s].fd /\ ServedAs(y, sess[s])
  BY <1>4, <1>6 DEF Session, ServedAs
<1>9. r \in Container /\ r.input = containers[p].input
  BY <1>5 DEF Container
<1>10. out \in Op /\ out.kind = "output" /\ out.s = s /\ out.file = Queued
  BY NewOutputs
<1> HIDE DEF y, r, out
<1>11. p # 0
  BY PidsAssumption
<1>12. /\ containers' \in [Pids -> Container \cup {NoContainer}]
       /\ \A q \in Pids : containers'[q].input = containers[q].input
       /\ \A q \in Pids : q # p => containers'[q] = containers[q]
  BY <1>5, <1>7, <1>9
<1>13. \A t \in Sids : (sess'[t] # NoSession <=> Open(t)) /\ sess'[t].fd = sess[t].fd
  <2>1. y # NoSession
    BY <1>8, SessionIsOpen
  <2> QED BY <1>3, <1>4, <1>7, <1>8, <2>1 DEF Open
<1>14. FdInv' /\ fds' \in [Fds -> Files]
  <2>0. Types /\ FdInv
    BY DEF AInv
  <2>1. FdInv'
    BY <1>1, <1>12, <1>13, <2>0, KeepsFds DEF Listed
  <2> QED BY <1>1, <2>0, <2>1 DEF Types
<1>15. /\ proc' \in [Pids -> {"none", "running", "exited", "reaped"}]
       /\ \A q \in Pids : proc[q] = "reaped" => proc'[q] = "reaped"
  BY <1>1 DEF AInv, Types, worldVars
<1> QED BY <1>1, <1>7, <1>8, <1>10, <1>11, <1>12, <1>14, <1>15, ServeStep DEF worldVars

\* Steps that leave the sessions, their ops and streams alone.
LEMMA SessionsStand ==
  ASSUME AInv, UNCHANGED <<sess, next_sess, ops, client, wire>>,
         FdInv', fds' \in [Fds -> Files],
         containers' \in [Pids -> Container \cup {NoContainer}],
         proc' \in [Pids -> {"none", "running", "exited", "reaped"}],
         \A p \in Pids : proc[p] = "reaped" => proc'[p] = "reaped"
  PROVE  AInv'
<1>1. Types'
  BY DEF AInv, Types
<1>2. ReapInv'
  BY KeepsReaped DEF Open
<1>3. FreshInv'
  BY DEF AInv, FreshInv, Open
<1>4. (\A s \in Sids : SessionInv(s, sess[s], Mine(s), wire[s], client[s]))'
  BY Opened DEF Mine
<1> QED BY <1>1, <1>2, <1>3, <1>4 DEF AInv

\* handle_run.
LEMMA RunStep ==
  ASSUME AInv, NEW p \in Pids, NEW i \in BOOLEAN, handle_run(p, i)
  PROVE  AInv'
<1> DEFINE f == IF i THEN LowestFd ELSE NoFd
           r == [drains |-> 1, pipes |-> {}, input |-> f]
<1>1. /\ Starts(p) /\ (i => FreeFds # {})
      /\ fds' = IF i THEN [fds EXCEPT ![LowestFd] = Input(p)] ELSE fds
      /\ containers' = [containers EXCEPT ![p] = r]
      /\ UNCHANGED <<sess, next_sess, ops, src, client, wire>>
  BY DEF handle_run
<1>2. i => LowestFd \in Fds /\ fds[LowestFd] = Free
  BY <1>1, LowestFree
<1>3. r \in Container /\ r.input = f
  <2>1. f \in Fds \cup {NoFd}
    BY <1>2
  <2> HIDE DEF f
  <2> QED BY <2>1 DEF Container
<1> HIDE DEF r
<1>4. /\ containers' \in [Pids -> Container \cup {NoContainer}]
      /\ containers'[p].input = f
      /\ \A q \in Pids : q # p => containers'[q] = containers[q]
  <2>1. containers \in [Pids -> Container \cup {NoContainer}]
    BY DEF AInv, Types
  <2> HIDE DEF f
  <2> QED BY <1>1, <1>3, <2>1
<1>5. \A t \in Sids : (sess'[t] # NoSession <=> Open(t)) /\ sess'[t].fd = sess[t].fd
  BY <1>1 DEF Open
<1>6. FdInv' /\ fds' \in [Fds -> Files]
  <2>0. Types /\ FdInv
    BY DEF AInv
  <2>1. CASE i
    <3>1. fds' = [fds EXCEPT ![LowestFd] = Input(p)] /\ f = LowestFd
      BY <1>1, <2>1
    <3> HIDE DEF f
    <3> QED BY <1>2, <1>4, <1>5, <2>0, <2>1, <3>1, TakesInput
  <2>2. CASE ~i
    <3>1. fds' = fds /\ f = NoFd
      BY <1>1, <2>2
    <3>2. FdInv'
      BY <1>4, <1>5, <2>0, <3>1, KeepsFds DEF Listed
    <3> QED BY <2>0, <3>1, <3>2 DEF Types
  <2> QED BY <2>1, <2>2
<1>7. /\ proc' \in [Pids -> {"none", "running", "exited", "reaped"}]
      /\ \A q \in Pids : proc[q] = "reaped" => proc'[q] = "reaped"
  BY <1>1, Started
<1> QED BY <1>1, <1>4, <1>6, <1>7, SessionsStand

\* finish_drain.
LEMMA FinishDrainStep ==
  ASSUME AInv, NEW p \in Pids, finish_drain(p)
  PROVE  AInv'
<1>1. Unlist(p) /\ UNCHANGED <<sess, next_sess, ops, worldVars, wire>>
  BY DEF finish_drain
<1>2. Types /\ FdInv
  BY DEF AInv
<1>3. \A t \in Sids : (sess'[t] # NoSession <=> Open(t)) /\ sess'[t].fd = sess[t].fd
  BY <1>1 DEF Open
<1>4. /\ FdInv' /\ fds' \in [Fds -> Files]
      /\ containers' \in [Pids -> Container \cup {NoContainer}]
  BY <1>1, <1>2, <1>3, Unlisting
<1> QED BY <1>1, <1>2, <1>4, SessionsStand DEF worldVars, Types

\* The container's process prints, closes its output or exits.
LEMMA WorldStep ==
  ASSUME AInv, NEW p \in Pids, Prints(p) \/ ClosesOutput(p) \/ Exits(p)
  PROVE  AInv'
<1>1. UNCHANGED <<daemonVars, ops, fds, client, wire>>
  BY DEF Prints, ClosesOutput, Exits
<1>2. /\ proc' \in [Pids -> {"none", "running", "exited", "reaped"}]
      /\ \A q \in Pids : proc[q] = "reaped" => proc'[q] = "reaped"
  BY DEF Prints, ClosesOutput, Exits, AInv, Types
<1>3. FdInv' /\ fds' \in [Fds -> Files]
      /\ containers' \in [Pids -> Container \cup {NoContainer}]
  BY <1>1 DEF AInv, Types, FdInv, Open, InputIsOwn, Listed, daemonVars
<1> QED BY <1>1, <1>2, <1>3, SessionsStand DEF daemonVars

\* reap_children: one session of the container is told, and a container that
\* is drained leaves the map.
LEMMA ReapStep ==
  ASSUME AInv, NEW p \in Pids, reap_children(p)
  PROVE  AInv'
<1>1. /\ proc[p] = "exited" /\ proc' = [proc EXCEPT ![p] = "reaped"]
      /\ UNCHANGED <<next_sess, client, wire>>
  BY DEF reap_children
<1>2. Types /\ FdInv
  BY DEF AInv
<1>3. /\ proc' \in [Pids -> {"none", "running", "exited", "reaped"}]
      /\ proc'[p] = "reaped"
      /\ \A q \in Pids : proc[q] = "reaped" => proc'[q] = "reaped"
  BY <1>1, <1>2 DEF Types
<1>4. ASSUME \A t \in Sids : (sess'[t] # NoSession <=> Open(t)) /\ sess'[t].fd = sess[t].fd
      PROVE  /\ FdInv' /\ fds' \in [Fds -> Files]
             /\ containers' \in [Pids -> Container \cup {NoContainer}]
  <2>1. CASE Unlist(p)
    BY <1>2, <1>4, <2>1, Unlisting
  <2>2. CASE UNCHANGED <<containers, fds>>
    <3>1. FdInv'
      BY <1>2, <1>4, <2>2, KeepsFds DEF Listed
    <3> QED BY <1>2, <2>2, <3>1 DEF Types
  <2> QED BY <2>1, <2>2 DEF reap_children
<1>5. CASE UNCHANGED <<sess, ops>>
  <2>1. \A t \in Sids : (sess'[t] # NoSession <=> Open(t)) /\ sess'[t].fd = sess[t].fd
    BY <1>5 DEF Open
  <2>2. /\ FdInv' /\ fds' \in [Fds -> Files]
        /\ containers' \in [Pids -> Container \cup {NoContainer}]
    BY <1>4, <2>1
  <2> QED BY <1>1, <1>3, <1>5, <2>2, SessionsStand
<1>6. CASE \E s \in {t \in Sids : Open(t) /\ sess[t].pid = p} :
             LET x == [sess[s] EXCEPT !.child_exited = TRUE] IN
             /\ sess' = [sess EXCEPT ![s] = Settled(x)]
             /\ ops' = ops \cup ExitWrite(s, x)
  <2>1. PICK s \in Sids :
             /\ Open(s) /\ sess[s].pid = p
             /\ sess' = [sess EXCEPT ![s] = Settled([sess[s] EXCEPT !.child_exited = TRUE])]
             /\ ops' = ops \cup ExitWrite(s, [sess[s] EXCEPT !.child_exited = TRUE])
    BY <1>6
  <2> DEFINE x == sess[s]
             y == [x EXCEPT !.child_exited = TRUE]
  <2>2. x \in Session /\ SessionInv(s, x, Of(ops, s), wire[s], client[s])
    BY <2>1, Opened
  <2>3. y \in Session /\ y.fd = x.fd /\ y.pid = x.pid /\ y.exit_sent = x.exit_sent
        /\ y.drain_done = x.drain_done /\ y.child_exited
    BY <2>2 DEF Session
  <2>4. x # NoSession /\ x.pid # 0 /\ Settled(y) # NoSession
    BY <2>1, <2>2, <2>3, SessionIsOpen, SettledRecord, PidsAssumption
  <2>5. /\ Settled(y) \in Session /\ Settled(y).fd = x.fd /\ Settled(y).pid = p
    BY <2>1, <2>3, SettledRecord
  <2>6. x.drain_done => /\ \A o \in Of(ops, s) : ~Token(o)
                        /\ client[s] = "open" => ~HeaderLast(wire[s], s)
    BY <2>2, <2>4 DEF SessionInv, ExitOf, FlowOf
  <2>7. \A q \in ExitWrite(s, y) : q \in Op /\ q.s = s
    BY <2>3, NewOps DEF ExitWrite, Kinds, Session
  <2>8. sess' = [sess EXCEPT ![s] = Settled(y)] /\ ops' = ops \cup ExitWrite(s, y)
    BY <2>1
  <2> HIDE DEF x, y
  <2>9. SessionInv(s, Settled(y), Of(ops, s) \cup ExitWrite(s, y), wire[s], client[s])
    BY <2>2, <2>3, <2>4, <2>6, Settling
  <2>10. /\ Of(ops', s) = Of(ops, s) \cup ExitWrite(s, y)
         /\ \A t \in Sids : t # s => Of(ops', t) = Of(ops, t)
         /\ ops' \subseteq Op
    BY <1>2, <2>7, <2>8 DEF Of, Types
  <2>11. /\ sess' \in [Sids -> Session \cup {NoSession}]
         /\ sess'[s] = Settled(y) /\ \A t \in Sids : t # s => sess'[t] = sess[t]
    BY <1>2, <2>5, <2>8 DEF Types
  <2>12. \A t \in Sids : (sess'[t] # NoSession <=> Open(t)) /\ sess'[t].fd = sess[t].fd
    BY <2>1, <2>4, <2>5, <2>11 DEF Open, x
  <2>13. /\ FdInv' /\ fds' \in [Fds -> Files]
         /\ containers' \in [Pids -> Container \cup {NoContainer}]
    BY <1>4, <2>12
  <2>14. Types'
    BY <1>1, <1>2, <1>3, <2>10, <2>11, <2>13 DEF Types
  <2>15. ReapInv'
    BY <1>3, <2>5, <2>11 DEF AInv, ReapInv, Open
  <2>16. \A t \in Sids : Same(wire'[t], wire[t], t)
    BY <1>1 DEF Same
  <2>17. s < next_sess
    BY <2>1, Accepted
  <2>18. SessionInv(s, sess'[s], Of(ops', s), wire'[s], client'[s])
    BY <1>1, <2>9, <2>10, <2>11
  <2> QED BY <1>1, <2>10, <2>11, <2>13, <2>14, <2>15, <2>16, <2>17, <2>18, OneSession
<1> QED BY <1>5, <1>6 DEF reap_children

\* on_accept: a session begins with nothing on its stream.
LEMMA AcceptStep ==
  ASSUME AInv, on_accept
  PROVE  AInv'
<1> DEFINE s == next_sess
           f == LowestFd
           x == [fd |-> f, pid |-> 0, ptm |-> NoFd, input |-> NoFd,
                 log |-> FALSE, own |-> FALSE, child_exited |-> FALSE,
                 drain_done |-> FALSE, exit_sent |-> FALSE]
           o == StreamOp("read", s, f)
<1>1. /\ s <= MaxSess /\ FreeFds # {} /\ next_sess' = s + 1
      /\ fds' = [fds EXCEPT ![f] = Stream(s)]
      /\ sess' = [sess EXCEPT ![s] = x]
      /\ ops' = ops \cup {o}
      /\ client' = [client EXCEPT ![s] = "open"]
      /\ UNCHANGED <<containers, proc, wire>>
  BY DEF on_accept
<1>2. Types /\ FdInv
  BY DEF AInv
<1>3. s \in Sids /\ s \in Nat
  BY <1>1, <1>2, BoundsAssumption, MaxFdAssumption DEF Sids, Types
<1>4. f \in Fds /\ fds[f] = Free
  BY <1>1, LowestFree
<1>5. x \in Session /\ x.fd = f /\ x.pid = 0
      /\ ~x.child_exited /\ ~x.drain_done /\ ~x.exit_sent
  <2> HIDE DEF f
  <2> QED BY <1>4 DEF Session
<1>6. o \in Op /\ o.kind = "read" /\ o.s = s /\ o.fd = f /\ o.file = Queued
  BY <1>3, <1>4, NewOps DEF Kinds
<1>7. ~Open(s) /\ (\A q \in ops : q.s # s) /\ Own(wire[s], s) = {}
  BY <1>3 DEF AInv, FreshInv
<1>8. Stream(s) \in Files
  BY <1>3 DEF Files
<1> HIDE DEF s, f, x, o
<1>9. x # NoSession
  BY <1>5, SessionIsOpen
<1>10. /\ sess' \in [Sids -> Session \cup {NoSession}]
       /\ sess'[s] = x /\ \A t \in Sids : t # s => sess'[t] = sess[t]
  BY <1>1, <1>2, <1>3, <1>5 DEF Types
<1>11. /\ fds' \in [Fds -> Files]
       /\ fds'[f] = Stream(s) /\ \A g \in Fds : g # f => fds'[g] = fds[g]
  BY <1>1, <1>2, <1>4, <1>8 DEF Types
<1>12. /\ client' \in [Sids -> {"none", "open", "gone"}]
       /\ client'[s] = "open" /\ \A t \in Sids : t # s => client'[t] = client[t]
  BY <1>1, <1>2, <1>3 DEF Types
<1>13. /\ ops' \subseteq Op /\ Of(ops', s) = {o}
       /\ \A t \in Sids : t # s => Of(ops', t) = Of(ops, t)
  BY <1>1, <1>2, <1>6, <1>7 DEF Types, Of
<1>14. Types'
  <2>1. next_sess' \in Nat \ {0}
    BY <1>1, <1>3
  <2> QED BY <1>1, <1>2, <1>10, <1>11, <1>12, <1>13, <2>1 DEF Types
<1>15. FdInv'
  <2>1. (\A t \in Sids : Open(t) => fds[sess[t].fd] = Stream(t))'
    <3> SUFFICES ASSUME NEW t \in Sids, sess'[t] # NoSession
                 PROVE  fds'[sess'[t].fd] = Stream(t)
      BY DEF Open
    <3>1. CASE t = s
      BY <3>1, <1>5, <1>10, <1>11
    <3>2. CASE t # s
      <4>1. Open(t) /\ sess'[t] = sess[t]
        BY <3>2, <1>10 DEF Open
      <4>2. fds[sess[t].fd] = Stream(t)
        BY <4>1, <1>2 DEF FdInv
      <4>3. sess[t].fd \in Fds
        BY <4>1, Opened
      <4>4. sess[t].fd # f
        BY <4>2, <1>4, FilesApart
      <4> QED BY <4>1, <4>2, <4>3, <4>4, <1>11
    <3> QED BY <3>1, <3>2
  <2>2. (\A g \in Fds, t \in Sids : fds[g] = Stream(t) => Open(t) /\ g = sess[t].fd)'
    <3> SUFFICES ASSUME NEW g \in Fds, NEW t \in Sids, fds'[g] = Stream(t)
                 PROVE  sess'[t] # NoSession /\ g = sess'[t].fd
      BY DEF Open
    <3>1. CASE g = f
      <4>1. t = s
        BY <3>1, <1>11, FilesApart
      <4> QED BY <4>1, <3>1, <1>5, <1>9, <1>10
    <3>2. CASE g # f
      <4>1. fds[g] = Stream(t)
        BY <3>2, <1>11
      <4>2. Open(t) /\ g = sess[t].fd
        BY <4>1, <1>2 DEF FdInv
      <4>3. t # s
        BY <4>2, <1>7
      <4> QED BY <4>2, <4>3, <1>10 DEF Open
    <3> QED BY <3>1, <3>2
  <2>3. InputIsOwn'
    <3> SUFFICES ASSUME NEW p \in Pids, Listed(p), containers[p].input # NoFd
                 PROVE  fds'[containers[p].input] = Input(p)
      BY <1>1 DEF InputIsOwn, Listed
    <3>1. fds[containers[p].input] = Input(p)
      BY <1>2 DEF FdInv, InputIsOwn
    <3>2. containers[p] \in Container
      BY <1>2 DEF Types, Listed
    <3>3. containers[p].input \in Fds
      BY <3>2, ContainerListed
    <3>4. containers[p].input # f
      BY <3>1, <1>4, FilesApart
    <3> QED BY <3>1, <3>3, <3>4, <1>11
  <2> QED BY <2>1, <2>2, <2>3 DEF FdInv
<1>16. FreshInv'
  <2> SUFFICES ASSUME NEW t \in Sids, t >= next_sess'
               PROVE  /\ sess'[t] = NoSession
                      /\ \A q \in ops' : q.s # t
                      /\ Own(wire'[t], t) = {}
    BY DEF FreshInv, Open
  <2>1. t # s /\ t >= next_sess
    BY <1>1, <1>3, BoundsAssumption, MaxFdAssumption DEF Sids, s
  <2>2. ~Open(t) /\ (\A q \in ops : q.s # t) /\ Own(wire[t], t) = {}
    BY <2>1 DEF AInv, FreshInv
  <2> QED BY <2>1, <2>2, <1>1, <1>6, <1>10 DEF Open
<1>17. ReapInv'
  BY <1>1, <1>5, <1>10, KeepsReaped DEF Open
<1>18. SessionInv(s, x, {o}, wire[s], "open")
  <2>1. ~HeaderLast(wire[s], s) /\ ~HasExit(wire[s], s)
    BY <1>7 DEF HeaderLast, HasExit
  <2>2. OpsOf(s, x, {o})
    BY <1>5, <1>6 DEF OpsOf
  <2>3. UnservedOf(s, x, {o}, wire[s])
    BY <1>5, <1>6, <1>7 DEF UnservedOf
  <2>4. ExitOf(s, x, {o}, wire[s])
    BY <1>5, <1>6, <2>1 DEF ExitOf
  <2>5. FlowOf(s, x, {o}, wire[s], "open")
    BY <1>6, <2>1 DEF FlowOf
  <2>6. PastOf(s, wire[s])
    BY <1>3 DEF AInv, SessionInv
  <2> QED BY <2>2, <2>3, <2>4, <2>5, <2>6 DEF SessionInv
<1>19. \A t \in Sids : SessionInv(t, sess'[t], Of(ops', t), wire'[t], client'[t])
  <2> SUFFICES ASSUME NEW t \in Sids
               PROVE  SessionInv(t, sess'[t], Of(ops', t), wire'[t], client'[t])
    OBVIOUS
  <2>1. CASE t = s
    BY <2>1, <1>1, <1>10, <1>12, <1>13, <1>18
  <2>2. CASE t # s
    BY <2>2, <1>1, <1>10, <1>12, <1>13, Opened
  <2> QED BY <2>1, <2>2
<1> QED BY <1>14, <1>15, <1>16, <1>17, <1>19 DEF AInv, Mine

-----------------------------------------------------------------------------
(* The invariant, and the properties.                                      *)

\* No session, no container and no descriptor: the invariant holds.
LEMMA InvInit ==
  ASSUME SessionsInit
  PROVE  AInv
<1>1. /\ \A s \in Sids : sess[s] = NoSession /\ client[s] = "none" /\ wire[s] = <<>>
      /\ \A p \in Pids : containers[p] = NoContainer
      /\ \A f \in Fds : fds[f] = Free
      /\ ops = {}
  BY DEF SessionsInit
<1>2. Types
  <2>1. Free \in Files
    BY DEF Files
  <2>2. <<>> \in Seq(Kinds \X Sids)
    OBVIOUS
  <2> QED BY <2>1, <2>2 DEF SessionsInit, Types
<1>3. \A s \in Sids : ~Open(s)
  BY <1>1 DEF Open
<1>4. FdInv
  <2>1. \A p \in Pids : ~Listed(p)
    BY <1>1 DEF Listed
  <2>2. \A f \in Fds, s \in Sids : fds[f] # Stream(s)
    BY <1>1, FilesApart
  <2> QED BY <1>3, <2>1, <2>2 DEF FdInv, InputIsOwn
<1>5. \A s : Own(<<>>, s) = {}
  BY DEF Own
<1>6. FreshInv /\ ReapInv
  BY <1>1, <1>3, <1>5 DEF FreshInv, ReapInv
<1>7. \A s \in Sids : SessionInv(s, NoSession, {}, <<>>, "none")
  <2> SUFFICES ASSUME NEW s \in Sids
               PROVE  SessionInv(s, NoSession, {}, <<>>, "none")
    OBVIOUS
  <2>1. PastOf(s, <<>>) /\ ~HasExit(<<>>, s)
    BY <1>5 DEF PastOf, FramesWhole, ExitLast, HeadersPaid, HasExit
  <2> QED BY <2>1 DEF SessionInv, OpsOf, UnservedOf, ExitOf, FlowOf
<1>8. \A s \in Sids : Mine(s) = {}
  BY <1>1 DEF Mine, Of
<1> QED BY <1>1, <1>2, <1>4, <1>6, <1>7, <1>8 DEF AInv

\* Every step keeps the invariant.
LEMMA InvNext ==
  ASSUME AInv, [SessionsNext]_sessionVars
  PROVE  AInv'
<1>1. CASE UNCHANGED sessionVars
  <2>1. UNCHANGED <<sess, next_sess, containers, ops, fds, proc, client, wire>>
    BY <1>1 DEF sessionVars, daemonVars, worldVars
  <2>2. Types' /\ FdInv' /\ FreshInv' /\ ReapInv'
    BY <2>1 DEF AInv, Types, FdInv, FreshInv, ReapInv, Open, InputIsOwn, Listed
  <2>3. (\A s \in Sids : SessionInv(s, sess[s], Mine(s), wire[s], client[s]))'
    BY <2>1, Opened DEF Mine
  <2> QED BY <2>2, <2>3 DEF AInv
<1>2. CASE on_accept
  BY <1>2, AcceptStep
<1>3. ASSUME NEW s \in Sids,
             \/ \E p \in Pids : \/ \E pty \in BOOLEAN : handle_run_attach(s, p, pty)
                                \/ handle_attach(s, p)
             \/ RequestRefused(s)
             \/ SessionHangup(s)
             \/ Stale(s)
             \/ Disconnects(s)
      PROVE  AInv'
  BY <1>3, RunAttachStep, AttachStep, RefusedStep, HangupStep, StaleStep, DisconnectsStep
<1>4. CASE Submit
  BY <1>4, SubmitStep
<1>5. ASSUME NEW o \in ops, OpDone(o) \/ OutputFails(o) \/ ShortWrite(o)
      PROVE  AInv'
  BY <1>5, FrameStep, OutputDataStep, OutputEofStep, HeaderStep, PayloadStep,
     ShortWriteStep DEF OpDone
<1>6. ASSUME NEW p \in Pids,
             \/ \E i \in BOOLEAN : handle_run(p, i)
             \/ finish_drain(p)
             \/ reap_children(p)
             \/ Prints(p) \/ ClosesOutput(p) \/ Exits(p)
      PROVE  AInv'
  BY <1>6, RunStep, FinishDrainStep, ReapStep, WorldStep
<1> QED BY <1>1, <1>2, <1>3, <1>4, <1>5, <1>6 DEF SessionsNext

\* AInv is an invariant of the daemon without stdin frames.
LEMMA InvHolds == SessionsSpec => []AInv
BY InvInit, InvNext, PTL DEF SessionsSpec

\* The exit handshake: whichever of the end of the output and the reaper comes
\* last, the exit frame is written once, for a reaped child, and behind every
\* data frame of the session, on any stream and however descriptors are reused.
THEOREM ExitIsLast == SessionsSpec => []ExitFrameLast
<1>1. AInv => ExitFrameLast
  <2> SUFFICES ASSUME AInv
               PROVE  ExitFrameLast
    OBVIOUS
  <2>1. \A s \in Sids : ExitLast(wire[s], s)
    BY Opened DEF SessionInv, PastOf
  <2>2. ASSUME NEW o \in ops, o.kind = "exit", Open(o.s)
        PROVE  proc[sess[o.s].pid] = "reaped"
    <3>1. o.s \in Sids /\ o \in Of(ops, o.s)
      BY OpFacts
    <3>2. SessionInv(o.s, sess[o.s], Of(ops, o.s), wire[o.s], client[o.s])
      BY <3>1, Opened
    <3>3. sess[o.s].child_exited
      BY <2>2, <3>1, <3>2 DEF SessionInv, ExitOf, Open
    <3> QED BY <2>2, <3>1, <3>3 DEF AInv, ReapInv
  <2> QED BY <2>1, <2>2 DEF ExitFrameLast
<1> QED BY <1>1, InvHolds, PTL

\* The header and the payload of a data frame are two ops of one chain, and no
\* other op of the session, response, exit frame or next header, writes between.
THEOREM FramesStayWhole == SessionsSpec => []DataFramesWhole
<1>1. AInv => DataFramesWhole
  <2> SUFFICES ASSUME AInv, NEW s \in Sids
               PROVE  FramesWhole(wire[s], s)
    BY DEF DataFramesWhole
  <2>1. SessionInv(s, sess[s], Of(ops, s), wire[s], client[s])
    BY Opened
  <2> QED BY <2>1 DEF SessionInv, PastOf
<1> QED BY <1>1, InvHolds, PTL

=============================================================================
