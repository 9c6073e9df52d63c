# conrt: TLA+ verification project

conrt is a small container runtime: a command line client, a daemon that runs
and supervises containers, and `coio`, the single-threaded callback runtime the
daemon's event loop is written in. This directory holds TLA+ models of its core
logic, the TLC configurations that check them, and TLAPS proofs. `PROJECT.json`
maps every definition to the source lines it stands for; paths below are
relative to the repository root.

To check a run, `tlc -config X.cfg M`; to check the proofs of a component,
`tlapm XProofs.tla`, for each of the eight modules named so.

## 1. Inventory

| part | where | state | operations |
|---|---|---|---|
| callback runtime | `libs/coio-core/src/runtime.rs` | op slab, cancel slab, a free stack in each, in-flight counters, id counter | `register_op`, `cancel`, `drive`, `take_completion`, `complete_op`, `complete_cancel`, `drop` |
| buffer arena | same file | blocks, a free list per size class | `alloc`, `release`, `dispatch_shim` moving it aside |
| io_uring backend | `libs/coio-uring/src/uring.rs` | submission and completion queue, `user_data` encoding | `arm`, `cancel`, `wait`, `next_completion`, `begin_teardown` |
| readiness backend | `libs/coio-mio/src/mio.rs` | per-slot table of pending ops, poller registrations, events, ready queue | the same trait |
| buffer pools, borrow tracker | `libs/coio-uring/src/{pools,classes,buf*}.rs` | borrow count per slot, free stack (fixed), ring shared with the kernel (provided), the running runtime's generation | acquire, `clone`, `sub`, `split_at`, `into_mut`, `into_ref`, `set_len`, `cast`, drop; provided reads; start and teardown |
| typed I/O front end | `libs/coio*/src/io.rs`, `buf.rs`, `libs/coio/src` | none of its own | builds requests, erases types, calls the runtime |
| log cache and gateway | `libs/core/src/daemon.rs` | ring of bytes; follow pipes with a busy flag | `push`, `snapshot`, `collect_lines`, `complete_write` |
| containers | `daemon.rs` | `containers`, `log_graveyard`, `outputs`, drain counters, overlays, death pipes | `handle_run`, `handle_run_attach`, drains, `reap_children`, `finish_drain`, `handle_follow` |
| attach sessions | `daemon.rs` | `attach_sessions`, each with its exit handshake (`child_exited`, `drain_done`, `exit_sent`) and descriptors | accept, frames in, output relay, `maybe_finish_session`, `close_session` |
| frame protocol | `libs/core/src/lib.rs`, `daemon.rs` | a partial header or payload | `build_frame`, `read_frame`, `on_session_header`, `on_session_payload` |
| control datagrams, SIGCHLD | `daemon.rs` | one op in flight per loop | peek, receive, dispatch, answer, pass a descriptor; reap |
| launch, built-in init | `daemon.rs`, `interprocess.rs` | one-shot start signal, death pipe, signalfd, inherited descriptors | `clone3`, maps and signal, setup, exec or fork, forward signals, wait, die with the daemon |
| client | `src/main.rs` | terminal mode, reader thread, self-pipe, window size flag | request, relay stdin, print, exit code; `logs -f`, `kill`, `run` over datagrams |
| pty, sockets, system calls, C strings | `libs/sys`, `libs/cstring`, `libs/core/src/{pty,interprocess}.rs` | none | wrappers |

How they interact. Everything in the daemon runs on one thread. A callback gets
the runtime, changes `DaemonState`, and registers further ops; each long-lived
loop (accept, datagrams, SIGCHLD, a container's drain, a session's reader and
relay, a follow write) is a callback that re-arms its own next op. Between two
callbacks anything may happen outside: the kernel completes ops in any order,
containers print, close their output and exit, clients send and go away. An op
names its descriptor by number and its slot by index; both are recycled.

What is hard, and what each part has to get right:

* **Runtime.** An op's completion and its cancel's race each other; slots,
  cancel slots and buffer runs are recycled while requests naming them are
  still out; a backend may refuse a request after state was claimed; user code
  may panic at any callback. Right means: no slot handed out twice or lost,
  every local disposed of exactly once, every callback run once and in the
  documented order, and a loop that ends exactly when nothing is in flight.
* **Backends.** A completion carries a slot and no id. Right means: a
  completion or a cancel never reaches a later op in the same slot, and no op is
  left where nothing can complete it.
* **Log cache.** A ring that wraps, is exactly full, or meets a line of its own
  size. Right means: the newest lines that fit, whole and in order.
* **Pools.** Views are cloned, split, converted and dropped by several holders,
  may outlive their runtime, and slots go round through a ring whose 16-bit tail
  wraps. Right means: the count of a slot is what its views say, exclusive views
  never overlap, and no slot is handed out twice or lost.
* **Launch and init.** `clone3` copies every descriptor of the daemon into a child
  that may never exec; the daemon may die between any two steps; equal signals
  coalesce. Right means: containers die with the daemon and not before, and a
  command takes its container down with its own exit code.
* **Client.** Two threads share a stream, a pipe and a terminal. Right means: all
  output is printed before the client ends, and it ends with the container's code.
* **Loops.** Each re-arms itself over a queue that can refuse. Right means: every
  request is answered and every child reaped.
* **Frames.** A stream that cuts anywhere. Right means: the frames that were
  sent, in order, each handed on without waiting for the next.
* **Sessions and containers.** End of output and reaping come in either order;
  sessions, log pipes and the container's record share descriptors; writes are
  chains of ops on a number captured at the start. Right means: the exit frame
  is last, frames and lines are whole, every line is in the log, and everything
  ends and is closed.

The full list of hazards, with the lines where they bite and the properties
aimed at them, is in `PROJECT.json`.

## 2. Modules

| module | models | extends / uses |
|---|---|---|
| `OpContract` | what `register_op` and `cancel` promise, with no slots | |
| `Runtime` | the runtime over an arbitrary backend | refines `OpContract` |
| `RuntimeUring` | the runtime closed with the io_uring backend and the kernel | `Runtime` |
| `RuntimeMio` | the runtime closed with the readiness backend | `Runtime` |
| `RuntimeProofs` | theorems about the slabs, callbacks and locals of `Runtime`, refinement of `OpContract` | `Runtime`, TLAPS |
| `RuntimeBackendProofs` | theorems about both backends | `RuntimeUring`, `RuntimeMio`, `RuntimeProofs` |
| `BufArena` | erased caller buffers | |
| `BufPools` | the pooled buffers of the io_uring runtime and the views on them | |
| `BufPoolsProofs` | theorems about `BufPools` | `BufPools`, TLAPS |
| `LogCache` | the ring of log lines | |
| `StructuresProofs` | theorems about `BufArena` and `LogCache` | `BufArena`, `LogCache`, TLAPS |
| `MCStructures` | slabs, arena, log cache and containers in one run | `Runtime`, `BufArena`, `LogCache`, `Containers` |
| `FrameStream` | the two frame readers | |
| `AttachClient` | the attach client's two threads behind its reader | `FrameStream` |
| `AttachClientProofs` | theorems about `FrameStream` and `AttachClient` | `AttachClient`, TLAPS |
| `ControlLoops` | datagram and SIGCHLD loops, clients of the control socket | |
| `MCFrames` | payloads for an attach stream | `AttachClient` |
| `MCClients` | what daemon and clients wait for, in one run | `MCFrames`; instantiates `ControlLoops`, `AttachSessions`, `Containers` |
| `Descriptors` | the bound on descriptor numbers | |
| `AttachSessions` | sessions, the reaper's side of them, descriptor numbers | `Descriptors` |
| `AttachSessionsProofs` | theorems about `AttachSessions` without stdin frames | `AttachSessions`, TLAPS |
| `Containers` | runs, drains, followers, removal | `Descriptors` |
| `ContainersProofs` | theorems about `Containers` | `Containers`, TLAPS |
| `Launch` | `clone3`, the start signal, the built-in init, the daemon's death | |
| `LaunchProofs` | theorems about `Launch` | `Launch`, TLAPS |
| `MCRuntime` | the runtime over io_uring and the launch of containers, in one run | `RuntimeUring`, `Launch` |
| `MCHandles` | numbers that are given out again, in one run | `AttachSessions`, `RuntimeMio`, `BufPools` |

`MCRuntime`, `MCHandles`, `MCStructures` and `MCClients` put modules that share no state
into one run: a constant-valued variable `which` says whose behaviour it is, the others
stand still. The states are the sum of the parts', not the product. A module whose theorems
speak of a run's property is extended by the run's module; the others are instantiated, with
variables of their own.

Definitions named after a function are that function's effect; a comment names
the function otherwise. A `Mutant of X` is a plausible mistake in `X`: with it in
place of `X`, the property listed with it in `PROJECT.json` fails. Mutants take
part in no specification.

### Runtime

The two slabs are sequences of slots; the intrusive free lists are sequences
with the head last; `IoSlot.id = 0` is a free slot; the `CANCEL_PENDING` bit of
the slot's flags is a field. `at` says who has control: user code (`boot`, a cancel
callback, an op callback), the drain loop, the wait, or the end. A step is the
code between two such points, so the model has exactly the interleavings the
program has: a callback may register, cancel and return in any order and number.
`complete_op` is split where it calls the cancel callback, since that callback
can call back into the runtime while the op's slot is still live. `Drop`, panics
in user code and refused completions are modelled; locals are tracked by the id
of their owner in `disposed` and `twice`. The `issued`, `called`, ... variables
are history.

`Next` lets the backend report *any* completion at any time. Everything shown
here, and proved, is thus independent of backend and kernel.

### RuntimeUring, RuntimeMio

Each action is a conjunction of an action of `Runtime` and its effect on the
backend. The ring resolves nothing but slots: `id` and `meant` in requests are
history for the properties. All ops have the same class, the case in which
`user_data` distinguishes least. The kernel (external) consumes the queue in
order, performs requests in any order, and answers an `ASYNC_CANCEL` with
`-ENOENT`/`-EALREADY` or by stopping the op, with the two completions in either
order.

The readiness backend's poller is edge-triggered, as mio registers descriptors on Linux
(EPOLLET): `edges` has the descriptors the next wait reports, and a wait empties it. A
descriptor gets there when it becomes ready, once or again (`BecomesReady`, external);
`fired` says that it has at least once. A wait may report several, of which `event` keeps the
first: `next_completion` always looks at the first, and the next wait clears them all. The
others are lost, which is the finding `mio_lost_event`.

### BufArena

Blocks hold a buffer of an op, a link, or nothing; the size classes are a
constant (the model uses smaller ones). `lists` is the field `free`, the heads of the
free lists, which are threaded through the blocks. `dispatch_shim`'s move of the
arena is the variable `aside`.

### BufPools

Two slabs, fixed (a free stack, its top last) and provided (a ring of descriptors,
the tail the program keeps, the tail the kernel sees, the kernel's head). `borrows`
is the tracker's signed count: positive shared, negative exclusive. A view is what
`Ref`, `RefMut`, `Slice` and `SliceMut` differ in, shared or exclusive and the bytes
covered, with the generation it was made in; every conversion, `split_at`, `sub`,
`set_len` and drop is an action. A view of an earlier runtime is recognised by its
generation (`ACTIVE_GEN`) and drops without touching anything. An assertion that
would panic is an action that is not enabled. `BeginTeardown` drops reads in flight
and unread completions with the buffers they picked. `cast` is in `CastSpec` only,
because it is the finding `pools_cast`. Size classes are slabs of their own, one per
direction is modelled; choosing a class is a lookup in a constant table.

### LogCache

The code's four fields, and three histories: the lines pushed, their bytes (`output`)
and where in them each line ends (`upto`). A byte is identified by its line and position,
so the readers are compared with a reference, the longest suffix of the pushed
lines that fits. The loop that cuts lines off at newlines, in `push` to evict and in
`collect_lines` to read, is `Cut`, a recursive function over the number of
lines. `broken` is the size of a line no eviction made room for.

### FrameStream

Bytes, with frame lengths encoded in two of them as `build_frame` does (cut to
16 bits). `PayloadsAssumption` takes payloads that fit (`Fits`) and are not empty: all writers
hand `build_frame` what they read, into a buffer of 4096 bytes. `flying` is written and not
arrived, `wire` arrived and not read. The readers differ in what they ask for and in what
they do with an empty frame. A header may come in pieces and a frame may be empty at either
reader; the history `derailed` is set when the daemon's takes more than three bytes for a
header, or goes on to the payload of an empty frame, and from then on it reads on out of place, as the code
does. It closes the session on a type no client sends (`Closes`).

### AttachClient

The main thread asks, reads the answer and relays stdin, window sizes included; the
reader thread prints data frames, in pieces, and signals the end through the
self-pipe the main thread polls. Frames of the daemon come through `FrameStream`
byte by byte; the client's own frames are whole in `up`. Stdin may end
with a read of zero bytes, with an error, or never, and stdout may fail. A behaviour with `reader = "daemon"` has no client threads:
it is the daemon's reader on what a client sends, data and the empty StdinEof.

### ControlLoops

Each loop is the op it has in flight. Arming takes a queue entry, which the daemon's
other ops want too (`OthersArm`), and the result is ignored as in the code
(`let _ = ...`): a refused loop is in `over`. The peek/receive pair, its retry, an empty
datagram, a failed read of the signalfd, a follow whose descriptor cannot be passed,
and clients that leave are modelled. What a request does to containers is elsewhere.

### AttachSessions

An op in `ops` has the descriptor number it was armed with, the file the code
meant (`for`, used by properties) and the file the kernel found at submission
(`file`). The lowest free descriptor is handed out. A step is one callback.
The history `wire` has every frame with the session that wrote it; a property
about a session's stream looks at its `Own` frames, because a frame that met a
recycled number is on someone else's (the finding `attach_fd_reuse`).
`close_session` cancels the session's reads, which then come back to no session
(`Stale`); writes stay. Of a container's sessions the reaper tells one, chosen
freely because the code takes the first in a `HashMap`.

`OutputFails` is every other way an output ends: a read that fails with bytes unread (no
buffer was left, say), and bytes for which no header can be queued (`daemon.rs:3050`). The
drain of a detached container may fail as well, so `finish_drain` may come while the output is
open. `SessionsSpec` has no stdin frames, `StdinSpec` has them.

Abstractions: frames arrive whole (`FrameStream` has the rest); a client sends
one request; window size frames are left out, they change no state; a detached
container has one drain (two in `Containers`); the
response, the first frame on an empty socket, is written whole; two equal stdin
writes of one session in flight at once count as one; the read end of a log pipe
is never closed by the code and needs no number; the two arms inside a frame whose result is
ignored (`let _ = write_fixed`, `daemon.rs:3078`, `:3098`) succeed.

### Containers

Output comes in half lines, the second half carrying the newline, so that reads cut
lines and follow writes cut them again (`WRITE_CHUNK_PAYLOAD`, short writes). `taken`
counts half lines read; what a drain keeps of an incomplete line is its parity.
The containers in `Attached` have no drains and are listed for `logs -f` only. A follow write is armed on
the number its pipe had; the history `strayed` has the pipes a write meant for a closed
one went to. The log keeps every line (the ring is `LogCache`'s). Kill is `Exits`; `logs` and
`List` only read. Pids are not reused. A drain ends at the end of its output (`OutputEnds`) or
with a failed read (`OutputReadFails`, the `Err` arms of `on_container_output` and
`on_container_pty_output`), which leaves bytes unread and the writer with a closed pipe:
`failed` has these outputs. Re-arming a drain's read always succeeds (`daemon.rs:2007`,
`:2031` ignore a refusal, after which the container would stay for ever).

### Launch

`holds` is, for the daemon and every process of a container, the set of write ends it
has open: of death pipes, and of one stdin or follow pipe per container. `clone3` copies
the daemon's set, `exec` empties it (all are CLOEXEC), the built-in init forks and
never execs. `Started` and `Aborted` are the two ends of
`parent_setup_maps_and_signal`; a run is listed "detached" (it has drains, and
`finish_drain` removes it) or "attached" (the reaper does). A child may exit before it waits for
its signal (`ExitsEarly`, `daemon.rs:1643`). `finish_drain` may come
while the container runs. The signalfd is a set, so equal signals merge. `Dies` closes
all the daemon had open, at any step. Overlays, mounts and maps succeed or fail as a
whole. The kernel's rules (a PID 1 takes its namespace along, a pipe without writers is at its end)
are built into `Ends` and `Held`.

## 3. Runs

Runs that are expected to pass:

| run | cfg | checks | shows |
|---|---|---|---|
| `runtime` | `MCRuntime.cfg` | `OneRequestPerOp CancelHitsItsTarget CancelledWereStopped LoopEnds` (io_uring), `WriteEndsHeldLater NoInitKilledEarly ContainersDieWithDaemon CommandEndsContainer` (launch) | although a completion has no id, none reaches a later op in its slot, no cancel stops another op, and the loop ends; inits die with the daemon although later ones hold the write ends of earlier ones, and not before; a command takes its container down with its code |
| `handles` | `MCHandles.cfg` | `ExitFrameLast DataFramesWhole` (sessions), `MioHoldsEveryOp MioCancelRunsDone` (readiness backend), `BorrowsMatchViews ExclusiveDisjoint SlotsAccounted` (pools) | two sessions on a container with everything but stdin frames racing: frames stay whole and the exit frame is last; every op is held once by the backend, stale events find nothing, accepted cancels run their callback; counts match views over two runtimes, exclusive views are disjoint, every slot is in one place although the tail wraps |
| `structures` | `MCStructures.cfg` | `SlabInv PendingInv OpConserved CancelledIffDone LocalOnce NoLeak QuiescentEnd ImplementsContract` (runtime), `RunsTileArena BuffersComeBack` (arena), `ReadsNewestLines PushFindsRoom` (log), `DrainsCounted LogIsComplete FollowedInOrder HeldWhileRunning` (containers) | whatever the backend reports, slots and marks are exact, every op is called once, locals leave once and none leaks, and the runtime refines `OpContract`, with panics anywhere in user code; runs never overlap and none is lost, a shim gets its op's buffers; both log readers return the newest lines that fit; drains, failed reads, followers and the reaper in every order, with a second container's follower on the descriptor of the first's |
| `clients` | `MCClients.cfg` | `FramesInOrder EveryFrameHandedOn` (both readers), `OutputBeforeStatus ExitCodePropagated` (client), `EveryoneServed` (loops), `SessionEnds` (one session with stdin), `ContainerRemoved` (one container) | frames survive any cut at the client, and at the daemon until one of the two known ways derails it; the client prints everything and ends with the container's code wherever its threads are; requests are answered and children reaped unless the queue refused the loop; a session ends after its container, and an exited container is removed |

The type invariants of `Runtime`, `Launch` and `BufPools` are proved (section 4) and not run.

Runs that find the code at odds with one of its own comments or docs (the quoted
line and the argument are under `findings`):

| run | property | what happens |
|---|---|---|
| `uring_stale_cancel` | `WonCancelRunsDone` | the late `-ENOENT` of one cancel drops another cancel that got its slot; that one wins and its callback never runs |
| `mio_lost_event` | `MioDriveStops` | of two descriptors that become ready before one wait the second's event is dropped and not repeated; `drive` waits for ever |
| `daemon_header_split` | `ShortHeadersResume` | after a short header read the daemon asks for three bytes again; what it reads past the header is lost, and the payload is read out of place |
| `daemon_empty_frame` | `EmptyFrameHandedOn` | the daemon asks for a byte of an empty frame's payload: the client's StdinEof is held back, and with a frame behind it the byte is taken from that one |
| `attach_stdin_eof` | `InputIsOwn` | a StdinEof frame of an attached session closes the descriptor the container's record names and leaves the number there; the next descriptor takes it |
| `attach_fd_reuse` | `WritesReachTheirFile` | a frame armed before `close_session` goes to whoever has the number next |
| `containers_last_line` | `LastLineDelivered` | the last drain closes a follow pipe in the middle of a line |
| `pools_cast` | `ExclusiveDisjoint` | `cast` lets the base it copied drop, which releases the borrow of the view it returns; the slot is handed out again under it |

### What the passing runs except

Some properties hold only with an exception, which is part of the property or a
constant of the run. Each was seen to fail without it:

* `LocalOnce` excepts the op whose cancel callback panics. `complete_op` has
  copied its local out of a slot that stays live, so the unwinding drops it and
  `Drop` drops it again (`runtime.rs:875`, against the comment at `:90`).
* The readiness backend's loop is not shown to end: it may not (`mio_lost_event`). That
  run leaves out a second way, so that the first is what it finds: when a syscall reports
  EAGAIN, `take_pending` has detached the descriptor and only the table entry is put
  back (`mio.rs:199`, whose comment says "already registered").
* `structures` has `BufferedInCallback = FALSE`, as in the daemon. With `TRUE`,
  `dispatch_shim` overwrites the arena in which a callback's ops have put their
  buffers, and `BuffersComeBack` fails (`runtime.rs:632`, doc at `:605`).
* `PushFindsRoom` excepts lines that need more bytes than the ring has; `push`
  has no guard for them (`daemon.rs:311`).
* `handles` has `GrowsHalves = FALSE`: `set_len` may grow a view to the end of its
  slot, also the head of a split whose tail is another view (`buf.rs:500`). With
  `TRUE`, `ExclusiveDisjoint` fails. The daemon never splits.
* `SlotsAccounted` counts a provided slot as `lost` when its read ends with an error
  after the kernel picked a buffer: the shim then does not look at the flags
  (`coio-uring/src/io.rs:580`). The property says there is no other way to lose one.
* `FramesInOrder` and `EveryFrameHandedOn` except a `derailed` reader, which only the daemon's
  can be: a header read that takes in bytes past the header (`daemon.rs:2394`), or an empty
  frame (`daemon.rs:2417`). Headers in pieces and empty frames do occur at it in the run; the
  findings `daemon_header_split` and `daemon_empty_frame` are about them, and the
  properties say that nothing else derails it.
* `EveryoneServed` excepts a loop, or a follower's descriptor, whose op the queue
  refused, and a reaper whose signalfd read failed. It shows that nothing else ends them.
* `ExitCodePropagated` excepts a client whose own stdout fails.
* `SessionEnds` is checked with one session. With two on a container the reaper tells only
  one of them and the other never ends (`daemon.rs:728`).
* `handles` leaves stdin frames out (`SessionsNext`, not `NextStdin`), because a StdinEof frees a
  number the record still names (`attach_stdin_eof`). `SessionEnds` has them.
* `LogIsComplete` asks for every line of an output that was read to its end. An output in `failed`
  is in the log up to the read that failed (`daemon.rs:2020`, `:2083`).
* `FollowedInOrder` excepts pipes in `strayed`: `finish_drain` closes a follow pipe under
  a write, the chunks left are armed on the saved number (`daemon.rs:1873-1900`), and
  land in the pipe that has the number by then. The finding `containers_last_line` is about
  the same write from the side of the pipe it was meant for.
* `HeldWhileRunning` asks for the overlay only while an output is open whose reads did not
  fail: a container that closes its outputs, or whose reads all failed, is removed, overlay
  included, while it runs (`daemon.rs:1965`). `finish_drain` leaves the death pipe open for
  good (`daemon.rs:1976`); closing it there would kill such a container.

### Bounds, and why they are enough

* `MaxId = 5` (runtime and backends): ids are shared by ops and cancels. Five
  give two ops with a cancel each and a fifth that recycles either kind of slot
  while both cancels are under way: the shortest history with a stale cancel
  slot needs two ops and two cancels. `RingEntries = 2` makes the queue refuse.
* `Classes = <<1, 2, 4>>`, four ops of up to three buffers: a run of each class
  is released and taken again, with slack in the largest.
* `Cap = 5` with lines of 0, 1, 2 and 4 bytes (and 5, too long) and six of them:
  the ring wraps, is exactly full, and evicts several lines at once.
* Two frames of up to three bytes, cut anywhere: header and payload each arrive in one
  to three pieces, with the next frame behind. Some payloads look like headers, so that a reader
  out of place finds frames in them.
* Two slots per slab, two bytes per slot, two views, two reads in flight, a tail modulo
  4 and generations up to 3: a slot is shared, split and exclusive in turn, the ring is
  full and empty, its tail wraps twice, and a view of the first runtime is dropped in
  the second. Views are interchangeable (`SYMMETRY`).
* For the client: one data frame of two bytes, so that it is printed in two writes, and
  the exit frame, one chunk of stdin and one resize: each can come at any point of the
  other thread.
* Two clients, two children, `Entries = 3` (the least with which `boot` arms its three
  loops): requests queue up, signals coalesce, the queue refuses.
* `MaxCont = 2`: a later container with the write ends of an earlier one. The theorems
  of section 4 cover any number; `ContainersDieWithDaemon` follows the order of the
  containers, newest first, and two are the least that have one.
* Two sessions, one container, three descriptors, one chunk of output: enough
  for a data frame to be under way while a session closes and its number is
  given to the next. A second container adds no
  interaction that a second session does not.
* Four half lines per container over two outputs, two containers of which the second is
  only attached, two follow pipes over one descriptor: a line is cut, meets a line of
  the other drain, and the second follower gets the first one's number.
  `containers_last_line` has one container and one pipe; `clients` two half
  lines and one pipe, since only the order of the ends matters to `ContainerRemoved`.

In `runtime`, `handles` and `structures` TLC checks deadlock. The parts that may simply stop,
because all sessions are served or all lines printed, have the stutter `Rests`; the runtime
has none before `dropped`, so a completion its handlers do not take would show. `clients` has
`CHECK_DEADLOCK FALSE`: all its parts may come to rest.

### Fairness

* `LoopEnds`, `MioDriveStops`: the drive loop does not stop by itself, callbacks return, the
  kernel consumes what was submitted and completes every request it
  has (the contract in `backend.rs`); for mio, every watched descriptor becomes ready once,
  sooner or later. User code is never forced to register or cancel, and a wait is never
  forced to fail. Ids are bounded, so user code runs out of things to do.
  In `runtime` this fairness is a premise of `LoopEnds`: in the specification it would also
  bind the behaviours of the launch, where the runtime stands still before its program begins.
* `EveryFrameHandedOn`, `ExitCodePropagated`: bytes written arrive, a reader with bytes
  reads, the scheduler runs both threads of the client, a write to stdout returns.
* `EveryoneServed`: the ring is submitted, a signalfd with a signal is read, a send
  completes. A receive on a socket that holds a datagram may fail any number of
  times and is retried, so it is strongly fair that it succeeds.
* `ContainersDieWithDaemon`, `CommandEndsContainer`: processes run. A child goes on
  when its read returns, a fork execs, an init whose poll has something to show looks
  at it. Nobody is forced to send a signal, and no command to end.
* `SessionEnds`, `ContainerRemoved`: the ring is submitted (every pass of `drive`
  ends in `submit_and_wait`), reads with data or at their end complete, writes
  to an open peer complete, SIGCHLD is read. No read is forced to fail. Clients and containers are never
  forced to do anything, and a short write is never forced.

## 4. Proofs

Every theorem has the form `Spec => []P` (or the refinement), proved from an inductive
invariant, with one lemma per action. TLC checked the property on the run's
instance first. Nothing depends on the bounds of section 3. Where a run
fixes a constant to what the daemon does (section 3), the theorem has that as a hypothesis,
named below.

The provers here cannot use the library's induction theorems, whose premise is
an operator. Where an induction is needed, over the length of a sequence or down a
linked list, it is stated over a set: the counterexamples are a set of numbers, which has a least
element because `<` is well-founded on them (`UpTo`, `LeastOf`).

### The slabs (`RuntimeProofs`)

`RuntimeProofs` proves, for every `MaxId` and every `PanicIn` (`MaxIdAssumption`,
`PanicInAssumption`: a natural number, a set of user code points) and for every
backend, since `Next` lets any completion arrive:

| theorem | property | |
|---|---|---|
| `TypeCorrect` | `TypeOK` | in particular neither unsigned counter underflows |
| `SlabsExact` | `SlabInv` | free stacks hold exactly the free slots, each once; counters count the rest |
| `MarksMatchCancels` | `PendingInv` | marks and live cancel slots correspond one to one |
| `DriveEndsQuiescent` | `QuiescentEnd` | the loop ends by itself only with all slots free |

None of the four is inductive by itself. The inductive invariant `IInv` is

* `Types`: `TypeOK` without the signs of the counters, which follow from `SlabInv`;
* `SlabInv`: needed by every allocation;
* `MarkInv`: a free slot is unmarked; without it a new op could start marked;
* `CurInv`: while a cancel callback runs, `complete_op`'s op is live, marked, and
  has its id; without it `CancelCbReturn` could free a slot twice. The callback
  itself runs `RegisterOp`, `Cancel` and the rest in between;
* `CancelTargets`, `OneCancelEach`, `MarksHaveCancels`: `PendingInv` by conjunct;
* `HandleInv`: no handle has the id 0, so that `cancel` never takes a free slot for an op.

The argument: lemmas about a slab and its free stack in general (`AllocOK`,
`FreeOK`, `KeepOK`, `RefusedOK`) say what one allocation, release or rewrite does
to `FreeStackOK` and to all other slots; both slabs use them. `SlabStep` packages
that, and one lemma per action derives the invariant from it. `StackLength` is the
pigeonhole argument (`FS_PigeonHole`) that
a free stack is no longer than its slab, and as long only when all slots are free:
it gives the signs of the counters, and the quiescent end.

### Callbacks and locals (`RuntimeProofs`)

Under the same assumptions:

| theorem | property | |
|---|---|---|
| `NoOpLost` | `OpConserved` | a handed-out op is live or called, never both |
| `CancelledExactly` | `CancelledIffDone` | Cancelled exactly after the cancel callback |
| `LocalsLeaveOnce` | `LocalOnce` | no local leaves twice, with the exception of section 3 |
| `NothingLeaks` | `NoLeak` | after `Drop` every local is gone |
| `RuntimeImplementsContract` | `ImplementsContract` | every step is a step or a stutter of `OpContract` |

Here a slab is only the set of the handles of its live slots; five lemmas (`LiveAdd`,
`LiveRemove`, `LiveKeep`, ...) say what a slab step does to that set, and `IInv` supplies
their premises. The invariant `HInv` adds: `IdInv`, a live id was given out, to one op or
one cancel only (without it a called id could come alive again); `IssuedInv`, handles and
live ops have unique ids; `CallInv`, the one op between its cancel callback and its own
callback is `cur`; `LocalInv`, a local that has left is of no live slot but `cur`'s while a
panic unwinds. The refinement maps `live` to the ids of the live handles; the initial
state maps to the initial state, and `ContractStep` has a case for each action.

### The backends (`RuntimeBackendProofs`)

For every `RingEntries` (`UringSpec`), and for the readiness backend (`MioSpec`):

| theorem | property | |
|---|---|---|
| `RequestsMatchOps` | `OneRequestPerOp` | one request or completion per live op |
| `CancelsHitTheirTarget` | `CancelHitsItsTarget` | no cancel meets another op in its slot |
| `OnlyStoppedAreCancelled` | `CancelledWereStopped` | Cancelled only for an op the kernel stopped |
| `MioHoldsOpsOnce` | `MioHoldsEveryOp` | table and queue hold every op once, and nothing else |
| `MioWinnersRunDone` | `MioCancelRunsDone` | an accepted cancel runs its callback |

Both stand on `IInv /\ HInv`, since a step of the closed system is a step of `Runtime`.
`RingInv` says in `PlaceInv` that the handles in the submission queue, in the kernel
and in the completion queue split the live ops, minus `cur`, without overlap and without
repetition. This is what makes up for the missing id: a completion's slot is live, so
its op is the one in the slot. `CancelHitsItsTarget` is part of the
invariant, because an op's slot can be given out again only after its completion left the
queue; `SubmitInv` keeps a flush from happening with an empty queue, `UnwindInv` covers
`Drop` in the middle of `complete_op`. `MioInv` is the same split over slots (`HoldInv`),
plus: what is still in the table was not cancelled (`WonInv`).

### Pools (`BufPoolsProofs`)

For every number of slots, slot size, set of views and number of runtimes:

| theorem | property | |
|---|---|---|
| `PoolsTypeCorrect` | `PoolsTypeOK` | |
| `BorrowsCountViews` | `BorrowsMatchViews` | the signed count is exact |
| `ExclusiveViewsDisjoint` | `ExclusiveDisjoint` | under `GrowsHalves = FALSE`, as in the run |
| `SlotsAreAccounted` | `SlotsAccounted` | every slot is in one place: free, in the ring, picked, lost or borrowed |

`PoolInv` is types with the bounds of a view's bytes, the count and disjointness.
Disjointness is not inductive without the count: a count of -1 is what says that the
view about to grow is alone. Every change of a view adds a holder to a slot, takes one
away, or turns a sole holder; a lemma for each (`OneMore`, `OneLess`, ...) says what it does to
the cardinalities, and an action's proof says which one it is. `split_at` is the one
that makes two views out of one.

`SlotInv` is about where slots are. The entries between the kernel's head and the
tail are the ring positions from `head` on, `Ahead` of them, modulo `RingCount`, while
the tail itself wraps at another modulus, a multiple of it; lemmas on remainders relate the
two (`AheadMoves`, `EntryMoves`). `RingInv`: these entries hold different slots, and a slot is in
exactly one of ring, `selected`, `lost` and borrowed. A slot on its way back is thus not in the
ring, which leaves a position for it: that is why `recycle` overwrites nothing.

### Arena (`StructuresProofs`)

For every table of size classes (`ClassesAssumption`), any lengths, and any number of ops:

| theorem | property | |
|---|---|---|
| `RunsDoTile` | `RunsTileArena` | runs in use and free runs do not meet and make up the arena |
| `BuffersDoComeBack` | `BuffersComeBack` | a shim gets its op's buffers, from a slice within the arena |

Both under `BufferedInCallback = FALSE`, as in the daemon and in the run. The invariant
`ArenaInv` reads the free lists as stacks `Q`, one per class, which exist although the
arena has no such variable: `Stacked`, the links in the blocks spell out the stacks;
`Tiled`, the runs of ops and stacks split the blocks; `Owned`, a run has one user and is on no
stack; `Holding`, an op's blocks hold its buffers. None is inductive alone: an allocation
takes a run nobody uses because the links are intact, and the links are intact because writes go to
runs that do not meet the free ones. `ListIsStack` shows that following the
links, as `OnList` does, gives the stack, by an induction down the list.

### Log cache (`StructuresProofs`)

For every capacity (`CapAssumption`) and all line lengths (`LineLensAssumption`):

| theorem | property | |
|---|---|---|
| `NewestLinesAreRead` | `ReadsNewestLines` | both readers return the newest lines that fit, whole and in order |
| `PushDoesFindRoom` | `PushFindsRoom` | only a line longer than the ring finds no room |

The ring is described by the distance `k` of a byte from `start`, place `At(start, k)`: a
wrap is then a matter of remainders only (`AtAt`, `AtOnce`). `LogInv` says that
for some `o` the ring `Keeps(o)`: byte `k` is that of the history, `upto[o]` further on, up to
`end`, and line `o` no longer fits with the rest. Newlines are met exactly at the ends of
kept lines, so `CutAt` gives the n-th cut: line `o + n`. A step keeps `LogInv` because an
eviction stops at the first line with room (`DropsAre`), and what is written behind the rest
overwrites free places only (`Written`). `CutIs` shows, by an induction, that the
recursive function of `Cut` exists; its equation is all the rest uses. The readers then follow from
`Keeps(o)` in any state: `CollectsThem` by cuts, `SnapshotIs` by the two slices.

### Containers (`ContainersProofs`)

| theorem | property | |
|---|---|---|
| `DrainsAreCounted` | `DrainsCounted` | `drains_pending` is the number of running drains |
| `RunningKeepsItsOwn` | `HeldWhileRunning` | death pipe to the end, overlay while an output is drained |
| `RemovedWhenRead` | `NothingUnread` | out of the map only when every output was read to its end, or a read of it failed |
| `LogsAreComplete` | `LogIsComplete` | every whole line read is in the log once, each output's in order; when the container is gone, that is all it printed on outputs that did not fail |
| `FollowersReadInOrder` | `FollowedInOrder` | a follower is sent whole lines, in the log's order |

For any containers, outputs of any length, any number of pipes and descriptors. `CInv` adds what a removal relies on: a process writes only
to outputs with a running drain or a failed one (`WriterInv`), an output with neither is read
to its end (`ReadInv`), and only a run lists a container (`NewInv`). Failed reads take part like any
other end of a drain: without `failed` in them both would be false.

`FInv`, proved next to it, is about lines. `LogInv`: the log holds of each output the lines
up to what was read, in order, before as after the move to the graveyard. `PipesInv`: a listed
follower's descriptor is its pipe's. `WritesInv`: there is at most one write to a pipe, on
the follower's own number, and the busy flag says so. `FlowInv`: what a pipe has, followed by what
the write under way still brings, is a series of whole lines whose positions in the log
increase. `FlowInv` leaves out `strayed` pipes, as the property does: with them it is false.

### Attach sessions (`AttachSessionsProofs`)

For every number of sessions, containers and descriptors (`BoundsAssumption`, `MaxFdAssumption`,
`PidsAssumption`: the id 0 is no container), for `SessionsSpec`, that is without stdin frames:

| theorem | property | |
|---|---|---|
| `ExitIsLast` | `ExitFrameLast` | the exit frame is sent once, after the reaper and behind whole frames |
| `FramesStayWhole` | `DataFramesWhole` | header and payload are adjacent |

`FdInv` says the table and the daemon agree: an open session's number is its stream's,
and no other number is. It gives that an op of an open session
meets its own stream when submitted, while one queued before `close_session` never does.
The rest is per session: `SessionInv(s, x, M, w, c)` speaks of one record, its ops, its
stream and its client, so that a callback is a constant-level lemma (`Settling`,
`HeaderWritten`, `Refusing`, ...) and `OneSession` carries the others over. Its parts: at
most one output, header or payload op per session, the token (`OpsOf`); a session not yet
served has written nothing (`UnservedOf`); a drained session has no token, and an exit
frame, written or queued, means it is drained and reaped (`ExitOf`); an op that can still
reach the stream finds it at the end of a frame, except the payload, which finds its header
last (`FlowOf`). That a response is written before what follows it (`Turn`) is used once, for the
header. `LowestIn`, that the lowest of some descriptors is one of them, is proved from the
well-foundedness of the strict subsets of a finite set.

### Frames and the client (`AttachClientProofs`)

For payloads of any bytes and any length that fits a header, cut anywhere:

| theorem | property | |
|---|---|---|
| `FramesComeInOrder` | `FramesInOrder` | frames handed on are the first of those sent, at either reader, until it is derailed |
| `ClientFramesComeInOrder` | | the same of the client's reader without exception: it is never derailed |
| `OutputComesFirst` | `OutputBeforeStatus` | the client ends with the container's code only when all its output is on stdout |

The stream is described by position: `B[n]` is where the n-th frame ends, and `Carries` says that each
byte under way is the byte the frame around it has there. `StreamInv` then is: the frames handed
on are a prefix (`Handed`); what is in the accumulator is how the next frame
begins (`Held`); the stream ends with a whole frame unless the writer left in the middle
of one (`Extends`, `Bounded`). All this is claimed of a reader that is not derailed, with
the addition that only the daemon's ever is: short header reads and empty frames are cases
of the proof, in which the step either keeps the reader in place or derails it. A read takes from the front of `wire`, so positions stay, and a finished payload moves
`Where` to `B[n + 1]`.

`ClientInv`: the exit frame is the last one sent, with the container's code (`ExitLast`); what is
printed and what is left to print make up the data of the frames handled (`Relayed`); the
reader thread is over, or the main thread ended, either with a failure or after all of it
(`Threads`). It uses `Handed` for the frame the thread takes next, and that the data of a prefix
extends by the next frame's, which is an induction.

### Launch (`LaunchProofs`)

`LaunchProofs` proves, for every number of containers and every set of wait statuses
(`LaunchAssumption`), of `LaunchSpec`:

| theorem | property | |
|---|---|---|
| `LaunchTypeCorrect` | `LaunchTypeOK` | exit codes included: `exit_code` stays within a byte |
| `OnlyLaterHold` | `WriteEndsHeldLater` | a container's write ends are with the daemon and later containers only |
| `InitsLiveWithDaemon` | `NoInitKilledEarly` | while the daemon is up it holds the death pipe of every running init |

`WriteEndsHeldLater` says nothing of the daemon, whose set the next child inherits:
`Later` adds that all it holds belongs to containers cloned before. Steps that only close
descriptors preserve it for one reason (`Shrinks`, `LaterShrinks`); `clone3` and the
init's fork are the two that copy, and have a lemma each.
`NoInitKilledEarly` needs more history: `Kept` says that the signal of the container
being launched is unsent, that a process past its wait was signalled (so `Aborted`
never takes the pipe of a running one), that an init is one because it was asked for, and
that the daemon holds the death pipe of every container it neither refused nor saw
dead. Process steps preserve it for one reason (`KeepsGoing`), closing handlers for
another (`KeptCloses`).

### Only model-checked, and why

* All liveness (`LoopEnds`, `EveryFrameHandedOn`, `ExitCodePropagated`, `EveryoneServed`,
  `ContainersDieWithDaemon`, `CommandEndsContainer`, `SessionEnds`, `ContainerRemoved`): the
  prover has no fairness and no `ENABLED`.
* `ControlLoops` has one property, a liveness one; `AttachSessions` with stdin frames
  (`NextStdin`) is checked in `clients`, the theorems are about it without them.

## 5. Not modelled, and why

* **Typed front end**, apart from provided reads and `submit`: builds requests and
  erases types; its state is the runtime's, and pointer arithmetic is out of reach.
* **Namespaces, mounts, uid maps, overlays**: system calls that succeed or fail; a run
  with `net_pid` moves the daemon itself into another container's namespaces
  (`daemon.rs:943`), which no module can see. **Argument parsing and printing.**
* **Pty, sockets, system calls, C strings**: thin wrappers and conversions.
* **Pid reuse** (a Kill between reaping and the last drain, `daemon.rs:1366`), a **second
  request** on a session, what a refused run leaves behind on error paths
  (`daemon.rs:909`), the zombies an init inherits, a blocking `sendto` to a client that does not read
  (`daemon.rs:1412`).
* **Refused arms** inside a chain of ops: a drain's next read (`daemon.rs:2007`, `:2031`) and the
  rest of a session's frame (`daemon.rs:3078`, `:3098`) ignore the result. `ControlLoops` has the
  refusals of its loops, `OutputFails` that of a frame's header.
* **Pool exhaustion in the daemon** (`pool_alloc` panics): `BufPools` stops at an empty
  stack; which caller meets it depends on payload lengths the daemon's modules leave out.
* `session_is_exit` looks at the session and not at the frame that completed
  (`daemon.rs:2302`): `AttachSessions` takes the response to be written whole at submission.
* Payloads past 65535 bytes: the cut to 16 bits is in `build_frame`, the size is out of reach.
* In a release build `bytes` wraps where a checked build panics (`LogCache`):
  both set `broken`.

## 6. Plan

1. Done: models of the runtime, both backends, arena, pools, log cache, frames, client, control
   loops, sessions, containers, launch and init.
2. Done: theorems about `Runtime`, its refinement of `OpContract`, `RuntimeUring`, `RuntimeMio`,
   `BufArena`, `BufPools`, `LogCache`, `FrameStream`, `AttachClient`, `Containers`,
   `AttachSessions` and `Launch`: every safety property of the passing runs.
3. Next: the stdin frames of `MCClients` in `AttachSessionsProofs`; the refused arms of section 5.
