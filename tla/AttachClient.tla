---------------------------- MODULE AttachClient ----------------------------
(***************************************************************************)
(* The client of an attach stream: run_attach and attach_container in      *)
(* src/main.rs.  The main thread asks, reads the answer, spawns a reader   *)
(* thread and relays stdin; the reader prints what the daemon sends and    *)
(* signals the end through a pipe the main thread polls.                   *)
(*                                                                         *)
(* The daemon's frames come through FrameStream, byte by byte, to whichever*)
(* thread reads the stream; the client's own frames are whole in `up`.     *)
(* attach_container is the case of a terminal left alone.  A behaviour     *)
(* with reader = "daemon" has no client: it is the daemon's reader.        *)
(***************************************************************************)
EXTENDS FrameStream

CONSTANTS Outputs,    \* what a data frame of the daemon may hold
          ExitCodes,  \* exit codes a container may end with
          MaxIn,      \* bound on the chunks stdin holds
          MaxWinch    \* bound on the resizes of the terminal

ASSUME ClientAssumption ==
  /\ ExitCodes \subseteq 0..255
  /\ \A p \in Outputs : Fits(p) /\ p # <<>>
  /\ {MaxIn, MaxWinch} \subseteq Nat

VARIABLES
  main,     \* where the main thread is
  thread,   \* where the reader thread is
  handled,  \* frames of `got` dealt with
  rest,     \* bytes of a data frame still to print
  printed,  \* bytes written to stdout
  code,     \* what the reader thread returns
  status,   \* the client's exit status
  notify,   \* the self-pipe: "empty", "signalled", or its read end "closed"
  stdin,    \* chunks left on stdin, and how it ends
  tty,      \* the terminal: "raw" with a SIGWINCH handler, or "cooked"
  winch,    \* WINCH_PENDING
  resizes,  \* resizes so far
  up        \* types of the frames sent to the daemon

threadVars == <<thread, handled, rest, printed, code>>
mainVars == <<main, status, tty, winch, resizes, stdin, up>>
vars == <<streamVars, threadVars, mainVars, notify>>

Unset == -1
Failure == 1
RunRequest == 0

\* How stdin ends: with a read of zero bytes or EIO, with another error, or
\* with no POLLIN: it stays open, or is a pipe whose writer is gone, for which
\* poll reports POLLHUP alone and the loop goes round.
StdinEnds == {"eof", "error", "silent"}
Readable == stdin.left > 0 \/ stdin.end # "silent"

Init ==
  /\ StreamInit
  /\ main = (IF reader = "client" THEN "connecting" ELSE "absent")
  /\ stdin \in (IF reader = "client" THEN [left : {MaxIn}, end : StdinEnds]
                                     ELSE {[left |-> 0, end |-> "silent"]})
  /\ thread = "none" /\ handled = 0 /\ rest = <<>> /\ printed = <<>>
  /\ code = Unset /\ status = Unset
  /\ notify = "empty" /\ tty = "cooked" /\ winch = FALSE /\ resizes = 0
  /\ up = <<>>

-----------------------------------------------------------------------------
(* The daemon's end, as AttachSessions has it: an answer, then data frames, *)
(* then the exit frame; the stream may be cut short anywhere.               *)

Ok == <<1>>
Refused == <<0>>

Follows(ty, payload) ==
  IF sent = <<>> THEN ty = RunResponse /\ payload \in {Ok, Refused}
  ELSE /\ sent[1] = <<RunResponse, Ok>>
       /\ sent[Len(sent)][1] # ExitFrame
       /\ \/ ty = Data /\ payload \in Outputs
          \/ ty = ExitFrame /\ payload \in {<<c>> : c \in ExitCodes}

DaemonSends(ty, payload) ==
  /\ reader = "client" /\ up # <<>>
  /\ Follows(ty, payload)
  /\ SendFrame(ty, payload)
  /\ UNCHANGED <<threadVars, mainVars, notify>>

DaemonCloses ==
  /\ reader = "client" /\ up # <<>>
  /\ \E torn \in {<<>>, <<Data, 2>>, <<Data, 2, 0, 0>>} : Close(torn)
  /\ UNCHANGED <<threadVars, mainVars, notify>>

Arrives ==
  /\ \E k \in 1..Len(flying) : Arrive(k)
  /\ UNCHANGED <<threadVars, mainVars, notify>>

\* The frames a client sends to the daemon's reader: chunks of its stdin, and
\* the end of it.
ClientSends(ty, payload) ==
  /\ reader = "daemon"
  /\ SendFrame(ty, payload)
  /\ UNCHANGED <<threadVars, mainVars, notify>>

ClientCloses ==
  /\ reader = "daemon"
  /\ Close(<<>>)
  /\ UNCHANGED <<threadVars, mainVars, notify>>

-----------------------------------------------------------------------------
(* The request.                                                            *)

Ends(s) == main' = "ended" /\ status' = s

\* send_frame on the client's stream; a stream the daemon has closed fails.
Sends(frames) == up' = up \o frames
SendsIgnoring(frames) == up' = IF closed THEN up ELSE up \o frames

\* Connect and send the request, or fail to.
Request ==
  /\ main = "connecting"
  /\ \/ Sends(<<RunRequest>>) /\ main' = "asking" /\ UNCHANGED status
     \/ Ends(Failure) /\ UNCHANGED up
  /\ UNCHANGED <<streamVars, threadVars, notify, stdin, tty, winch, resizes>>

\* read_frame goes on, for the thread that called it.
Reading == main \in {"asking", "absent"} \/ thread = "reading"
ReadStream ==
  /\ Reading /\ (reader = "client" => Len(got) = handled)
  /\ Read
  /\ UNCHANGED <<threadVars, mainVars, notify>>

\* read_frame has returned a frame, or an error.
HasFrame == reader = "client" /\ Len(got) > handled
Frame == got[handled + 1]
Failed == stage = "closed" /\ ~HasFrame

\* The answer is not the one hoped for, or none.
RequestFails ==
  /\ main = "asking"
  /\ Failed \/ (HasFrame /\ Frame # <<RunResponse, Ok>>)
  /\ Ends(Failure)
  /\ UNCHANGED <<streamVars, threadVars, notify, stdin, tty, winch, resizes, up>>

\* The container runs: the terminal is set up, the reader thread spawned.  A
\* terminal that only loses its echo is like one left alone.
StartRelay ==
  /\ main = "asking" /\ HasFrame /\ Frame = <<RunResponse, Ok>>
  /\ handled' = handled + 1
  /\ tty' \in {"raw", "cooked"}
  /\ IF tty' = "raw" THEN SendsIgnoring(<<WinSize>>) ELSE UNCHANGED up
  /\ main' = "polling" /\ thread' = "reading"
  /\ UNCHANGED <<streamVars, rest, printed, code, status, notify, stdin, winch, resizes>>

-----------------------------------------------------------------------------
(* The reader thread.                                                      *)

\* Mutant of Done: closing the pipe is thought to be signal enough; poll then
\* reports POLLHUP without POLLIN.
DoneCloses(c) ==
  /\ thread' = "over" /\ code' = c
  /\ UNCHANGED notify

\* The closure `done`: a byte for the main thread, unless it has closed its
\* end of the pipe, and the thread is over.
Done(c) ==
  /\ thread' = "over" /\ code' = c
  /\ notify' = IF notify = "closed" THEN notify ELSE "signalled"

\* A frame that ends the thread, or the end of the stream.
Verdict == IF HasFrame /\ Frame[1] = ExitFrame /\ Frame[2] # <<>>
           THEN Frame[2][1] ELSE Failure
ThreadEnds ==
  /\ thread = "reading"
  /\ Failed \/ (HasFrame /\ Frame[1] # Data)
  /\ Done(Verdict)
  /\ UNCHANGED <<streamVars, mainVars, handled, rest, printed>>

TakeData ==
  /\ thread = "reading" /\ HasFrame /\ Frame[1] = Data
  /\ handled' = handled + 1
  /\ thread' = "printing" /\ rest' = Frame[2]
  /\ UNCHANGED <<streamVars, mainVars, notify, printed, code>>

\* One write to stdout, of some of the rest.
WriteStdout ==
  /\ thread = "printing" /\ rest # <<>>
  /\ \E n \in 1..Len(rest) : /\ printed' = printed \o SubSeq(rest, 1, n)
                             /\ rest' = SubSeq(rest, n + 1, Len(rest))
  /\ UNCHANGED <<streamVars, mainVars, notify, thread, handled, code>>

StdoutFails ==
  /\ thread = "printing" /\ rest # <<>>
  /\ Done(Failure)
  /\ UNCHANGED <<streamVars, mainVars, handled, rest, printed>>

Written ==
  /\ thread = "printing" /\ rest = <<>>
  /\ thread' = "reading"
  /\ UNCHANGED <<streamVars, mainVars, notify, handled, rest, printed, code>>

ReaderThread == ThreadEnds \/ TakeData \/ WriteStdout \/ Written

-----------------------------------------------------------------------------
(* The main thread.                                                        *)

\* The loop is left: the pipe's read end is closed, the terminal restored.
Leave == main' = "joining" /\ notify' = "closed" /\ tty' = "cooked"

\* poll reports the reader's signal, or fails.
PollEnds ==
  /\ main = "polling"
  /\ notify = "signalled"
  /\ Leave
  /\ UNCHANGED <<streamVars, threadVars, status, winch, resizes, stdin, up>>

PollFails ==
  /\ main = "polling"
  /\ Leave
  /\ UNCHANGED <<streamVars, threadVars, status, winch, resizes, stdin, up>>

\* poll reports stdin and not the pipe.
PollStdin ==
  /\ main = "polling" /\ notify = "empty" /\ Readable
  /\ main' = "reading"
  /\ UNCHANGED <<streamVars, threadVars, notify, status, tty, winch, resizes, stdin, up>>

\* A chunk from stdin is sent on.
RelayStdin ==
  /\ main = "reading" /\ stdin.left > 0
  /\ stdin' = [stdin EXCEPT !.left = @ - 1]
  /\ \/ /\ ~closed
        /\ Sends(<<Data>>) /\ main' = "polling"
        /\ UNCHANGED <<notify, tty>>
     \/ closed /\ Leave /\ UNCHANGED up
  /\ UNCHANGED <<streamVars, threadVars, status, winch, resizes>>

\* The end of stdin, or an error.
StdinEnded ==
  /\ main = "reading" /\ stdin.left = 0
  /\ IF stdin.end = "eof" THEN SendsIgnoring(<<StdinEof>>) ELSE UNCHANGED up
  /\ Leave
  /\ UNCHANGED <<streamVars, threadVars, status, winch, resizes, stdin>>

\* SIGWINCH.  It interrupts the main thread's poll, if that is where it is.
Resize ==
  /\ tty = "raw" /\ main \in {"polling", "reading", "interrupted"}
  /\ resizes < MaxWinch
  /\ resizes' = resizes + 1
  /\ winch' = TRUE
  /\ \/ UNCHANGED main
     \/ main = "polling" /\ main' = "interrupted"
  /\ UNCHANGED <<streamVars, threadVars, notify, status, tty, stdin, up>>

\* EINTR
Interrupted ==
  /\ main = "interrupted"
  /\ winch' = FALSE
  /\ IF winch THEN SendsIgnoring(<<WinSize>>) ELSE UNCHANGED up
  /\ main' = "polling"
  /\ UNCHANGED <<streamVars, threadVars, notify, status, tty, resizes, stdin>>

\* Mutant of Join: the thread's result is taken as it is.
JoinAtOnce ==
  /\ main = "joining"
  /\ Ends(code % 256)
  /\ UNCHANGED <<streamVars, threadVars, notify, tty, winch, resizes, stdin, up>>

\* reader_handle.join() and `code as u8`.
Join ==
  /\ main = "joining" /\ thread = "over"
  /\ Ends(code % 256)
  /\ UNCHANGED <<streamVars, threadVars, notify, tty, winch, resizes, stdin, up>>

MainThread ==
  \/ RequestFails \/ StartRelay
  \/ PollEnds \/ PollStdin \/ RelayStdin \/ StdinEnded
  \/ Interrupted
  \/ Join

Next ==
  \/ \E ty \in {RunResponse, Data, ExitFrame},
        p \in Outputs \union {Ok, Refused} \union {<<c>> : c \in ExitCodes} :
       DaemonSends(ty, p)
  \/ DaemonCloses
  \/ \E p \in Payloads : ClientSends(Data, p)
  \/ ClientSends(StdinEof, <<>>)
  \/ ClientCloses
  \/ Arrives
  \/ ReadStream
  \/ Request
  \/ ReaderThread \/ StdoutFails
  \/ MainThread \/ PollFails \/ Resize

Spec == Init /\ [][Next]_vars

\* Bytes written arrive, the scheduler runs both threads, a write to stdout
\* returns.  The daemon, the user and the terminal are not forced to act.
Fairness ==
  /\ WF_vars(Arrives) /\ WF_vars(ReadStream)
  /\ WF_vars(ReaderThread) /\ WF_vars(MainThread)

FairSpec == Spec /\ Fairness

-----------------------------------------------------------------------------
(* Properties.                                                             *)

\* Every frame sent is handed on in the end, without waiting for another, by
\* the daemon's reader until it is derailed and by the client's until it has
\* given up on the stream.
EveryFrameHandedOn ==
  []<>(got = sent \/ derailed \/ thread = "over" \/ main = "ended")

\* The bytes of the data frames of a sequence of frames.
Output(frames) ==
  FlattenSeq([k \in DOMAIN frames |-> IF frames[k][1] = Data THEN frames[k][2] ELSE <<>>])

\* What is on stdout is what the container printed, in order, and a client
\* that ends with the container's code has printed all of it: the code is
\* another frame, so no relayed byte may still be on its way.
OutputBeforeStatus ==
  /\ IsPrefix(printed, Output(sent))
  /\ main = "ended" =>
       \/ /\ sent # <<>> /\ sent[Len(sent)][1] = ExitFrame
          /\ status = sent[Len(sent)][2][1]
          /\ printed = Output(sent)
       \/ status = Failure

\* Once the exit frame is on the stream the client ends, with that code unless
\* its own stdout failed, wherever its two threads are and whatever stdin does.
ExitCodePropagated ==
  \A c \in ExitCodes :
    (sent # <<>> /\ sent[Len(sent)] = <<ExitFrame, <<c>>>>)
      ~> (main = "ended" /\ (status = c \/ (status = Failure /\ rest # <<>>)))
=============================================================================
