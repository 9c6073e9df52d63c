---------------------------- MODULE FrameStream ----------------------------
(***************************************************************************)
(* One direction of an attach stream: frames of a type byte, a u16 length  *)
(* and a payload, cut out of a byte stream by one of the two readers of    *)
(* the program.                                                            *)
(*                                                                         *)
(*   "client"  read_frame in libs/core/src/lib.rs, a blocking loop;        *)
(*   "daemon"  on_session_header and on_session_payload in                 *)
(*             libs/core/src/daemon.rs, one read op after another.         *)
(*                                                                         *)
(* A read returns what has arrived, up to the size it asks for.  Bytes     *)
(* arrive as the writer and the socket cut them.  AttachClient puts the    *)
(* client's two threads behind the reader, and gives both ends their       *)
(* fairness.                                                               *)
(***************************************************************************)
EXTENDS Integers, Sequences, SequencesExt

CONSTANTS Payloads,   \* what a data frame of a client may hold, as bytes
          MaxFrames   \* bound on the frames sent

\* A payload whose length fits its two bytes.  Data comes from reads of 4096
\* bytes at most.
Fits(payload) == payload \in Seq(0..255) /\ Len(payload) < 65536

ASSUME PayloadsAssumption == \A p \in Payloads : Fits(p) /\ p # <<>>

VARIABLES reader,  \* which reader: "client" or "daemon"
          sent,    \* the frames written so far, each a type and a payload
          closed,  \* the writer has closed its end
          flying,  \* bytes written that have not arrived
          wire,    \* bytes that have arrived and were not read
          stage,   \* what the reader is reading
          acc,     \* bytes read at this stage
          need,    \* type and length of the frame, at the payload stage
          got,     \* the frames handed on
          derailed \* history: the reader went past the end of a header

streamVars == <<reader, sent, closed, flying, wire, stage, acc, need, got, derailed>>

\* Type bytes of the protocol.
RunResponse == 1
ExitFrame == 2
Data == 16
StdinEof == 17
WinSize == 32
NoNeed == [ty |-> 0, len |-> 0]

StreamInit ==
  /\ reader \in {"client", "daemon"}
  /\ sent = <<>> /\ closed = FALSE /\ flying = <<>> /\ wire = <<>>
  /\ stage = "header" /\ acc = <<>> /\ need = NoNeed
  /\ got = <<>> /\ derailed = FALSE

\* build_frame: the length is cut to 16 bits, low byte first.
build_frame(ty, payload) ==
  <<ty, Len(payload) % 256, (Len(payload) \div 256) % 256>> \o payload

\* u16::from_le_bytes of a header's length bytes.
frame_len(header) == header[2] + 256 * header[3]

\* send_frame, arm_session_frame: a frame is written to its end, unless the
\* reader has closed the stream.
SendFrame(ty, payload) ==
  /\ ~closed /\ stage # "closed"
  /\ Len(sent) < MaxFrames
  /\ sent' = Append(sent, <<ty, payload>>)
  /\ flying' = flying \o build_frame(ty, payload)
  /\ UNCHANGED <<reader, closed, wire, stage, acc, need, got, derailed>>

\* The writer closes its end, in the middle of a frame perhaps: a short write
\* was not followed by another, or the process died.
Close(torn) ==
  /\ ~closed
  /\ closed' = TRUE
  /\ flying' = flying \o torn
  /\ UNCHANGED <<reader, sent, wire, stage, acc, need, got, derailed>>

\* Some bytes arrive.
Arrive(k) ==
  /\ wire' = wire \o SubSeq(flying, 1, k)
  /\ flying' = SubSeq(flying, k + 1, Len(flying))
  /\ UNCHANGED <<reader, sent, closed, stage, acc, need, got, derailed>>

-----------------------------------------------------------------------------
(* The readers.                                                            *)

Smaller(a, b) == IF a < b THEN a ELSE b
Larger(a, b) == IF a < b THEN b ELSE a

\* How many bytes the next header read asks for: the daemon's asks for a whole
\* header again when it goes on with one.
HeaderAsk == IF reader = "daemon" THEN 3 ELSE 3 - Len(acc)

\* Mutant of PayloadAsk: a payload that is gone on with is asked for whole again.
PayloadAskAgain == IF reader = "daemon" THEN Larger(need.len, 1) ELSE need.len

\* How many bytes the next payload read asks for.
PayloadAsk ==
  IF reader = "daemon" THEN Larger(need.len - Len(acc), 1) ELSE need.len - Len(acc)

\* The bytes a read that asks for n returns.
Bytes(n) == SubSeq(wire, 1, Smaller(n, Len(wire)))

Consume(bytes) ==
  /\ wire' = SubSeq(wire, Len(bytes) + 1, Len(wire))
  /\ UNCHANGED <<reader, sent, closed, flying>>

\* A header read that leaves the header incomplete.
ReadHeaderShort ==
  LET b == Bytes(HeaderAsk) IN
  /\ stage = "header" /\ wire # <<>>
  /\ Len(acc) + Len(b) < 3
  /\ acc' = acc \o b
  /\ Consume(b)
  /\ UNCHANGED <<stage, need, got, derailed>>

\* Three bytes are there, or more, of which the first three count.  The client
\* returns an empty frame at once; the daemon always goes on to a payload read.
HeaderDone(header) ==
  LET empty == reader = "client" /\ frame_len(header) = 0 IN
  /\ need' = IF empty THEN NoNeed ELSE [ty |-> header[1], len |-> frame_len(header)]
  /\ acc' = <<>>
  /\ stage' = IF empty THEN "header" ELSE "payload"
  /\ got' = IF empty THEN Append(got, <<header[1], <<>>>>) ELSE got
  /\ derailed' = (derailed \/ Len(header) > 3 \/ (frame_len(header) = 0 /\ ~empty))

ReadHeader ==
  LET b == Bytes(HeaderAsk) IN
  /\ stage = "header" /\ wire # <<>>
  /\ Len(acc) + Len(b) >= 3
  /\ HeaderDone(acc \o b)
  /\ Consume(b)

\* A payload read that leaves the payload incomplete.
ReadPayloadShort ==
  LET b == Bytes(PayloadAsk) IN
  /\ stage = "payload" /\ wire # <<>>
  /\ Len(acc) + Len(b) < need.len
  /\ acc' = acc \o b
  /\ Consume(b)
  /\ UNCHANGED <<stage, need, got, derailed>>

\* dispatch_frame closes the session on a type no client sends in it.
Closes(ty) == reader = "daemon" /\ ty \notin {Data, StdinEof, WinSize}

\* Mutant of PayloadDone: only the last read's bytes are handed on.
PayloadDoneLastRead(bytes) ==
  /\ got' = Append(got, <<need.ty, bytes>>)
  /\ acc' = <<>> /\ need' = NoNeed
  /\ stage' = IF Closes(need.ty) THEN "closed" ELSE "header"
  /\ UNCHANGED derailed

\* The payload is complete: the frame is handed on and the next header read
\* is armed.
PayloadDone(bytes) ==
  /\ got' = Append(got, <<need.ty, acc \o bytes>>)
  /\ acc' = <<>> /\ need' = NoNeed
  /\ stage' = IF Closes(need.ty) THEN "closed" ELSE "header"
  /\ UNCHANGED derailed

ReadPayload ==
  LET b == Bytes(PayloadAsk) IN
  /\ stage = "payload" /\ wire # <<>>
  /\ Len(acc) + Len(b) >= need.len
  /\ PayloadDone(b)
  /\ Consume(b)

\* A read of no bytes: the client's read_frame fails, the daemon closes the
\* session; what there is of a frame is dropped.
ReadEof ==
  /\ stage # "closed" /\ closed /\ wire = <<>> /\ flying = <<>>
  /\ stage' = "closed"
  /\ acc' = <<>> /\ need' = NoNeed
  /\ UNCHANGED <<reader, sent, closed, flying, wire, got, derailed>>

Read ==
  ReadHeaderShort \/ ReadHeader \/ ReadPayloadShort \/ ReadPayload \/ ReadEof

-----------------------------------------------------------------------------
(* Properties.                                                             *)

\* However the stream is cut into reads, the client's reader hands on the
\* frames that were sent, whole, in order, and nothing else.  So does the
\* daemon's, split headers included, until it takes more than three bytes for a
\* header or meets an empty frame: these two ways, and no other, derail it.
FramesInOrder == derailed \/ IsPrefix(got, sent)

\* "Short read: keep accumulating until the 3-byte header is complete."
\* (on_session_header, daemon.rs:2387): without empty frames the daemon's
\* reader would then hand on what was sent.  The code asks for three bytes
\* again, and what it reads past the header is lost.
ShortHeadersResume ==
  reader = "daemon" /\ (\A i \in DOMAIN sent : sent[i][2] # <<>>) => IsPrefix(got, sent)

\* "A zero-length frame carries no payload" (on_session_payload,
\* daemon.rs:2479): the client's empty StdinEof would then be handed on as it
\* is.  The code waits for a byte of payload, which no one sends.
EmptyFrameHandedOn ==
  (reader = "daemon" /\ sent = <<<<StdinEof, <<>>>>>>) ~> (got = sent \/ closed)
=============================================================================
