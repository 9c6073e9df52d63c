------------------------------ MODULE LogCache ------------------------------
(***************************************************************************)
(* The ring of \n-delimited lines that keeps a container's last output     *)
(* (LogCache in libs/core/src/daemon.rs), and the two ways it is read:     *)
(* snapshot for a follower's backlog, collect_lines for a plain `logs`.    *)
(***************************************************************************)
EXTENDS Integers, Sequences, FiniteSetsExt

CONSTANTS Cap,       \* LOG_CAPACITY
          LineLens,  \* lengths of the lines a container may print
          MaxLines   \* bound on the lines pushed

ASSUME CapAssumption == Cap \in Nat \ {0}
ASSUME LineLensAssumption == LineLens \subseteq Nat

VARIABLES buf, start, end, bytes,  \* the fields of LogCache
          broken,                  \* bytes push could not make room for, or 0
          pushed,                  \* history: the lines pushed, oldest first
          output,                  \* history: their bytes, newlines included
          upto                     \* history: upto[n] bytes are the first n lines

logVars == <<buf, start, end, bytes, broken, pushed, output, upto>>

\* Bytes: a newline, the zero of a fresh buffer, or the k-th byte of line n.
NL == <<"nl">>
Zero == <<"zero">>
Line(n, len) == [k \in 1..len |-> <<n, k>>]

LogInit ==
  /\ buf = [i \in 0..(Cap - 1) |-> Zero]
  /\ start = 0 /\ end = 0 /\ bytes = 0
  /\ broken = 0
  /\ pushed = <<>> /\ output = <<>> /\ upto = [n \in {0} |-> 0]

-----------------------------------------------------------------------------
\* The newlines the inner loops of push and collect_lines can stop at, by
\* distance from s.  They scan the whole buffer, whether or not a byte is still
\* part of a line.
Newlines(s) == {k \in 0..(Cap - 1) : buf[(s + k) % Cap] = NL}

\* Bytes up to the first of them.
line_bytes(s) == Min(Newlines(s)) + 1

\* Where the n-th line after start begins, and the bytes left from there.
Cut ==
  LET cut[n \in 0..Cap] ==
        IF n = 0 THEN [start |-> start, bytes |-> bytes]
        ELSE LET e == cut[n - 1] IN
             IF Newlines(e.start) = {} THEN e
             ELSE [start |-> (e.start + line_bytes(e.start)) % Cap,
                   bytes |-> e.bytes - line_bytes(e.start)]
  IN cut

\* Mutant of Drops: a line that would fill the ring exactly does not fit.
DropsStrict(need) ==
  {n \in 0..Cap : Cut[n].bytes >= 0 /\ Cap - Cut[n].bytes > need}

\* The numbers of dropped lines after which `need` bytes are free.
Drops(need) ==
  {n \in 0..Cap : Cut[n].bytes >= 0 /\ Cap - Cut[n].bytes >= need}

\* push of a line that can be made room for.
Push(len) ==
  LET need == len + 1
      line == Line(Len(pushed) + 1, len)
      text == Append(line, NL)
  IN
  /\ broken = 0 /\ Len(pushed) < MaxLines
  /\ Drops(need) # {}
  /\ LET e == Cut[Min(Drops(need))] IN
     /\ start' = e.start
     /\ bytes' = e.bytes + need
  /\ buf' = [i \in DOMAIN buf |->
               IF \E k \in 1..need : i = (end + k - 1) % Cap
               THEN text[CHOOSE k \in 1..need : i = (end + k - 1) % Cap]
               ELSE buf[i]]
  /\ end' = (end + need) % Cap
  /\ pushed' = Append(pushed, line)
  /\ output' = output \o text
  /\ upto' = [n \in 0..(Len(pushed) + 1) |->
                IF n \in DOMAIN upto THEN upto[n] ELSE Len(output) + need]
  /\ UNCHANGED broken

\* push of a line no eviction makes room for.  With the ring empty the loop
\* goes on evicting: at a newline left in the buffer `bytes` underflows (a
\* panic in a checked build, a corrupt count in a release one), and without
\* one the scan never ends.
PushTooLong(len) ==
  /\ broken = 0 /\ Len(pushed) < MaxLines
  /\ Drops(len + 1) = {}
  /\ broken' = len + 1
  /\ UNCHANGED <<buf, start, end, bytes, pushed, output, upto>>

LogNext ==
  \/ \E len \in LineLens : Push(len)
  \/ \E len \in LineLens : PushTooLong(len)

LogSpec == LogInit /\ [][LogNext]_logVars

-----------------------------------------------------------------------------
(* Reading.                                                                *)

\* buf[a..b], b excluded.
Slice(a, b) == [k \in 1..(b - a) |-> buf[a + k - 1]]

\* Mutant of snapshot: a full ring is taken for an empty one.
snapshotFullIsEmpty ==
  IF start = end THEN <<>>
  ELSE IF end > start THEN Slice(start, end)
  ELSE Slice(start, Cap) \o Slice(0, end)

snapshot ==
  IF bytes = 0 THEN <<>>
  ELSE IF end > start THEN Slice(start, end)
  ELSE Slice(start, Cap) \o Slice(0, end)

\* collect_lines cuts lines off until no byte remains.
collect_lines ==
  LET lines == Min({n \in 0..Cap : Cut[n].bytes = 0})
      from(j) == Cut[j - 1].start
  IN [j \in 1..lines |->
        [k \in 1..(line_bytes(from(j)) - 1) |-> buf[(from(j) + k - 1) % Cap]]]

-----------------------------------------------------------------------------
(* Properties.                                                             *)

\* The reference: of all that was pushed, the longest suffix of whole lines
\* that fits begins after this many lines.
Oldest == Min({n \in 0..Len(pushed) : Len(output) - upto[n] <= Cap})

\* Drop-oldest-on-full, across every wrap of the ring: a `logs` client reads
\* the newest lines that fit, whole and in order, and no line is dropped that
\* there was room for.  A follower's backlog is the same lines, byte for byte,
\* even when the ring is exactly full and start meets end.
ReadsNewestLines ==
  broken = 0 =>
    /\ collect_lines = SubSeq(pushed, Oldest + 1, Len(pushed))
    /\ snapshot = SubSeq(output, upto[Oldest] + 1, Len(output))

\* push finds room for every line the ring can hold with its newline, an
\* exactly full ring included: it fails only on a longer line.
PushFindsRoom == broken # 0 => broken > Cap
=============================================================================
