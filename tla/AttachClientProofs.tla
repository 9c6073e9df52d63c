------------------------- MODULE AttachClientProofs -------------------------
(***************************************************************************)
(* Proofs about both frame readers and about the client behind one of      *)
(* them, for payloads of any bytes and any length that fits a header.      *)
(*                                                                         *)
(* The bytes under way are described by position: B[n] is where the n-th   *)
(* frame ends in the stream, and each byte not yet read is the byte the    *)
(* frame around it has there.                                              *)
(***************************************************************************)
EXTENDS AttachClient, SequenceTheorems, WellFoundedInduction, TLAPS

-----------------------------------------------------------------------------
(* Induction up to n, over a set.                                          *)

\* A set that has 0 and, below n, the successor of what it has.
LEMMA UpTo ==
  ASSUME NEW n \in Nat, NEW T, 0 \in T,
         \A k \in 0..n : k \in T /\ k < n => k + 1 \in T
  PROVE  \A k \in 0..n : k \in T
<1> SUFFICES ASSUME NEW k \in 0..n, k \notin T PROVE FALSE
  OBVIOUS
<1> DEFINE out == {j \in 0..n : j \notin T}
           R == OpToRel(<, Nat)
<1>1. IsWellFoundedOn(R, Nat)
  BY NatLessThanWellFounded
<1>2. \A x, y \in Nat : x < y => <<x, y>> \in R
  BY DEF OpToRel
<1>3. out \subseteq Nat /\ out # {}
  OBVIOUS
<1> HIDE DEF R, out
<1>4. PICK x \in out : \A y \in out : ~(<<y, x>> \in R)
  BY <1>1, <1>3, WFMin
<1>5. x \in 0..n /\ x \notin T
  BY DEF out
<1>6. x # 0 /\ x - 1 \in 0..n /\ x - 1 < n /\ x - 1 < x
  BY <1>5
<1>7. x - 1 \notin out
  <2>1. x \in Nat /\ x - 1 \in Nat
    BY <1>5, <1>6
  <2> QED BY <1>2, <1>4, <1>6, <2>1
<1>8. x - 1 \in T
  BY <1>6, <1>7 DEF out
<1>9. (x - 1) + 1 = x
  BY <1>5
<1> QED BY <1>5, <1>6, <1>8, <1>9

-----------------------------------------------------------------------------
(* Concatenation.                                                          *)

\* f has the concatenations of the first members of s, as FlattenSeq's local
\* function is defined.
Joins(f, s) == f = [i \in 1..Len(s) |-> IF i = 1 THEN s[i] ELSE f[i - 1] \o s[i]]

\* The same for the first k of them.
JoinsTo(f, s, k) == f = [i \in 1..k |-> IF i = 1 THEN s[i] ELSE f[i - 1] \o s[i]]

\* There is such a function, one value after the other.
LEMMA JoinsExist ==
  ASSUME NEW s, Len(s) \in Nat
  PROVE  \E f : Joins(f, s)
<1> DEFINE n == Len(s)
           T == {k \in 0..n : \E f : JoinsTo(f, s, k)}
<1>1. 0 \in T
  <2> DEFINE e == [i \in 1..0 |-> s[i]]
             h == [i \in 1..0 |-> IF i = 1 THEN s[i] ELSE e[i - 1] \o s[i]]
  <2>1. e = h
    <3>1. \A i \in 1..0 : e[i] = h[i]
      OBVIOUS
    <3> QED BY <3>1
  <2>2. JoinsTo(e, s, 0)
    BY <2>1 DEF JoinsTo
  <2> QED BY <2>2
<1>2. ASSUME NEW k \in 0..n, k \in T, k < n PROVE k + 1 \in T
  <2>1. PICK f : JoinsTo(f, s, k)
    BY <1>2
  <2> DEFINE next == IF k = 0 THEN s[k + 1] ELSE f[k] \o s[k + 1]
             g == [i \in 1..(k + 1) |-> IF i = k + 1 THEN next ELSE f[i]]
             h == [i \in 1..(k + 1) |-> IF i = 1 THEN s[i] ELSE g[i - 1] \o s[i]]
  <2>2. ASSUME NEW i \in 1..(k + 1) PROVE g[i] = h[i]
    <3>1. CASE i = k + 1
      <4>1. g[i] = next
        BY <3>1
      <4>2. CASE k = 0
        BY <3>1, <4>1, <4>2
      <4>3. CASE k # 0
        <5>1. i # 1 /\ i - 1 = k /\ k \in 1..(k + 1) /\ k # k + 1
          BY <3>1, <4>3
        <5>2. g[k] = f[k]
          BY <5>1
        <5>3. next = f[k] \o s[i]
          BY <3>1, <4>3
        <5>4. h[i] = g[k] \o s[i]
          BY <5>1
        <5> HIDE DEF g, h, next
        <5> QED BY <4>1, <5>2, <5>3, <5>4
      <4> QED BY <4>2, <4>3
    <3>2. CASE i # k + 1
      <4>1. i \in 1..k
        BY <3>2
      <4>2. g[i] = f[i]
        BY <3>2
      <4>3. f[i] = IF i = 1 THEN s[i] ELSE f[i - 1] \o s[i]
        BY <2>1, <4>1 DEF JoinsTo
      <4>4. i # 1 => g[i - 1] = f[i - 1]
        BY <4>1
      <4>5. h[i] = IF i = 1 THEN s[i] ELSE g[i - 1] \o s[i]
        OBVIOUS
      <4> HIDE DEF g, h
      <4> QED BY <4>2, <4>3, <4>4, <4>5
    <3> QED BY <3>1, <3>2
  <2>3. g = h
    BY <2>2
  <2>4. JoinsTo(g, s, k + 1)
    BY <2>3 DEF JoinsTo
  <2>5. k + 1 \in 0..n
    BY <1>2
  <2> QED BY <2>4, <2>5
<1>3. n \in 0..n
  OBVIOUS
<1> HIDE DEF T
<1>4. n \in T
  BY <1>1, <1>2, <1>3, UpTo
<1> QED BY <1>4 DEF T, JoinsTo, Joins

\* Two such functions agree where their sequences do.
LEMMA JoinsAgree ==
  ASSUME NEW s, NEW t, NEW f, NEW h, Len(s) \in Nat, Len(t) \in Nat, Len(s) <= Len(t),
         \A i \in 1..Len(s) : t[i] = s[i], Joins(f, s), Joins(h, t)
  PROVE  \A i \in 1..Len(s) : h[i] = f[i]
<1> DEFINE n == Len(s)
           T == {k \in 0..n : k # 0 => h[k] = f[k]}
<1>1. 0 \in T
  OBVIOUS
<1>2. ASSUME NEW k \in 0..n, k \in T, k < n PROVE k + 1 \in T
  <2>1. k + 1 \in 1..n /\ k + 1 \in 1..Len(t) /\ (k + 1) - 1 = k /\ k + 1 \in 0..n
    BY <1>2
  <2>2. /\ f[k + 1] = IF k + 1 = 1 THEN s[k + 1] ELSE f[k] \o s[k + 1]
        /\ h[k + 1] = IF k + 1 = 1 THEN t[k + 1] ELSE h[k] \o t[k + 1]
    BY <2>1 DEF Joins
  <2>3. k = 0 \/ h[k] = f[k]
    BY <1>2
  <2> QED BY <2>1, <2>2, <2>3
<1> HIDE DEF T
<1>3. \A k \in 0..n : k \in T
  BY <1>1, <1>2, UpTo
<1> QED BY <1>3 DEF T

\* What FlattenSeq computes is the last value of such a function.
LEMMA FlattenIs ==
  ASSUME NEW s, Len(s) \in Nat, Len(s) # 0
  PROVE  \E f : Joins(f, s) /\ FlattenSeq(s) = f[Len(s)]
<1> DEFINE f == CHOOSE f : f = [i \in 1..Len(s) |-> IF i = 1 THEN s[i] ELSE f[i - 1] \o s[i]]
<1>1. FlattenSeq(s) = f[Len(s)]
  BY DEF FlattenSeq
<1>2. f = CHOOSE g : Joins(g, s)
  BY DEF Joins
<1> HIDE DEF f
<1>3. Joins(f, s)
  BY <1>2, JoinsExist, Zenon
<1> QED BY <1>1, <1>3

LEMMA FlattenEmpty == FlattenSeq(<<>>) = <<>>
BY DEF FlattenSeq

\* One more sequence comes at the end.
LEMMA FlattenAppend ==
  ASSUME NEW S, NEW s \in Seq(Seq(S)), NEW x \in Seq(S)
  PROVE  FlattenSeq(Append(s, x)) = FlattenSeq(s) \o x
<1> DEFINE t == Append(s, x)
           n == Len(s)
<1>1. /\ n \in Nat /\ Len(t) = n + 1 /\ t[n + 1] = x /\ \A i \in 1..n : t[i] = s[i]
  BY AppendProperties
<1> HIDE DEF t
<1>2. PICK h : Joins(h, t) /\ FlattenSeq(t) = h[n + 1]
  <2>1. Len(t) \in Nat /\ Len(t) # 0
    BY <1>1
  <2> QED BY <1>1, <2>1, FlattenIs
<1>3. h[n + 1] = IF n + 1 = 1 THEN t[n + 1] ELSE h[n] \o t[n + 1]
  <2>1. n + 1 \in 1..Len(t) /\ (n + 1) - 1 = n
    BY <1>1
  <2> QED BY <1>2, <2>1 DEF Joins
<1>4. CASE n = 0
  <2>1. s = <<>>
    BY <1>4, EmptySeq
  <2>2. FlattenSeq(t) = x
    BY <1>1, <1>2, <1>3, <1>4
  <2>3. <<>> \o x = x
    BY ConcatEmptySeq
  <2> QED BY <2>1, <2>2, <2>3, FlattenEmpty DEF t
<1>5. CASE n # 0
  <2>1. PICK f : Joins(f, s) /\ FlattenSeq(s) = f[n]
    BY <1>1, <1>5, FlattenIs
  <2>2. h[n] = f[n]
    <3>1. n <= Len(t) /\ n \in 1..n /\ Len(t) \in Nat
      BY <1>1, <1>5
    <3> QED BY <1>1, <1>2, <2>1, <3>1, JoinsAgree
  <2> QED BY <1>1, <1>2, <1>3, <1>5, <2>1, <2>2 DEF t
<1> QED BY <1>4, <1>5

\* The result is a sequence over the same set.
LEMMA FlattenType ==
  ASSUME NEW S, NEW s \in Seq(Seq(S))
  PROVE  FlattenSeq(s) \in Seq(S)
<1> DEFINE n == Len(s)
<1>1. n \in Nat /\ \A i \in 1..n : s[i] \in Seq(S)
  BY ElementOfSeq, LenProperties
<1>2. CASE n = 0
  <2>1. s = <<>>
    BY <1>2, EmptySeq
  <2> QED BY <2>1, FlattenEmpty, EmptySeq
<1>3. CASE n # 0
  <2>1. PICK f : Joins(f, s) /\ FlattenSeq(s) = f[n]
    BY <1>1, <1>3, FlattenIs
  <2> DEFINE T == {k \in 0..n : k # 0 => f[k] \in Seq(S)}
  <2>2. 0 \in T
    OBVIOUS
  <2>3. ASSUME NEW k \in 0..n, k \in T, k < n PROVE k + 1 \in T
    <3>1. k + 1 \in 1..n /\ (k + 1) - 1 = k /\ k + 1 \in 0..n
      BY <2>3
    <3>2. f[k + 1] = IF k + 1 = 1 THEN s[k + 1] ELSE f[k] \o s[k + 1]
      BY <2>1, <3>1 DEF Joins
    <3>3. k = 0 \/ f[k] \in Seq(S)
      BY <2>3
    <3>4. s[k + 1] \in Seq(S)
      BY <1>1, <3>1
    <3>5. f[k + 1] \in Seq(S)
      BY <3>1, <3>2, <3>3, <3>4, ConcatProperties
    <3> QED BY <3>1, <3>5
  <2>4. n \in 0..n
    BY <1>1
  <2> HIDE DEF T
  <2>5. n \in T
    BY <1>1, <2>2, <2>3, <2>4, UpTo
  <2> QED BY <1>3, <2>1, <2>5 DEF T
<1> QED BY <1>2, <1>3

-----------------------------------------------------------------------------
(* Frames.                                                                 *)

Byte == 0..255
Frames == {f \in Byte \X Seq(Byte) : Fits(f[2])}

Size(f) == Len(f[2]) + 3
Wire(f) == build_frame(f[1], f[2])

\* A frame's bytes: the type, the length in two bytes, the payload.
LEMMA WireOf ==
  ASSUME NEW f \in Frames
  PROVE  /\ f[1] \in Byte /\ f[2] \in Seq(Byte) /\ Len(f[2]) \in Nat
         /\ Wire(f) \in Seq(Byte) /\ Len(Wire(f)) = Size(f)
         /\ Wire(f)[1] = f[1] /\ Wire(f)[2] + 256 * Wire(f)[3] = Len(f[2])
         /\ \A m \in 1..Len(f[2]) : Wire(f)[m + 3] = f[2][m]
<1> DEFINE p == f[2]
           l == Len(p)
           h == <<f[1], l % 256, (l \div 256) % 256>>
<1>1. f[1] \in Byte /\ p \in Seq(Byte) /\ l \in Nat /\ l < 65536
  BY DEF Frames, Fits
<1>2. l % 256 \in 0..255 /\ (l \div 256) % 256 = l \div 256 /\ l \div 256 \in 0..255
      /\ (l % 256) + 256 * (l \div 256) = l
  <2> HIDE DEF l
  <2> QED BY <1>1
<1>3. h \in Seq(Byte) /\ Len(h) = 3 /\ h[1] = f[1] /\ h[2] = l % 256 /\ h[3] = l \div 256
  <2> HIDE DEF l
  <2> QED BY <1>1, <1>2 DEF Byte
<1>4. Wire(f) = h \o p
  BY DEF Wire, build_frame
<1> HIDE DEF h, l, p
<1>5. /\ h \o p \in Seq(Byte) /\ Len(h \o p) = 3 + l
      /\ \A i \in 1..(3 + l) : (h \o p)[i] = IF i <= 3 THEN h[i] ELSE p[i - 3]
  <2>1. /\ h \o p \in Seq(Byte) /\ Len(h \o p) = Len(h) + Len(p)
        /\ \A i \in 1..(Len(h) + Len(p)) :
             (h \o p)[i] = IF i <= Len(h) THEN h[i] ELSE p[i - Len(h)]
    <3>1. h \in Seq(Byte) /\ p \in Seq(Byte)
      BY <1>1, <1>3
    <3> QED BY <3>1, ConcatProperties, Zenon
  <2> QED BY <1>3, <2>1 DEF l
<1>6. (h \o p)[1] = h[1] /\ (h \o p)[2] = h[2] /\ (h \o p)[3] = h[3]
  BY <1>1, <1>5
<1>7. \A m \in 1..l : (h \o p)[m + 3] = p[m]
  <2> SUFFICES ASSUME NEW m \in 1..l PROVE (h \o p)[m + 3] = p[m]
    OBVIOUS
  <2>1. m + 3 \in 1..(3 + l) /\ ~(m + 3 <= 3) /\ (m + 3) - 3 = m
    BY <1>1
  <2> QED BY <1>5, <2>1
<1>8. (h \o p)[2] + 256 * (h \o p)[3] = l
  BY <1>1, <1>2, <1>3, <1>6
<1>9. Len(h \o p) = l + 3
  BY <1>1, <1>5
<1>10. Len(f[2]) = l /\ f[2] = p
  BY DEF l, p
<1> QED BY <1>1, <1>3, <1>4, <1>5, <1>6, <1>7, <1>8, <1>9, <1>10 DEF Size

-----------------------------------------------------------------------------
(* The output in a sequence of frames.                                     *)

\* What a frame adds to the output, and what each of a sequence does.
Shown(f) == IF f[1] = Data THEN f[2] ELSE <<>>
AllShown(fs) == [k \in DOMAIN fs |-> Shown(fs[k])]

LEMMA ShownType ==
  ASSUME NEW f \in Frames
  PROVE  Shown(f) \in Seq(Byte)
BY WireOf, EmptySeq DEF Shown

LEMMA AllShownType ==
  ASSUME NEW fs \in Seq(Frames)
  PROVE  AllShown(fs) \in Seq(Seq(Byte))
<1>1. DOMAIN fs = 1..Len(fs) /\ Len(fs) \in Nat /\ \A k \in 1..Len(fs) : fs[k] \in Frames
  BY ElementOfSeq, LenProperties
<1>2. \A k \in 1..Len(fs) : Shown(fs[k]) \in Seq(Byte)
  BY <1>1, ShownType
<1>3. AllShown(fs) \in [1..Len(fs) -> Seq(Byte)]
  BY <1>1, <1>2 DEF AllShown
<1> QED BY <1>1, <1>3, SeqDef

LEMMA OutputIs ==
  ASSUME NEW fs
  PROVE  Output(fs) = FlattenSeq(AllShown(fs))
BY DEF Output, AllShown, Shown

\* There is none in no frames, and a frame adds its own at the end.
LEMMA OutputGrows ==
  /\ Output(<<>>) = <<>>
  /\ \A fs \in Seq(Frames) : Output(fs) \in Seq(Byte)
  /\ \A fs \in Seq(Frames), f \in Frames :
       Output(Append(fs, f)) = Output(fs) \o Shown(f)
<1>1. Output(<<>>) = <<>>
  <2>1. AllShown(<<>>) = <<>>
    BY DEF AllShown
  <2> QED BY <2>1, OutputIs, FlattenEmpty
<1>2. ASSUME NEW fs \in Seq(Frames) PROVE Output(fs) \in Seq(Byte)
  BY OutputIs, AllShownType, FlattenType
<1>3. ASSUME NEW fs \in Seq(Frames), NEW f \in Frames
      PROVE  Output(Append(fs, f)) = Output(fs) \o Shown(f)
  <2> DEFINE n == Len(fs)
             gs == Append(fs, f)
             a == AllShown(fs)
             b == AllShown(gs)
             x == Shown(f)
  <2>1. /\ n \in Nat /\ Len(gs) = n + 1 /\ gs[n + 1] = f /\ gs \in Seq(Frames)
        /\ \A i \in 1..n : gs[i] = fs[i]
    BY AppendProperties
  <2>2. DOMAIN fs = 1..n /\ DOMAIN gs = 1..(n + 1)
    <3> HIDE DEF gs
    <3> QED BY <2>1, LenProperties
  <2>3. a \in Seq(Seq(Byte)) /\ b \in Seq(Seq(Byte)) /\ x \in Seq(Byte)
    <3> HIDE DEF gs
    <3> QED BY <2>1, AllShownType, ShownType
  <2>4. /\ DOMAIN a = 1..n /\ DOMAIN b = 1..(n + 1)
        /\ \A i \in 1..n : a[i] = Shown(fs[i])
        /\ \A i \in 1..(n + 1) : b[i] = Shown(gs[i])
    <3> HIDE DEF gs
    <3> QED BY <2>2 DEF AllShown
  <2>5. Len(a) = n /\ Len(b) = n + 1
    <3> HIDE DEF a, b
    <3> QED BY <2>1, <2>3, <2>4, LenProperties
  <2>6. /\ Append(a, x) \in Seq(Seq(Byte)) /\ Len(Append(a, x)) = n + 1
        /\ Append(a, x)[n + 1] = x /\ \A i \in 1..n : Append(a, x)[i] = a[i]
    <3> HIDE DEF a, x
    <3> QED BY <2>1, <2>3, <2>5, AppendProperties
  <2>7. ASSUME NEW i \in 1..(n + 1) PROVE b[i] = Append(a, x)[i]
    <3>1. CASE i = n + 1
      <4> HIDE DEF a, b, gs
      <4> QED BY <2>1, <2>4, <2>6, <3>1
    <3>2. CASE i # n + 1
      <4>1. i \in 1..n
        BY <2>1, <3>2
      <4> HIDE DEF a, b, gs
      <4> QED BY <2>1, <2>4, <2>6, <4>1
    <3> QED BY <3>1, <3>2
  <2>8. b = Append(a, x)
    <3> HIDE DEF a, b, x
    <3> QED BY <2>3, <2>5, <2>6, <2>7, SeqEqual
  <2>9. FlattenSeq(b) = FlattenSeq(a) \o x
    <3> HIDE DEF a, b, x
    <3> QED BY <2>3, <2>8, FlattenAppend
  <2> QED BY <2>9, OutputIs
<1> QED BY <1>1, <1>2, <1>3

\* The first frames of a sequence, and one more of them.
LEMMA FirstFrames ==
  ASSUME NEW fs \in Seq(Frames), NEW h \in 0..Len(fs)
  PROVE  /\ SubSeq(fs, 1, h) \in Seq(Frames) /\ Len(SubSeq(fs, 1, h)) = h
         /\ \A i \in 1..h : SubSeq(fs, 1, h)[i] = fs[i]
         /\ h < Len(fs) =>
              /\ SubSeq(fs, 1, h + 1) = Append(SubSeq(fs, 1, h), fs[h + 1])
              /\ fs[h + 1] \in Frames
<1>1. \A k \in 0..Len(fs) :
        /\ SubSeq(fs, 1, k) \in Seq(Frames) /\ Len(SubSeq(fs, 1, k)) = k
        /\ \A i \in 1..k : SubSeq(fs, 1, k)[i] = fs[i]
  OBVIOUS
<1>2. CASE h < Len(fs)
  <2> DEFINE a == SubSeq(fs, 1, h + 1)
             b == SubSeq(fs, 1, h)
             c == Append(b, fs[h + 1])
  <2>1. h + 1 \in 0..Len(fs) /\ h + 1 \in 1..Len(fs) /\ h \in Nat
    BY <1>2
  <2>2. fs[h + 1] \in Frames
    BY <2>1, ElementOfSeq
  <2>3. a \in Seq(Frames) /\ Len(a) = h + 1 /\ \A i \in 1..(h + 1) : a[i] = fs[i]
    BY <1>1, <2>1
  <2>4. b \in Seq(Frames) /\ Len(b) = h /\ \A i \in 1..h : b[i] = fs[i]
    BY <1>1
  <2> HIDE DEF a, b
  <2>5. /\ c \in Seq(Frames) /\ Len(c) = h + 1 /\ c[h + 1] = fs[h + 1]
        /\ \A i \in 1..h : c[i] = b[i]
    BY <2>2, <2>4, AppendProperties
  <2>6. \A i \in 1..(h + 1) : a[i] = c[i]
    <3> SUFFICES ASSUME NEW i \in 1..(h + 1) PROVE a[i] = c[i]
      OBVIOUS
    <3>1. i \in 1..h \/ i = h + 1
      BY <2>1
    <3> HIDE DEF c
    <3> QED BY <2>1, <2>3, <2>4, <2>5, <3>1
  <2>7. a = c
    <3> HIDE DEF c
    <3> QED BY <2>3, <2>5, <2>6, SeqEqual
  <2> QED BY <1>1, <2>2, <2>7 DEF a, b
<1> QED BY <1>1, <1>2

LEMMA Grouped ==
  ASSUME NEW a \in Seq(Byte), NEW b \in Seq(Byte), NEW c \in Seq(Byte)
  PROVE  (a \o b) \o c = a \o (b \o c)
BY ConcatAssociative

\* The output in the first frames is how the output begins.
LEMMA OutputBegins ==
  ASSUME NEW fs \in Seq(Frames), NEW h \in 0..Len(fs)
  PROVE  \E u \in Seq(Byte) : Output(fs) = Output(SubSeq(fs, 1, h)) \o u
<1> DEFINE n == Len(fs) - h
           o(k) == Output(SubSeq(fs, 1, h + k))
           T == {k \in 0..n : \E u \in Seq(Byte) : o(k) = o(0) \o u}
<1>1. n \in Nat /\ h \in Nat /\ Len(fs) \in Nat
  OBVIOUS
<1>2. \A k \in 0..n : h + k \in 0..Len(fs) /\ o(k) \in Seq(Byte)
  <2> SUFFICES ASSUME NEW k \in 0..n PROVE h + k \in 0..Len(fs) /\ o(k) \in Seq(Byte)
    OBVIOUS
  <2>1. h + k \in 0..Len(fs)
    BY <1>1
  <2>2. SubSeq(fs, 1, h + k) \in Seq(Frames)
    BY <2>1, FirstFrames
  <2> QED BY <2>1, <2>2, OutputGrows
<1>3. 0 \in T
  <2>1. o(0) = o(0) \o <<>> /\ <<>> \in Seq(Byte) /\ 0 \in 0..n
    BY <1>1, <1>2, ConcatEmptySeq, EmptySeq
  <2> QED BY <2>1
<1>4. ASSUME NEW k \in 0..n, k \in T, k < n PROVE k + 1 \in T
  <2>1. PICK u \in Seq(Byte) : o(k) = o(0) \o u
    BY <1>4
  <2>2. h + k \in 0..Len(fs) /\ h + k < Len(fs) /\ h + (k + 1) = (h + k) + 1 /\ k + 1 \in 0..n
    BY <1>1, <1>4
  <2> DEFINE f == fs[(h + k) + 1]
  <2>3. /\ SubSeq(fs, 1, (h + k) + 1) = Append(SubSeq(fs, 1, h + k), f)
        /\ f \in Frames /\ SubSeq(fs, 1, h + k) \in Seq(Frames)
    BY <2>2, FirstFrames
  <2>4. o(k + 1) = o(k) \o Shown(f) /\ Shown(f) \in Seq(Byte)
    BY <2>2, <2>3, OutputGrows, ShownType
  <2>5. o(0) \in Seq(Byte)
    BY <1>1, <1>2
  <2>6. (o(0) \o u) \o Shown(f) = o(0) \o (u \o Shown(f)) /\ u \o Shown(f) \in Seq(Byte)
    <3> HIDE DEF o, f
    <3>1. o(0) \in Seq(Byte) /\ u \in Seq(Byte) /\ Shown(f) \in Seq(Byte)
      BY <2>4, <2>5
    <3>2. (o(0) \o u) \o Shown(f) = o(0) \o (u \o Shown(f))
      BY <3>1, Grouped
    <3>3. u \o Shown(f) \in Seq(Byte)
      BY <3>1, ConcatProperties, Zenon
    <3> QED BY <3>2, <3>3
  <2> QED BY <2>1, <2>2, <2>4, <2>6
<1>5. n \in 0..n
  BY <1>1
<1> HIDE DEF T
<1>6. n \in T
  BY <1>1, <1>3, <1>4, <1>5, UpTo
<1>7. SubSeq(fs, 1, h + n) = fs /\ h + 0 = h
  <2>1. h + n = Len(fs)
    BY <1>1
  <2> QED BY <2>1
<1> QED BY <1>6, <1>7 DEF T

-----------------------------------------------------------------------------
(* Positions in the stream.                                                *)

\* B[n] is where the n-th frame ends.
EndsAt(fs, B) ==
  /\ B \in [0..Len(fs) -> Nat] /\ B[0] = 0
  /\ \A i \in 1..Len(fs) : B[i] = B[i - 1] + Size(fs[i])
  /\ \A i, j \in 0..Len(fs) : i <= j => B[i] <= B[j]

\* The bytes w, which come after the first c, are those of the frames: the
\* k-th is the m-th of a frame if that is where it stands.
Carries(fs, B, c, w) ==
  \A i \in 1..Len(fs) : \A m \in 1..Size(fs[i]), k \in 1..Len(w) :
    c + k = B[i - 1] + m => w[k] = Wire(fs[i])[m]

\* Parts of sequences of bytes.
LEMMA Parts ==
  ASSUME NEW s \in Seq(Byte), NEW k \in 0..Len(s)
  PROVE  LET a == SubSeq(s, 1, k)
             b == SubSeq(s, k + 1, Len(s))
         IN  /\ a \in Seq(Byte) /\ Len(a) = k /\ \A i \in 1..k : a[i] = s[i]
             /\ b \in Seq(Byte) /\ Len(b) = Len(s) - k
             /\ \A i \in 1..(Len(s) - k) : b[i] = s[k + i]
             /\ a \o b = s
<1> DEFINE a == SubSeq(s, 1, k)
           b == SubSeq(s, k + 1, Len(s))
<1>1. k \in Nat /\ Len(s) \in Nat /\ k <= Len(s)
  OBVIOUS
<1>2. a \in Seq(Byte) /\ Len(a) = k /\ \A i \in 1..k : a[i] = s[i]
  OBVIOUS
<1>3. b \in Seq(Byte) /\ Len(b) = Len(s) - k /\ \A i \in 1..(Len(s) - k) : b[i] = s[k + i]
  OBVIOUS
<1> HIDE DEF a, b
<1>4. /\ a \o b \in Seq(Byte) /\ Len(a \o b) = Len(a) + Len(b)
      /\ \A i \in 1..(Len(a) + Len(b)) :
           (a \o b)[i] = IF i <= Len(a) THEN a[i] ELSE b[i - Len(a)]
  BY <1>2, <1>3, ConcatProperties
<1>5. \A i \in 1..Len(s) : (a \o b)[i] = s[i]
  <2> SUFFICES ASSUME NEW i \in 1..Len(s) PROVE (a \o b)[i] = s[i]
    OBVIOUS
  <2>1. CASE i <= k
    BY <1>1, <1>2, <1>3, <1>4, <2>1
  <2>2. CASE ~(i <= k)
    <3>1. i - k \in 1..(Len(s) - k) /\ k + (i - k) = i
      BY <1>1, <2>2
    <3> QED BY <1>1, <1>2, <1>3, <1>4, <2>2, <3>1
  <2> QED BY <2>1, <2>2
<1>6. a \o b = s
  BY <1>1, <1>2, <1>3, <1>4, <1>5, SeqEqual
<1> QED BY <1>2, <1>3, <1>6 DEF a, b

\* Two sequences of bytes one after the other.
LEMMA After ==
  ASSUME NEW s \in Seq(Byte), NEW t \in Seq(Byte)
  PROVE  /\ s \o t \in Seq(Byte) /\ Len(s \o t) = Len(s) + Len(t)
         /\ Len(s) \in Nat /\ Len(t) \in Nat
         /\ \A i \in 1..Len(s) : (s \o t)[i] = s[i]
         /\ \A i \in 1..Len(t) : (s \o t)[Len(s) + i] = t[i]
<1>1. Len(s) \in Nat /\ Len(t) \in Nat
  OBVIOUS
<1>2. /\ s \o t \in Seq(Byte) /\ Len(s \o t) = Len(s) + Len(t)
      /\ \A i \in 1..(Len(s) + Len(t)) :
           (s \o t)[i] = IF i <= Len(s) THEN s[i] ELSE t[i - Len(s)]
  BY ConcatProperties
<1>3. ASSUME NEW i \in 1..Len(t) PROVE (s \o t)[Len(s) + i] = t[i]
  <2>1. Len(s) + i \in 1..(Len(s) + Len(t)) /\ ~(Len(s) + i <= Len(s)) /\ (Len(s) + i) - Len(s) = i
    BY <1>1
  <2> QED BY <1>2, <2>1
<1>4. \A i \in 1..Len(s) : (s \o t)[i] = s[i]
  BY <1>1, <1>2
<1> QED BY <1>1, <1>2, <1>3, <1>4

\* The first of two loses its first bytes.
LEMMA Behead ==
  ASSUME NEW s \in Seq(Byte), NEW t \in Seq(Byte), NEW k \in 0..Len(s)
  PROVE  SubSeq(s, k + 1, Len(s)) \o t = SubSeq(s \o t, k + 1, Len(s \o t))
<1> DEFINE b == SubSeq(s, k + 1, Len(s))
           w == s \o t
           v == SubSeq(w, k + 1, Len(w))
<1>1. /\ w \in Seq(Byte) /\ Len(w) = Len(s) + Len(t) /\ Len(s) \in Nat /\ Len(t) \in Nat
      /\ \A i \in 1..Len(s) : w[i] = s[i]
      /\ \A i \in 1..Len(t) : w[Len(s) + i] = t[i]
  BY After
<1>2. /\ b \in Seq(Byte) /\ Len(b) = Len(s) - k
      /\ \A i \in 1..(Len(s) - k) : b[i] = s[k + i]
  BY Parts
<1> HIDE DEF w, b
<1>3. /\ v \in Seq(Byte) /\ Len(v) = Len(w) - k
      /\ \A i \in 1..(Len(w) - k) : v[i] = w[k + i]
  BY <1>1, Parts
<1> HIDE DEF v
<1>4. /\ b \o t \in Seq(Byte) /\ Len(b \o t) = Len(b) + Len(t)
      /\ \A i \in 1..Len(b) : (b \o t)[i] = b[i]
      /\ \A i \in 1..Len(t) : (b \o t)[Len(b) + i] = t[i]
  BY <1>2, After
<1>5. ASSUME NEW i \in 1..Len(v) PROVE (b \o t)[i] = v[i]
  <2>1. CASE i <= Len(b)
    <3>1. i \in 1..Len(b) /\ k + i \in 1..Len(s)
      BY <1>1, <1>2, <2>1
    <3> QED BY <1>1, <1>2, <1>3, <1>4, <3>1
  <2>2. CASE ~(i <= Len(b))
    <3>1. i - Len(b) \in 1..Len(t) /\ Len(b) + (i - Len(b)) = i
          /\ Len(s) + (i - Len(b)) = k + i
      BY <1>1, <1>2, <1>3, <2>2
    <3>2. (b \o t)[i] = t[i - Len(b)]
      BY <1>4, <3>1
    <3>3. w[k + i] = t[i - Len(b)]
      BY <1>1, <3>1
    <3>4. v[i] = w[k + i]
      BY <1>3
    <3> QED BY <3>2, <3>3, <3>4
  <2> QED BY <2>1, <2>2
<1>6. Len(b \o t) = Len(v)
  BY <1>1, <1>2, <1>3, <1>4
<1>7. b \o t = v
  BY <1>3, <1>4, <1>5, <1>6, SeqEqual
<1> QED BY <1>7 DEF b, v, w

\* Bytes are read off the front.
LEMMA ReadOff ==
  ASSUME NEW fs \in Seq(Frames), NEW B, EndsAt(fs, B), NEW c \in Nat, NEW w \in Seq(Byte),
         Carries(fs, B, c, w), NEW k \in 0..Len(w)
  PROVE  Carries(fs, B, c + k, SubSeq(w, k + 1, Len(w)))
<1> DEFINE v == SubSeq(w, k + 1, Len(w))
<1>1. v \in Seq(Byte) /\ Len(v) = Len(w) - k /\ \A i \in 1..(Len(w) - k) : v[i] = w[k + i]
  BY Parts
<1>2. Len(w) \in Nat /\ k \in Nat
  OBVIOUS
<1> HIDE DEF v
<1>3. ASSUME NEW i \in 1..Len(fs), NEW m \in 1..Size(fs[i]), NEW l \in 1..Len(v),
             (c + k) + l = B[i - 1] + m
      PROVE  v[l] = Wire(fs[i])[m]
  <2>1. k + l \in 1..Len(w) /\ c + (k + l) = (c + k) + l /\ v[l] = w[k + l]
    BY <1>1, <1>2
  <2>2. c + (k + l) = B[i - 1] + m
    BY <1>3, <2>1
  <2>3. w[k + l] = Wire(fs[i])[m]
    BY <2>1, <2>2 DEF Carries
  <2> QED BY <2>1, <2>3
<1> QED BY <1>3 DEF Carries, v

LEMMA Shifted ==
  ASSUME NEW a \in Nat, NEW b \in Nat, NEW e, e = a + b,
         NEW k \in Int, NEW m \in Int, a + k = e + m
  PROVE  k = b + m
OBVIOUS

\* Another frame begins at the end of the stream; x is what there is of it.
LEMMA Grown ==
  ASSUME NEW fs \in Seq(Frames), NEW B, EndsAt(fs, B), NEW c \in Nat, NEW w \in Seq(Byte),
         Carries(fs, B, c, w), c + Len(w) = B[Len(fs)],
         NEW f \in Frames, NEW x \in Seq(Byte), Len(x) <= Size(f),
         \A m \in 1..Len(x) : x[m] = Wire(f)[m]
  PROVE  \E D : /\ EndsAt(Append(fs, f), D) /\ Carries(Append(fs, f), D, c, w \o x)
                /\ \A k \in 0..Len(fs) : D[k] = B[k]
                /\ D[Len(fs) + 1] = B[Len(fs)] + Size(f)
<1> DEFINE gs == Append(fs, f)
           n == Len(fs)
           D == [k \in 0..(n + 1) |-> IF k = n + 1 THEN B[n] + Size(f) ELSE B[k]]
<1>1. /\ n \in Nat /\ Len(gs) = n + 1 /\ gs[n + 1] = f /\ \A i \in 1..n : gs[i] = fs[i]
      /\ gs \in Seq(Frames)
  BY AppendProperties
<1>2. Size(f) \in Nat /\ \A i \in 1..n : fs[i] \in Frames /\ Size(fs[i]) \in Nat
  BY WireOf, ElementOfSeq DEF Size
<1>3. /\ B \in [0..n -> Nat] /\ B[0] = 0 /\ B[n] \in Nat
      /\ \A i \in 1..n : B[i] = B[i - 1] + Size(fs[i])
      /\ \A i, j \in 0..n : i <= j => B[i] <= B[j]
  BY <1>1 DEF EndsAt
<1>4. /\ \A k \in 0..n : D[k] = B[k] /\ D[k] \in Nat /\ D[k] <= B[n]
      /\ D[n + 1] = B[n] + Size(f)
  <2>1. ASSUME NEW k \in 0..n PROVE D[k] = B[k]
    <3>1. k \in 0..(n + 1) /\ k # n + 1
      BY <1>1
    <3> QED BY <3>1
  <2>2. n + 1 \in 0..(n + 1) /\ n \in 0..n
    BY <1>1
  <2>3. D[n + 1] = B[n] + Size(f)
    BY <2>2
  <2>4. \A k \in 0..n : B[k] \in Nat /\ B[k] <= B[n]
    BY <1>1, <1>3, <2>2
  <2> HIDE DEF D
  <2> QED BY <2>1, <2>3, <2>4
<1>5. D \in [0..(n + 1) -> Nat]
  BY <1>1, <1>2, <1>3
<1> HIDE DEF D, gs
<1>6. EndsAt(gs, D)
  <2>1. ASSUME NEW i \in 1..(n + 1) PROVE D[i] = D[i - 1] + Size(gs[i])
    <3>1. i - 1 \in 0..n
      BY <1>1
    <3>2. CASE i = n + 1
      <4>1. i - 1 = n
        BY <1>1, <3>2
      <4> QED BY <1>1, <1>4, <3>1, <3>2, <4>1
    <3>3. CASE i # n + 1
      <4>1. i \in 1..n /\ i \in 0..n
        BY <1>1, <3>3
      <4> QED BY <1>1, <1>3, <1>4, <3>1, <4>1
    <3> QED BY <3>2, <3>3
  <2>2. ASSUME NEW i \in 0..(n + 1), NEW j \in 0..(n + 1), i <= j PROVE D[i] <= D[j]
    <3>1. CASE j = n + 1
      <4>1. i = n + 1 \/ i \in 0..n
        BY <1>1
      <4>2. D[j] \in Nat /\ D[j] >= B[n]
        BY <1>2, <1>3, <1>4, <3>1
      <4> QED BY <1>3, <1>4, <3>1, <4>1, <4>2
    <3>2. CASE j # n + 1
      <4>1. i \in 0..n /\ j \in 0..n
        BY <1>1, <2>2, <3>2
      <4> QED BY <1>3, <1>4, <2>2, <4>1
    <3> QED BY <3>1, <3>2
  <2>3. D[0] = 0
    <3>1. 0 \in 0..n
      BY <1>1
    <3> QED BY <1>3, <1>4, <3>1
  <2> QED BY <1>1, <1>5, <2>1, <2>2, <2>3 DEF EndsAt
<1>7. Carries(gs, D, c, w \o x)
  <2>1. /\ Len(w \o x) = Len(w) + Len(x) /\ Len(w) \in Nat /\ Len(x) \in Nat
        /\ \A i \in 1..Len(w) : (w \o x)[i] = w[i]
        /\ \A i \in 1..Len(x) : (w \o x)[Len(w) + i] = x[i]
    BY After
  <2> SUFFICES ASSUME NEW i \in 1..Len(gs), NEW m \in 1..Size(gs[i]),
                      NEW k \in 1..Len(w \o x), c + k = D[i - 1] + m
               PROVE  (w \o x)[k] = Wire(gs[i])[m]
    BY DEF Carries
  <2>2. CASE i = n + 1
    <3>1. i - 1 = n /\ n \in 0..n /\ gs[i] = f /\ m \in Nat /\ m >= 1
      BY <1>1, <1>2, <2>2
    <3>2. D[i - 1] = c + Len(w)
      BY <1>4, <3>1
    <3>3. m \in 1..Len(x) /\ k = Len(w) + m
      <4>1. k \in 1..(Len(w) + Len(x)) /\ Len(w) \in Nat /\ Len(x) \in Nat
        BY <2>1
      <4>3. c \in Nat /\ Len(w) \in Nat /\ k \in Int /\ m \in Int
        BY <3>1, <4>1
      <4>4. k = Len(w) + m
        BY <3>2, <4>3, Shifted
      <4>5. k <= Len(w) + Len(x) /\ Len(x) \in Nat
        BY <4>1
      <4> QED BY <3>1, <4>3, <4>4, <4>5
    <3> QED BY <2>1, <3>1, <3>3
  <2>3. CASE i # n + 1
    <3>1. i \in 1..n /\ i - 1 \in 0..n /\ i \in 0..n /\ n \in 0..n
      BY <1>1, <2>3
    <3>2. gs[i] = fs[i] /\ D[i - 1] = B[i - 1] /\ B[i - 1] \in Nat
          /\ B[i] = B[i - 1] + Size(fs[i]) /\ B[i] <= B[n] /\ m \in 1..Size(fs[i])
          /\ Size(fs[i]) \in Nat
      BY <1>1, <1>2, <1>3, <1>4, <3>1
    <3>3. k \in 1..Len(w) /\ c + k = B[i - 1] + m
      BY <2>1, <3>2
    <3>4. w[k] = Wire(fs[i])[m]
      BY <3>1, <3>2, <3>3 DEF Carries
    <3> QED BY <2>1, <3>2, <3>3, <3>4
  <2> QED BY <2>2, <2>3
<1> QED BY <1>4, <1>6, <1>7 DEF gs

\* The next bytes are those of the frame they belong to.
LEMMA NextBytes ==
  ASSUME NEW fs \in Seq(Frames), NEW B, EndsAt(fs, B), NEW w \in Seq(Byte),
         NEW i \in 1..Len(fs), NEW p \in Nat, Carries(fs, B, B[i - 1] + p, w),
         NEW k \in 0..Len(w), p + k <= Size(fs[i])
  PROVE  \A m \in 1..k : w[m] = Wire(fs[i])[p + m]
<1> SUFFICES ASSUME NEW m \in 1..k PROVE w[m] = Wire(fs[i])[p + m]
  OBVIOUS
<1>1. fs[i] \in Frames /\ Size(fs[i]) \in Nat
  <2>1. fs[i] \in Frames
    BY ElementOfSeq
  <2> QED BY <2>1, WireOf DEF Size
<1>2. i - 1 \in 0..Len(fs) /\ B[i - 1] \in Nat
  BY DEF EndsAt
<1>3. p + m \in 1..Size(fs[i]) /\ m \in 1..Len(w)
  BY <1>1
<1>4. (B[i - 1] + p) + m = B[i - 1] + (p + m)
  BY <1>2
<1> QED BY <1>3, <1>4 DEF Carries

-----------------------------------------------------------------------------
(* The stream between its writer and its reader.                           *)

StreamTypes ==
  /\ reader \in {"client", "daemon"} /\ closed \in BOOLEAN
  /\ sent \in Seq(Frames)
  /\ flying \in Seq(Byte) /\ wire \in Seq(Byte) /\ acc \in Seq(Byte)
  /\ stage \in {"header", "payload", "closed"}

\* The frames handed on are the first of those sent.
Handed ==
  /\ got \in Seq(Frames) /\ Len(got) <= Len(sent)
  /\ \A i \in 1..Len(got) : got[i] = sent[i]

\* How far the stream has been read and written.
Skip == IF stage = "payload" THEN 3 ELSE 0
Where(B) == B[Len(got)] + (Skip + Len(acc))
Reach(B) == Where(B) + (Len(wire) + Len(flying))

\* The frames sent, and one the writer did not finish perhaps.
Extends(all) ==
  /\ all \in Seq(Frames) /\ Len(all) \in {Len(sent), Len(sent) + 1}
  /\ \A i \in 1..Len(sent) : all[i] = sent[i]

Bounded(all, B) ==
  /\ B[Len(sent)] <= Reach(B) /\ Reach(B) <= B[Len(all)]
  /\ Len(all) # Len(sent) => closed /\ Reach(B) < B[Len(all)]

\* The bytes s are those of the frame f, from its payload on if the reader is
\* there.
Begins(s, f) == \A m \in 1..Len(s) : s[m] = Wire(f)[Skip + m]

\* What has been read of a frame is how it begins.
Held(all) ==
  /\ stage = "header" => Len(acc) < 3
  /\ stage = "payload" =>
       /\ Len(got) < Len(all)
       /\ need = [ty |-> all[Len(got) + 1][1], len |-> Len(all[Len(got) + 1][2])]
       /\ Len(acc) < need.len
  /\ acc # <<>> => Len(got) < Len(all)
  /\ Len(got) < Len(all) =>
       \A m \in 1..Len(acc) : acc[m] = Wire(all[Len(got) + 1])[Skip + m]

Flow(all, B) ==
  /\ Extends(all) /\ EndsAt(all, B)
  /\ Carries(all, B, Where(B), wire \o flying)
  /\ Bounded(all, B) /\ Held(all)

Streaming ==
  /\ Handed
  /\ stage # "closed" => \E all, B : Flow(all, B)

\* The reader that is not derailed, and only the daemon's can be.
StreamInv ==
  /\ derailed => reader = "daemon"
  /\ ~derailed => StreamTypes /\ Streaming

\* Everything here is a number.
LEMMA Places ==
  ASSUME StreamTypes, Handed, NEW all, Extends(all), NEW B, EndsAt(all, B)
  PROVE  /\ Len(got) \in Nat /\ Len(sent) \in Nat /\ Len(all) \in Nat
         /\ Len(got) <= Len(sent) /\ Len(sent) <= Len(all)
         /\ Len(acc) \in Nat /\ Len(wire) \in Nat /\ Len(flying) \in Nat
         /\ \A k \in 0..Len(all) : B[k] \in Nat
         /\ Where(B) \in Nat /\ Reach(B) \in Nat
         /\ wire \o flying \in Seq(Byte) /\ Len(wire \o flying) = Len(wire) + Len(flying)
<1>1. /\ Len(got) \in Nat /\ Len(sent) \in Nat /\ Len(all) \in Nat
      /\ Len(acc) \in Nat /\ Len(wire) \in Nat /\ Len(flying) \in Nat
  <2>1. /\ got \in Seq(Frames) /\ sent \in Seq(Frames) /\ all \in Seq(Frames)
        /\ acc \in Seq(Byte) /\ wire \in Seq(Byte) /\ flying \in Seq(Byte)
    BY DEF StreamTypes, Handed, Extends
  <2> QED BY <2>1, LenProperties
<1>2. Len(got) <= Len(sent) /\ Len(sent) <= Len(all)
  BY <1>1 DEF Handed, Extends
<1>3. \A k \in 0..Len(all) : B[k] \in Nat
  BY DEF EndsAt
<1>4. Where(B) \in Nat /\ Reach(B) \in Nat
  <2>1. B[Len(got)] \in Nat
    BY <1>1, <1>2, <1>3
  <2>2. Skip \in Nat
    BY DEF Skip
  <2> QED BY <1>1, <2>1, <2>2 DEF Where, Reach
<1>5. wire \o flying \in Seq(Byte) /\ Len(wire \o flying) = Len(wire) + Len(flying)
  BY After DEF StreamTypes
<1> QED BY <1>1, <1>2, <1>3, <1>4, <1>5

\* Two sequences of frames with the same members.
LEMMA Whole ==
  ASSUME StreamTypes, NEW all, Extends(all), Len(all) = Len(sent)
  PROVE  all = sent
BY SeqEqual DEF StreamTypes, Extends

LEMMA InitStreams == Init => StreamInv
<1> SUFFICES ASSUME Init PROVE StreamInv
  OBVIOUS
<1>1. /\ reader \in {"client", "daemon"} /\ closed = FALSE /\ stage = "header" /\ ~derailed
      /\ sent = <<>> /\ got = <<>> /\ acc = <<>> /\ wire = <<>> /\ flying = <<>>
  BY DEF Init, StreamInit
<1>2. <<>> \in Seq(Frames) /\ <<>> \in Seq(Byte) /\ Len(<<>>) = 0
  BY EmptySeq
<1>3. StreamTypes
  BY <1>1, <1>2 DEF StreamTypes
<1>4. Handed
  BY <1>1, <1>2 DEF Handed
<1> DEFINE B == [k \in 0..0 |-> 0]
<1>5. Flow(<<>>, B)
  <2>1. Extends(<<>>)
    BY <1>1, <1>2 DEF Extends
  <2>2. EndsAt(<<>>, B)
    BY <1>2 DEF EndsAt
  <2>3. Where(B) = 0 /\ Reach(B) = 0
    BY <1>1, <1>2 DEF Where, Reach, Skip
  <2>4. Carries(<<>>, B, Where(B), wire \o flying)
    BY <1>2 DEF Carries
  <2>5. Bounded(<<>>, B)
    BY <1>1, <1>2, <2>3 DEF Bounded
  <2>6. Held(<<>>)
    BY <1>1, <1>2 DEF Held
  <2> QED BY <2>1, <2>2, <2>4, <2>5, <2>6 DEF Flow
<1>6. Streaming
  BY <1>1, <1>4, <1>5 DEF Streaming
<1> QED BY <1>1, <1>3, <1>6 DEF StreamInv

\* A frame, or how one begins, goes to the end of the stream.
LEMMA Appended ==
  ASSUME StreamTypes, Streaming, ~closed, stage # "closed", NEW f \in Frames, NEW x \in Seq(Byte),
         Len(x) <= Size(f), \A m \in 1..Len(x) : x[m] = Wire(f)[m]
  PROVE  \E B, D :
           /\ Flow(sent, B) /\ Reach(B) = B[Len(sent)]
           /\ EndsAt(Append(sent, f), D)
           /\ Carries(Append(sent, f), D, Where(B), wire \o (flying \o x))
           /\ \A k \in 0..Len(sent) : D[k] = B[k]
           /\ D[Len(sent) + 1] = B[Len(sent)] + Size(f)
<1>1. PICK all, B : Flow(all, B)
  BY DEF Streaming
<1>2. Extends(all) /\ EndsAt(all, B) /\ Bounded(all, B) /\ Handed
  BY <1>1 DEF Flow, Streaming
<1>3. Len(all) = Len(sent)
  BY <1>2 DEF Bounded
<1>4. all = sent
  BY <1>2, <1>3, Whole
<1>5. /\ Len(sent) \in Nat /\ Where(B) \in Nat /\ Reach(B) \in Nat /\ B[Len(sent)] \in Nat
      /\ wire \o flying \in Seq(Byte) /\ Len(wire \o flying) = Len(wire) + Len(flying)
  <2>1. Len(sent) \in 0..Len(all)
    BY <1>2, <1>3, Places
  <2> QED BY <1>2, <2>1, Places
<1>6. Reach(B) = B[Len(sent)]
  BY <1>2, <1>3, <1>5 DEF Bounded
<1>7. Where(B) + Len(wire \o flying) = B[Len(sent)]
  BY <1>5, <1>6 DEF Reach
<1>8. Carries(sent, B, Where(B), wire \o flying) /\ sent \in Seq(Frames) /\ EndsAt(sent, B)
  BY <1>1, <1>2, <1>4 DEF Flow, StreamTypes
<1>9. PICK D :
        /\ EndsAt(Append(sent, f), D)
        /\ Carries(Append(sent, f), D, Where(B), (wire \o flying) \o x)
        /\ \A k \in 0..Len(sent) : D[k] = B[k]
        /\ D[Len(sent) + 1] = B[Len(sent)] + Size(f)
  <2> DEFINE c == Where(B)
             w == wire \o flying
  <2>1. c \in Nat /\ w \in Seq(Byte) /\ Carries(sent, B, c, w) /\ c + Len(w) = B[Len(sent)]
    BY <1>5, <1>7, <1>8
  <2> HIDE DEF c, w
  <2>2. \E D : /\ EndsAt(Append(sent, f), D) /\ Carries(Append(sent, f), D, c, w \o x)
               /\ \A k \in 0..Len(sent) : D[k] = B[k]
               /\ D[Len(sent) + 1] = B[Len(sent)] + Size(f)
    BY <1>8, <2>1, Grown, SMTT(60)
  <2> QED BY <2>2 DEF c, w
<1>10. (wire \o flying) \o x = wire \o (flying \o x)
  BY Grouped DEF StreamTypes
<1> QED BY <1>1, <1>4, <1>6, <1>9, <1>10

LEMMA SendStreams ==
  ASSUME StreamInv, NEW ty \in Byte, NEW p, Fits(p), SendFrame(ty, p)
  PROVE  StreamInv'
<1> SUFFICES ASSUME ~derailed PROVE StreamTypes' /\ Streaming'
  BY DEF StreamInv, SendFrame
<1> DEFINE f == <<ty, p>>
           n == Len(sent)
<1>1. /\ ~closed /\ closed' = closed /\ sent' = Append(sent, f) /\ reader' = reader
      /\ stage # "closed"
      /\ flying' = flying \o Wire(f) /\ UNCHANGED <<wire, stage, acc, need, got>>
  BY DEF SendFrame, Wire
<1>2. f \in Frames
  <2>1. f[1] = ty /\ f[2] = p
    OBVIOUS
  <2>2. f \in Byte \X Seq(Byte)
    <3>1. ty \in Byte /\ p \in Seq(Byte)
      BY DEF Fits, Byte
    <3> QED BY <3>1 DEF f
  <2> QED BY <2>1, <2>2 DEF Frames
<1>3. Wire(f) \in Seq(Byte) /\ Len(Wire(f)) = Size(f) /\ Size(f) \in Nat
  BY <1>2, WireOf DEF Size
<1> HIDE DEF f
<1>4. StreamTypes
  BY DEF StreamInv
<1>5. /\ n \in Nat /\ sent' \in Seq(Frames) /\ Len(sent') = n + 1 /\ sent'[n + 1] = f
      /\ \A i \in 1..n : sent'[i] = sent[i]
  BY <1>1, <1>2, <1>4, AppendProperties DEF StreamTypes
<1>6. StreamTypes'
  <2>1. flying' \in Seq(Byte)
    BY <1>1, <1>3, <1>4, After DEF StreamTypes
  <2> QED BY <1>1, <1>4, <1>5, <2>1 DEF StreamTypes
<1>6a. PICK gs : gs = sent'
  OBVIOUS
<1>7. Streaming'
  <2>1. Streaming /\ Handed /\ stage # "closed"
    BY <1>1 DEF StreamInv, Streaming
  <2>2. PICK B, D :
          /\ Flow(sent, B) /\ Reach(B) = B[n]
          /\ EndsAt(sent', D)
          /\ Carries(sent', D, Where(B), wire \o (flying \o Wire(f)))
          /\ \A k \in 0..n : D[k] = B[k]
          /\ D[n + 1] = B[n] + Size(f)
    BY <1>1, <1>2, <1>3, <1>4, <2>1, Appended
  <2>3. Extends(sent) /\ EndsAt(sent, B) /\ Bounded(sent, B) /\ Held(sent)
    BY <2>2 DEF Flow
  <2>4. Handed'
    <3>1. Len(got) <= n /\ Len(got) \in Nat
      BY <1>4, <2>1, <2>3, Places
    <3>2. ASSUME NEW i \in 1..Len(got) PROVE got[i] = sent'[i]
      <4>1. i \in 1..n
        BY <1>5, <3>1
      <4> QED BY <1>5, <2>1, <4>1 DEF Handed
    <3> QED BY <1>1, <1>5, <2>1, <3>1, <3>2 DEF Handed
  <2>5. /\ Where(D)' = Where(B) /\ Where(B) \in Nat /\ Len(got) \in Nat /\ Len(got) <= n
        /\ \A k \in 0..n : B[k] \in Nat
        /\ B[n] \in Nat /\ Len(wire) \in Nat /\ Len(flying) \in Nat
    <3>1. Len(got) \in 0..n /\ n \in 0..n
      BY <1>4, <2>1, <2>3, Places
    <3>2. D[Len(got)] = B[Len(got)]
      BY <2>2, <3>1
    <3>3. Where(D)' = Where(B)
      BY <1>1, <3>2 DEF Where, Skip
    <3> QED BY <1>4, <2>1, <2>3, <3>1, <3>3, Places
  <2>6. Reach(D)' = D[n + 1] /\ Where(B) + Len(wire) <= B[n]
    <3>1. Len(flying') = Len(flying) + Size(f)
      <4>1. flying \in Seq(Byte) /\ Wire(f) \in Seq(Byte)
        BY <1>3, <1>4 DEF StreamTypes
      <4>2. Len(flying \o Wire(f)) = Len(flying) + Len(Wire(f))
        BY <4>1, After
      <4> QED BY <1>1, <1>3, <4>2
    <3>2. Reach(D)' = Where(B) + (Len(wire) + (Len(flying) + Size(f)))
      BY <1>1, <2>5, <3>1 DEF Reach
    <3>3. Where(B) + (Len(wire) + Len(flying)) = B[n]
      BY <2>2 DEF Reach
    <3> QED BY <1>3, <2>2, <2>5, <3>2, <3>3
  <2>7. Flow(gs, D)'
    <3>0. /\ gs \in Seq(Frames) /\ Len(gs) = n + 1 /\ gs[n + 1] = f /\ gs = sent'
          /\ \A i \in 1..n : gs[i] = sent[i]
          /\ EndsAt(gs, D) /\ Carries(gs, D, Where(B), wire \o (flying \o Wire(f)))
      BY <1>5, <1>6a, <2>2
    <3>1. Extends(gs)'
      BY <1>5, <3>0 DEF Extends
    <3>2. EndsAt(gs, D)'
      BY <3>0 DEF EndsAt, Size
    <3>3. Carries(gs, D, Where(D)', wire' \o flying')
      BY <1>1, <2>5, <3>0
    <3>4. Bounded(gs, D)'
      BY <1>3, <1>5, <2>2, <2>5, <2>6, <3>0 DEF Bounded
    <3>5. Held(gs)'
      <4>1. Len(got) < n => gs[Len(got) + 1] = sent[Len(got) + 1]
        BY <2>5, <3>0
      <4>2. Len(got) < n \/ (Len(got) = n /\ acc = <<>> /\ stage # "payload")
        <5>1. Len(got) < n \/ Len(got) = n
          BY <1>5, <2>5
        <5> QED BY <1>5, <2>3, <2>5, <5>1 DEF Held
      <4>3. CASE Len(got) < n
        BY <1>1, <1>5, <2>3, <2>5, <3>0, <4>1, <4>3 DEF Held, Skip
      <4>4. CASE Len(got) = n /\ acc = <<>> /\ stage # "payload"
        <5>1. Len(acc) = 0
          BY <4>4
        <5> QED BY <1>1, <1>5, <2>5, <3>0, <4>4, <5>1 DEF Held, Skip
      <4> QED BY <4>2, <4>3, <4>4
    <3> QED BY <3>1, <3>2, <3>3, <3>4, <3>5 DEF Flow
  <2> QED BY <1>1, <2>1, <2>4, <2>7 DEF Streaming
<1> QED BY <1>6, <1>7

\* The writer's end is closed, in the middle of a frame perhaps.
LEMMA CloseStreams ==
  ASSUME StreamInv, NEW torn \in {<<>>, <<Data, 2>>, <<Data, 2, 0, 0>>}, Close(torn)
  PROVE  StreamInv'
<1> SUFFICES ASSUME ~derailed PROVE StreamTypes' /\ Streaming'
  BY DEF StreamInv, Close
<1> DEFINE f == <<Data, <<0, 0>>>>
           n == Len(sent)
<1>1. /\ ~closed /\ closed' = TRUE /\ flying' = flying \o torn
      /\ UNCHANGED <<reader, sent, wire, stage, acc, need, got>>
  BY DEF Close
<1>2. /\ f \in Frames /\ Size(f) = 5
      /\ torn \in Seq(Byte) /\ Len(torn) \in {0, 2, 4} /\ (Len(torn) = 0 => torn = <<>>)
      /\ \A m \in 1..Len(torn) : torn[m] = Wire(f)[m]
  <2>1. f[1] = 16 /\ f[2] = <<0, 0>> /\ Len(f[2]) = 2
    BY DEF Data
  <2>2. f \in Frames
    <3>1. <<0, 0>> \in Seq(Byte) /\ 16 \in Byte
      BY DEF Byte
    <3>2. Fits(<<0, 0>>)
      BY DEF Fits
    <3>3. f \in Byte \X Seq(Byte)
      BY <3>1 DEF Data
    <3> QED BY <2>1, <3>2, <3>3 DEF Frames
  <2>3. Wire(f)[1] = 16 /\ Wire(f)[2] = 2 /\ Wire(f)[3] = 0 /\ Wire(f)[4] = 0
    <3> HIDE DEF f
    <3> DEFINE w == Wire(f)
    <3>1. /\ w \in Seq(Byte) /\ Len(w) = 5
          /\ w[1] = 16 /\ w[2] + 256 * w[3] = 2
          /\ \A m \in 1..2 : w[m + 3] = <<0, 0>>[m]
      <4>1. /\ Wire(f) \in Seq(Byte) /\ Len(Wire(f)) = Size(f)
            /\ Wire(f)[1] = f[1] /\ Wire(f)[2] + 256 * Wire(f)[3] = Len(f[2])
            /\ \A m \in 1..Len(f[2]) : Wire(f)[m + 3] = f[2][m]
        BY <2>2, WireOf, Zenon
      <4>2. Size(f) = 5
        BY <2>1 DEF Size
      <4> HIDE DEF f
      <4> QED BY <2>1, <4>1, <4>2
    <3> HIDE DEF w
    <3>2. w[2] \in 0..255 /\ w[3] \in 0..255
      <4>1. 2 \in 1..Len(w) /\ 3 \in 1..Len(w)
        BY <3>1
      <4>2. \A i \in 1..Len(w) : w[i] \in Byte
        BY <3>1, ElementOfSeq
      <4> QED BY <4>1, <4>2 DEF Byte
    <3>3. w[2] = 2 /\ w[3] = 0
      <4>1. \A x, y \in 0..255 : x + 256 * y = 2 => x = 2 /\ y = 0
        OBVIOUS
      <4> QED BY <3>1, <3>2, <4>1
    <3>4. Wire(f)[4] = 0
      <4>1. 1 \in 1..2 /\ 1 + 3 = 4 /\ <<0, 0>>[1] = 0
        OBVIOUS
      <4> QED BY <3>1, <4>1 DEF w
    <3> QED BY <3>1, <3>3, <3>4 DEF w
  <2>4. Size(f) = 5
    BY <2>1 DEF Size
  <2> HIDE DEF f
  <2>5. CASE torn = <<>>
    BY <2>2, <2>4, <2>5, EmptySeq
  <2>6. CASE torn = <<Data, 2>>
    <3>1. torn \in Seq(Byte) /\ Len(torn) = 2 /\ torn[1] = 16 /\ torn[2] = 2
      BY <2>6 DEF Data, Byte
    <3>2. \A m \in 1..Len(torn) : torn[m] = Wire(f)[m]
      BY <2>3, <3>1
    <3> QED BY <2>2, <2>4, <3>1, <3>2
  <2>7. CASE torn = <<Data, 2, 0, 0>>
    <3>1. /\ torn \in Seq(Byte) /\ Len(torn) = 4
          /\ torn[1] = 16 /\ torn[2] = 2 /\ torn[3] = 0 /\ torn[4] = 0
      BY <2>7 DEF Data, Byte
    <3>2. \A m \in 1..Len(torn) : torn[m] = Wire(f)[m]
      BY <2>3, <3>1
    <3> QED BY <2>2, <2>4, <3>1, <3>2
  <2> QED BY <2>5, <2>6, <2>7
<1> HIDE DEF f
<1>3. StreamTypes
  BY DEF StreamInv
<1>4. StreamTypes'
  <2>1. flying' \in Seq(Byte)
    BY <1>1, <1>2, <1>3, After DEF StreamTypes
  <2> QED BY <1>1, <1>3, <2>1 DEF StreamTypes
<1>5. PICK gs : gs = Append(sent, f)
  OBVIOUS
<1>6. /\ n \in Nat /\ gs \in Seq(Frames) /\ Len(gs) = n + 1 /\ gs[n + 1] = f
      /\ \A i \in 1..n : gs[i] = sent[i]
  BY <1>2, <1>3, <1>5, AppendProperties DEF StreamTypes
<1>7. CASE stage = "closed"
  BY <1>1, <1>3, <1>4, <1>7 DEF StreamInv, Streaming, Handed
<1>8. CASE stage # "closed"
  <2>1. Streaming /\ Handed /\ stage # "closed"
    BY <1>8 DEF StreamInv, Streaming
  <2>2. PICK B, D :
          /\ Flow(sent, B) /\ Reach(B) = B[n]
          /\ EndsAt(gs, D)
          /\ Carries(gs, D, Where(B), wire \o (flying \o torn))
          /\ \A k \in 0..n : D[k] = B[k]
          /\ D[n + 1] = B[n] + 5
    <3>1. Len(torn) <= Size(f)
      BY <1>2
    <3>2. \E B, D :
           /\ Flow(sent, B) /\ Reach(B) = B[Len(sent)]
           /\ EndsAt(Append(sent, f), D)
           /\ Carries(Append(sent, f), D, Where(B), wire \o (flying \o torn))
           /\ \A k \in 0..Len(sent) : D[k] = B[k]
           /\ D[Len(sent) + 1] = B[Len(sent)] + Size(f)
      BY <1>1, <1>2, <1>3, <2>1, <3>1, Appended
    <3> QED BY <1>2, <1>5, <3>2
  <2>3. Extends(sent) /\ EndsAt(sent, B) /\ Bounded(sent, B) /\ Held(sent)
        /\ Carries(sent, B, Where(B), wire \o flying)
    BY <2>2 DEF Flow
  <2>4. Handed'
    BY <1>1, <2>1 DEF Handed
  <2>5. /\ Where(D)' = Where(B) /\ Where(B) \in Nat /\ Len(got) \in Nat /\ Len(got) <= n
        /\ B[n] \in Nat /\ Len(wire) \in Nat /\ Len(flying) \in Nat
    <3>1. Len(got) \in 0..n /\ n \in 0..n
      BY <1>3, <2>1, <2>3, Places
    <3>2. D[Len(got)] = B[Len(got)]
      BY <2>2, <3>1
    <3>3. Where(D)' = Where(B)
      BY <1>1, <3>2 DEF Where, Skip
    <3> QED BY <1>3, <2>1, <2>3, <3>1, <3>3, Places
  <2>6. CASE torn = <<>>
    <3>1. flying' = flying
      BY <1>1, <1>3, <2>6, ConcatEmptySeq DEF StreamTypes
    <3>2. PICK all : all = sent
      OBVIOUS
    <3>3. Flow(all, B)'
      <4>1. Where(B)' = Where(B) /\ Reach(B)' = Reach(B)
        BY <1>1, <3>1 DEF Where, Reach, Skip
      <4>2. Extends(all)' /\ EndsAt(all, B)' /\ Held(all)'
        BY <1>1, <2>3, <3>2 DEF Extends, EndsAt, Size, Held, Skip
      <4>3. Carries(all, B, Where(B)', wire' \o flying')
        BY <1>1, <2>3, <3>1, <3>2, <4>1
      <4>4. Bounded(all, B)'
        BY <1>1, <2>3, <3>2, <4>1 DEF Bounded
      <4> QED BY <4>2, <4>3, <4>4 DEF Flow
    <3> QED BY <1>1, <1>4, <2>1, <2>4, <3>3 DEF Streaming
  <2>7. CASE torn # <<>>
    <3>1. Len(torn) \in {2, 4}
      BY <1>2, <2>7
    <3>2. Reach(D)' = B[n] + Len(torn)
      <4>1. Len(flying') = Len(flying) + Len(torn)
        BY <1>1, <1>2, <1>3, After DEF StreamTypes
      <4>2. Reach(D)' = Where(B) + (Len(wire) + (Len(flying) + Len(torn)))
        BY <1>1, <2>5, <4>1 DEF Reach
      <4>3. Where(B) + (Len(wire) + Len(flying)) = B[n]
        BY <2>2 DEF Reach
      <4> QED BY <2>5, <3>1, <4>2, <4>3
    <3>3. Flow(gs, D)'
      <4>1. Extends(gs)'
        BY <1>1, <1>6 DEF Extends
      <4>2. EndsAt(gs, D)'
        BY <2>2 DEF EndsAt, Size
      <4>3. Carries(gs, D, Where(D)', wire' \o flying')
        BY <1>1, <2>2, <2>5
      <4>4. Bounded(gs, D)'
        <5>1. n \in 0..n
          BY <1>6
        <5>2. D[n] = B[n]
          BY <2>2, <5>1
        <5>3. /\ Len(sent') = n /\ Len(gs) = n + 1 /\ closed' = TRUE
              /\ D[n + 1] = B[n] + 5 /\ Reach(D)' \in {B[n] + 2, B[n] + 4}
          BY <1>1, <1>6, <2>2, <3>1, <3>2
        <5>4. B[n] <= Reach(D)' /\ Reach(D)' < D[n + 1] /\ Reach(D)' <= D[n + 1]
          BY <2>5, <5>3
        <5> QED BY <5>2, <5>3, <5>4 DEF Bounded
      <4>5. Held(gs)'
        <5>1. Len(got) < n => gs[Len(got) + 1] = sent[Len(got) + 1]
          BY <1>6, <2>5
        <5>2. Len(got) < n \/ (Len(got) = n /\ acc = <<>> /\ stage # "payload")
          <6>1. Len(got) < n \/ Len(got) = n
            BY <1>6, <2>5
          <6> QED BY <1>6, <2>3, <2>5, <6>1 DEF Held
        <5>3. CASE Len(got) < n
          BY <1>1, <1>6, <2>3, <2>5, <5>1, <5>3 DEF Held, Skip
        <5>4. CASE Len(got) = n /\ acc = <<>> /\ stage # "payload"
          <6>1. Len(acc) = 0
            BY <5>4
          <6> QED BY <1>1, <1>6, <2>5, <5>4, <6>1 DEF Held, Skip
        <5> QED BY <5>2, <5>3, <5>4
      <4> QED BY <4>1, <4>2, <4>3, <4>4, <4>5 DEF Flow
    <3> QED BY <1>1, <1>4, <2>1, <2>4, <3>3 DEF Streaming
  <2> QED BY <2>6, <2>7
<1> QED BY <1>7, <1>8

\* Bytes arrive.
LEMMA ArriveStreams ==
  ASSUME StreamInv, NEW k \in 1..Len(flying), Arrive(k)
  PROVE  StreamInv'
<1> SUFFICES ASSUME ~derailed PROVE StreamTypes' /\ Streaming'
  BY DEF StreamInv, Arrive
<1>1. /\ wire' = wire \o SubSeq(flying, 1, k)
      /\ flying' = SubSeq(flying, k + 1, Len(flying))
      /\ UNCHANGED <<reader, sent, closed, stage, acc, need, got>>
  BY DEF Arrive
<1>2. StreamTypes
  BY DEF StreamInv
<1>3. /\ wire \in Seq(Byte) /\ flying \in Seq(Byte) /\ k \in 0..Len(flying)
      /\ Len(wire) \in Nat /\ Len(flying) \in Nat /\ k \in Nat
  BY <1>2, LenProperties DEF StreamTypes
<1> DEFINE a == SubSeq(flying, 1, k)
           b == SubSeq(flying, k + 1, Len(flying))
<1>4. /\ a \in Seq(Byte) /\ Len(a) = k /\ b \in Seq(Byte) /\ Len(b) = Len(flying) - k
      /\ a \o b = flying
  BY <1>3, Parts
<1>5. wire' = wire \o a /\ flying' = b
  BY <1>1
<1> HIDE DEF a, b
<1>6. wire' \in Seq(Byte) /\ Len(wire') = Len(wire) + k /\ flying' \in Seq(Byte)
      /\ Len(flying') = Len(flying) - k
  BY <1>3, <1>4, <1>5, After
<1>7. wire' \o flying' = wire \o flying
  <2>1. (wire \o a) \o b = wire \o (a \o b)
    BY <1>3, <1>4, Grouped
  <2> QED BY <1>4, <1>5, <2>1
<1>8. StreamTypes'
  BY <1>1, <1>2, <1>6 DEF StreamTypes
<1>9. Streaming'
  <2>1. Streaming /\ Handed
    BY DEF StreamInv, Streaming
  <2>2. Handed'
    BY <1>1, <2>1 DEF Handed
  <2>3. ASSUME stage # "closed" PROVE \E all, B : Flow(all, B)'
    <3>1. PICK all, B : Flow(all, B)
      BY <2>1, <2>3 DEF Streaming
    <3>2. Extends(all) /\ EndsAt(all, B) /\ Bounded(all, B) /\ Held(all)
          /\ Carries(all, B, Where(B), wire \o flying)
      BY <3>1 DEF Flow
    <3>3. /\ Where(B) \in Nat /\ Where(B)' = Where(B) /\ Len(sent) \in Nat
          /\ \A n \in 0..Len(all) : B[n] \in Nat
      BY <1>1, <1>2, <2>1, <3>2, Places DEF Where, Skip
    <3>4. Reach(B)' = Reach(B)
      BY <1>3, <1>6, <3>3 DEF Reach
    <3>5. Extends(all)' /\ EndsAt(all, B)' /\ Held(all)'
      BY <1>1, <3>2 DEF Extends, EndsAt, Size, Held, Skip
    <3>6. Carries(all, B, Where(B)', wire' \o flying')
      BY <1>7, <3>2, <3>3
    <3>7. Bounded(all, B)'
      BY <1>1, <3>2, <3>4 DEF Bounded
    <3> QED BY <3>5, <3>6, <3>7 DEF Flow
  <2> QED BY <1>1, <2>1, <2>2, <2>3 DEF Streaming
<1> QED BY <1>8, <1>9

\* A read of some of at most n bytes: they and those before continue the frame.
LEMMA TakeBytes ==
  ASSUME StreamTypes, Handed, NEW all, NEW B, Flow(all, B), stage # "closed", wire # <<>>,
         NEW n \in Nat, n > 0, NEW b, b = Bytes(n), Consume(b)
  PROVE  /\ b \in Seq(Byte) /\ Len(b) \in Nat /\ 1 <= Len(b) /\ Len(b) <= n
         /\ Len(b) <= Len(wire) /\ (Len(b) < n => Len(b) = Len(wire))
         /\ wire' \in Seq(Byte) /\ Len(wire') = Len(wire) - Len(b)
         /\ UNCHANGED <<reader, sent, closed, flying>>
         /\ Carries(all, B, Where(B) + Len(b), wire' \o flying')
         /\ Len(got) + 1 \in 1..Len(all) /\ Len(got) \in Nat
         /\ all[Len(got) + 1] \in Frames /\ Size(all[Len(got) + 1]) \in Nat
         /\ acc \o b \in Seq(Byte) /\ Len(acc \o b) = Len(acc) + Len(b)
         /\ Skip + (Len(acc) + Len(b)) <= Size(all[Len(got) + 1]) =>
              Begins(acc \o b, all[Len(got) + 1])
<1> DEFINE g == Len(got)
           f == all[g + 1]
           w == wire \o flying
           k == Len(b)
<1>1. /\ Extends(all) /\ EndsAt(all, B) /\ Bounded(all, B) /\ Held(all)
      /\ Carries(all, B, Where(B), w) /\ all \in Seq(Frames)
  BY DEF Flow, Extends
<1>2. /\ wire \in Seq(Byte) /\ flying \in Seq(Byte) /\ acc \in Seq(Byte)
      /\ g \in Nat /\ Len(sent) \in Nat /\ Len(all) \in Nat
      /\ g <= Len(sent) /\ Len(sent) <= Len(all)
      /\ Len(acc) \in Nat /\ Len(wire) \in Nat /\ Len(flying) \in Nat
      /\ \A l \in 0..Len(all) : B[l] \in Nat
      /\ Where(B) \in Nat /\ w \in Seq(Byte) /\ Len(w) = Len(wire) + Len(flying)
  BY <1>1, Places DEF StreamTypes
<1>3. Len(wire) # 0
  BY <1>2, EmptySeq
<1>4. Smaller(n, Len(wire)) \in 0..Len(wire) /\ Smaller(n, Len(wire)) >= 1
      /\ Smaller(n, Len(wire)) <= n
      /\ (Smaller(n, Len(wire)) < n => Smaller(n, Len(wire)) = Len(wire))
  BY <1>2, <1>3 DEF Smaller
<1>5. b \in Seq(Byte) /\ k = Smaller(n, Len(wire)) /\ \A m \in 1..k : b[m] = wire[m]
  <2> DEFINE l == Smaller(n, Len(wire))
  <2>1. b = SubSeq(wire, 1, l)
    BY DEF Bytes
  <2> HIDE DEF l
  <2>2. b \in Seq(Byte) /\ Len(b) = l /\ \A m \in 1..l : b[m] = wire[m]
    BY <1>2, <1>4, <2>1, Parts DEF l
  <2> QED BY <2>2 DEF l
<1>6. k \in Nat /\ 1 <= k /\ k <= n /\ k \in 0..Len(wire) /\ (k < n => k = Len(wire))
  BY <1>2, <1>4, <1>5
<1>7. wire' = SubSeq(wire, k + 1, Len(wire)) /\ UNCHANGED <<reader, sent, closed, flying>>
  BY DEF Consume
<1> HIDE DEF f, g, w, k
<1>8. wire' \in Seq(Byte) /\ Len(wire') = Len(wire) - k
  BY <1>2, <1>6, <1>7, Parts
<1>9. Carries(all, B, Where(B) + k, wire' \o flying')
  <2>1. k \in 0..Len(w)
    BY <1>2, <1>6
  <2>2. Carries(all, B, Where(B) + k, SubSeq(w, k + 1, Len(w)))
    BY <1>1, <1>2, <2>1, ReadOff
  <2>3. wire' \o flying' = SubSeq(w, k + 1, Len(w))
    BY <1>2, <1>6, <1>7, Behead DEF w
  <2> QED BY <2>2, <2>3
<1>10. g + 1 \in 1..Len(all)
  <2>1. Where(B) + Len(wire) <= B[Len(all)] /\ B[g] <= Where(B) /\ B[g] \in Nat
    <3>1. Where(B) + (Len(wire) + Len(flying)) <= B[Len(all)]
      BY <1>1 DEF Bounded, Reach
    <3>2. B[g] \in Nat /\ B[Len(all)] \in Nat
      BY <1>2
    <3>3. Where(B) = B[g] + (Skip + Len(acc)) /\ Skip \in Nat
      BY DEF Where, Skip, g
    <3> DEFINE x == B[g]
               y == Where(B)
               e == B[Len(all)]
               a == Len(acc)
               k1 == Len(wire)
               k2 == Len(flying)
    <3>4. /\ x \in Nat /\ e \in Nat /\ a \in Nat /\ k1 \in Nat /\ k2 \in Nat
          /\ y = x + (Skip + a) /\ y + (k1 + k2) <= e
      BY <1>2, <3>1, <3>2, <3>3
    <3> HIDE DEF x, y, e, a, k1, k2
    <3>5. y + k1 <= e /\ x <= y /\ x \in Nat
      BY <3>3, <3>4
    <3> QED BY <3>5 DEF x, y, e, k1
  <2>2. g # Len(all)
    <3> SUFFICES ASSUME g = Len(all) PROVE FALSE
      OBVIOUS
    <3>1. Where(B) + Len(wire) <= B[g]
      BY <2>1
    <3> QED BY <1>2, <1>3, <2>1, <3>1
  <2> QED BY <1>2, <2>2
<1>11. f \in Frames /\ Size(f) \in Nat
  <2>1. f \in Frames
    BY <1>1, <1>10, ElementOfSeq DEF f
  <2> QED BY <2>1, WireOf DEF Size
<1>12. /\ acc \o b \in Seq(Byte) /\ Len(acc \o b) = Len(acc) + k
       /\ \A m \in 1..Len(acc) : (acc \o b)[m] = acc[m]
       /\ \A m \in 1..k : (acc \o b)[Len(acc) + m] = b[m]
  BY <1>2, <1>5, After DEF k
<1>13. ASSUME Skip + (Len(acc) + k) <= Size(f),
              NEW m \in 1..(Len(acc) + k)
       PROVE  (acc \o b)[m] = Wire(f)[Skip + m]
  <2>1. Skip \in Nat
    BY DEF Skip
  <2>2. CASE m <= Len(acc)
    <3>1. m \in 1..Len(acc) /\ g < Len(all)
      BY <1>2, <1>10, <2>2
    <3>2. acc[m] = Wire(f)[Skip + m]
      BY <1>1, <3>1 DEF Held, f, g
    <3> QED BY <1>12, <3>1, <3>2
  <2>3. CASE ~(m <= Len(acc))
    <3> DEFINE j == m - Len(acc)
               p == Skip + Len(acc)
    <3>1. j \in 1..k /\ m = Len(acc) + j /\ p \in Nat /\ p + k <= Size(f) /\ p + j = Skip + m
      BY <1>2, <1>6, <1>13, <2>1, <2>3
    <3>2. (g + 1) - 1 = g /\ k \in 0..Len(w)
      BY <1>2, <1>6
    <3>3. Carries(all, B, B[(g + 1) - 1] + p, w)
      BY <1>1, <3>2 DEF Where, g
    <3> HIDE DEF j, p
    <3>4. \A i \in 1..k : w[i] = Wire(all[g + 1])[p + i]
      <4>1. PICK i : i = g + 1
        OBVIOUS
      <4>2. /\ i \in 1..Len(all) /\ all \in Seq(Frames) /\ EndsAt(all, B) /\ w \in Seq(Byte)
            /\ p \in Nat /\ Carries(all, B, B[i - 1] + p, w) /\ k \in 0..Len(w)
            /\ p + k <= Size(all[i])
        BY <1>1, <1>2, <1>10, <3>1, <3>2, <3>3, <4>1 DEF f
      <4>3. \A l \in 1..k : w[l] = Wire(all[i])[p + l]
        BY <4>2, NextBytes
      <4> QED BY <4>1, <4>3
    <3>5. w[j] = wire[j]
      <4>1. j \in 1..Len(wire)
        BY <1>6, <3>1
      <4> QED BY <1>2, <4>1, After DEF w
    <3>6. b[j] = wire[j]
      BY <1>5, <3>1 DEF k
    <3> QED BY <1>12, <3>1, <3>4, <3>5, <3>6 DEF f
  <2> QED BY <2>2, <2>3
<1>14. Skip + (Len(acc) + k) <= Size(f) => Begins(acc \o b, f)
  BY <1>12, <1>13 DEF Begins
<1>15. k <= Len(wire)
  BY <1>2, <1>6
<1> QED BY <1>2, <1>5, <1>6, <1>7, <1>8, <1>9, <1>10, <1>11, <1>12, <1>14, <1>15, Zenon DEF f, g, k

\* What is left to say of such a read.
LEMMA ReadFlow ==
  ASSUME StreamTypes, Handed, NEW all, NEW B, Flow(all, B), stage # "closed", wire # <<>>,
         NEW n \in Nat, n > 0, NEW b, b = Bytes(n), Consume(b),
         Where(B)' = Where(B) + Len(b), Held(all)'
  PROVE  Flow(all, B)'
<1>1. /\ Len(b) \in Nat /\ Len(b) <= Len(wire) /\ Len(wire') = Len(wire) - Len(b)
      /\ UNCHANGED <<reader, sent, closed, flying>>
      /\ Carries(all, B, Where(B) + Len(b), wire' \o flying')
  BY TakeBytes
<1>2. Extends(all) /\ EndsAt(all, B) /\ Bounded(all, B)
  BY DEF Flow
<1>3. Where(B) \in Nat /\ Len(wire) \in Nat /\ Len(flying) \in Nat
  BY <1>2, Places
<1>4. Reach(B)' = Reach(B)
  BY <1>1, <1>3 DEF Reach
<1>6. Extends(all)' /\ EndsAt(all, B)'
  BY <1>1, <1>2 DEF Extends, EndsAt, Size
<1>7. Carries(all, B, Where(B)', wire' \o flying')
  BY <1>1
<1>8. Bounded(all, B)'
  BY <1>1, <1>2, <1>4 DEF Bounded
<1> QED BY <1>6, <1>7, <1>8 DEF Flow

\* The read asks for what is missing, which is something; the daemon's next
\* read of a header for more perhaps.
LEMMA Asked ==
  ASSUME StreamTypes, Handed, NEW all, NEW B, Flow(all, B)
  PROVE  /\ stage = "header" =>
              /\ HeaderAsk \in Nat /\ HeaderAsk > 0 /\ Len(acc) + HeaderAsk >= 3
         /\ stage = "payload" =>
              /\ PayloadAsk \in Nat /\ PayloadAsk > 0
              /\ need.len \in Nat /\ Len(acc) + PayloadAsk = need.len
              /\ all[Len(got) + 1] \in Frames /\ need.ty = all[Len(got) + 1][1]
              /\ need.len = Len(all[Len(got) + 1][2]) /\ Len(got) < Len(all)
<1>1. Extends(all) /\ EndsAt(all, B) /\ Held(all)
  BY DEF Flow
<1>2. Len(acc) \in Nat /\ Len(got) \in Nat /\ Len(all) \in Nat
  BY <1>1, Places
<1>3. ASSUME stage = "header"
      PROVE  HeaderAsk \in Nat /\ HeaderAsk > 0 /\ Len(acc) + HeaderAsk >= 3
  BY <1>1, <1>2, <1>3 DEF HeaderAsk, Held
<1>4. ASSUME stage = "payload"
      PROVE  /\ PayloadAsk \in Nat /\ PayloadAsk > 0
             /\ need.len \in Nat /\ Len(acc) + PayloadAsk = need.len
             /\ all[Len(got) + 1] \in Frames /\ need.ty = all[Len(got) + 1][1]
             /\ need.len = Len(all[Len(got) + 1][2]) /\ Len(got) < Len(all)
  <2>1. Len(got) < Len(all) /\ Len(got) + 1 \in 1..Len(all)
    BY <1>1, <1>2, <1>4 DEF Held
  <2>2. all[Len(got) + 1] \in Frames
    BY <1>1, <2>1, ElementOfSeq DEF Extends
  <2>3. /\ need = [ty |-> all[Len(got) + 1][1], len |-> Len(all[Len(got) + 1][2])]
        /\ Len(acc) < need.len
    BY <1>1, <1>4 DEF Held
  <2>4. need.ty = all[Len(got) + 1][1] /\ need.len = Len(all[Len(got) + 1][2])
    BY <2>3
  <2>5. need.len \in Nat
    BY <2>2, <2>4, WireOf
  <2>6. need.len - Len(acc) \in Nat /\ need.len - Len(acc) >= 1
    BY <1>2, <2>3, <2>5
  <2>7. PayloadAsk = need.len - Len(acc)
    BY <2>6 DEF PayloadAsk, Larger
  <2> QED BY <1>2, <2>1, <2>2, <2>4, <2>5, <2>6, <2>7
<1> QED BY <1>3, <1>4

\* A header or a payload that stays incomplete.
LEMMA ShortStreams ==
  ASSUME StreamInv, ReadHeaderShort \/ ReadPayloadShort
  PROVE  StreamInv'
<1> SUFFICES ASSUME ~derailed PROVE StreamTypes' /\ Streaming'
  BY DEF StreamInv, ReadHeaderShort, ReadPayloadShort, Consume
<1>1. StreamTypes
  BY DEF StreamInv
<1>2. PICK n, b :
        /\ b = Bytes(n) /\ Consume(b) /\ wire # <<>> /\ acc' = acc \o b
        /\ UNCHANGED <<stage, need, got>>
        /\ \/ stage = "header" /\ n = HeaderAsk /\ Len(acc) + Len(b) < 3
           \/ stage = "payload" /\ n = PayloadAsk /\ Len(acc) + Len(b) < need.len
  BY DEF ReadHeaderShort, ReadPayloadShort
<1>3. UNCHANGED <<reader, sent, closed, flying>> /\ stage # "closed"
  BY <1>2 DEF Consume
<1>4. Streaming /\ Handed
  BY DEF StreamInv, Streaming
<1>5. PICK all, B : Flow(all, B)
  BY <1>3, <1>4 DEF Streaming
<1>6. /\ n \in Nat /\ n > 0
      /\ stage = "payload" =>
           /\ need.len = Len(all[Len(got) + 1][2]) /\ need.len \in Nat
  BY <1>1, <1>2, <1>4, <1>5, Asked
<1> DEFINE f == all[Len(got) + 1]
<1>6a. n \in Nat /\ n > 0 /\ b = Bytes(n) /\ Consume(b) /\ wire # <<>> /\ stage # "closed"
  BY <1>2, <1>3, <1>6
<1>7. /\ Len(b) \in Nat /\ Len(b) <= n /\ 1 <= Len(b) /\ (Len(b) < n => Len(b) = Len(wire))
      /\ Len(got) + 1 \in 1..Len(all) /\ Len(got) \in Nat /\ wire' \in Seq(Byte)
      /\ f \in Frames /\ Size(f) \in Nat
      /\ acc \o b \in Seq(Byte) /\ Len(acc \o b) = Len(acc) + Len(b)
      /\ Skip + (Len(acc) + Len(b)) <= Size(f) => Begins(acc \o b, f)
  BY <1>1, <1>4, <1>5, <1>6a, TakeBytes
<1>8. Extends(all) /\ EndsAt(all, B) /\ Held(all)
  BY <1>5 DEF Flow
<1>9. /\ Len(acc) \in Nat /\ Len(all) \in Nat /\ Where(B) \in Nat /\ Len(wire) \in Nat
      /\ Len(got) <= Len(all) /\ \A i \in 0..Len(all) : B[i] \in Nat
  BY <1>1, <1>4, <1>8, Places
<1>10. Where(B)' = Where(B) + Len(b)
  <2>1. Len(acc') = Len(acc) + Len(b)
    BY <1>2, <1>7
  <2>2. B[Len(got)] \in Nat /\ Skip \in Nat
    BY <1>7, <1>9 DEF Skip
  <2>3. Skip' = Skip
    BY <1>2 DEF Skip
  <2>4. Where(B)' = B[Len(got)] + (Skip + (Len(acc) + Len(b)))
    BY <1>2, <2>1, <2>3 DEF Where
  <2>5. Where(B) = B[Len(got)] + (Skip + Len(acc))
    BY DEF Where
  <2> QED BY <1>7, <1>9, <2>2, <2>4, <2>5
<1>11. Skip + (Len(acc) + Len(b)) <= Size(f)
  <2>1. CASE stage = "header"
    <3>1. Size(f) >= 3 /\ Skip = 0
      BY <1>7, <2>1, WireOf DEF Size, Skip
    <3> QED BY <1>2, <1>7, <1>9, <2>1, <3>1
  <2>2. CASE stage = "payload"
    BY <1>2, <1>6, <1>7, <1>9, <2>2 DEF Size, Skip
  <2> QED BY <1>2, <2>1, <2>2
<1>12. Held(all)'
  <2>1. /\ stage' = stage /\ need' = need /\ got' = got /\ Skip' = Skip
        /\ Len(acc') = Len(acc) + Len(b)
        /\ \A m \in 1..Len(acc') : acc'[m] = Wire(f)[Skip + m]
    BY <1>2, <1>7, <1>11 DEF Skip, Begins
  <2>2. Len(got) < Len(all)
    BY <1>7, <1>9
  <2> QED BY <1>2, <1>8, <2>1, <2>2 DEF Held
<1>14. Flow(all, B)'
  BY <1>1, <1>2, <1>3, <1>4, <1>5, <1>6, <1>10, <1>12, ReadFlow
<1>15. Handed'
  BY <1>2, <1>3, <1>4 DEF Handed
<1>16. Streaming'
  BY <1>2, <1>3, <1>14, <1>15 DEF Streaming
<1>17. StreamTypes'
  BY <1>1, <1>2, <1>3, <1>7 DEF StreamTypes
<1> QED BY <1>16, <1>17

\* A frame read to its end was sent.
LEMMA Finished ==
  ASSUME StreamTypes, Handed, NEW all, NEW B, Flow(all, B),
         Len(got) + 1 \in 1..Len(all), B[Len(got) + 1] <= Reach(B),
         got' = Append(got, all[Len(got) + 1]), sent' = sent
  PROVE  Handed' /\ Len(got') = Len(got) + 1
<1>1. Extends(all) /\ EndsAt(all, B) /\ Bounded(all, B) /\ all \in Seq(Frames)
  BY DEF Flow, Extends
<1> DEFINE g == Len(got)
           f == all[g + 1]
           gs == Append(got, f)
<1>2. g \in Nat /\ Len(sent) \in Nat /\ Len(all) \in Nat /\ Reach(B) \in Nat
      /\ \A i \in 0..Len(all) : B[i] \in Nat
  BY <1>1, Places
<1>3. f \in Frames
  BY <1>1, ElementOfSeq
<1>4. /\ gs \in Seq(Frames) /\ Len(gs) = g + 1 /\ gs[g + 1] = f
      /\ \A i \in 1..g : gs[i] = got[i]
  BY <1>3, AppendProperties DEF Handed
<1> HIDE DEF gs, f
<1>5. g + 1 <= Len(sent)
  <2> SUFFICES ASSUME ~(g + 1 <= Len(sent)) PROVE FALSE
    OBVIOUS
  <2>1. Len(all) = Len(sent) + 1 /\ g + 1 = Len(all)
    BY <1>1, <1>2 DEF Extends
  <2>2. Reach(B) < B[Len(all)]
    BY <1>1, <1>2, <2>1 DEF Bounded
  <2>3. B[Len(all)] \in Nat /\ B[Len(all)] <= Reach(B)
    BY <1>2, <2>1
  <2> QED BY <1>2, <2>2, <2>3
<1>6. f = sent[g + 1]
  <2>1. g + 1 \in 1..Len(sent)
    BY <1>2, <1>5
  <2> QED BY <1>1, <2>1 DEF Extends, f
<1>7. \A i \in 1..(g + 1) : gs[i] = sent[i]
  <2> SUFFICES ASSUME NEW i \in 1..(g + 1) PROVE gs[i] = sent[i]
    OBVIOUS
  <2>1. i \in 1..g \/ i = g + 1
    BY <1>2
  <2>2. CASE i \in 1..g
    BY <1>4, <2>2 DEF Handed
  <2>3. CASE i = g + 1
    BY <1>4, <1>6, <2>3
  <2> QED BY <2>1, <2>2, <2>3
<1>8. got' = gs
  BY DEF gs, f
<1> QED BY <1>4, <1>5, <1>7, <1>8 DEF Handed

\* A header is complete.
LEMMA HeaderStreams ==
  ASSUME StreamInv, ReadHeader
  PROVE  StreamInv'
<1> SUFFICES ASSUME ~derailed PROVE StreamInv'
  BY DEF StreamInv, ReadHeader, HeaderDone, Consume
<1>1. StreamTypes /\ Streaming /\ Handed
  BY DEF StreamInv, Streaming
<1>2. PICK n, b, h :
        /\ n = HeaderAsk /\ b = Bytes(n) /\ Consume(b) /\ wire # <<>> /\ h = acc \o b
        /\ stage = "header" /\ Len(acc) + Len(b) >= 3 /\ HeaderDone(h)
  BY DEF ReadHeader
<1>3. stage # "closed" /\ UNCHANGED <<reader, sent, closed, flying>>
  BY <1>2 DEF Consume
<1>4. PICK all, B : Flow(all, B)
  BY <1>1, <1>3 DEF Streaming
<1>5. n \in Nat /\ n > 0
  BY <1>1, <1>2, <1>4, Asked
<1>6. b = Bytes(n) /\ Consume(b) /\ wire # <<>>
  BY <1>2
<1> DEFINE g == Len(got)
           f == all[g + 1]
<1>7. /\ Len(b) \in Nat /\ Len(b) <= n /\ Len(b) <= Len(wire)
      /\ wire' \in Seq(Byte) /\ Len(wire') = Len(wire) - Len(b)
      /\ g + 1 \in 1..Len(all) /\ g \in Nat
      /\ f \in Frames /\ Size(f) \in Nat
      /\ acc \o b \in Seq(Byte) /\ Len(acc \o b) = Len(acc) + Len(b)
      /\ Skip + (Len(acc) + Len(b)) <= Size(f) => Begins(acc \o b, f)
  BY <1>1, <1>3, <1>4, <1>5, <1>6, TakeBytes
<1>8. Extends(all) /\ EndsAt(all, B) /\ Held(all)
  BY <1>4 DEF Flow
<1>9. /\ Len(acc) \in Nat /\ Len(all) \in Nat /\ Where(B) \in Nat /\ Len(wire) \in Nat
      /\ Len(flying) \in Nat /\ \A i \in 0..Len(all) : B[i] \in Nat
  BY <1>1, <1>8, Places
<1> HIDE DEF f, g
<1>9a. derailed' => reader = "daemon"
  <2> SUFFICES ASSUME reader # "daemon" PROVE ~derailed'
    OBVIOUS
  <2>1. reader = "client" /\ n = 3 - Len(acc)
    BY <1>1, <1>2 DEF StreamTypes, HeaderAsk
  <2>2. Len(h) = Len(acc) + Len(b) /\ Len(h) <= 3
    <3> DEFINE l == Len(b)
    <3>1. l \in Nat /\ l <= n
      BY <1>7
    <3> HIDE DEF l
    <3>2. Len(acc) + l <= 3
      BY <1>9, <2>1, <3>1
    <3> QED BY <1>2, <1>7, <3>2 DEF l
  <2>3. ~(Len(h) > 3)
    BY <1>7, <1>9, <2>2
  <2> QED BY <1>2, <2>1, <2>3 DEF HeaderDone
<1> SUFFICES ASSUME ~derailed' PROVE StreamTypes' /\ Streaming'
  BY <1>3, <1>9a DEF StreamInv
<1>10. /\ Len(acc) + Len(b) = 3
       /\ reader = "client" \/ frame_len(h) # 0
  <2>1. ~(Len(h) > 3) /\ (reader = "client" \/ frame_len(h) # 0)
    BY <1>2 DEF HeaderDone
  <2>2. Len(h) = Len(acc) + Len(b) /\ Len(h) >= 3 /\ Len(h) \in Nat
    BY <1>2, <1>7, LenProperties
  <2> QED BY <2>1, <2>2
<1>11. /\ f[1] \in Byte /\ f[2] \in Seq(Byte) /\ Len(f[2]) \in Nat /\ Size(f) = Len(f[2]) + 3
       /\ Wire(f)[1] = f[1] /\ Wire(f)[2] + 256 * Wire(f)[3] = Len(f[2])
       /\ f = <<f[1], f[2]>>
  BY <1>7, WireOf DEF Size, Frames
<1>12. h[1] = f[1] /\ frame_len(h) = Len(f[2])
  <2>1. Skip = 0
    BY <1>2 DEF Skip
  <2>2. 3 <= Size(f)
    BY <1>11
  <2>3. Begins(h, f) /\ Len(h) = 3
    BY <1>2, <1>7, <1>10, <2>1, <2>2
  <2>4. h[1] = Wire(f)[1] /\ h[2] = Wire(f)[2] /\ h[3] = Wire(f)[3]
    BY <2>1, <2>3 DEF Begins
  <2> QED BY <1>11, <2>4 DEF frame_len
<1>13. g \in 0..Len(all) /\ B[g] \in Nat /\ B[g + 1] = B[g] + Size(f)
  <2>1. g \in 0..Len(all) /\ (g + 1) - 1 = g
    BY <1>7, <1>9
  <2> QED BY <1>7, <1>8, <1>9, <2>1 DEF EndsAt, f
<1>14. Where(B) + Len(b) = B[g] + 3 /\ Reach(B) >= B[g] + 3
  <2> DEFINE l == Len(b)
  <2>1. Where(B) = B[g] + Len(acc)
    BY <1>2, <1>9, <1>13 DEF Where, Skip, g
  <2>2. l \in Nat /\ l <= Len(wire) /\ Len(acc) + l = 3
    BY <1>7, <1>10
  <2> HIDE DEF l
  <2>3. Where(B) + l = B[g] + 3 /\ Where(B) + (Len(wire) + Len(flying)) >= B[g] + 3
    BY <1>9, <1>13, <2>1, <2>2
  <2> QED BY <2>3 DEF l, Reach
<1>15. acc' = <<>> /\ acc' \in Seq(Byte) /\ Len(acc') = 0 /\ stage' # "closed"
  BY <1>2, EmptySeq DEF HeaderDone
<1>16. StreamTypes'
  BY <1>1, <1>2, <1>3, <1>7, <1>15 DEF StreamTypes, HeaderDone
<1>17. Handed' /\ Where(B)' = B[g] + 3 /\ Held(all)'
  <2>1. CASE reader = "client" /\ frame_len(h) = 0
    <3>1. stage' = "header" /\ got' = Append(got, <<h[1], <<>>>>)
      BY <1>2, <2>1 DEF HeaderDone
    <3>2. f[2] = <<>> /\ Size(f) = 3
      <4>1. Len(f[2]) = 0 /\ f[2] \in Seq(Byte)
        BY <1>11, <1>12, <2>1
      <4>2. f[2] = <<>>
        BY <4>1, EmptySeq
      <4> QED BY <1>11, <4>1, <4>2
    <3>3. got' = Append(got, f)
      BY <1>11, <1>12, <3>1, <3>2
    <3>4. Handed' /\ Len(got') = g + 1
      <4>1. B[g + 1] <= Reach(B)
        BY <1>13, <1>14, <3>2
      <4> QED BY <1>1, <1>3, <1>4, <1>7, <3>3, <4>1, Finished DEF f, g
    <3>5. Where(B)' = B[g] + 3
      BY <1>13, <1>15, <3>1, <3>2, <3>4 DEF Where, Skip
    <3>6. Held(all)'
      BY <1>15, <3>1 DEF Held
    <3> QED BY <3>4, <3>5, <3>6
  <2>2. CASE ~(reader = "client" /\ frame_len(h) = 0)
    <3>1. /\ stage' = "payload" /\ got' = got
          /\ need' = [ty |-> h[1], len |-> frame_len(h)]
      BY <1>2, <2>2 DEF HeaderDone
    <3>2. Handed'
      BY <1>1, <1>3, <3>1 DEF Handed
    <3>3. Where(B)' = B[g] + 3
      BY <1>13, <1>15, <3>1 DEF Where, Skip, g
    <3>4. Len(f[2]) # 0
      <4>1. CASE reader = "client"
        BY <1>12, <2>2, <4>1
      <4>2. CASE reader # "client"
        BY <1>10, <1>12, <4>2
      <4> QED BY <4>1, <4>2
    <3>5. need' = [ty |-> f[1], len |-> Len(f[2])] /\ need'.len = Len(f[2]) /\ 0 < Len(f[2])
      BY <1>11, <1>12, <3>1, <3>4
    <3>6. g < Len(all)
      BY <1>7, <1>9
    <3>7. Held(all)'
      BY <1>15, <3>1, <3>5, <3>6 DEF Held, f, g
    <3> QED BY <3>2, <3>3, <3>7
  <2> QED BY <2>1, <2>2
<1>18. Flow(all, B)'
  BY <1>1, <1>3, <1>4, <1>5, <1>6, <1>14, <1>17, ReadFlow
<1>19. Streaming'
  BY <1>15, <1>17, <1>18 DEF Streaming
<1> QED BY <1>16, <1>19

\* A payload is complete.
LEMMA PayloadStreams ==
  ASSUME StreamInv, ReadPayload
  PROVE  StreamInv'
<1> SUFFICES ASSUME ~derailed PROVE StreamTypes' /\ Streaming'
  BY DEF StreamInv, ReadPayload, PayloadDone, Consume
<1>1. StreamTypes /\ Streaming /\ Handed
  BY DEF StreamInv, Streaming
<1>2. PICK n, b :
        /\ n = PayloadAsk /\ b = Bytes(n) /\ Consume(b) /\ wire # <<>>
        /\ stage = "payload" /\ Len(acc) + Len(b) >= need.len /\ PayloadDone(b)
  BY DEF ReadPayload
<1>3. stage # "closed" /\ UNCHANGED <<reader, sent, closed, flying>>
  BY <1>2 DEF Consume
<1>4. PICK all, B : Flow(all, B)
  BY <1>1, <1>3 DEF Streaming
<1> DEFINE g == Len(got)
           f == all[g + 1]
<1>5. /\ n \in Nat /\ n > 0 /\ need.len \in Nat /\ Len(acc) + n = need.len
      /\ need.ty = f[1] /\ need.len = Len(f[2])
  BY <1>1, <1>2, <1>4, Asked
<1>6. b = Bytes(n) /\ Consume(b) /\ wire # <<>>
  BY <1>2
<1>7. /\ Len(b) \in Nat /\ Len(b) <= n /\ Len(b) <= Len(wire)
      /\ wire' \in Seq(Byte) /\ Len(wire') = Len(wire) - Len(b)
      /\ g + 1 \in 1..Len(all) /\ g \in Nat
      /\ f \in Frames /\ Size(f) \in Nat
      /\ acc \o b \in Seq(Byte) /\ Len(acc \o b) = Len(acc) + Len(b)
      /\ Skip + (Len(acc) + Len(b)) <= Size(f) => Begins(acc \o b, f)
  BY <1>1, <1>3, <1>4, <1>5, <1>6, TakeBytes
<1>8. Extends(all) /\ EndsAt(all, B) /\ Held(all)
  BY <1>4 DEF Flow
<1>9. /\ Len(acc) \in Nat /\ Len(all) \in Nat /\ Where(B) \in Nat /\ Len(wire) \in Nat
      /\ Len(flying) \in Nat /\ \A i \in 0..Len(all) : B[i] \in Nat
  BY <1>1, <1>8, Places
<1> HIDE DEF f, g
<1>10. Len(acc) + Len(b) = need.len
  <2> DEFINE l == Len(b)
             a == Len(acc)
             d == need.len
  <2>1. l \in Nat /\ a \in Nat /\ d \in Nat /\ l <= n /\ a + n = d /\ a + l >= d
    BY <1>2, <1>5, <1>7, <1>9
  <2> HIDE DEF l, a, d
  <2>2. a + l = d
    BY <1>5, <2>1
  <2> QED BY <2>2 DEF a, l, d
<1>11. /\ f[1] \in Byte /\ f[2] \in Seq(Byte) /\ Len(f[2]) \in Nat /\ Size(f) = Len(f[2]) + 3
       /\ f = <<f[1], f[2]>> /\ \A m \in 1..Len(f[2]) : Wire(f)[m + 3] = f[2][m]
  BY <1>7, WireOf DEF Size, Frames
<1>12. acc \o b = f[2]
  <2>1. Skip = 3
    BY <1>2 DEF Skip
  <2>2. Skip + (Len(acc) + Len(b)) <= Size(f)
    BY <1>5, <1>10, <1>11, <2>1
  <2>3. Begins(acc \o b, f) /\ Len(acc \o b) = Len(f[2])
    BY <1>5, <1>7, <1>10, <2>2
  <2>4. ASSUME NEW m \in 1..Len(f[2]) PROVE (acc \o b)[m] = f[2][m]
    <3>1. 3 + m = m + 3
      OBVIOUS
    <3> QED BY <1>11, <2>1, <2>3, <3>1 DEF Begins
  <2> QED BY <1>7, <1>11, <2>3, <2>4, SeqEqual
<1>13. g \in 0..Len(all) /\ B[g] \in Nat /\ B[g + 1] = B[g] + Size(f) /\ B[g + 1] \in Nat
  <2>1. g \in 0..Len(all) /\ (g + 1) - 1 = g /\ g + 1 \in 0..Len(all)
    BY <1>7, <1>9
  <2> QED BY <1>7, <1>8, <1>9, <2>1 DEF EndsAt, f
<1>14. Where(B) + Len(b) = B[g + 1] /\ Reach(B) >= B[g + 1]
  <2> DEFINE l == Len(b)
  <2>1. Where(B) = B[g] + (3 + Len(acc))
    BY <1>2 DEF Where, Skip, g
  <2> DEFINE d == need.len
             a == Len(acc)
             c == Len(wire)
  <2>2. l \in Nat /\ l <= c /\ a + l = d /\ a \in Nat /\ d \in Nat /\ c \in Nat
    BY <1>5, <1>7, <1>9, <1>10
  <2>3. B[g + 1] = B[g] + (3 + d)
    BY <1>5, <1>11, <1>13
  <2> HIDE DEF l, a, d, c
  <2>4. Where(B) = B[g] + (3 + a)
    BY <2>1 DEF a
  <2>5. Where(B) + l = B[g + 1] /\ Where(B) + (c + Len(flying)) >= B[g + 1]
    <3> DEFINE x == B[g]
               y == Where(B)
               e == B[g + 1]
               z == Len(flying)
    <3>1. x \in Nat /\ z \in Nat /\ e = x + (3 + d) /\ y = x + (3 + a)
      BY <1>9, <1>13, <2>3, <2>4
    <3> HIDE DEF x, y, e, z
    <3>2. y + l = e /\ y + (c + z) >= e
      BY <2>2, <3>1
    <3> QED BY <3>2 DEF y, e, z
  <2> QED BY <2>5 DEF l, c, Reach
<1>15. acc' = <<>> /\ acc' \in Seq(Byte) /\ Len(acc') = 0 /\ stage' \in {"header", "closed"}
  BY <1>2, EmptySeq DEF PayloadDone
<1>16. StreamTypes'
  BY <1>1, <1>3, <1>7, <1>15 DEF StreamTypes
<1>17. got' = Append(got, f)
  BY <1>2, <1>5, <1>11, <1>12 DEF PayloadDone
<1>18. Handed' /\ Len(got') = g + 1
  BY <1>1, <1>3, <1>4, <1>7, <1>14, <1>17, Finished DEF f, g
<1>19. Where(B)' = Where(B) + Len(b)
  BY <1>13, <1>14, <1>15, <1>18 DEF Where, Skip
<1>20. Held(all)'
  BY <1>15 DEF Held
<1>21. Flow(all, B)'
  BY <1>1, <1>3, <1>4, <1>5, <1>6, <1>19, <1>20, ReadFlow
<1>22. Streaming'
  BY <1>15, <1>18, <1>21 DEF Streaming
<1> QED BY <1>16, <1>22

\* The stream ends for the reader.
LEMMA EofStreams ==
  ASSUME StreamInv, ReadEof
  PROVE  StreamInv'
<1> SUFFICES ASSUME ~derailed PROVE StreamTypes' /\ Streaming'
  BY DEF StreamInv, ReadEof
<1>1. /\ closed /\ stage' = "closed" /\ acc' = <<>>
      /\ UNCHANGED <<reader, sent, closed, flying, wire, got>>
  BY DEF ReadEof
<1>2. StreamTypes /\ Streaming /\ Handed
  BY DEF StreamInv, Streaming
<1>3. StreamTypes'
  BY <1>1, <1>2, EmptySeq DEF StreamTypes
<1>4. Streaming'
  BY <1>1, <1>2 DEF Streaming, Handed
<1> QED BY <1>3, <1>4

LEMMA ReadStreams ==
  ASSUME StreamInv, Read
  PROVE  StreamInv'
BY ShortStreams, HeaderStreams, PayloadStreams, EofStreams DEF Read

\* Nobody else touches the stream.
LEMMA SameStreams ==
  ASSUME StreamInv, UNCHANGED streamVars
  PROVE  StreamInv'
<1> SUFFICES ASSUME ~derailed PROVE StreamTypes' /\ Streaming'
  BY DEF StreamInv, streamVars
<1>1. UNCHANGED <<reader, sent, closed, flying, wire, stage, acc, need, got>>
  BY DEF streamVars
<1>2. StreamTypes /\ Streaming
  BY DEF StreamInv
<1>3. StreamTypes' /\ Handed'
  BY <1>1, <1>2 DEF StreamTypes, Streaming, Handed
<1>4. ASSUME NEW all, NEW B, Flow(all, B) PROVE Flow(all, B)'
  <2>1. Extends(all)' /\ EndsAt(all, B)' /\ Held(all)' /\ Where(B)' = Where(B)
    BY <1>1, <1>4 DEF Flow, Extends, EndsAt, Size, Held, Where, Skip
  <2>2. Bounded(all, B)'
    BY <1>1, <1>4, <2>1 DEF Flow, Bounded, Reach
  <2>3. Carries(all, B, Where(B)', wire' \o flying')
    BY <1>1, <1>4, <2>1 DEF Flow
  <2> QED BY <2>1, <2>2, <2>3 DEF Flow
<1>5. Streaming'
  BY <1>1, <1>2, <1>3, <1>4 DEF Streaming
<1> QED BY <1>3, <1>5

LEMMA OneByte ==
  ASSUME NEW c \in 0..255
  PROVE  Fits(<<c>>)
<1>1. <<c>> \in Seq(0..255) /\ Len(<<c>>) = 1
  OBVIOUS
<1> QED BY <1>1 DEF Fits

\* The frames the daemon or a client sends have a type and a payload that fit.
LEMMA StepStreams == StreamInv /\ [Next]_vars => StreamInv'
<1> SUFFICES ASSUME StreamInv, [Next]_vars PROVE StreamInv'
  OBVIOUS
<1> USE ClientAssumption, PayloadsAssumption
<1>1. ASSUME NEW ty \in {RunResponse, Data, ExitFrame},
             NEW p \in Outputs \union {Ok, Refused} \union {<<c>> : c \in ExitCodes},
             DaemonSends(ty, p)
      PROVE  StreamInv'
  <2>1. ty \in Byte
    BY DEF RunResponse, Data, ExitFrame, Byte
  <2>2. Fits(p)
    <3>1. CASE p \in Outputs
      BY <3>1
    <3>2. CASE p \in {Ok, Refused}
      <4>1. PICK c \in 0..255 : p = <<c>>
        BY <3>2 DEF Ok, Refused
      <4> QED BY <4>1, OneByte
    <3>3. CASE p \in {<<c>> : c \in ExitCodes}
      <4>1. PICK c \in 0..255 : p = <<c>>
        BY <3>3
      <4> QED BY <4>1, OneByte
    <3> QED BY <3>1, <3>2, <3>3
  <2> QED BY <1>1, <2>1, <2>2, SendStreams DEF DaemonSends
<1>2. CASE DaemonCloses
  BY <1>2, CloseStreams DEF DaemonCloses
<1>3. ASSUME NEW p \in Payloads, ClientSends(Data, p) PROVE StreamInv'
  <2>1. Data \in Byte
    BY DEF Data, Byte
  <2> QED BY <1>3, <2>1, SendStreams DEF ClientSends
<1>3a. CASE ClientSends(StdinEof, <<>>)
  <2>1. StdinEof \in Byte /\ Fits(<<>>)
    BY DEF StdinEof, Byte, Fits
  <2> QED BY <1>3a, <2>1, SendStreams DEF ClientSends
<1>4. CASE ClientCloses
  BY <1>4, CloseStreams DEF ClientCloses
<1>5. CASE Arrives
  BY <1>5, ArriveStreams DEF Arrives
<1>6. CASE ReadStream
  BY <1>6, ReadStreams DEF ReadStream
<1>7. CASE Request \/ ReaderThread \/ StdoutFails \/ MainThread \/ PollFails \/ Resize
  <2>1. UNCHANGED streamVars
    BY <1>7 DEF Request, ReaderThread, ThreadEnds, TakeData, WriteStdout, Written, StdoutFails,
                MainThread, RequestFails, StartRelay, PollEnds, PollStdin, RelayStdin, StdinEnded,
                Interrupted, Join, PollFails, Resize
  <2> QED BY <2>1, SameStreams
<1>8. CASE UNCHANGED vars
  <2>1. UNCHANGED streamVars
    BY <1>8 DEF vars
  <2> QED BY <2>1, SameStreams
<1> QED BY <1>1, <1>2, <1>3, <1>3a, <1>4, <1>5, <1>6, <1>7, <1>8 DEF Next

LEMMA StreamsHold == Spec => []StreamInv
BY InitStreams, StepStreams, PTL DEF Spec

\* The first k members, as IsPrefix compares them.
LEMMA HandedIsPrefix == Handed /\ StreamTypes => IsPrefix(got, sent)
<1> SUFFICES ASSUME Handed, StreamTypes PROVE IsPrefix(got, sent)
  OBVIOUS
<1>1. got \in Seq(Frames) /\ sent \in Seq(Frames)
  BY DEF Handed, StreamTypes
<1>2. Len(got) \in Nat /\ Len(sent) \in Nat /\ Len(got) <= Len(sent)
  BY <1>1, LenProperties DEF Handed
<1>3. Len(got) \in 0..Len(got) /\ Len(got) \in 0..Len(sent)
  BY <1>2
<1>4. SubSeq(got, 1, Len(got)) = SubSeq(sent, 1, Len(got))
  <2> DEFINE a == SubSeq(got, 1, Len(got))
             b == SubSeq(sent, 1, Len(got))
  <2>1. a \in Seq(Frames) /\ Len(a) = Len(got) /\ \A i \in 1..Len(got) : a[i] = got[i]
    BY <1>1, <1>3, FirstFrames
  <2>2. b \in Seq(Frames) /\ Len(b) = Len(got) /\ \A i \in 1..Len(got) : b[i] = sent[i]
    BY <1>1, <1>3, FirstFrames
  <2> HIDE DEF a, b
  <2>3. \A i \in 1..Len(a) : a[i] = b[i]
    BY <2>1, <2>2 DEF Handed
  <2>4. a = b
    BY <2>1, <2>2, <2>3, SeqEqual
  <2> QED BY <2>4 DEF a, b
<1> QED BY <1>2, <1>4 DEF IsPrefix

\* FramesInOrder, of read_frame in libs/core/src/lib.rs and of the daemon's
\* on_session_header and on_session_payload, however the stream is cut: until
\* the daemon's reader has gone past the end of a header, the frames handed on
\* are the first of those sent.
THEOREM FramesComeInOrder == Spec => []FramesInOrder
<1>1. StreamInv => FramesInOrder
  BY HandedIsPrefix DEF StreamInv, Streaming, FramesInOrder
<1> QED BY <1>1, StreamsHold, PTL

\* The client's read_frame is never derailed: what the daemon sends comes in
\* order, however it is cut and whether or not there is a payload.
THEOREM ClientFramesComeInOrder == Spec => [](reader = "client" => IsPrefix(got, sent))
<1>1. StreamInv => (reader = "client" => IsPrefix(got, sent))
  BY HandedIsPrefix DEF StreamInv, Streaming
<1> QED BY <1>1, StreamsHold, PTL

-----------------------------------------------------------------------------
(* The client behind its reader.                                           *)

\* The exit frame is the last, and has the container's code.
ExitLast ==
  \A i \in 1..Len(sent) :
    sent[i][1] = ExitFrame => i = Len(sent) /\ \E c \in ExitCodes : sent[i][2] = <<c>>

\* Everything but the exit frame is on stdout.
AllOut == Len(sent) = handled + 1 /\ sent[Len(sent)][1] = ExitFrame /\ rest = <<>>

ClientTypes ==
  /\ sent \in Seq(Frames) /\ handled \in 0..Len(sent)
  /\ printed \in Seq(Byte) /\ rest \in Seq(Byte)
  /\ reader = "client" <=> main # "absent"

Relayed == printed \o rest = Output(SubSeq(sent, 1, handled))

Threads ==
  /\ main \in {"connecting", "asking", "absent"} => thread = "none"
  /\ thread \in {"none", "reading"} => rest = <<>>
  /\ thread = "over" => code = Failure \/ (AllOut /\ code = sent[Len(sent)][2][1])
  /\ main = "ended" =>
       \/ status = Failure
       \/ thread = "over" /\ AllOut /\ status = sent[Len(sent)][2][1]

ClientInv == ClientTypes /\ (reader = "client" => ExitLast) /\ Relayed /\ Threads

LEMMA InitClient == Init => ClientInv
<1> SUFFICES ASSUME Init PROVE ClientInv
  OBVIOUS
<1>1. /\ sent = <<>> /\ handled = 0 /\ rest = <<>> /\ printed = <<>> /\ thread = "none"
      /\ main = (IF reader = "client" THEN "connecting" ELSE "absent")
  BY DEF Init, StreamInit
<1>2. <<>> \in Seq(Frames) /\ <<>> \in Seq(Byte) /\ Len(<<>>) = 0
  BY EmptySeq
<1>3. ClientTypes
  BY <1>1, <1>2 DEF ClientTypes
<1>4. Relayed
  <2>1. SubSeq(<<>>, 1, 0) = <<>>
    OBVIOUS
  <2>2. <<>> \o <<>> = <<>>
    OBVIOUS
  <2> QED BY <1>1, <2>1, <2>2, OutputGrows DEF Relayed
<1>5. ExitLast
  BY <1>1, <1>2 DEF ExitLast
<1>6. Threads
  BY <1>1 DEF Threads
<1> QED BY <1>3, <1>4, <1>5, <1>6 DEF ClientInv

\* A sequence of bytes begins with each of its beginnings.
LEMMA Begun ==
  ASSUME NEW p \in Seq(Byte), NEW v \in Seq(Byte)
  PROVE  IsPrefix(p, p \o v)
<1>1. /\ p \o v \in Seq(Byte) /\ Len(p \o v) = Len(p) + Len(v) /\ Len(p) \in Nat /\ Len(v) \in Nat
      /\ \A i \in 1..Len(p) : (p \o v)[i] = p[i]
  BY After
<1> DEFINE w == p \o v
           a == SubSeq(p, 1, Len(p))
           b == SubSeq(w, 1, Len(p))
<1> HIDE DEF w
<1>2. /\ w \in Seq(Byte) /\ Len(p) <= Len(w) /\ Len(p) \in 0..Len(w) /\ Len(p) \in 0..Len(p)
      /\ \A i \in 1..Len(p) : w[i] = p[i]
  BY <1>1 DEF w
<1>3. a \in Seq(Byte) /\ Len(a) = Len(p) /\ \A i \in 1..Len(p) : a[i] = p[i]
  BY <1>2, Parts
<1>4. b \in Seq(Byte) /\ Len(b) = Len(p) /\ \A i \in 1..Len(p) : b[i] = w[i]
  BY <1>2, Parts
<1> HIDE DEF a, b
<1>5. a = b
  BY <1>2, <1>3, <1>4, SeqEqual
<1> QED BY <1>2, <1>5 DEF a, b, w, IsPrefix

LEMMA ClientIsRight == ClientInv => OutputBeforeStatus
<1> SUFFICES ASSUME ClientInv PROVE OutputBeforeStatus
  OBVIOUS
<1>1. /\ sent \in Seq(Frames) /\ handled \in 0..Len(sent) /\ Len(sent) \in Nat
      /\ printed \in Seq(Byte) /\ rest \in Seq(Byte)
      /\ printed \o rest = Output(SubSeq(sent, 1, handled))
  BY LenProperties DEF ClientInv, ClientTypes, Relayed
<1>2. IsPrefix(printed, Output(sent))
  <2>1. PICK u \in Seq(Byte) : Output(sent) = Output(SubSeq(sent, 1, handled)) \o u
    BY <1>1, OutputBegins
  <2>2. (printed \o rest) \o u = printed \o (rest \o u)
    BY <1>1, Grouped
  <2>3. rest \o u \in Seq(Byte)
    BY <1>1, After
  <2>4. IsPrefix(printed, printed \o (rest \o u))
    BY <1>1, <2>3, Begun
  <2> QED BY <1>1, <2>1, <2>2, <2>4
<1>3. ASSUME main = "ended", status # Failure
      PROVE  /\ sent # <<>> /\ sent[Len(sent)][1] = ExitFrame
             /\ status = sent[Len(sent)][2][1]
             /\ printed = Output(sent)
  <2>1. AllOut /\ status = sent[Len(sent)][2][1]
    BY <1>3 DEF ClientInv, Threads
  <2>2. Len(sent) = handled + 1 /\ sent[Len(sent)][1] = ExitFrame /\ rest = <<>>
    BY <2>1 DEF AllOut
  <2>3. sent # <<>> /\ handled < Len(sent) /\ handled \in Nat
    <3>1. Len(sent) # 0
      BY <1>1, <2>2
    <3> QED BY <1>1, <2>2, <3>1, EmptySeq
  <2>4. /\ SubSeq(sent, 1, handled + 1) = Append(SubSeq(sent, 1, handled), sent[handled + 1])
        /\ sent[handled + 1] \in Frames /\ SubSeq(sent, 1, handled) \in Seq(Frames)
    BY <1>1, <2>3, FirstFrames
  <2>5. SubSeq(sent, 1, handled + 1) = sent
    BY <1>1, <2>2
  <2>6. Shown(sent[handled + 1]) = <<>>
    BY <2>2 DEF Shown, Data, ExitFrame
  <2>7. Output(sent) = Output(SubSeq(sent, 1, handled)) \o <<>>
    BY <2>4, <2>5, <2>6, OutputGrows
  <2>8. printed \o rest = printed /\ printed \o <<>> = printed
    BY <1>1, <2>2, ConcatEmptySeq
  <2> QED BY <1>1, <2>1, <2>2, <2>3, <2>7, <2>8
<1> QED BY <1>2, <1>3 DEF OutputBeforeStatus

\* What does not touch the frames, the output and the threads.
LEMMA SameClient ==
  ASSUME ClientInv, UNCHANGED <<reader, sent, thread, handled, rest, printed, code, main, status>>
  PROVE  ClientInv'
<1>1. ClientTypes'
  BY DEF ClientInv, ClientTypes
<1>2. (reader = "client" => ExitLast)'
  BY DEF ClientInv, ExitLast
<1>3. Relayed'
  BY DEF ClientInv, Relayed
<1>4. Threads'
  BY DEF ClientInv, Threads, AllOut
<1> QED BY <1>1, <1>2, <1>3, <1>4 DEF ClientInv

\* The main thread goes on; it ends with what the reader thread returned, or
\* with a failure.
LEMMA MainClient ==
  ASSUME ClientInv, UNCHANGED <<reader, sent, thread, handled, rest, printed, code>>,
         main \notin {"ended", "absent"}, main' # "absent",
         main' \in {"connecting", "asking"} => thread = "none",
         main' = "ended" =>
           \/ status' = Failure
           \/ thread = "over" /\ status' = code % 256
  PROVE  ClientInv'
<1>1. ClientTypes'
  BY DEF ClientInv, ClientTypes
<1>2. (reader = "client" => ExitLast)'
  BY DEF ClientInv, ExitLast
<1>3. Relayed'
  BY DEF ClientInv, Relayed
<1>4. Threads'
  <2>1. AllOut' = AllOut
    BY DEF AllOut
  <2>2. ASSUME main' = "ended", status' # Failure
        PROVE  thread = "over" /\ AllOut /\ status' = sent[Len(sent)][2][1]
    <3>1. thread = "over" /\ status' = code % 256
      BY <2>2
    <3>2. code # Failure
      BY <2>2, <3>1 DEF Failure
    <3>3. AllOut /\ code = sent[Len(sent)][2][1]
      BY <3>1, <3>2 DEF ClientInv, Threads
    <3>4. code \in 0..255
      <4>1. reader = "client" /\ Len(sent) \in 1..Len(sent)
        BY <3>3, LenProperties DEF ClientInv, ClientTypes, AllOut
      <4>2. PICK c \in ExitCodes : sent[Len(sent)][2] = <<c>>
        BY <3>3, <4>1 DEF ClientInv, ExitLast, AllOut
      <4> QED BY <3>3, <4>2, ClientAssumption
    <3>5. \A c \in 0..255 : c % 256 = c
      OBVIOUS
    <3>6. code % 256 = code
      BY <3>4, <3>5
    <3> QED BY <3>1, <3>3, <3>6
  <2>3. /\ main' \in {"connecting", "asking", "absent"} => thread' = "none"
        /\ thread' \in {"none", "reading"} => rest' = <<>>
    BY DEF ClientInv, Threads
  <2>4. thread' = "over" => code' = Failure \/ (AllOut /\ code' = sent'[Len(sent')][2][1])
    BY DEF ClientInv, Threads
  <2> QED BY <2>1, <2>2, <2>3, <2>4 DEF Threads
<1> QED BY <1>1, <1>2, <1>3, <1>4 DEF ClientInv

\* A frame more does not change the first ones.
LEMMA FirstStay ==
  ASSUME NEW fs \in Seq(Frames), NEW f \in Frames, NEW h \in 0..Len(fs)
  PROVE  SubSeq(Append(fs, f), 1, h) = SubSeq(fs, 1, h)
<1> DEFINE gs == Append(fs, f)
           a == SubSeq(gs, 1, h)
           b == SubSeq(fs, 1, h)
<1>1. gs \in Seq(Frames) /\ Len(gs) = Len(fs) + 1 /\ Len(fs) \in Nat
      /\ \A i \in 1..Len(fs) : gs[i] = fs[i]
  BY AppendProperties
<1>2. b \in Seq(Frames) /\ Len(b) = h /\ \A i \in 1..h : b[i] = fs[i]
  BY FirstFrames
<1> HIDE DEF gs, b
<1>3. h \in 0..Len(gs)
  BY <1>1
<1>4. a \in Seq(Frames) /\ Len(a) = h /\ \A i \in 1..h : a[i] = gs[i]
  BY <1>1, <1>3, FirstFrames
<1> HIDE DEF a
<1>5. \A i \in 1..h : a[i] = b[i]
  BY <1>1, <1>2, <1>4
<1>6. a = b
  BY <1>2, <1>4, <1>5, SeqEqual
<1> QED BY <1>6 DEF a, b, gs

\* A frame is sent: by the daemon, which sends none after the exit frame, or
\* by a client to the daemon's reader.
LEMMA SendClient ==
  ASSUME ClientInv, NEW ty \in Byte, NEW p, Fits(p), SendFrame(ty, p),
         UNCHANGED <<threadVars, mainVars>>,
         reader = "client" => Follows(ty, p) /\ (ty = ExitFrame => p \in {<<c>> : c \in ExitCodes})
  PROVE  ClientInv'
<1> DEFINE f == <<ty, p>>
           n == Len(sent)
<1>1. /\ sent' = Append(sent, f) /\ reader' = reader
      /\ UNCHANGED <<thread, handled, rest, printed, code, main, status>>
  BY DEF SendFrame, threadVars, mainVars
<1>2. f \in Frames /\ f[1] = ty /\ f[2] = p
  <2>1. f[1] = ty /\ f[2] = p
    OBVIOUS
  <2>2. p \in Seq(Byte)
    BY DEF Fits, Byte
  <2> QED BY <2>1, <2>2 DEF Frames
<1> HIDE DEF f
<1>3. sent \in Seq(Frames) /\ handled \in 0..n
  BY DEF ClientInv, ClientTypes
<1>4. /\ n \in Nat /\ sent' \in Seq(Frames) /\ Len(sent') = n + 1 /\ sent'[n + 1] = f
      /\ \A i \in 1..n : sent'[i] = sent[i]
  BY <1>1, <1>2, <1>3, AppendProperties
<1>5. ClientTypes'
  <2>1. handled' \in 0..(n + 1)
    BY <1>1, <1>3, <1>4
  <2> QED BY <1>1, <1>4, <2>1 DEF ClientInv, ClientTypes
<1>6. Relayed'
  <2>1. SubSeq(sent', 1, handled) = SubSeq(sent, 1, handled)
    BY <1>1, <1>2, <1>3, FirstStay
  <2> QED BY <1>1, <2>1 DEF ClientInv, Relayed
<1>7. ASSUME reader = "client", n # 0 PROVE sent[n][1] # ExitFrame
  <2>1. sent # <<>>
    BY <1>7
  <2> QED BY <1>7, <2>1 DEF Follows
<1>8. ASSUME reader = "client" PROVE ExitLast'
  <2> SUFFICES ASSUME NEW i \in 1..(n + 1), sent'[i][1] = ExitFrame
               PROVE  i = n + 1 /\ \E c \in ExitCodes : sent'[i][2] = <<c>>
    BY <1>4 DEF ExitLast
  <2>1. i = n + 1
    <3> SUFFICES ASSUME i # n + 1 PROVE FALSE
      OBVIOUS
    <3>1. i \in 1..n /\ n # 0
      BY <1>4
    <3>2. sent[i][1] = ExitFrame
      BY <1>4, <3>1
    <3>3. i = n
      BY <1>8, <3>1, <3>2 DEF ClientInv, ExitLast
    <3> QED BY <1>7, <1>8, <3>1, <3>2, <3>3
  <2>2. ty = ExitFrame /\ sent'[i][2] = p
    BY <1>2, <1>4, <2>1
  <2> QED BY <1>8, <2>1, <2>2
<1>9. Threads'
  <2>1. CASE reader = "client"
    <3>1. ~AllOut
      <4> SUFFICES ASSUME AllOut PROVE FALSE
        OBVIOUS
      <4>1. n # 0 /\ sent[n][1] = ExitFrame
        BY <1>3, <1>4 DEF AllOut
      <4> QED BY <1>7, <2>1, <4>1
    <3> QED BY <1>1, <3>1 DEF ClientInv, Threads
  <2>2. CASE reader # "client"
    <3>1. main = "absent" /\ thread = "none"
      BY <2>2 DEF ClientInv, ClientTypes, Threads
    <3> QED BY <1>1, <3>1 DEF ClientInv, Threads
  <2> QED BY <2>1, <2>2
<1> QED BY <1>1, <1>5, <1>6, <1>8, <1>9 DEF ClientInv

\* The frame dealt with next is the one that was sent next.
LEMMA NextFrame ==
  ASSUME StreamInv, ClientInv, HasFrame
  PROVE  /\ reader = "client" /\ handled \in Nat /\ handled + 1 \in 1..Len(sent)
         /\ Frame = sent[handled + 1] /\ Frame \in Frames
         /\ Output(SubSeq(sent, 1, handled + 1)) = (printed \o rest) \o Shown(Frame)
<1>1. reader = "client" /\ Len(got) > handled
  BY DEF HasFrame
<1>2. StreamTypes /\ Handed
  BY <1>1 DEF StreamInv, Streaming
<1>3. handled \in Nat /\ Len(got) \in Nat /\ Len(sent) \in Nat /\ Len(got) <= Len(sent)
      /\ handled \in 0..Len(sent) /\ sent \in Seq(Frames)
  <2>1. sent \in Seq(Frames) /\ got \in Seq(Frames) /\ handled \in 0..Len(sent)
    BY <1>2 DEF ClientInv, ClientTypes, Handed
  <2> QED BY <1>2, <2>1, LenProperties DEF Handed
<1>4. handled + 1 \in 1..Len(sent) /\ handled + 1 \in 1..Len(got) /\ handled < Len(sent)
  BY <1>1, <1>3
<1>5. Frame = sent[handled + 1]
  BY <1>2, <1>4 DEF Frame, Handed
<1>6. /\ SubSeq(sent, 1, handled + 1) = Append(SubSeq(sent, 1, handled), sent[handled + 1])
      /\ sent[handled + 1] \in Frames /\ SubSeq(sent, 1, handled) \in Seq(Frames)
  BY <1>3, <1>4, FirstFrames
<1>7. Output(SubSeq(sent, 1, handled + 1)) = Output(SubSeq(sent, 1, handled)) \o Shown(Frame)
  BY <1>5, <1>6, OutputGrows
<1>8. Output(SubSeq(sent, 1, handled)) = printed \o rest
  BY DEF ClientInv, Relayed
<1> QED BY <1>1, <1>3, <1>4, <1>5, <1>6, <1>7, <1>8

LEMMA RelayClient ==
  ASSUME StreamInv, ClientInv, StartRelay
  PROVE  ClientInv'
<1>1. /\ main = "asking" /\ HasFrame /\ Frame = <<RunResponse, Ok>>
      /\ handled' = handled + 1 /\ main' = "polling" /\ thread' = "reading"
      /\ UNCHANGED <<reader, sent, rest, printed, code, status>>
  BY DEF StartRelay, streamVars
<1>2. /\ reader = "client" /\ handled \in Nat /\ handled + 1 \in 1..Len(sent)
      /\ Output(SubSeq(sent, 1, handled + 1)) = (printed \o rest) \o Shown(Frame)
  BY <1>1, NextFrame
<1>3. Shown(Frame) = <<>>
  BY <1>1 DEF Shown, RunResponse, Data
<1>4. rest = <<>> /\ printed \in Seq(Byte) /\ rest \in Seq(Byte)
  BY <1>1 DEF ClientInv, Threads, ClientTypes
<1>5. (printed \o rest) \o <<>> = printed \o rest
  BY <1>4, After, ConcatEmptySeq
<1>6. Relayed'
  BY <1>1, <1>2, <1>3, <1>5 DEF Relayed
<1>7. ClientTypes'
  <2>1. handled' \in 0..Len(sent')
    BY <1>1, <1>2
  <2> QED BY <1>1, <1>2, <2>1 DEF ClientInv, ClientTypes
<1>8. Threads'
  BY <1>1, <1>4 DEF Threads
<1>9. (reader = "client" => ExitLast)'
  BY <1>1 DEF ClientInv, ExitLast
<1> QED BY <1>6, <1>7, <1>8, <1>9 DEF ClientInv

\* The reader thread takes a frame of data, or writes some, or has written it.
LEMMA PrintClient ==
  ASSUME StreamInv, ClientInv, TakeData \/ WriteStdout \/ Written
  PROVE  ClientInv'
<1>1. UNCHANGED <<reader, sent, main, status, code>>
  BY DEF TakeData, WriteStdout, Written, streamVars, mainVars
<1>2. thread \notin {"none", "over"} /\ thread' \in {"reading", "printing"}
  BY DEF TakeData, WriteStdout, Written
<1>3. ClientTypes /\ Relayed /\ printed \in Seq(Byte) /\ rest \in Seq(Byte)
  BY DEF ClientInv, ClientTypes
<1>4. (reader = "client" => ExitLast)'
  BY <1>1 DEF ClientInv, ExitLast
<1>5. thread' = "reading" => rest' = <<>>
  BY DEF TakeData, WriteStdout, Written
<1>6. Threads'
  <2>1. main \notin {"connecting", "asking", "absent"}
    BY <1>2 DEF ClientInv, Threads
  <2>2. main = "ended" => status = Failure
    BY <1>2 DEF ClientInv, Threads
  <2> QED BY <1>1, <1>2, <1>5, <2>1, <2>2 DEF Threads
<1>7. CASE TakeData
  <2>1. /\ HasFrame /\ Frame[1] = Data /\ handled' = handled + 1 /\ rest' = Frame[2]
        /\ printed' = printed /\ rest = <<>>
    BY <1>7 DEF TakeData, ClientInv, Threads
  <2>2. /\ handled \in Nat /\ handled + 1 \in 1..Len(sent) /\ Frame \in Frames
        /\ Output(SubSeq(sent, 1, handled + 1)) = (printed \o rest) \o Shown(Frame)
    BY <2>1, NextFrame
  <2>3. Shown(Frame) = rest' /\ rest' \in Seq(Byte)
    BY <2>1, <2>2, WireOf DEF Shown
  <2>4. printed \o rest = printed
    BY <1>3, <2>1, ConcatEmptySeq
  <2>5. Relayed'
    BY <1>1, <2>1, <2>2, <2>3, <2>4 DEF Relayed
  <2>6. handled' \in 0..Len(sent')
    BY <1>1, <2>1, <2>2
  <2>7. ClientTypes'
    BY <1>1, <1>3, <2>1, <2>3, <2>6 DEF ClientTypes
  <2> QED BY <1>4, <1>6, <2>5, <2>7 DEF ClientInv
<1>8. CASE WriteStdout
  <2>1. PICK n \in 1..Len(rest) : /\ printed' = printed \o SubSeq(rest, 1, n)
                                  /\ rest' = SubSeq(rest, n + 1, Len(rest))
    BY <1>8 DEF WriteStdout
  <2>2. handled' = handled
    BY <1>8 DEF WriteStdout
  <2> DEFINE a == SubSeq(rest, 1, n)
             b == SubSeq(rest, n + 1, Len(rest))
  <2>3. n \in 0..Len(rest)
    OBVIOUS
  <2>4. a \in Seq(Byte) /\ b \in Seq(Byte) /\ a \o b = rest
    BY <1>3, <2>3, Parts
  <2>5. printed' = printed \o a /\ rest' = b
    BY <2>1
  <2> HIDE DEF a, b
  <2>6. (printed \o a) \o b = printed \o (a \o b) /\ printed \o a \in Seq(Byte)
    <3>1. (printed \o a) \o b = printed \o (a \o b)
      BY <1>3, <2>4, Grouped
    <3>2. printed \o a \in Seq(Byte)
      BY <1>3, <2>4, After
    <3> QED BY <3>1, <3>2
  <2>7. Relayed'
    BY <1>1, <1>3, <2>2, <2>4, <2>5, <2>6 DEF Relayed
  <2>8. ClientTypes'
    BY <1>1, <1>3, <2>2, <2>4, <2>5, <2>6 DEF ClientTypes
  <2> QED BY <1>4, <1>6, <2>7, <2>8 DEF ClientInv
<1>9. CASE Written
  <2>1. UNCHANGED <<handled, rest, printed>>
    BY <1>9 DEF Written
  <2>2. Relayed' /\ ClientTypes'
    BY <1>1, <1>3, <2>1 DEF Relayed, ClientTypes
  <2> QED BY <1>4, <1>6, <2>2 DEF ClientInv
<1> QED BY <1>7, <1>8, <1>9

\* The reader thread returns.
LEMMA DoneClient ==
  ASSUME StreamInv, ClientInv, ThreadEnds \/ StdoutFails
  PROVE  ClientInv'
<1>1. /\ thread \in {"reading", "printing"} /\ thread' = "over"
      /\ UNCHANGED <<reader, sent, main, status, handled, rest, printed>>
  BY DEF ThreadEnds, StdoutFails, Done, streamVars, mainVars
<1>2. code' = Failure \/ (AllOut /\ code' = sent[Len(sent)][2][1])
  <2>1. CASE StdoutFails
    BY <2>1 DEF StdoutFails, Done
  <2>2. CASE ThreadEnds
    <3>1. code' = Verdict /\ thread = "reading"
      BY <2>2 DEF ThreadEnds, Done
    <3>2. CASE HasFrame /\ Frame[1] = ExitFrame /\ Frame[2] # <<>>
      <4>1. /\ reader = "client" /\ handled \in Nat /\ handled + 1 \in 1..Len(sent)
            /\ Frame = sent[handled + 1]
        BY <3>2, NextFrame
      <4>2. handled + 1 = Len(sent)
        BY <3>2, <4>1 DEF ClientInv, ExitLast
      <4>3. rest = <<>>
        BY <3>1 DEF ClientInv, Threads
      <4>4. code' = Frame[2][1]
        BY <3>1, <3>2 DEF Verdict
      <4> QED BY <3>2, <4>1, <4>2, <4>3, <4>4 DEF AllOut
    <3>3. CASE ~(HasFrame /\ Frame[1] = ExitFrame /\ Frame[2] # <<>>)
      BY <3>1, <3>3 DEF Verdict
    <3> QED BY <3>2, <3>3
  <2> QED BY <2>1, <2>2
<1>3. ClientTypes' /\ Relayed'
  BY <1>1 DEF ClientInv, ClientTypes, Relayed
<1>4. (reader = "client" => ExitLast)'
  BY <1>1 DEF ClientInv, ExitLast
<1>5. Threads'
  <2>1. main \notin {"connecting", "asking", "absent"}
    BY <1>1 DEF ClientInv, Threads
  <2>2. main = "ended" => status = Failure
    BY <1>1 DEF ClientInv, Threads
  <2>3. AllOut' = AllOut
    BY <1>1 DEF AllOut
  <2> QED BY <1>1, <1>2, <2>1, <2>2, <2>3 DEF Threads
<1> QED BY <1>3, <1>4, <1>5 DEF ClientInv

LEMMA StepClient == StreamInv /\ ClientInv /\ [Next]_vars => ClientInv'
<1> SUFFICES ASSUME StreamInv, ClientInv, [Next]_vars PROVE ClientInv'
  OBVIOUS
<1> USE ClientAssumption, PayloadsAssumption
<1>1. ASSUME NEW ty \in {RunResponse, Data, ExitFrame},
             NEW p \in Outputs \union {Ok, Refused} \union {<<c>> : c \in ExitCodes},
             DaemonSends(ty, p)
      PROVE  ClientInv'
  <2>1. ty \in Byte
    BY DEF RunResponse, Data, ExitFrame, Byte
  <2>2. Fits(p)
    <3>1. CASE p \in Outputs
      BY <3>1
    <3>2. CASE p \in {Ok, Refused}
      <4>1. PICK c \in 0..255 : p = <<c>>
        BY <3>2 DEF Ok, Refused
      <4> QED BY <4>1, OneByte
    <3>3. CASE p \in {<<c>> : c \in ExitCodes}
      <4>1. PICK c \in 0..255 : p = <<c>>
        BY <3>3
      <4> QED BY <4>1, OneByte
    <3> QED BY <3>1, <3>2, <3>3
  <2>3. SendFrame(ty, p) /\ Follows(ty, p) /\ UNCHANGED <<threadVars, mainVars>>
    BY <1>1 DEF DaemonSends
  <2>4. ty = ExitFrame => p \in {<<c>> : c \in ExitCodes}
    BY <2>3 DEF Follows, ExitFrame, RunResponse, Data
  <2> QED BY <2>1, <2>2, <2>3, <2>4, SendClient
<1>2. ASSUME NEW p \in Payloads, ClientSends(Data, p) PROVE ClientInv'
  <2>1. Data \in Byte /\ Fits(p)
    BY DEF Data, Byte
  <2>2. SendFrame(Data, p) /\ reader # "client" /\ UNCHANGED <<threadVars, mainVars>>
    BY <1>2 DEF ClientSends
  <2> QED BY <2>1, <2>2, SendClient
<1>2a. CASE ClientSends(StdinEof, <<>>)
  <2>1. StdinEof \in Byte /\ Fits(<<>>)
    BY DEF StdinEof, Byte, Fits
  <2>2. SendFrame(StdinEof, <<>>) /\ reader # "client" /\ UNCHANGED <<threadVars, mainVars>>
    BY <1>2a DEF ClientSends
  <2> QED BY <2>1, <2>2, SendClient
<1>3. CASE DaemonCloses \/ ClientCloses \/ Arrives \/ ReadStream
  <2>1. UNCHANGED <<reader, sent, threadVars, mainVars>>
    BY <1>3 DEF DaemonCloses, ClientCloses, Arrives, ReadStream, Close, Arrive, Read,
                ReadHeaderShort, ReadHeader, ReadPayloadShort, ReadPayload, ReadEof, Consume
  <2> QED BY <2>1, SameClient DEF threadVars, mainVars
<1>4. CASE Request
  <2>1. /\ UNCHANGED <<reader, sent, thread, handled, rest, printed, code>>
        /\ main = "connecting" /\ main' \in {"asking", "ended"}
        /\ main' = "ended" => status' = Failure
    BY <1>4 DEF Request, Ends, streamVars, threadVars
  <2>2. thread = "none"
    BY <2>1 DEF ClientInv, Threads
  <2> QED BY <2>1, <2>2, MainClient
<1>5. CASE RequestFails
  <2>1. /\ UNCHANGED <<reader, sent, thread, handled, rest, printed, code>>
        /\ main = "asking" /\ main' = "ended" /\ status' = Failure
    BY <1>5 DEF RequestFails, Ends, streamVars, threadVars
  <2> QED BY <2>1, MainClient
<1>6. CASE Join
  <2>1. /\ UNCHANGED <<reader, sent, thread, handled, rest, printed, code>>
        /\ main = "joining" /\ thread = "over" /\ main' = "ended" /\ status' = code % 256
    BY <1>6 DEF Join, Ends, streamVars, threadVars
  <2> QED BY <2>1, MainClient
<1>7. CASE PollEnds \/ PollStdin \/ RelayStdin \/ StdinEnded \/ Interrupted \/ PollFails \/ Resize
  <2>1. /\ UNCHANGED <<reader, sent, thread, handled, rest, printed, code>>
        /\ main \in {"polling", "reading", "interrupted"}
        /\ main' \in {"polling", "reading", "interrupted", "joining"}
    BY <1>7 DEF PollEnds, PollStdin, RelayStdin, StdinEnded, Interrupted, PollFails, Resize,
                Leave, streamVars, threadVars
  <2> QED BY <2>1, MainClient
<1>8. CASE StartRelay
  BY <1>8, RelayClient
<1>9. CASE ReaderThread \/ StdoutFails
  BY <1>9, PrintClient, DoneClient DEF ReaderThread
<1>10. CASE UNCHANGED vars
  <2>1. UNCHANGED <<reader, sent, threadVars, mainVars>>
    BY <1>10 DEF vars, streamVars
  <2> QED BY <2>1, SameClient DEF threadVars, mainVars
<1> QED BY <1>1, <1>2, <1>2a, <1>3, <1>4, <1>5, <1>6, <1>7, <1>8, <1>9, <1>10 DEF Next, MainThread

\* OutputBeforeStatus, of run_attach and attach_container in src/main.rs: stdout
\* has what the container printed and the exit status comes after all of it,
\* wherever the stream is cut and whichever thread gets on.
THEOREM OutputComesFirst == Spec => []OutputBeforeStatus
BY InitClient, StepClient, ClientIsRight, StreamsHold, PTL DEF Spec
=============================================================================
