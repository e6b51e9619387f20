---------------------------- MODULE FileIoProofs ----------------------------
(***************************************************************************)
(* Proofs about the filedes operations of programs/utils.c, for files,     *)
(* counts and offsets of every size and every way in which the kernel      *)
(* splits a transfer.                                                      *)
(***************************************************************************)
EXTENDS FileIo, SequenceTheorems, TLAPS

Writes == {"full_write", "full_pwrite"}

TypeOK ==
  /\ pc \in {"idle", "loop"} /\ op \in Ops \cup {"none", "preallocate"}
  /\ fd \in {"closed", "read", "write"}
  /\ file \in Seq(Int) /\ buf \in Seq(Int) /\ stream \in Seq(Int)
  /\ fpos \in Nat /\ offset \in Nat /\ count \in Nat /\ req \in Nat /\ calls \in Nat
  /\ before \in [file : Seq(Int), fpos : Nat]
  /\ shared \in BOOLEAN

\* Which calls go with which kind of descriptor, and that there is no call
\* before the file was opened or after one failed.
CallInv ==
  /\ calls = 0 => op = "none" /\ pc = "idle" /\ fd = "closed" /\ fpos = 0 /\ stream = <<>>
  /\ pc = "loop" => op \in Ops /\ fd # "closed" /\ code = NoErrno
  /\ fd = "read" => op \in {"none", "read_callback"}
  /\ fd = "write" => op # "read_callback"
  /\ op = "none" => fpos = 0 /\ stream = <<>>

\* What a loop has transferred and what is left make up the request.
LoopInv ==
  /\ pc = "loop" => Len(buf) + count = req
  /\ op = "read_callback" /\ pc = "idle" /\ fd # "closed" => (code = NoErrno <=> Len(buf) = req)
  /\ op \in Writes /\ pc = "idle" /\ fd # "closed" => (code = NoErrno => Len(buf) = req)
  /\ op \in Writes => Len(buf) <= req

\* The bytes delivered are the file's, in order: those of the calls before and
\* those of the current one.
ReadInv ==
  fd = "read" /\ ~shared =>
    /\ \A k \in 1 .. Len(stream) : k <= Len(file) /\ stream[k] = file[k]
    /\ pc = "loop" =>
         /\ fpos = Len(stream) + Len(buf)
         /\ \A k \in 1 .. Len(buf) :
              Len(stream) + k <= Len(file) /\ buf[k] = file[Len(stream) + k]
    /\ pc = "idle" /\ code = NoErrno => fpos = Len(stream)

\* What was written so far is the start of the buffer, and it is in its place.
WriteInv ==
  op \in Writes =>
    /\ \A k \in 1 .. Len(buf) : buf[k] = -k
    /\ Len(buf) <= offset
    /\ op = "full_write" => fpos = before.fpos + Len(buf)
    /\ ~shared => file = Overwritten(before.file, IF op = "full_write" THEN before.fpos
                                                  ELSE offset - Len(buf), buf)

PreallocInv ==
  op = "preallocate" =>
    /\ pc = "idle"
    /\ \A k \in 1 .. Len(before.file) : k <= Len(file) /\ file[k] = before.file[k]
    /\ fd = "write" /\ code = NoErrno => Len(file) >= req

IInv == TypeOK /\ CallInv /\ LoopInv /\ ReadInv /\ WriteInv /\ PreallocInv

----------------------------------------------------------------------------
\* Lemmas about sequences.

LEMMA FunctionIsSeq ==
  ASSUME NEW n \in Nat, NEW g \in [1 .. n -> Int]
  PROVE  g \in Seq(Int) /\ Len(g) = n
<1>1. g \in Seq(Int)
  BY SeqDef
<1>2. Len(g) \in Nat /\ DOMAIN g = 1 .. Len(g) /\ DOMAIN g = 1 .. n
  BY <1>1, LenProperties
<1> QED
  BY <1>1, <1>2

LEMMA PrefixSubSeq ==
  ASSUME NEW s \in Seq(Int), NEW t \in Seq(Int),
         \A k \in 1 .. Len(s) : k <= Len(t) /\ s[k] = t[k]
  PROVE  Len(s) <= Len(t) /\ s = SubSeq(t, 1, Len(s))
<1>1. Len(s) \in Nat /\ Len(t) \in Nat
  BY LenProperties
<1>2. Len(s) <= Len(t)
  BY <1>1
<1> DEFINE u == SubSeq(t, 1, Len(s))
<1>3. \A i \in 1 .. Len(s) : t[i] \in Int
  BY <1>1, <1>2, ElementOfSeq
<1>4. /\ u \in Seq(Int) /\ Len(u) = Len(s)
      /\ \A i \in 1 .. Len(s) : u[i] = t[i]
  BY <1>1, <1>3, SubSeqProperties
<1>5. s = u
  BY <1>4, SeqEqual
<1> QED
  BY <1>2, <1>5

LEMMA OverwrittenIs ==
  ASSUME NEW f \in Seq(Int), NEW off \in Nat, NEW data \in Seq(Int)
  PROVE  LET g == Overwritten(f, off, data)
         IN  /\ g \in Seq(Int)
             /\ data = <<>> => g = f
             /\ data # <<>> =>
                  Len(g) = IF Len(f) > off + Len(data) THEN Len(f) ELSE off + Len(data)
             /\ data # <<>> => \A i \in 1 .. Len(g) :
                  g[i] = IF i > off /\ i <= off + Len(data) THEN data[i - off]
                         ELSE IF i <= Len(f) THEN f[i] ELSE 0
<1>1. CASE data = <<>>
  BY <1>1 DEF Overwritten
<1>2. CASE data # <<>>
  <2> DEFINE n == IF Len(f) > off + Len(data) THEN Len(f) ELSE off + Len(data)
             e(i) == IF i > off /\ i <= off + Len(data) THEN data[i - off]
                     ELSE IF i <= Len(f) THEN f[i] ELSE 0
             g == [i \in 1 .. n |-> e(i)]
  <2>1. Len(f) \in Nat /\ Len(data) \in Nat /\ n \in Nat
    BY LenProperties
  <2>2. ASSUME NEW i \in 1 .. n PROVE e(i) \in Int
    <3>1. CASE i > off /\ i <= off + Len(data)
      <4>1. i - off \in 1 .. Len(data)
        BY <2>1, <3>1
      <4> QED
        BY <3>1, <4>1, ElementOfSeq
    <3>2. CASE ~(i > off /\ i <= off + Len(data)) /\ i <= Len(f)
      <4>1. i \in 1 .. Len(f)
        BY <2>1, <3>2
      <4> QED
        BY <3>2, <4>1, ElementOfSeq
    <3> QED
      BY <3>1, <3>2
  <2>3. Overwritten(f, off, data) = g
    BY <1>2 DEF Overwritten
  <2> HIDE DEF n, e
  <2>4. g \in [1 .. n -> Int]
    BY <2>2
  <2>5. g \in Seq(Int) /\ Len(g) = n
    BY <2>1, <2>4, FunctionIsSeq
  <2>6. \A i \in 1 .. n : g[i] = e(i)
    OBVIOUS
  <2> HIDE DEF g
  <2> QED
    BY <1>2, <2>3, <2>5, <2>6 DEF n, e
<1> QED
  BY <1>1, <1>2

\* Writing b and then d behind it is writing the two in one go.
LEMMA OverwrittenTwice ==
  ASSUME NEW f \in Seq(Int), NEW off \in Nat, NEW b \in Seq(Int), NEW d \in Seq(Int),
         d # <<>>
  PROVE  Overwritten(Overwritten(f, off, b), off + Len(b), d) = Overwritten(f, off, b \o d)
<1> DEFINE g == Overwritten(f, off, b)
           h == Overwritten(g, off + Len(b), d)
           c == b \o d
           w == Overwritten(f, off, c)
<1>1. /\ Len(f) \in Nat /\ Len(b) \in Nat /\ Len(d) \in Nat \ {0}
      /\ (b = <<>> => Len(b) = 0) /\ (b # <<>> => Len(b) > 0)
  BY LenProperties, EmptySeq
<1>2. /\ c \in Seq(Int) /\ Len(c) = Len(b) + Len(d) /\ c # <<>>
      /\ \A i \in 1 .. Len(b) + Len(d) : c[i] = IF i <= Len(b) THEN b[i] ELSE d[i - Len(b)]
  <2>1. /\ c \in Seq(Int) /\ Len(c) = Len(b) + Len(d)
        /\ \A i \in 1 .. Len(b) + Len(d) : c[i] = IF i <= Len(b) THEN b[i] ELSE d[i - Len(b)]
    BY ConcatProperties
  <2>2. c # <<>>
    BY <1>1, <2>1, EmptySeq
  <2> QED
    BY <2>1, <2>2
<1>3. g \in Seq(Int) /\ off + Len(b) \in Nat
  BY <1>1, OverwrittenIs
<1>4. /\ b = <<>> => g = f
      /\ b # <<>> => Len(g) = IF Len(f) > off + Len(b) THEN Len(f) ELSE off + Len(b)
      /\ b # <<>> => \A i \in 1 .. Len(g) :
           g[i] = IF i > off /\ i <= off + Len(b) THEN b[i - off]
                  ELSE IF i <= Len(f) THEN f[i] ELSE 0
  BY OverwrittenIs
<1>5. /\ h \in Seq(Int)
      /\ Len(h) = IF Len(g) > off + Len(b) + Len(d) THEN Len(g) ELSE off + Len(b) + Len(d)
      /\ \A i \in 1 .. Len(h) :
           h[i] = IF i > off + Len(b) /\ i <= off + Len(b) + Len(d)
                  THEN d[i - (off + Len(b))]
                  ELSE IF i <= Len(g) THEN g[i] ELSE 0
  <2> HIDE DEF g
  <2>1. /\ h \in Seq(Int)
        /\ Len(h) = IF Len(g) > (off + Len(b)) + Len(d) THEN Len(g)
                    ELSE (off + Len(b)) + Len(d)
    BY <1>3, OverwrittenIs
  <2>2. \A i \in 1 .. Len(h) :
          h[i] = IF i > off + Len(b) /\ i <= (off + Len(b)) + Len(d)
                 THEN d[i - (off + Len(b))]
                 ELSE IF i <= Len(g) THEN g[i] ELSE 0
    BY <1>3, OverwrittenIs
  <2> QED
    BY <2>1, <2>2
<1>6. /\ w \in Seq(Int)
      /\ Len(w) = IF Len(f) > off + Len(c) THEN Len(f) ELSE off + Len(c)
      /\ \A i \in 1 .. Len(w) :
           w[i] = IF i > off /\ i <= off + Len(c) THEN c[i - off]
                  ELSE IF i <= Len(f) THEN f[i] ELSE 0
  <2> HIDE DEF c
  <2> QED
    BY <1>2, OverwrittenIs
<1> HIDE DEF g, h, c, w
<1>7. Len(g) \in Nat /\ Len(h) \in Nat /\ Len(w) \in Nat
  BY <1>3, <1>5, <1>6, LenProperties
\* What <1>4 says of g, for an empty b as well
<1>8. /\ Len(g) = IF Len(b) > 0 /\ off + Len(b) > Len(f) THEN off + Len(b) ELSE Len(f)
      /\ \A i \in 1 .. Len(g) :
           /\ i > off /\ i <= off + Len(b) => g[i] = b[i - off]
           /\ ~(i > off /\ i <= off + Len(b)) => g[i] = IF i <= Len(f) THEN f[i] ELSE 0
  <2>1. CASE b = <<>>
    <3>1. Len(b) = 0 /\ g = f
      BY <1>1, <1>4, <2>1
    <3>2. \A i \in 1 .. Len(g) : i \in Nat /\ i <= Len(f) /\ ~(i > off /\ i <= off + Len(b))
      BY <1>1, <3>1
    <3> QED
      BY <1>1, <3>1, <3>2
  <2>2. CASE b # <<>>
    <3>1. Len(b) > 0
      BY <1>1, <2>2
    <3> QED
      BY <1>1, <1>4, <2>2, <3>1
  <2> QED
    BY <2>1, <2>2
<1>9. Len(h) = Len(w)
  BY <1>1, <1>2, <1>5, <1>6, <1>7, <1>8
<1>10. ASSUME NEW i \in 1 .. Len(h) PROVE h[i] = w[i]
  <2>0. i \in Nat /\ i >= 1 /\ i <= Len(h) /\ i \in 1 .. Len(w)
    BY <1>7, <1>9
  <2>1. CASE i > off + Len(b) /\ i <= off + Len(b) + Len(d)
    <3>1. h[i] = d[i - (off + Len(b))]
      BY <1>5, <2>0, <2>1
    <3>2. w[i] = c[i - off]
      <4>1. i > off /\ i <= off + Len(c)
        BY <1>1, <1>2, <2>0, <2>1
      <4> QED
        BY <1>6, <2>0, <4>1
    <3>3. c[i - off] = d[(i - off) - Len(b)]
      <4>1. i - off \in 1 .. Len(b) + Len(d) /\ ~(i - off <= Len(b))
        BY <1>1, <2>0, <2>1
      <4> QED
        BY <1>2, <4>1
    <3>4. (i - off) - Len(b) = i - (off + Len(b))
      BY <1>1, <2>0
    <3> QED
      BY <3>1, <3>2, <3>3, <3>4
  <2>2. CASE i > off + Len(b) + Len(d)
    <3>0. Len(g) > off + Len(b) + Len(d)
      BY <1>1, <1>5, <1>7, <2>0, <2>2
    <3>1. i <= Len(g) /\ i <= Len(f)
      <4>1. i <= Len(g)
        BY <1>5, <2>0, <3>0
      <4>2. Len(g) = Len(f)
        BY <1>1, <1>8, <3>0
      <4> QED
        BY <4>1, <4>2
    <3>2. h[i] = g[i]
      <4>1. ~(i <= off + Len(b) + Len(d))
        BY <1>1, <2>0, <2>2
      <4>2. h[i] = IF i > off + Len(b) /\ i <= off + Len(b) + Len(d)
                   THEN d[i - (off + Len(b))]
                   ELSE IF i <= Len(g) THEN g[i] ELSE 0
        BY Zenon, <1>5
      <4> QED
        BY Zenon, <3>1, <4>1, <4>2
    <3>3. g[i] = f[i]
      <4>1. i \in 1 .. Len(g) /\ ~(i <= off + Len(b))
        BY <1>1, <1>7, <2>0, <2>2, <3>1
      <4> QED
        BY <1>8, <3>1, <4>1
    <3>4. w[i] = f[i]
      <4>1. ~(i <= off + Len(c))
        BY <1>1, <1>2, <2>0, <2>2
      <4> QED
        BY <1>6, <2>0, <3>1, <4>1
    <3> QED
      BY <3>2, <3>3, <3>4
  <2>3. CASE i <= off + Len(b) /\ i > off
    <3>1. i <= Len(g) /\ ~(i > off + Len(b))
      BY <1>1, <1>7, <1>8, <2>0, <2>3
    <3>2. h[i] = g[i]
      BY <1>5, <2>0, <3>1
    <3>3. g[i] = b[i - off]
      BY <1>7, <1>8, <2>0, <2>3, <3>1
    <3>4. w[i] = c[i - off]
      <4>1. i <= off + Len(c)
        BY <1>1, <1>2, <2>0, <2>3
      <4> QED
        BY <1>6, <2>0, <2>3, <4>1
    <3>5. c[i - off] = b[i - off]
      <4>1. i - off \in 1 .. Len(b) + Len(d) /\ i - off <= Len(b)
        BY <1>1, <2>0, <2>3
      <4> QED
        BY <1>2, <4>1
    <3> QED
      BY <3>2, <3>3, <3>4, <3>5
  <2>4. CASE i <= off
    <3>1. ~(i > off) /\ ~(i > off + Len(b))
      BY <1>1, <2>0, <2>4
    <3>2. h[i] = IF i <= Len(g) THEN g[i] ELSE 0
      BY <1>5, <2>0, <3>1
    <3>3. i <= Len(g) => g[i] = IF i <= Len(f) THEN f[i] ELSE 0
      BY <1>7, <1>8, <2>0, <3>1
    <3>4. w[i] = IF i <= Len(f) THEN f[i] ELSE 0
      BY <1>6, <2>0, <3>1
    <3>5. i <= Len(f) => i <= Len(g)
      BY <1>1, <1>7, <1>8, <2>0
    <3> QED
      BY <3>2, <3>3, <3>4, <3>5
  <2> QED
    BY <1>1, <2>0, <2>1, <2>2, <2>3, <2>4
<1>11. h = w
  BY <1>5, <1>6, <1>9, <1>10, SeqEqual
<1> QED
  BY <1>11 DEF g, h, c, w

LEMMA LoopBytes ==
  ASSUME NEW n \in Nat
  PROVE  /\ Source(n) \in Seq(Int) /\ Len(Source(n)) = n
         /\ \A k \in 1 .. n : Source(n)[k] = -k
<1>1. Source(n) \in [1 .. n -> Int]
  BY DEF Source
<1> QED
  BY <1>1, FunctionIsSeq DEF Source

LEMMA ChunkIs == TypeOK => \A n \in 1 .. Chunk : n \in Nat \ {0} /\ n <= count
  BY SizeAssumption DEF TypeOK, Chunk

----------------------------------------------------------------------------
\* The invariant is inductive.

LEMMA InitIInv == Init => IInv
<1> SUFFICES ASSUME Init PROVE IInv
  OBVIOUS
<1>1. file \in Seq(Int)
  BY FunctionIsSeq, SizeAssumption DEF Init
<1>2. TypeOK
  BY <1>1, EmptySeq DEF Init, TypeOK, Ops
<1>3. CallInv /\ LoopInv /\ WriteInv /\ PreallocInv /\ ReadInv
  BY DEF Init, CallInv, LoopInv, WriteInv, PreallocInv, ReadInv, Writes
<1> QED
  BY <1>2, <1>3 DEF IInv

LEMMA OpenStep == IInv /\ OpenFile => IInv'
<1> SUFFICES ASSUME IInv, OpenFile PROVE IInv'
  OBVIOUS
<1> USE DEF OpenFile, IInv
<1>0. <<>> \in Seq(Int) /\ Len(<<>>) = 0
  BY EmptySeq
<1>1. TypeOK'
  <2>1. file' \in Seq(Int)
    BY <1>0 DEF TypeOK
  <2>2. fd' \in {"closed", "read", "write"} /\ calls' \in Nat
    BY DEF TypeOK
  <2> QED
    BY <2>1, <2>2 DEF TypeOK
<1>2. /\ op = "none" /\ pc = "idle" /\ fpos = 0 /\ stream = <<>> /\ Len(stream) = 0
      /\ calls' # 0 /\ UNCHANGED <<pc, op, fpos, stream>>
  BY EmptySeq DEF TypeOK, CallInv
<1>3. CallInv' /\ LoopInv' /\ WriteInv' /\ PreallocInv'
  BY <1>2 DEF CallInv, LoopInv, WriteInv, PreallocInv, Ops, Writes
<1>4. ReadInv'
  BY <1>2 DEF ReadInv
<1> QED
  BY <1>1, <1>3, <1>4

LEMMA BeginStep ==
  ASSUME IInv, NEW o \in Ops, NEW n \in 0 .. MaxSize, NEW off \in 0 .. MaxSize,
         Begin(o, n, off)
  PROVE  IInv'
<1> USE DEF Begin, IInv
<1>1. n \in Nat /\ off \in Nat /\ calls + 1 \in Nat /\ calls + 1 # 0
  BY SizeAssumption DEF TypeOK
<1>2. TypeOK'
  BY <1>1, EmptySeq DEF TypeOK
<1>3. CallInv'
  BY <1>1 DEF CallInv, TypeOK, Ops
<1>4. buf' = <<>> /\ Len(buf') = 0 /\ pc' = "loop"
  BY EmptySeq
<1>5. LoopInv'
  BY <1>1, <1>4 DEF LoopInv
<1>6. ReadInv'
  BY <1>4, EmptySeq DEF ReadInv, TypeOK, CallInv
<1>7. WriteInv'
  <2>1. before'.file = file /\ before'.fpos = fpos /\ file' = file /\ fpos' = fpos
    OBVIOUS
  <2>2. Overwritten(file, offset' - Len(buf'), <<>>) = file /\ Overwritten(file, fpos, <<>>) = file
    BY DEF Overwritten
  <2> QED
    BY <1>2, <1>4, <2>1, <2>2 DEF WriteInv, TypeOK, Writes, Overwritten
<1>8. PreallocInv'
  BY DEF PreallocInv, Ops
<1> QED
  BY <1>2, <1>3, <1>5, <1>6, <1>7, <1>8

LEMMA ReadSomeStep == IInv /\ ReadSome => IInv'
<1> SUFFICES ASSUME IInv, ReadSome PROVE IInv'
  OBVIOUS
<1> USE DEF IInv
<1>0. /\ pc = "loop" /\ op = "read_callback" /\ count > 0
      /\ UNCHANGED <<pc, op, fd, errno, file, offset, code, calls, req, before, stream, shared>>
  BY DEF ReadSome
<1>1. PICK n \in 1 .. Chunk :
        /\ fpos + n <= Len(file)
        /\ buf' = buf \o SubSeq(file, fpos + 1, fpos + n)
        /\ fpos' = fpos + n /\ count' = count - n
  BY DEF ReadSome
<1> DEFINE data == SubSeq(file, fpos + 1, fpos + n)
<1>2. n \in Nat \ {0} /\ n <= count /\ fpos \in Nat /\ Len(file) \in Nat /\ Len(buf) \in Nat
      /\ count \in Nat /\ Len(stream) \in Nat /\ req \in Nat
  BY ChunkIs, LenProperties DEF TypeOK
<1>3. \A k \in fpos + 1 .. fpos + n : file[k] \in Int
  BY <1>1, <1>2, ElementOfSeq DEF TypeOK
<1>4. fpos + n <= Len(file) /\ fpos' = fpos + n /\ count' = count - n
  BY <1>1
<1>5. /\ data \in Seq(Int) /\ Len(data) = n
      /\ buf' = buf \o data /\ buf \in Seq(Int)
  BY <1>1, <1>2, <1>3, SubSeqProperties DEF TypeOK
<1>6. \A k \in 1 .. n : data[k] = file[fpos + k]
  BY <1>1, <1>2, <1>3, SubSeqProperties
<1> HIDE DEF data
<1>7. \A k \in 1 .. Len(buf) + n :
        buf'[k] = IF k <= Len(buf) THEN buf[k] ELSE data[k - Len(buf)]
  BY <1>5, ConcatProperties
<1>8. Len(buf') = Len(buf) + n
  BY Zenon, <1>5, ConcatProperties
<1>9. TypeOK'
  <2>1. fpos' \in Nat /\ count' \in Nat
    BY <1>2, <1>4
  <2>2. buf' \in Seq(Int)
    BY Zenon, <1>5, ConcatProperties
  <2> QED
    BY <1>0, <2>1, <2>2 DEF TypeOK
<1>10. CallInv' /\ WriteInv' /\ PreallocInv'
  BY <1>0 DEF CallInv, WriteInv, PreallocInv, Writes, Ops
<1>11. LoopInv'
  <2>1. Len(buf) + count = req
    BY <1>0 DEF LoopInv
  <2>2. Len(buf') + count' = req
    BY <1>2, <1>4, <1>8, <2>1
  <2>3. pc' = "loop" /\ op' \notin Writes /\ req' = req
    BY <1>0 DEF Writes
  <2> QED
    BY <2>2, <2>3 DEF LoopInv
<1>12. ReadInv'
  <2> SUFFICES ASSUME fd = "read", ~shared PROVE ReadInv'
    BY <1>0 DEF ReadInv
  <2>1. fpos = Len(stream) + Len(buf)
    BY <1>0 DEF ReadInv
  <2>2. \A k \in 1 .. Len(stream) : k <= Len(file) /\ stream[k] = file[k]
    BY <1>0 DEF ReadInv
  <2>3. \A k \in 1 .. Len(buf) : Len(stream) + k <= Len(file) /\ buf[k] = file[Len(stream) + k]
    BY <1>0 DEF ReadInv
  <2>4. ASSUME NEW k \in 1 .. Len(buf')
        PROVE  Len(stream) + k <= Len(file) /\ buf'[k] = file[Len(stream) + k]
    <3>0. k \in 1 .. Len(buf) + n /\ k \in Nat /\ k >= 1 /\ k <= Len(buf) + n
      BY <1>2, <1>8
    <3>1. CASE k <= Len(buf)
      <4>1. k \in 1 .. Len(buf)
        BY <1>2, <3>0, <3>1
      <4>2. buf'[k] = buf[k]
        BY <1>7, <3>0, <3>1
      <4> QED
        BY <2>3, <4>1, <4>2
    <3>2. CASE ~(k <= Len(buf))
      <4>1. /\ k - Len(buf) \in 1 .. n /\ fpos + (k - Len(buf)) = Len(stream) + k
            /\ Len(stream) + k <= fpos + n
        BY <1>2, <2>1, <3>0, <3>2
      <4>2. buf'[k] = data[k - Len(buf)]
        BY <1>7, <3>0, <3>2
      <4>3. data[k - Len(buf)] = file[fpos + (k - Len(buf))]
        BY <1>6, <4>1
      <4>4. Len(stream) + k <= Len(file)
        BY <1>2, <1>4, <3>0, <4>1
      <4> QED
        BY <4>1, <4>2, <4>3, <4>4
    <3> QED
      BY <3>1, <3>2
  <2>5. fpos' = Len(stream) + Len(buf')
    BY <1>2, <1>4, <1>8, <2>1
  <2> QED
    BY <1>0, <2>2, <2>4, <2>5 DEF ReadInv
<1> QED
  BY <1>9, <1>10, <1>11, <1>12

\* A failed read leaves bytes to transfer, and its code is never that of success.
LEMMA ReadFailsStep == IInv /\ (ReadEof \/ ReadError) => IInv'
<1> SUFFICES ASSUME IInv, ReadEof \/ ReadError PROVE IInv'
  OBVIOUS
<1> USE DEF IInv
<1>1. /\ pc = "loop" /\ op = "read_callback" /\ count > 0 /\ pc' = "idle"
      /\ code' = ReadCode(errno')
      /\ UNCHANGED <<op, fd, file, fpos, offset, count, buf, calls, req, before, stream, shared>>
  BY DEF ReadEof, ReadError, Return
<1>2. code' # NoErrno
  BY <1>1 DEF ReadCode, NoErrno
<1>3. TypeOK' /\ CallInv' /\ WriteInv' /\ PreallocInv'
  BY <1>1 DEF TypeOK, CallInv, WriteInv, PreallocInv, Writes
<1>4. LoopInv'
  <2>1. Len(buf) + count = req /\ Len(buf) \in Nat /\ count \in Nat
    BY <1>1, LenProperties DEF LoopInv, TypeOK
  <2>2. Len(buf) # req
    BY <1>1, <2>1
  <2> QED
    BY <1>1, <1>2, <2>2 DEF LoopInv, Writes
<1>5. ReadInv'
  BY <1>1, <1>2 DEF ReadInv
<1> QED
  BY <1>3, <1>4, <1>5

LEMMA ReadDoneStep == IInv /\ ReadDone => IInv'
<1> SUFFICES ASSUME IInv, ReadDone PROVE IInv'
  OBVIOUS
<1> USE DEF IInv
<1>1. /\ pc = "loop" /\ op = "read_callback" /\ count = 0 /\ pc' = "idle" /\ code' = NoErrno
      /\ stream' = stream \o buf
      /\ UNCHANGED <<op, fd, file, fpos, offset, count, buf, calls, req, before, shared>>
  BY DEF ReadDone, Return
<1>2. buf \in Seq(Int) /\ stream \in Seq(Int)
  BY DEF TypeOK
<1>3. stream' \in Seq(Int)
  BY Zenon, <1>1, <1>2, ConcatProperties
<1>4. Len(stream') = Len(stream) + Len(buf)
  BY Zenon, <1>1, <1>2, ConcatProperties
<1>5. \A k \in 1 .. Len(stream) + Len(buf) :
        stream'[k] = IF k <= Len(stream) THEN stream[k] ELSE buf[k - Len(stream)]
  BY Zenon, <1>1, <1>2, ConcatProperties
<1>6. Len(stream) \in Nat /\ Len(buf) \in Nat /\ count \in Nat /\ req \in Nat /\ calls \in Nat
  BY LenProperties DEF TypeOK
<1>7. calls # 0 /\ fd # "closed" /\ fd # "write"
  BY <1>1 DEF CallInv, TypeOK
<1>8. TypeOK'
  BY <1>1, <1>3 DEF TypeOK
<1>9. CallInv' /\ WriteInv' /\ PreallocInv'
  BY <1>1, <1>7 DEF CallInv, WriteInv, PreallocInv, Writes
<1>10. LoopInv'
  <2>1. Len(buf) = req
    BY <1>1, <1>6 DEF LoopInv
  <2> QED
    BY <1>1, <2>1 DEF LoopInv, Writes
<1>11. ReadInv'
  <2> SUFFICES ASSUME fd = "read", ~shared PROVE ReadInv'
    BY <1>1 DEF ReadInv
  <2>1. fpos = Len(stream) + Len(buf)
    BY <1>1 DEF ReadInv
  <2>2. \A k \in 1 .. Len(stream) : k <= Len(file) /\ stream[k] = file[k]
    BY <1>1 DEF ReadInv
  <2>3. \A k \in 1 .. Len(buf) : Len(stream) + k <= Len(file) /\ buf[k] = file[Len(stream) + k]
    BY <1>1 DEF ReadInv
  <2>4. ASSUME NEW k \in 1 .. Len(stream')
        PROVE  k <= Len(file) /\ stream'[k] = file[k]
    <3>0. k \in 1 .. Len(stream) + Len(buf) /\ k \in Nat /\ k >= 1
      BY <1>4, <1>6
    <3>1. CASE k <= Len(stream)
      <4>1. k \in 1 .. Len(stream)
        BY <1>6, <3>0, <3>1
      <4> QED
        BY <1>5, <2>2, <3>0, <3>1, <4>1
    <3>2. CASE ~(k <= Len(stream))
      <4>1. k - Len(stream) \in 1 .. Len(buf) /\ Len(stream) + (k - Len(stream)) = k
        BY <1>6, <3>0, <3>2
      <4>2. stream'[k] = buf[k - Len(stream)]
        BY <1>5, <3>0, <3>2
      <4> QED
        BY <2>3, <4>1, <4>2
    <3> QED
      BY <3>1, <3>2
  <2> QED
    BY <1>1, <1>4, <2>1, <2>4 DEF ReadInv
<1> QED
  BY <1>8, <1>9, <1>10, <1>11

LEMMA WriteSomeStep == IInv /\ WriteSome => IInv'
<1> SUFFICES ASSUME IInv, WriteSome PROVE IInv'
  OBVIOUS
<1> USE DEF IInv
<1>0. /\ pc = "loop" /\ op \in Writes /\ count > 0
      /\ UNCHANGED <<pc, op, fd, errno, code, calls, req, before, stream, shared>>
  BY DEF WriteSome, Writes
<1> DEFINE at == IF op = "full_write" THEN fpos ELSE offset
           data(n) == SubSeq(Source(req), Len(buf) + 1, Len(buf) + n)
<1>1. PICK n \in 1 .. Chunk :
        /\ file' = Overwritten(file, at, data(n))
        /\ buf' = buf \o data(n) /\ count' = count - n
        /\ offset' = offset + n
        /\ fpos' = IF op = "full_write" THEN fpos + n ELSE fpos
  BY DEF WriteSome
<1> DEFINE d == data(n)
<1>2. /\ n \in Nat \ {0} /\ n <= count /\ fpos \in Nat /\ Len(buf) \in Nat /\ count \in Nat
      /\ req \in Nat /\ offset \in Nat
  BY ChunkIs, LenProperties DEF TypeOK
<1>3. Len(buf) + count = req
  BY <1>0 DEF LoopInv
<1>4. \A k \in Len(buf) + 1 .. Len(buf) + n : Source(req)[k] \in Int /\ Source(req)[k] = -k
  <2>1. \A k \in Len(buf) + 1 .. Len(buf) + n : k \in 1 .. req /\ -k \in Int
    BY <1>2, <1>3
  <2> QED
    BY <1>2, <2>1, LoopBytes
<1>5. d \in Seq(Int) /\ Len(d) = n
  BY <1>2, <1>4, SubSeqProperties
<1>6. \A k \in 1 .. n : d[k] = -(Len(buf) + k)
  <2>1. \A k \in 1 .. n : d[k] = Source(req)[Len(buf) + 1 + k - 1]
    BY <1>2, <1>4, SubSeqProperties
  <2>2. \A k \in 1 .. n : Len(buf) + 1 + k - 1 = Len(buf) + k /\ Len(buf) + k \in Len(buf) + 1 .. Len(buf) + n
    BY <1>2
  <2> QED
    BY <1>4, <2>1, <2>2
<1>7. /\ file' = Overwritten(file, at, d) /\ buf' = buf \o d
      /\ buf \in Seq(Int) /\ file \in Seq(Int) /\ before.file \in Seq(Int)
  BY <1>1 DEF TypeOK
<1>8. /\ count' = count - n /\ offset' = offset + n
      /\ fpos' = IF op = "full_write" THEN fpos + n ELSE fpos
  BY <1>1
<1> HIDE DEF d
<1>9. Len(buf') = Len(buf) + n
  BY Zenon, <1>5, <1>7, ConcatProperties
<1>10. \A k \in 1 .. Len(buf) + n :
         buf'[k] = IF k <= Len(buf) THEN buf[k] ELSE d[k - Len(buf)]
  BY Zenon, <1>5, <1>7, ConcatProperties
<1>11. TypeOK'
  <2>1. fpos' \in Nat /\ count' \in Nat /\ offset' \in Nat
    BY <1>2, <1>8
  <2>2. buf' \in Seq(Int)
    BY Zenon, <1>5, <1>7, ConcatProperties
  <2>3. at \in Nat
    BY <1>2
  <2>4. file' \in Seq(Int)
    BY <1>5, <1>7, <2>3, OverwrittenIs
  <2> QED
    BY <1>0, <2>1, <2>2, <2>4 DEF TypeOK
<1>12. CallInv'
  BY <1>0 DEF CallInv, Writes
<1>13. LoopInv'
  <2>1. Len(buf') + count' = req
    BY <1>2, <1>3, <1>8, <1>9
  <2>2. Len(buf') <= req
    BY <1>2, <1>3, <1>9
  <2> QED
    BY <1>0, <2>1, <2>2 DEF LoopInv, Writes
<1>14. ReadInv' /\ PreallocInv'
  BY <1>0 DEF ReadInv, PreallocInv, CallInv, Writes
<1>15. WriteInv'
  <2>1. \A k \in 1 .. Len(buf') : buf'[k] = -k
    <3> SUFFICES ASSUME NEW k \in 1 .. Len(buf') PROVE buf'[k] = -k
      OBVIOUS
    <3>0. k \in 1 .. Len(buf) + n /\ k \in Nat /\ k >= 1
      BY <1>2, <1>9
    <3>1. CASE k <= Len(buf)
      <4>1. k \in 1 .. Len(buf)
        BY <1>2, <3>0, <3>1
      <4>2. buf[k] = -k
        BY <1>0, <4>1 DEF WriteInv
      <4> QED
        BY <1>10, <3>0, <3>1, <4>2
    <3>2. CASE ~(k <= Len(buf))
      <4>1. k - Len(buf) \in 1 .. n /\ Len(buf) + (k - Len(buf)) = k
        BY <1>2, <3>0, <3>2
      <4>2. buf'[k] = d[k - Len(buf)]
        BY <1>10, <3>0, <3>2
      <4>3. d[k - Len(buf)] = -(Len(buf) + (k - Len(buf)))
        BY <1>6, <4>1
      <4> QED
        BY <4>1, <4>2, <4>3
    <3> QED
      BY <3>1, <3>2
  <2>2. /\ Len(buf) <= offset /\ (op = "full_write" => fpos = before.fpos + Len(buf))
        /\ before.fpos \in Nat
    BY <1>0 DEF WriteInv, TypeOK
  <2>3. Len(buf') <= offset'
    BY <1>2, <1>8, <1>9, <2>2
  <2>4. op = "full_write" => fpos' = before.fpos + Len(buf')
    BY <1>2, <1>8, <1>9, <2>2
  <2> DEFINE start == IF op = "full_write" THEN before.fpos ELSE offset - Len(buf)
  <2>5. /\ start \in Nat /\ at = start + Len(buf)
        /\ start = IF op = "full_write" THEN before.fpos ELSE offset' - Len(buf')
    BY <1>2, <1>8, <1>9, <2>2
  <2>6. ~shared => file = Overwritten(before.file, start, buf)
    BY <1>0 DEF WriteInv
  <2>7. d # <<>>
    BY <1>2, <1>5, EmptySeq
  <2> HIDE DEF start, at
  <2>8. start \in Nat
    BY <2>5
  <2>9. Overwritten(Overwritten(before.file, start, buf), start + Len(buf), d) =
          Overwritten(before.file, start, buf \o d)
    <3>1. before.file \in Seq(Int) /\ buf \in Seq(Int) /\ d \in Seq(Int)
      BY <1>5, <1>7
    <3> HIDE DEF d
    <3> QED
      BY Zenon, <2>7, <2>8, <3>1, OverwrittenTwice
  <2>10. ~shared => file' = Overwritten(before.file, start, buf')
    BY Zenon, <1>7, <2>5, <2>6, <2>9
  <2> QED
    BY <1>0, <2>1, <2>3, <2>4, <2>5, <2>10 DEF WriteInv
<1> QED
  BY <1>11, <1>12, <1>13, <1>14, <1>15

LEMMA WriteEndStep == IInv /\ (WriteError \/ WriteDone) => IInv'
<1> SUFFICES ASSUME IInv, WriteError \/ WriteDone PROVE IInv'
  OBVIOUS
<1> USE DEF IInv
<1>1. /\ pc = "loop" /\ op \in Writes /\ pc' = "idle"
      /\ (count > 0 /\ code' = "false") \/ (count = 0 /\ code' = NoErrno)
      /\ UNCHANGED <<op, fd, file, fpos, offset, count, buf, calls, req, before, stream, shared>>
  BY DEF WriteError, WriteDone, Return, Writes
<1>2. TypeOK' /\ CallInv' /\ WriteInv' /\ PreallocInv'
  BY <1>1 DEF TypeOK, CallInv, WriteInv, PreallocInv, Writes
<1>3. LoopInv'
  <2>1. Len(buf) + count = req /\ Len(buf) \in Nat /\ count \in Nat /\ Len(buf) <= req
    BY <1>1, LenProperties DEF LoopInv, TypeOK
  <2>2. count = 0 => Len(buf) = req
    BY <2>1
  <2>3. code' = NoErrno => count = 0
    BY <1>1 DEF NoErrno
  <2> QED
    BY <1>1, <2>1, <2>2, <2>3 DEF LoopInv, Writes
<1>4. ReadInv'
  BY <1>1 DEF ReadInv, CallInv, Writes
<1> QED
  BY <1>2, <1>3, <1>4

LEMMA PreallocateStep ==
  ASSUME IInv, NEW size \in 0 .. MaxSize, Preallocate(size) PROVE IInv'
<1> USE DEF IInv
<1>1. /\ pc = "idle" /\ fd = "write" /\ op' = "preallocate" /\ req' = size
      /\ before' = [file |-> file, fpos |-> fpos] /\ calls' = calls + 1
      /\ UNCHANGED <<pc, fd, errno, fpos, offset, count, buf, stream, shared>>
  BY DEF Preallocate
<1>2. \/ file' = IF size <= Len(file) THEN file ELSE Overwritten(file, size - 1, <<0>>)
      \/ file' = file /\ code' = "false"
  BY DEF Preallocate
<1>3. size \in Nat /\ Len(file) \in Nat /\ calls \in Nat
  BY SizeAssumption, LenProperties DEF TypeOK
<1>4. /\ file' \in Seq(Int)
      /\ \A k \in 1 .. Len(file) : k <= Len(file') /\ file'[k] = file[k]
      /\ code' = NoErrno => Len(file') >= size
  <2>1. CASE file' = file /\ (size <= Len(file) \/ code' = "false")
    BY <1>3, <2>1 DEF TypeOK, NoErrno
  <2>2. CASE ~(size <= Len(file)) /\ file' = Overwritten(file, size - 1, <<0>>)
    <3>1. /\ <<0>> \in Seq(Int) /\ Len(<<0>>) = 1 /\ <<0>> # <<>> /\ size - 1 \in Nat
          /\ file \in Seq(Int)
      BY <1>3, <2>2 DEF TypeOK
    <3>2. /\ file' \in Seq(Int)
          /\ Len(file') = IF Len(file) > size - 1 + 1 THEN Len(file) ELSE size - 1 + 1
          /\ \A k \in 1 .. Len(file') :
               file'[k] = IF k > size - 1 /\ k <= size - 1 + 1 THEN <<0>>[k - (size - 1)]
                          ELSE IF k <= Len(file) THEN file[k] ELSE 0
      BY <2>2, <3>1, OverwrittenIs
    <3>3. Len(file') = size
      BY <1>3, <2>2, <3>2
    <3>4. \A k \in 1 .. Len(file) : /\ k <= Len(file) /\ k \in 1 .. Len(file')
                                    /\ ~(k > size - 1) /\ k <= Len(file')
      BY <1>3, <2>2, <3>3
    <3>5. \A k \in 1 .. Len(file) : file'[k] = file[k]
      BY <3>2, <3>4
    <3> QED
      BY <1>3, <3>2, <3>3, <3>4, <3>5
  <2> QED
    BY <1>2, <2>1, <2>2
<1>5. TypeOK'
  BY <1>1, <1>3, <1>4 DEF TypeOK
<1>6. CallInv'
  BY <1>1, <1>3 DEF CallInv, Ops
<1>7. LoopInv' /\ ReadInv' /\ WriteInv'
  BY <1>1 DEF LoopInv, ReadInv, WriteInv, Writes
<1>8. PreallocInv'
  <2>1. before'.file = file
    BY <1>1
  <2> QED
    BY <1>1, <1>4, <2>1 DEF PreallocInv
<1> QED
  BY <1>5, <1>6, <1>7, <1>8

LEMMA CloseStep == IInv /\ Close => IInv'
<1> SUFFICES ASSUME IInv, Close PROVE IInv'
  OBVIOUS
<1>1. /\ pc = "idle" /\ fd' = "closed" /\ fd # "closed"
      /\ UNCHANGED <<pc, op, file, fpos, offset, count, buf, calls, req, before, stream, shared>>
  BY DEF Close
<1>2. TypeOK' /\ CallInv' /\ LoopInv'
  BY <1>1 DEF IInv, TypeOK, CallInv, LoopInv
<1>3. ReadInv' /\ WriteInv' /\ PreallocInv'
  BY <1>1 DEF IInv, ReadInv, WriteInv, PreallocInv
<1> QED
  BY <1>2, <1>3 DEF IInv

LEMMA InterfereStep == IInv /\ Interfere => IInv'
<1> SUFFICES ASSUME IInv, Interfere PROVE IInv'
  OBVIOUS
<1>1. /\ pc = "loop" /\ shared' = TRUE
      /\ (Len(file) > 0 /\ file' = Front(file)) \/ file' = Append(file, Foreign)
      /\ UNCHANGED <<pc, op, fd, fpos, offset, count, buf, code, calls, req, before, stream>>
  BY DEF Interfere
<1>2. file' \in Seq(Int)
  <2>1. file \in Seq(Int) /\ Len(file) \in Nat /\ Foreign \in Int
    BY LenProperties, SizeAssumption DEF IInv, TypeOK, Foreign
  <2>2. CASE file' = Append(file, Foreign)
    BY <2>1, <2>2, AppendProperties
  <2>3. CASE file' = Front(file)
    <3>1. \A k \in 1 .. Len(file) - 1 : file[k] \in Int
      BY <2>1, ElementOfSeq
    <3> QED
      BY <2>1, <2>3, <3>1, SubSeqProperties DEF Front
  <2> QED
    BY <1>1, <2>2, <2>3
<1>3. TypeOK' /\ CallInv' /\ LoopInv'
  BY <1>1, <1>2 DEF IInv, TypeOK, CallInv, LoopInv
<1>4. ReadInv' /\ WriteInv' /\ PreallocInv'
  BY <1>1 DEF IInv, ReadInv, WriteInv, PreallocInv, CallInv, Ops, Writes
<1> QED
  BY <1>3, <1>4 DEF IInv

LEMMA NextIInv == IInv /\ [Next]_vars => IInv'
<1> SUFFICES ASSUME IInv, [Next]_vars PROVE IInv'
  OBVIOUS
<1>1. CASE UNCHANGED vars
  <2>1. TypeOK' /\ CallInv' /\ LoopInv'
    BY <1>1 DEF vars, IInv, TypeOK, CallInv, LoopInv
  <2>2. ReadInv' /\ WriteInv' /\ PreallocInv'
    BY <1>1 DEF vars, IInv, ReadInv, WriteInv, PreallocInv
  <2> QED
    BY <2>1, <2>2 DEF IInv
<1>2. CASE Transfer
  BY <1>2, ReadSomeStep, ReadFailsStep, ReadDoneStep, WriteSomeStep, WriteEndStep DEF Transfer
<1>3. CASE OpenFile \/ (\E o \in Ops, n, off \in 0 .. MaxSize : Begin(o, n, off))
  BY <1>3, OpenStep, BeginStep
<1>4. CASE \E sz \in 0 .. MaxSize : Preallocate(sz)
  BY <1>4, PreallocateStep
<1>5. CASE ReadError \/ WriteError \/ Close \/ Interfere
  BY <1>5, ReadFailsStep, WriteEndStep, CloseStep, InterfereStep
<1> QED
  BY <1>1, <1>2, <1>3, <1>4, <1>5 DEF Next

LEMMA Invariance == Spec => []IInv
  BY InitIInv, NextIInv, PTL DEF Spec

(***************************************************************************)
(* read_callback() returns 0 exactly if it delivered all the bytes it was  *)
(* asked for, for every split of the transfer into reads and whatever else *)
(* happens to the file (full_read() and read_callback()).                  *)
(***************************************************************************)
THEOREM ReadIsComplete == Spec => []ReadAllOrError
<1>1. IInv => ReadAllOrError
  BY DEF IInv, LoopInv, ReadAllOrError
<1> QED
  BY Invariance, <1>1, PTL

(***************************************************************************)
(* What a sequence of successful calls of read_callback() delivers is the  *)
(* file from its start, in order and without a gap, if nobody changes the  *)
(* file meanwhile.                                                         *)
(***************************************************************************)
THEOREM ReadsInOrder == Spec => []StreamInOrder
<1>1. IInv => StreamInOrder
  <2> SUFFICES ASSUME IInv, fd = "read", ~shared
               PROVE  /\ stream = SubSeq(file, 1, Len(stream))
                      /\ pc = "idle" /\ code = NoErrno => fpos = Len(stream)
    BY DEF StreamInOrder
  <2>1. file \in Seq(Int) /\ stream \in Seq(Int)
    BY DEF IInv, TypeOK
  <2>2. \A k \in 1 .. Len(stream) : k <= Len(file) /\ stream[k] = file[k]
    BY DEF IInv, ReadInv
  <2>3. stream = SubSeq(file, 1, Len(stream))
    BY Zenon, <2>1, <2>2, PrefixSubSeq
  <2>4. pc = "idle" /\ code = NoErrno => fpos = Len(stream)
    BY DEF IInv, ReadInv
  <2> QED
    BY <2>3, <2>4
<1> QED
  BY Invariance, <1>1, PTL

(***************************************************************************)
(* full_write() and full_pwrite() write the whole buffer at its place and  *)
(* nothing else, or fail having written a prefix of it, for every split of *)
(* the transfer into writes.                                               *)
(***************************************************************************)
THEOREM WritesWhole == Spec => []WholeWrite
<1>1. IInv => WholeWrite
  <2> DEFINE start == IF op = "full_write" THEN before.fpos ELSE offset - Len(buf)
  <2> SUFFICES ASSUME IInv, op \in Writes, ~shared
               PROVE  /\ file = Overwritten(before.file, start, buf)
                      /\ IsPrefix(buf, Source(req))
                      /\ pc = "idle" /\ fd = "write" /\ code = NoErrno => buf = Source(req)
    BY DEF WholeWrite, Writes
  <2>1. file = Overwritten(before.file, start, buf)
    BY DEF IInv, WriteInv
  <2> HIDE DEF start
  <2>2. buf \in Seq(Int) /\ req \in Nat /\ Len(buf) \in Nat /\ Len(buf) <= req
    BY LenProperties DEF IInv, TypeOK, LoopInv
  <2>3. \A k \in 1 .. Len(buf) : buf[k] = -k
    BY DEF IInv, WriteInv
  <2> DEFINE src == Source(req)
  <2>4. src \in Seq(Int) /\ Len(src) = req /\ \A k \in 1 .. req : src[k] = -k
    BY <2>2, LoopBytes
  <2> HIDE DEF src
  <2>5. \A k \in 1 .. Len(buf) : k <= Len(src) /\ buf[k] = src[k]
    <3>1. \A k \in 1 .. Len(buf) : k <= req /\ k \in 1 .. req
      BY <2>2
    <3> QED
      BY <2>3, <2>4, <3>1
  <2>6. Len(buf) <= Len(src) /\ buf = SubSeq(src, 1, Len(buf))
    BY Zenon, <2>2, <2>4, <2>5, PrefixSubSeq
  <2>7. IsPrefix(buf, src)
    BY <2>2, <2>6, SubSeqFull DEF IsPrefix
  <2>8. ASSUME pc = "idle", fd = "write", code = NoErrno PROVE buf = src
    <3>1. Len(buf) = Len(src)
      BY <2>4, <2>8 DEF IInv, LoopInv
    <3> QED
      BY Zenon, <2>2, <2>4, <2>5, <3>1, SeqEqual
  <2> QED
    BY <2>1, <2>7, <2>8 DEF src
<1> QED
  BY Invariance, <1>1, PTL

(***************************************************************************)
(* preallocate_file() never loses a byte of the file, and the file is as   *)
(* long as asked when it succeeds.                                         *)
(***************************************************************************)
THEOREM PreallocateKeeps == Spec => []PreallocateKeepsData
<1>1. IInv => PreallocateKeepsData
  <2> SUFFICES ASSUME IInv, op = "preallocate"
               PROVE  /\ IsPrefix(before.file, file)
                      /\ fd = "write" /\ code = NoErrno => Len(file) >= req
    BY DEF PreallocateKeepsData
  <2>1. file \in Seq(Int) /\ before.file \in Seq(Int)
    BY DEF IInv, TypeOK
  <2>2. \A k \in 1 .. Len(before.file) : k <= Len(file) /\ before.file[k] = file[k]
    BY DEF IInv, PreallocInv
  <2>3. Len(before.file) <= Len(file) /\ before.file = SubSeq(file, 1, Len(before.file))
    BY Zenon, <2>1, <2>2, PrefixSubSeq
  <2>4. IsPrefix(before.file, file)
    BY <2>1, <2>3, SubSeqFull DEF IsPrefix
  <2> QED
    BY <2>4 DEF IInv, PreallocInv
<1> QED
  BY Invariance, <1>1, PTL
=============================================================================
