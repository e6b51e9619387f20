---------------------------- MODULE OutputProofs ----------------------------
(***************************************************************************)
(* What the fsverity program writes out.  Every line of fsverity measure   *)
(* determines the digest of its file, bin2hex() and hex2bin() being        *)
(* inverse to each other (CmdMeasure, HexConv).  fsverity dump_metadata    *)
(* writes what was asked for, whatever the kernel returns at a time        *)
(* (CmdDumpMetadata).  The output files of fsverity digest hold the tree   *)
(* and the descriptor of the file at hand, each block at its own place     *)
(* (CmdDigest, TreeParams).                                                *)
(***************************************************************************)
EXTENDS CmdMeasure, CmdDumpMetadata, CmdDigest, SequenceTheorems, FiniteSetTheorems, TLAPS

----------------------------------------------------------------------------
\* fsverity measure.

Byte == 0 .. 255

\* hex2bin_char() reads back what bin2hex_char() wrote.
LEMMA NibbleRoundTrip ==
  ASSUME NEW n \in 0 .. 15
  PROVE  Hex2BinChar(Bin2HexChar(n)) = n
  BY DEF Hex2BinChar, Bin2HexChar

\* The two nibbles of a byte determine it.
LEMMA Nibbles ==
  ASSUME NEW b \in Byte
  PROVE  b \div 16 \in 0 .. 15 /\ b % 16 \in 0 .. 15 /\ 16 * (b \div 16) + (b % 16) = b
  BY DEF Byte

\* The two characters that bin2hex() writes for the k-th byte.
LEMMA HexOfByte ==
  ASSUME NEW bin \in Seq(Byte), NEW k \in 1 .. Len(bin)
  PROVE  /\ Bin2Hex(bin)[2 * k - 1] = Bin2HexChar(bin[k] \div 16)
         /\ Bin2Hex(bin)[2 * k] = Bin2HexChar(bin[k] % 16)
<1>1. 2 * k - 1 \in 1 .. 2 * Len(bin) /\ 2 * k \in 1 .. 2 * Len(bin)
  OBVIOUS
<1>2. /\ (2 * k - 1) % 2 = 1 /\ ((2 * k - 1) + 1) \div 2 = k
      /\ (2 * k) % 2 = 0 /\ (2 * k + 1) \div 2 = k
  OBVIOUS
<1> QED
  BY <1>1, <1>2 DEF Bin2Hex

(***************************************************************************)
(* hex2bin() accepts what bin2hex() prints and gives back the same bytes,  *)
(* so that a digest printed by the program determines the digest.          *)
(***************************************************************************)
THEOREM HexRoundTrip ==
  ASSUME NEW bin \in Seq(Byte)
  PROVE  /\ Hex2BinOk(Bin2Hex(bin), Len(bin))
         /\ Hex2Bin(Bin2Hex(bin), Len(bin)) = bin
<1> DEFINE hex == Bin2Hex(bin)
<1>1. Len(hex) = 2 * Len(bin) /\ Len(bin) \in Nat
  BY DEF Bin2Hex
<1>2. ASSUME NEW k \in 1 .. Len(hex) PROVE Hex2BinChar(hex[k]) >= 0
  <2> DEFINE b == bin[(k + 1) \div 2]
  <2>1. (k + 1) \div 2 \in 1 .. Len(bin)
    BY <1>1
  <2>2. b \in Byte
    BY <2>1
  <2>3. PICK n \in 0 .. 15 : hex[k] = Bin2HexChar(n)
    <3> DEFINE m == IF k % 2 = 1 THEN b \div 16 ELSE b % 16
    <3>1. m \in 0 .. 15
      BY <2>2, Nibbles
    <3>2. hex[k] = Bin2HexChar(m)
      BY <1>1 DEF Bin2Hex
    <3> QED
      BY <3>1, <3>2
  <2>4. Hex2BinChar(Bin2HexChar(n)) = n
    BY <2>3, NibbleRoundTrip
  <2>5. n >= 0
    BY <2>3
  <2> HIDE DEF hex
  <2> QED
    BY <2>3, <2>4, <2>5
<1>3. ASSUME NEW k \in 1 .. Len(bin)
      PROVE  16 * Hex2BinChar(hex[2 * k - 1]) + Hex2BinChar(hex[2 * k]) = bin[k]
  <2>1. bin[k] \in Byte
    OBVIOUS
  <2>2. /\ hex[2 * k - 1] = Bin2HexChar(bin[k] \div 16)
        /\ hex[2 * k] = Bin2HexChar(bin[k] % 16)
    BY HexOfByte
  <2>3. /\ Hex2BinChar(hex[2 * k - 1]) = bin[k] \div 16
        /\ Hex2BinChar(hex[2 * k]) = bin[k] % 16
    BY Zenon, <2>1, <2>2, Nibbles, NibbleRoundTrip
  <2> QED
    BY <2>1, <2>3, Nibbles
<1>4. Hex2Bin(hex, Len(bin)) = bin
  BY <1>1, <1>3 DEF Hex2Bin
<1> QED
  BY <1>1, <1>2, <1>4 DEF Hex2BinOk

----------------------------------------------------------------------------
\* The inductive invariant: what the buffer holds between the kernel's answer
\* and the line printed from it, and whose digests the lines so far show.

KernelDigests == [digest_algorithm : Nat, digest : Seq(Byte)]

Line(f) ==
  [alg |-> GetHashName(f.digest_algorithm), num |-> f.digest_algorithm, hex |-> Bin2Hex(f.digest)]

Lines == {Line(f) : f \in KernelDigests}

Buffers == [digest_algorithm : Nat, digest_size : Nat, digest : Seq(Byte)]

MeasureTypes ==
  /\ pc \in {"start", "open", "measure", "print", "out", "exit"}
  /\ files \in FileLists /\ i \in Nat \ {0}
  /\ lines \in Seq(Lines)

MeasureBuffer ==
  /\ ~too_small
  /\ pc \in {"open", "measure", "print"} => d \in Buffers /\ Len(d.digest) = MaxDigestSize
  /\ pc = "measure" => d.digest_size = MaxDigestSize
  /\ pc = "print" =>
       /\ files[i] \in KernelDigests
       /\ d.digest_algorithm = files[i].digest_algorithm
       /\ d.digest_size = Len(files[i].digest) /\ d.digest_size <= MaxDigestSize
       /\ \A k \in 1 .. d.digest_size : d.digest[k] = files[i].digest[k]

MeasureLines ==
  /\ Len(lines) = i - 1 /\ i <= Len(files) + 1
  /\ pc \in {"measure", "print"} => i <= Len(files)
  /\ \A j \in 1 .. Len(lines) : files[j] \in KernelDigests /\ lines[j] = Line(files[j])
  /\ pc \in {"out", "exit"} /\ status = 0 => Len(lines) = Len(files)

MeasureInv == MeasureTypes /\ MeasureBuffer /\ MeasureLines

----------------------------------------------------------------------------
LEMMA MeasuredFiles ==
  ASSUME MeasureTypes
  PROVE  /\ Len(files) \in Nat
         /\ \A j \in 1 .. Len(files) :
              files[j] # NoDigest =>
                /\ files[j] \in KernelDigests
                /\ Len(files[j].digest) \in 0 .. MaxDigestSize
<1>1. /\ files \in Seq(KernelDigests \cup {NoDigest})
      /\ \A j \in DOMAIN files : files[j] # NoDigest => Len(files[j].digest) <= MaxDigestSize
  BY DigestsAssumption DEF MeasureTypes, KernelDigests, Byte
<1>2. Len(files) \in Nat /\ DOMAIN files = 1 .. Len(files)
  BY <1>1, LenProperties
<1>3. \A j \in 1 .. Len(files) : files[j] \in KernelDigests \cup {NoDigest}
  BY <1>1, ElementOfSeq
<1>4. \A f \in KernelDigests : Len(f.digest) \in Nat
  BY LenProperties DEF KernelDigests
<1>5. MaxDigestSize \in Nat
  BY DigestsAssumption
<1> QED
  BY <1>1, <1>2, <1>3, <1>4, <1>5

\* The kernel overwrites the first bytes of the buffer.
LEMMA Overwrite ==
  ASSUME NEW s \in Seq(Byte), NEW b \in Seq(Byte), Len(s) <= Len(b)
  PROVE  /\ s \o SubSeq(b, Len(s) + 1, Len(b)) \in Seq(Byte)
         /\ Len(s \o SubSeq(b, Len(s) + 1, Len(b))) = Len(b)
         /\ \A k \in 1 .. Len(s) : (s \o SubSeq(b, Len(s) + 1, Len(b)))[k] = s[k]
<1> DEFINE r == SubSeq(b, Len(s) + 1, Len(b))
<1>1. Len(s) \in Nat /\ Len(b) \in Nat
  BY LenProperties
<1>2. \A k \in Len(s) + 1 .. Len(b) : b[k] \in Byte
  <2>1. \A k \in Len(s) + 1 .. Len(b) : k \in 1 .. Len(b)
    BY <1>1
  <2> QED
    BY <2>1, ElementOfSeq
<1>3. r \in Seq(Byte) /\ Len(r) = IF Len(s) + 1 <= Len(b) THEN Len(b) - (Len(s) + 1) + 1 ELSE 0
  <2>1. Len(s) + 1 \in Int /\ Len(b) \in Int
    BY <1>1
  <2> QED
    BY <1>2, <2>1, SubSeqProperties
<1>4. Len(s) + Len(r) = Len(b)
  BY <1>1, <1>3
<1> HIDE DEF r
<1>5. /\ s \o r \in Seq(Byte) /\ Len(s \o r) = Len(s) + Len(r)
      /\ \A k \in 1 .. Len(s) + Len(r) :
           (s \o r)[k] = IF k <= Len(s) THEN s[k] ELSE r[k - Len(s)]
  BY Zenon, <1>3, ConcatProperties
<1>6. \A k \in 1 .. Len(s) : k \in 1 .. Len(s) + Len(r) /\ k <= Len(s)
  BY <1>1, <1>4
<1> QED
  BY Zenon, <1>4, <1>5, <1>6 DEF r

\* Printing the first bytes of a buffer that starts with s prints s.
LEMMA Prefix ==
  ASSUME NEW s \in Seq(Byte), NEW b, \A k \in 1 .. Len(s) : b[k] = s[k]
  PROVE  SubSeq(b, 1, Len(s)) = s
<1> DEFINE t == SubSeq(b, 1, Len(s))
<1>1. Len(s) \in Nat /\ 1 \in Int /\ Len(s) \in Int
  BY LenProperties
<1>2. \A k \in 1 .. Len(s) : b[k] \in Byte
  BY ElementOfSeq
<1>3. /\ t \in Seq(Byte) /\ Len(t) = IF 1 <= Len(s) THEN Len(s) - 1 + 1 ELSE 0
      /\ \A k \in 1 .. Len(s) - 1 + 1 : t[k] = b[1 + k - 1]
  BY <1>1, <1>2, SubSeqProperties
<1> HIDE DEF t
<1>4. Len(t) = Len(s)
  BY <1>1, <1>3
<1>5. \A k \in 1 .. Len(s) : k \in 1 .. Len(s) - 1 + 1 /\ 1 + k - 1 = k
  BY <1>1
<1>6. \A k \in 1 .. Len(t) : t[k] = s[k]
  BY Zenon, <1>3, <1>4, <1>5
<1> QED
  BY Zenon, <1>3, <1>4, <1>6, SeqEqual DEF t

----------------------------------------------------------------------------
\* The invariant is inductive.

LEMMA MeasureInit == CmdMeasureInit => MeasureInv
<1> SUFFICES ASSUME CmdMeasureInit PROVE MeasureInv
  OBVIOUS
<1>1. <<>> \in Seq(Lines) /\ Len(<<>>) = 0
  BY EmptySeq
<1>2. MeasureTypes
  BY <1>1 DEF CmdMeasureInit, MeasureTypes
<1>3. MeasureLines
  <2>1. Len(files) \in Nat
    BY <1>2, MeasuredFiles
  <2> QED
    BY <1>1, <2>1 DEF CmdMeasureInit, MeasureLines
<1> QED
  BY <1>2, <1>3 DEF CmdMeasureInit, MeasureInv, MeasureBuffer

LEMMA StartStep == MeasureInv /\ Start => MeasureInv'
<1> SUFFICES ASSUME MeasureInv, Start PROVE MeasureInv'
  OBVIOUS
<1> USE DEF MeasureInv
<1>1. pc = "start" /\ UNCHANGED <<files, i, file, lines, too_small>> /\ pc' \in {"out", "open"}
  BY DEF Start, Usage, Goto
<1>2. pc' = "out" => status' = 2
  BY DEF Start, Usage, Goto
<1>3. MeasureTypes' /\ MeasureLines'
  BY <1>1, <1>2 DEF MeasureTypes, MeasureLines
<1>4. pc' = "open" => d' \in Buffers /\ Len(d'.digest) = MaxDigestSize
  <2> DEFINE z == [k \in 1 .. MaxDigestSize |-> 0]
  <2>1. MaxDigestSize \in Nat
    BY DigestsAssumption
  <2>2. z \in Seq(Byte) /\ Len(z) = MaxDigestSize
    BY <2>1 DEF Byte
  <2>3. pc' = "open" => d' = [digest_algorithm |-> 0, digest_size |-> 0, digest |-> z]
    BY DEF Start, Usage, Goto
  <2> HIDE DEF z
  <2> QED
    BY <2>2, <2>3 DEF Buffers
<1>5. MeasureBuffer'
  BY <1>1, <1>4 DEF MeasureBuffer
<1> QED
  BY <1>3, <1>5

LEMMA OpenNextFileStep == MeasureInv /\ OpenNextFile => MeasureInv'
<1> SUFFICES ASSUME MeasureInv, OpenNextFile PROVE MeasureInv'
  OBVIOUS
<1> USE DEF MeasureInv
<1>1. /\ pc = "open" /\ i <= Len(files) /\ UNCHANGED <<files, i, lines, too_small>>
      /\ d' = [d EXCEPT !.digest_size = MaxDigestSize]
      /\ pc' = "measure" \/ (pc' = "out" /\ status' = 1)
  BY DEF OpenNextFile, Room, OutErr, Goto
<1>2. MeasureTypes' /\ MeasureLines'
  BY <1>1 DEF MeasureTypes, MeasureLines
<1>3. d' \in Buffers /\ Len(d'.digest) = MaxDigestSize /\ d'.digest_size = MaxDigestSize
  <2>1. d \in Buffers /\ Len(d.digest) = MaxDigestSize /\ MaxDigestSize \in Nat
    BY <1>1, DigestsAssumption DEF MeasureBuffer
  <2>2. d' \in Buffers /\ d'.digest = d.digest /\ d'.digest_size = MaxDigestSize
    BY <1>1, <2>1 DEF Buffers
  <2> QED
    BY <2>1, <2>2
<1>4. MeasureBuffer'
  BY <1>1, <1>3 DEF MeasureBuffer
<1> QED
  BY <1>2, <1>4

LEMMA MeasureStep == MeasureInv /\ Measure => MeasureInv'
<1> SUFFICES ASSUME MeasureInv, Measure PROVE MeasureInv'
  OBVIOUS
<1> USE DEF MeasureInv
<1> DEFINE f == files[i]
<1>1. /\ pc = "measure" /\ UNCHANGED <<files, i, lines>>
      /\ pc' = "print" \/ (pc' = "out" /\ status' = 1)
  BY DEF Measure, OutErr
<1>2. /\ i \in Nat \ {0} /\ i <= Len(files) /\ i \in 1 .. Len(files)
      /\ d \in Buffers /\ Len(d.digest) = MaxDigestSize /\ d.digest_size = MaxDigestSize
  BY <1>1, MeasuredFiles DEF MeasureTypes, MeasureLines, MeasureBuffer
<1>3. f # NoDigest => f \in KernelDigests /\ Len(f.digest) \in 0 .. MaxDigestSize
  BY <1>2, MeasuredFiles
<1>4. MeasureTypes' /\ MeasureLines'
  BY <1>1, <1>2 DEF MeasureTypes, MeasureLines
<1>5. CASE pc' = "print"
  <2>1. /\ f # NoDigest /\ too_small' = too_small
        /\ d' = [digest_algorithm |-> f.digest_algorithm, digest_size |-> Len(f.digest),
                 digest |-> f.digest \o SubSeq(d.digest, Len(f.digest) + 1, MaxDigestSize)]
    BY Zenon, <1>5 DEF Measure, OutErr
  <2>2. /\ f.digest \in Seq(Byte) /\ f.digest_algorithm \in Nat /\ d.digest \in Seq(Byte)
        /\ Len(f.digest) \in Nat /\ Len(f.digest) <= MaxDigestSize
    BY <1>2, <1>3, <2>1, DigestsAssumption DEF KernelDigests, Buffers
  <2> DEFINE t == f.digest \o SubSeq(d.digest, Len(f.digest) + 1, Len(d.digest))
  <2>3. t \in Seq(Byte) /\ Len(t) = MaxDigestSize /\ \A k \in 1 .. Len(f.digest) : t[k] = f.digest[k]
    <3>1. Len(f.digest) <= Len(d.digest)
      BY <1>2, <2>2
    <3> HIDE DEF f
    <3> QED
      BY Zenon, <1>2, <2>2, <3>1, Overwrite
  <2>4. /\ d'.digest = t /\ d'.digest_size = Len(f.digest)
        /\ d'.digest_algorithm = f.digest_algorithm
    BY Zenon, <1>2, <2>1
  <2> HIDE DEF t
  <2>5. d' \in Buffers
    <3>1. d' = [digest_algorithm |-> f.digest_algorithm, digest_size |-> Len(f.digest), digest |-> t]
      BY <1>2, <2>1 DEF t
    <3> QED
      BY <2>2, <2>3, <3>1 DEF Buffers
  <2>6. ~too_small'
    BY <2>1 DEF MeasureBuffer
  <2> QED
    BY <1>1, <1>3, <1>4, <1>5, <2>1, <2>2, <2>3, <2>4, <2>5, <2>6 DEF MeasureBuffer
<1>6. CASE pc' # "print"
  <2>1. ~too_small'
    <3>1. f # NoDigest => ~(Len(f.digest) > d.digest_size)
      BY <1>2, <1>3, DigestsAssumption
    <3> QED
      BY Zenon, <1>6, <3>1 DEF Measure
  <2> QED
    BY <1>1, <1>4, <1>6, <2>1 DEF MeasureBuffer
<1> QED
  BY <1>5, <1>6

LEMMA PrintMeasuredStep == MeasureInv /\ PrintMeasured => MeasureInv'
<1> SUFFICES ASSUME MeasureInv, PrintMeasured PROVE MeasureInv'
  OBVIOUS
<1> USE DEF MeasureInv
<1> DEFINE f == files[i]
<1>1. /\ pc = "print" /\ i' = i + 1 /\ pc' = "open"
      /\ UNCHANGED <<files, d, file, status, too_small>>
      /\ lines' = Append(lines, [alg |-> GetHashName(d.digest_algorithm),
                                   num |-> d.digest_algorithm, hex |-> DigestHex])
  BY DEF PrintMeasured
<1>2. /\ f \in KernelDigests /\ d.digest_algorithm = f.digest_algorithm
      /\ d.digest_size = Len(f.digest)
      /\ \A k \in 1 .. Len(f.digest) : d.digest[k] = f.digest[k]
  BY <1>1 DEF MeasureBuffer
<1>3. /\ i \in Nat \ {0} /\ i <= Len(files) /\ Len(files) \in Nat
      /\ lines \in Seq(Lines) /\ Len(lines) = i - 1
  BY <1>1, MeasuredFiles DEF MeasureTypes, MeasureLines
<1>4. DigestHex = Bin2Hex(f.digest)
  <2>1. f.digest \in Seq(Byte)
    BY <1>2 DEF KernelDigests
  <2>2. SubSeq(d.digest, 1, Len(f.digest)) = f.digest
    BY Zenon, <1>2, <2>1, Prefix
  <2> QED
    BY Zenon, <1>2, <2>2 DEF DigestHex
<1>5. Line(f) \in Lines /\ lines' = Append(lines, Line(f))
  <2>1. Line(f) \in Lines
    BY <1>2 DEF Lines
  <2>2. Line(f) = [alg |-> GetHashName(d.digest_algorithm), num |-> d.digest_algorithm,
                   hex |-> DigestHex]
    BY <1>2, <1>4 DEF Line
  <2> QED
    BY <1>1, <2>1, <2>2
<1>6. /\ lines' \in Seq(Lines) /\ Len(lines') = Len(lines) + 1
      /\ \A j \in 1 .. Len(lines) : lines'[j] = lines[j]
      /\ lines'[Len(lines) + 1] = Line(f)
  <2> DEFINE out == Append(lines, Line(f))
  <2>1. /\ out \in Seq(Lines) /\ Len(out) = Len(lines) + 1
        /\ \A j \in 1 .. Len(lines) : out[j] = lines[j]
        /\ out[Len(lines) + 1] = Line(f)
    BY <1>3, <1>5, AppendProperties
  <2> HIDE DEF out
  <2> QED
    BY <1>5, <2>1 DEF out
<1>7. MeasureTypes'
  <2>1. i' \in Nat \ {0}
    BY <1>1, <1>3
  <2> QED
    BY <1>1, <1>6, <2>1 DEF MeasureTypes
<1>8. MeasureBuffer'
  BY <1>1 DEF MeasureBuffer
<1>9. MeasureLines'
  <2>1. /\ Len(lines') = i /\ Len(lines') = i' - 1 /\ i' <= Len(files) + 1
        /\ Len(lines) + 1 = i /\ Len(lines) = i - 1
    BY <1>1, <1>3, <1>6
  <2>2. ASSUME NEW j \in 1 .. i PROVE files[j] \in KernelDigests /\ lines'[j] = Line(files[j])
    <3>1. CASE j = i
      BY Zenon, <1>2, <1>6, <2>1, <3>1
    <3>2. CASE j # i
      <4>1. j \in 1 .. Len(lines)
        BY <1>3, <2>1, <3>2
      <4> QED
        BY Zenon, <1>6, <4>1 DEF MeasureLines
    <3> QED
      BY <3>1, <3>2
  <2> QED
    BY <1>1, <2>1, <2>2 DEF MeasureLines
<1> QED
  BY <1>7, <1>8, <1>9

LEMMA MeasureNext == MeasureInv /\ [CmdMeasureStep \/ CmdMeasureExited]_measurevars => MeasureInv'
<1> SUFFICES ASSUME MeasureInv, [CmdMeasureStep \/ CmdMeasureExited]_measurevars PROVE MeasureInv'
  OBVIOUS
<1>1. CASE UNCHANGED measurevars
  BY <1>1 DEF MeasureInv, MeasureTypes, MeasureBuffer, MeasureLines, measurevars
<1>2. CASE AllMeasured
  <2>1. /\ pc = "open" /\ i > Len(files) /\ pc' = "out"
        /\ UNCHANGED <<files, i, d, file, lines, too_small>>
    BY <1>2 DEF AllMeasured
  <2>2. Len(lines) = Len(files)
    BY <2>1, MeasuredFiles DEF MeasureInv, MeasureTypes, MeasureLines
  <2> QED
    BY <2>1, <2>2 DEF MeasureInv, MeasureTypes, MeasureBuffer, MeasureLines
<1>3. CASE CmdMeasureOut
  BY <1>3 DEF CmdMeasureOut, MeasureInv, MeasureTypes, MeasureBuffer, MeasureLines
<1> QED
  BY <1>1, <1>2, <1>3, StartStep, OpenNextFileStep, MeasureStep, PrintMeasuredStep
    DEF CmdMeasureStep, CmdMeasureExited

LEMMA MeasureInvariance == CmdMeasureSpec => []MeasureInv
  BY MeasureInit, MeasureNext, PTL DEF CmdMeasureSpec

(***************************************************************************)
(* Every line that fsverity measure prints is read back by hex2bin() as    *)
(* the digest the kernel has for the file of that line, for digests of any *)
(* length and any number of files; status 0 means that no line is missing. *)
(***************************************************************************)
THEOREM MeasurePrintsDigests == CmdMeasureSpec => []MeasuredDigests
<1>1. MeasureInv => MeasuredDigests
  <2> SUFFICES ASSUME MeasureInv PROVE MeasuredDigests
    OBVIOUS
  <2>1. DOMAIN lines = 1 .. Len(lines)
    BY LenProperties DEF MeasureInv, MeasureTypes
  <2>2. ASSUME NEW j \in DOMAIN lines
        PROVE  /\ lines[j].num = files[j].digest_algorithm
               /\ lines[j].alg = GetHashName(files[j].digest_algorithm)
               /\ Hex2BinOk(lines[j].hex, Len(files[j].digest))
               /\ Hex2Bin(lines[j].hex, Len(files[j].digest)) = files[j].digest
    <3>1. files[j] \in KernelDigests /\ lines[j] = Line(files[j])
      BY <2>1 DEF MeasureInv, MeasureLines
    <3>2. files[j].digest \in Seq(Byte)
      BY <3>1 DEF KernelDigests
    <3>3. /\ lines[j].num = files[j].digest_algorithm
          /\ lines[j].alg = GetHashName(files[j].digest_algorithm)
          /\ lines[j].hex = Bin2Hex(files[j].digest)
      BY <3>1 DEF Line
    <3> QED
      BY Zenon, <3>2, <3>3, HexRoundTrip
  <2>3. pc = "exit" /\ status = 0 => Len(lines) = Len(files)
    BY DEF MeasureInv, MeasureLines
  <2> QED
    BY <2>2, <2>3 DEF MeasuredDigests
<1> QED
  BY MeasureInvariance, <1>1, PTL

(***************************************************************************)
(* The kernel never refuses a file for want of room, although it returns   *)
(* the size of each digest where the program tells it the room there is.   *)
(***************************************************************************)
THEOREM MeasureHasRoom == CmdMeasureSpec => []RoomForEveryDigest
<1>1. MeasureInv => RoomForEveryDigest
  <2> SUFFICES ASSUME MeasureInv PROVE RoomForEveryDigest
    OBVIOUS
  <2>1. pc = "print" => d.digest_size \in Nat /\ d.digest_size <= MaxDigestSize
    BY DEF MeasureInv, MeasureBuffer, Buffers
  <2> QED
    BY <2>1, DigestsAssumption DEF RoomForEveryDigest, MeasureInv, MeasureBuffer
<1> QED
  BY MeasureInvariance, <1>1, PTL

----------------------------------------------------------------------------
\* fsverity dump_metadata.

Seen == 1 .. i - 1
Is(k, opt) == dump.opts[k].opt = opt

Off0 == Given("offset", 0)
Len0 == Given("length", 0)

DumpTypes ==
  /\ pc \in {"options", "open", "read", "write", "out", "exit", "aborted"}
  /\ dump \in Dumps /\ size \in Nat /\ i \in Nat \ {0}
  /\ arg \in [offset : Nat, length : Nat]
  /\ offset_specified \in BOOLEAN /\ length_specified \in BOOLEAN
  /\ buf \in [live : BOOLEAN, data : Seq(Int)] /\ stdout \in Seq(Int)
  /\ status \in {0, 1, 2}

\* What the options read so far have set.
DumpOptions ==
  pc = "options" =>
    /\ \A k \in Seen : k \in DOMAIN dump.opts /\ (Is(k, "offset") \/ Is(k, "length"))
    /\ \A j, k \in Seen : dump.opts[j].opt = dump.opts[k].opt => j = k
    /\ offset_specified <=> \E k \in Seen : Is(k, "offset")
    /\ length_specified <=> \E k \in Seen : Is(k, "length")
    /\ \A k \in Seen : Is(k, "offset") => arg.offset = dump.opts[k].n
    /\ \A k \in Seen : Is(k, "length") => arg.length = dump.opts[k].n
    /\ ~offset_specified => arg.offset = 0
    /\ ~length_specified => arg.length = DefaultLength

\* The options are none or the two of a range.
DumpValid ==
  /\ Len(dump.opts) = IF length_specified THEN 2 ELSE 0
  /\ Off0 \in Nat
  /\ ~length_specified => Off0 = 0

\* What was written, and what comes next, is where the next offset says.
DumpRun ==
  /\ pc = "options" => status = 0
  /\ pc \in {"options", "open"} => stdout = <<>>
  /\ status = 2 => stdout = <<>> /\ pc \in {"out", "exit"}
  /\ stdout # <<>> => DumpValid
  /\ \A k \in 1 .. Len(stdout) : stdout[k] = Off0 + k
  /\ stdout # <<>> => Off0 + Len(stdout) <= size
  /\ pc \in {"open", "read", "write"} =>
       /\ DumpValid /\ status = 0
       /\ arg.offset = Off0 + Len(stdout)
       /\ arg.length = IF length_specified THEN Len0 ELSE DefaultLength
       /\ length_specified => stdout = <<>>
  /\ pc = "write" =>
       /\ Len(buf.data) \in 1 .. arg.length /\ arg.offset + Len(buf.data) <= size
       /\ \A k \in 1 .. Len(buf.data) : buf.data[k] = arg.offset + k
  /\ pc \in {"out", "exit"} /\ status = 0 =>
       /\ DumpValid
       /\ ~length_specified => Len(stdout) = size
       /\ length_specified => /\ stdout = buf.data /\ Len(stdout) <= Len0
                              /\ stdout = <<>> => Len0 = 0 \/ Off0 >= size

DumpInv == DumpTypes /\ DumpOptions /\ DumpRun

----------------------------------------------------------------------------
LEMMA DumpCommand ==
  ASSUME DumpTypes
  PROVE  /\ Len(dump.opts) \in Nat /\ DOMAIN dump.opts = 1 .. Len(dump.opts)
         /\ \A k \in DOMAIN dump.opts : dump.opts[k].n \in Nat /\ dump.opts[k].clean \in BOOLEAN
         /\ dump.opts = <<>> <=> Len(dump.opts) = 0
<1>1. dump.opts \in Seq({dump.opts[k] : k \in DOMAIN dump.opts})
  BY Zenon, DumpsAssumption DEF DumpTypes
<1>2. \A k \in DOMAIN dump.opts : dump.opts[k].n \in Nat /\ dump.opts[k].clean \in BOOLEAN
  BY Zenon, DumpsAssumption DEF DumpTypes
<1>3. Len(dump.opts) \in Nat /\ DOMAIN dump.opts = 1 .. Len(dump.opts)
  BY <1>1, LenProperties
<1>4. dump.opts = <<>> <=> Len(dump.opts) = 0
  BY <1>1, EmptySeq
<1> QED
  BY <1>2, <1>3, <1>4

LEMMA GivenIs ==
  ASSUME NEW opt, NEW n, NEW k \in DOMAIN dump.opts, Is(k, opt),
         \A j \in DOMAIN dump.opts : Is(j, opt) => j = k
  PROVE  Given(opt, n) = dump.opts[k].n
  BY DEF Given, Is

LEMMA GivenNot ==
  ASSUME NEW opt, NEW n, \A j \in DOMAIN dump.opts : ~Is(j, opt)
  PROVE  Given(opt, n) = n
  BY DEF Given, Is

LEMMA DumpInit == CmdDumpMetadataInit => DumpInv
<1> SUFFICES ASSUME CmdDumpMetadataInit PROVE DumpInv
  OBVIOUS
<1>1. <<>> \in Seq(Int) /\ Len(<<>>) = 0
  BY EmptySeq
<1>2. DumpTypes
  <2>1. buf \in [live : BOOLEAN, data : Seq(Int)]
    BY <1>1 DEF CmdDumpMetadataInit
  <2>2. arg \in [offset : Nat, length : Nat]
    BY SizesAssumption DEF CmdDumpMetadataInit
  <2>3. size \in Nat
    BY SizesAssumption DEF CmdDumpMetadataInit
  <2>4. stdout \in Seq(Int)
    BY <1>1 DEF CmdDumpMetadataInit
  <2>5. /\ pc \in {"options", "open", "read", "write", "out", "exit", "aborted"}
        /\ dump \in Dumps /\ i \in Nat \ {0} /\ status \in {0, 1, 2}
    BY DEF CmdDumpMetadataInit
  <2>6. offset_specified \in BOOLEAN /\ length_specified \in BOOLEAN
    BY Zenon DEF CmdDumpMetadataInit
  <2> QED
    BY Zenon, <2>1, <2>2, <2>3, <2>4, <2>5, <2>6 DEF DumpTypes
<1>3. DumpOptions
  BY DEF CmdDumpMetadataInit, DumpOptions, Seen
<1>4. DumpRun
  BY <1>1 DEF CmdDumpMetadataInit, DumpRun
<1> QED
  BY <1>2, <1>3, <1>4 DEF DumpInv

LEMMA DumpParseStep == DumpInv /\ ParseOption => DumpInv'
<1> SUFFICES ASSUME DumpInv, ParseOption PROVE DumpInv'
  OBVIOUS
<1> DEFINE o == dump.opts[i]
<1>1. /\ pc = "options" /\ i <= Len(dump.opts) /\ i' = i + 1 /\ stdout = <<>> /\ status = 0
      /\ UNCHANGED <<dump, size, file, buf, stdout>>
  BY DEF ParseOption, DumpInv, DumpRun
<1>2. i \in Nat \ {0} /\ i \in DOMAIN dump.opts /\ o.n \in Nat /\ o.clean \in BOOLEAN
  BY <1>1, DumpCommand DEF DumpInv, DumpTypes
<1>3. \/ /\ o.opt = "offset" /\ ~offset_specified /\ o.clean
         /\ arg' = [arg EXCEPT !.offset = o.n] /\ offset_specified' = TRUE
         /\ pc' = "options" /\ status' = status /\ length_specified' = length_specified
      \/ /\ o.opt = "length" /\ ~length_specified /\ o.clean
         /\ arg' = [arg EXCEPT !.length = o.n] /\ length_specified' = TRUE
         /\ pc' = "options" /\ status' = status /\ offset_specified' = offset_specified
      \/ /\ pc' = "out" /\ status' = 2
         /\ arg' \in {arg, [arg EXCEPT !.offset = o.n], [arg EXCEPT !.length = o.n]}
         /\ offset_specified' \in BOOLEAN /\ length_specified' \in BOOLEAN
  BY <1>2 DEF ParseOption, Usage, Goto, DumpInv, DumpTypes
<1>4. DumpTypes'
  <2>1. arg \in [offset : Nat, length : Nat] /\ i \in Nat \ {0} /\ status \in {0, 1, 2}
    BY DEF DumpInv, DumpTypes
  <2>2. arg' \in [offset : Nat, length : Nat]
    BY <1>2, <1>3, <2>1
  <2>3. /\ offset_specified' \in BOOLEAN /\ length_specified' \in BOOLEAN
        /\ pc' \in {"options", "out"} /\ status' \in {0, 1, 2}
    BY Zenon, <1>3, <2>1 DEF DumpInv, DumpTypes
  <2>4. i' \in Nat \ {0}
    BY <1>1, <2>1
  <2> QED
    BY <1>1, <2>2, <2>3, <2>4 DEF DumpInv, DumpTypes
<1>5. DumpRun'
  <2>1. Len(stdout') = 0 /\ stdout' = <<>>
    BY <1>1, EmptySeq
  <2> QED
    BY <1>1, <1>3, <2>1 DEF DumpRun
<1>6. DumpOptions'
  <2> SUFFICES ASSUME pc' = "options" PROVE DumpOptions'
    BY DEF DumpOptions
  <2>1. Seen' = Seen \cup {i} /\ i \notin Seen
    BY <1>1, <1>2 DEF Seen
  <2>2. \A k \in Seen' : Is(k, "offset")' = Is(k, "offset") /\ Is(k, "length")' = Is(k, "length")
    BY <1>1 DEF Is
  <2>3. DumpOptions /\ arg \in [offset : Nat, length : Nat]
    BY DEF DumpInv, DumpTypes
  <2>4. CASE o.opt = "offset" /\ ~offset_specified
    <3>1. /\ arg'.offset = o.n /\ arg'.length = arg.length
          /\ offset_specified' = TRUE /\ length_specified' = length_specified
      BY <1>3, <2>3, <2>4
    <3>2. \A k \in Seen : dump.opts[k].opt = "length"
      BY <1>1, <2>3, <2>4 DEF DumpOptions, Is
    <3> QED
      BY <1>1, <1>2, <2>1, <2>3, <2>4, <3>1, <3>2 DEF DumpOptions, Is
  <2>5. CASE o.opt = "length" /\ ~length_specified
    <3>1. /\ arg'.length = o.n /\ arg'.offset = arg.offset
          /\ length_specified' = TRUE /\ offset_specified' = offset_specified
      BY <1>3, <2>3, <2>5
    <3>2. \A k \in Seen : dump.opts[k].opt = "offset"
      BY <1>1, <2>3, <2>5 DEF DumpOptions, Is
    <3> QED
      BY <1>1, <1>2, <2>1, <2>3, <2>5, <3>1, <3>2 DEF DumpOptions, Is
  <2> QED
    BY <1>3, <2>4, <2>5
<1> QED
  BY <1>4, <1>5, <1>6 DEF DumpInv

LEMMA DumpOptionsDoneStep == DumpInv /\ OptionsDone => DumpInv'
<1> SUFFICES ASSUME DumpInv, OptionsDone PROVE DumpInv'
  OBVIOUS
<1>1. /\ pc = "options" /\ i > Len(dump.opts) /\ stdout = <<>> /\ status = 0 /\ Len(stdout) = 0
      /\ UNCHANGED <<optvars, i, arg, file, stdout>>
  BY EmptySeq DEF OptionsDone, DumpInv, DumpRun
<1>2. /\ buf' \in [live : BOOLEAN, data : Seq(Int)]
      /\ \/ pc' = "open" /\ status' = status /\ ~BadRange
         \/ pc' = "aborted" /\ status' = status
         \/ pc' = "out" /\ status' = 2
  BY Zenon DEF OptionsDone, Usage, Goto, DumpInv, DumpTypes
<1>3. DumpTypes' /\ DumpOptions'
  BY <1>1, <1>2 DEF DumpInv, DumpTypes, DumpOptions, optvars
<1>4. CASE pc' # "open"
  BY <1>1, <1>2, <1>3, <1>4 DEF DumpInv, DumpRun, optvars
<1>5. CASE pc' = "open"
  <2> DEFINE D == DOMAIN dump.opts
  <2>1. D = 1 .. Len(dump.opts) /\ Len(dump.opts) \in Nat
    BY DumpCommand DEF DumpInv
  <2>2. D = Seen /\ (offset_specified <=> length_specified)
    <3>1. \A k \in Seen : k \in D
      BY <1>1 DEF DumpInv, DumpOptions
    <3>2. \A k \in 1 .. Len(dump.opts) : k \in 1 .. i - 1
      BY <1>1, <2>1 DEF DumpInv, DumpTypes
    <3> QED
      BY Zenon, <1>2, <1>5, <2>1, <3>1, <3>2 DEF Seen, BadRange
  <2>3. DumpOptions /\ arg \in [offset : Nat, length : Nat]
    BY DEF DumpInv, DumpTypes
  <2>4. Off0 = arg.offset
    <3>1. CASE offset_specified
      <4>1. PICK k \in D : Is(k, "offset")
        BY <1>1, <2>2, <2>3, <3>1 DEF DumpOptions
      <4>2. \A j \in D : Is(j, "offset") => j = k
        BY <1>1, <2>2, <2>3, <4>1 DEF DumpOptions, Is
      <4>3. Off0 = dump.opts[k].n
        BY <4>1, <4>2, GivenIs DEF Off0
      <4> QED
        BY <1>1, <2>2, <2>3, <4>1, <4>3 DEF DumpOptions
    <3>2. CASE ~offset_specified
      <4>1. \A j \in D : ~Is(j, "offset")
        BY <1>1, <2>2, <2>3, <3>2 DEF DumpOptions
      <4>2. Off0 = 0
        BY <4>1, GivenNot DEF Off0
      <4> QED
        BY <1>1, <2>3, <3>2, <4>2 DEF DumpOptions
    <3> QED
      BY <3>1, <3>2
  <2>5. arg.length = IF length_specified THEN Len0 ELSE DefaultLength
    <3>1. CASE length_specified
      <4>1. PICK k \in D : Is(k, "length")
        BY <1>1, <2>2, <2>3, <3>1 DEF DumpOptions
      <4>2. \A j \in D : Is(j, "length") => j = k
        BY <1>1, <2>2, <2>3, <4>1 DEF DumpOptions, Is
      <4>3. Len0 = dump.opts[k].n
        BY <4>1, <4>2, GivenIs DEF Len0
      <4> QED
        BY <1>1, <2>2, <2>3, <3>1, <4>1, <4>3 DEF DumpOptions
    <3>2. CASE ~length_specified
      BY <1>1, <2>3, <3>2 DEF DumpOptions
    <3> QED
      BY <3>1, <3>2
  <2>6. Len(dump.opts) = IF length_specified THEN 2 ELSE 0
    <3>1. CASE length_specified
      <4>1. PICK j \in D, k \in D : Is(j, "offset") /\ Is(k, "length")
        BY <1>1, <2>2, <2>3, <3>1 DEF DumpOptions
      <4>2. j # k /\ \A m \in D : m = j \/ m = k
        BY <1>1, <2>2, <2>3, <4>1 DEF DumpOptions, Is
      <4>3. Len(dump.opts) >= 2
        BY <2>1, <4>2
      <4>4. ~(Len(dump.opts) >= 3)
        <5> SUFFICES ASSUME Len(dump.opts) >= 3 PROVE FALSE
          OBVIOUS
        <5>1. 1 \in D /\ 2 \in D /\ 3 \in D
          BY <2>1
        <5> QED
          BY <4>2, <5>1
      <4>5. Len(dump.opts) \in Nat
        BY <2>1
      <4>6. \A n \in Nat : n >= 2 /\ ~(n >= 3) => n = 2
        OBVIOUS
      <4>7. Len(dump.opts) = 2
        BY Zenon, <4>3, <4>4, <4>5, <4>6
      <4> QED
        BY <3>1, <4>7
    <3>2. CASE ~length_specified
      <4>1. \A m \in D : FALSE
        BY <1>1, <2>2, <2>3, <3>2 DEF DumpOptions
      <4>2. ~(Len(dump.opts) >= 1)
        <5> SUFFICES ASSUME Len(dump.opts) >= 1 PROVE FALSE
          OBVIOUS
        <5>1. 1 \in D
          BY <2>1
        <5> QED
          BY <4>1, <5>1
      <4> QED
        BY <2>1, <3>2, <4>2
    <3> QED
      BY <3>1, <3>2
  <2>7. ~length_specified => Off0 = 0
    BY <1>1, <2>2, <2>3, <2>4 DEF DumpOptions
  <2>8. DumpValid' /\ Off0' = Off0 /\ Len0' = Len0
    BY <1>1, <2>3, <2>4, <2>6, <2>7 DEF DumpValid, Off0, Len0, Given, optvars
  <2>9. DumpRun'
    BY <1>1, <1>2, <1>5, <2>3, <2>4, <2>5, <2>8 DEF DumpRun, optvars
  <2> QED
    BY <1>3, <2>9 DEF DumpInv
<1> QED
  BY <1>4, <1>5

\* A step that leaves the command line alone, with what was said of it.
LEMMA SameCommand ==
  ASSUME UNCHANGED optvars
  PROVE  /\ DumpValid' <=> DumpValid
         /\ Off0' = Off0 /\ Len0' = Len0
         /\ UNCHANGED <<dump, size, offset_specified, length_specified>>
  BY DEF DumpValid, Off0, Len0, Given, optvars

LEMMA DumpOpenStep == DumpInv /\ OpenFile => DumpInv'
<1> SUFFICES ASSUME DumpInv, OpenFile PROVE DumpInv'
  OBVIOUS
<1>1. /\ pc = "open" /\ UNCHANGED <<optvars, i, arg, buf, stdout>>
      /\ (pc' = "read" /\ status' = status) \/ (pc' = "out" /\ status' = 1)
  BY DEF OpenFile, Goto, OutErr
<1>2. DumpTypes' /\ DumpOptions'
  BY <1>1 DEF DumpInv, DumpTypes, DumpOptions, optvars
<1>3. DumpRun'
  BY <1>1, SameCommand DEF DumpInv, DumpRun
<1> QED
  BY <1>2, <1>3 DEF DumpInv

LEMMA SubSeqIs ==
  ASSUME NEW s, NEW a \in Nat, NEW n \in Nat, \A k \in a + 1 .. a + n : s[k] \in Int
  PROVE  /\ SubSeq(s, a + 1, a + n) \in Seq(Int)
         /\ Len(SubSeq(s, a + 1, a + n)) = n
         /\ \A k \in 1 .. n : SubSeq(s, a + 1, a + n)[k] = s[a + k]
<1>1. a + 1 \in Int /\ a + n \in Int
  OBVIOUS
<1>2. SubSeq(s, a + 1, a + n) \in Seq(Int) /\ Len(SubSeq(s, a + 1, a + n)) = n
  BY <1>1, SubSeqProperties
<1>3. \A k \in 1 .. n : SubSeq(s, a + 1, a + n)[k] = s[a + k]
  BY <1>1, SubSeqProperties
<1> QED
  BY Zenon, <1>2, <1>3

LEMMA MetadataReadIs ==
  ASSUME DumpTypes, NEW data \in MetadataRead
  PROVE  /\ data \in Seq(Int)
         /\ Len(data) \in 0 .. arg.length
         /\ Len(data) = 0 \/ arg.offset + Len(data) <= size
         /\ Len(data) = 0 => arg.length = 0 \/ arg.offset >= size
         /\ \A k \in 1 .. Len(data) : data[k] = arg.offset + k
<1> DEFINE all == [k \in 1 .. size |-> k]
<1>1. PICK n \in 0 .. arg.length :
        /\ data = SubSeq(all, arg.offset + 1, arg.offset + n)
        /\ n = 0 \/ arg.offset + n <= size
        /\ n = 0 => arg.length = 0 \/ arg.offset >= size
  BY DEF MetadataRead
<1>2. arg.offset \in Nat /\ arg.length \in Nat /\ size \in Nat /\ n \in Nat /\ n <= arg.length
  BY DEF DumpTypes
<1>3. \A k \in arg.offset + 1 .. arg.offset + n : k \in 1 .. size /\ k \in Int
  BY <1>1, <1>2
<1>4. \A k \in arg.offset + 1 .. arg.offset + n : all[k] = k /\ all[k] \in Int
  BY <1>3
<1>5. /\ data = SubSeq(all, arg.offset + 1, arg.offset + n)
      /\ \A k \in arg.offset + 1 .. arg.offset + n : all[k] \in Int
  BY <1>1, <1>4
<1> HIDE DEF all
<1>6. data \in Seq(Int) /\ Len(data) = n /\ \A k \in 1 .. n : data[k] = all[arg.offset + k]
  <2> DEFINE part == SubSeq(all, arg.offset + 1, arg.offset + n)
  <2>1. part \in Seq(Int) /\ Len(part) = n /\ \A k \in 1 .. n : part[k] = all[arg.offset + k]
    BY ZenonT(30), <1>2, <1>5, SubSeqIs
  <2> HIDE DEF part
  <2> QED
    BY <1>5, <2>1 DEF part
<1>7. ASSUME NEW k \in 1 .. n PROVE data[k] = arg.offset + k
  <2>1. arg.offset + k \in arg.offset + 1 .. arg.offset + n
    BY <1>2
  <2> QED
    BY Zenon, <1>4, <1>6, <2>1
<1>8. n \in 0 .. arg.length
  BY <1>2
<1> QED
  BY Zenon, <1>1, <1>6, <1>7, <1>8

LEMMA DumpReadStep == DumpInv /\ ReadMetadata => DumpInv'
<1> SUFFICES ASSUME DumpInv, ReadMetadata PROVE DumpInv'
  OBVIOUS
<1>1. pc = "read" /\ UNCHANGED <<optvars, i, arg, file, stdout>>
  BY DEF ReadMetadata
<1>2. /\ arg.offset \in Nat /\ arg.length \in Nat /\ size \in Nat /\ stdout \in Seq(Int)
      /\ Len(stdout) \in Nat
  BY LenProperties DEF DumpInv, DumpTypes
<1>3. CASE pc' = "out" /\ status' = 1 /\ buf' = buf
  <2>1. DumpTypes' /\ DumpOptions'
    BY <1>1, <1>3 DEF DumpInv, DumpTypes, DumpOptions, optvars
  <2>2. DumpRun'
    BY <1>1, <1>3, SameCommand DEF DumpInv, DumpRun
  <2> QED
    BY <2>1, <2>2 DEF DumpInv
<1>4. ASSUME NEW data \in MetadataRead, buf' = [buf EXCEPT !.data = data],
             IF data = <<>> THEN pc' = "out" /\ status' = 0 ELSE pc' = "write" /\ status' = status
      PROVE  DumpInv'
  <2>1. data \in Seq(Int)
    BY MetadataReadIs DEF DumpInv
  <2>2. /\ Len(data) \in 0 .. arg.length
        /\ Len(data) = 0 \/ arg.offset + Len(data) <= size
        /\ Len(data) = 0 => arg.length = 0 \/ arg.offset >= size
    BY MetadataReadIs DEF DumpInv
  <2>3. \A k \in 1 .. Len(data) : data[k] = arg.offset + k
    BY MetadataReadIs DEF DumpInv
  <2>4. data = <<>> <=> Len(data) = 0
    BY <2>1, EmptySeq
  <2>5. buf' \in [live : BOOLEAN, data : Seq(Int)] /\ buf'.data = data
    BY Zenon, <1>4, <2>1 DEF DumpInv, DumpTypes
  <2>6. /\ DumpValid /\ status = 0 /\ arg.offset = Off0 + Len(stdout)
        /\ arg.length = IF length_specified THEN Len0 ELSE DefaultLength
        /\ length_specified => stdout = <<>>
        /\ stdout # <<>> => Off0 + Len(stdout) <= size
        /\ stdout = <<>> <=> Len(stdout) = 0
    BY <1>1, <1>2, EmptySeq DEF DumpInv, DumpRun
  <2>7. pc' \in {"out", "write"} /\ status' = 0
    BY <1>4, <2>6
  <2>8. DumpTypes' /\ DumpOptions'
    BY <1>1, <2>5, <2>7 DEF DumpInv, DumpTypes, DumpOptions, optvars
  <2>9. pc' = "write" =>
          /\ Len(buf'.data) \in 1 .. arg'.length /\ arg'.offset + Len(buf'.data) <= size'
          /\ \A k \in 1 .. Len(buf'.data) : buf'.data[k] = arg'.offset + k
    <3> SUFFICES ASSUME pc' = "write" PROVE Len(data) \in 1 .. arg.length /\ arg.offset + Len(data) <= size
      BY <1>1, <2>3, <2>5 DEF optvars
    <3>1. Len(data) # 0
      BY <1>4, <2>4
    <3> QED
      BY <1>2, <2>2, <3>1
  <2>10. pc' = "out" =>
           /\ ~length_specified => Len(stdout) = size
           /\ length_specified => /\ stdout = data /\ Len(stdout) <= Len0
                                  /\ stdout = <<>> => Len0 = 0 \/ Off0 >= size
    <3> SUFFICES ASSUME pc' = "out"
                 PROVE  /\ ~length_specified => Len(stdout) = size
                        /\ length_specified => /\ stdout = data /\ Len(stdout) <= Len0
                                               /\ stdout = <<>> => Len0 = 0 \/ Off0 >= size
      OBVIOUS
    <3>1. Len(data) = 0 /\ (arg.length = 0 \/ arg.offset >= size)
      BY <1>4, <2>2, <2>4
    <3>2. CASE ~length_specified
      <4>1. Off0 = 0 /\ arg.length = DefaultLength
        BY <2>6, <3>2 DEF DumpValid
      <4>2. arg.offset >= size /\ arg.offset = Len(stdout)
        BY <1>2, <2>6, <3>1, <4>1, SizesAssumption
      <4>3. Len(stdout) <= size
        BY <1>2, <2>6, <4>1
      <4> QED
        BY <1>2, <3>2, <4>2, <4>3
    <3>3. CASE length_specified
      <4>1. Len(stdout) = 0 /\ arg.length = Len0 /\ Off0 \in Nat
        BY <2>6, <3>3 DEF DumpValid
      <4>2. arg.offset = Off0
        BY <2>6, <4>1
      <4>3. stdout = data
        BY Zenon, <2>4, <2>6, <3>1, <3>3
      <4> QED
        BY <1>2, <3>1, <3>3, <4>1, <4>2, <4>3
    <3> QED
      BY <3>2, <3>3 DEF DumpInv, DumpTypes
  <2>11. DumpRun'
    BY <1>1, <2>5, <2>6, <2>7, <2>9, <2>10, SameCommand DEF DumpInv, DumpRun
  <2> QED
    BY <2>8, <2>11 DEF DumpInv
<1> QED
  BY <1>3, <1>4 DEF ReadMetadata, AtEnd, Goto, OutErr

\* The first n bytes of the buffer are written behind those written before.
LEMMA Written ==
  ASSUME DumpInv, pc = "write", NEW n \in 0 .. Len(buf.data), NEW data \in Seq(Int),
         Len(data) = n, \A k \in 1 .. n : data[k] = buf.data[k]
  PROVE  /\ stdout \o data \in Seq(Int)
         /\ Len(stdout \o data) = Len(stdout) + n
         /\ \A k \in 1 .. Len(stdout \o data) : (stdout \o data)[k] = Off0 + k
         /\ Off0 + Len(stdout \o data) <= size
<1> DEFINE s == stdout \o data
<1>1. stdout \in Seq(Int)
  BY DEF DumpInv, DumpTypes
<1>2. s \in Seq(Int)
  BY Zenon, <1>1, ConcatProperties
<1>3. Len(s) = Len(stdout) + n
  BY Zenon, <1>1, ConcatProperties
<1>4. \A k \in 1 .. Len(stdout) + n :
        s[k] = IF k <= Len(stdout) THEN stdout[k] ELSE data[k - Len(stdout)]
  BY Zenon, <1>1, ConcatProperties
<1> HIDE DEF s
<1>5. /\ Len(stdout) \in Nat /\ Len(buf.data) \in Nat /\ n \in Nat /\ n <= Len(buf.data)
      /\ arg.offset \in Nat /\ size \in Nat
  BY <1>1, LenProperties DEF DumpInv, DumpTypes
<1>6. Off0 \in Nat /\ arg.offset = Off0 + Len(stdout) /\ arg.offset + Len(buf.data) <= size
  BY DEF DumpInv, DumpRun, DumpValid
<1>7. \A k \in 1 .. Len(stdout) : stdout[k] = Off0 + k
  BY DEF DumpInv, DumpRun
<1>8. \A k \in 1 .. Len(buf.data) : buf.data[k] = arg.offset + k
  BY DEF DumpInv, DumpRun
<1>9. ASSUME NEW k \in 1 .. Len(s) PROVE s[k] = Off0 + k
  <2>0. k \in 1 .. Len(stdout) + n /\ k \in Nat /\ k >= 1
    BY <1>3, <1>5
  <2>1. CASE k <= Len(stdout)
    <3>1. k \in 1 .. Len(stdout)
      BY <1>5, <2>0, <2>1
    <3> QED
      BY <1>4, <1>7, <2>0, <2>1, <3>1
  <2>2. CASE ~(k <= Len(stdout))
    <3>1. /\ k - Len(stdout) \in 1 .. n /\ k - Len(stdout) \in 1 .. Len(buf.data)
          /\ arg.offset + (k - Len(stdout)) = Off0 + k
      BY <1>5, <1>6, <2>0, <2>2
    <3>2. s[k] = data[k - Len(stdout)]
      BY <1>4, <2>0, <2>2
    <3>3. data[k - Len(stdout)] = buf.data[k - Len(stdout)]
      BY <3>1
    <3>4. buf.data[k - Len(stdout)] = arg.offset + (k - Len(stdout))
      BY <1>8, <3>1
    <3> QED
      BY <3>1, <3>2, <3>3, <3>4
  <2> QED
    BY <2>1, <2>2
<1>10. Off0 + Len(s) <= size
  <2>1. \A o, l, m, b, z \in Nat : m <= b /\ o + l + b <= z => o + (l + m) <= z
    OBVIOUS
  <2>2. Off0 + Len(stdout) + Len(buf.data) <= size
    BY Zenon, <1>6
  <2> QED
    BY Zenon, <1>3, <1>5, <1>6, <2>1, <2>2
<1> QED
  BY <1>2, <1>3, <1>9, <1>10 DEF s

LEMMA DumpWriteStep == DumpInv /\ WriteOut => DumpInv'
<1> SUFFICES ASSUME DumpInv, WriteOut PROVE DumpInv'
  OBVIOUS
<1>1. pc = "write" /\ UNCHANGED <<optvars, i, file, buf>>
  BY DEF WriteOut
<1>2. /\ DumpValid /\ status = 0 /\ arg.offset = Off0 + Len(stdout)
      /\ arg.length = IF length_specified THEN Len0 ELSE DefaultLength
      /\ length_specified => stdout = <<>>
  BY <1>1 DEF DumpInv, DumpRun
<1>3. /\ arg \in [offset : Nat, length : Nat] /\ arg.offset \in Nat /\ arg.length \in Nat
      /\ Off0 \in Nat
  BY <1>2 DEF DumpInv, DumpTypes, DumpValid
<1>4. buf.data \in Seq(Int) /\ stdout \in Seq(Int)
  BY DEF DumpInv, DumpTypes
<1>5. Len(buf.data) \in Nat /\ Len(stdout) \in Nat
  BY <1>4, LenProperties
<1>6. Len(buf.data) \in 1 .. arg.length
  BY <1>1 DEF DumpInv, DumpRun
<1>7. CASE /\ stdout' = stdout \o buf.data /\ arg' = [arg EXCEPT !.offset = @ + Len(buf.data)]
           /\ status' = 0 /\ pc' = IF ~length_specified THEN "read" ELSE "out"
  <2>1. Len(buf.data) \in 0 .. Len(buf.data)
    BY <1>5
  <2>2. /\ stdout' \in Seq(Int)
        /\ \A k \in 1 .. Len(stdout') : stdout'[k] = Off0 + k
        /\ Off0 + Len(stdout') <= size
    BY Zenon, <1>1, <1>4, <1>7, <2>1, Written
  <2>3. Len(stdout') = Len(stdout) + Len(buf.data)
    BY Zenon, <1>1, <1>4, <1>7, <2>1, Written
  <2>4. /\ arg' \in [offset : Nat, length : Nat]
        /\ arg'.offset = arg.offset + Len(buf.data) /\ arg'.length = arg.length
    BY <1>3, <1>5, <1>7
  <2>5. arg'.offset = Off0 + Len(stdout')
    <3>1. \A o, l, b \in Nat : o + l + b = o + (l + b)
      OBVIOUS
    <3>2. arg'.offset = Off0 + Len(stdout) + Len(buf.data)
      BY Zenon, <1>2, <2>4
    <3>3. Off0 + Len(stdout) + Len(buf.data) = Off0 + (Len(stdout) + Len(buf.data))
      BY Zenon, <1>3, <1>5, <3>1
    <3> QED
      BY Zenon, <2>3, <3>2, <3>3
  <2>6. DumpTypes' /\ DumpOptions'
    BY <1>1, <1>7, <2>2, <2>4 DEF DumpInv, DumpTypes, DumpOptions, optvars
  <2>7. length_specified => Len(stdout') <= Len0 /\ Len(stdout') # 0
    <3> SUFFICES ASSUME length_specified PROVE Len(stdout') <= Len0 /\ Len(stdout') # 0
      OBVIOUS
    <3>1. Len(stdout) = 0 /\ arg.length = Len0
      BY <1>2, EmptySeq
    <3> QED
      BY <1>3, <1>5, <1>6, <2>3, <3>1
  <2>8. length_specified => stdout' # <<>>
    BY <2>2, <2>7, EmptySeq
  <2>9. length_specified => stdout' = buf'.data
    <3>1. \A s \in Seq(Int) : <<>> \o s = s
      BY ConcatEmptySeq
    <3> QED
      BY Zenon, <1>1, <1>2, <1>4, <1>7, <3>1
  <2>10. DumpRun'
    BY <1>1, <1>2, <1>7, <2>2, <2>4, <2>5, <2>7, <2>8, <2>9, SameCommand DEF DumpRun
  <2> QED
    BY <2>6, <2>10 DEF DumpInv
<1>8. ASSUME NEW n \in 0 .. Len(buf.data) - 1, stdout' = stdout \o SubSeq(buf.data, 1, n),
             pc' = "out", status' = 1, arg' = arg
      PROVE  DumpInv'
  <2> DEFINE data == SubSeq(buf.data, 1, n)
  <2>1. n \in Nat /\ n \in 0 .. Len(buf.data)
    BY <1>5
  <2>2. \A k \in 1 .. n : buf.data[k] \in Int
    <3>1. \A k \in 1 .. n : k \in 1 .. Len(buf.data)
      BY <1>5
    <3> QED
      BY <1>4, <3>1, ElementOfSeq
  <2>3. data \in Seq(Int) /\ Len(data) = n /\ \A k \in 1 .. n : data[k] = buf.data[k]
    BY <2>1, <2>2, SubSeqProperties
  <2> HIDE DEF data
  <2>4. /\ stdout' \in Seq(Int)
        /\ \A k \in 1 .. Len(stdout') : stdout'[k] = Off0 + k
        /\ Off0 + Len(stdout') <= size
    <3>1. stdout' = stdout \o data
      BY <1>8 DEF data
    <3> QED
      BY Zenon, <1>1, <2>1, <2>3, <3>1, Written
  <2>5. DumpTypes' /\ DumpOptions'
    BY <1>1, <1>8, <2>4 DEF DumpInv, DumpTypes, DumpOptions, optvars
  <2>6. DumpRun'
    BY <1>1, <1>2, <1>8, <2>4, SameCommand DEF DumpRun
  <2> QED
    BY <2>5, <2>6 DEF DumpInv
<1> QED
  <2>1. WriteOut =>
          \/ /\ stdout' = stdout \o buf.data /\ arg' = [arg EXCEPT !.offset = @ + Len(buf.data)]
             /\ status' = 0 /\ pc' = IF ~length_specified THEN "read" ELSE "out"
          \/ \E n \in 0 .. Len(buf.data) - 1 :
               /\ stdout' = stdout \o SubSeq(buf.data, 1, n)
               /\ pc' = "out" /\ status' = 1 /\ arg' = arg
    BY Zenon, <1>2 DEF WriteOut, Advance, ReadOn, Goto, OutErr
  <2> QED
    BY Zenon, <1>7, <1>8, <2>1

LEMMA DumpOutStep == DumpInv /\ Out => DumpInv'
<1> SUFFICES ASSUME DumpInv, Out PROVE DumpInv'
  OBVIOUS
<1>1. /\ pc = "out" /\ pc' = "exit" /\ buf' = [buf EXCEPT !.live = FALSE] /\ status' = status
      /\ UNCHANGED <<optvars, i, arg, stdout>>
  BY Zenon DEF Out, Goto
<1>2. DumpTypes'
  BY <1>1 DEF DumpInv, DumpTypes, optvars
<1>3. DumpOptions'
  BY Zenon, <1>1 DEF DumpOptions
<1>4. DumpRun'
  BY <1>1, SameCommand DEF DumpInv, DumpRun
<1> QED
  BY <1>2, <1>3, <1>4 DEF DumpInv

LEMMA DumpNext == DumpInv /\ [CmdDumpMetadataStep \/ CmdDumpMetadataExited]_dumpvars => DumpInv'
<1> SUFFICES ASSUME DumpInv, [CmdDumpMetadataStep \/ CmdDumpMetadataExited]_dumpvars PROVE DumpInv'
  OBVIOUS
<1>1. CASE UNCHANGED dumpvars
  <2>1. UNCHANGED optvars /\ UNCHANGED <<pc, i, status, file, arg, buf, stdout>>
    BY Zenon, <1>1 DEF dumpvars
  <2>2. UNCHANGED <<dump, size, offset_specified, length_specified>>
    BY Zenon, <2>1 DEF optvars
  <2>3. DumpTypes'
    BY <2>1, <2>2 DEF DumpInv, DumpTypes
  <2>4. DumpOptions'
    BY <2>1, <2>2 DEF DumpInv, DumpOptions, Seen, Is
  <2>5. DumpRun'
    BY <2>1, <2>2, SameCommand DEF DumpInv, DumpRun
  <2> QED
    BY <2>3, <2>4, <2>5 DEF DumpInv
<1> QED
  BY <1>1, DumpParseStep, DumpOptionsDoneStep, DumpOpenStep, DumpReadStep, DumpWriteStep, DumpOutStep
    DEF CmdDumpMetadataStep, CmdDumpMetadataExited

LEMMA DumpInvariance == CmdDumpMetadataSpec => []DumpInv
  BY DumpInit, DumpNext, PTL DEF CmdDumpMetadataSpec

(***************************************************************************)
(* At every moment standard output holds a stretch of the metadata that    *)
(* starts at the offset asked for, whatever the sizes and however much the *)
(* kernel returns for one ioctl (fsverity_cmd_dump_metadata()).            *)
(***************************************************************************)
THEOREM DumpsInOrder == CmdDumpMetadataSpec => []DumpInOrder
<1>1. DumpInv => DumpInOrder
  <2> SUFFICES ASSUME DumpInv PROVE DumpInOrder
    OBVIOUS
  <2>1. stdout \in Seq(Int) /\ size \in Nat
    BY DEF DumpInv, DumpTypes
  <2>2. DOMAIN stdout = 1 .. Len(stdout) /\ Len(stdout) \in Nat
    BY <2>1, LenProperties
  <2>3. \A k \in 1 .. Len(stdout) : stdout[k] = Off0 + k
    BY DEF DumpInv, DumpRun
  <2>4. Len(stdout) <= size
    <3>1. CASE stdout = <<>>
      BY <2>1, <3>1, EmptySeq
    <3>2. CASE stdout # <<>>
      <4>1. Off0 \in Nat /\ Off0 + Len(stdout) <= size
        BY <3>2 DEF DumpInv, DumpRun, DumpValid
      <4> QED
        BY <2>1, <2>2, <4>1
    <3> QED
      BY <3>1, <3>2
  <2> QED
    BY <2>2, <2>3, <2>4 DEF DumpInOrder, Off0
<1> QED
  BY DumpInvariance, <1>1, PTL

(***************************************************************************)
(* Status 0 means that all the metadata was written or, of a range, what   *)
(* the one ioctl returned of it, which may be less than was asked for; a   *)
(* usage error writes nothing.                                             *)
(***************************************************************************)
THEOREM DumpsWhatWasRead == CmdDumpMetadataSpec => []DumpComplete
<1>1. DumpInv => DumpComplete
  <2> SUFFICES ASSUME DumpInv PROVE DumpComplete
    OBVIOUS
  <2>1. dump.opts = <<>> <=> Len(dump.opts) = 0
    BY DumpCommand DEF DumpInv
  <2>2. DumpValid => (dump.opts = <<>> <=> ~length_specified) /\ Len(dump.opts) \in {0, 2}
    BY <2>1 DEF DumpValid
  <2>3. pc = "exit" /\ status = 0 =>
          IF dump.opts = <<>> THEN Len(stdout) = size
          ELSE stdout = buf.data /\ Len(stdout) <= Len0 /\ (stdout = <<>> => Len0 = 0 \/ Off0 >= size)
    BY <2>2 DEF DumpInv, DumpRun
  <2>4. status = 2 => stdout = <<>>
    BY DEF DumpInv, DumpRun
  <2>5. stdout # <<>> => Len(dump.opts) \in {0, 2}
    BY <2>2 DEF DumpInv, DumpRun
  <2> QED
    BY <2>3, <2>4, <2>5 DEF DumpComplete, Off0, Len0
<1> QED
  BY DumpInvariance, <1>1, PTL

----------------------------------------------------------------------------
\* Where the blocks of a tree go in the tree file.

LEMMA CeilFacts ==
  ASSUME NEW n \in Nat, NEW e \in Nat \ {0}
  PROVE  Lib!CeilDiv(n, e) \in Nat /\ Lib!CeilDiv(n, e) <= n
<1> DEFINE q == (n + e - 1) \div e
<1>1. q \in Int /\ e * q <= n + e - 1 /\ n + e - 1 < e * q + e
  OBVIOUS
<1> HIDE DEF q
<1>2. q >= 0
  <2> SUFFICES ASSUME q <= -1 PROVE FALSE
    BY <1>1
  <2>1. \A x \in Int : x <= -1 => e * x <= -e
    OBVIOUS
  <2>2. e * q <= -e /\ e * q \in Int
    BY <1>1, <2>1
  <2> QED
    BY <1>1, <2>2
<1>3. q <= n
  <2> SUFFICES ASSUME n + 1 <= q PROVE FALSE
    BY <1>1
  <2>1. \A x \in Nat : n + 1 <= x => e * (n + 1) <= e * x
    OBVIOUS
  <2>2. e * (n + 1) = e * n + e /\ n <= e * n
    OBVIOUS
  <2>3. e * n + e <= e * q /\ e * q \in Int /\ e * n \in Int
    BY <1>1, <1>2, <2>1, <2>2
  <2> QED
    BY <1>1, <2>2, <2>3
<1> QED
  BY <1>1, <1>2, <1>3 DEF q, Lib!CeilDiv

\* Tree a has finitely many levels, each of finitely many blocks.
HasLevels(a) ==
  /\ a.block_size \in Nat \ {0} /\ a.file_size \in Nat /\ Lib!RefLevels(a) \in Nat
  /\ \A l \in -1 .. Lib!RefLevels(a) - 1 :
       Lib!RefBlocks(a, l) \in Nat /\ Lib!RefBlocks(a, l) <= a.file_size

LEMMA TreeHasLevels ==
  ASSUME NEW p, Lib!Acceptable(p), p.file_size \in Sizes, BlockSizeOf(p) \in BlockSizes
  PROVE  HasLevels(RootArgs(p))
<1> DEFINE s == p.file_size
           n == BlockSizeOf(p)
           alg == HashAlgOf(p)
           e == HashAlgTable[alg].digest_size
           a == [file_size |-> s, block_size |-> n, digest_size |-> e]
           r == RootArgs(p)
           h == n \div e
<1>1. alg \in DOMAIN HashAlgTable /\ n >= 2 * GetDigestSize(alg) /\ GetDigestSize(alg) = e
  BY Zenon DEF Lib!Acceptable, Lib!KnownHashAlg, Lib!HashAlgOf, Lib!BlockSizeOf, Lib!GetDigestSize,
    HashAlgOf, BlockSizeOf, GetDigestSize, KnownHashAlg
<1>2. e \in Nat \ {0} /\ n \in Nat /\ s \in Nat
  BY Zenon, <1>1, TableAssumption, PowersAssumption, LevelsAssumption
<1>3. n # 0
  BY <1>1, <1>2
<1>4. /\ \A k \in 0 .. s : h^k \in Nat \ {0}
      /\ \E m \in 0 .. s : /\ Lib!RefBlocks(a, m - 1) <= 1
                           /\ \A j \in 0 .. m - 1 : Lib!RefBlocks(a, j - 1) > 1
  BY Zenon, <1>1, LevelsAssumption
<1>5. r.file_size = s /\ r.block_size = n /\ r.digest_size = e
  BY Zenon, <1>1 DEF RootArgs
<1>6. a.file_size = s /\ a.block_size = n /\ a.digest_size = e
  BY Zenon
<1> HIDE DEF a, r
<1>7. \A l : /\ Lib!RefBlocks(a, l) = Lib!CeilDiv(s, n * h^(l + 1))
             /\ Lib!RefBlocks(r, l) = Lib!CeilDiv(s, n * h^(l + 1))
  BY Zenon, <1>5, <1>6 DEF Lib!RefBlocks, Lib!RefHashesPerBlock
<1>8. Lib!RefLevels(r) \in 0 .. s
  <2>1. \E m \in 0 .. r.file_size : /\ Lib!RefBlocks(r, m - 1) <= 1
                                    /\ \A j \in 0 .. m - 1 : Lib!RefBlocks(r, j - 1) > 1
    BY Zenon, <1>4, <1>5, <1>7
  <2> QED
    BY Zenon, <1>5, <2>1 DEF Lib!RefLevels
<1>9. ASSUME NEW l \in -1 .. Lib!RefLevels(r) - 1
      PROVE  Lib!RefBlocks(r, l) \in Nat /\ Lib!RefBlocks(r, l) <= s
  <2>1. l + 1 \in 0 .. s
    BY <1>2, <1>8
  <2>2. h^(l + 1) \in Nat \ {0}
    BY Zenon, <1>4, <2>1
  <2>3. \A x, y \in Nat \ {0} : x * y \in Nat \ {0}
    OBVIOUS
  <2>4. n * h^(l + 1) \in Nat \ {0}
    <3>1. n \in Nat \ {0}
      BY <1>2, <1>3
    <3> QED
      BY Zenon, <2>2, <2>3, <3>1
  <2>5. /\ Lib!CeilDiv(s, n * h^(l + 1)) \in Nat
        /\ Lib!CeilDiv(s, n * h^(l + 1)) <= s
    BY Zenon, <1>2, <2>4, CeilFacts
  <2> QED
    BY Zenon, <1>7, <2>5
<1>10. Lib!RefLevels(r) \in Nat /\ n \in Nat \ {0}
  BY <1>2, <1>3, <1>8
<1> QED
  BY Zenon, <1>2, <1>5, <1>9, <1>10 DEF HasLevels, r

LEMMA InLevels ==
  ASSUME NEW a, HasLevels(a), NEW b
  PROVE  b \in Lib!RefTree(a) <=>
           \E l \in -1 .. Lib!RefLevels(a) - 1 : \E k \in 0 .. Lib!RefBlocks(a, l) - 1 : b = <<l, k>>
BY DEF Lib!RefTree

LEMMA LevelsFinite ==
  ASSUME NEW a, HasLevels(a)
  PROVE  IsFiniteSet(Lib!RefTree(a))
<1> DEFINE L == -1 .. Lib!RefLevels(a) - 1
           K == 0 .. a.file_size
<1>1. a.file_size \in Nat /\ Lib!RefLevels(a) \in Nat
  BY Zenon DEF HasLevels
<1>2. a.file_size \in Int /\ 0 \in Int /\ -1 \in Int /\ Lib!RefLevels(a) - 1 \in Int
  BY <1>1
<1>3. IsFiniteSet(L) /\ IsFiniteSet(K)
  BY Zenon, <1>2, FS_Interval
<1>4. \A l \in L : \A k \in 0 .. Lib!RefBlocks(a, l) - 1 : k \in K
  <2> SUFFICES ASSUME NEW l \in L, NEW k \in 0 .. Lib!RefBlocks(a, l) - 1 PROVE k \in K
    OBVIOUS
  <2>1. Lib!RefBlocks(a, l) \in Nat /\ Lib!RefBlocks(a, l) <= a.file_size
    BY Zenon DEF HasLevels
  <2> QED
    BY <1>1, <2>1
<1> HIDE DEF K
<1>5. ASSUME NEW b \in Lib!RefTree(a) PROVE b \in L \X K
  <2>0. PICK l \in L : \E k \in 0 .. Lib!RefBlocks(a, l) - 1 : b = <<l, k>>
    BY InLevels
  <2>1. PICK k \in 0 .. Lib!RefBlocks(a, l) - 1 : b = <<l, k>>
    BY Zenon, <2>0
  <2>2. k \in K
    BY Zenon, <1>4
  <2> HIDE DEF L
  <2> QED
    BY <2>1, <2>2
<1> HIDE DEF L
<1>6. Lib!RefTree(a) \in SUBSET (L \X K)
  BY <1>5
<1>7. IsFiniteSet(L \X K)
  BY Zenon, <1>3, FS_Product
<1> QED
  BY Zenon, <1>6, <1>7, FS_Subset

LEMMA SameCardinality == \A S : Lib!Cardinality(S) = Cardinality(S)
BY Zenon DEF Lib!Cardinality, Cardinality

\* A level starts after all the blocks of a level above it.
LEMMA LevelAfter ==
  ASSUME NEW a, HasLevels(a), NEW l \in -1 .. Lib!RefLevels(a) - 1,
         NEW m \in -1 .. Lib!RefLevels(a) - 1, l < m
  PROVE  /\ Lib!RefStart(a, l) \in Nat /\ Lib!RefStart(a, m) \in Nat
         /\ Lib!RefStart(a, m) + Lib!RefBlocks(a, m) <= Lib!RefStart(a, l)
<1> DEFINE T == Lib!RefTree(a)
           n == Lib!RefBlocks(a, m)
           after == {b \in T : b[1] > l}
           above == {b \in T : b[1] > m}
           own == {m} \X (0 .. n - 1)
<1>1. IsFiniteSet(T)
  BY Zenon, LevelsFinite
<1>2. n \in Nat /\ Lib!RefLevels(a) \in Nat
  BY Zenon DEF HasLevels
<1>3. 0 \in Int /\ n - 1 \in Int /\ l \in Int /\ m \in Int
  BY <1>2
<1>4. IsFiniteSet(own) /\ Cardinality(own) = n
  <2>1. IsFiniteSet(0 .. n - 1) /\ Cardinality(0 .. n - 1) = n
    <3>1. /\ IsFiniteSet(0 .. n - 1)
          /\ Cardinality(0 .. n - 1) = IF 0 > n - 1 THEN 0 ELSE n - 1 - 0 + 1
      BY Zenon, <1>3, FS_Interval
    <3> QED
      BY <1>2, <3>1
  <2>2. IsFiniteSet({m}) /\ Cardinality({m}) = 1
    BY Zenon, FS_Singleton
  <2>3. IsFiniteSet(own) /\ Cardinality(own) = Cardinality({m}) * Cardinality(0 .. n - 1)
    BY Zenon, <2>1, <2>2, FS_Product
  <2> QED
    BY <1>2, <2>1, <2>2, <2>3
<1>5. \A b \in T : b[1] \in Int
  <2> SUFFICES ASSUME NEW b \in T PROVE b[1] \in Int
    OBVIOUS
  <2>1. PICK j \in -1 .. Lib!RefLevels(a) - 1 : \E k \in 0 .. Lib!RefBlocks(a, j) - 1 : b = <<j, k>>
    BY InLevels
  <2> QED
    BY <1>2, <2>1
<1>6. own \in SUBSET T
  <2> SUFFICES ASSUME NEW k \in 0 .. n - 1 PROVE <<m, k>> \in T
    BY <1>2
  <2> QED
    BY Zenon, InLevels
<1> HIDE DEF T, n
<1>7. \A b \in own : b[1] = m
  OBVIOUS
<1>8. above \cup own \in SUBSET after
  <2> SUFFICES ASSUME NEW b \in above \cup own PROVE b \in after
    OBVIOUS
  <2>1. b \in T /\ b[1] \in Int /\ b[1] >= m
    <3>1. CASE b \in above
      BY <1>3, <1>5, <3>1
    <3>2. CASE b \in own
      <4>1. b \in T /\ b[1] = m
        BY Zenon, <1>6, <1>7, <3>2
      <4> QED
        BY <1>3, <4>1
    <3> QED
      BY <3>1, <3>2
  <2> QED
    BY <1>3, <2>1
<1>9. above \cap own = {}
  <2> SUFFICES ASSUME NEW b \in above, b \in own PROVE FALSE
    OBVIOUS
  <2>1. b[1] > m /\ b[1] = m
    BY Zenon, <1>7
  <2> QED
    BY <1>3, <2>1
<1>10. /\ IsFiniteSet(after) /\ IsFiniteSet(above)
  <2>1. after \in SUBSET T /\ above \in SUBSET T
    OBVIOUS
  <2> QED
    BY Zenon, <1>1, <2>1, FS_Subset
<1>11. Lib!RefStart(a, l) = Cardinality(after) /\ Lib!RefStart(a, m) = Cardinality(above)
  BY Zenon, SameCardinality DEF Lib!RefStart, T
<1> HIDE DEF above, after, own
<1>12. Cardinality(after) \in Nat /\ Cardinality(above) \in Nat
  BY Zenon, <1>10, FS_CardinalityType
<1>13. Cardinality(above \cup own) = Cardinality(above) + Cardinality(own) - Cardinality(above \cap own)
  BY Zenon, <1>4, <1>10, FS_Union
<1>14. Cardinality(above \cap own) = 0
  BY Zenon, <1>9, FS_EmptySet
<1>15. Cardinality(above \cup own) <= Cardinality(after)
  BY Zenon, <1>8, <1>10, FS_Subset
<1> QED
  BY <1>2, <1>4, <1>11, <1>12, <1>13, <1>14, <1>15 DEF n

\* The number of a block in the tree file, as the reference has it
LEMMA NumberIs ==
  ASSUME HasLevels(RootArgs(call)), NEW b \in Lib!TreeBlocks(call)
  PROVE  LET a == RootArgs(call)
         IN  /\ b = <<b[1], b[2]>> /\ b[1] \in 0 .. Lib!RefLevels(a) - 1
             /\ b[2] \in 0 .. Lib!RefBlocks(a, b[1]) - 1
             /\ Lib!RefStart(a, b[1]) \in Nat /\ Lib!RefBlocks(a, b[1]) \in Nat
             /\ Lib!RefStart(a, b[1]) + Lib!RefBlocks(a, b[1]) <= Lib!RefStart(a, -1)
             /\ BlockNumber(b) = Lib!RefStart(a, b[1]) + b[2]
<1> DEFINE a == RootArgs(call)
<1>1. b \in Lib!RefTree(a) /\ b[1] >= 0
  <2>1. Lib!RootArgs(call) = a
    BY Zenon DEF Lib!RootArgs, RootArgs, Lib!BlockSizeOf, BlockSizeOf, Lib!GetDigestSize, GetDigestSize,
      Lib!HashAlgOf, HashAlgOf, Lib!KnownHashAlg, KnownHashAlg
  <2> QED
    BY Zenon, <2>1 DEF Lib!TreeBlocks
<1>2. PICK l \in -1 .. Lib!RefLevels(a) - 1 : \E k \in 0 .. Lib!RefBlocks(a, l) - 1 : b = <<l, k>>
  BY <1>1, InLevels
<1>3. PICK k \in 0 .. Lib!RefBlocks(a, l) - 1 : b = <<l, k>>
  BY Zenon, <1>2
<1>4. b[1] = l /\ b[2] = k
  BY <1>3
<1>5. /\ Lib!RefLevels(a) \in Nat /\ Lib!RefBlocks(a, l) \in Nat
      /\ a.block_size \in Nat \ {0} /\ a.block_size = BlockSizeOf(call)
  BY Zenon DEF HasLevels, RootArgs
<1> HIDE DEF a
<1>6. l \in 0 .. Lib!RefLevels(a) - 1 /\ -1 \in -1 .. Lib!RefLevels(a) - 1 /\ -1 < l /\ k \in Nat
  BY <1>1, <1>4, <1>5
<1>7. /\ Lib!RefStart(a, l) \in Nat
      /\ Lib!RefStart(a, l) + Lib!RefBlocks(a, l) <= Lib!RefStart(a, -1)
  BY Zenon, <1>6, LevelAfter DEF a
<1>8. BlockNumber(b) = Lib!RefStart(a, l) + k
  <2>1. BlockNumber(b) = (a.block_size * (Lib!RefStart(a, l) + k)) \div a.block_size
    BY Zenon, <1>4, <1>5 DEF BlockNumber, Lib!RefOffset, a
  <2>2. \A x \in Nat \ {0} : \A y \in Nat : (x * y) \div x = y
    OBVIOUS
  <2>3. Lib!RefStart(a, l) + k \in Nat
    BY <1>6, <1>7
  <2> QED
    BY Zenon, <1>5, <2>1, <2>2, <2>3
<1> QED
  BY Zenon, <1>3, <1>4, <1>5, <1>6, <1>7, <1>8 DEF a

\* Every block of the tree has a place of its own in the file, and there are as
\* many places as blocks.
LEMMA BlockPlaces ==
  ASSUME HasLevels(RootArgs(call))
  PROVE  LET total == Cardinality(Lib!TreeBlocks(call))
         IN  /\ total \in Nat /\ TreeSize = total
             /\ \A b \in Lib!TreeBlocks(call) : BlockNumber(b) \in Nat /\ BlockNumber(b) + 1 <= total
             /\ \A b, c \in Lib!TreeBlocks(call) : BlockNumber(b) = BlockNumber(c) => b = c
<1> DEFINE a == RootArgs(call)
           T == Lib!TreeBlocks(call)
           S == Lib!RefStart(a, -1)
<1>1. Lib!RootArgs(call) = a
  BY Zenon DEF Lib!RootArgs, RootArgs, Lib!BlockSizeOf, BlockSizeOf, Lib!GetDigestSize, GetDigestSize,
    Lib!HashAlgOf, HashAlgOf, Lib!KnownHashAlg, KnownHashAlg
<1>2. IsFiniteSet(T)
  <2>1. IsFiniteSet(Lib!RefTree(a))
    BY Zenon, LevelsFinite
  <2>2. T \in SUBSET Lib!RefTree(a)
    BY Zenon, <1>1 DEF Lib!TreeBlocks
  <2> QED
    BY Zenon, <2>1, <2>2, FS_Subset
<1>3. S = Cardinality(T)
  <2>1. \A b \in Lib!RefTree(a) : b[1] > -1 <=> b[1] >= 0
    <3> SUFFICES ASSUME NEW b \in Lib!RefTree(a) PROVE b[1] > -1 <=> b[1] >= 0
      OBVIOUS
    <3>1. PICK l \in -1 .. Lib!RefLevels(a) - 1 : \E k \in 0 .. Lib!RefBlocks(a, l) - 1 : b = <<l, k>>
      BY InLevels
    <3>2. Lib!RefLevels(a) \in Nat
      BY Zenon DEF HasLevels
    <3>3. b[1] = l /\ l \in Int
      <4>1. PICK k : b = <<l, k>>
        BY Zenon, <3>1
      <4> QED
        BY <3>2, <4>1
    <3> QED
      BY <3>3
  <2> HIDE DEF a
  <2>2. T = {b \in Lib!RefTree(a) : b[1] > -1}
    BY Zenon, <1>1, <2>1 DEF Lib!TreeBlocks
  <2> QED
    BY Zenon, <2>2, SameCardinality DEF Lib!RefStart
<1>4. S \in Nat
  BY Zenon, <1>2, <1>3, FS_CardinalityType
<1>5. TreeSize = S
  <2>1. a.block_size \in Nat \ {0} /\ a.block_size = BlockSizeOf(call)
    BY Zenon DEF HasLevels, RootArgs
  <2>2. TreeSize = (a.block_size * S) \div a.block_size
    BY Zenon, <2>1 DEF TreeSize, Lib!RefTreeSize
  <2>3. \A x \in Nat \ {0} : \A y \in Nat : (x * y) \div x = y
    OBVIOUS
  <2> QED
    BY Zenon, <1>4, <2>1, <2>2, <2>3
<1>6. ASSUME NEW b \in T
      PROVE  BlockNumber(b) \in Nat /\ BlockNumber(b) + 1 <= S
  <2>1. /\ b[2] \in 0 .. Lib!RefBlocks(a, b[1]) - 1
        /\ Lib!RefStart(a, b[1]) \in Nat /\ Lib!RefBlocks(a, b[1]) \in Nat
        /\ Lib!RefStart(a, b[1]) + Lib!RefBlocks(a, b[1]) <= S
        /\ BlockNumber(b) = Lib!RefStart(a, b[1]) + b[2]
    BY Zenon, NumberIs
  <2> HIDE DEF a, S, T
  <2> QED
    BY <1>4, <2>1
<1>7. ASSUME NEW b \in T, NEW c \in T, b[1] < c[1]
      PROVE  BlockNumber(b) # BlockNumber(c)
  <2>1. /\ b[1] \in 0 .. Lib!RefLevels(a) - 1 /\ b[2] \in 0 .. Lib!RefBlocks(a, b[1]) - 1
        /\ Lib!RefBlocks(a, b[1]) \in Nat
        /\ BlockNumber(b) = Lib!RefStart(a, b[1]) + b[2]
    BY Zenon, NumberIs
  <2>2. /\ c[1] \in 0 .. Lib!RefLevels(a) - 1 /\ c[2] \in 0 .. Lib!RefBlocks(a, c[1]) - 1
        /\ Lib!RefBlocks(a, c[1]) \in Nat
        /\ BlockNumber(c) = Lib!RefStart(a, c[1]) + c[2]
    BY Zenon, NumberIs
  <2>3. b[1] \in -1 .. Lib!RefLevels(a) - 1 /\ c[1] \in -1 .. Lib!RefLevels(a) - 1
    <3>1. Lib!RefLevels(a) \in Nat
      BY Zenon DEF HasLevels
    <3> QED
      BY <2>1, <2>2, <3>1
  <2>4. /\ Lib!RefStart(a, b[1]) \in Nat /\ Lib!RefStart(a, c[1]) \in Nat
        /\ Lib!RefStart(a, c[1]) + Lib!RefBlocks(a, c[1]) <= Lib!RefStart(a, b[1])
    BY Zenon, <1>7, <2>3, LevelAfter
  <2> HIDE DEF a, S, T
  <2> QED
    BY <2>1, <2>2, <2>4
<1>8. ASSUME NEW b \in T, NEW c \in T, BlockNumber(b) = BlockNumber(c)
      PROVE  b = c
  <2>1. /\ b = <<b[1], b[2]>> /\ b[1] \in 0 .. Lib!RefLevels(a) - 1
        /\ b[2] \in 0 .. Lib!RefBlocks(a, b[1]) - 1 /\ Lib!RefStart(a, b[1]) \in Nat
        /\ Lib!RefBlocks(a, b[1]) \in Nat /\ BlockNumber(b) = Lib!RefStart(a, b[1]) + b[2]
    BY Zenon, NumberIs
  <2>2. /\ c = <<c[1], c[2]>> /\ c[1] \in 0 .. Lib!RefLevels(a) - 1
        /\ c[2] \in 0 .. Lib!RefBlocks(a, c[1]) - 1 /\ Lib!RefBlocks(a, c[1]) \in Nat
        /\ BlockNumber(c) = Lib!RefStart(a, c[1]) + c[2]
    BY Zenon, NumberIs
  <2>3. ~(b[1] < c[1]) /\ ~(c[1] < b[1])
    BY Zenon, <1>7, <1>8
  <2>4. Lib!RefLevels(a) \in Nat
    BY Zenon DEF HasLevels
  <2> HIDE DEF a, S, T
  <2>5. b[1] = c[1]
    BY <2>1, <2>2, <2>3, <2>4
  <2>6. Lib!RefStart(a, b[1]) + b[2] = Lib!RefStart(a, b[1]) + c[2] /\ b[2] \in Nat /\ c[2] \in Nat
    <3>1. Lib!RefStart(a, b[1]) + b[2] = Lib!RefStart(a, b[1]) + c[2]
      BY Zenon, <1>8, <2>1, <2>2, <2>5
    <3>2. b[2] \in Nat /\ c[2] \in Nat
      BY <2>1, <2>2
    <3> QED
      BY Zenon, <3>1, <3>2
  <2>7. b[2] = c[2]
    <3>1. \A x, y, z \in Nat : x + y = x + z => y = z
      OBVIOUS
    <3> QED
      BY Zenon, <2>1, <2>6, <3>1
  <2> QED
    BY Zenon, <2>1, <2>2, <2>5, <2>7
<1> QED
  BY Zenon, <1>3, <1>4, <1>5, <1>6, <1>8

----------------------------------------------------------------------------
\* Writing the output files.

IsSeq(s) == \E S : s \in Seq(S)

LEMMA AppendToSeq ==
  ASSUME NEW s, NEW x, IsSeq(s)
  PROVE  /\ IsSeq(Append(s, x)) /\ Len(s) \in Nat /\ Len(Append(s, x)) = Len(s) + 1
         /\ \A k \in 1 .. Len(s) : Append(s, x)[k] = s[k]
         /\ Append(s, x)[Len(s) + 1] = x
<1>1. PICK S : s \in Seq(S)
  BY Zenon DEF IsSeq
<1> DEFINE T == S \cup {x}
<1>2. s \in Seq(T) /\ x \in T
  BY <1>1
<1> HIDE DEF T
<1>3. /\ Append(s, x) \in Seq(T) /\ Len(s) \in Nat /\ Len(Append(s, x)) = Len(s) + 1
      /\ \A k \in 1 .. Len(s) : Append(s, x)[k] = s[k]
      /\ Append(s, x)[Len(s) + 1] = x
  BY <1>2
<1> QED
  BY Zenon, <1>3 DEF IsSeq

LEMMA SeqOfLength ==
  ASSUME NEW s, NEW m \in Nat, NEW S, s \in [1 .. m -> S]
  PROVE  IsSeq(s) /\ Len(s) = m
<1>1. s \in Seq(S) /\ Len(s) = m
  OBVIOUS
<1> QED
  BY Zenon, <1>1 DEF IsSeq

LEMMA SeqLength ==
  ASSUME NEW s, IsSeq(s)
  PROVE  Len(s) \in Nat /\ DOMAIN s = 1 .. Len(s) /\ s = [k \in 1 .. Len(s) |-> s[k]]
<1>1. PICK S : s \in Seq(S)
  BY Zenon DEF IsSeq
<1> QED
  BY <1>1

LEMMA PreallocatedFacts ==
  ASSUME NEW s, IsSeq(s), NEW n \in Nat
  PROVE  LET t == Preallocated(s, n)
         IN  /\ IsSeq(t) /\ Len(t) = (IF Len(s) < n THEN n ELSE Len(s))
             /\ \A k \in 1 .. Len(s) : t[k] = s[k]
<1> DEFINE m == IF Len(s) < n THEN n ELSE Len(s)
           t == Preallocated(s, n)
           S == {t[k] : k \in 1 .. m}
<1>1. Len(s) \in Nat
  BY Zenon, SeqLength
<1>2. m \in Nat /\ \A k \in 1 .. Len(s) : k \in 1 .. m /\ k <= Len(s)
  BY <1>1
<1>3. t = [k \in 1 .. m |-> IF k <= Len(s) THEN s[k] ELSE Hole]
  BY Zenon DEF Preallocated
<1> HIDE DEF m, t
<1>4. t \in [1 .. m -> S]
  BY <1>3
<1>5. IsSeq(t) /\ Len(t) = m
  BY Zenon, <1>2, <1>4, SeqOfLength
<1>6. \A k \in 1 .. Len(s) : t[k] = s[k]
  BY Zenon, <1>2, <1>3
<1> QED
  BY Zenon, <1>5, <1>6 DEF m, t

LEMMA WrittenAt ==
  ASSUME NEW s, IsSeq(s), NEW j \in 1 .. Len(s), NEW x
  PROVE  LET t == [s EXCEPT ![j] = x]
         IN  /\ IsSeq(t) /\ Len(t) = Len(s) /\ t[j] = x
             /\ \A k \in 1 .. Len(s) : k # j => t[k] = s[k]
<1> DEFINE t == [s EXCEPT ![j] = x]
           S == {t[k] : k \in 1 .. Len(s)}
<1>1. Len(s) \in Nat /\ DOMAIN s = 1 .. Len(s) /\ s = [k \in 1 .. Len(s) |-> s[k]]
  BY Zenon, SeqLength
<1>2. t = [k \in 1 .. Len(s) |-> IF k = j THEN x ELSE s[k]]
  BY <1>1
<1> HIDE DEF t
<1>3. t \in [1 .. Len(s) -> S]
  BY <1>2
<1>4. IsSeq(t) /\ Len(t) = Len(s)
  BY Zenon, <1>1, <1>3, SeqOfLength
<1>5. t[j] = x /\ \A k \in 1 .. Len(s) : k # j => t[k] = s[k]
  BY Zenon, <1>2
<1> QED
  BY Zenon, <1>4, <1>5 DEF t

----------------------------------------------------------------------------
\* fsverity digest: what the output files hold.

LEMMA LibStepKeeps ==
  ASSUME NEW f, LibStep(f)
  PROVE  call' = call /\ tree_params' = tree_params /\ outputs' = outputs
BY Zenon DEF LibStep, HandleMerkleTreeSize, HandleMerkleTreeBlock, HandleDescriptor,
  Lib!TellSize, Lib!TellBlock, Lib!TellDescriptor, Lib!Succeed, Lib!Fail

\* The parameters while options and files are gone through: their fields, and
\* where the block size comes from.
ParamsInv ==
  /\ cmd \in CommandLines /\ i \in Nat \ {0}
  /\ {"block_size", "file_size", "cbs"} \subseteq DOMAIN tree_params
  /\ BlockSizeOf(tree_params) \in BlockSizes

LEMMA ParamsInitial == CmdDigestInit => ParamsInv
<1> SUFFICES ASSUME CmdDigestInit PROVE ParamsInv
  OBVIOUS
<1>1. /\ cmd \in CommandLines /\ i = 1
      /\ tree_params = [pointers |-> TRUE, version |-> 1, reserved_zero |-> TRUE,
                        hash_algorithm |-> 0, block_size |-> 0, file_size |-> 0,
                        salt_size |-> 0, salt |-> FALSE, cbs |-> {}]
  BY Zenon DEF CmdDigestInit, ParamsInit
<1>2. {"block_size", "file_size", "cbs"} \subseteq DOMAIN tree_params /\ tree_params.block_size = 0
  BY <1>1
<1>3. BlockSizeOf(tree_params) \in BlockSizes
  BY Zenon, <1>2 DEF BlockSizeOf, BlockSizes
<1>4. i \in Nat \ {0}
  BY <1>1
<1> QED
  BY Zenon, <1>1, <1>2, <1>3, <1>4 DEF ParamsInv

\* No option but --block-size changes the block size.
LEMMA ParamsParsed ==
  ASSUME ParamsInv, ParseDigestOption
  PROVE  /\ {"block_size", "file_size", "cbs"} \subseteq DOMAIN tree_params'
         /\ BlockSizeOf(tree_params)' \in BlockSizes
<1> DEFINE o == cmd.opts[i]
<1>1. PICK accepted \in BOOLEAN : ParseTreeParam(o, accepted)
  BY Zenon DEF ParseDigestOption
<1>2. o.opt \in TreeOptions
  BY Zenon DEF ParseDigestOption
<1>3. o.n \in BlockSizes
  <2>1. i <= Len(cmd.opts) /\ i \in Nat \ {0} /\ cmd \in CommandLines
    BY Zenon DEF ParamsInv, ParseDigestOption
  <2>2. Len(cmd.opts) \in Nat /\ DOMAIN cmd.opts = 1 .. Len(cmd.opts)
    BY Zenon, <2>1, OptionsAssumption
  <2>3. i \in DOMAIN cmd.opts
    BY <2>1, <2>2
  <2>4. o.n \in {cmd.opts[k].n : k \in DOMAIN cmd.opts}
    BY Zenon, <2>3
  <2> QED
    BY Zenon, <2>1, <2>4 DEF BlockSizes
<1>4. \/ ParseHashAlg(o, accepted) \/ ParseBlockSize(o, accepted) \/ ParseSalt(o, accepted)
      \/ ParseOut("tree", accepted) \/ ParseOut("desc", accepted)
  BY Zenon, <1>1, <1>2 DEF ParseTreeParam, TreeOptions
<1>5. \/ tree_params' = tree_params
      \/ \E n : tree_params' = [tree_params EXCEPT !.hash_algorithm = n]
      \/ tree_params' = [tree_params EXCEPT !.block_size = o.n]
      \/ \E n : tree_params' = [tree_params EXCEPT !.salt = TRUE, !.salt_size = n]
      \/ \E C : tree_params' = [tree_params EXCEPT !.cbs = C]
  BY Zenon, <1>4 DEF ParseHashAlg, ParseBlockSize, ParseSalt, ParseOut
<1> HIDE DEF o
<1>6. {"block_size", "file_size", "cbs"} \subseteq DOMAIN tree_params
  BY Zenon DEF ParamsInv
<1>7. /\ DOMAIN tree_params' = DOMAIN tree_params
      /\ tree_params'.block_size \in {tree_params.block_size, o.n}
  BY <1>5, <1>6
<1>8. BlockSizeOf(tree_params) \in BlockSizes /\ DefaultBlockSize \in BlockSizes
  BY Zenon DEF ParamsInv, BlockSizes
<1>9. BlockSizeOf(tree_params)' \in BlockSizes
  BY Zenon, <1>3, <1>7, <1>8 DEF BlockSizeOf
<1> QED
  BY Zenon, <1>6, <1>7, <1>9

LEMMA ParamsNext == ParamsInv /\ [CmdDigestNext]_digestvars => ParamsInv'
<1> SUFFICES ASSUME ParamsInv, [CmdDigestNext]_digestvars PROVE ParamsInv'
  OBVIOUS
<1>1. cmd' = cmd /\ (i' = i \/ i' = i + 1 \/ i' = 1)
  BY Zenon DEF CmdDigestNext, CmdDigestStep, CmdDigestExited, digestvars, cmdvars,
    ParseDigestOption, ParseFlag, DigestOptionsDone, OpenInput, StatInput, CallLibrary,
    Library, LibraryReturns, PrintDigest, CloseInput, FilesDone, CmdDigestOut
<1>2. i \in Nat \ {0}
  BY Zenon DEF ParamsInv
<1>3. i' \in Nat \ {0}
  BY <1>1, <1>2
<1>4. \/ ParseDigestOption
      \/ tree_params' = tree_params
      \/ \E s : tree_params' = [tree_params EXCEPT !.file_size = s]
      \/ tree_params' = [tree_params EXCEPT !.version = 0, !.hash_algorithm = 0,
           !.block_size = 0, !.file_size = 0, !.salt_size = 0, !.salt = FALSE, !.cbs = {}]
  <2>1. CASE UNCHANGED digestvars
    BY Zenon, <2>1 DEF digestvars, paramvars
  <2>2. CASE ParseFlag \/ DigestOptionsDone \/ OpenInput \/ FilesDone
    BY Zenon, <2>2 DEF ParseFlag, DigestOptionsDone, OpenInput, FilesDone, paramvars
  <2>3. CASE StatInput \/ CallLibrary \/ LibraryReturns \/ PrintDigest \/ CloseInput
    BY Zenon, <2>3 DEF StatInput, CallLibrary, LibraryReturns, PrintDigest, CloseInput
  <2>4. CASE Library
    BY Zenon, <2>4, LibStepKeeps DEF Library
  <2>5. CASE CmdDigestOut
    BY Zenon, <2>5 DEF CmdDigestOut, DestroyTreeParams
  <2> QED
    BY Zenon, <2>1, <2>2, <2>3, <2>4, <2>5 DEF CmdDigestNext, CmdDigestStep, CmdDigestExited
<1>5. {"block_size", "file_size", "cbs"} \subseteq DOMAIN tree_params
  BY Zenon DEF ParamsInv
<1>6. CASE ~ParseDigestOption
  <2>1. /\ DOMAIN tree_params' = DOMAIN tree_params
        /\ tree_params'.block_size \in {tree_params.block_size, 0}
    BY <1>4, <1>5, <1>6
  <2>2. BlockSizeOf(tree_params) \in BlockSizes /\ DefaultBlockSize \in BlockSizes
    BY Zenon DEF ParamsInv, BlockSizes
  <2>3. BlockSizeOf(tree_params)' \in BlockSizes
    BY Zenon, <2>1, <2>2 DEF BlockSizeOf
  <2> QED
    BY Zenon, <1>1, <1>3, <1>5, <2>1, <2>3 DEF ParamsInv
<1>7. CASE ParseDigestOption
  BY Zenon, <1>1, <1>3, <1>7, ParamsParsed DEF ParamsInv
<1> QED
  BY Zenon, <1>6, <1>7

Digesting == pc \in {"library", "print", "close"}

\* The callbacks of an output file are installed while it is open, and nothing
\* is in it before the first call of the library.
DigestOutputs ==
  /\ DOMAIN outputs = {"tree", "desc"}
  /\ pc \notin {"out", "exit"} =>
       /\ outputs["tree"] = "open" =>
            "merkle_tree_size" \in tree_params.cbs /\ "merkle_tree_block" \in tree_params.cbs
       /\ outputs["desc"] = "open" => "descriptor" \in tree_params.cbs
  /\ pc = "options" \/ (pc \in {"open", "stat", "compute"} /\ i = 1) =>
       tree_file = <<>> /\ desc_file = <<>>

DigestCall ==
  /\ pc = "compute" => tree_params.file_size \in Sizes
  /\ Digesting => call = tree_params /\ tree_params.file_size \in Sizes
  /\ Digesting /\ result = "ok" =>
       Lib!SizeIsTold /\ Lib!BlocksAreTold /\ (Lib!Wants("descriptor") => told_desc)
  /\ pc \in {"print", "close"} => result = "ok"

\* The blocks told so far are in their places, and nothing else is in the file
\* if this is the first one.
TreeHeld ==
  /\ IsSeq(tree_file)
  /\ Digesting /\ result # "failed" /\ outputs["tree"] = "open" =>
       /\ \A b \in told_blocks :
            /\ b \in Lib!TreeBlocks(call) /\ BlockNumber(b) + 1 \in 1 .. Len(tree_file)
            /\ tree_file[BlockNumber(b) + 1] = <<i, b[1], b[2]>>
       /\ i = 1 /\ ~told_size => Len(tree_file) = 0
       /\ i = 1 /\ told_size => Len(tree_file) = Cardinality(Lib!TreeBlocks(call))

DescriptorHeld ==
  /\ IsSeq(desc_file)
  /\ Digesting /\ result # "failed" /\ outputs["desc"] = "open" =>
       /\ told_desc => desc_file[Len(desc_file)] = [desc |-> DescriptorOf(call, i), whole |-> TRUE]
       /\ i = 1 /\ ~told_desc => Len(desc_file) = 0
       /\ i = 1 /\ told_desc => Len(desc_file) = 1

OutputInv == DigestOutputs /\ DigestCall /\ TreeHeld /\ DescriptorHeld

LEMMA EmptyIsSeq == IsSeq(<<>>) /\ Len(<<>>) = 0
<1>1. <<>> \in Seq({}) /\ Len(<<>>) = 0
  OBVIOUS
<1> QED
  BY Zenon, <1>1 DEF IsSeq

LEMMA SameCall ==
  ASSUME call' = call
  PROVE  /\ Lib!TreeBlocks(call)' = Lib!TreeBlocks(call)
         /\ \A b : BlockNumber(b)' = BlockNumber(b)
         /\ \A f : DescriptorOf(call, f)' = DescriptorOf(call, f)
BY Zenon DEF BlockNumber, Lib!TreeBlocks

LEMMA OutputInit == CmdDigestInit => OutputInv
<1> SUFFICES ASSUME CmdDigestInit PROVE OutputInv
  OBVIOUS
<1>1. /\ pc = "options" /\ outputs = [tree |-> "none", desc |-> "none"]
      /\ tree_file = <<>> /\ desc_file = <<>>
  BY Zenon DEF CmdDigestInit, ParamsInit
<1>2. DOMAIN outputs = {"tree", "desc"} /\ outputs["tree"] # "open" /\ outputs["desc"] # "open"
  BY <1>1
<1> QED
  BY Zenon, <1>1, <1>2, EmptyIsSeq
    DEF OutputInv, DigestOutputs, DigestCall, TreeHeld, DescriptorHeld, Digesting

\* Steps that leave the library and the output files alone

LEMMA OutputsLeft ==
  ASSUME OutputInv, pc' \in {"out", "exit"}, DOMAIN outputs' = DOMAIN outputs,
         tree_file' = tree_file, desc_file' = desc_file
  PROVE  OutputInv'
BY Zenon DEF OutputInv, DigestOutputs, DigestCall, TreeHeld, DescriptorHeld, Digesting, IsSeq

LEMMA OutputsKept ==
  ASSUME OutputInv, pc \in {"options", "open", "stat", "close"}, pc' \in {"options", "open", "stat"},
         tree_params' = tree_params, outputs' = outputs,
         tree_file' = tree_file, desc_file' = desc_file,
         pc' = "options" => pc = "options",
         pc # "options" /\ i' = 1 => pc # "close" /\ i = 1
  PROVE  OutputInv'
<1>1. DigestOutputs'
  BY Zenon DEF OutputInv, DigestOutputs
<1>2. DigestCall' /\ TreeHeld' /\ DescriptorHeld'
  BY Zenon DEF OutputInv, DigestCall, TreeHeld, DescriptorHeld, Digesting, IsSeq
<1> QED
  BY Zenon, <1>1, <1>2 DEF OutputInv

\* Opening an output file installs its callbacks.
LEMMA OptionOutputs ==
  ASSUME DigestOutputs, pc = "options", "cbs" \in DOMAIN tree_params,
         NEW o, o.opt \in TreeOptions, NEW accepted, ParseTreeParam(o, accepted)
  PROVE  /\ DOMAIN outputs' = {"tree", "desc"} /\ tree_file' = <<>> /\ desc_file' = <<>>
         /\ outputs'["tree"] = "open" =>
              "merkle_tree_size" \in tree_params'.cbs /\ "merkle_tree_block" \in tree_params'.cbs
         /\ outputs'["desc"] = "open" => "descriptor" \in tree_params'.cbs
<1>1. /\ DOMAIN outputs = {"tree", "desc"} /\ tree_file = <<>> /\ desc_file = <<>>
      /\ outputs["tree"] = "open" =>
           "merkle_tree_size" \in tree_params.cbs /\ "merkle_tree_block" \in tree_params.cbs
      /\ outputs["desc"] = "open" => "descriptor" \in tree_params.cbs
  BY Zenon DEF DigestOutputs
<1>2. ASSUME ParseHashAlg(o, accepted) \/ ParseBlockSize(o, accepted) \/ ParseSalt(o, accepted)
      PROVE  /\ outputs' = outputs /\ tree_file' = tree_file /\ desc_file' = desc_file
             /\ tree_params'.cbs = tree_params.cbs
  <2>1. outputs' = outputs /\ tree_file' = tree_file /\ desc_file' = desc_file
    BY Zenon, <1>2 DEF ParseHashAlg, ParseBlockSize, ParseSalt, outfiles
  <2>2. \/ tree_params' = tree_params
        \/ \E n : tree_params' = [tree_params EXCEPT !.hash_algorithm = n]
        \/ \E n : tree_params' = [tree_params EXCEPT !.block_size = n]
        \/ \E n : tree_params' = [tree_params EXCEPT !.salt = TRUE, !.salt_size = n]
    BY Zenon, <1>2 DEF ParseHashAlg, ParseBlockSize, ParseSalt
  <2>3. tree_params'.cbs = tree_params.cbs
    BY <2>2
  <2> QED
    BY Zenon, <2>1, <2>3
<1>3. ASSUME NEW out \in {"tree", "desc"}, ParseOut(out, accepted)
      PROVE  /\ DOMAIN outputs' = {"tree", "desc"} /\ tree_file' = <<>> /\ desc_file' = <<>>
             /\ tree_params.cbs \subseteq tree_params'.cbs
             /\ out = "tree" =>
                  "merkle_tree_size" \in tree_params'.cbs /\ "merkle_tree_block" \in tree_params'.cbs
             /\ out = "desc" => "descriptor" \in tree_params'.cbs
             /\ \A x \in {"tree", "desc"} : outputs'[x] = "open" => outputs[x] = "open" \/ x = out
  <2>1. \/ outputs' = outputs /\ tree_file' = tree_file /\ desc_file' = desc_file
        \/ /\ outputs' = [outputs EXCEPT ![out] = "open"]
           /\ tree_file' = IF out = "tree" THEN <<>> ELSE tree_file
           /\ desc_file' = IF out = "desc" THEN <<>> ELSE desc_file
    BY Zenon, <1>3 DEF ParseOut, outfiles
  <2>2. tree_file' = <<>> /\ desc_file' = <<>>
    BY Zenon, <1>1, <2>1
  <2>3. DOMAIN outputs' = {"tree", "desc"}
    BY Zenon, <1>1, <2>1
  <2>4. \A x \in {"tree", "desc"} : outputs'[x] = "open" => outputs[x] = "open" \/ x = out
    BY <1>1, <2>1
  <2>5. tree_params' = [tree_params EXCEPT !.cbs = @ \cup
          IF out = "tree" THEN {"merkle_tree_size", "merkle_tree_block"} ELSE {"descriptor"}]
    BY Zenon, <1>3 DEF ParseOut
  <2>6. tree_params'.cbs = tree_params.cbs \cup
          IF out = "tree" THEN {"merkle_tree_size", "merkle_tree_block"} ELSE {"descriptor"}
    BY <2>5
  <2>7. /\ tree_params.cbs \subseteq tree_params'.cbs
        /\ out = "tree" =>
             "merkle_tree_size" \in tree_params'.cbs /\ "merkle_tree_block" \in tree_params'.cbs
        /\ out = "desc" => "descriptor" \in tree_params'.cbs
    BY <2>6
  <2> QED
    BY Zenon, <2>2, <2>3, <2>4, <2>7
<1>4. CASE ParseHashAlg(o, accepted) \/ ParseBlockSize(o, accepted) \/ ParseSalt(o, accepted)
  BY Zenon, <1>1, <1>2, <1>4
<1>5. CASE \E out \in {"tree", "desc"} : ParseOut(out, accepted)
  <2>1. PICK out \in {"tree", "desc"} : ParseOut(out, accepted)
    BY Zenon, <1>5
  <2>2. /\ DOMAIN outputs' = {"tree", "desc"} /\ tree_file' = <<>> /\ desc_file' = <<>>
        /\ tree_params.cbs \subseteq tree_params'.cbs
        /\ out = "tree" =>
             "merkle_tree_size" \in tree_params'.cbs /\ "merkle_tree_block" \in tree_params'.cbs
        /\ out = "desc" => "descriptor" \in tree_params'.cbs
        /\ \A x \in {"tree", "desc"} : outputs'[x] = "open" => outputs[x] = "open" \/ x = out
    BY Zenon, <1>3, <2>1
  <2>3. outputs'["tree"] = "open" =>
          "merkle_tree_size" \in tree_params'.cbs /\ "merkle_tree_block" \in tree_params'.cbs
    BY Zenon, <1>1, <2>2
  <2>4. outputs'["desc"] = "open" => "descriptor" \in tree_params'.cbs
    BY Zenon, <1>1, <2>2
  <2> QED
    BY Zenon, <2>2, <2>3, <2>4
<1>6. \/ ParseHashAlg(o, accepted) \/ ParseBlockSize(o, accepted) \/ ParseSalt(o, accepted)
      \/ ParseOut("tree", accepted) \/ ParseOut("desc", accepted)
  BY Zenon DEF ParseTreeParam, TreeOptions
<1> QED
  BY Zenon, <1>4, <1>5, <1>6

LEMMA DigestOptionOutputs == ParamsInv /\ OutputInv /\ ParseDigestOption => OutputInv'
<1> SUFFICES ASSUME ParamsInv, OutputInv, ParseDigestOption PROVE OutputInv'
  OBVIOUS
<1>1. PICK accepted \in BOOLEAN :
        /\ ParseTreeParam(cmd.opts[i], accepted)
        /\ \/ accepted /\ i' = i + 1 /\ pc' = pc /\ status' = status
           \/ ~accepted /\ pc' = "out" /\ status' = 2
  BY Zenon DEF ParseDigestOption, Usage
<1>2. /\ pc = "options" /\ cmd.opts[i].opt \in TreeOptions
  BY Zenon DEF ParseDigestOption
<1>3. DigestOutputs /\ "cbs" \in DOMAIN tree_params
  BY Zenon DEF OutputInv, ParamsInv
<1>4. /\ DOMAIN outputs' = {"tree", "desc"} /\ tree_file' = <<>> /\ desc_file' = <<>>
      /\ outputs'["tree"] = "open" =>
           "merkle_tree_size" \in tree_params'.cbs /\ "merkle_tree_block" \in tree_params'.cbs
      /\ outputs'["desc"] = "open" => "descriptor" \in tree_params'.cbs
  BY Zenon, <1>1, <1>2, <1>3, OptionOutputs
<1>5. pc' \in {"options", "out"}
  BY Zenon, <1>1, <1>2
<1>6. DigestOutputs'
  BY Zenon, <1>4 DEF DigestOutputs
<1>7. DigestCall' /\ TreeHeld' /\ DescriptorHeld'
  BY Zenon, <1>4, <1>5, EmptyIsSeq DEF DigestCall, TreeHeld, DescriptorHeld, Digesting, IsSeq
<1> QED
  BY Zenon, <1>6, <1>7 DEF OutputInv

\* Each step of the command outside the library leaves the output files alone.
LEMMA QuietOutputs ==
  ASSUME ParamsInv, OutputInv, ParseFlag \/ DigestOptionsDone \/ OpenInput \/ CloseInput \/ FilesDone
  PROVE  OutputInv'
<1>1. /\ tree_params' = tree_params /\ outputs' = outputs
      /\ tree_file' = tree_file /\ desc_file' = desc_file
  BY Zenon DEF ParseFlag, DigestOptionsDone, OpenInput, CloseInput, FilesDone, paramvars, outfiles
<1>2. CASE pc' = "out"
  BY Zenon, <1>1, <1>2, OutputsLeft
<1>3. CASE ParseFlag /\ pc' # "out"
  <2>1. pc = "options" /\ pc' = pc
    BY Zenon, <1>3 DEF ParseFlag, Usage
  <2> QED
    BY Zenon, <1>1, <2>1, OutputsKept
<1>4. CASE DigestOptionsDone /\ pc' # "out"
  <2>1. pc = "options" /\ pc' = "open"
    BY Zenon, <1>4 DEF DigestOptionsDone, Usage
  <2> QED
    BY Zenon, <1>1, <2>1, OutputsKept
<1>5. CASE OpenInput /\ pc' # "out"
  <2>1. pc = "open" /\ pc' = "stat" /\ i' = i
    BY Zenon, <1>5 DEF OpenInput, DigestOutErr
  <2> QED
    BY Zenon, <1>1, <2>1, OutputsKept
<1>6. CASE CloseInput
  <2>1. pc = "close" /\ pc' = "open" /\ i' = i + 1
    BY Zenon, <1>6 DEF CloseInput
  <2>2. i' # 1
    <3>1. i \in Nat \ {0}
      BY Zenon DEF ParamsInv
    <3> QED
      BY <2>1, <3>1
  <2> QED
    BY Zenon, <1>1, <2>1, <2>2, OutputsKept
<1>7. FilesDone => pc' = "out"
  BY Zenon DEF FilesDone
<1> QED
  BY Zenon, <1>2, <1>3, <1>4, <1>5, <1>6, <1>7

LEMMA StatOutputs == ParamsInv /\ OutputInv /\ StatInput => OutputInv'
<1> SUFFICES ASSUME ParamsInv, OutputInv, StatInput PROVE OutputInv'
  OBVIOUS
<1>1. /\ pc = "stat" /\ i' = i /\ outputs' = outputs /\ tree_file' = tree_file
      /\ desc_file' = desc_file
      /\ \/ pc' = "out"
         \/ pc' = "compute" /\ \E s \in Sizes : tree_params' = [tree_params EXCEPT !.file_size = s]
  BY Zenon DEF StatInput, DigestOutErr, outfiles
<1>2. CASE pc' = "out"
  BY Zenon, <1>1, <1>2, OutputsLeft
<1>3. CASE pc' = "compute" /\ \E s \in Sizes : tree_params' = [tree_params EXCEPT !.file_size = s]
  <2>1. PICK s \in Sizes : tree_params' = [tree_params EXCEPT !.file_size = s]
    BY Zenon, <1>3
  <2>2. {"file_size", "cbs"} \subseteq DOMAIN tree_params
    BY Zenon DEF ParamsInv
  <2>3. tree_params'.file_size \in Sizes /\ tree_params'.cbs = tree_params.cbs
    BY <2>1, <2>2
  <2>4. DigestOutputs'
    BY Zenon, <1>1, <1>3, <2>3 DEF OutputInv, DigestOutputs
  <2>5. DigestCall' /\ TreeHeld' /\ DescriptorHeld'
    BY Zenon, <1>1, <1>3, <2>3 DEF OutputInv, DigestCall, TreeHeld, DescriptorHeld, Digesting, IsSeq
  <2> QED
    BY Zenon, <2>4, <2>5 DEF OutputInv
<1> QED
  BY Zenon, <1>1, <1>2, <1>3

LEMMA CallOutputs == OutputInv /\ CallLibrary => OutputInv'
<1> SUFFICES ASSUME OutputInv, CallLibrary PROVE OutputInv'
  OBVIOUS
<1>1. /\ pc = "compute" /\ pc' = "library" /\ i' = i /\ outputs' = outputs
      /\ tree_params' = tree_params /\ tree_file' = tree_file /\ desc_file' = desc_file
      /\ call' = tree_params /\ result' = "running" /\ told_size' = FALSE
      /\ told_blocks' = {} /\ told_desc' = FALSE
  BY Zenon DEF CallLibrary, Lib!Begin, outfiles
<1>2. /\ i = 1 => Len(tree_file) = 0 /\ Len(desc_file) = 0
      /\ tree_params.file_size \in Sizes
  BY Zenon, <1>1, EmptyIsSeq DEF OutputInv, DigestOutputs, DigestCall
<1>3. DigestOutputs'
  BY Zenon, <1>1 DEF OutputInv, DigestOutputs
<1>4. DigestCall'
  BY Zenon, <1>1, <1>2 DEF DigestCall, Digesting
<1>5. TreeHeld' /\ DescriptorHeld'
  BY Zenon, <1>1, <1>2 DEF OutputInv, TreeHeld, DescriptorHeld, IsSeq
<1> QED
  BY Zenon, <1>3, <1>4, <1>5 DEF OutputInv

\* Steps with the result of the library at hand
LEMMA ResultOutputs ==
  ASSUME OutputInv, Digesting, pc' \in {"library", "print", "close"},
         pc' \in {"print", "close"} => result = "ok", i' = i, outputs' = outputs,
         tree_params' = tree_params, tree_file' = tree_file, desc_file' = desc_file, UNCHANGED lib
  PROVE  OutputInv'
<1>1. /\ call' = call /\ result' = result /\ told_size' = told_size
      /\ told_blocks' = told_blocks /\ told_desc' = told_desc
  BY Zenon DEF lib
<1>2. DigestOutputs'
  BY Zenon DEF OutputInv, DigestOutputs, Digesting
<1>3. DigestCall'
  BY Zenon, <1>1, SameCall DEF OutputInv, DigestCall, Digesting, Lib!SizeIsTold,
    Lib!BlocksAreTold, Lib!Wants
<1>4. told_size' <=> told_size
  BY <1>1
<1>5. TreeHeld'
  BY Zenon, <1>1, <1>4, SameCall DEF OutputInv, TreeHeld, Digesting, IsSeq
<1>6. DescriptorHeld'
  BY Zenon, <1>1, SameCall DEF OutputInv, DescriptorHeld, Digesting, IsSeq
<1> QED
  BY Zenon, <1>2, <1>3, <1>5, <1>6 DEF OutputInv

\* The tree of the call in progress
LEMMA CallHasLevels ==
  ASSUME ParamsInv, OutputInv, pc = "library", Lib!Acceptable(call)
  PROVE  HasLevels(RootArgs(call))
<1>1. call = tree_params /\ call.file_size \in Sizes
  BY Zenon DEF OutputInv, DigestCall, Digesting
<1>2. BlockSizeOf(call) \in BlockSizes
  BY Zenon, <1>1 DEF ParamsInv
<1> QED
  BY Zenon, <1>1, <1>2, TreeHasLevels

\* What the library leaves alone whichever callback it makes
LEMMA LibraryKeeps ==
  ASSUME ParamsInv, OutputInv, Library,
         result' = "ok" =>
           Lib!SizeIsTold' /\ Lib!BlocksAreTold' /\ (Lib!Wants("descriptor")' => told_desc'),
         TreeHeld', DescriptorHeld'
  PROVE  OutputInv'
<1>1. pc = "library" /\ LibStep(i) /\ pc' = pc /\ i' = i
  BY Zenon DEF Library, cmdvars
<1>2. call' = call /\ tree_params' = tree_params /\ outputs' = outputs
  BY Zenon, <1>1, LibStepKeeps
<1>3. DigestOutputs'
  BY Zenon, <1>1, <1>2 DEF OutputInv, DigestOutputs
<1>4. DigestCall'
  BY Zenon, <1>1, <1>2 DEF OutputInv, DigestCall, Digesting
<1> QED
  BY Zenon, <1>3, <1>4 DEF OutputInv

LEMMA SizeOutputs ==
  ASSUME ParamsInv, OutputInv, Library, HandleMerkleTreeSize
  PROVE  OutputInv'
<1>1. /\ pc = "library" /\ pc' = pc /\ i' = i /\ outputs' = outputs /\ desc_file' = desc_file
      /\ call' = call /\ told_blocks' = told_blocks /\ told_desc' = told_desc /\ told_size' = TRUE
      /\ result = "running" /\ ~told_size /\ told_blocks = {} /\ Lib!Acceptable(call)
      /\ \/ result' = "running" /\ tree_file' = Preallocated(tree_file, TreeSize)
         \/ result' = "failed" /\ tree_file' = tree_file
  BY Zenon DEF Library, cmdvars, HandleMerkleTreeSize, Lib!TellSize
<1> DEFINE N == Cardinality(Lib!TreeBlocks(call))
<1>2. N \in Nat /\ TreeSize = N
  BY Zenon, <1>1, CallHasLevels, BlockPlaces
<1>3. IsSeq(tree_file)
  BY Zenon DEF OutputInv, TreeHeld
<1>4. DescriptorHeld'
  BY Zenon, <1>1, SameCall DEF OutputInv, DescriptorHeld, Digesting, IsSeq
<1>5. CASE result' = "failed" /\ tree_file' = tree_file
  <2>1. TreeHeld'
    BY Zenon, <1>3, <1>5 DEF TreeHeld, IsSeq
  <2> QED
    BY Zenon, <1>4, <1>5, <2>1, LibraryKeeps
<1>6. CASE result' = "running" /\ tree_file' = Preallocated(tree_file, TreeSize)
  <2>1. IsSeq(tree_file') /\ Len(tree_file') = IF Len(tree_file) < N THEN N ELSE Len(tree_file)
    BY Zenon, <1>2, <1>3, <1>6, PreallocatedFacts
  <2>2. i = 1 /\ outputs["tree"] = "open" => Len(tree_file') = N
    <3> SUFFICES ASSUME i = 1, outputs["tree"] = "open" PROVE Len(tree_file') = N
      OBVIOUS
    <3>1. Len(tree_file) = 0
      BY Zenon, <1>1 DEF OutputInv, TreeHeld, Digesting
    <3> HIDE DEF N
    <3> QED
      BY <1>2, <2>1, <3>1
  <2>3. Lib!TreeBlocks(call)' = Lib!TreeBlocks(call)
    BY Zenon, <1>1, SameCall
  <2>4. TreeHeld'
    BY Zenon, <1>1, <2>1, <2>2, <2>3 DEF TreeHeld, IsSeq
  <2> QED
    BY Zenon, <1>4, <1>6, <2>4, LibraryKeeps
<1> QED
  BY Zenon, <1>1, <1>5, <1>6

LEMMA DescriptorOutputs ==
  ASSUME ParamsInv, OutputInv, Library, HandleDescriptor(i)
  PROVE  OutputInv'
<1> DEFINE entry == [desc |-> DescriptorOf(call, i), whole |-> result' = "running"]
<1>1. /\ pc = "library" /\ pc' = pc /\ i' = i /\ outputs' = outputs /\ tree_file' = tree_file
      /\ call' = call /\ told_blocks' = told_blocks /\ told_desc' = TRUE /\ told_size' = told_size
      /\ result = "running" /\ ~told_desc /\ result' \in {"running", "failed"}
      /\ desc_file' = Append(desc_file, entry)
  BY Zenon DEF Library, cmdvars, HandleDescriptor, Lib!TellDescriptor
<1>2. IsSeq(desc_file)
  BY Zenon DEF OutputInv, DescriptorHeld
<1>3. told_size' <=> told_size
  BY <1>1
<1>4. TreeHeld'
  BY Zenon, <1>1, <1>3, SameCall DEF OutputInv, TreeHeld, Digesting, IsSeq
<1>5. /\ IsSeq(desc_file') /\ Len(desc_file) \in Nat /\ Len(desc_file') = Len(desc_file) + 1
      /\ desc_file'[Len(desc_file) + 1] = entry
  <2> HIDE DEF entry
  <2> QED
    BY ZenonT(30), <1>1, <1>2, AppendToSeq
<1>6. result' # "failed" => entry = [desc |-> DescriptorOf(call, i), whole |-> TRUE]
  <2>1. result' = "running" => (result' = "running") = TRUE
    OBVIOUS
  <2> QED
    BY Zenon, <1>1, <2>1
<1> HIDE DEF entry
<1>7. i = 1 /\ outputs["desc"] = "open" => Len(desc_file') = 1
  <2> SUFFICES ASSUME i = 1, outputs["desc"] = "open" PROVE Len(desc_file') = 1
    OBVIOUS
  <2>1. Len(desc_file) = 0
    BY Zenon, <1>1 DEF OutputInv, DescriptorHeld, Digesting
  <2> QED
    BY <1>5, <2>1
<1>8. DescriptorOf(call, i)' = DescriptorOf(call, i)
  BY Zenon, <1>1
<1>9. DescriptorHeld'
  BY Zenon, <1>1, <1>5, <1>6, <1>7, <1>8 DEF DescriptorHeld
<1> QED
  BY Zenon, <1>1, <1>4, <1>9, LibraryKeeps

\* A block is written to its place and to no other block's.
LEMMA BlockOutputs ==
  ASSUME ParamsInv, OutputInv, Library, NEW b, HandleMerkleTreeBlock(i, b)
  PROVE  OutputInv'
<1> DEFINE T == Lib!TreeBlocks(call)
           N == Cardinality(T)
           at == BlockNumber(b)
           room == Preallocated(tree_file, at + 1)
           x == IF result' = "running" THEN <<i, b[1], b[2]>> ELSE Torn(<<i, b[1], b[2]>>)
<1>1. /\ pc = "library" /\ pc' = pc /\ i' = i /\ outputs' = outputs /\ desc_file' = desc_file
      /\ call' = call /\ told_blocks' = told_blocks \cup {b} /\ told_desc' = told_desc
      /\ told_size' = told_size /\ result = "running" /\ Lib!Acceptable(call)
      /\ result' \in {"running", "failed"} /\ b \in T /\ b \notin told_blocks
      /\ Lib!SizeIsTold
  BY Zenon DEF Library, cmdvars, HandleMerkleTreeBlock, Lib!TellBlock
<1>2. tree_file' = [room EXCEPT ![at + 1] = x]
  BY Zenon DEF HandleMerkleTreeBlock
<1>3. /\ N \in Nat /\ at \in Nat /\ at + 1 <= N
      /\ \A c \in T : BlockNumber(c) = at => c = b
  BY Zenon, <1>1, CallHasLevels, BlockPlaces
<1>4. IsSeq(tree_file)
  BY Zenon DEF OutputInv, TreeHeld
<1>5. told_size' <=> told_size
  BY <1>1
<1>6. DescriptorHeld'
  BY Zenon, <1>1, SameCall DEF OutputInv, DescriptorHeld, Digesting, IsSeq
<1>7. Lib!TreeBlocks(call)' = T /\ \A c : BlockNumber(c)' = BlockNumber(c)
  BY Zenon, <1>1, SameCall
<1> HIDE DEF T, N, at, x
<1>8. Len(tree_file) \in Nat /\ at + 1 \in Nat
  <2>1. Len(tree_file) \in Nat
    BY Zenon, <1>4, SeqLength
  <2> QED
    BY <1>3, <2>1
<1>9. /\ IsSeq(room) /\ Len(room) = IF Len(tree_file) < at + 1 THEN at + 1 ELSE Len(tree_file)
      /\ \A k \in 1 .. Len(tree_file) : room[k] = tree_file[k]
  BY Zenon, <1>4, <1>8, PreallocatedFacts
<1> HIDE DEF room
<1>10. /\ at + 1 \in 1 .. Len(room) /\ \A k \in 1 .. Len(tree_file) : k \in 1 .. Len(room)
       /\ Len(tree_file) = N => Len(room) = N
  BY <1>3, <1>8, <1>9
<1>11. /\ IsSeq(tree_file') /\ Len(tree_file') = Len(room) /\ tree_file'[at + 1] = x
       /\ \A k \in 1 .. Len(room) : k # at + 1 => tree_file'[k] = room[k]
  <2> DEFINE j == at + 1
             t == [room EXCEPT ![j] = x]
  <2>1. IsSeq(room) /\ j \in 1 .. Len(room)
    BY Zenon, <1>9, <1>10
  <2>2. tree_file' = t
    BY Zenon, <1>2
  <2> HIDE DEF j
  <2>3. /\ IsSeq(t) /\ Len(t) = Len(room) /\ t[j] = x
        /\ \A k \in 1 .. Len(room) : k # j => t[k] = room[k]
    BY <2>1, WrittenAt
  <2> HIDE DEF t
  <2> QED
    BY Zenon, <2>2, <2>3 DEF j
<1>12. ASSUME result' # "failed", outputs["tree"] = "open"
       PROVE  /\ \A c \in told_blocks' :
                   /\ c \in T /\ BlockNumber(c) + 1 \in 1 .. Len(tree_file')
                   /\ tree_file'[BlockNumber(c) + 1] = <<i, c[1], c[2]>>
              /\ told_size /\ (i = 1 => Len(tree_file') = N)
  <2>1. /\ \A c \in told_blocks :
             /\ c \in T /\ BlockNumber(c) + 1 \in 1 .. Len(tree_file)
             /\ tree_file[BlockNumber(c) + 1] = <<i, c[1], c[2]>>
        /\ i = 1 /\ told_size => Len(tree_file) = N
    BY Zenon, <1>1, <1>12 DEF OutputInv, TreeHeld, Digesting, T, N
  <2>2. told_size
    <3>1. "merkle_tree_size" \in call.cbs
      BY Zenon, <1>1, <1>12 DEF OutputInv, DigestOutputs, DigestCall, Digesting
    <3> QED
      BY Zenon, <1>1, <3>1 DEF Lib!SizeIsTold, Lib!Wants
  <2>3. i = 1 => Len(tree_file') = N
    BY Zenon, <1>10, <1>11, <2>1, <2>2
  <2>4. x = <<i, b[1], b[2]>>
    BY Zenon, <1>1, <1>12 DEF x
  <2>5. ASSUME NEW c \in told_blocks
        PROVE  /\ c \in T /\ BlockNumber(c) + 1 \in 1 .. Len(tree_file')
               /\ tree_file'[BlockNumber(c) + 1] = <<i, c[1], c[2]>>
    <3>1. /\ c \in T /\ BlockNumber(c) + 1 \in 1 .. Len(tree_file)
          /\ tree_file[BlockNumber(c) + 1] = <<i, c[1], c[2]>>
      BY Zenon, <2>1
    <3>2. BlockNumber(c) \in Nat /\ BlockNumber(c) # at
      <4>1. c # b
        BY Zenon, <1>1
      <4>2. BlockNumber(c) \in Nat
        BY Zenon, <1>1, <3>1, CallHasLevels, BlockPlaces DEF T
      <4> QED
        BY Zenon, <1>3, <3>1, <4>1, <4>2
    <3>3. BlockNumber(c) + 1 # at + 1
      BY <1>3, <3>2
    <3> QED
      BY Zenon, <1>9, <1>10, <1>11, <3>1, <3>3
  <2>6. /\ b \in T /\ BlockNumber(b) + 1 \in 1 .. Len(tree_file')
        /\ tree_file'[BlockNumber(b) + 1] = <<i, b[1], b[2]>>
    BY Zenon, <1>1, <1>10, <1>11, <2>4 DEF at
  <2>7. \A c \in told_blocks' : c \in told_blocks \/ c = b
    BY Zenon, <1>1
  <2> QED
    BY Zenon, <2>2, <2>3, <2>5, <2>6, <2>7
<1>13. TreeHeld'
  BY Zenon, <1>1, <1>5, <1>7, <1>11, <1>12 DEF TreeHeld, N
<1> QED
  BY Zenon, <1>1, <1>6, <1>13, LibraryKeeps

LEMMA EndOutputs ==
  ASSUME ParamsInv, OutputInv, Library, Lib!Succeed \/ Lib!Fail,
         UNCHANGED <<tree_params, outputs, heap, outfiles, io_failed>>
  PROVE  OutputInv'
<1>1. /\ pc = "library" /\ pc' = pc /\ i' = i /\ outputs' = outputs
      /\ tree_file' = tree_file /\ desc_file' = desc_file
      /\ call' = call /\ told_size' = told_size /\ told_blocks' = told_blocks
      /\ told_desc' = told_desc /\ result = "running"
  BY Zenon DEF Library, cmdvars, Lib!Succeed, Lib!Fail, outfiles
<1>2. result' = "ok" =>
        Lib!SizeIsTold /\ Lib!BlocksAreTold /\ (Lib!Wants("descriptor") => told_desc)
  BY Zenon DEF Lib!Succeed, Lib!Fail
<1>3. result' = "ok" =>
        Lib!SizeIsTold' /\ Lib!BlocksAreTold' /\ (Lib!Wants("descriptor")' => told_desc')
  <2>1. Lib!TreeBlocks(call)' = Lib!TreeBlocks(call)
    BY Zenon, <1>1, SameCall
  <2> QED
    BY Zenon, <1>1, <1>2, <2>1 DEF Lib!SizeIsTold, Lib!BlocksAreTold, Lib!Wants
<1>4. told_size' <=> told_size
  BY <1>1
<1>5. TreeHeld'
  BY Zenon, <1>1, <1>4, SameCall DEF OutputInv, TreeHeld, Digesting, IsSeq
<1>6. DescriptorHeld'
  BY Zenon, <1>1, SameCall DEF OutputInv, DescriptorHeld, Digesting, IsSeq
<1> QED
  BY Zenon, <1>3, <1>5, <1>6, LibraryKeeps

LEMMA LibraryOutputs == ParamsInv /\ OutputInv /\ Library => OutputInv'
<1> SUFFICES ASSUME ParamsInv, OutputInv, Library PROVE OutputInv'
  OBVIOUS
<1>1. \/ HandleMerkleTreeSize
      \/ \E b \in Lib!TreeBlocks(call) : HandleMerkleTreeBlock(i, b)
      \/ HandleDescriptor(i)
      \/ (Lib!Succeed \/ Lib!Fail) /\ UNCHANGED <<tree_params, outputs, heap, outfiles, io_failed>>
  BY Zenon DEF Library, LibStep
<1> QED
  BY Zenon, <1>1, SizeOutputs, BlockOutputs, DescriptorOutputs, EndOutputs

LEMMA ReturnOutputs ==
  ASSUME OutputInv, LibraryReturns \/ PrintDigest
  PROVE  OutputInv'
<1>1. /\ Digesting /\ i' = i /\ outputs' = outputs /\ tree_params' = tree_params
      /\ tree_file' = tree_file /\ desc_file' = desc_file /\ UNCHANGED lib
  BY Zenon DEF LibraryReturns, PrintDigest, outfiles, Digesting
<1>2. pc' = "out" \/ (pc' \in {"print", "close"} /\ result = "ok")
  BY Zenon DEF LibraryReturns, PrintDigest, DigestOutErr, OutputInv, DigestCall
<1>3. CASE pc' = "out"
  BY Zenon, <1>1, <1>3, OutputsLeft
<1>4. CASE pc' \in {"print", "close"} /\ result = "ok"
  BY Zenon, <1>1, <1>4, ResultOutputs
<1> QED
  BY Zenon, <1>2, <1>3, <1>4

LEMMA DigestOutOutputs == OutputInv /\ CmdDigestOut => OutputInv'
<1> SUFFICES ASSUME OutputInv, CmdDigestOut PROVE OutputInv'
  OBVIOUS
<1>1. /\ pc' = "exit" /\ tree_file' = tree_file /\ desc_file' = desc_file
      /\ outputs' = [o \in DOMAIN outputs |-> IF outputs[o] = "open" THEN "closed" ELSE outputs[o]]
  BY Zenon DEF CmdDigestOut, DestroyTreeParams, outfiles
<1>2. DOMAIN outputs' = DOMAIN outputs
  BY Zenon, <1>1
<1> QED
  BY Zenon, <1>1, <1>2, OutputsLeft

LEMMA SameOutputs == OutputInv /\ UNCHANGED digestvars => OutputInv'
<1> SUFFICES ASSUME OutputInv, UNCHANGED digestvars PROVE OutputInv'
  OBVIOUS
<1>1. /\ pc' = pc /\ i' = i /\ tree_params' = tree_params /\ outputs' = outputs
      /\ tree_file' = tree_file /\ desc_file' = desc_file /\ call' = call /\ result' = result
      /\ told_size' = told_size /\ told_blocks' = told_blocks /\ told_desc' = told_desc
  BY Zenon DEF digestvars, cmdvars, paramvars, outfiles, lib
<1>2. told_size' <=> told_size
  BY <1>1
<1>3. DigestOutputs'
  BY Zenon, <1>1 DEF OutputInv, DigestOutputs
<1>4. DigestCall'
  BY Zenon, <1>1, SameCall DEF OutputInv, DigestCall, Digesting, Lib!SizeIsTold,
    Lib!BlocksAreTold, Lib!Wants
<1>5. TreeHeld'
  BY Zenon, <1>1, <1>2, SameCall DEF OutputInv, TreeHeld, Digesting, IsSeq
<1>6. DescriptorHeld'
  BY Zenon, <1>1, SameCall DEF OutputInv, DescriptorHeld, Digesting, IsSeq
<1> QED
  BY Zenon, <1>3, <1>4, <1>5, <1>6 DEF OutputInv

LEMMA OutputNext == ParamsInv /\ OutputInv /\ [CmdDigestNext]_digestvars => OutputInv'
BY Zenon, DigestOptionOutputs, QuietOutputs, StatOutputs, CallOutputs, LibraryOutputs,
  ReturnOutputs, DigestOutOutputs, SameOutputs
  DEF CmdDigestNext, CmdDigestStep, CmdDigestExited

(***************************************************************************)
(* fsverity digest, for trees of any shape and any number of files: once   *)
(* a file is digested, every block of its tree is at its own place in the  *)
(* tree file, whatever an earlier file left there, and its descriptor is   *)
(* the last of the descriptor file; after the first file they hold nothing *)
(* else.                                                                   *)
(***************************************************************************)
THEOREM DigestOutputsHold == CmdDigestSpec => []OutputsHoldThisFile
<1>1. OutputInv => OutputsHoldThisFile
  <2> SUFFICES ASSUME OutputInv, pc \in {"print", "close"}
               PROVE  /\ outputs["tree"] = "open" =>
                           /\ \A b \in Lib!TreeBlocks(call) :
                                tree_file[BlockNumber(b) + 1] = <<i, b[1], b[2]>>
                           /\ i = 1 => Len(tree_file) = Cardinality(Lib!TreeBlocks(call))
                      /\ outputs["desc"] = "open" =>
                           /\ desc_file[Len(desc_file)] = [desc |-> DescriptorOf(call, i), whole |-> TRUE]
                           /\ i = 1 => Len(desc_file) = 1
    BY Zenon DEF OutputsHoldThisFile
  <2>1. /\ Digesting /\ result = "ok" /\ result # "failed" /\ call = tree_params
        /\ Lib!SizeIsTold /\ Lib!BlocksAreTold /\ (Lib!Wants("descriptor") => told_desc)
        /\ outputs["tree"] = "open" =>
             "merkle_tree_size" \in tree_params.cbs /\ "merkle_tree_block" \in tree_params.cbs
        /\ outputs["desc"] = "open" => "descriptor" \in tree_params.cbs
    BY Zenon DEF OutputInv, DigestOutputs, DigestCall, Digesting
  <2>2. ASSUME outputs["tree"] = "open"
        PROVE  /\ \A b \in Lib!TreeBlocks(call) :
                    tree_file[BlockNumber(b) + 1] = <<i, b[1], b[2]>>
               /\ i = 1 => Len(tree_file) = Cardinality(Lib!TreeBlocks(call))
    <3>1. told_size /\ told_blocks = Lib!TreeBlocks(call)
      BY Zenon, <2>1, <2>2 DEF Lib!SizeIsTold, Lib!BlocksAreTold, Lib!Wants
    <3> QED
      BY Zenon, <2>1, <2>2, <3>1 DEF OutputInv, TreeHeld
  <2>3. ASSUME outputs["desc"] = "open"
        PROVE  /\ desc_file[Len(desc_file)] = [desc |-> DescriptorOf(call, i), whole |-> TRUE]
               /\ i = 1 => Len(desc_file) = 1
    <3>1. told_desc
      BY Zenon, <2>1, <2>3 DEF Lib!Wants
    <3> QED
      BY Zenon, <2>1, <2>3, <3>1 DEF OutputInv, DescriptorHeld
  <2> QED
    BY Zenon, <2>2, <2>3
<1>2. CmdDigestSpec => []OutputInv
  BY ParamsInitial, ParamsNext, OutputInit, OutputNext, PTL DEF CmdDigestSpec
<1> QED
  BY <1>1, <1>2, PTL
=============================================================================
