----------------------------- MODULE CmdMeasure -----------------------------
(***************************************************************************)
(* fsverity measure (programs/cmd_measure.c): print the digest that the    *)
(* kernel has for each file.  One buffer serves all files; the kernel is   *)
(* told its size in the field in which it returns the digest's size.       *)
(***************************************************************************)
EXTENDS HashAlgs, HexConv, Command

CONSTANTS
  FileLists,       \* sequences of what the kernel has for each file: a record
                   \* of digest_algorithm and digest, or NoDigest
  MaxDigestSize,   \* FS_VERITY_MAX_DIGEST_SIZE
  NoDigest

\* What the kernel has for a file is a digest that fits the largest buffer.
ASSUME DigestsAssumption ==
  /\ MaxDigestSize \in Nat
  /\ \A fs \in FileLists :
       /\ fs \in Seq([digest_algorithm : Nat, digest : Seq(0 .. 255)] \cup {NoDigest})
       /\ \A j \in DOMAIN fs : fs[j] # NoDigest => Len(fs[j].digest) <= MaxDigestSize

VARIABLES
  files,
  d,           \* struct fsverity_digest, or the empty record if not allocated
  lines,       \* the lines printed
  too_small    \* history: the kernel refused for want of room (EOVERFLOW)

measurevars == <<pc, files, i, d, file, lines, status, too_small>>

NullDigest == [digest_size |-> -1]

CmdMeasureInit ==
  /\ files \in FileLists
  /\ pc = "start" /\ i = 1 /\ d = NullDigest /\ file = "closed"
  /\ lines = <<>> /\ status = 0 /\ too_small = FALSE

Start ==
  /\ pc = "start"
  /\ \/ /\ Len(files) < 1 /\ Usage /\ UNCHANGED d
     \/ /\ Len(files) >= 1 /\ Goto("open")
        /\ d' = [digest_algorithm |-> 0, digest_size |-> 0,
                 digest |-> [k \in 1 .. MaxDigestSize |-> 0]]
  /\ UNCHANGED <<files, i, file, lines, too_small>>

\* Mutant: the size is set for the first file only.
RoomOnce == IF i = 1 THEN MaxDigestSize ELSE d.digest_size

Room == MaxDigestSize

OpenNextFile ==
  /\ pc = "open" /\ i <= Len(files)
  /\ d' = [d EXCEPT !.digest_size = Room]
  /\ \/ file' = "open" /\ Goto("measure")
     \/ OutErr /\ UNCHANGED file
  /\ UNCHANGED <<files, i, lines, too_small>>

\* FS_IOC_MEASURE_VERITY, then close(), which is not checked
Measure ==
  /\ pc = "measure" /\ file' = "closed"
  /\ LET f == files[i]
     IN  \/ /\ f # NoDigest /\ Len(f.digest) <= d.digest_size
            /\ d' = [digest_algorithm |-> f.digest_algorithm,
                     digest_size |-> Len(f.digest),
                     digest |-> f.digest \o
                       SubSeq(d.digest, Len(f.digest) + 1, MaxDigestSize)]
            /\ pc' = "print" /\ UNCHANGED <<status, too_small>>
         \/ /\ OutErr /\ UNCHANGED d
            /\ too_small' = (f # NoDigest /\ Len(f.digest) > d.digest_size)
  /\ UNCHANGED <<files, i, lines>>

\* Mutant: the whole buffer is printed.
DigestHexWhole == Bin2Hex(d.digest)

DigestHex == Bin2Hex(SubSeq(d.digest, 1, d.digest_size))

PrintMeasured ==
  /\ pc = "print"
  /\ lines' = Append(lines, [alg |-> GetHashName(d.digest_algorithm),
                             num |-> d.digest_algorithm, hex |-> DigestHex])
  /\ i' = i + 1 /\ pc' = "open"
  /\ UNCHANGED <<files, d, file, status, too_small>>

AllMeasured ==
  /\ pc = "open" /\ i > Len(files)
  /\ pc' = "out" /\ status' = 0
  /\ UNCHANGED <<files, i, d, file, lines, too_small>>

\* Mutant: the buffer is freed after success only.
CmdMeasureOutLeaks ==
  /\ pc = "out" /\ pc' = "exit" /\ d' = IF status = 0 THEN NullDigest ELSE d
  /\ UNCHANGED <<files, i, file, lines, status, too_small>>

CmdMeasureOut ==
  /\ pc = "out" /\ pc' = "exit" /\ d' = NullDigest
  /\ UNCHANGED <<files, i, file, lines, status, too_small>>

CmdMeasureStep ==
  \/ Start \/ OpenNextFile \/ Measure \/ PrintMeasured \/ AllMeasured \/ CmdMeasureOut

CmdMeasureExited == pc = "exit" /\ UNCHANGED measurevars

\* The process runs, and the ioctl returns.
CmdMeasureSpec ==
  CmdMeasureInit /\ [][CmdMeasureStep \/ CmdMeasureExited]_measurevars /\ WF_measurevars(CmdMeasureStep)

----------------------------------------------------------------------------
(***************************************************************************)
(* Each line printed is, in hexadecimal, the digest that the kernel has    *)
(* for the file of that line, with no byte of an earlier and longer digest *)
(* in the shared buffer, and names its algorithm; status 0 means that      *)
(* every file has its line (printf() is not checked: standard output is    *)
(* taken to work).                                                         *)
(***************************************************************************)
MeasuredDigests ==
  /\ \A j \in DOMAIN lines :
       /\ lines[j].num = files[j].digest_algorithm
       /\ lines[j].alg = GetHashName(files[j].digest_algorithm)
       /\ Hex2BinOk(lines[j].hex, Len(files[j].digest))
       /\ Hex2Bin(lines[j].hex, Len(files[j].digest)) = files[j].digest
  /\ pc = "exit" /\ status = 0 => Len(lines) = Len(files)

(***************************************************************************)
(* The kernel never refuses a file because of the digest of the file       *)
(* before it: a smaller digest's size, returned in d, is not taken for the *)
(* size of the buffer.  The assertion before bin2hex() holds.              *)
(***************************************************************************)
RoomForEveryDigest ==
  ~too_small /\ (pc = "print" => d.digest_size \in 0 .. MaxDigestSize)

(***************************************************************************)
(* The command always exits, with the file closed and the buffer freed.    *)
(***************************************************************************)
MeasureExitCleansUp == <>(pc = "exit" /\ d = NullDigest /\ file = "closed")
=============================================================================
