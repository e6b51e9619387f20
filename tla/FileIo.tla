------------------------------- MODULE FileIo -------------------------------
(***************************************************************************)
(* The filedes operations of programs/utils.c on one open file: the loops  *)
(* that turn short reads and writes into whole ones, preallocation, the    *)
(* read callback given to libfsverity, and close.  Calls are made one      *)
(* after the other until one fails: every caller gives up then.  Another   *)
(* process may change the file meanwhile.                                  *)
(*                                                                         *)
(* A file is a sequence of bytes.  Byte i of the initial file is i, a hole *)
(* or a preallocated byte is 0, byte j of a write's buffer is -j, and what *)
(* another process appends is Foreign.                                     *)
(***************************************************************************)
EXTENDS Integers, Sequences, SequencesExt

CONSTANTS
  IntMax,     \* INT_MAX, the most one read() or write() is asked for
  MaxSize,    \* bounds file sizes, counts and offsets
  MaxCalls,   \* bounds the number of calls
  Errnos      \* the nonzero values of errno

Foreign == MaxSize + 1
NoErrno == "0"
ASSUME SizeAssumption == IntMax \in Nat \ {0} /\ MaxSize \in Nat
ASSUME ErrnoAssumption == NoErrno \notin Errnos

Ops == {"read_callback", "full_write", "full_pwrite"}

VARIABLES
  pc, op, errno,
  fd,        \* "closed", "read" or "write"
  file,      \* the file's bytes
  fpos,      \* the kernel's position for fd
  offset,    \* where the next byte goes, for a write
  count,     \* bytes still to be transferred
  buf,       \* bytes transferred
  code,      \* what the last call returned: NoErrno, "false" or an errno
  calls,
  \* history
  req,       \* the bytes the current call was asked to transfer
  before,    \* the file, and the position, when the current call began
  stream,    \* all that read_callback() has delivered successfully
  shared     \* another process has changed the file

vars == <<pc, op, fd, errno, file, fpos, offset, count, buf, code, calls, req,
          before, stream, shared>>

Init ==
  /\ pc = "idle" /\ op = "none" /\ fd = "closed" /\ errno = NoErrno
  /\ \E n \in 0 .. MaxSize : file = [i \in 1 .. n |-> i]
  /\ fpos = 0 /\ offset = 0 /\ count = 0 /\ buf = <<>> /\ code = NoErrno
  /\ calls = 0 /\ req = 0 /\ before = [file |-> file, fpos |-> 0]
  /\ stream = <<>> /\ shared = FALSE

\* The bytes of f with data at offset off; a gap reads as zeros.
Overwritten(f, off, data) ==
  IF data = <<>> THEN f ELSE
  [i \in 1 .. (IF Len(f) > off + Len(data) THEN Len(f) ELSE off + Len(data)) |->
     IF i > off /\ i <= off + Len(data) THEN data[i - off]
     ELSE IF i <= Len(f) THEN f[i] ELSE 0]

Source(n) == [j \in 1 .. n |-> -j]

\* Inputs are opened O_RDONLY, outputs O_WRONLY|O_CREAT|O_TRUNC.
OpenFile ==
  /\ fd = "closed" /\ calls = 0
  /\ \/ fd' = "read" /\ code' = NoErrno /\ UNCHANGED <<errno, file>>
     \/ fd' = "write" /\ file' = <<>> /\ code' = NoErrno /\ UNCHANGED errno
     \/ errno' \in Errnos /\ code' = "false" /\ UNCHANGED <<fd, file>>
  /\ calls' = calls + 1
  /\ UNCHANGED <<pc, op, fpos, offset, count, buf, req, before, stream, shared>>

\* read_callback() clears errno first.
Begin(o, n, off) ==
  /\ pc = "idle" /\ code = NoErrno /\ calls < MaxCalls
  /\ fd = IF o = "read_callback" THEN "read" ELSE "write"
  /\ pc' = "loop" /\ op' = o /\ count' = n /\ req' = n /\ buf' = <<>>
  /\ offset' = IF o = "full_pwrite" THEN off ELSE fpos
  /\ errno' = IF o = "read_callback" THEN NoErrno ELSE errno
  /\ before' = [file |-> file, fpos |-> fpos]
  /\ calls' = calls + 1
  /\ UNCHANGED <<fd, file, fpos, code, stream, shared>>

Return(c) == pc' = "idle" /\ code' = c

\* The most the next read() or write() can transfer.
Chunk == IF count < IntMax THEN count ELSE IntMax

\* Mutant: each read() starts at the buffer's beginning.
ReadSomeInPlace ==
  /\ pc = "loop" /\ op = "read_callback" /\ count > 0
  /\ \E n \in 1 .. Chunk :
       /\ fpos + n <= Len(file)
       /\ buf' = SubSeq(file, fpos + 1, fpos + n)
       /\ fpos' = fpos + n /\ count' = count - n
  /\ UNCHANGED <<pc, op, fd, errno, file, offset, code, calls, req, before,
                 stream, shared>>

ReadSome ==
  /\ pc = "loop" /\ op = "read_callback" /\ count > 0
  /\ \E n \in 1 .. Chunk :
       /\ fpos + n <= Len(file)
       /\ buf' = buf \o SubSeq(file, fpos + 1, fpos + n)
       /\ fpos' = fpos + n /\ count' = count - n
  /\ UNCHANGED <<pc, op, fd, errno, file, offset, code, calls, req, before,
                 stream, shared>>

\* Mutant: no -EIO when errno was not set.
ReadCodeErrno(e) == e

\* errno ? -errno : -EIO, where printing the message may have set errno
ReadCode(e) == IF e # NoErrno THEN e ELSE "EIO"

\* Mutant: an end of file is retried.
ReadEofRetries ==
  /\ pc = "loop" /\ op = "read_callback" /\ count > 0 /\ fpos >= Len(file)
  /\ UNCHANGED vars

ReadEof ==
  /\ pc = "loop" /\ op = "read_callback" /\ count > 0 /\ fpos >= Len(file)
  /\ errno' \in {errno} \cup Errnos
  /\ Return(ReadCode(errno'))
  /\ UNCHANGED <<op, fd, file, fpos, offset, count, buf, calls, req, before,
                 stream, shared>>

ReadError ==
  /\ pc = "loop" /\ op = "read_callback" /\ count > 0
  /\ errno' \in Errnos
  /\ Return(ReadCode(errno'))
  /\ UNCHANGED <<op, fd, file, fpos, offset, count, buf, calls, req, before,
                 stream, shared>>

ReadDone ==
  /\ pc = "loop" /\ op = "read_callback" /\ count = 0
  /\ Return(NoErrno)
  /\ stream' = stream \o buf
  /\ UNCHANGED <<op, fd, errno, file, fpos, offset, count, buf, calls, req,
                 before, shared>>

\* Mutant: each write() starts at the buffer's beginning.
WriteSomeInPlace ==
  /\ pc = "loop" /\ op \in {"full_write", "full_pwrite"} /\ count > 0
  /\ \E n \in 1 .. Chunk :
       LET data == SubSeq(Source(req), 1, n)
           at   == IF op = "full_write" THEN fpos ELSE offset
       IN  /\ file' = Overwritten(file, at, data)
           /\ buf' = buf \o data /\ count' = count - n
           /\ offset' = offset + n
           /\ fpos' = IF op = "full_write" THEN fpos + n ELSE fpos
  /\ UNCHANGED <<pc, op, fd, errno, code, calls, req, before, stream, shared>>

\* write() writes at the file position and moves it, pwrite() does neither.
WriteSome ==
  /\ pc = "loop" /\ op \in {"full_write", "full_pwrite"} /\ count > 0
  /\ \E n \in 1 .. Chunk :
       LET data == SubSeq(Source(req), Len(buf) + 1, Len(buf) + n)
           at   == IF op = "full_write" THEN fpos ELSE offset
       IN  /\ file' = Overwritten(file, at, data)
           /\ buf' = buf \o data /\ count' = count - n
           /\ offset' = offset + n
           /\ fpos' = IF op = "full_write" THEN fpos + n ELSE fpos
  /\ UNCHANGED <<pc, op, fd, errno, code, calls, req, before, stream, shared>>

WriteError ==
  /\ pc = "loop" /\ op \in {"full_write", "full_pwrite"} /\ count > 0
  /\ errno' \in Errnos
  /\ Return("false")
  /\ UNCHANGED <<op, fd, file, fpos, offset, count, buf, calls, req, before,
                 stream, shared>>

WriteDone ==
  /\ pc = "loop" /\ op \in {"full_write", "full_pwrite"} /\ count = 0
  /\ Return(NoErrno)
  /\ UNCHANGED <<op, fd, errno, file, fpos, offset, count, buf, calls, req,
                 before, stream, shared>>

\* Mutant: the file is given exactly the size asked for.
PreallocateTruncates(size) ==
  /\ pc = "idle" /\ code = NoErrno /\ calls < MaxCalls
  /\ fd = "write"
  /\ file' = IF size <= Len(file) THEN SubSeq(file, 1, size)
             ELSE Overwritten(file, size - 1, <<0>>)
  /\ op' = "preallocate" /\ req' = size
  /\ before' = [file |-> file, fpos |-> fpos]
  /\ calls' = calls + 1
  /\ UNCHANGED <<pc, fd, errno, code, fpos, offset, count, buf, stream, shared>>

\* preallocate_file(): posix_fallocate() extends a file, never shortens it,
\* and returns its error instead of setting errno.
Preallocate(size) ==
  /\ pc = "idle" /\ code = NoErrno /\ calls < MaxCalls
  /\ fd = "write"
  /\ \/ /\ file' = IF size <= Len(file) THEN file
                   ELSE Overwritten(file, size - 1, <<0>>)
        /\ code' = NoErrno
     \/ size # 0 /\ code' = "false" /\ UNCHANGED file
  /\ op' = "preallocate" /\ req' = size
  /\ before' = [file |-> file, fpos |-> fpos]
  /\ calls' = calls + 1
  /\ UNCHANGED <<pc, fd, errno, fpos, offset, count, buf, stream, shared>>

\* filedes_close(): the descriptor is gone even if close() fails.
Close ==
  /\ pc = "idle" /\ fd # "closed"
  /\ fd' = "closed"
  /\ code' \in {NoErrno, "false"}
  /\ errno' \in IF code' = "false" THEN Errnos ELSE {errno}
  /\ UNCHANGED <<pc, op, file, fpos, offset, count, buf, calls, req, before,
                 stream, shared>>

\* Another process truncates the file or appends to it; between two calls is
\* the same as before the first transfer of the second one.
Interfere ==
  /\ pc = "loop"
  /\ \/ Len(file) > 0 /\ file' = Front(file)
     \/ Len(file) < MaxSize /\ file' = Append(file, Foreign)
  /\ shared' = TRUE
  /\ UNCHANGED <<pc, op, fd, errno, fpos, offset, count, buf, code, calls, req,
                 before, stream>>

Transfer == ReadSome \/ ReadEof \/ ReadDone \/ WriteSome \/ WriteDone

Next ==
  \/ OpenFile
  \/ \E o \in Ops, n, off \in 0 .. MaxSize : Begin(o, n, off)
  \/ \E size \in 0 .. MaxSize : Preallocate(size)
  \/ Transfer \/ ReadError \/ WriteError
  \/ Close
  \/ Interfere

\* Only the loops must go on: no call must follow another, and the kernel need
\* not report an error.  A write() of a nonempty buffer writes something.
Spec == Init /\ [][Next]_vars /\ WF_vars(Transfer)

----------------------------------------------------------------------------
(***************************************************************************)
(* read_callback() returns 0 exactly if it delivered every byte it was     *)
(* asked for, however the reads were split and whatever happened to the    *)
(* file: a file that ended early gives an error, although errno is 0 then. *)
(***************************************************************************)
ReadAllOrError ==
  pc = "idle" /\ op = "read_callback" /\ fd # "closed" =>
    (code = NoErrno <=> Len(buf) = req)

(***************************************************************************)
(* Successive calls of read_callback() deliver the file's bytes in order,  *)
(* none skipped and none twice: what libfsverity hashes is the file, as    *)
(* long as nobody else changes it.                                         *)
(***************************************************************************)
StreamInOrder ==
  fd = "read" /\ ~shared =>
    /\ stream = SubSeq(file, 1, Len(stream))
    /\ pc = "idle" /\ code = NoErrno => fpos = Len(stream)

(***************************************************************************)
(* full_write() and full_pwrite() put the whole buffer at their place and  *)
(* touch nothing else, however the writes were split; if they fail, they   *)
(* have written a prefix of it.                                            *)
(***************************************************************************)
WholeWrite ==
  op \in {"full_write", "full_pwrite"} /\ ~shared =>
    LET start == IF op = "full_write" THEN before.fpos ELSE offset - Len(buf)
    IN  /\ file = Overwritten(before.file, start, buf)
        /\ IsPrefix(buf, Source(req))
        /\ pc = "idle" /\ fd = "write" /\ code = NoErrno => buf = Source(req)

(***************************************************************************)
(* preallocate_file() makes the file at least as long as asked and loses   *)
(* no byte of it: a longer file keeps its tail.                            *)
(***************************************************************************)
PreallocateKeepsData ==
  op = "preallocate" /\ pc = "idle" =>
    /\ IsPrefix(before.file, file)
    /\ fd = "write" /\ code = NoErrno => Len(file) >= req

(***************************************************************************)
(* The loops of full_read(), full_write() and full_pwrite() end, also when *)
(* another process keeps changing the file.                                *)
(***************************************************************************)
LoopsEnd == pc = "loop" ~> pc = "idle"
=============================================================================
