--------------------------- MODULE CmdDumpMetadata ---------------------------
(***************************************************************************)
(* fsverity dump_metadata (programs/cmd_dump_metadata.c): copy the Merkle  *)
(* tree, descriptor or signature of a verity file from the kernel to       *)
(* standard output: all of it, or what one read of a range returns.  A     *)
(* byte of the metadata is named by its position.                          *)
(***************************************************************************)
EXTENDS Integers, Sequences, Command

CONSTANTS
  Dumps,    \* records of opts, a sequence of options, and args
  MetadataTypes,   \* the names parse_metadata_type() knows
  MetadataSizes,           \* how much metadata there may be
  DefaultLength,   \* 32768 in the code
  SizeMax          \* SIZE_MAX

ASSUME SizesAssumption == MetadataSizes \subseteq Nat /\ DefaultLength \in Nat \ {0}
ASSUME DumpsAssumption ==
  \A c \in Dumps :
    /\ c.opts \in Seq({c.opts[k] : k \in DOMAIN c.opts})
    /\ \A k \in DOMAIN c.opts : c.opts[k].n \in Nat /\ c.opts[k].clean \in BOOLEAN

VARIABLES
  dump,
  arg,         \* offset and length of struct fsverity_read_metadata_arg
  offset_specified, length_specified,
  size,        \* how much metadata of this type the kernel has
  buf,         \* whether it is allocated, and what the last ioctl returned
  stdout

optvars == <<dump, offset_specified, length_specified, size>>
dumpvars == <<pc, optvars, i, arg, file, buf, stdout, status>>

CmdDumpMetadataInit ==
  /\ dump \in Dumps /\ size \in MetadataSizes
  /\ pc = "options" /\ i = 1 /\ arg = [offset |-> 0, length |-> DefaultLength]
  /\ offset_specified = FALSE /\ length_specified = FALSE
  /\ file = "closed" /\ buf = [live |-> FALSE, data |-> <<>>]
  /\ stdout = <<>> /\ status = 0

\* --offset and --length, each once.  strtoull() stores its result before it
\* is looked at; "clean" says that it set no errno and left no characters.
ParseOption ==
  /\ pc = "options" /\ i <= Len(dump.opts)
  /\ LET o == dump.opts[i]
     IN  \/ /\ o.opt = "offset" /\ ~offset_specified
            /\ arg' = [arg EXCEPT !.offset = o.n] /\ offset_specified' = o.clean
            /\ IF o.clean THEN Goto("options") ELSE Usage
            /\ UNCHANGED length_specified
         \/ /\ o.opt = "length" /\ ~length_specified
            /\ arg' = [arg EXCEPT !.length = o.n]
            /\ length_specified' = (o.clean /\ o.n <= SizeMax)
            /\ IF length_specified' THEN Goto("options") ELSE Usage
            /\ UNCHANGED offset_specified
         \/ /\ o.opt \notin {"offset", "length"} \/ (o.opt = "offset" /\ offset_specified)
                 \/ (o.opt = "length" /\ length_specified)
            /\ Usage /\ UNCHANGED <<arg, offset_specified, length_specified>>
  /\ i' = i + 1
  /\ UNCHANGED <<dump, size, file, buf, stdout>>

BadRange ==
  \/ length_specified /\ ~offset_specified
  \/ offset_specified /\ ~length_specified

\* parse_metadata_type() looks the name up in metadata_types[].
ParseMetadataType(name) == name \in MetadataTypes

OptionsDone ==
  /\ pc = "options" /\ i > Len(dump.opts)
  /\ IF Len(dump.args) = 2 /\ ParseMetadataType(Head(dump.args)) /\ ~BadRange
       THEN \/ buf' = [buf EXCEPT !.live = TRUE] /\ Goto("open")
            \/ Goto("aborted") /\ UNCHANGED buf   \* xzalloc() found no memory
       ELSE Usage /\ UNCHANGED buf
  /\ UNCHANGED <<optvars, i, arg, file, stdout>>

OpenFile ==
  /\ pc = "open"
  /\ \/ file' = "open" /\ Goto("read")
     \/ OutErr /\ UNCHANGED file
  /\ UNCHANGED <<optvars, i, arg, buf, stdout>>

\* FS_IOC_READ_VERITY_METADATA: at most length bytes from offset on, at least
\* one if there are any
MetadataRead ==
  {SubSeq([k \in 1 .. size |-> k], arg.offset + 1, arg.offset + n) :
     n \in {m \in 0 .. arg.length : /\ m = 0 \/ arg.offset + m <= size
                                    /\ m = 0 => arg.length = 0 \/ arg.offset >= size}}

\* Mutant: a read of nothing is not the end.
AtEndNever(data) == FALSE

AtEnd(data) == data = <<>>

ReadMetadata ==
  /\ pc = "read"
  /\ \/ /\ \E data \in MetadataRead :
             /\ buf' = [buf EXCEPT !.data = data]
             /\ IF AtEnd(data) THEN pc' = "out" /\ status' = 0 ELSE Goto("write")
     \/ OutErr /\ UNCHANGED buf
  /\ UNCHANGED <<optvars, i, arg, file, stdout>>

\* Mutant: the offset advances by what was asked for.
AdvanceByLength == arg.length

Advance == Len(buf.data)

\* Mutant: a range is read on to the end of the metadata, too.
ReadOnAlways == TRUE

ReadOn == ~length_specified

\* full_write(), and the end of the loop
WriteOut ==
  /\ pc = "write"
  /\ \/ /\ stdout' = stdout \o buf.data
        /\ arg' = [arg EXCEPT !.offset = @ + Advance]
        /\ IF ReadOn THEN Goto("read") ELSE pc' = "out" /\ status' = 0
     \/ /\ \E n \in 0 .. Len(buf.data) - 1 : stdout' = stdout \o SubSeq(buf.data, 1, n)
        /\ OutErr /\ UNCHANGED arg
  /\ UNCHANGED <<optvars, i, file, buf>>

Out ==
  /\ pc = "out" /\ buf' = [buf EXCEPT !.live = FALSE] /\ Goto("exit")
  /\ file' = "closed"
  /\ UNCHANGED <<optvars, i, arg, stdout>>

CmdDumpMetadataStep ==
  ParseOption \/ OptionsDone \/ OpenFile \/ ReadMetadata \/ WriteOut \/ Out

CmdDumpMetadataExited == pc \in {"exit", "aborted"} /\ UNCHANGED dumpvars

\* The process runs, and the ioctl returns.
CmdDumpMetadataSpec ==
  /\ CmdDumpMetadataInit /\ [][CmdDumpMetadataStep \/ CmdDumpMetadataExited]_dumpvars
  /\ WF_dumpvars(CmdDumpMetadataStep)

----------------------------------------------------------------------------
\* The number given to the option named opt, or n
Given(opt, n) ==
  LET K == {k \in DOMAIN dump.opts : dump.opts[k].opt = opt}
  IN  IF K = {} THEN n ELSE dump.opts[CHOOSE k \in K : TRUE].n

(***************************************************************************)
(* At every moment what was written to standard output is a stretch of the *)
(* metadata that starts at the offset asked for, with no byte skipped or   *)
(* repeated between two reads.                                             *)
(***************************************************************************)
DumpInOrder ==
  /\ \A k \in DOMAIN stdout : stdout[k] = Given("offset", 0) + k
  /\ Len(stdout) <= size

(***************************************************************************)
(* Status 0 without --offset and --length means that all the metadata was  *)
(* written.  With them it means that what the one ioctl returned was:      *)
(* something, unless there is nothing to read there, and no more than the  *)
(* length asked for, but maybe less, since a short read is not repeated.   *)
(* One of the two options alone, or twice, is an error before anything is  *)
(* written.                                                                *)
(***************************************************************************)
DumpComplete ==
  /\ pc = "exit" /\ status = 0 =>
       IF dump.opts = <<>> THEN Len(stdout) = size
       ELSE /\ stdout = buf.data /\ Len(stdout) <= Given("length", 0)
            /\ stdout = <<>> => Given("length", 0) = 0 \/ Given("offset", 0) >= size
  /\ status = 2 => stdout = <<>>
  /\ stdout # <<>> => Len(dump.opts) \in {0, 2}

(***************************************************************************)
(* The loop over the metadata ends, whatever the kernel returns at a time, *)
(* and at exit the file is closed and the buffer freed; only for want of   *)
(* memory the command is aborted before it.                                *)
(***************************************************************************)
DumpTermination ==
  <>(pc = "aborted" \/ (pc = "exit" /\ ~buf.live /\ file = "closed"))
=============================================================================
