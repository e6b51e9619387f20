# fsverity-utils in TLA+

A model of fsverity-utils (the `libfsverity` library and the `fsverity`
program): what it computes, in which order it calls back, what it leaves open
or allocated when something fails, and what it tells its caller.

## The system and the modules

| part of the system | source | module |
|---|---|---|
| Merkle tree and root hash | `lib/compute_digest.c`, `compute_root_hash()` | `MerkleTree` |
| — its promise | | `MerkleSpec`, over `MerkleReference` |
| file digest, hash context | `lib/compute_digest.c`, `lib/hash_algs.c` | `ComputeDigest` (extends `MerkleTree`) |
| — its promise | `include/libfsverity.h`, and the checks of the parameters | `DigestSpec` |
| hash algorithm table | `lib/hash_algs.c` | `HashAlgs` |
| file operations | `programs/utils.c` | `FileIo` |
| what `main()` and the commands share | | `Program`; `Command` (extends it) |
| tree options, metadata output | `programs/fsverity.c` | `TreeParams` (extends `Command`) |
| `fsverity digest` | `programs/cmd_digest.c` | `CmdDigest` (extends `TreeParams`) |
| error callback and errno | `lib/utils.c`, `lib/sign_digest.c` | `ErrorMsg` |
| signing, both builds | `lib/sign_digest.c` | `SignDigest` (extends `ErrorMsg`) |
| — its promise | `include/libfsverity.h` | `SignSpec` |
| `fsverity sign` | `programs/cmd_sign.c` | `CmdSign` (extends `TreeParams`, uses `SignSpec`) |
| `fsverity enable` | `programs/cmd_enable.c`, `lib/enable.c` | `CmdEnable` (extends `TreeParams`) |
| `fsverity measure` | `programs/cmd_measure.c` | `CmdMeasure` (extends `Command`, `HexConv`) |
| hex conversion | `programs/utils.c` | `HexConv` |
| `fsverity dump_metadata` | `programs/cmd_dump_metadata.c` | `CmdDumpMetadata` (extends `Command`) |
| `main()`, usage | `programs/fsverity.c` | `FsverityMain` (extends `Program`) |

`Program` has where the program is, which argument or file is next and its exit
status; `Command` adds the file at hand and the ways to the label `out`.
`MC*` modules are the small instances (`MCParams` has what they share), and
`*Proofs` modules the proofs.

The program opens a file, takes its size, and calls the library with a read
callback (`FileIo`) and metadata callbacks (`TreeParams`); the library checks
the parameters, builds the tree, and hashes the descriptor. The chain of models
follows this: `MerkleTree` implements `MerkleSpec`; `ComputeDigest`, made of
`MerkleTree`'s steps and its own, implements `DigestSpec`; `CmdDigest` uses
`DigestSpec` as the library, with the program's callbacks in its steps.
Likewise `SignDigest` implements `SignSpec`, and `CmdSign` is made of its own
steps, those of `DigestSpec` and those of `SignSpec`. `digest`, `sign` and
`enable` must agree on what the options and the defaults mean, or a signature
would not fit the file; one operator, `TreeParams!AsGiven`, states this meaning,
and the three commands' properties compare their results with it.

### MerkleTree

The variables are the locals of `compute_root_hash()` under the code's names.
`pc` is the loop or section the code is in: `levels` (count blocks per level),
`layout` (start of each level), `alloc`, `read` (next data block), `cascade`
(tree blocks that became full), `flush` (pending blocks at the end), `out`.
Each action is one iteration of one loop. `filled` and `data` are the block
buffers, level -1 for data and level `num_levels` for the root hash; `mem` says
what each pointer points to. A hash is symbolic: the digest of the k-th block
hashed at level l is `<<l, k>>`, and the history variable `tree` has what was
hashed, so equal digests mean equal blocks (no collisions). 64-bit arithmetic
wraps at `2^WordBits`. `MerkleReference` defines the tree of a file in closed
form, without the code's loops, and is what the results are compared with.

The salt is a length and an allocation: it does not influence the tree's shape.
A failed read may leave bytes in the data buffer; nothing uses them.
What a call relies on is `ValidCall`: `CheckedCall`, which the caller's checks
establish, and `SizeFits`, that `file_size + block_size <= 2^WordBits`. The code
checks this last one nowhere. The programs meet it because `st_size` is signed.
An error is named by where it arises; as a number, what `read_fn` or a callback
returns may be any code, those of the library included.

### ComputeDigest

`BadParams` is the list of the function's own `-EINVAL` conditions. The hash
context is two allocations, each of which may fail. While `dpc = "root"` the
steps are those of `MerkleTree`. That OpenSSL's digest size equals the table's is assumed, so
the `WARN_ON` in `openssl_digest_ctx_create()` is left out; a failing OpenSSL
hash call aborts the program (`BUG_ON`) and is left out too.

### FileIo

One file and a sequence of calls on it. Every `read()` or `write()` may be
short, may fail, and another process may shorten or extend the file in between.
Printing an error message may change `errno`. The POSIX variants are modelled,
not the Windows ones.

### TreeParams, CmdDigest

An option is a record of what `strtoul()` or `hex2bin()` makes of its argument.
A tree file is a sequence of blocks, each naming the input, level and index it
came from, or a hole, or a torn block after a failed write. The two outputs are
distinct files. Out of memory aborts the program (`xmalloc()`) and is left out.
Of a printed line the model keeps the digest and which names surround it. The
commands do not check the result of `printf()`; that a line was printed assumes
that standard output works. `digest` and `measure` do not notice if it does not.

### ErrorMsg, SignDigest

A report is a sequence of messages: the function's own and, after a failure of
OpenSSL, a header and one message per queued error. Formatting, the callback and
OpenSSL may leave any value in `errno`, and the callback may remove itself.
`SignDigest` starts a report wherever the code prints, and goes on when it is
over. `ptr` is what each pointer variable points to and `live` the objects that
exist, so a freed object is told from a null pointer. `Call` is the common form
of the code's steps: call, test, report, `goto out`. In the model the engine's
structural and functional references are two objects. In the BoringSSL build the
serial number's allocation is not checked; the model then either fails in the
chain of `CBB` calls before it, or crashes (`pc = "crashed"`).
Of the PKCS#7 message the model keeps what is signed, by which key, for which
certificate, and the name that identifies the signer. The `WARN_ON` of
`new_mem_buf()` is left out: the formatted digest is a few bytes long.

### CmdSign, CmdEnable

The signature file is `old`, `empty`, `torn` or `whole`. In `CmdEnable` the
signature file has bytes, is read one byte at a time, and another process may
replace it at any moment it is open; the history variable `contents` has all
that it contained. The kernel is external: the ioctl
copies its argument or fails. The `u32` size field wraps at `U32`.

### CmdMeasure, CmdDumpMetadata, FsverityMain

The buffer of `measure` is shared by its files and keeps the bytes of earlier
digests. `bin2hex()` and `hex2bin()` are those of `HexConv`, on character codes.
In `CmdDumpMetadata` a byte of the metadata is its position, and the kernel
returns any nonempty part of what was asked for. There `xzalloc()` of the length
the user gives may abort the program. `FsverityMain` has the
scan for `--help` and `--version`, the command lookup and the loop that lists
the hash algorithms; the command itself is its name.

## Runs

| run | states | shows |
|---|---|---|
| `merkle_tree` | 28,712 | the tree hashed and reported is the file's, within bounds, nothing leaks, the call returns, `MerkleSpec` is implemented |
| `compute_digest` | 16,729 | the checks establish `compute_root_hash()`'s preconditions, the first failure ends the call and is returned, ownership, `DigestSpec` is implemented |
| `file_io` | 874,959 | whole transfers or an error, in order, and the loops end |
| `cmd_digest` | 24,532 | what exit status 0 means, what the outputs hold, it exits and nothing leaks |
| `sign_digest` | 134,848 | every object is freed once and used only while it exists, the errno of a failed open is returned, `SignSpec` is implemented |
| `cmd_sign` | 3,348 | what exit status 0 means, when an old signature is given up, it exits and nothing leaks |
| `cmd_enable` | 39,900 | the kernel gets the parameters asked for and the signature read from the file, what the exit status tells, it exits and nothing leaks |
| `cmd_measure` | 1,059 | each file's own digest is printed, none refused for want of room, it exits and nothing leaks |
| `cmd_dump_metadata` | 3,258 | the metadata in order, all of it or what one read of a range returned, and the loop ends |
| `fsverity_main` | 7,401 | which command runs, what is shown instead, every hash algorithm is listed |
| `cmd_digest_tree`, `sign_issuer` | | violated: see Findings |

That a command exits and that it has closed and freed everything by then is one
liveness property for each command (`ExitCleansUp` and its like). Termination of
the two library calls is part of the promises they implement.

Bounds. `merkle_tree`: a 5-bit word and block/digest sizes 2/1, 4/1 and 4/2,
with every file size from 0 to the largest valid one. That gives trees of zero
to four levels, full and partial last blocks at each level, and levels that are
empty when the final loop reaches them. `compute_digest`: a 4-bit word; every
combination of the checked parameters for two file sizes, every file size for
valid ones. `file_io`: three bytes, two per system call, two calls after the
open, one errno value besides "none". `cmd_digest`: all sequences of up to two
options out of fifteen, good and bad (plus both outputs and a third option), up
to two files of 0, 3 or 5 bytes; two files are what it takes for one to disturb
the other. `sign_digest`: every combination of key file, certificate and token
parameters, and malformed ones, in both builds; two values of errno besides
"none", up to two queued errors. `cmd_sign`: key and certificate options given,
missing and repeated, with tree options good and bad. `cmd_enable`: signature
files of zero to three bytes with a limit of two, replaced up to twice, so that a
file can shrink after the size check and change back. `cmd_measure`: up to three
files with digests of different sizes, so that a short one comes before and
after a long one. `cmd_dump_metadata`: up to five bytes, two per read. `fsverity_main`:
all command lines of up to four words.

Fairness. The library and the command are one thread that keeps running and
whose callbacks return: weak fairness of the whole step, so no particular
outcome (success or failure) is forced. In `CmdEnable` the process that replaces
the signature file is not fair and acts a bounded number of times; in
`SignDigest` the program that sets the callback is not. In `FileIo` only transfers, and the
ends of the loops, are fair: errors need not happen, and a write of a nonempty
buffer writes at least a byte, which the code relies on as it has no case for 0.
`file_io` does not check for deadlock: a caller may simply stop calling.

Each property is paired with a mutant, a definition that differs from the
model's by a plausible bug; with it in place TLC finds the property violated.

## Findings

`fsverity digest` accepts several files together with `--out-merkle-tree` and
`--out-descriptor`, each of which names one file. The outputs are opened once.
Trees of successive files overwrite each other, and a longer earlier tree stays
visible behind a shorter one (`cmd_digest_tree`); descriptors are concatenated.
The manual speaks of "the computed Merkle tree" and "the computed fs-verity
descriptor". The exit status is 0. `OutputsHoldThisFile` states what does hold.

The BoringSSL variant of `sign_pkcs7()` identifies the signer by the
certificate's subject name and serial number (`lib/sign_digest.c:139`). The
section of RFC 2315 that the code refers to (`:177`) has the issuer's name there,
as has the message of the OpenSSL build. The two agree for self-signed
certificates only (`sign_issuer`).

## Proofs

Every safety property that a passing run checks is also a theorem, for every
value of the constants that the assumptions admit; so are the safety parts of
the three promises.

| module | theorems | of the properties |
|---|---|---|
| `MerkleTreeProofs` | `Invariance`, `TypeCorrect`, `BoundsSafety`, `WarnOnsNeverFire` | `IInv`, `TypeOK`, `BuffersInBounds`, `NoInternalError` |
| `MerkleShapeProofs` | `MemoryIsOwned`, `HashesTheTree`, `RefinesMerkleSpec` | `MemoryOwnership`, `TreeShape`, `MerkleSpec!Safety` |
| `MerkleLayoutProofs` | `ReportsTheLayout`, `SuccessIsWhole` | `ReportedLayout`, `SuccessMeansWholeTree` |
| `ComputeDigestProofs` | `ChecksEnough`, `OnlyTheDigestIsLeft`, `DigestIsOfTheFile`, `FirstFailureReturned`, `RefinesDigestSpec` | `RootHashPrecondition`, `CallerOwnsDigest`, `DigestOfWholeFile`, `FailureIsFinal`, `DigestSpec!Safety` |
| `FileIoProofs` | `ReadIsComplete`, `ReadsInOrder`, `WritesWhole`, `PreallocateKeeps` | `ReadAllOrError`, `StreamInOrder`, `WholeWrite`, `PreallocateKeepsData` |
| `SignDigestProofs` | `SignReturnsCause`, `SignReleasesOnce`, `SignOperandsLive`, `SignImplementsSpec`; `ErrnoSurvives`, `CallbackSafe` | `OpenErrorReturned`, `ReleasedOnce`, `OperandsLive`, `SignSpec!SignSafety`; reports of `ErrorMsg` by themselves |
| `CommandProofs` | `MainDispatches`; `EnableAsAsked`, `EnableSignatureRead`, `EnableStatusIsTrue`; `SignSucceeds`, `SignKeepsFileSafe`; `DigestPrintsEveryFile` | `DispatchesCommand`; `EnabledAsAsked`, `SignatureFromFile`, `EnableStatusTells`; `SignSuccess`, `SignatureFileSafe`; `SuccessPrintsEveryFile` |
| `OutputProofs` | `HexRoundTrip`, `MeasurePrintsDigests`, `MeasureHasRoom`; `DumpsInOrder`, `DumpsWhatWasRead`; `DigestOutputsHold` | `hex2bin()` inverts `bin2hex()`; `MeasuredDigests`, `RoomForEveryDigest`; `DumpInOrder`, `DumpComplete`; `OutputsHoldThisFile` |

### The Merkle tree

`BuffersInBounds` is not inductive: that the root hash receives one digest only
depends on how many blocks all levels have hashed. `IInv` adds `LevelCounts`
(each level has just enough blocks for the one below, at most half as many, and
the last has one) and `PendingCounts` (a buffer holds exactly the digests
produced below and not consumed, less than a block of them once the level had
its turn, and no level hashes more blocks than it has). The number of levels is
bounded since the block count at least halves: after n levels it is at most
`2^(WordBits - n)`. There is a lemma per action, and a common one for the two
loops that finish blocks (`FinishBlockFacts`).

`ShapeInv` relates the same state to `MerkleReference`: the levels counted are
those of the closed form, and what is pending in a buffer are the last digests
of the level below, in order. Each block hashed is then the reference's
(`TreeShape`), a block is hashed after its children and once, which is
`RefinesMerkleSpec`. `MemInv` says which pointers are live at each `pc`.
`LayoutInv` has the offsets: the levels are placed from the top down, so
`offset` counts the blocks above the level reached, and no sum leaves the word.
That a level starts where the blocks above it end is an argument about the
cardinality of that set of blocks, one level at a time.

### The digest

`ComputeDigest` takes the steps of `MerkleTree` as its own, so `DigestInv` holds
the invariants above while `dpc = "root"`; they begin to hold because
`BadParams` rules out every call that does not meet `CheckedCall`
(`ChecksEnough`), and `SizeFits` is assumed of the parameters. `HeapInv`
and `PhaseInv` say what is allocated and known in each phase, and `FailInv`
where an error is: once `compute_root_hash()` has one it only frees its buffers,
and what it returned is returned (`FirstFailureReturned`, of the action property
`FailureIsFinal`). For
`RefinesDigestSpec` a step of `compute_root_hash()` that reports a block, or the
size, is the promise's step for it, and every other one stutters; `ToldInv` says
what has been reported so far.

### File operations

`IInv` of `FileIoProofs` is about the loops: buffer, offset and remaining count
always add up to what was asked (`LoopInv`), what was read or written so far is
the prefix of it at its place (`ReadInv`, `WriteInv`), and preallocation
leaves every byte of the old file in place (`PreallocInv`).

### Signing

A step of `SignDigest` is a step of `ErrorMsg` or leaves its variables alone.
`ErrnoInv` says where the caller's `errno` is during a report: in `saved_errno`
of the message in progress or, while OpenSSL's queue is printed, in the one
`error_msg_openssl()` saved; after a failed open the function only reads `errno`
and leaves (`OpenInv`). For ownership, `OwnInv` ties the objects that exist to the
pointers that hold them, step by step (`HeldInv`), and says what is known of the
arguments, the error and the signature on each path (`PathInv`).

### The commands

The parsing of the tree options is shared, and so are its lemmas: the parameters
are at each point the meaning, by `AsGiven`, of the options read so far, and a
power of two is shifted from and to its logarithm without loss. On this rest

- `EnableInv`: the signature held has the size checked, and each of its bytes
  was at its place in the signature file, or it is absent; if the other process
  did nothing, it is the file. A file replaced under the read can give the start
  of a longer one, or bytes of two;
- `SignInv`: what has been computed, signed and stored at each point, and that
  status 0 is out of reach once something failed;
- `PrintInv`: the lines printed are those of the files before the current one;
- `OutputInv`: the library has called back for these blocks, hence these places
  of the tree file hold blocks of the current file. That two blocks never
  share a place, and that all lie within the preallocated length, follows from
  the layout of levels as above (`BlockPlaces`). Without it a block written
  later could overwrite one that was already in place. It rests on `ParamsInv`:
  the block size in force is one that the options can ask for.

`CmdSign` and `CmdDigest` take the steps of `DigestSpec` and `SignSpec` for the
library; that the library implements these is `RefinesDigestSpec` and
`SignImplementsSpec`.

`MainInv` says what the arguments passed over have asked for. `MeasureInv` tracks
the buffer that successive files share and the room announced to the kernel.
`DumpInv` says that what was written is the stretch from the offset asked for to
the current one, and how much is left of the length; for a range, that it is
what the one `ioctl()` returned, which may be less than was asked for.

### Assumptions

They are named, stand with the constants, and TLC evaluates them in the runs.

- The level table has an entry per bit of the word (`WidthAssumption`); hash
  algorithms have positive digest sizes and distinct names, without a gap in
  their numbers (`TableAssumption`, `MainAssumption`), and the sizes are powers
  of two (`DigestSizeAssumption`).
- Calls are valid (`CallsAssumption`). For `libfsverity_compute_digest()`,
  `ChecksEnough` shows the part `CheckedCall`; the other, the size bound
  `SizeFits`, is assumed (`ParamsAssumption`) and is up to its caller.
- What exponentiation is, which the provers do not know: `PowerAssumption`,
  `HeightAssumption`, `ExponentAssumption`, `PowersAssumption`.
  `LevelsAssumption` says that dividing a size by the arity, again and again,
  comes to one block: an induction.
- Constants standing for "none" differ from every value they are used beside:
  `NullAssumption`, `NoCallAssumption`, `NoVerityAssumption`, `ErrAssumption`,
  `ErrnoAssumption`, `NamesAssumption`.
- Inputs have their types and the sizes of the code's limits: `OptionsAssumption`
  (also that the name of a hash algorithm is not a number), `DumpsAssumption`,
  `SizesAssumption`, `SizeAssumption`, `SigSizeAssumption` (the limit on signatures fits 32 bits),
  `SigFilesAssumption`, `DigestsAssumption` (no digest is longer than
  `FS_VERITY_MAX_DIGEST_SIZE`).

### Only model-checked

- All liveness, which is beyond the prover: `Termination`, `LoopsEnd`,
  `DumpTermination`, the commands' `ExitCleansUp`, `SignExitCleansUp`, `EnableExitCleansUp` and
  `MeasureExitCleansUp`, and the halves of `MerkleSpec`, `DigestSpec` and `SignSpec`
  that promise a return. That nothing is left open or allocated at a command's
  exit is stated together with reaching the exit, so it stays with TLC as well.

## Inventory: what is hard, per part

- Merkle tree: interleaved levels, reused buffers, reused `level_offset[]`,
  sizes at block and level boundaries, failure of any callback or allocation.
- Digest: preconditions checked in one function and used in another; two-part
  hash context; result only on success.
- File operations: short transfers, end of file with `errno` 0, a changing file.
- Commands: state shared between files, exits from the middle, late `close()`
  errors.
- Signing: `errno` across error callbacks, objects freed once on every path,
  engine references, key and certificate rules.
- Enable, measure, dump: the kernel as an external party, the 32-bit signature
  size, a signature file that changes, the loop until end of metadata.

## Not modelled

- The Windows variants of the file operations (`win32_defs.h`, `#ifdef _WIN32`).
- Hash functions, signature schemes and the encoding of PKCS#7: they belong to the
  crypto library. `libfsverity_hash_init()` and its like only forward to it.
- `xmalloc()` failing in the commands other than `dump_metadata`: it aborts the
  program, and nothing more happens.
- The layout of printed lines, usage texts and messages, and which error text is
  printed (`posix_fallocate()` returns its error, while `preallocate_file()`
  prints `errno`: the text may be wrong, the result is not).
- A program that changes the error callback from another thread during a report.
- The header files (declarations) and the test programs.
